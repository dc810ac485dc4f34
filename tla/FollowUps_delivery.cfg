\* Two scans of two memories overlap, one of which has no destination; a call may fail.
CONSTANTS
  m1 = m1
  m2 = m2
  url1 = url1
  s1 = s1
  s2 = s2
  w1 = w1
  Events = {m1, m2}
  Urls = {url1}
  Endpoints <- OneHasUrl
  MaxBatchSize = 2
  Emitters = {s1, s2}
  MaxSending = 1
  Rank <- Listed
  Scans = {s1, s2}
  Editors = {w1}
  Edited = {m2}
  Page = 1
  MaxCount = 1
  MaxTime = 2
  MaxEdits = 1
  MaxFailures = 1
SPECIFICATION Spec
INVARIANTS
  BuffersAccount
  NeverSilenced
PROPERTIES
  OncePerDate
  Reminded

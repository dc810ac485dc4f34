\* One request at a time, nothing fails: two spaces that share a copy, a group, friends.
CONSTANTS
  s1 = s1
  s2 = s2
  g1 = g1
  r1 = r1
  r2 = r2
  ok = ok
  bad = bad
  Public = Public
  Friends = Friends
  NoCollection = NoCollection
  Spaces = {s1, s2}
  Groups = {g1}
  Contents = {ok}
  Acceptable = {ok}
  Moderated = {}
  ModeratorActions = {}
  Requests = {r1}
  Overlap = FALSE
  Faults = FALSE
  ConfigFaults = FALSE
  MaxRevisionHistory = 2
  MaxStarts = 3
SPECIFICATION Spec
INVARIANTS
  TrackingMatchesCopies
  RetractHonoured
  PublishHonoured
PROPERTY ImplementsRegistry

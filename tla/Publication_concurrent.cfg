\* Two requests, an update and a moderator overlap in a group with moderation;
\* calls fail and processes die.
CONSTANTS
  s1 = s1
  s2 = s2
  g1 = g1
  r1 = r1
  r2 = r2
  ok = ok
  bad = bad
  Public = Public
  Friends = Friends
  NoCollection = NoCollection
  Spaces = {}
  Groups = {g1}
  Contents = {ok, bad}
  Acceptable = {ok}
  Moderated = {g1}
  ModeratorActions = {"approved"}
  Requests = {r1, r2}
  Overlap = TRUE
  Faults = TRUE
  ConfigFaults = FALSE
  MaxRevisionHistory = 1
  MaxStarts = 3
SPECIFICATION Spec
SYMMETRY Interchangeable
INVARIANTS
  TrackedHasCopy
  GroupsModerated
PROPERTIES
  RevisionKeepsContent
  GroupsImplementRegistry
\* MaxStarts executions and the instance stops.
CHECK_DEADLOCK FALSE

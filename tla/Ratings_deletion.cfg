\* Two requests overlap with one another and with a deletion that may be repeated.
CONSTANTS
  leaver = leaver
  stays = stays
  mine = mine
  other = other
  users_leaver = users_leaver
  users_other = users_other
  preferences = preferences
  permissions = permissions
  escalation = escalation
  r1 = r1
  r2 = r2
  Users = {leaver, stays}
  Memories = {mine, other}
  Collections = {users_leaver, users_other}
  CollectionOf <- HomeOf
  Stars = {1, 4}
  MinProfileSize = 1
  VectorFetchCap = 1
  Requests = {r1, r2}
  Failing = TRUE
  MaxStarts = 2
  Leaver = leaver
  UserOwned = {users_leaver}
  Documents = {preferences, permissions, escalation}
  Paths = {preferences, permissions}
  Permissions = permissions
  MaxCalls = 2
SPECIFICATION DeletionSpec
INVARIANTS
  AggregatesMatch
  IndexesAgree
  CentroidKnowsHighs
  ReportsHonestly
\* MaxCalls calls and the instance stops.
CHECK_DEADLOCK FALSE

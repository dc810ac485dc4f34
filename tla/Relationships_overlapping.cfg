\* Two requests on one foreign and two owned memories overlap, and calls fail.
CONSTANTS
  a = a
  b = b
  f = f
  r1 = r1
  r2 = r2
  q1 = q1
  q2 = q2
  Memories = {a, b, f}
  Owned = {a, b}
  Ids = {r1, r2}
  Requests = {q1, q2}
  Failing = TRUE
  MaxAdded = 1
  MaxStarts = 2
SPECIFICATION Spec
SYMMETRY Interchangeable
INVARIANTS
  LinksMatch
  CountMatches
  OrderMatches
  ReorderingsMeant
\* MaxStarts requests and the instance stops.
CHECK_DEADLOCK FALSE

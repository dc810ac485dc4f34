\* One reader, one change while it reads.
CONSTANTS
  g1 = g1
  g2 = g2
  f1 = f1
  Public = Public
  Memories = {1, 2, 3, 4}
  Sources <- SomeSources
  Friends = {f1}
  Precedence <- Preference
  Order <- SomeOrders
  Near = {1, 2, 3}
  Blocked = {2}
  TimeSlices <- NewAndOld
  Count <- RelationshipCounts
  GradedDensitySlices <- ManySomeNone
  DensityBuckets = 3
  MinSlice = 2
  SearchLimit = 3
  Limits = {1, 2}
  Ratio = 1
  MaxWrites = 1
  MaxPages = 14
SPECIFICATION Spec
INVARIANTS
  PagesCover
  NewcomersShown
  ReadersFinish
\* A reader who is told that there is no more stops.
CHECK_DEADLOCK FALSE

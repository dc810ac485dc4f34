\* Two requests overlap; the third denial of a pair is its last.
CONSTANTS
  ann = ann
  bob = bob
  memory = memory
  r1 = r1
  r2 = r2
  Accessors = {ann, bob}
  Memories = {memory}
  Levels = {1, 3}
  TrustOf <- Confidential
  MaxAttempts = 3
  Updates <- SettingsUpdates
  Requests = {r1, r2}
  Failing = TRUE
  MaxStarts = 4
SYMMETRY RequestSymmetry
SPECIFICATION Spec
INVARIANTS
  
  
  BlocksMatchDenials
PROPERTY BlocksStick
\* MaxStarts requests and the instance stops.
CHECK_DEADLOCK FALSE

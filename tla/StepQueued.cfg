SPECIFICATION Spec
CONSTANTS
  LastThread = 2
  Sleepers = {}
  Careful = FALSE
INVARIANTS
  HitsKept
CHECK_DEADLOCK FALSE

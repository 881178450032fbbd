SPECIFICATION Spec
CONSTANTS
  LastThread = 2
  Sleepers = {1}
  Careful = TRUE
INVARIANTS
  TypeOK
  NeverFails
  NobodyRuns
  HitsKept
  SignalKept
PROPERTIES
  HitShown

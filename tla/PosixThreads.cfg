SPECIFICATION Spec
CONSTANTS
  NULL = NULL
  Thread = {a, b, c}
  MaxDepth = 2
  MaxUnits = 2
INVARIANTS
  TypeOK
  Exclusion
  NoIdleUnit
PROPERTIES
  OnlyActivated
  ActivatedRuns
  ClaimersServed
CHECK_DEADLOCK FALSE

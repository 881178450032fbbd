SPECIFICATION CoreSpec
CONSTANTS
  a = a
  b = b
  c = c
  Main = Main
  Proc = {Main, a, b, c}
  Urgency <- OneUrgent
  Source = {e1, e2}
  NULL = NULL
INVARIANTS
  MeIsCaller
  StoppedNeverRuns
  AssertionsHold
PROPERTIES
  Dispatches
  NoOvertaking
CHECK_DEADLOCK FALSE

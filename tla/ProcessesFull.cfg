SPECIFICATION Spec
CONSTANTS
  a = a
  b = b
  c = c
  Main = Main
  Proc = {Main, a, b}
  Urgency <- Graded
  Source = {e1, e2}
  NULL = NULL
INVARIANTS
  TypeOK
  RingIsReady
  HandlersCounted
CHECK_DEADLOCK FALSE

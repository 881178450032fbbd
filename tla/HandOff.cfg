SPECIFICATION Spec
CONSTANTS
  a = a
  b = b
  c = c
  Main = Main
  Proc = {Main, a, b}
  Urgency <- Uniform
  Source = {e1, e2}
  NULL = NULL
INVARIANT
  MeIsCaller
CHECK_DEADLOCK FALSE

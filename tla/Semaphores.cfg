SPECIFICATION SemSpec
CONSTANTS
  a = a
  b = b
  Main = Main
  Proc = {Main, a, b}
  Urgency <- OneUrgent
  Source = {e1}
  NULL = NULL
  Sem = {s1, s2}
  MaxUnits = 2
INVARIANTS
  WaitersBlocked
  UnitsConserved
  NoIdleUnit
PROPERTIES
  FirstComeFirstServed
CHECK_DEADLOCK FALSE

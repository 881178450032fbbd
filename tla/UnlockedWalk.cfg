\* xrThreads.mod:304: is no lock needed while the rings are walked?
SPECIFICATION Spec
CONSTANTS
  Thread = {m, a, b}
  Main = m
  Tagged = {}
  Failing = FALSE
  NULL = NULL
INVARIANT
  NoLockNeeded
CHECK_DEADLOCK FALSE

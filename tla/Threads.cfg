\* One thread may mark itself X2C_no_GC; the system calls may fail.
SPECIFICATION Spec
CONSTANTS
  Thread = {m, a, b}
  Main = m
  Tagged = {a}
  Failing = TRUE
  NULL = NULL
INVARIANTS
  TypeInvariant
  LocksHeld
  MutatorsStopped
  NoLockStopped
  StacksScanned
PROPERTIES
  Resumed
\* A collector that traps or loses its way keeps its locks: the others stop.
CHECK_DEADLOCK FALSE

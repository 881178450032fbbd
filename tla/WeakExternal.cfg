SPECIFICATION LSpec
CONSTANTS
  A = A
  B = B
  C = C
  Name = {A, B, C}
  NULL = NULL
  Inputs <- WeakInputs
  ObjectOffset = 8
  ImageBase = 16
  HighLimit = 1000
PROPERTY
  LookupEnds
CHECK_DEADLOCK FALSE

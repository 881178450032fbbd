SPECIFICATION LSpec
CONSTANTS
  A = A
  B = B
  C = C
  Name = {A, B, C}
  NULL = NULL
  Inputs <- AllInputs
  ObjectOffset = 8
  ImageBase = 16
  HighLimit = 1000
INVARIANTS
  TypeOK
  Closed
  TakenAsAsked
  FixNeverOverrun
  Apart
  ImagesMatch
  RelocationsComplete
  NamesAgree
PROPERTIES
  Ends
CHECK_DEADLOCK FALSE

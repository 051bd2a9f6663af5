SPECIFICATION Spec
CONSTANTS
  black = black
  white = white
  zero = zero
  OperationIds = {1, 2, 3}
  Capacity = 2
  MaxBytes = 2
  Bytes = {black, white}
  NoByte = zero
  NoMatrix = NoMatrix
  MaxRuns = 2
INVARIANTS
  TypeOK
PROPERTIES
  WholeUpload
  RunsOnce

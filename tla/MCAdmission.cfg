SPECIFICATION Spec
CONSTANTS
  MaxFilename = 4
  Half = 8
  MaxFiles = 3
  Sizes = {0, 3, 5, 9, 15}
  PackedSizes = {1, 5, 9}
  MaxLength = 3
  Names <- MCNames
  MaxCompressed = 6
  MaxEntryCount = 2
  MaxTotal = 6
  MaxDepth = 1
  MaxSingle = 4
INVARIANTS
  TypeOK
  SumsThatFitAreExact
  AcceptedNameIsOneSegment
CHECK_DEADLOCK FALSE

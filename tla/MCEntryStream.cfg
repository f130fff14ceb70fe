SPECIFICATION Spec
CONSTANTS
  NumEntries = 2
  Sizes = {0, 1, 3, 5, 6}
  Compressed = {1, 2}
  MaxExtracted = 5
  MaxRatio = 2
  Floor = 2
  PeekBytes = 2
  PartBytes = 3
  MaxAttempts = 3
INVARIANTS
  TypeOK
  LimiterHolds
  StoredIsTail
CHECK_DEADLOCK FALSE

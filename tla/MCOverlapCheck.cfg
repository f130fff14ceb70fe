SPECIFICATION Spec
CONSTANTS
  Half = 4
  NumFiles = 3
  Offsets = {0, 1, 2, 3}
  Lengths = {0, 1, 2, 7}
INVARIANTS
  TypeOK
  AcceptedAreApart
  RejectedOverlap
CHECK_DEADLOCK FALSE

SPECIFICATION Spec
CONSTANTS
  Half = 4
  NumFiles = 2
  Offsets = {0, 1, 2, 3}
  Lengths = {0, 1, 2, 7}
INVARIANTS
  AllAcceptedAreApart
CHECK_DEADLOCK FALSE

SPECIFICATION Spec
CONSTANTS
  Deliveries = {d1}
  Kinds = {"clean"}
  NumEntries = 1
  MaxAttempts = 2
INVARIANT
  StoredChildrenAreWhole
CHECK_DEADLOCK FALSE

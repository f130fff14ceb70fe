SPECIFICATION Spec
CONSTANTS
  Deliveries = {d1,d2}
  Kinds = {"clean"}
  NumEntries = 1
  MaxAttempts = 2
INVARIANT
  SuccessHasNoFailedRow
CHECK_DEADLOCK FALSE

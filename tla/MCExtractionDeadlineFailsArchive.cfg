SPECIFICATION Spec
CONSTANTS
  Deliveries = {d1}
  Kinds = {"clean"}
  NumEntries = 2
  MaxAttempts = 2
INVARIANT
  DeadlineFailsArchive
CHECK_DEADLOCK FALSE

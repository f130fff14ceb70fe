SPECIFICATION Spec
CONSTANTS
  Deliveries = {d1}
  Kinds = {"clean", "unopenable", "badPeek"}
  NumEntries = 1
  MaxAttempts = 2
INVARIANT
  UnreadableEntriesHaveRows
CHECK_DEADLOCK FALSE

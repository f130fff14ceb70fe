SPECIFICATION Spec
CONSTANTS
  Messages = {m1}
  Focus = m1
  Valid = {m1}
  Pods = {p1, p2}
  MaxInFlight = 1
  BatchSize = 1
  FirstVisibility = 3
  Visibility = 3
  Interval = 1
  MaxHandling = 3
  MaxReceives = 2
  MaxMissed = 1
  Faults = {"receive", "delete", "panic", "sigterm", "crash"}
  Prompt = TRUE
  Kinds = {"badPath"}
  NumEntries = 1
  MaxAttempts = 1
SYMMETRY PodSymmetry
INVARIANTS
  DeletedIsReported
  DeletedLeavesReport
  OneHandlerAtATime
PROPERTIES
  HeldIsNotHandedOut
CHECK_DEADLOCK FALSE

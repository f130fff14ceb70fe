SPECIFICATION Spec
CONSTANTS
  Messages = {m1, m2}
  Valid = {m1, m2}
  Focus = m1
  Pods = {p1, p2}
  MaxInFlight = 1
  BatchSize = 2
  FirstVisibility = 3
  Visibility = 3
  Interval = 1
  MaxHandling = 3
  MaxReceives = 2
  MaxMissed = 0
  Faults = {}
  Prompt = TRUE
  Kinds = {"badPath"}
  NumEntries = 1
  MaxAttempts = 1
SYMMETRY PodSymmetry
CONSTRAINT OthersOnce
INVARIANTS
  DeletedIsReported
  OneHandlerAtATime
CHECK_DEADLOCK FALSE

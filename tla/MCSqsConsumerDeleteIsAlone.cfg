SPECIFICATION Spec
CONSTANTS
  Messages = {m1, m2}
  Valid = {m1}
  Pods = {p1}
  MaxInFlight = 1
  BatchSize = 2
  FirstVisibility = 3
  Visibility = 3
  Interval = 1
  MaxHandling = 3
  MaxReceives = 2
  MaxMissed = 1
  Faults = {}
  Prompt = FALSE
INVARIANTS
  DeleteIsAlone
CHECK_DEADLOCK FALSE

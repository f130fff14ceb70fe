SPECIFICATION Spec
CONSTANTS
  Messages = {m1, m2, m3}
  Valid = {m1, m2, m3}
  Pods = {p1}
  MaxInFlight = 1
  BatchSize = 3
  FirstVisibility = 10
  Visibility = 10
  Interval = 1
  MaxHandling = 8
  MaxReceives = 1
  MaxMissed = 0
  Faults = {}
  Prompt = TRUE
INVARIANTS
  InHandIsInvisible
CHECK_DEADLOCK FALSE

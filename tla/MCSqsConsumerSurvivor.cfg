SPECIFICATION Spec
CONSTANTS
  Messages = {m1}
  Valid = {m1}
  Pods = {p1, p2}
  MaxInFlight = 1
  BatchSize = 1
  FirstVisibility = 2
  Visibility = 2
  Interval = 1
  MaxHandling = 2
  MaxReceives = 2
  MaxMissed = 1
  Faults = {"receive", "delete", "panic", "sigterm", "crash"}
  Prompt = FALSE
PROPERTIES
  EveryMessageSettles
CHECK_DEADLOCK FALSE

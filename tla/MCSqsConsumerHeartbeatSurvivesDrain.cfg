SPECIFICATION Spec
CONSTANTS
  Messages = {m1}
  Valid = {m1}
  Pods = {p1, p2}
  MaxInFlight = 1
  BatchSize = 2
  FirstVisibility = 3
  Visibility = 3
  Interval = 1
  MaxHandling = 3
  MaxReceives = 2
  MaxMissed = 1
  Faults = {"sigterm"}
  Prompt = FALSE
INVARIANTS
  HeartbeatSurvivesDrain
CHECK_DEADLOCK FALSE

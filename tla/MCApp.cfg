SPECIFICATION Spec
CONSTANTS
  MaxInFlight = 2
  Graceful = 3
  Slack = 1
INVARIANTS
  TypeOK
  CleanExitIsDrained
PROPERTIES
  SignalEndsProcess
  DeadServerEndsProcess
CHECK_DEADLOCK FALSE

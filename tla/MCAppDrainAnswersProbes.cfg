SPECIFICATION Spec
CONSTANTS
  MaxInFlight = 2
  Graceful = 3
  Slack = 1
INVARIANT
  DrainAnswersProbes
CHECK_DEADLOCK FALSE

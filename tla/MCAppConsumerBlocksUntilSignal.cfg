SPECIFICATION Spec
CONSTANTS
  MaxInFlight = 2
  Graceful = 3
  Slack = 1
INVARIANT
  ConsumerBlocksUntilSignal
CHECK_DEADLOCK FALSE

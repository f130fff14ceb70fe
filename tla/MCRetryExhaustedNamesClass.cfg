SPECIFICATION Spec
CONSTANTS
  MaxAttempts = 3
  Failures <- MCFailures
INVARIANTS
  ExhaustedNamesClass
CHECK_DEADLOCK FALSE

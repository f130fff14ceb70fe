SPECIFICATION Spec
CONSTANTS
  MaxAttempts = 3
  Failures <- MCFailures
INVARIANTS
  TypeOK
  BombAbortsArchive
  GivenUpIsFinal
  ThrottlingUsesAllAttempts
CHECK_DEADLOCK FALSE

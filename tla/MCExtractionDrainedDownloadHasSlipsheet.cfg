SPECIFICATION Spec
CONSTANTS
  Deliveries = {d1}
  Kinds = {"clean"}
  NumEntries = 1
  MaxAttempts = 2
PROPERTY
  DrainedDownloadHasSlipsheet
CHECK_DEADLOCK FALSE

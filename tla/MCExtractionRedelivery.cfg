SPECIFICATION Spec
CONSTANTS
  Deliveries = {d1, d2}
  Kinds = {"clean", "bombHeader"}
  NumEntries = 2
  MaxAttempts = 1
SYMMETRY DeliverySymmetry
INVARIANTS
  UploadedRowHasObject
  SlipsheetIsBacked
PROPERTIES
  RowsAreWriteOnce
  ImplementsLedger
CHECK_DEADLOCK FALSE

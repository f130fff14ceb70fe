SPECIFICATION Spec
CONSTANTS
  Deliveries = {d1}
  Kinds = {"clean", "badPath", "bombHeader", "bombPeek", "unopenable", "badPeek", "bombStream", "badStream"}
  NumEntries = 3
  MaxAttempts = 2
INVARIANTS
  TypeOK
  OnlyStorableStored
  SlipsheetAgreesWithRows
  StatusDescribesChildren
PROPERTIES
  EveryDeliveryEnds
  DoneContextStartsNothing
CHECK_DEADLOCK FALSE

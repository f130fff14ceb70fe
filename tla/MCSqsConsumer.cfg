SPECIFICATION Spec
CONSTANTS
  Messages = {m1, m2}
  Valid = {m1}
  Pods = {p1}
  MaxInFlight = 1
  BatchSize = 2
  FirstVisibility = 2
  Visibility = 2
  Interval = 1
  MaxHandling = 1
  MaxReceives = 2
  MaxMissed = 1
  Faults = {"receive", "delete", "panic", "sigterm", "crash"}
  Prompt = FALSE
INVARIANTS
  TypeOK
  DeletedWasHandled
  PoolIsBounded
  HandledDeleteIsAlone
PROPERTIES
  ImplementsAtLeastOnce
  EveryMessageSettles
  DrainEnds
CHECK_DEADLOCK FALSE

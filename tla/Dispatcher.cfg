SPECIFICATION FairSpec
CONSTANTS
  Principals = {p, q}
  Shared = Shared
  Reservers = {t}
  Capacity = 1
  MaxQueues = 1
  MaxWork = 2
INVARIANTS
  OneConsumerPerKey
  ClosedNeverDropped
  PublishOrder
PROPERTIES
  AckedIsInvoked
  StopDrains
CHECK_DEADLOCK FALSE

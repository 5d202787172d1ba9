SPECIFICATION FairSpec
CONSTANTS
  Threads = {t1, t2}
  Gates = {g1, g2}
  Observers = 1
  Routes = {r1}
  Capacity = 1
  MaxInboxes = 2
  MaxEvents = 2
  MaxNested = 1
INVARIANTS
  PermitsExact
  CommitFence
  TransportOrder
PROPERTIES
  ImplementsReliableLog
  OrderIsReleased
CHECK_DEADLOCK FALSE

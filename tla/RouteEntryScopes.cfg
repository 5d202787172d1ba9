SPECIFICATION FairSpec
CONSTANTS
  sys = sys
  alice = alice
  bob = bob
  s1 = s1
  Principals = {sys, alice, bob}
  System = sys
  Publishers = {t1, t2}
  Owners = {s1}
  NoOwner = NoOwner
  Kinds <- ScopedKinds
  Scopes <- MCScopes
  Requests <- MCRequests
  Budget = 2
  CountCap = 2
  QuantumMin = 1
  DrainBudgets = {2}
  MaxEvents = 2
  Timeouts = TRUE
  Never = Never
  Free = Free
  Rx = Rx
INVARIANTS
  RetireFences
  NoLostWakeup
PROPERTIES
  ParkedIsWoken
  DrainTerminates
CHECK_DEADLOCK FALSE

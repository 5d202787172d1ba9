SPECIFICATION Spec
CONSTANTS
  sys = sys
  alice = alice
  bob = bob
  s1 = s1
  Principals = {sys, alice, bob}
  System = sys
  Publishers = {t1}
  Owners = {s1}
  NoOwner = NoOwner
  Kinds <- MCKinds
  Scopes <- MCAll
  Requests <- MCNone
  Budget = 3
  CountCap = 2
  QuantumMin = 1
  DrainBudgets = {2}
  MaxEvents = 4
  Timeouts = TRUE
  Never = Never
  Free = Free
  Rx = Rx
INVARIANTS
  RotationExact
  Conservation
  BoundedBypass
CHECK_DEADLOCK FALSE

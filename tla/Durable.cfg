SPECIFICATION Spec
CONSTANTS
  Callers = {c1, c2}
  Principals = {p, q}
  Blobs = {b}
  MaxTxns = 3
  MaxFaults = 2
  None = None
SYMMETRY Sym
INVARIANTS
  AckedDurable
  AckedServed
  NoLostUpdate
  RefusedLeavesNothing
  NoDanglingRoot
CHECK_DEADLOCK FALSE

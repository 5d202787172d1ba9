SPECIFICATION Spec
CONSTANTS
  Callers = {c1, c2}
  Principals = {p}
  Blobs = {b}
  MaxTxns = 2
  MaxFaults = 1
  None = None
SYMMETRY Sym
INVARIANT StoreReopens
CHECK_DEADLOCK FALSE

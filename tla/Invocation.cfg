SPECIFICATION Spec
CONSTANTS
  Callers = {c1, c2, c3}
  Principals = {p, q}
  None = None
  Budget = 2
  Share = 1
  PoolSize = 2
  MinIdle = 1
SYMMETRY Sym
INVARIANTS
  BudgetHolds
  SettlementSeen
  InstancesBounded
  CleanLease
  CommitAlone

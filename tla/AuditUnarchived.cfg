SPECIFICATION Spec
CONSTANTS
  Chains = {sys}
  Certified = {sys}
  Writers = {w}
  BatchWriters = {}
  SegMax = 2
  PageSize = 2
  Cap = 2
  Retains = {1}
  MaxEntries = 3
  MaxGen = 2
  MaxFaults = 1
  None = None
INVARIANT ArchivedBeforeDeleted
CHECK_DEADLOCK FALSE

SPECIFICATION Spec
CONSTANTS
  Chains = {sys}
  Certified = {sys}
  Writers = {w, b}
  BatchWriters = {b}
  SegMax = 2
  PageSize = 2
  Cap = 2
  Retains = {1}
  MaxEntries = 3
  MaxGen = 2
  MaxFaults = 1
  None = None
INVARIANTS
  NoFork
  RetainedSuffix
  PositionsExact
  AnchoredKept
  MarkNamesItsEntry
  ReceiptsLinked
PROPERTIES
  NeverRolledBack
CHECK_DEADLOCK FALSE

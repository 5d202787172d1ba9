SPECIFICATION FairSpec
CONSTANTS
  x = x
  y = y
  z = z
  Keys = {x, y, z}
  Externals = {e1}
  Fanouts <- Multi
  Resolves = {TRUE, FALSE}
  Capacity = 1
  MaxPubs = 5
INVARIANTS
  WaitsAcyclic
  EdgesExact
  CircularOnlyUnseen
PROPERTIES
  WaitEnds
CHECK_DEADLOCK FALSE

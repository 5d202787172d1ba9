SPECIFICATION Spec
CONSTANTS
  x = x
  y = y
  z = z
  Keys = {x, y}
  Externals = {e1}
  Fanouts <- Multi
  Resolves = {TRUE}
  Capacity = 1
  MaxPubs = 5
INVARIANT NoCircularWait
CHECK_DEADLOCK FALSE

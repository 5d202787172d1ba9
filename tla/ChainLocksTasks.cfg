SPECIFICATION FairSpec
CONSTANTS
  a = a
  b = b
  Tasks = {t1, t2}
  Keys = {a, b}
  Mutexes = {m1, m2, m3, m4}
  None = None
  Chains <- Long
INVARIANTS
  MutualExclusion
PROPERTIES
  ChainEnds

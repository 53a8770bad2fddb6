CONSTANTS
  Datasources = {d1, d2}
  Hops = {h1, h2}
  MaxBuilds = 2
  MaxWarm = 1
SPECIFICATION Spec
SYMMETRY CacheSymmetry
INVARIANTS OpenIsOwned WarmIsBounded
PROPERTIES ImplementsSharedHandles
CHECK_DEADLOCK FALSE

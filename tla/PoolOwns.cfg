CONSTANTS
  ProjectIDs = {p1, p2}
  Callers = {t1, t2}
  MaxBuilds = 2
  MaxProjects = 1
  IdleEviction = TRUE
  GiveUps = TRUE
SPECIFICATION PoolSpec
SYMMETRY PoolSymmetry
INVARIANTS NoRuntimeLeaks NothingIsPinned
CHECK_DEADLOCK FALSE

CONSTANTS
  Areas = {x, y}
  MaxAttempt = 3
  Cap = 1
  MaxFaults = 1
SPECIFICATION Spec
SYMMETRY AreaSymmetry
INVARIANTS VerdictJudgedThisFinding ResultCitesOwnSteps  ValidationsWithinCap StoredAreaStaysRestorable
CHECK_DEADLOCK FALSE

CONSTANTS
  Runs = {r1, r2}
  MaxAttempt = 2
  MaxRequests = 2
  MaxRestarts = 0
  MaxFaults = 1
  Metered = TRUE
  Overlap = {TRUE}
SPECIFICATION Spec
SYMMETRY RunSymmetry
INVARIANTS ResumesExclude FreshRunHoldsItsSlot OpenReservationKeepsItsHandle
CHECK_DEADLOCK FALSE

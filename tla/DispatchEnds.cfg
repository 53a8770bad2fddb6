CONSTANTS
  Runs = {r1}
  MaxAttempt = 3
  MaxRequests = 3
  MaxRestarts = 1
  MaxFaults = 1
  Metered = TRUE
  Overlap = {FALSE, TRUE}
SPECIFICATION FairSpec
INVARIANTS SuccessIsTheOwners EndTimeIsTheOwners
PROPERTIES EndedRunFreesItsSlot
CHECK_DEADLOCK FALSE

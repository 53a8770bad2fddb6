CONSTANTS
  Resumers = {r1, r2}
  Cancellers = {}
  Pausers = {}
  Discarders = {}
  Polls = {}
  InitialRuns = {"fresh"}
  MaxAttempt = 3
  MaxRequests = 9
  MaxSteps = 1
  MaxRestarts = 2
  MaxFaults = 0
SPECIFICATION Spec
SYMMETRY ResumerSymmetry
INVARIANTS StampedResultIsStored OnlyOwnersResultRemains
PROPERTIES SupersededAttemptIsMute NoAttemptStartsTwice
CHECK_DEADLOCK FALSE

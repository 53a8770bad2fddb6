CONSTANTS
  Resumers = {r1}
  Cancellers = {c1}
  Pausers = {p1}
  Discarders = {}
  Polls = {}
  InitialRuns = {"fresh"}
  MaxAttempt = 2
  MaxRequests = 2
  MaxSteps = 2
  MaxRestarts = 0
  MaxFaults = 1
SPECIFICATION FairSpec
PROPERTIES ActiveRunEnds
CHECK_DEADLOCK FALSE

CONSTANTS
  MaxJobs = 2
  MaxAttempts = 2
  MaxFaults = 1
SPECIFICATION FairSpec
INVARIANTS CompletedVerdictStands
PROPERTIES TerminalJobIsFinal JobsEnd
CHECK_DEADLOCK FALSE

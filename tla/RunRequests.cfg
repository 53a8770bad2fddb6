CONSTANTS
  Resumers = {r1}
  Cancellers = {c1}
  Pausers = {p1}
  Discarders = {d1}
  Polls = {q1}
  InitialRuns = {"fresh", "legacy"}
  MaxAttempt = 2
  MaxRequests = 2
  MaxSteps = 1
  MaxRestarts = 1
  MaxFaults = 1
SPECIFICATION Spec
INVARIANTS PausedIsResumable HooksCoverAttempt DiscardedRunKeepsNoResult
PROPERTIES CheckpointsOutliveFailure ImplementsRunPromise
CHECK_DEADLOCK FALSE

CONSTANTS
  MaxAttempt = 3
  MaxStep = 3
  MaxFaults = 2
SPECIFICATION Spec
INVARIANTS ReplayIsOneExploration OneLateWriteIsHarmless SummaryIsOfReplayedSteps
CHECK_DEADLOCK FALSE

CONSTANTS
  Projects = {p1, p2}
  TurnsPerProject = 1
  Requests = {j1, j2, j3}
  MaxConcurrentTurns = 3
  MaxConcurrentPerProject = 2
  MaxFaults = 1
SPECIFICATION FairSpec
INVARIANTS SlotsAreTaken MessageIsTheOutcomes
PROPERTIES TerminalIsFinal SweepSparesLiveTurns AcceptedTurnEnds

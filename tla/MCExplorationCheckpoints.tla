---------------------- MODULE MCExplorationCheckpoints ----------------------
EXTENDS ExplorationCheckpoints, TLC
=============================================================================

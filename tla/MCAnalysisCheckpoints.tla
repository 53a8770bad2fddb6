----------------------- MODULE MCAnalysisCheckpoints -----------------------
EXTENDS AnalysisCheckpoints, TLC
AreaSymmetry == Permutations(Areas)
=============================================================================

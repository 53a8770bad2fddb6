------------------------------ MODULE MCAskPool ------------------------------
(***************************************************************************)
(* Small instances of AskPool for TLC.  Callers are interchangeable, and   *)
(* so are projects.                                                        *)
(***************************************************************************)
EXTENDS AskPool, TLC

PoolSymmetry == Permutations(Callers) \cup Permutations(ProjectIDs)

=============================================================================

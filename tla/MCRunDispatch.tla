---------------------------- MODULE MCRunDispatch ----------------------------
(***************************************************************************)
(* Small instances of RunDispatch for TLC; the .cfg files give the bounds. *)
(***************************************************************************)
EXTENDS RunDispatch, TLC

RunSymmetry == Permutations(Runs)

=============================================================================

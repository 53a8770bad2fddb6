--------------------------- MODULE MCRunLifecycle ---------------------------
(***************************************************************************)
(* Small instances of RunLifecycle for TLC; the .cfg files give the bounds *)
(* of each.  Resumers are interchangeable: they differ in nothing but the  *)
(* order in which they arrive.                                             *)
(***************************************************************************)
EXTENDS RunLifecycle, TLC

ResumerSymmetry == Permutations(Resumers)

=============================================================================

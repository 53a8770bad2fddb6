----------------------------- MODULE MCConnCache -----------------------------
(***************************************************************************)
(* Small instances of ConnCache for TLC.  Hops are interchangeable, and so *)
(* are datasources.                                                        *)
(***************************************************************************)
EXTENDS ConnCache, TLC

CacheSymmetry == Permutations(Hops) \cup Permutations(Datasources)

=============================================================================

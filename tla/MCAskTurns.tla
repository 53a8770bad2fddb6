------------------------------ MODULE MCAskTurns ------------------------------
(***************************************************************************)
(* Small instances of AskTurns for TLC.                                    *)
(***************************************************************************)
EXTENDS AskTurns

=============================================================================

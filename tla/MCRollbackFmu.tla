---------------------------- MODULE MCRollbackFmu ----------------------------
(***************************************************************************)
(* A small instance of RollbackFmu for TLC.                                *)
(***************************************************************************)
EXTENDS RollbackFmu

MCCrossings == {{5, 11}}

=============================================================================

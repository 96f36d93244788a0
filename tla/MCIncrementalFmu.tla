--------------------------- MODULE MCIncrementalFmu ---------------------------
(***************************************************************************)
(* A small instance of IncrementalFmu for TLC.                             *)
(***************************************************************************)
EXTENDS IncrementalFmu

=============================================================================

--------------------------- MODULE MCJobExecution ---------------------------
(***************************************************************************)
(* JobExecution on a small instance, for TLC.                              *)
(***************************************************************************)
EXTENDS JobExecution
=============================================================================

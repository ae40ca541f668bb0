---------------------------- MODULE MCJobService ----------------------------
(***************************************************************************)
(* JobService on a small instance, for TLC.                                *)
(***************************************************************************)
EXTENDS JobService
=============================================================================

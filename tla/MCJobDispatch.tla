--------------------------- MODULE MCJobDispatch ----------------------------
(***************************************************************************)
(* JobDispatch on a small instance, for TLC.                               *)
(***************************************************************************)
EXTENDS JobDispatch
=============================================================================

-------------------------- MODULE MCNodeLifecycle --------------------------
(***************************************************************************)
(* NodeLifecycle on a small instance, for TLC.                             *)
(***************************************************************************)
EXTENDS NodeLifecycle
=============================================================================

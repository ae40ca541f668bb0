-------------------------- MODULE MCSignalingHub ---------------------------
(***************************************************************************)
(* SignalingHub on small sets of model values, for TLC.                    *)
(***************************************************************************)
EXTENDS SignalingHub, TLC

\* Ids and connections are interchangeable in every safety property.
HubSymmetry == Permutations(Ids) \cup Permutations(Sockets)
=============================================================================

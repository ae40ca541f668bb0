--------------------------- MODULE MCNegotiation ----------------------------
(***************************************************************************)
(* Negotiation on small sets of model values, for TLC.                     *)
(***************************************************************************)
EXTENDS Negotiation, TLC

\* Clients are interchangeable in every safety property.
NodeSymmetry == Permutations(Nodes)
=============================================================================

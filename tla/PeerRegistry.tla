---------------------------- MODULE PeerRegistry ----------------------------
(***************************************************************************)
(* What the signaling hub promises about peer ids, whatever the order in   *)
(* which its endpoint tasks run: an id belongs to at most one connection   *)
(* at a time, a connection holds at most one id in its whole life, and an  *)
(* id goes from one connection to another only by being given up first.    *)
(* SignalingHub is shown to implement this module.                         *)
(***************************************************************************)
CONSTANTS
  Ids,        \* peer ids
  Sockets,    \* connections
  None        \* the value of an id nobody holds

VARIABLES
  owner,      \* which connection holds each id
  joined      \* the connections that have ever held an id

registryVars == <<owner, joined>>

Init ==
  /\ owner = [i \in Ids |-> None]
  /\ joined = {}

\* A connection that never held an id takes a free one.
Join(s, i) ==
  /\ owner[i] = None
  /\ s \notin joined
  /\ owner' = [owner EXCEPT ![i] = s]
  /\ joined' = joined \cup {s}

\* The id's holder gives it up, for good.
Leave(i) ==
  /\ owner[i] # None
  /\ owner' = [owner EXCEPT ![i] = None]
  /\ UNCHANGED joined

Next ==
  \/ \E s \in Sockets, i \in Ids : Join(s, i)
  \/ \E i \in Ids : Leave(i)

Spec == Init /\ [][Next]_registryVars
=============================================================================

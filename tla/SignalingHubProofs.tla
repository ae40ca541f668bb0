------------------------- MODULE SignalingHubProofs -------------------------
(***************************************************************************)
(* Theorems about SignalingHub, for every set of ids and connections.      *)
(*                                                                         *)
(* IInv is the inductive invariant: the types, that the table lists exactly*)
(* the live sessions, and how the local peer_id of an endpoint relates to  *)
(* the id it asked for.  The last is what the first two need: without it a *)
(* registering endpoint could acknowledge no id at all, and one that holds *)
(* an id could register again.                                             *)
(***************************************************************************)
EXTENDS SignalingHub, SequenceTheorems, TLAPS

\* requested_id and peer_id differ only while register() is awaited, and at
\* the end of an endpoint.
Sessions ==
  \A s \in Sockets :
    /\ pc[s] = "registering" => claimed[s] # None /\ peerId[s] = None
    /\ pc[s] \in {"idle", "receiving", "sending"} => claimed[s] = peerId[s]
    /\ pc[s] = "idle" => peerId[s] = None

IInv == TypeOK /\ RegistryOwned /\ Sessions

-----------------------------------------------------------------------------
(***************************************************************************)
(* What the helpers of the actions do to the types.                        *)
(***************************************************************************)

\* Writing a message keeps the type of the outgoing queues (send_text).
LEMMA WrittenType ==
  ASSUME TypeOK, NEW t \in Sockets, NEW m \in Messages
  PROVE  Written(t, m) \in [Sockets -> Seq(Messages)]
BY DEF TypeOK, Written

\* A direct send touches only its sender's program counter, and leaves the
\* sender receiving or sending.
LEMMA SendToEffect ==
  ASSUME TypeOK, NEW s \in Sockets, NEW t \in Sockets, NEW m \in Messages,
         SendTo(s, t, m)
  PROVE  /\ out' \in [Sockets -> Seq(Messages)]
         /\ awaiting' \in [Sockets -> SUBSET Sockets]
         /\ pc' \in [Sockets -> PCs]
         /\ pc'[s] \in {"receiving", "sending"}
         /\ \A u \in Sockets \ {s} : pc'[u] = pc[u]
<1>1. out' \in [Sockets -> Seq(Messages)]
  BY WrittenType DEF SendTo
<1>2. PICK p \in {"receiving", "sending"} : pc' = [pc EXCEPT ![s] = p]
  BY DEF SendTo
<1>3. PICK w \in SUBSET Sockets : awaiting' = [awaiting EXCEPT ![s] = w]
  BY DEF SendTo
<1>4. QED
  BY <1>1, <1>2, <1>3 DEF TypeOK, PCs

\* The same for a send to whoever holds an id, if anyone does.
LEMMA SendToIdEffect ==
  ASSUME TypeOK, NEW s \in Sockets, NEW i \in Ids, NEW m \in Messages,
         pc[s] = "receiving", SendToId(s, i, m)
  PROVE  /\ out' \in [Sockets -> Seq(Messages)]
         /\ awaiting' \in [Sockets -> SUBSET Sockets]
         /\ pc' \in [Sockets -> PCs]
         /\ pc'[s] \in {"receiving", "sending"}
         /\ \A u \in Sockets \ {s} : pc'[u] = pc[u]
<1>1. CASE clients[i] = None
  BY <1>1 DEF SendToId, TypeOK
<1>2. CASE clients[i] # None
  <2>1. clients[i] \in Sockets
    BY <1>2 DEF TypeOK, Snapshots
  <2>2. SendTo(s, clients[i], m)
    BY <1>2 DEF SendToId
  <2>3. QED
    BY <2>1, <2>2, SendToEffect
<1>3. QED
  BY <1>1, <1>2

\* Scheduling the sends of a broadcast keeps the types of what it changes.
LEMMA BroadcastType ==
  ASSUME TypeOK, NEW s \in Sockets, NEW peers \in Snapshots,
         NEW recipients \in SUBSET Sockets, Broadcast(s, peers, recipients)
  PROVE  /\ tasks' \in [Sockets -> Seq(SendTasks)]
         /\ awaiting' \in [Sockets -> SUBSET Sockets]
<1>1. [from |-> s, peers |-> peers] \in SendTasks
  BY DEF SendTasks
<1>2. QED
  BY <1>1 DEF TypeOK, Broadcast

\* The sockets of the records of a table are connections.
LEMMA RecordSocketsType ==
  ASSUME NEW peers \in Snapshots
  PROVE  RecordSockets(peers) \in SUBSET Sockets
BY DEF RecordSockets, Snapshots

\* The history variable keeps its type.
LEMMA NotedType ==
  ASSUME TypeOK, NEW s \in Sockets, NEW i \in Ids
  PROVE  Noted(s, i) \in [Sockets -> SUBSET Ids]
BY DEF TypeOK, Noted

\* Removing a record: the types hold, the id is free afterwards, and the
\* endpoint is on its way out (hub.unregister).
LEMMA UnregisterEffect ==
  ASSUME TypeOK, NEW s \in Sockets, NEW i \in Ids, Unregister(s, i)
  PROVE  /\ clients' = [clients EXCEPT ![i] = None]
         /\ clients' \in Snapshots
         /\ tasks' \in [Sockets -> Seq(SendTasks)]
         /\ awaiting' \in [Sockets -> SUBSET Sockets]
         /\ missed' \in [Sockets -> SUBSET Ids]
         /\ pc' \in [Sockets -> PCs]
         /\ pc'[s] \in {"closed", "unregistering"}
         /\ \A u \in Sockets \ {s} : pc'[u] = pc[u]
<1> DEFINE left       == [clients EXCEPT ![i] = None]
           recipients == IF clients[i] = None THEN {} ELSE RecordSockets(left)
<1>1. left \in Snapshots
  BY DEF TypeOK, Snapshots
<1>2. recipients \in SUBSET Sockets
  BY <1>1, RecordSocketsType
<1>3. clients' = left /\ Broadcast(s, left, recipients) /\ missed' = Noted(s, i)
  BY DEF Unregister
<1>4. PICK p \in {"closed", "unregistering"} : pc' = [pc EXCEPT ![s] = p]
  BY DEF Unregister
<1>5. missed' \in [Sockets -> SUBSET Ids]
  BY <1>3, NotedType
<1>6. /\ tasks' \in [Sockets -> Seq(SendTasks)]
      /\ awaiting' \in [Sockets -> SUBSET Sockets]
  <2> HIDE DEF left, recipients
  <2>1. QED
    BY <1>1, <1>2, <1>3, BroadcastType
<1>7. /\ pc' \in [Sockets -> PCs]
      /\ pc'[s] \in {"closed", "unregistering"}
      /\ \A u \in Sockets \ {s} : pc'[u] = pc[u]
  BY <1>4 DEF TypeOK, PCs
<1>8. QED
  BY <1>1, <1>3, <1>5, <1>6, <1>7

\* The finally block frees the id of the endpoint, if it has one, and frees
\* no other.
LEMMA FinallyEffect ==
  ASSUME TypeOK, NEW s \in Sockets, NEW id \in Ids \cup {None}, Finally(s, id)
  PROVE  /\ clients' = IF id = None THEN clients
                                    ELSE [clients EXCEPT ![id] = None]
         /\ clients' \in Snapshots
         /\ tasks' \in [Sockets -> Seq(SendTasks)]
         /\ awaiting' \in [Sockets -> SUBSET Sockets]
         /\ missed' \in [Sockets -> SUBSET Ids]
         /\ pc' \in [Sockets -> PCs]
         /\ pc'[s] \in {"closed", "unregistering"}
         /\ \A u \in Sockets \ {s} : pc'[u] = pc[u]
<1>1. CASE id # None
  <2>1. id \in Ids /\ Unregister(s, id)
    BY <1>1 DEF Finally
  <2>2. QED
    BY <1>1, <2>1, UnregisterEffect
<1>2. CASE id = None
  BY <1>2 DEF Finally, TypeOK, PCs
<1>3. QED
  BY <1>1, <1>2

\* What a registration writes to the table and to the local id.
LEMMA RegisterEffect ==
  ASSUME TypeOK, NEW s \in Sockets, NEW i \in Ids, Register(s, i)
  PROVE  /\ clients' \in Snapshots
         /\ snapshot' \in [Sockets -> Snapshots]
         /\ tasks' \in [Sockets -> Seq(SendTasks)]
         /\ awaiting' \in [Sockets -> SUBSET Sockets]
         /\ missed' \in [Sockets -> SUBSET Ids]
<1> DEFINE table  == [clients EXCEPT ![i] = s]
           others == RecordSockets(clients) \ {s}
<1>1. table \in Snapshots
  BY DEF TypeOK, Snapshots
<1>2. others \in SUBSET Sockets
  BY RecordSocketsType DEF TypeOK
<1>3. /\ clients' = table
      /\ snapshot' = [snapshot EXCEPT ![s] = table]
      /\ Broadcast(s, table, others)
      /\ missed' = Noted(s, i)
  BY DEF Register, SnapshotOf
<1>4. missed' \in [Sockets -> SUBSET Ids]
  BY <1>3, NotedType
<1>5. /\ tasks' \in [Sockets -> Seq(SendTasks)]
      /\ awaiting' \in [Sockets -> SUBSET Sockets]
  <2> HIDE DEF table, others
  <2>1. QED
    BY <1>1, <1>2, <1>3, BroadcastType
<1>6. snapshot' \in [Sockets -> Snapshots]
  BY <1>1, <1>3 DEF TypeOK
<1>7. QED
  BY <1>1, <1>3, <1>4, <1>5, <1>6

-----------------------------------------------------------------------------
(***************************************************************************)
(* The types.                                                              *)
(***************************************************************************)

\* An acknowledgement, a peer list, a forward and an error are messages.
LEMMA MessageTypes ==
  /\ \A i \in Ids, peers \in Snapshots : RegisterAck(i, peers) \in Messages
  /\ \A peers \in Snapshots : PeerList(peers) \in Messages
  /\ \A i \in Ids :
       \A kind \in {"connection_offer", "connection_answer", "connection_reject"} :
         Forward(kind, i) \in Messages
  /\ Error \in Messages
BY DEF Messages, RegisterAck, PeerList, Forward, Error

\* What a message with a directory in it carries is a table.
LEMMA CarriedType ==
  ASSUME NEW m \in Messages, CarriesPeers(m)
  PROVE  m.peers \in Snapshots
BY DEF Messages, CarriesPeers

\* Every step of the hub, its event loop and its clients keeps the types.
LEMMA TypeStep ==
  ASSUME TypeOK, Sessions, [Next]_vars
  PROVE  TypeOK'
<1> USE HubAssumption
<1>1. ASSUME NEW s \in Sockets, Accept(s) PROVE TypeOK'
  BY <1>1 DEF Accept, TypeOK, PCs
<1>2. ASSUME NEW s \in Sockets, Refuse(s) PROVE TypeOK'
  BY <1>2, WrittenType, MessageTypes DEF Refuse, TypeOK, PCs
<1>3. ASSUME NEW s \in Sockets, RefuseFirst(s) PROVE TypeOK'
  BY <1>2, <1>3 DEF RefuseFirst
<1>4. ASSUME NEW s \in Sockets, NEW i \in Ids, RefuseDuplicate(s, i)
      PROVE  TypeOK'
  BY <1>2, <1>4 DEF RefuseDuplicate
<1>5. ASSUME NEW s \in Sockets, NEW i \in Ids, Register(s, i) PROVE TypeOK'
  BY <1>5, RegisterEffect DEF Register, TypeOK, PCs
<1>6. ASSUME NEW s \in Sockets, NEW i \in Ids, RegisterAlone(s, i)
      PROVE  TypeOK'
  <2> DEFINE table == [clients EXCEPT ![i] = s]
  <2>1. table \in Snapshots
    BY DEF TypeOK, Snapshots
  <2>2. SendTo(s, s, RegisterAck(i, table))
    BY <1>6 DEF RegisterAlone, SnapshotOf
  <2>3. RegisterAck(i, table) \in Messages
    BY <2>1, MessageTypes
  <2>4. /\ out' \in [Sockets -> Seq(Messages)]
        /\ awaiting' \in [Sockets -> SUBSET Sockets]
        /\ pc' \in [Sockets -> PCs]
    <3> HIDE DEF table
    <3>1. QED
      BY <2>2, <2>3, SendToEffect
  <2>5. missed' \in [Sockets -> SUBSET Ids]
    BY <1>6, NotedType DEF RegisterAlone
  <2>6. QED
    BY <1>6, <2>1, <2>4, <2>5 DEF RegisterAlone, TypeOK
<1>7. ASSUME NEW s \in Sockets, AckRegistration(s) PROVE TypeOK'
  <2>1. claimed[s] \in Ids /\ snapshot[s] \in Snapshots
    BY <1>7 DEF AckRegistration, TypeOK, Sessions
  <2>2. RegisterAck(claimed[s], snapshot[s]) \in Messages
    BY <2>1, MessageTypes
  <2>3. /\ out' \in [Sockets -> Seq(Messages)]
        /\ awaiting' \in [Sockets -> SUBSET Sockets]
        /\ pc' \in [Sockets -> PCs]
    BY <1>7, <2>2, SendToEffect DEF AckRegistration
  <2>4. NoPeers \in Snapshots
    BY DEF NoPeers, Snapshots
  <2>5. QED
    BY <1>7, <2>1, <2>3, <2>4 DEF AckRegistration, TypeOK
<1>8. ASSUME NEW s \in Sockets, AckRaises(s) PROVE TypeOK'
  <2>1. claimed[s] \in Ids \cup {None} /\ NoPeers \in Snapshots
    BY DEF TypeOK, NoPeers, Snapshots
  <2>2. QED
    BY <1>8, <2>1, FinallyEffect DEF AckRaises, TypeOK
<1>9. ASSUME NEW s \in Sockets, NoticeDisconnect(s) \/ BadPayload(s)
      PROVE  TypeOK'
  <2>1. peerId[s] \in Ids \cup {None}
    BY DEF TypeOK
  <2>2. QED
    BY <1>9, <2>1, FinallyEffect DEF NoticeDisconnect, BadPayload, TypeOK
<1>10. ASSUME NEW s \in Sockets, FinishUnregister(s) PROVE TypeOK'
  BY <1>10 DEF FinishUnregister, TypeOK, PCs
<1>11. ASSUME NEW s \in Sockets, Receiving(s),
              out' \in [Sockets -> Seq(Messages)],
              awaiting' \in [Sockets -> SUBSET Sockets],
              pc' \in [Sockets -> PCs],
              missed' \in [Sockets -> SUBSET Ids]
       PROVE  TypeOK'
  BY <1>11 DEF Receiving, TypeOK
<1>12. ASSUME NEW s \in Sockets, ReplyError(s) PROVE TypeOK'
  BY <1>11, <1>12, SendToEffect, MessageTypes DEF ReplyError, TypeOK
<1>13. ASSUME NEW s \in Sockets, RequestPeerList(s) PROVE TypeOK'
  <2>1. PeerList(clients) \in Messages
    BY MessageTypes DEF TypeOK
  <2>2. missed' \in [Sockets -> SUBSET Ids]
    BY <1>13 DEF RequestPeerList, TypeOK
  <2>3. QED
    BY <1>11, <1>13, <2>1, <2>2, SendToEffect DEF RequestPeerList
<1>14. ASSUME NEW s \in Sockets, NEW target \in Ids,
              NEW kind \in {"connection_offer", "connection_answer"},
              RequestConnToPeer(s, kind, target)
       PROVE  TypeOK'
  <2>1. peerId[s] \in Ids /\ pc[s] = "receiving"
    BY <1>14 DEF RequestConnToPeer, Receiving, TypeOK
  <2>2. /\ Forward(kind, peerId[s]) \in Messages
        /\ Forward("connection_reject", target) \in Messages
    BY <2>1, MessageTypes
  <2>3. missed' \in [Sockets -> SUBSET Ids]
    BY <1>14 DEF RequestConnToPeer, TypeOK
  <2>4. QED
    BY <1>11, <1>14, <2>1, <2>2, <2>3, SendToIdEffect DEF RequestConnToPeer
<1>15. ASSUME NEW s \in Sockets, NEW target \in Ids, ForwardRejection(s, target)
       PROVE  TypeOK'
  <2>1. peerId[s] \in Ids /\ pc[s] = "receiving"
    BY <1>15 DEF ForwardRejection, Receiving, TypeOK
  <2>2. Forward("connection_reject", peerId[s]) \in Messages /\ Error \in Messages
    BY <2>1, MessageTypes
  <2>3. missed' \in [Sockets -> SUBSET Ids]
    BY <1>15 DEF ForwardRejection, TypeOK
  <2>4. QED
    BY <1>11, <1>15, <2>1, <2>2, <2>3, SendToIdEffect DEF ForwardRejection
<1>16. ASSUME NEW s \in Sockets, Resume(s) PROVE TypeOK'
  BY <1>16 DEF Resume, TypeOK, PCs
<1>17. ASSUME NEW t \in Sockets, StartSend(t) PROVE TypeOK'
  <2>1. tasks[t] \in Seq(SendTasks) /\ tasks[t] # <<>>
    BY <1>17 DEF StartSend, TypeOK
  <2>2. Head(tasks[t]) \in SendTasks /\ Tail(tasks[t]) \in Seq(SendTasks)
    BY <2>1
  <2>3. PeerList(Head(tasks[t]).peers) \in Messages
    BY <2>2, MessageTypes DEF SendTasks
  <2>4. out' \in [Sockets -> Seq(Messages)]
    BY <1>17, <2>3, WrittenType DEF StartSend
  <2>5. tasks' \in [Sockets -> Seq(SendTasks)]
    BY <1>17, <2>2 DEF StartSend, TypeOK
  <2>6. QED
    BY <1>17, <2>4, <2>5 DEF StartSend, TypeOK
<1>18. ASSUME NEW s \in Sockets, NEW t \in Sockets, SendDone(s, t) PROVE TypeOK'
  BY <1>18 DEF SendDone, TypeOK
<1>19. ASSUME NEW t \in Sockets, ClientRead(t) PROVE TypeOK'
  <2>1. out[t] \in Seq(Messages) /\ out[t] # <<>>
    BY <1>19 DEF ClientRead, TypeOK
  <2>2. Head(out[t]) \in Messages /\ Tail(out[t]) \in Seq(Messages)
    BY <2>1
  <2>3. out' \in [Sockets -> Seq(Messages)]
    BY <1>19, <2>2 DEF ClientRead, TypeOK
  <2>4. directory' \in [Sockets -> Snapshots]
    <3>1. CASE CarriesPeers(Head(out[t]))
      <4>1. [Head(out[t]).peers EXCEPT ![claimed[t]] = None] \in Snapshots
        BY <2>2, <3>1, CarriedType DEF Snapshots
      <4>2. QED
        BY <1>19, <3>1, <4>1 DEF ClientRead, TypeOK
    <3>2. CASE ~CarriesPeers(Head(out[t]))
      BY <1>19, <3>2 DEF ClientRead, TypeOK
    <3>3. QED
      BY <3>1, <3>2
  <2>5. QED
    BY <1>19, <2>3, <2>4 DEF ClientRead, TypeOK
<1>20. ASSUME NEW t \in Sockets, Disconnect(t) PROVE TypeOK'
  <2>1. NoPeers \in Snapshots /\ <<>> \in Seq(Messages)
    BY DEF NoPeers, Snapshots
  <2>2. QED
    BY <1>20, <2>1 DEF Disconnect, TypeOK
<1>21. ASSUME UNCHANGED vars PROVE TypeOK'
  BY <1>21 DEF vars, TypeOK
<1>22. QED
  BY <1>1, <1>3, <1>4, <1>5, <1>6, <1>7, <1>8, <1>9, <1>10, <1>12, <1>13,
     <1>14, <1>15, <1>16, <1>17, <1>18, <1>19, <1>20, <1>21
     DEF Next, EndpointStep, LoopStep, ClientStep, Terminated

-----------------------------------------------------------------------------
(***************************************************************************)
(* Ownership.  Only four variables matter to it; a step does one of four   *)
(* things to them.                                                         *)
(***************************************************************************)
Live == {"idle", "receiving", "sending"}

\* The step moves no id: every endpoint stays in the part of the code it was
\* in, or one without an id ends.
Moves ==
  /\ UNCHANGED <<clients, peerId, claimed>>
  /\ \A s \in Sockets :
       \/ pc'[s] = pc[s]
       \/ pc[s] \in Live /\ pc'[s] \in {"receiving", "sending"}
       \/ pc[s] \in Live /\ peerId[s] = None /\ pc'[s] = "closed"
       \/ pc[s] = "unregistering" /\ pc'[s] = "closed"

\* s takes a free id; alone, it has its ack at once.
Takes(s, i) ==
  /\ pc[s] = "receiving" /\ peerId[s] = None /\ clients[i] = None
  /\ clients' = [clients EXCEPT ![i] = s]
  /\ claimed' = [claimed EXCEPT ![s] = i]
  /\ \/ pc'[s] = "registering" /\ UNCHANGED peerId
     \/ /\ pc'[s] \in {"receiving", "sending"}
        /\ peerId' = [peerId EXCEPT ![s] = i]
  /\ \A u \in Sockets \ {s} : pc'[u] = pc[u]

\* The registration of s ends well.
Settles(s) ==
  /\ pc[s] = "registering"
  /\ pc'[s] \in {"receiving", "sending"}
  /\ peerId' = [peerId EXCEPT ![s] = claimed[s]]
  /\ UNCHANGED <<clients, claimed>>
  /\ \A u \in Sockets \ {s} : pc'[u] = pc[u]

\* The endpoint of s ends, and i, the id it has, with it.
GivesUp(s, i) ==
  /\ Holds(s, i)
  /\ clients' = [clients EXCEPT ![i] = None]
  /\ pc'[s] \in {"closed", "unregistering"}
  /\ peerId' \in {peerId, [peerId EXCEPT ![s] = claimed[s]]}
  /\ UNCHANGED claimed
  /\ \A u \in Sockets \ {s} : pc'[u] = pc[u]

\* The finally block of an endpoint that has its id (NoticeDisconnect and
\* BadPayload) or has none yet.
LEMMA EndOfLoop ==
  ASSUME IInv, NEW s \in Sockets, pc[s] = "receiving", Finally(s, peerId[s]),
         UNCHANGED <<peerId, claimed>>
  PROVE  Moves \/ \E i \in Ids : GivesUp(s, i)
<1>1. peerId[s] \in Ids \cup {None}
  BY DEF IInv, TypeOK
<1>2. CASE peerId[s] = None
  <2>1. clients' = clients /\ pc' = [pc EXCEPT ![s] = "closed"]
    BY <1>2 DEF Finally
  <2>2. QED
    BY <1>2, <2>1 DEF Moves, Live, IInv, TypeOK
<1>3. CASE peerId[s] # None
  <2>1. peerId[s] \in Ids /\ Holds(s, peerId[s])
    BY <1>1, <1>3 DEF Holds
  <2>2. GivesUp(s, peerId[s])
    BY <1>1, <1>3, <2>1, FinallyEffect DEF GivesUp, IInv
  <2>3. QED
    BY <2>1, <2>2
<1>4. QED
  BY <1>2, <1>3

\* A request of a registered client changes at most its own program counter.
LEMMA RequestsMove ==
  ASSUME IInv, NEW s \in Sockets,
         \/ ReplyError(s)
         \/ RequestPeerList(s)
         \/ \E kind \in {"connection_offer", "connection_answer"}, i \in Ids :
              RequestConnToPeer(s, kind, i)
         \/ \E i \in Ids : ForwardRejection(s, i)
  PROVE  Moves
<1>1. pc[s] = "receiving" /\ UNCHANGED <<clients, peerId, claimed>>
  BY DEF ReplyError, RequestPeerList, RequestConnToPeer, ForwardRejection,
         Receiving
<1>2. SUFFICES /\ pc'[s] \in {"receiving", "sending"}
               /\ \A u \in Sockets \ {s} : pc'[u] = pc[u]
  BY <1>1 DEF Moves, Live
<1>3. CASE ReplyError(s) \/ RequestPeerList(s)
  <2>1. clients \in Snapshots
    BY DEF IInv, TypeOK
  <2>2. \E m \in Messages : SendTo(s, s, m)
    BY <1>3, <2>1, MessageTypes DEF ReplyError, RequestPeerList
  <2>3. QED
    BY <2>2, SendToEffect DEF IInv
<1>4. CASE \E kind \in {"connection_offer", "connection_answer"}, i \in Ids :
             RequestConnToPeer(s, kind, i)
  <2>1. PICK kind \in {"connection_offer", "connection_answer"}, i \in Ids :
          RequestConnToPeer(s, kind, i)
    BY <1>4
  <2>2. peerId[s] \in Ids
    BY <2>1 DEF RequestConnToPeer, IInv, TypeOK
  <2>3. \E j \in Ids, m \in Messages : SendToId(s, j, m)
    BY <2>1, <2>2, MessageTypes DEF RequestConnToPeer
  <2>4. QED
    BY <1>1, <2>3, SendToIdEffect DEF IInv
<1>5. CASE \E i \in Ids : ForwardRejection(s, i)
  <2>1. PICK i \in Ids : ForwardRejection(s, i)
    BY <1>5
  <2>2. peerId[s] \in Ids
    BY <2>1 DEF ForwardRejection, IInv, TypeOK
  <2>3. \E j \in Ids, m \in Messages : SendToId(s, j, m)
    BY <2>1, <2>2, MessageTypes DEF ForwardRejection
  <2>4. QED
    BY <1>1, <2>3, SendToIdEffect DEF IInv
<1>6. QED
  BY <1>3, <1>4, <1>5

\* Every step of the system is one of the four.
LEMMA StepKinds ==
  ASSUME IInv, [Next]_vars
  PROVE  \/ Moves
         \/ \E s \in Sockets, i \in Ids : Takes(s, i)
         \/ \E s \in Sockets : Settles(s)
         \/ \E s \in Sockets, i \in Ids : GivesUp(s, i)
<1> USE DEF IInv
<1>1. ASSUME NEW s \in Sockets, Accept(s) PROVE Moves
  BY <1>1 DEF Accept, Moves, Live, TypeOK
<1>2. ASSUME NEW s \in Sockets,
             RefuseFirst(s) \/ \E i \in Ids : RefuseDuplicate(s, i)
      PROVE  Moves
  BY <1>2 DEF RefuseFirst, RefuseDuplicate, Refuse, Moves, Live, TypeOK
<1>3. ASSUME NEW s \in Sockets, NEW i \in Ids, Register(s, i)
      PROVE  Takes(s, i)
  BY <1>3 DEF Register, Takes, Free, TypeOK
<1>4. ASSUME NEW s \in Sockets, NEW i \in Ids, RegisterAlone(s, i)
      PROVE  Takes(s, i)
  <2> DEFINE table == [clients EXCEPT ![i] = s]
  <2>1. RegisterAck(i, table) \in Messages
    BY MessageTypes DEF TypeOK, Snapshots
  <2>2. SendTo(s, s, RegisterAck(i, table))
    BY <1>4 DEF RegisterAlone, SnapshotOf
  <2>3. /\ pc'[s] \in {"receiving", "sending"}
        /\ \A u \in Sockets \ {s} : pc'[u] = pc[u]
    <3> HIDE DEF table
    <3>1. QED
      BY <2>1, <2>2, SendToEffect
  <2>4. QED
    BY <1>4, <2>3 DEF RegisterAlone, Takes, Free
<1>5. ASSUME NEW s \in Sockets, AckRegistration(s) PROVE Settles(s)
  <2>1. claimed[s] \in Ids /\ snapshot[s] \in Snapshots
    BY <1>5 DEF AckRegistration, TypeOK, Sessions
  <2>2. RegisterAck(claimed[s], snapshot[s]) \in Messages
    BY <2>1, MessageTypes
  <2>3. QED
    BY <1>5, <2>2, SendToEffect DEF AckRegistration, Settles
<1>6. ASSUME NEW s \in Sockets, AckRaises(s)
      PROVE  \E i \in Ids : GivesUp(s, i)
  <2>1. claimed[s] \in Ids /\ Holds(s, claimed[s]) /\ claimed[s] # None
    BY <1>6 DEF AckRaises, TypeOK, Sessions, Holds
  <2>2. GivesUp(s, claimed[s])
    BY <1>6, <2>1, FinallyEffect DEF AckRaises, GivesUp
  <2>3. QED
    BY <2>1, <2>2
<1>7. ASSUME NEW s \in Sockets, NoticeDisconnect(s) \/ BadPayload(s)
      PROVE  Moves \/ \E i \in Ids : GivesUp(s, i)
  BY <1>7, EndOfLoop DEF NoticeDisconnect, BadPayload
<1>8. ASSUME NEW s \in Sockets, FinishUnregister(s) PROVE Moves
  BY <1>8 DEF FinishUnregister, Moves, TypeOK
<1>9. ASSUME NEW s \in Sockets, Resume(s) PROVE Moves
  BY <1>9 DEF Resume, Moves, Live, TypeOK
<1>10. ASSUME NEW s \in Sockets, LoopStep(s) \/ ClientStep(s) PROVE Moves
  BY <1>10 DEF LoopStep, StartSend, SendDone, ClientStep, ClientRead,
               Disconnect, Moves
<1>11. ASSUME UNCHANGED vars PROVE Moves
  BY <1>11 DEF vars, Moves
<1>12. QED
  BY <1>1, <1>2, <1>3, <1>4, <1>5, <1>6, <1>7, <1>8, <1>9, <1>10, <1>11,
     RequestsMove DEF Next, EndpointStep, Terminated

\* Each of the four keeps the table and the sessions in agreement.
LEMMA OwnerStep ==
  ASSUME IInv, [Next]_vars
  PROVE  (RegistryOwned /\ Sessions)'
<1> USE HubAssumption DEF IInv
<1>1. CASE Moves
  <2>1. \A s \in Sockets, i \in Ids : Holds(s, i) <=> Holds(s, i)'
    BY <1>1 DEF Moves, Live, Holds, Sessions
  <2>2. QED
    BY <1>1, <2>1 DEF Moves, Live, RegistryOwned, Sessions
<1>2. ASSUME NEW s \in Sockets, NEW i \in Ids, Takes(s, i)
      PROVE  (RegistryOwned /\ Sessions)'
  <2>1. \A j \in Ids : ~Holds(s, j) /\ clients[j] # s
    BY <1>2 DEF Takes, Holds, RegistryOwned
  <2>2. \A j \in Ids : Holds(s, j)' <=> j = i
    BY <1>2 DEF Takes, Holds, TypeOK
  <2>3. \A u \in Sockets \ {s}, j \in Ids : Holds(u, j)' <=> Holds(u, j)
    BY <1>2 DEF Takes, Holds, TypeOK
  <2>4. \A j \in Ids : clients'[j] = IF j = i THEN s ELSE clients[j]
    BY <1>2 DEF Takes, TypeOK, Snapshots
  <2>5. \A u \in Sockets \ {s} : ~Holds(u, i)
    BY <1>2 DEF Takes, RegistryOwned
  <2>6. RegistryOwned'
    BY <2>1, <2>2, <2>3, <2>4, <2>5 DEF RegistryOwned
  <2>7. Sessions'
    BY <1>2 DEF Takes, Sessions, TypeOK
  <2>8. QED
    BY <2>6, <2>7
<1>3. ASSUME NEW s \in Sockets, Settles(s)
      PROVE  (RegistryOwned /\ Sessions)'
  <2>1. \A u \in Sockets, j \in Ids : Holds(u, j)' <=> Holds(u, j)
    BY <1>3 DEF Settles, Holds, TypeOK
  <2>2. RegistryOwned'
    BY <1>3, <2>1 DEF Settles, RegistryOwned
  <2>3. Sessions'
    BY <1>3 DEF Settles, Sessions, TypeOK
  <2>4. QED
    BY <2>2, <2>3
<1>4. ASSUME NEW s \in Sockets, NEW i \in Ids, GivesUp(s, i)
      PROVE  (RegistryOwned /\ Sessions)'
  <2>1. \A j \in Ids : ~Holds(s, j)'
    BY <1>4 DEF GivesUp, Holds
  <2>2. \A u \in Sockets \ {s}, j \in Ids : Holds(u, j)' <=> Holds(u, j)
    BY <1>4 DEF GivesUp, Holds, TypeOK
  <2>3. \A j \in Ids : clients'[j] = IF j = i THEN None ELSE clients[j]
    BY <1>4 DEF GivesUp, TypeOK, Snapshots
  <2>4. clients[i] = s /\ \A j \in Ids : clients[j] = s => j = i
    BY <1>4 DEF GivesUp, RegistryOwned, Holds
  <2>5. RegistryOwned'
    BY <2>1, <2>2, <2>3, <2>4 DEF RegistryOwned
  <2>6. Sessions'
    BY <1>4 DEF GivesUp, Sessions, TypeOK
  <2>7. QED
    BY <2>5, <2>6
<1>5. QED
  BY <1>1, <1>2, <1>3, <1>4, StepKinds

-----------------------------------------------------------------------------
(***************************************************************************)
(* The theorems.                                                           *)
(***************************************************************************)

\* The empty hub satisfies the invariant.
LEMMA InitIInv == Init => IInv
<1> SUFFICES ASSUME Init PROVE IInv
  OBVIOUS
<1>1. NoPeers \in Snapshots
  BY DEF NoPeers, Snapshots
<1>2. TypeOK
  BY <1>1, HubAssumption DEF Init, TypeOK, PCs
<1>3. RegistryOwned
  BY HubAssumption DEF Init, RegistryOwned, Holds, NoPeers
<1>4. Sessions
  BY DEF Init, Sessions
<1>5. QED
  BY <1>2, <1>3, <1>4 DEF IInv

\* The inductive invariant holds throughout.
THEOREM Inductive == Spec => []IInv
<1>1. Init => IInv
  BY InitIInv
<1>2. IInv /\ [Next]_vars => IInv'
  BY TypeStep, OwnerStep DEF IInv
<1>3. QED
  BY <1>1, <1>2, PTL DEF Spec

\* Every variable of the hub keeps its type: in particular no registration is
\* ever acknowledged under a missing id, and no message is forwarded in the
\* name of an unregistered client (server.py websocket_endpoint).
THEOREM TypeCorrect == Spec => []TypeOK
<1>1. IInv => TypeOK
  BY DEF IInv
<1>2. QED
  BY <1>1, Inductive, PTL

\* The table of the hub lists exactly the sessions that are live and will
\* remove their record, whatever interleaving of endpoints, broadcasts and
\* disconnections (server.py register, unregister and the finally block).
THEOREM Ownership == Spec => []RegistryOwned
<1>1. IInv => RegistryOwned
  BY DEF IInv
<1>2. QED
  BY <1>1, Inductive, PTL

\* A step of the hub joins, leaves or does nothing to the abstract registry.
LEMMA RegistryStep ==
  ASSUME IInv, [Next]_vars
  PROVE  [Registry!Next]_(Registry!registryVars)
<1> DEFINE joined == {s \in Sockets : claimed[s] # None}
<1> USE HubAssumption DEF IInv
<1>1. CASE Moves
  BY <1>1 DEF Moves, Registry!registryVars
<1>2. ASSUME NEW s \in Sockets, NEW i \in Ids, Takes(s, i)
      PROVE  Registry!Join(s, i)
  <2>1. s \notin joined
    BY <1>2 DEF Takes, Sessions
  <2>2. joined' = joined \cup {s}
    BY <1>2 DEF Takes, TypeOK
  <2>3. QED
    BY <1>2, <2>1, <2>2 DEF Takes, Registry!Join
<1>3. ASSUME NEW s \in Sockets, Settles(s)
      PROVE  UNCHANGED Registry!registryVars
  BY <1>3 DEF Settles, Registry!registryVars
<1>4. ASSUME NEW s \in Sockets, NEW i \in Ids, GivesUp(s, i)
      PROVE  Registry!Leave(i)
  <2>1. clients[i] = s
    BY <1>4 DEF GivesUp, RegistryOwned
  <2>2. QED
    BY <1>4, <2>1 DEF GivesUp, Registry!Leave
<1>5. QED
  BY <1>1, <1>2, <1>3, <1>4, StepKinds DEF Registry!Next

\* The hub implements the abstract registry: an id changes hands only through a
\* state in which nobody has it, and a connection never gets a second one.
THEOREM Refinement == Spec => ImplementsRegistry
<1>1. Init => Registry!Init
  BY DEF Init, Registry!Init, NoPeers
<1>2. IInv /\ [Next]_vars => [Registry!Next]_(Registry!registryVars)
  BY RegistryStep
<1>3. QED
  BY <1>1, <1>2, Inductive, PTL DEF Spec, ImplementsRegistry, Registry!Spec

-----------------------------------------------------------------------------
(***************************************************************************)
(* Directories.                                                            *)
(***************************************************************************)
\* t has a record in the table.
Recorded(t) ==
  \/ pc[t] = "registering"
  \/ pc[t] \in {"receiving", "sending"} /\ peerId[t] # None

\* Nobody is told anything before it has a record ...
Untold(t) ==
  pc[t] \in {"idle", "receiving", "sending"} /\ peerId[t] = None => tasks[t] = <<>>

\* ... the last send that is scheduled to a recorded client carries the table ...
LastIsTable(t) ==
  Recorded(t) /\ tasks[t] # <<>> => tasks[t][Len(tasks[t])].peers = clients

\* ... and what a registration will be acknowledged with is the table up to the
\* ids that the history has noted.
SnapshotAges(t) ==
  pc[t] = "registering" => \A i \in Ids \ missed[t] : snapshot[t][i] = clients[i]

\* DirectoryConverges of t.
Converges(t) ==
  online[t] /\ peerId[t] # None /\ pc[t] \in {"receiving", "sending"} =>
    \E peers \in Latest(t) :
      \A i \in Ids \ (missed[t] \cup {peerId[t]}) : peers[i] = clients[i]

Told(t) == Untold(t) /\ LastIsTable(t) /\ SnapshotAges(t) /\ Converges(t)

DInv == IInv /\ \A t \in Sockets : Told(t)

\* The recipients of a broadcast are the sockets with a record.
LEMMA RecordedHas ==
  ASSUME IInv, NEW t \in Sockets
  PROVE  /\ Recorded(t) <=> \E i \in Ids : clients[i] = t
         /\ Recorded(t) <=> t \in RecordSockets(clients)
<1>1. \A i \in Ids : clients[i] = t <=> Holds(t, i)
  BY DEF IInv, RegistryOwned
<1>2. Recorded(t) => \E i \in Ids : Holds(t, i)
  <2>1. claimed[t] \in Ids \cup {None} /\ peerId[t] \in Ids \cup {None}
        /\ (pc[t] = "registering" => claimed[t] # None)
    BY DEF IInv, TypeOK, Sessions
  <2>2. QED
    BY <2>1 DEF Recorded, Holds
<1>3. (\E i \in Ids : Holds(t, i)) => Recorded(t)
  BY HubAssumption DEF Recorded, Holds
<1>4. t # None
  BY HubAssumption
<1>5. QED
  BY <1>1, <1>2, <1>3, <1>4 DEF RecordSockets

LEMMA QueueTypes ==
  ASSUME TypeOK, NEW t \in Sockets
  PROVE  /\ out[t] \in Seq(Messages) /\ Len(out[t]) \in Nat
         /\ DOMAIN out[t] = 1 .. Len(out[t])
         /\ tasks[t] \in Seq(SendTasks) /\ Len(tasks[t]) \in Nat
         /\ DOMAIN tasks[t] = 1 .. Len(tasks[t])
<1>1. out[t] \in Seq(Messages) /\ tasks[t] \in Seq(SendTasks)
  BY DEF TypeOK
<1>2. QED
  BY <1>1, LenProperties

\* What t will know, after a step that leaves it alone, writes to it, ...
LEMMA LatestSame ==
  ASSUME NEW t, UNCHANGED <<out[t], tasks[t], directory[t]>>
  PROVE  Latest(t)' = Latest(t)
BY DEF Latest, Carried

LEMMA Appended ==
  ASSUME TypeOK, NEW t \in Sockets, NEW m \in Messages, out'[t] = Append(out[t], m)
  PROVE  /\ DOMAIN out'[t] = 1 .. (Len(out[t]) + 1)
         /\ \A k \in DOMAIN out[t] : out'[t][k] = out[t][k]
         /\ out'[t][Len(out[t]) + 1] = m
         /\ Carried(t)' = Carried(t) \cup (IF CarriesPeers(m) THEN {Len(out[t]) + 1} ELSE {})
<1>1. out[t] \in Seq(Messages) /\ Len(out[t]) \in Nat /\ DOMAIN out[t] = 1 .. Len(out[t])
  BY QueueTypes
<1>2. /\ Append(out[t], m) \in Seq(Messages) /\ Len(Append(out[t], m)) = Len(out[t]) + 1
      /\ \A k \in 1 .. Len(out[t]) : Append(out[t], m)[k] = out[t][k]
      /\ Append(out[t], m)[Len(out[t]) + 1] = m
  BY <1>1, AppendProperties
<1>3. DOMAIN Append(out[t], m) = 1 .. (Len(out[t]) + 1)
  BY <1>2, LenProperties
<1>4. /\ DOMAIN out'[t] = 1 .. (Len(out[t]) + 1)
      /\ \A k \in DOMAIN out[t] : out'[t][k] = out[t][k]
      /\ out'[t][Len(out[t]) + 1] = m
  BY <1>1, <1>2, <1>3
<1>5. \A k : k \in Carried(t)' <=>
             \/ k \in Carried(t)
             \/ CarriesPeers(m) /\ k = Len(out[t]) + 1
  <2>1. \A k : k \in DOMAIN out'[t] <=> k \in DOMAIN out[t] \/ k = Len(out[t]) + 1
    BY <1>1, <1>4
  <2>2. \A k : k \in Carried(t)' <=> k \in DOMAIN out'[t] /\ CarriesPeers(out'[t][k])
    BY DEF Carried, CarriesPeers
  <2>3. QED
    BY <1>4, <2>1, <2>2 DEF Carried
<1>6. QED
  BY <1>4, <1>5

LEMMA LastWritten ==
  ASSUME TypeOK, NEW t \in Sockets, NEW m \in Messages, out'[t] = Append(out[t], m),
         CarriesPeers(m), tasks'[t] = <<>>
  PROVE  Latest(t)' = {m.peers}
<1>1. PICK l \in Nat : l = Len(out[t]) + 1
  BY QueueTypes
<1>2. /\ Carried(t)' = Carried(t) \cup {l} /\ out'[t][l] = m
      /\ \A k \in Carried(t) : k \in Nat /\ k < l
  <2>1. \A k \in Carried(t) : k \in Nat /\ k < l
    BY <1>1, QueueTypes DEF Carried
  <2>2. QED
    BY <1>1, <2>1, Appended
<1>3. {k \in Carried(t)' : \A j \in Carried(t)' : j <= k} = {l}
  <2>1. PICK c : c = Carried(t)'
    OBVIOUS
  <2>2. l \in c /\ \A j \in c : j <= l
    BY <1>2, <2>1
  <2>3. \A k \in c : l <= k => k = l
    BY <1>2, <2>1
  <2>4. {k \in c : \A j \in c : j <= k} = {l}
    BY <2>2, <2>3
  <2>5. QED
    BY <2>1, <2>4
<1>4. {out'[t][k].peers : k \in {l}} = {m.peers}
  BY <1>2
<1>5. QED
  BY <1>2, <1>3, <1>4 DEF Latest

LEMMA LatestWritten ==
  ASSUME TypeOK, NEW t \in Sockets, NEW m \in Messages,
         out'[t] = Append(out[t], m), UNCHANGED <<tasks[t], directory[t]>>
  PROVE  /\ ~CarriesPeers(m) \/ tasks[t] # <<>> => Latest(t)' = Latest(t)
         /\ CarriesPeers(m) /\ tasks[t] = <<>> => Latest(t)' = {m.peers}
<1>1. CASE tasks[t] # <<>>
  BY <1>1 DEF Latest
<1>2. CASE ~CarriesPeers(m) /\ tasks[t] = <<>>
  <2>1. Carried(t)' = Carried(t) /\ \A k \in Carried(t) : out'[t][k] = out[t][k]
    BY <1>2, Appended DEF Carried
  <2>2. {out'[t][k].peers : k \in {k \in Carried(t)' : \A j \in Carried(t)' : j <= k}}
          = {out[t][k].peers : k \in {k \in Carried(t) : \A j \in Carried(t) : j <= k}}
    BY <2>1
  <2>3. QED
    BY <1>2, <2>1, <2>2 DEF Latest
<1>3. CASE CarriesPeers(m) /\ tasks[t] = <<>>
  BY <1>3, LastWritten
<1>4. QED
  BY <1>1, <1>2, <1>3

\* ... reads, ...
LEMMA LatestRead ==
  ASSUME TypeOK, NEW t \in Sockets, ClientRead(t), NEW old \in Latest(t)
  PROVE  \E peers \in Latest(t)' :
           \A i \in Ids : i # claimed[t] => peers[i] = old[i]
<1>1. /\ out[t] \in Seq(Messages) /\ Len(out[t]) \in Nat /\ DOMAIN out[t] = 1 .. Len(out[t])
      /\ out[t] # <<>> /\ out'[t] = Tail(out[t]) /\ tasks' = tasks
      /\ directory'[t] = IF CarriesPeers(Head(out[t]))
                         THEN [Head(out[t]).peers EXCEPT ![claimed[t]] = None]
                         ELSE directory[t]
  BY QueueTypes DEF ClientRead, TypeOK
<1>2. /\ Head(out[t]) = out[t][1] /\ out[t][1] \in Messages /\ 1 \in DOMAIN out[t]
      /\ DOMAIN out'[t] = 1 .. (Len(out[t]) - 1)
      /\ \A k \in DOMAIN out'[t] : k + 1 \in DOMAIN out[t] /\ out'[t][k] = out[t][k + 1]
  <2>1. /\ Tail(out[t]) \in Seq(Messages) /\ Len(Tail(out[t])) = Len(out[t]) - 1
        /\ \A k \in 1 .. Len(Tail(out[t])) : Tail(out[t])[k] = out[t][k + 1]
        /\ Len(out[t]) > 0 /\ Head(out[t]) = out[t][1] /\ Head(out[t]) \in Messages
    BY <1>1, HeadTailProperties, EmptySeq
  <2>2. DOMAIN Tail(out[t]) = 1 .. (Len(out[t]) - 1)
    BY <2>1, LenProperties
  <2>3. QED
    BY <1>1, <2>1, <2>2
<1>3. CASE tasks[t] # <<>>
  BY <1>1, <1>3 DEF Latest
<1>4. CASE tasks[t] = <<>> /\ Carried(t)' # {}
  <2>1. \A j \in Carried(t)' : j \in Nat /\ j + 1 \in Carried(t)
    BY <1>1, <1>2 DEF Carried, CarriesPeers
  <2>2. PICK k \in Carried(t) : (\A j \in Carried(t) : j <= k) /\ old = out[t][k].peers
    BY <1>4, <2>1 DEF Latest
  <2>3. k \in 1 .. Len(out[t]) /\ CarriesPeers(out[t][k])
    BY <1>1 DEF Carried
  <2>4. k # 1 /\ \A j \in Carried(t)' : j <= k - 1
    <3>1. PICK c : c = Carried(t)'
      OBVIOUS
    <3>2. \A j \in c : j \in Nat /\ 1 <= j /\ j + 1 <= k
      <4>1. \A j \in c : 1 <= j
        BY <1>2, <3>1 DEF Carried
      <4>2. QED
        BY <2>1, <2>2, <3>1, <4>1
    <3>3. k # 1 /\ \A j \in c : j <= k - 1
      BY <1>4, <2>3, <3>1, <3>2
    <3>4. QED
      BY <3>1, <3>3
  <2>5. k - 1 \in DOMAIN out'[t] /\ out'[t][k - 1] = out[t][k]
    BY <1>1, <1>2, <2>3, <2>4
  <2>6. k - 1 \in Carried(t)'
    BY <2>3, <2>5 DEF Carried, CarriesPeers
  <2>7. old \in Latest(t)'
    BY <1>1, <1>4, <2>2, <2>4, <2>5, <2>6 DEF Latest
  <2>8. QED
    BY <2>7
<1>5. CASE tasks[t] = <<>> /\ Carried(t)' = {}
  <2>1. Latest(t)' = {directory'[t]}
    BY <1>1, <1>5 DEF Latest
  <2>2. ASSUME NEW j \in Carried(t)
        PROVE  j = 1
    <3>1. j \in 1 .. Len(out[t]) /\ CarriesPeers(out[t][j])
      BY <1>1, <2>2 DEF Carried
    <3>2. CASE j # 1
      <4>1. j - 1 \in DOMAIN out'[t] /\ out'[t][j - 1] = out[t][j]
        BY <1>1, <1>2, <3>1, <3>2
      <4>2. j - 1 \in Carried(t)'
        BY <3>1, <4>1 DEF Carried, CarriesPeers
      <4>3. QED
        BY <1>5, <4>2
    <3>3. QED
      BY <3>2
  <2>3. CASE CarriesPeers(Head(out[t]))
    <3>1. 1 \in Carried(t)
      BY <1>2, <2>3 DEF Carried
    <3>2. old = out[t][1].peers
      BY <1>5, <2>2, <3>1 DEF Latest
    <3>3. out[t][1].peers \in Snapshots
      BY <1>2, <2>3, CarriedType
    <3>4. \A i \in Ids : i # claimed[t] => directory'[t][i] = out[t][1].peers[i]
      BY <1>1, <1>2, <2>3, <3>3 DEF Snapshots
    <3>5. QED
      BY <2>1, <3>2, <3>4
  <2>4. CASE ~CarriesPeers(Head(out[t]))
    <3>1. Carried(t) = {}
      BY <1>2, <2>2, <2>4 DEF Carried
    <3>2. QED
      BY <1>1, <1>5, <2>1, <2>4, <3>1 DEF Latest
  <2>5. QED
    BY <2>3, <2>4
<1>6. QED
  BY <1>3, <1>4, <1>5

\* ... and has a send started, or one scheduled.
LEMMA LatestSent ==
  ASSUME TypeOK, NEW t \in Sockets, StartSend(t)
  PROVE  /\ tasks'[t] # <<>> => tasks'[t][Len(tasks'[t])] = tasks[t][Len(tasks[t])]
         /\ online[t] /\ pc[t] # "closed" => Latest(t)' = Latest(t)
<1>1. /\ tasks[t] \in Seq(SendTasks) /\ Len(tasks[t]) \in Nat /\ tasks[t] # <<>>
      /\ tasks'[t] = Tail(tasks[t]) /\ UNCHANGED directory
  BY QueueTypes DEF StartSend, TypeOK
<1>2. /\ Tail(tasks[t]) \in Seq(SendTasks) /\ Len(Tail(tasks[t])) = Len(tasks[t]) - 1
      /\ \A k \in 1 .. Len(Tail(tasks[t])) : Tail(tasks[t])[k] = tasks[t][k + 1]
      /\ Len(tasks[t]) > 0 /\ Head(tasks[t]) = tasks[t][1] /\ Head(tasks[t]) \in SendTasks
  BY <1>1, HeadTailProperties, EmptySeq
<1>3. tasks'[t] # <<>> => tasks'[t][Len(tasks'[t])] = tasks[t][Len(tasks[t])]
  BY <1>1, <1>2, EmptySeq
<1>4. ASSUME online[t], pc[t] # "closed"
      PROVE  Latest(t)' = Latest(t)
  <2>1. PICK m \in Messages : m = PeerList(Head(tasks[t]).peers)
    BY <1>2, MessageTypes DEF SendTasks
  <2>2. out'[t] = Append(out[t], m)
    BY <1>4, <2>1 DEF StartSend, Written, TypeOK
  <2>3. CASE tasks'[t] # <<>>
    BY <1>1, <1>3, <2>3 DEF Latest
  <2>4. CASE tasks'[t] = <<>>
    <3>1. Len(tasks[t]) = 1
      <4>1. Len(Tail(tasks[t])) = 0
        BY <1>1, <2>4, EmptySeq
      <4>2. QED
        BY <1>1, <1>2, <4>1
    <3>2. Latest(t) = {Head(tasks[t]).peers}
      BY <1>1, <1>2, <3>1 DEF Latest
    <3>3. CarriesPeers(m) /\ m.peers = Head(tasks[t]).peers
      BY <2>1 DEF PeerList, CarriesPeers
    <3>4. Latest(t)' = {m.peers}
      BY <2>2, <2>4, <3>3, LastWritten
    <3>5. QED
      BY <3>2, <3>3, <3>4
  <2>5. QED
    BY <2>3, <2>4
<1>5. QED
  BY <1>3, <1>4

\* A step that changes neither the table nor what t will know.
LEMMA Undisturbed ==
  ASSUME IInv, NEW t \in Sockets, Told(t), clients' = clients,
         UNCHANGED <<tasks[t], peerId[t], missed[t], snapshot[t]>>,
         \/ pc'[t] = pc[t]
         \/ pc[t] \in Live /\ pc'[t] \in {"receiving", "sending"}
         \/ pc'[t] \in {"closed", "unregistering"},
         \/ online'[t] = online[t] /\ Latest(t)' = Latest(t)
         \/ ~online'[t] \/ peerId[t] = None
  PROVE  Told(t)'
<1>1. pc[t] = "idle" => peerId[t] = None
  BY DEF IInv, Sessions
<1>2. Untold(t)'
  BY DEF Told, Untold, Live
<1>3. LastIsTable(t)'
  BY <1>1 DEF Told, LastIsTable, Recorded, Live
<1>4. SnapshotAges(t)'
  BY DEF Told, SnapshotAges
<1>5. Converges(t)'
  BY <1>1 DEF Told, Converges, Live
<1>6. QED
  BY <1>2, <1>3, <1>4, <1>5 DEF Told

\* The table changes, and all others that have a record are told.
LEMMA BroadcastTells ==
  ASSUME IInv, NEW s \in Sockets, NEW t \in Sockets, t # s, Told(t),
         NEW i \in Ids, NEW v, clients' = [clients EXCEPT ![i] = v], missed' = Noted(s, i),
         NEW recipients, t \in recipients <=> Recorded(t),
         Broadcast(s, clients', recipients), clients' \in Snapshots,
         UNCHANGED <<pc[t], peerId[t], snapshot[t], out[t], online[t], directory[t]>>
  PROVE  Told(t)'
<1>1. CASE Recorded(t)
  <2>1. PICK c \in Snapshots : c = clients'
    OBVIOUS
  <2>2. PICK e \in SendTasks : e.peers = c /\ tasks'[t] = Append(tasks[t], e)
    <3>1. [from |-> s, peers |-> c] \in SendTasks
      BY DEF SendTasks
    <3>2. tasks'[t] = Append(tasks[t], [from |-> s, peers |-> c])
      BY <1>1, <2>1 DEF Broadcast
    <3>3. QED
      BY <3>1, <3>2
  <2>3. tasks[t] \in Seq(SendTasks)
    BY QueueTypes DEF IInv
  <2>4. tasks'[t] # <<>> /\ tasks'[t][Len(tasks'[t])] = e
    BY <2>2, <2>3, AppendProperties
  <2>5. Latest(t)' = {c}
    BY <2>2, <2>4 DEF Latest
  <2>6. Untold(t)' /\ LastIsTable(t)'
    BY <1>1, <2>1, <2>2, <2>4 DEF Untold, LastIsTable, Recorded
  <2>7. Converges(t)'
    BY <2>1, <2>5 DEF Converges
  <2>8. SnapshotAges(t)'
    <3> SUFFICES ASSUME pc[t] = "registering", NEW j \in Ids \ missed'[t]
                 PROVE  snapshot[t][j] = clients'[j]
      BY DEF SnapshotAges
    <3>1. missed'[t] = missed[t] \cup {i}
      BY DEF Noted
    <3>2. j \notin missed[t] /\ j # i
      BY <3>1
    <3>3. clients'[j] = clients[j]
      BY <3>2 DEF IInv, TypeOK, Snapshots
    <3>4. QED
      BY <3>2, <3>3 DEF Told, SnapshotAges
  <2>9. QED
    BY <2>6, <2>7, <2>8 DEF Told
<1>2. CASE ~Recorded(t)
  <2>1. tasks'[t] = tasks[t]
    BY <1>2 DEF Broadcast
  <2>2. QED
    BY <1>2, <2>1 DEF Told, Untold, LastIsTable, SnapshotAges, Converges, Recorded
<1>3. QED
  BY <1>1, <1>2

\* An endpoint that is over is told nothing.
LEMMA OverTells ==
  ASSUME NEW t, pc'[t] \in {"closed", "unregistering"}
  PROVE  Told(t)'
BY DEF Told, Untold, LastIsTable, SnapshotAges, Converges, Recorded

LEMMA UnregisterTells ==
  ASSUME DInv, NEW s \in Sockets, NEW i \in Ids, clients[i] = s, Unregister(s, i),
         UNCHANGED <<out, online, directory>>,
         \A t \in Sockets : t # s => peerId'[t] = peerId[t] /\ snapshot'[t] = snapshot[t]
  PROVE  \A t \in Sockets : Told(t)'
<1>1. /\ clients' = [clients EXCEPT ![i] = None] /\ clients' \in Snapshots
      /\ pc'[s] \in {"closed", "unregistering"}
      /\ \A u \in Sockets \ {s} : pc'[u] = pc[u]
  BY UnregisterEffect DEF DInv, IInv
<1>2. PICK recipients : /\ recipients = RecordSockets(clients')
                        /\ Broadcast(s, clients', recipients) /\ missed' = Noted(s, i)
  BY <1>1, HubAssumption DEF Unregister
<1>3. ASSUME NEW t \in Sockets, t # s
      PROVE  t \in recipients <=> Recorded(t)
  <2>1. t \in recipients <=> \E j \in Ids : clients'[j] = t
    BY <1>2, HubAssumption DEF RecordSockets
  <2>2. \A j \in Ids : clients'[j] = IF j = i THEN None ELSE clients[j]
    BY <1>1 DEF DInv, IInv, TypeOK, Snapshots
  <2>3. (\E j \in Ids : clients'[j] = t) <=> \E j \in Ids : clients[j] = t
    BY <1>3, <2>2, HubAssumption
  <2>4. QED
    BY <2>1, <2>3, RecordedHas DEF DInv
<1>4. ASSUME NEW t \in Sockets, t # s
      PROVE  Told(t)'
  BY <1>1, <1>2, <1>3, <1>4, BroadcastTells DEF DInv
<1>5. QED
  BY <1>1, <1>4, OverTells

LEMMA FinallyTells ==
  ASSUME DInv, NEW s \in Sockets, NEW id \in Ids \cup {None}, Finally(s, id),
         id # None => clients[id] = s, UNCHANGED <<out, online, directory>>,
         \A t \in Sockets : t # s => peerId'[t] = peerId[t] /\ snapshot'[t] = snapshot[t]
  PROVE  \A t \in Sockets : Told(t)'
<1>1. CASE id # None
  BY <1>1, UnregisterTells DEF Finally
<1>2. CASE id = None
  <2>1. UNCHANGED <<clients, tasks, missed>> /\ pc' = [pc EXCEPT ![s] = "closed"]
    BY <1>2 DEF Finally
  <2>2. pc'[s] = "closed" /\ \A t \in Sockets : t # s => pc'[t] = pc[t]
    BY <2>1 DEF DInv, IInv, TypeOK
  <2>3. ASSUME NEW t \in Sockets, t # s
        PROVE  Told(t)'
    BY <2>1, <2>2, <2>3, LatestSame, Undisturbed DEF DInv
  <2>4. QED
    BY <2>2, <2>3, OverTells
<1>3. QED
  BY <1>1, <1>2

\* Only a list that is written to t changes what t will know.
LEMMA WrittenLatest ==
  ASSUME TypeOK, NEW u \in Sockets, NEW m \in Messages, out' = Written(u, m),
         UNCHANGED <<tasks, directory>>, NEW t \in Sockets,
         t # u \/ ~CarriesPeers(m) \/ tasks[u] # <<>>
  PROVE  Latest(t)' = Latest(t)
<1>1. out'[t] = out[t] \/ (t = u /\ out'[t] = Append(out[t], m))
  BY DEF Written, TypeOK
<1>2. CASE out'[t] = out[t]
  BY <1>2, LatestSame
<1>3. CASE t = u /\ out'[t] = Append(out[t], m)
  BY <1>3, LatestWritten
<1>4. QED
  BY <1>1, <1>2, <1>3

LEMMA RegisterTells ==
  ASSUME DInv, NEW s \in Sockets, NEW i \in Ids, Register(s, i)
  PROVE  \A t \in Sockets : Told(t)'
<1>1. /\ clients' = [clients EXCEPT ![i] = s] /\ clients' \in Snapshots
      /\ snapshot' = [snapshot EXCEPT ![s] = clients'] /\ missed' = Noted(s, i)
      /\ Broadcast(s, clients', RecordSockets(clients) \ {s})
      /\ pc' = [pc EXCEPT ![s] = "registering"]
      /\ UNCHANGED <<peerId, out, online, directory>>
  BY RegisterEffect DEF Register, SnapshotOf, DInv, IInv
<1>2. /\ pc'[s] = "registering" /\ snapshot'[s] = clients'
      /\ \A t \in Sockets : t # s => pc'[t] = pc[t] /\ snapshot'[t] = snapshot[t]
  BY <1>1 DEF DInv, IInv, TypeOK
<1>3. tasks'[s] = <<>>
  <2>1. Told(s) /\ pc[s] = "receiving" /\ peerId[s] = None
    BY DEF Register, DInv
  <2>2. tasks'[s] = tasks[s]
    BY <1>1 DEF Broadcast
  <2>3. QED
    BY <2>1, <2>2 DEF Told, Untold
<1>4. Told(s)'
  BY <1>2, <1>3 DEF Told, Untold, LastIsTable, SnapshotAges, Converges
<1>5. ASSUME NEW t \in Sockets, t # s
      PROVE  Told(t)'
  <2>1. PICK recipients : recipients = RecordSockets(clients) \ {s}
    OBVIOUS
  <2>2. t \in recipients <=> Recorded(t)
    BY <1>5, <2>1, RecordedHas DEF DInv
  <2>3. QED
    BY <1>1, <1>2, <1>5, <2>1, <2>2, BroadcastTells DEF DInv
<1>6. QED
  BY <1>4, <1>5

LEMMA RegisterAloneTells ==
  ASSUME DInv, NEW s \in Sockets, NEW i \in Ids, RegisterAlone(s, i)
  PROVE  \A t \in Sockets : Told(t)'
<1>1. PICK m : m = RegisterAck(i, clients')
  OBVIOUS
<1>2. /\ clients' \in Snapshots /\ m \in Messages /\ CarriesPeers(m) /\ m.peers = clients'
      /\ SendTo(s, s, m)
      /\ peerId' = [peerId EXCEPT ![s] = i] /\ UNCHANGED <<snapshot, tasks, online, directory>>
      /\ pc[s] = "receiving" /\ peerId[s] = None
  <2>1. clients' = [clients EXCEPT ![i] = s]
    BY DEF RegisterAlone
  <2>2. clients' \in Snapshots
    BY <2>1 DEF DInv, IInv, TypeOK, Snapshots
  <2>3. m \in Messages /\ CarriesPeers(m) /\ m.peers = clients'
    BY <1>1, <2>2, MessageTypes DEF RegisterAck, CarriesPeers
  <2>4. SendTo(s, s, m)
    BY <1>1, <2>1 DEF RegisterAlone, SnapshotOf
  <2>5. QED
    BY <2>2, <2>3, <2>4 DEF RegisterAlone
<1>3. pc'[s] \in {"receiving", "sending"} /\ \A t \in Sockets \ {s} : pc'[t] = pc[t]
  BY <1>2, SendToEffect DEF DInv, IInv
<1>4. peerId'[s] = i /\ \A t \in Sockets : t # s => peerId'[t] = peerId[t] /\ out'[t] = out[t]
  BY <1>2 DEF SendTo, Written, DInv, IInv, TypeOK
<1>5. tasks[s] = <<>>
  BY <1>2 DEF DInv, Told, Untold
<1>6. Told(s)'
  <2>1. online[s] => Latest(s)' = {clients'}
    <3>1. ASSUME online[s]
          PROVE  out'[s] = Append(out[s], m)
      BY <1>2, <3>1 DEF SendTo, Written, DInv, IInv, TypeOK
    <3>2. QED
      BY <1>2, <1>5, <3>1, LastWritten DEF DInv, IInv
  <2>2. Converges(s)'
    BY <1>2, <2>1 DEF Converges
  <2>3. i # None
    BY HubAssumption
  <2>4. Untold(s)' /\ LastIsTable(s)' /\ SnapshotAges(s)'
    BY <1>2, <1>3, <1>5 DEF Untold, LastIsTable, SnapshotAges
  <2>5. QED
    BY <2>2, <2>4 DEF Told
<1>7. ASSUME NEW t \in Sockets, t # s
      PROVE  Told(t)'
  <2>1. ~Recorded(t)
    BY <1>7, RecordedHas DEF RegisterAlone, DInv
  <2>2. Told(t)
    BY DEF DInv
  <2>3. QED
    BY <1>2, <1>3, <1>4, <1>7, <2>1, <2>2
       DEF Told, Untold, LastIsTable, SnapshotAges, Converges, Recorded
<1>8. QED
  BY <1>6, <1>7

LEMMA AckTells ==
  ASSUME DInv, NEW s \in Sockets, AckRegistration(s)
  PROVE  \A t \in Sockets : Told(t)'
<1>1. PICK m : m = RegisterAck(claimed[s], snapshot[s])
  OBVIOUS
<1>2. /\ m \in Messages /\ CarriesPeers(m) /\ m.peers = snapshot[s] /\ SendTo(s, s, m)
      /\ pc[s] = "registering" /\ UNCHANGED <<clients, tasks, online, directory, missed>>
  <2>1. claimed[s] \in Ids /\ snapshot[s] \in Snapshots
    BY DEF AckRegistration, DInv, IInv, TypeOK, Sessions
  <2>2. QED
    BY <1>1, <2>1, MessageTypes DEF AckRegistration, RegisterAck, CarriesPeers
<1>3. pc'[s] \in {"receiving", "sending"} /\ \A t \in Sockets \ {s} : pc'[t] = pc[t]
  BY <1>2, SendToEffect DEF DInv, IInv
<1>4. /\ peerId'[s] = claimed[s] /\ claimed[s] # None
      /\ \A t \in Sockets : t # s => peerId'[t] = peerId[t] /\ snapshot'[t] = snapshot[t]
  BY <1>2 DEF AckRegistration, DInv, IInv, TypeOK, Sessions
<1>5. Told(s)'
  <2>1. Told(s)
    BY DEF DInv
  <2>2. LastIsTable(s)'
    BY <1>2, <2>1 DEF Told, LastIsTable, Recorded
  <2>3. Untold(s)' /\ SnapshotAges(s)'
    BY <1>3, <1>4 DEF Untold, SnapshotAges
  <2>4. ASSUME online[s], tasks[s] = <<>>
        PROVE  Latest(s)' = {snapshot[s]}
    <3>1. out'[s] = Append(out[s], m)
      BY <1>2, <2>4 DEF SendTo, Written, DInv, IInv, TypeOK
    <3>2. QED
      BY <1>2, <2>4, <3>1, LastWritten DEF DInv, IInv
  <2>5. tasks[s] # <<>> => Latest(s)' = {clients}
    BY <1>2, <2>1 DEF Latest, Told, LastIsTable, Recorded
  <2>6. \A i \in Ids \ missed[s] : snapshot[s][i] = clients[i]
    BY <1>2, <2>1 DEF Told, SnapshotAges
  <2>7. Converges(s)'
    BY <1>2, <2>4, <2>5, <2>6 DEF Converges
  <2>8. QED
    BY <2>2, <2>3, <2>7 DEF Told
<1>6. ASSUME NEW t \in Sockets, t # s
      PROVE  Told(t)'
  <2>1. out' = Written(s, m) /\ online' = online
    BY <1>2 DEF SendTo
  <2>2. Latest(t)' = Latest(t)
    BY <1>2, <1>6, <2>1, WrittenLatest DEF DInv, IInv
  <2>3. QED
    BY <1>2, <1>3, <1>4, <1>6, <2>1, <2>2, Undisturbed DEF DInv
<1>7. QED
  BY <1>5, <1>6

\* What is forwarded or answered is no list, but for the answer to a request of
\* one, which is the table.
LEMMA SendTells ==
  ASSUME DInv, NEW s \in Sockets, NEW u \in Sockets, NEW m \in Messages, ~CarriesPeers(m),
         SendTo(s, u, m), pc[s] = "receiving",
         UNCHANGED <<clients, tasks, directory, missed, peerId, snapshot, online>>
  PROVE  \A t \in Sockets : Told(t)'
<1>1. pc'[s] \in {"receiving", "sending"} /\ \A t \in Sockets \ {s} : pc'[t] = pc[t]
  BY SendToEffect DEF DInv, IInv
<1>2. ASSUME NEW t \in Sockets
      PROVE  Told(t)'
  <2>1. Latest(t)' = Latest(t)
    BY WrittenLatest DEF SendTo, DInv, IInv
  <2>2. pc'[t] = pc[t] \/ (pc[t] \in Live /\ pc'[t] \in {"receiving", "sending"})
    BY <1>1 DEF Live
  <2>3. QED
    BY <2>1, <2>2, Undisturbed DEF DInv
<1>3. QED
  BY <1>2

LEMMA SendToIdTells ==
  ASSUME DInv, NEW s \in Sockets, NEW i \in Ids, NEW m \in Messages, ~CarriesPeers(m),
         SendToId(s, i, m), pc[s] = "receiving",
         UNCHANGED <<clients, tasks, directory, missed, peerId, snapshot, online>>
  PROVE  \A t \in Sockets : Told(t)'
<1>1. CASE clients[i] = None
  <2>1. UNCHANGED <<out, pc>>
    BY <1>1 DEF SendToId
  <2>2. QED
    BY <2>1, LatestSame, Undisturbed DEF DInv
<1>2. CASE clients[i] # None
  <2>1. clients[i] \in Sockets
    BY <1>2 DEF DInv, IInv, TypeOK, Snapshots
  <2>2. SendTo(s, clients[i], m)
    BY <1>2 DEF SendToId
  <2>3. QED
    BY <2>1, <2>2, SendTells
<1>3. QED
  BY <1>1, <1>2

LEMMA ListTells ==
  ASSUME DInv, NEW s \in Sockets, RequestPeerList(s)
  PROVE  \A t \in Sockets : Told(t)'
<1>1. PICK m : m = PeerList(clients)
  OBVIOUS
<1>2. /\ m \in Messages /\ CarriesPeers(m) /\ m.peers = clients /\ SendTo(s, s, m)
      /\ pc[s] = "receiving" /\ peerId[s] # None /\ missed' = [missed EXCEPT ![s] = {}]
      /\ UNCHANGED <<clients, tasks, directory, peerId, snapshot, online>>
  BY <1>1, MessageTypes
     DEF RequestPeerList, Receiving, PeerList, CarriesPeers, DInv, IInv, TypeOK
<1>3. pc'[s] \in {"receiving", "sending"} /\ \A t \in Sockets \ {s} : pc'[t] = pc[t]
  BY <1>2, SendToEffect DEF DInv, IInv
<1>4. Told(s)'
  <2>1. Told(s)
    BY DEF DInv
  <2>2. LastIsTable(s)'
    BY <1>2, <2>1 DEF Told, LastIsTable, Recorded
  <2>3. Untold(s)' /\ SnapshotAges(s)'
    BY <1>2, <1>3 DEF Untold, SnapshotAges
  <2>4. ASSUME online[s], tasks[s] = <<>>
        PROVE  Latest(s)' = {clients}
    <3>1. out'[s] = Append(out[s], m)
      BY <1>2, <2>4 DEF SendTo, Written, DInv, IInv, TypeOK
    <3>2. QED
      BY <1>2, <2>4, <3>1, LastWritten DEF DInv, IInv
  <2>5. tasks[s] # <<>> => Latest(s)' = {clients}
    BY <1>2, <2>1 DEF Latest, Told, LastIsTable, Recorded
  <2>6. Converges(s)'
    BY <1>2, <2>4, <2>5 DEF Converges
  <2>7. QED
    BY <2>2, <2>3, <2>6 DEF Told
<1>5. ASSUME NEW t \in Sockets, t # s
      PROVE  Told(t)'
  <2>1. Latest(t)' = Latest(t)
    BY <1>2, <1>5, WrittenLatest DEF SendTo, DInv, IInv
  <2>2. missed'[t] = missed[t]
    BY <1>2, <1>5 DEF DInv, IInv, TypeOK
  <2>3. QED
    BY <1>2, <1>3, <1>5, <2>1, <2>2, Undisturbed DEF DInv
<1>6. QED
  BY <1>4, <1>5

\* The steps of an endpoint.
LEMMA EndpointTells ==
  ASSUME DInv, NEW s \in Sockets, EndpointStep(s)
  PROVE  \A t \in Sockets : Told(t)'
<1> USE DEF DInv, IInv
<1>1. CASE Accept(s)
  <2>1. ASSUME NEW t \in Sockets
        PROVE  Told(t)'
    <3>1. pc'[t] = pc[t] \/ (pc[t] \in Live /\ pc'[t] \in {"receiving", "sending"})
      BY <1>1 DEF Accept, TypeOK, Live
    <3>2. online'[t] = online[t] \/ peerId[t] = None
      BY <1>1 DEF Accept, TypeOK, Sessions
    <3>3. QED
      BY <1>1, <3>1, <3>2, LatestSame, Undisturbed DEF Accept
  <2>2. QED
    BY <2>1
<1>2. CASE RefuseFirst(s) \/ \E i \in Ids : RefuseDuplicate(s, i)
  <2>1. Refuse(s)
    BY <1>2 DEF RefuseFirst, RefuseDuplicate
  <2>2. Error \in Messages /\ ~CarriesPeers(Error)
    BY MessageTypes DEF Error, CarriesPeers
  <2>3. ASSUME NEW t \in Sockets
        PROVE  Told(t)'
    <3>1. Latest(t)' = Latest(t)
      BY <2>1, <2>2, WrittenLatest DEF Refuse
    <3>2. pc'[t] = pc[t] \/ pc'[t] \in {"closed", "unregistering"}
      BY <2>1 DEF Refuse, TypeOK
    <3>3. QED
      BY <2>1, <3>1, <3>2, Undisturbed DEF Refuse
  <2>4. QED
    BY <2>3
<1>3. CASE AckRaises(s)
  <2>1. claimed[s] \in Ids /\ clients[claimed[s]] = s
    BY <1>3 DEF AckRaises, TypeOK, Sessions, RegistryOwned, Holds
  <2>2. \A t \in Sockets : t # s => peerId'[t] = peerId[t] /\ snapshot'[t] = snapshot[t]
    BY <1>3 DEF AckRaises, TypeOK
  <2>3. QED
    BY <1>3, <2>1, <2>2, FinallyTells DEF AckRaises
<1>4. CASE NoticeDisconnect(s) \/ BadPayload(s)
  <2>1. peerId[s] \in Ids \cup {None} /\ (peerId[s] # None => clients[peerId[s]] = s)
    BY <1>4 DEF NoticeDisconnect, BadPayload, TypeOK, RegistryOwned, Holds
  <2>2. QED
    BY <1>4, <2>1, FinallyTells DEF NoticeDisconnect, BadPayload
<1>5. CASE FinishUnregister(s) \/ Resume(s)
  <2>1. ASSUME NEW t \in Sockets
        PROVE  Told(t)'
    <3>1. \/ pc'[t] = pc[t] \/ pc'[t] \in {"closed", "unregistering"}
          \/ pc[t] \in Live /\ pc'[t] \in {"receiving", "sending"}
      BY <1>5 DEF FinishUnregister, Resume, TypeOK, Live
    <3>2. QED
      BY <1>5, <3>1, LatestSame, Undisturbed DEF FinishUnregister, Resume
  <2>2. QED
    BY <2>1
<1>6. CASE ReplyError(s)
  <2>1. Error \in Messages /\ ~CarriesPeers(Error)
    BY MessageTypes DEF Error, CarriesPeers
  <2>2. QED
    BY <1>6, <2>1, SendTells DEF ReplyError, Receiving
<1>7. ASSUME NEW i \in Ids, \/ ForwardRejection(s, i)
                            \/ \E kind \in {"connection_offer", "connection_answer"} :
                                 RequestConnToPeer(s, kind, i)
      PROVE  \A t \in Sockets : Told(t)'
  <2>1. /\ peerId[s] \in Ids /\ pc[s] = "receiving"
        /\ UNCHANGED <<clients, tasks, directory, missed, peerId, snapshot, online>>
    BY <1>7 DEF ForwardRejection, RequestConnToPeer, Receiving, TypeOK
  <2>2. PICK j \in Ids, m \in Messages : SendToId(s, j, m) /\ ~CarriesPeers(m)
    <3>1. Error \in Messages /\ ~CarriesPeers(Error)
      BY MessageTypes DEF Error, CarriesPeers
    <3>2. \A kind \in {"connection_offer", "connection_answer", "connection_reject"}, j \in Ids :
            Forward(kind, j) \in Messages /\ ~CarriesPeers(Forward(kind, j))
      BY MessageTypes DEF Forward, CarriesPeers
    <3>3. QED
      BY <1>7, <2>1, <3>1, <3>2 DEF ForwardRejection, RequestConnToPeer
  <2>3. QED
    BY <2>1, <2>2, SendToIdTells
<1>8. QED
  BY <1>1, <1>2, <1>3, <1>4, <1>5, <1>6, <1>7, RegisterTells, RegisterAloneTells, AckTells,
     ListTells DEF EndpointStep

\* The steps of the event loop and of the client at the other end.
LEMMA OtherTells ==
  ASSUME DInv, NEW s \in Sockets, LoopStep(s) \/ ClientStep(s)
  PROVE  \A t \in Sockets : Told(t)'
<1> USE DEF DInv, IInv
<1>1. CASE StartSend(s)
  <2>1. /\ tasks' = [tasks EXCEPT ![s] = Tail(@)] /\ tasks[s] # <<>>
        /\ \A t \in Sockets : t # s => tasks'[t] = tasks[t] /\ out'[t] = out[t]
        /\ UNCHANGED <<clients, pc, peerId, snapshot, online, directory, missed>>
    BY <1>1 DEF StartSend, Written, TypeOK
  <2>2. ASSUME NEW t \in Sockets, t # s
        PROVE  Told(t)'
    BY <2>1, <2>2, LatestSame, Undisturbed
  <2>3. Told(s)'
    <3>1. Told(s)
      OBVIOUS
    <3>2. Untold(s)'
      BY <2>1, <3>1 DEF Told, Untold
    <3>3. LastIsTable(s)'
      BY <1>1, <2>1, <3>1, LatestSent DEF Told, LastIsTable, Recorded
    <3>4. SnapshotAges(s)'
      BY <2>1, <3>1 DEF Told, SnapshotAges
    <3>5. Converges(s)'
      BY <1>1, <2>1, <3>1, LatestSent DEF Told, Converges
    <3>6. QED
      BY <3>2, <3>3, <3>4, <3>5 DEF Told
  <2>4. QED
    BY <2>2, <2>3
<1>2. CASE \E u \in Sockets : SendDone(u, s)
  BY <1>2, LatestSame, Undisturbed DEF SendDone
<1>3. CASE ClientRead(s)
  <2>1. /\ UNCHANGED <<clients, pc, peerId, claimed, snapshot, tasks, online, missed>>
        /\ \A t \in Sockets : t # s => out'[t] = out[t] /\ directory'[t] = directory[t]
    BY <1>3 DEF ClientRead, TypeOK
  <2>2. ASSUME NEW t \in Sockets, t # s
        PROVE  Told(t)'
    BY <2>1, <2>2, LatestSame, Undisturbed
  <2>3. Told(s)'
    <3>1. Told(s) /\ (pc[s] \in {"receiving", "sending"} => claimed[s] = peerId[s])
      BY DEF Sessions
    <3>2. Untold(s)' /\ LastIsTable(s)' /\ SnapshotAges(s)'
      BY <2>1, <3>1 DEF Told, Untold, LastIsTable, SnapshotAges, Recorded
    <3>3. Converges(s)'
      BY <1>3, <2>1, <3>1, LatestRead DEF Told, Converges
    <3>4. QED
      BY <3>2, <3>3 DEF Told
  <2>4. QED
    BY <2>2, <2>3
<1>4. CASE Disconnect(s)
  <2>1. /\ UNCHANGED <<clients, pc, peerId, snapshot, tasks, missed>>
        /\ ~online'[s]
        /\ \A t \in Sockets : t # s => /\ out'[t] = out[t] /\ directory'[t] = directory[t]
                                       /\ online'[t] = online[t]
    BY <1>4 DEF Disconnect, TypeOK
  <2>2. ASSUME NEW t \in Sockets
        PROVE  Told(t)'
    BY <2>1, LatestSame, Undisturbed
  <2>3. QED
    BY <2>2
<1>5. QED
  BY <1>1, <1>2, <1>3, <1>4 DEF LoopStep, ClientStep

LEMMA ToldInit ==
  ASSUME Init
  PROVE  \A t \in Sockets : Told(t)
BY DEF Init, Told, Untold, LastIsTable, SnapshotAges, Converges, Recorded

\* A registered client that reads what is on its way knows the table, but for the
\* ids that came or went while its own registration was being broadcast: register
\* returns an older snapshot, which is written behind the newer ones.
THEOREM Directories == Spec => []DirectoryConverges
<1>1. Init => DInv
  BY InitIInv, ToldInit DEF DInv
<1>2. DInv /\ [Next]_vars => DInv'
  <2> SUFFICES ASSUME DInv, [Next]_vars
               PROVE  DInv'
    OBVIOUS
  <2>1. IInv'
    BY TypeStep, OwnerStep DEF DInv, IInv
  <2>2. CASE Next
    <3>1. CASE Terminated
      BY <3>1, LatestSame, Undisturbed, <2>1 DEF Terminated, vars, DInv
    <3>2. QED
      BY <2>1, <2>2, <3>1, EndpointTells, OtherTells DEF Next, DInv
  <2>3. CASE UNCHANGED vars
    BY <2>1, <2>3, LatestSame, Undisturbed DEF vars, DInv
  <2>4. QED
    BY <2>2, <2>3
<1>3. DInv => DirectoryConverges
  BY DEF DInv, Told, Converges, DirectoryConverges
<1>4. QED
  BY <1>1, <1>2, <1>3, PTL DEF Spec
=============================================================================

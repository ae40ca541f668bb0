---------------------------- MODULE SignalingHub ----------------------------
(***************************************************************************)
(* The signaling hub of src/src/server.py: one websocket_endpoint task per *)
(* connection, all of them on one event loop, sharing SignalingHub._clients.*)
(*                                                                         *)
(* An action is a stretch of code between two suspension points.  The hub's *)
(* lock is never held across one, so taking it never suspends; the places  *)
(* where a task can be overtaken are receive_text, the drain of a full     *)
(* socket in send_text, and the gather of a broadcast, whose sends are     *)
(* tasks that start later, in the order in which they were scheduled.      *)
(***************************************************************************)
EXTENDS Naturals, Sequences

CONSTANTS
  Ids,          \* peer ids clients ask for
  Sockets,      \* connections; each is opened once
  None,         \* absent id, absent record
  HighWater,    \* unread messages a socket takes before its drain suspends
  MaxRequests   \* bound of the model on the requests of registered clients

ASSUME HubAssumption ==
  /\ None \notin Ids \cup Sockets
  /\ HighWater \in Nat
  /\ MaxRequests \in Nat

VARIABLES
  clients,      \* _clients: the socket of each id's ClientRecord
  pc,           \* where the endpoint task of each socket is suspended
  peerId,       \* its local peer_id
  claimed,      \* its local requested_id
  snapshot,     \* the snapshot that hub.register will return to it
  awaiting,     \* sockets whose send its await still waits for
  tasks,        \* per socket: broadcast sends scheduled and not yet started
  out,          \* per socket: messages written and not yet read
  online,       \* is the client still there
  directory,    \* Client.directory at the other end
  missed,       \* history: ids that came or went while the socket registered
  requests      \* requests handled, up to MaxRequests

vars == <<clients, pc, peerId, claimed, snapshot, awaiting, tasks, out,
          online, directory, missed, requests>>

Snapshots == [Ids -> Sockets \cup {None}]
NoPeers == [i \in Ids |-> None]

Messages ==
  [type : {"register_ack"}, id : Ids, peers : Snapshots]
    \cup [type : {"peer_list_response"}, peers : Snapshots]
    \cup [type : {"connection_offer", "connection_answer", "connection_reject"},
          id : Ids]
    \cup [type : {"error"}]

RegisterAck(i, peers) == [type |-> "register_ack", id |-> i, peers |-> peers]
PeerList(peers) == [type |-> "peer_list_response", peers |-> peers]
Forward(kind, source) == [type |-> kind, id |-> source]
Error == [type |-> "error"]

SendTasks == [from : Sockets, peers : Snapshots]

PCs == {"idle", "receiving", "registering", "sending", "unregistering", "closed"}

\* The one type invariant of the module.
TypeOK ==
  /\ clients \in Snapshots
  /\ pc \in [Sockets -> PCs]
  /\ peerId \in [Sockets -> Ids \cup {None}]
  /\ claimed \in [Sockets -> Ids \cup {None}]
  /\ snapshot \in [Sockets -> Snapshots]
  /\ awaiting \in [Sockets -> SUBSET Sockets]
  /\ tasks \in [Sockets -> Seq(SendTasks)]
  /\ out \in [Sockets -> Seq(Messages)]
  /\ online \in [Sockets -> BOOLEAN]
  /\ directory \in [Sockets -> Snapshots]
  /\ missed \in [Sockets -> SUBSET Ids]
  /\ requests \in 0 .. MaxRequests

Init ==
  /\ clients = NoPeers
  /\ pc = [s \in Sockets |-> "idle"]
  /\ peerId = [s \in Sockets |-> None]
  /\ claimed = [s \in Sockets |-> None]
  /\ snapshot = [s \in Sockets |-> NoPeers]
  /\ awaiting = [s \in Sockets |-> {}]
  /\ tasks = [s \in Sockets |-> <<>>]
  /\ out = [s \in Sockets |-> <<>>]
  /\ online = [s \in Sockets |-> FALSE]
  /\ directory = [s \in Sockets |-> NoPeers]
  /\ missed = [s \in Sockets |-> {}]
  /\ requests = 0

-----------------------------------------------------------------------------
(***************************************************************************)
(* Sending.                                                                *)
(***************************************************************************)

\* A write to a socket that is gone is logged and forgotten (_safe_send).
Written(t, m) ==
  [out EXCEPT ![t] = IF online[t] /\ pc[t] # "closed" THEN Append(@, m) ELSE @]

\* The drain after a write returns: the client has read enough, or is gone
\* and nothing is left to read.
Drained(t) == Len(out[t]) <= HighWater

\* s writes m to t and stays suspended while t is full.
SendTo(s, t, m) ==
  /\ out' = Written(t, m)
  /\ pc' = [pc EXCEPT ![s] = IF Drained(t)' THEN "receiving" ELSE "sending"]
  /\ awaiting' = [awaiting EXCEPT ![s] = IF Drained(t)' THEN {} ELSE {t}]

RecordSockets(peers) == {peers[i] : i \in Ids} \ {None}

\* gather creates one send task per recipient and suspends s until all are done.
Broadcast(s, peers, recipients) ==
  /\ tasks' = [t \in Sockets |->
                 IF t \in recipients
                 THEN Append(tasks[t], [from |-> s, peers |-> peers])
                 ELSE tasks[t]]
  /\ awaiting' = [awaiting EXCEPT ![s] = recipients]

\* History: id i, of s, came or went; a broadcast tells everyone but those
\* whose own REGISTER_ACK, with an older snapshot, is still to be written.
Noted(s, i) ==
  [t \in Sockets |->
     IF pc[t] = "registering" /\ t # s THEN missed[t] \cup {i} ELSE {}]

-----------------------------------------------------------------------------
(***************************************************************************)
(* A connection opens, and its first message must register it.  The task   *)
(* may also receive a message whose sender has gone away meanwhile.        *)
(***************************************************************************)
Accept(s) ==
  /\ pc[s] = "idle"
  /\ pc' = [pc EXCEPT ![s] = "receiving"]
  /\ online' = [online EXCEPT ![s] = TRUE]
  /\ UNCHANGED <<clients, peerId, claimed, snapshot, awaiting, tasks, out,
                 directory, missed, requests>>

\* Error reply, close with 1008 and return: peer_id is None, so the finally
\* block has nothing to unregister.
Refuse(s) ==
  /\ out' = Written(s, Error)
  /\ pc' = [pc EXCEPT ![s] = "closed"]
  /\ UNCHANGED <<clients, peerId, claimed, snapshot, awaiting, tasks, online,
                 directory, missed, requests>>

\* The first message is not a register, or extract_registration rejects it.
RefuseFirst(s) ==
  /\ pc[s] = "receiving" /\ peerId[s] = None
  /\ Refuse(s)

\* Free, without the check at the top of register.
FreeUnchecked(i) == TRUE

Free(i) == clients[i] = None

RefuseDuplicate(s, i) ==
  /\ pc[s] = "receiving" /\ peerId[s] = None
  /\ ~Free(i)
  /\ Refuse(s)

\* SnapshotOf, if it were taken before the record is inserted.
SnapshotBefore(table) == clients

\* What register() snapshots: the table as it is once the record is in it.
SnapshotOf(table) == table

\* hub.register inserts the record, takes the snapshot and, unless s is
\* alone, suspends until everyone else has been told.
Register(s, i) ==
  LET table  == [clients EXCEPT ![i] = s]
      others == RecordSockets(clients) \ {s}
  IN  /\ pc[s] = "receiving" /\ peerId[s] = None
      /\ Free(i)
      /\ others # {}
      /\ clients' = table
      /\ claimed' = [claimed EXCEPT ![s] = i]
      /\ snapshot' = [snapshot EXCEPT ![s] = SnapshotOf(table)]
      /\ Broadcast(s, SnapshotOf(table), others)
      /\ pc' = [pc EXCEPT ![s] = "registering"]
      /\ missed' = Noted(s, i)
      /\ UNCHANGED <<peerId, out, online, directory, requests>>

\* Alone in the hub, s is acknowledged without suspending.
RegisterAlone(s, i) ==
  LET table == [clients EXCEPT ![i] = s]
  IN  /\ pc[s] = "receiving" /\ peerId[s] = None
      /\ Free(i)
      /\ RecordSockets(clients) \ {s} = {}
      /\ clients' = table
      /\ claimed' = [claimed EXCEPT ![s] = i]
      /\ peerId' = [peerId EXCEPT ![s] = i]
      /\ UNCHANGED <<snapshot, tasks, online, directory, requests>>
      /\ SendTo(s, s, RegisterAck(i, SnapshotOf(table)))
      /\ missed' = Noted(s, i)

\* AckRegistration, if the ack were built before peer_id is set.
AckUnnamed(s) ==
  /\ pc[s] = "registering" /\ awaiting[s] = {}
  /\ peerId' = [peerId EXCEPT ![s] = claimed[s]]
  /\ snapshot' = [snapshot EXCEPT ![s] = NoPeers]
  /\ UNCHANGED <<clients, claimed, tasks, online, directory, missed, requests>>
  /\ SendTo(s, s, RegisterAck(peerId[s], snapshot[s]))

\* register() returns; peer_id is set and the ack carries the snapshot taken
\* before the wait, however old it is by now.
AckRegistration(s) ==
  /\ pc[s] = "registering" /\ awaiting[s] = {}
  /\ peerId' = [peerId EXCEPT ![s] = claimed[s]]
  /\ snapshot' = [snapshot EXCEPT ![s] = NoPeers]
  /\ UNCHANGED <<clients, claimed, tasks, online, directory, missed, requests>>
  /\ SendTo(s, s, RegisterAck(claimed[s], snapshot[s]))

-----------------------------------------------------------------------------
(***************************************************************************)
(* A connection ends.                                                      *)
(***************************************************************************)

\* hub.unregister: pop the record, snapshot, and tell those who are left.
Unregister(s, i) ==
  LET left       == [clients EXCEPT ![i] = None]
      recipients == IF clients[i] = None THEN {} ELSE RecordSockets(left)
  IN  /\ clients' = left
      /\ Broadcast(s, left, recipients)
      /\ pc' = [pc EXCEPT ![s] =
                  IF recipients = {} THEN "closed" ELSE "unregistering"]
      /\ missed' = Noted(s, i)

\* The finally block of the endpoint, whose peer_id is id.
Finally(s, id) ==
  \/ /\ id # None
     /\ Unregister(s, id)
  \/ /\ id = None
     /\ pc' = [pc EXCEPT ![s] = "closed"]
     /\ UNCHANGED <<clients, awaiting, tasks, missed>>

\* As NoticeDisconnect, if the endpoint had no finally block.
NoticeWithoutFinally(s) ==
  /\ pc[s] = "receiving" /\ ~online[s]
  /\ Finally(s, None)
  /\ UNCHANGED <<peerId, claimed, snapshot, out, online, directory, requests>>

\* receive_text raises WebSocketDisconnect.
NoticeDisconnect(s) ==
  /\ pc[s] = "receiving" /\ ~online[s]
  /\ Finally(s, peerId[s])
  /\ UNCHANGED <<peerId, claimed, snapshot, out, online, directory, requests>>

\* As AckRaises, if peer_id were set after the ack is sent.
AckRaisesBeforeNaming(s) ==
  /\ pc[s] = "registering" /\ awaiting[s] = {} /\ ~online[s]
  /\ Finally(s, peerId[s])
  /\ snapshot' = [snapshot EXCEPT ![s] = NoPeers]
  /\ UNCHANGED <<peerId, claimed, out, online, directory, requests>>

\* The ack cannot be written: peer_id is already set when send_text raises.
AckRaises(s) ==
  /\ pc[s] = "registering" /\ awaiting[s] = {} /\ ~online[s]
  /\ peerId' = [peerId EXCEPT ![s] = claimed[s]]
  /\ Finally(s, claimed[s])
  /\ snapshot' = [snapshot EXCEPT ![s] = NoPeers]
  /\ UNCHANGED <<claimed, out, online, directory, requests>>

\* extract_signal or extract_rejection raises: nothing in the loop catches it.
BadPayload(s) ==
  /\ pc[s] = "receiving" /\ peerId[s] # None
  /\ Finally(s, peerId[s])
  /\ UNCHANGED <<peerId, claimed, snapshot, out, online, directory, requests>>

FinishUnregister(s) ==
  /\ pc[s] = "unregistering" /\ awaiting[s] = {}
  /\ pc' = [pc EXCEPT ![s] = "closed"]
  /\ UNCHANGED <<clients, peerId, claimed, snapshot, awaiting, tasks, out,
                 online, directory, missed, requests>>

-----------------------------------------------------------------------------
(***************************************************************************)
(* Requests.                                                               *)
(***************************************************************************)
Receiving(s) ==
  /\ pc[s] = "receiving"
  /\ requests < MaxRequests
  /\ requests' = requests + 1
  /\ UNCHANGED <<clients, peerId, claimed, snapshot, tasks, online, directory>>

\* A message that does not parse (registered or not), or one of a type the
\* hub does not serve: an error reply, and the loop goes on.
ReplyError(s) ==
  /\ Receiving(s)
  /\ SendTo(s, s, Error)
  /\ UNCHANGED missed

\* request_peer_list: snapshot and write without a suspension in between.
RequestPeerList(s) ==
  /\ Receiving(s)
  /\ peerId[s] # None
  /\ SendTo(s, s, PeerList(clients))
  /\ missed' = [missed EXCEPT ![s] = {}]

\* The message goes to whoever holds id i now; nobody, and it is dropped.
SendToId(s, i, m) ==
  IF clients[i] = None
  THEN UNCHANGED <<out, pc, awaiting>>
  ELSE SendTo(s, clients[i], m)

\* request_conn_to_peer: forward an offer or an answer to whoever holds the
\* target id now, or reject it in the target's name.
RequestConnToPeer(s, kind, target) ==
  /\ Receiving(s)
  /\ peerId[s] # None
  /\ IF clients[target] # None
     THEN SendToId(s, target, Forward(kind, peerId[s]))
     ELSE SendToId(s, peerId[s], Forward("connection_reject", target))
  /\ UNCHANGED missed

\* forward_rejection: a missing target is an error for the sender.
ForwardRejection(s, target) ==
  /\ Receiving(s)
  /\ peerId[s] # None
  /\ IF clients[target] # None
     THEN SendToId(s, target, Forward("connection_reject", peerId[s]))
     ELSE SendToId(s, peerId[s], Error)
  /\ UNCHANGED missed

\* A suspended direct send is done, and the endpoint receives again.
Resume(s) ==
  /\ pc[s] = "sending" /\ awaiting[s] = {}
  /\ pc' = [pc EXCEPT ![s] = "receiving"]
  /\ UNCHANGED <<clients, peerId, claimed, snapshot, awaiting, tasks, out,
                 online, directory, missed, requests>>

-----------------------------------------------------------------------------
(***************************************************************************)
(* The event loop starts the send tasks of a socket in order; each ends    *)
(* when its drain returns, and its gather waits for the last one.          *)
(***************************************************************************)
\* StartSend, if a send that fails were tried again, and not only logged.
StartSendRetrying(t) ==
  /\ tasks[t] # <<>>
  /\ out' = Written(t, PeerList(Head(tasks[t]).peers))
  /\ tasks' = [tasks EXCEPT ![t] =
                 IF online[t] THEN Tail(@) ELSE Append(Tail(@), Head(@))]
  /\ UNCHANGED <<clients, pc, peerId, claimed, snapshot, awaiting, online,
                 directory, missed, requests>>

StartSend(t) ==
  /\ tasks[t] # <<>>
  /\ out' = Written(t, PeerList(Head(tasks[t]).peers))
  /\ tasks' = [tasks EXCEPT ![t] = Tail(@)]
  /\ UNCHANGED <<clients, pc, peerId, claimed, snapshot, awaiting, online,
                 directory, missed, requests>>

SendDone(s, t) ==
  /\ t \in awaiting[s]
  /\ \A k \in DOMAIN tasks[t] : tasks[t][k].from # s
  /\ Drained(t)
  /\ awaiting' = [awaiting EXCEPT ![s] = @ \ {t}]
  /\ UNCHANGED <<clients, pc, peerId, claimed, snapshot, tasks, out, online,
                 directory, missed, requests>>

-----------------------------------------------------------------------------
(***************************************************************************)
(* The client at the other end: it reads, keeping the directory of the     *)
(* last ack or peer list without its own id, or it goes away.              *)
(***************************************************************************)
CarriesPeers(m) == m.type \in {"register_ack", "peer_list_response"}

ClientRead(t) ==
  /\ online[t] /\ out[t] # <<>>
  /\ out' = [out EXCEPT ![t] = Tail(@)]
  /\ directory' =
       IF CarriesPeers(Head(out[t]))
       THEN [directory EXCEPT ![t] =
               [Head(out[t]).peers EXCEPT ![claimed[t]] = None]]
       ELSE directory
  /\ UNCHANGED <<clients, pc, peerId, claimed, snapshot, awaiting, tasks,
                 online, missed, requests>>

Disconnect(t) ==
  /\ online[t]
  /\ online' = [online EXCEPT ![t] = FALSE]
  /\ out' = [out EXCEPT ![t] = <<>>]
  /\ directory' = [directory EXCEPT ![t] = NoPeers]
  /\ UNCHANGED <<clients, pc, peerId, claimed, snapshot, awaiting, tasks,
                 missed, requests>>

Terminated ==
  /\ \A s \in Sockets : pc[s] = "closed" /\ ~online[s]
  /\ UNCHANGED vars

-----------------------------------------------------------------------------
EndpointStep(s) ==
  \/ Accept(s)
  \/ RefuseFirst(s)
  \/ \E i \in Ids : RefuseDuplicate(s, i)
  \/ \E i \in Ids : Register(s, i)
  \/ \E i \in Ids : RegisterAlone(s, i)
  \/ AckRegistration(s)
  \/ AckRaises(s)
  \/ NoticeDisconnect(s)
  \/ BadPayload(s)
  \/ FinishUnregister(s)
  \/ ReplyError(s)
  \/ RequestPeerList(s)
  \/ \E kind \in {"connection_offer", "connection_answer"}, i \in Ids :
       RequestConnToPeer(s, kind, i)
  \/ \E i \in Ids : ForwardRejection(s, i)
  \/ Resume(s)

LoopStep(t) == StartSend(t) \/ \E s \in Sockets : SendDone(s, t)

ClientStep(t) == ClientRead(t) \/ Disconnect(t)

Next ==
  \/ \E s \in Sockets : EndpointStep(s) \/ LoopStep(s) \/ ClientStep(s)
  \/ Terminated

Spec == Init /\ [][Next]_vars

\* The event loop runs every task that is ready, and a client that stays
\* keeps reading.  Nothing obliges a client to connect, ask or leave.
Fairness ==
  \A s \in Sockets :
    /\ WF_vars(AckRegistration(s) \/ AckRaises(s))
    /\ WF_vars(NoticeDisconnect(s))
    /\ WF_vars(FinishUnregister(s))
    /\ WF_vars(Resume(s))
    /\ WF_vars(StartSend(s))
    /\ \A t \in Sockets : WF_vars(SendDone(s, t))
    /\ WF_vars(ClientRead(s))

FairSpec == Spec /\ Fairness

-----------------------------------------------------------------------------
(***************************************************************************)
(* Properties.                                                             *)
(***************************************************************************)

\* The endpoints that have a record in the hub, and the id of each.
Holds(s, i) ==
  \/ pc[s] = "registering" /\ claimed[s] = i
  \/ pc[s] \in {"receiving", "sending"} /\ peerId[s] = i

\* The table of the hub lists exactly the live sessions: every record is that
\* of a running endpoint which will remove it, and no endpoint loses its record
\* to another one (register and the finally block of websocket_endpoint).
RegistryOwned ==
  \A i \in Ids, s \in Sockets : clients[i] = s <=> Holds(s, i)

\* Where the lists are among the messages that t has not read yet.
Carried(t) == {k \in DOMAIN out[t] : CarriesPeers(out[t][k])}

\* The snapshot a client will hold once it has read all that is on its way; as
\* a set, which has this one element.
Latest(t) ==
  IF tasks[t] # <<>> THEN {tasks[t][Len(tasks[t])].peers}
  ELSE IF Carried(t) # {}
    THEN {out[t][k].peers : k \in {k \in Carried(t) : \A j \in Carried(t) : j <= k}}
    ELSE {directory[t]}

\* A registered client's directory converges to the table: once it has read
\* what is on its way it knows every other peer that is registered and no other,
\* except that an ack that was overtaken by broadcasts (register returns its
\* snapshot after the gather) may hide who came or went in between, until the
\* next broadcast or peer list.
DirectoryConverges ==
  \A t \in Sockets :
    online[t] /\ peerId[t] # None /\ pc[t] \in {"receiving", "sending"}
      => \E peers \in Latest(t) :
           \A i \in Ids \ (missed[t] \cup {peerId[t]}) : peers[i] = clients[i]

Registry == INSTANCE PeerRegistry
              WITH owner  <- clients,
                   joined <- {s \in Sockets : claimed[s] # None}

\* register and unregister, for all their suspensions, implement the abstract
\* registry: ids change hands only through a free state and a connection never
\* holds a second id.
ImplementsRegistry == Registry!Spec

\* The wait of a registration for the broadcast to everyone else ends, even if
\* those others go away in the middle of it.
RegistrationSettles ==
  \A s \in Sockets : pc[s] = "registering" ~> pc[s] # "registering"

\* An id held by a client that is gone is given up in the end, so that the
\* client can come back under it.
DeadPeersForgotten ==
  \A s \in Sockets, i \in Ids :
    clients[i] = s /\ ~online[s] ~> clients[i] # s
=============================================================================

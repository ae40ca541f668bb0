---------------------------- MODULE Negotiation -----------------------------
(***************************************************************************)
(* How clients build peer connections (src/src/client.py with peer.py and  *)
(* webrtc_connection.py): in every client a caller, which runs             *)
(* connect_to_peer and hangs up after its job, and the listener, which     *)
(* handles what the hub forwards, share the cache Client.peers and one     *)
(* answer future.  An action is a stretch of code between two awaits.      *)
(*                                                                         *)
(* A Peer and its RTCPeerConnection are made together and are one entry of *)
(* conns here; its index is its identity.  The hub is reduced to one FIFO  *)
(* of forwarded messages per client (SignalingHub has its detail), and     *)
(* aiortc to what the code observes of it.  Clients die, their connections *)
(* to the hub break, and the hub restarts; who lost the hub registers anew *)
(* with its next call (NodeLifecycle has the detail of that).              *)
(***************************************************************************)
EXTENDS Naturals, Sequences, FiniteSets

CONSTANTS
  Nodes,        \* clients, which are registered from the start
  MaxCalls,     \* bound of the model on calls of connect_to_peer
  Faults,       \* the kinds of faults that may happen
  MaxFaults     \* bound of the model on how many do

ASSUME NegotiationAssumption ==
  /\ Faults \subseteq {"crash", "loss", "restart"}
  /\ MaxCalls \in Nat /\ MaxFaults \in Nat

VARIABLES
  conns,        \* every Peer ever made, with its pc
  peers,        \* Client.peers: per client and target an index, or 0
  caller,       \* where the caller of each client is suspended
  target,       \* its target_id
  mine,         \* the connection it holds: pc, or the peer it waits for
  before,       \* its existing_peer, read before connect_to_peer
  future,       \* its answer future
  pending,      \* Client._pending_signals: the targets it has a future for
  listener,     \* where the listener of each client is suspended
  offer,        \* the offer it handles, and the pc it made for it
  inbox,        \* what the hub forwarded to each client
  link,         \* Client._connection: up, broken unnoticed, or none
  registered,   \* who has a record in the hub
  alive,        \* who has not crashed
  gone,         \* history: whose record the hub has dropped
  calls, faults \* so far

vars == <<conns, peers, caller, target, mine, before, future, pending, listener,
          offer, inbox, link, registered, alive, gone, calls, faults>>

callerVars == <<caller, target, mine, before>>
listenerVars == <<listener, offer>>
signalVars == <<future, pending>>
hubVars == <<link, registered, gone>>
worldVars == <<hubVars, alive, faults>>

NoConn == 0

\* pc is "closing" from the call of close() until it reports it; "failed" also
\* stands for a remote end that closed, which the code does not tell apart.
Lives == {"open", "closing", "closed", "failed"}

Conn == [owner : Nodes, with : Nodes, initiator : BOOLEAN, life : Lives,
         remote : Nat,          \* whose description was set as remote
         ready : BOOLEAN]       \* Peer._ready

CallerPCs == {"idle", "joining", "dropping", "registering", "requesting",
              "offering", "waiting", "giving_up", "polling", "connecting", "using", "hanging_up"}

\* The states of the caller in which it has a connection in hand, and those of
\* the listener in which it handles an offer.
Holding == CallerPCs \ {"idle", "registering", "requesting", "polling"}
Replying == {"replacing", "answering", "rejecting"}
ListenerPCs == Replying \cup {"receiving"}

Futures == [is : {"none", "waiting", "failed"}] \cup [is : {"answered"}, by : Nat]
Future(state) == [is |-> state]
Answered(k) == [is |-> "answered", by |-> k]

Message ==
  [type : {"offer", "answer"}, from : Nodes, conn : Nat]
    \cup [type : {"reject"}, from : Nodes]
    \cup [type : {"error"}]

\* The one type invariant of the module; a cached connection is the client's
\* own, with the peer it is cached under.
TypeOK ==
  /\ conns \in Seq(Conn)
  /\ peers \in [Nodes -> [Nodes -> 0 .. Len(conns)]]
  /\ \A n, t \in Nodes :
       peers[n][t] # NoConn =>
         conns[peers[n][t]].owner = n /\ conns[peers[n][t]].with = t
  /\ caller \in [Nodes -> CallerPCs]
  /\ target \in [Nodes -> Nodes]
  /\ mine \in [Nodes -> 0 .. Len(conns)]
  /\ before \in [Nodes -> 0 .. Len(conns)]
  /\ future \in [Nodes -> Futures]
  /\ pending \in [Nodes -> SUBSET Nodes]
  /\ listener \in [Nodes -> ListenerPCs]
  /\ offer \in [Nodes -> [from : Nodes, conn : Nat, pc : Nat]]
  /\ inbox \in [Nodes -> Seq(Message)]
  /\ link \in [Nodes -> {"up", "broken", "none"}]
  /\ {registered, alive, gone} \subseteq SUBSET Nodes
  /\ calls \in 0 .. MaxCalls /\ faults \in 0 .. MaxFaults

Init ==
  /\ conns = <<>>
  /\ peers = [n \in Nodes |-> [t \in Nodes |-> NoConn]]
  /\ caller = [n \in Nodes |-> "idle"]
  /\ target = [n \in Nodes |-> n]
  /\ mine = [n \in Nodes |-> NoConn]
  /\ before = [n \in Nodes |-> NoConn]
  /\ future = [n \in Nodes |-> Future("none")]
  /\ pending = [n \in Nodes |-> {}]
  /\ listener = [n \in Nodes |-> "receiving"]
  /\ offer = [n \in Nodes |-> [from |-> n, conn |-> NoConn, pc |-> NoConn]]
  /\ inbox = [n \in Nodes |-> <<>>]
  /\ link = [n \in Nodes |-> "up"]
  /\ registered = Nodes
  /\ alive = Nodes
  /\ gone = {}
  /\ calls = 0 /\ faults = 0

-----------------------------------------------------------------------------
(***************************************************************************)
(* Connections.                                                            *)
(***************************************************************************)
\* NewConn, if the Peer were given the client's own id.
NewConnToSelf(n, t, initiating) ==
  [owner |-> n, with |-> n, initiator |-> initiating, life |-> "open",
   remote |-> NoConn, ready |-> FALSE]

NewConn(n, t, initiating) ==
  [owner |-> n, with |-> t, initiator |-> initiating, life |-> "open",
   remote |-> NoConn, ready |-> FALSE]

\* pc.close(): its first half, which runs at once; closing twice is harmless.
Closing(ks) ==
  [k \in DOMAIN conns |->
     IF k \in ks /\ conns[k].life \in {"open", "failed"}
     THEN [conns[k] EXCEPT !.life = "closing"] ELSE conns[k]]

Popped(n, t) == [peers EXCEPT ![n][t] = NoConn]
Cached(n, t, k) == [peers EXCEPT ![n][t] = k]

\* Both ends have the other's description, and neither was closed.
Linked(k) ==
  LET m == conns[k].remote
  IN  /\ m # NoConn
      /\ conns[m].remote = k
      /\ conns[k].life = "open" /\ conns[m].life = "open"

(***************************************************************************)
(* The hub (request_conn_to_peer and forward_rejection of server.py): the  *)
(* message joins the target's FIFO, unless its socket is dead.             *)
(***************************************************************************)
Delivered(t, m) ==
  IF t \in alive /\ link[t] = "up" THEN [inbox EXCEPT ![t] = Append(@, m)] ELSE inbox

Signal(kind, n, t, k) ==
  inbox' = IF t \in registered
           THEN Delivered(t, [type |-> kind, from |-> n, conn |-> k])
           ELSE Delivered(n, [type |-> "reject", from |-> t])

Reject(n, t) ==
  inbox' = IF t \in registered
           THEN Delivered(t, [type |-> "reject", from |-> n])
           ELSE Delivered(n, [type |-> "error"])

-----------------------------------------------------------------------------
(***************************************************************************)
(* The caller: connect_to_peer, then submit_job_to_peer, then the finally  *)
(* block of attempt_job_dispatch.  One call at a time, as in stdin_loop.   *)
(***************************************************************************)
Goes(n, where) == caller' = [caller EXCEPT ![n] = where]

\* request_conn_to_peer after connect() has returned, up to its suspension in
\* create_offer.  An entry of _pending_signals, or of the cache, refuses it.
Request(n, t, cached) ==
  IF t \in pending[n] \/ cached # NoConn
  THEN /\ Goes(n, "idle")
       /\ peers' = [peers EXCEPT ![n][t] = cached]
       /\ UNCHANGED <<conns, mine>>
  ELSE /\ conns' = Append(conns, NewConn(n, t, TRUE))
       /\ mine' = [mine EXCEPT ![n] = Len(conns) + 1]
       /\ peers' = Cached(n, t, Len(conns) + 1)
       /\ Goes(n, "offering")

\* request_conn_to_peer: connect() suspends only if the hub was lost.
Start(n, t) ==
  \/ link[n] # "none" /\ Request(n, t, NoConn)
  \/ link[n] = "none" /\ Goes(n, "registering") /\ peers' = Popped(n, t)
     /\ UNCHANGED <<conns, mine>>

Calling(n, t) ==
  /\ n \in alive /\ caller[n] = "idle" /\ t # n
  /\ calls < MaxCalls
  /\ calls' = calls + 1
  /\ target' = [target EXCEPT ![n] = t]
  /\ before' = [before EXCEPT ![n] = peers[n][t]]
  /\ UNCHANGED <<signalVars, listenerVars, inbox, worldVars>>

CallFresh(n, t) ==
  /\ Calling(n, t)
  /\ peers[n][t] = NoConn
  /\ Start(n, t)

\* The existing peer is waited for.
CallExisting(n, t) ==
  /\ Calling(n, t)
  /\ peers[n][t] # NoConn
  /\ conns[peers[n][t]].life \in {"open", "closing"}
  /\ mine' = [mine EXCEPT ![n] = peers[n][t]]
  /\ Goes(n, "joining")
  /\ UNCHANGED <<conns, peers>>

\* connectionState is failed or closed: close it, then build a new one.
CallStale(n, t) ==
  /\ Calling(n, t)
  /\ peers[n][t] # NoConn
  /\ conns[peers[n][t]].life \in {"failed", "closed"}
  /\ conns' = Closing({peers[n][t]})
  /\ mine' = [mine EXCEPT ![n] = peers[n][t]]
  /\ Goes(n, "dropping")
  /\ UNCHANGED peers

Waiting(n, where) ==
  /\ n \in alive /\ caller[n] = where
  /\ UNCHANGED <<target, before, listenerVars, alive, faults, calls>>

At(n, where) == Waiting(n, where) /\ UNCHANGED hubVars

JoinExisting(n) ==
  /\ At(n, "joining")
  /\ conns[mine[n]].ready
  /\ Goes(n, "using")
  /\ UNCHANGED <<conns, peers, mine, signalVars, inbox>>

JoinTimeout(n) ==
  /\ At(n, "joining")
  /\ conns' = Closing({mine[n]})
  /\ Goes(n, "dropping")
  /\ UNCHANGED <<peers, mine, signalVars, inbox>>

\* close() has returned: whatever is cached now is popped, and a new
\* connection takes its place without a suspension in between.
Rebuild(n) ==
  /\ At(n, "dropping")
  /\ conns[mine[n]].life = "closed"
  /\ Start(n, target[n])
  /\ UNCHANGED <<signalVars, inbox>>

\* The hub knows the id no more, and takes the client back.
Register(n) ==
  /\ Waiting(n, "registering")
  /\ n \notin registered
  /\ registered' = registered \cup {n}
  /\ link' = [link EXCEPT ![n] = "up"]
  /\ Goes(n, "requesting")
  /\ UNCHANGED <<conns, peers, mine, signalVars, inbox, gone>>

\* The hub is away, still has the id, or is lost again before connect returns.
RegisterFails(n) ==
  /\ caller[n] = "registering" \/ (caller[n] = "requesting" /\ link[n] = "none")
  /\ At(n, caller[n])
  /\ Goes(n, "idle")
  /\ UNCHANGED <<conns, peers, mine, signalVars, inbox>>

\* The ack is in; the listener may have answered an offer of the target before.
Registered(n) ==
  /\ At(n, "requesting") /\ link[n] # "none"
  /\ Request(n, target[n], peers[n][target[n]])
  /\ UNCHANGED <<signalVars, inbox>>

\* create_offer returns, even for a pc that was closed while it gathered.
SendOffer(n) ==
  /\ At(n, "offering") /\ link[n] = "up"
  /\ future' = [future EXCEPT ![n] = Future("waiting")]
  /\ pending' = [pending EXCEPT ![n] = @ \cup {target[n]}]
  /\ Signal("offer", n, target[n], mine[n])
  /\ Goes(n, "waiting")
  /\ UNCHANGED <<conns, peers, mine>>

\* The hub was lost meanwhile: _send raises, and nothing is undone.
OfferUnsent(n) ==
  /\ At(n, "offering") /\ link[n] # "up"
  /\ pending' = [pending EXCEPT ![n] = @ \cup {target[n]}]
  /\ Goes(n, "idle")
  /\ UNCHANGED <<conns, peers, mine, future, inbox>>

\* create_offer raises on a closed pc; nothing is undone.
OfferRaises(n) ==
  /\ At(n, "offering")
  /\ conns[mine[n]].life # "open"
  /\ Goes(n, "idle")
  /\ UNCHANGED <<conns, peers, mine, signalVars, inbox>>

\* The answer is set on the pc of this call, and wait_for_peer starts.
SetAnswer(n) ==
  /\ At(n, "waiting")
  /\ future[n].is = "answered"
  /\ conns[mine[n]].life = "open"
  /\ conns' = [conns EXCEPT ![mine[n]].remote = future[n].by]
  /\ future' = [future EXCEPT ![n] = Future("none")]
  /\ Goes(n, "polling")
  /\ UNCHANGED <<peers, mine, pending, inbox>>

\* set_remote_answer raises, on a closed pc or an answer it cannot use.
AnswerRaises(n) ==
  /\ At(n, "waiting")
  /\ future[n].is = "answered"
  /\ future' = [future EXCEPT ![n] = Future("none")]
  /\ Goes(n, "idle")
  /\ UNCHANGED <<conns, peers, mine, pending, inbox>>

\* OfferFailed, if the wait for the answer had a timeout that left it pending
\* at the other end.
OfferTimesOut(n) ==
  /\ At(n, "waiting")
  /\ future[n].is # "answered"
  /\ conns' = Closing({mine[n]})
  /\ future' = [future EXCEPT ![n] = Future("none")]
  /\ pending' = [pending EXCEPT ![n] = @ \ {target[n]}]
  /\ Goes(n, "giving_up")
  /\ UNCHANGED <<peers, mine, inbox>>

\* The future failed: close pc, and after that pop whatever is cached.
OfferFailed(n) ==
  /\ At(n, "waiting")
  /\ future[n].is = "failed"
  /\ conns' = Closing({mine[n]})
  /\ future' = [future EXCEPT ![n] = Future("none")]
  /\ Goes(n, "giving_up")
  /\ UNCHANGED <<peers, mine, pending, inbox>>

GiveUp(n) ==
  /\ At(n, "giving_up")
  /\ conns[mine[n]].life = "closed"
  /\ peers' = Popped(n, target[n])
  /\ Goes(n, "idle")
  /\ UNCHANGED <<conns, mine, signalVars, inbox>>

\* wait_for_peer finds a connection in the cache, the call's own or not.
FindPeer(n) ==
  /\ At(n, "polling")
  /\ peers[n][target[n]] # NoConn
  /\ mine' = [mine EXCEPT ![n] = peers[n][target[n]]]
  /\ Goes(n, "connecting")
  /\ UNCHANGED <<conns, peers, signalVars, inbox>>

PollTimeout(n) ==
  /\ At(n, "polling")
  /\ peers[n][target[n]] = NoConn
  /\ Goes(n, "idle")
  /\ UNCHANGED <<conns, peers, mine, signalVars, inbox>>

Connected(n) ==
  /\ At(n, "connecting")
  /\ conns[mine[n]].ready
  /\ Goes(n, "using")
  /\ UNCHANGED <<conns, peers, mine, signalVars, inbox>>

\* peer.connect times out and the call raises; the peer stays in the cache.
ConnectTimeout(n) ==
  /\ At(n, "connecting")
  /\ Goes(n, "idle")
  /\ UNCHANGED <<conns, peers, mine, signalVars, inbox>>

\* The job is over: a connection that was there before the call is kept.
KeepConnection(n) ==
  /\ At(n, "using")
  /\ mine[n] = before[n]
  /\ Goes(n, "idle")
  /\ UNCHANGED <<conns, peers, mine, signalVars, inbox>>

\* Any other is closed (close_peer_connection) ...
HangUp(n) ==
  /\ At(n, "using")
  /\ mine[n] # before[n]
  /\ conns' = Closing({mine[n]})
  /\ Goes(n, "hanging_up")
  /\ UNCHANGED <<peers, mine, signalVars, inbox>>

\* ... and popped if it still is the one in the cache.
HungUp(n) ==
  /\ At(n, "hanging_up")
  /\ conns[mine[n]].life = "closed"
  /\ peers' = IF peers[n][target[n]] = mine[n] THEN Popped(n, target[n]) ELSE peers
  /\ Goes(n, "idle")
  /\ UNCHANGED <<conns, mine, signalVars, inbox>>

-----------------------------------------------------------------------------
(***************************************************************************)
(* The listener: _dispatch and what it calls.                              *)
(***************************************************************************)
Receiving(n, kind) ==
  /\ n \in alive /\ link[n] # "none" /\ listener[n] = "receiving"
  /\ inbox[n] # <<>> /\ Head(inbox[n]).type = kind
  /\ UNCHANGED <<callerVars, worldVars, calls>>

Received(n) == inbox' = [inbox EXCEPT ![n] = Tail(@)]

\* The responder's peer takes its place in the cache, over whatever is there.
Respond(n, source, k) ==
  /\ conns' = Append(conns, NewConn(n, source, FALSE))
  /\ peers' = Cached(n, source, Len(conns) + 1)
  /\ offer' = [offer EXCEPT ![n] =
                 [from |-> source, conn |-> k, pc |-> Len(conns) + 1]]
  /\ listener' = [listener EXCEPT ![n] = "answering"]

\* ReceiveOffer, if the replaced connection stayed cached while it closes.
ReceiveOfferKeeping(n) ==
  LET m        == Head(inbox[n])
      existing == peers[n][m.from]
  IN  /\ Receiving(n, "offer")
      /\ Received(n)
      /\ \/ /\ existing = NoConn
            /\ Respond(n, m.from, m.conn)
         \/ /\ existing # NoConn
            /\ conns' = Closing({existing})
            /\ offer' = [offer EXCEPT ![n] =
                           [from |-> m.from, conn |-> m.conn, pc |-> existing]]
            /\ listener' = [listener EXCEPT ![n] = "replacing"]
            /\ UNCHANGED peers
      /\ UNCHANGED signalVars

\* ReceiveOffer, if the replaced connection were not closed.
ReceiveOfferUnclosed(n) ==
  /\ Receiving(n, "offer")
  /\ Received(n)
  /\ Respond(n, Head(inbox[n]).from, Head(inbox[n]).conn)
  /\ UNCHANGED signalVars

ReceiveOffer(n) ==
  LET m        == Head(inbox[n])
      existing == peers[n][m.from]
  IN  /\ Receiving(n, "offer")
      /\ Received(n)
      /\ \/ /\ existing = NoConn
            /\ Respond(n, m.from, m.conn)
         \/ /\ existing # NoConn
            /\ peers' = Popped(n, m.from)
            /\ conns' = Closing({existing})
            /\ offer' = [offer EXCEPT ![n] =
                           [from |-> m.from, conn |-> m.conn, pc |-> existing]]
            /\ listener' = [listener EXCEPT ![n] = "replacing"]
      /\ UNCHANGED signalVars

Handling(n, where) ==
  /\ n \in alive /\ listener[n] = where
  /\ UNCHANGED <<callerVars, registered, alive, gone, faults, calls>>

HandlingOn(n, where) == Handling(n, where) /\ UNCHANGED <<signalVars, link>>

\* The close() of the replaced connection returns.
Replace(n) ==
  /\ HandlingOn(n, "replacing")
  /\ conns[offer[n].pc].life = "closed"
  /\ Respond(n, offer[n].from, offer[n].conn)
  /\ UNCHANGED inbox

SendAnswer(n) ==
  /\ HandlingOn(n, "answering") /\ link[n] = "up"
  /\ conns[offer[n].pc].life = "open"
  /\ conns' = [conns EXCEPT ![offer[n].pc].remote = offer[n].conn]
  /\ Signal("answer", n, offer[n].from, offer[n].pc)
  /\ listener' = [listener EXCEPT ![n] = "receiving"]
  /\ UNCHANGED <<peers, offer>>

\* handle_offer_and_create_answer raises, on a closed pc or an offer it cannot
\* use: whatever is cached for the source is popped, and pc is closed.
OfferUnusable(n) ==
  /\ HandlingOn(n, "answering")
  /\ peers' = Popped(n, offer[n].from)
  /\ conns' = Closing({offer[n].pc})
  /\ listener' = [listener EXCEPT ![n] = "rejecting"]
  /\ UNCHANGED <<offer, inbox>>

SendReject(n) ==
  /\ HandlingOn(n, "rejecting") /\ link[n] = "up"
  /\ conns[offer[n].pc].life = "closed"
  /\ Reject(n, offer[n].from)
  /\ listener' = [listener EXCEPT ![n] = "receiving"]
  /\ UNCHANGED <<conns, peers, offer>>

\* The future of every pending offer to ts fails, and its entry is popped.
FailPending(n, ts) ==
  /\ future' = IF future[n].is = "waiting" /\ target[n] \in ts
               THEN [future EXCEPT ![n] = Future("failed")] ELSE future
  /\ pending' = [pending EXCEPT ![n] = @ \ ts]

\* HandleDisconnect, if the pending offers were left alone.
DisconnectedPending(n) ==
  /\ link' = [link EXCEPT ![n] = "none"]
  /\ inbox' = [inbox EXCEPT ![n] = <<>>]
  /\ listener' = [listener EXCEPT ![n] = "receiving"]
  /\ UNCHANGED <<signalVars, peers, offer>>

\* The listener ends: _handle_disconnect.
Disconnected(n) ==
  /\ FailPending(n, Nodes)
  /\ link' = [link EXCEPT ![n] = "none"]
  /\ inbox' = [inbox EXCEPT ![n] = <<>>]
  /\ listener' = [listener EXCEPT ![n] = "receiving"]
  /\ UNCHANGED <<peers, offer>>

\* recv() finds nothing more on a broken connection ...
HandleDisconnect(n) ==
  /\ Handling(n, "receiving") /\ link[n] = "broken" /\ inbox[n] = <<>>
  /\ Disconnected(n)
  /\ UNCHANGED conns

\* ... or the answer, or the rejection, cannot be sent on it.
AnswerUnsent(n) ==
  /\ Handling(n, "answering") /\ link[n] = "broken"
  /\ conns[offer[n].pc].life = "open"
  /\ conns' = [conns EXCEPT ![offer[n].pc].remote = offer[n].conn]
  /\ Disconnected(n)

RejectUnsent(n) ==
  /\ Handling(n, "rejecting") /\ link[n] = "broken"
  /\ conns[offer[n].pc].life = "closed"
  /\ Disconnected(n)
  /\ UNCHANGED conns

\* An answer resolves the offer that is pending to its sender, if any, and is
\* not compared with it.
ReceiveAnswer(n) ==
  LET m == Head(inbox[n])
  IN  /\ Receiving(n, "answer")
      /\ Received(n)
      /\ future' = IF future[n].is = "waiting" /\ target[n] = m.from
                   THEN [future EXCEPT ![n] = Answered(m.conn)] ELSE future
      /\ pending' = [pending EXCEPT ![n] = @ \ {m.from}]
      /\ UNCHANGED <<conns, peers, listenerVars>>

\* A rejection also drops whatever is cached for the peer it comes from.
ReceiveReject(n) ==
  LET m == Head(inbox[n])
  IN  /\ Receiving(n, "reject")
      /\ Received(n)
      /\ FailPending(n, {m.from})
      /\ conns' = Closing({peers[n][m.from]})
      /\ peers' = Popped(n, m.from)
      /\ UNCHANGED listenerVars

\* An error fails every pending offer, whatever it is about.
ReceiveError(n) ==
  /\ Receiving(n, "error")
  /\ Received(n)
  /\ FailPending(n, pending[n])
  /\ conns' = Closing({peers[n][t] : t \in pending[n]})
  /\ peers' = [peers EXCEPT ![n] = [t \in Nodes |-> IF t \in pending[n] THEN NoConn ELSE @[t]]]
  /\ UNCHANGED listenerVars

-----------------------------------------------------------------------------
(***************************************************************************)
(* aiortc, the network, and faults.                                        *)
(***************************************************************************)
ConnOnly ==
  UNCHANGED <<peers, callerVars, signalVars, listenerVars, inbox, worldVars, calls>>

\* connectionState becomes "connected", or the channel opens: mark_connected.
BecomeReady(k) ==
  /\ Linked(k) /\ ~conns[k].ready
  /\ conns' = [conns EXCEPT ![k].ready = TRUE]
  /\ ConnOnly

\* The other end closed, died, or never matched, or the path broke.
Fail(k) ==
  /\ conns[k].life = "open" /\ conns[k].remote # NoConn
  /\ conns' = [conns EXCEPT ![k].life = "failed", ![k].ready = FALSE]
  /\ ConnOnly

CloseDone(k) ==
  /\ conns[k].life = "closing"
  /\ conns' = [conns EXCEPT ![k].life = "closed", ![k].ready = FALSE]
  /\ ConnOnly

Fault(kind) == kind \in Faults /\ faults < MaxFaults /\ faults' = faults + 1

\* A client dies, with all it holds.
Crash(n) ==
  /\ n \in alive /\ Fault("crash")
  /\ alive' = alive \ {n}
  /\ conns' = [k \in DOMAIN conns |->
                 IF conns[k].owner = n
                 THEN [conns[k] EXCEPT !.life = "closed", !.ready = FALSE]
                 ELSE conns[k]]
  /\ peers' = [peers EXCEPT ![n] = [t \in Nodes |-> NoConn]]
  /\ caller' = [caller EXCEPT ![n] = "idle"]
  /\ future' = [future EXCEPT ![n] = Future("none")]
  /\ pending' = [pending EXCEPT ![n] = {}]
  /\ listener' = [listener EXCEPT ![n] = "receiving"]
  /\ inbox' = [inbox EXCEPT ![n] = <<>>]
  /\ link' = [link EXCEPT ![n] = "none"]
  /\ UNCHANGED <<target, mine, before, offer, registered, gone, calls>>

\* The connection of a client to the hub breaks; what is on its way is lost.
LoseHub(n) ==
  /\ n \in alive /\ link[n] = "up" /\ Fault("loss")
  /\ link' = [link EXCEPT ![n] = "broken"]
  /\ inbox' \in {inbox, [inbox EXCEPT ![n] = <<>>]}
  /\ UNCHANGED <<conns, peers, callerVars, signalVars, listenerVars, registered,
                 alive, gone, calls>>

\* The hub restarts, and remembers nobody.
HubRestarts ==
  /\ Fault("restart")
  /\ link' = [n \in Nodes |-> IF link[n] = "up" THEN "broken" ELSE link[n]]
  /\ registered' = {} /\ gone' = gone \cup registered
  /\ UNCHANGED <<conns, peers, callerVars, signalVars, listenerVars, inbox, alive,
                 calls>>

\* The hub sees the socket of a client close, and forgets its record.
Unregister(n) ==
  /\ n \in registered /\ (n \notin alive \/ link[n] # "up")
  /\ registered' = registered \ {n}
  /\ gone' = gone \cup {n}
  /\ UNCHANGED <<conns, peers, callerVars, signalVars, listenerVars, inbox, link,
                 alive, faults, calls>>

\* Nobody has anything left to do; whoever still waits for the answer of a
\* client that died or lost the hub waits for ever.
Quiet ==
  /\ registered = {n \in alive : link[n] = "up"}
  /\ \A n \in alive :
       /\ \/ caller[n] = "idle" /\ calls = MaxCalls
          \/ caller[n] = "waiting" /\ target[n] \in gone
       /\ listener[n] = "receiving" /\ inbox[n] = <<>> /\ link[n] # "broken"
  /\ UNCHANGED vars

-----------------------------------------------------------------------------
CallerStep(n) ==
  \/ \E t \in Nodes : CallFresh(n, t) \/ CallExisting(n, t) \/ CallStale(n, t)
  \/ JoinExisting(n) \/ JoinTimeout(n) \/ Rebuild(n)
  \/ Register(n) \/ RegisterFails(n) \/ Registered(n)
  \/ SendOffer(n) \/ OfferUnsent(n) \/ OfferRaises(n)
  \/ SetAnswer(n) \/ AnswerRaises(n) \/ OfferFailed(n) \/ GiveUp(n)
  \/ FindPeer(n) \/ PollTimeout(n) \/ Connected(n) \/ ConnectTimeout(n)
  \/ KeepConnection(n) \/ HangUp(n) \/ HungUp(n)

ListenerStep(n) ==
  \/ ReceiveOffer(n) \/ Replace(n) \/ SendAnswer(n) \/ OfferUnusable(n)
  \/ SendReject(n)
  \/ ReceiveAnswer(n) \/ ReceiveReject(n) \/ ReceiveError(n)
  \/ HandleDisconnect(n) \/ AnswerUnsent(n) \/ RejectUnsent(n)

ConnStep(k) == BecomeReady(k) \/ Fail(k) \/ CloseDone(k)

Next ==
  \/ \E n \in Nodes : CallerStep(n) \/ ListenerStep(n)
  \/ \E k \in DOMAIN conns : ConnStep(k)
  \/ \E n \in Nodes : Crash(n) \/ LoseHub(n) \/ Unregister(n)
  \/ HubRestarts
  \/ Quiet

Spec == Init /\ [][Next]_vars

\* The event loops of live clients run, close() ends, and the hub notices who
\* is gone.  A call is not obliged to start, nor a connection to come up.
Progress ==
  \/ \E n \in Nodes : (UNCHANGED calls /\ CallerStep(n)) \/ ListenerStep(n) \/ Unregister(n)
  \/ \E k \in DOMAIN conns : CloseDone(k)

FairSpec == Spec /\ WF_vars(Progress)

-----------------------------------------------------------------------------
(***************************************************************************)
(* Properties.                                                             *)
(***************************************************************************)

\* The cache offers no connection that this client has closed itself, except
\* while the caller that closed it is about to pop it: whoever finds a peer
\* in Client.peers may wait for it (connect_to_peer, _refresh_peer_handlers).
CacheNotClosed ==
  \A n \in alive, t \in Nodes :
    LET k == peers[n][t]
    IN  k # NoConn /\ conns[k].life \in {"closing", "closed"} =>
          caller[n] \in {"dropping", "giving_up", "hanging_up"} /\ mine[n] = k

\* The client can still reach the connection: it is cached, or its caller has it
\* in hand (connect_to_peer drops what request_conn_to_peer returns).
Known(k) ==
  LET n == conns[k].owner
  IN  \/ peers[n][conns[k].with] = k
      \/ caller[n] \in Holding /\ mine[n] = k

\* As far as its owner can tell, the connection is up, or comes up.
Live(k) == conns[k].life = "open" /\ conns[k].remote # NoConn

\* However two clients call each other, neither ever has two live connections
\* with the other that it can still reach: whatever takes the place of one in
\* the cache has closed it (_handle_incoming_offer, _handle_rejection,
\* connect_to_peer), so that a caller that waits for it or uses it gets to know.
OneLink ==
  \A k, l \in DOMAIN conns :
    /\ Live(k) /\ Known(k) /\ Live(l) /\ Known(l)
    /\ conns[l].owner = conns[k].owner /\ conns[l].with = conns[k].with
    => k = l

\* An answer is matched with a pending offer by its sender alone; still, as
\* long as nobody has left the hub, it answers that very offer.
AnswerMatches ==
  gone = {} =>
    \A n \in Nodes : future[n].is = "answered" =>
      conns[future[n].by].remote = mine[n]

\* Every call ends, with a connection that is used or an error, unless the
\* client that is called dies or loses the hub.
CallReturns ==
  \A n \in Nodes : caller[n] # "idle" ~> caller[n] = "idle" \/ target[n] \in gone

\* connect_to_peer(target, timeout) ends for every target: what its timeout
\* says.  The wait for the answer, in request_conn_to_peer, has none.
CallAlwaysReturns ==
  \A n \in Nodes : caller[n] # "idle" ~> caller[n] = "idle"

\* "Connection attempt to ... already pending", with which request_conn_to_peer
\* refuses a target in _pending_signals, is true of every target that is there
\* after a lost connection has been dealt with.
PendingIsAwaited ==
  \A n \in alive : link[n] # "broken" =>
    \A t \in pending[n] : caller[n] = "waiting" /\ target[n] = t
=============================================================================

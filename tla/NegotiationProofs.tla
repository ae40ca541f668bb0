------------------------- MODULE NegotiationProofs --------------------------
(***************************************************************************)
(* Theorems about Negotiation, for any clients, calls, and faults.         *)
(***************************************************************************)
EXTENDS Negotiation, SequenceTheorems, TLAPS

Dropping == {"dropping", "giving_up", "hanging_up"}
Using == {"joining", "connecting", "using"}

\* k is a connection that n has made, with t.
Own(n, t, k) == k \in DOMAIN conns /\ conns[k].owner = n /\ conns[k].with = t

\* A caller that has a connection in hand has one with its target; the listener
\* has one with the sender of the offer.
Held(n) ==
  /\ caller[n] \in Holding => Own(n, target[n], mine[n])
  /\ listener[n] \in Replying => Own(n, offer[n].from, offer[n].pc)

\* CacheNotClosed of n.
Clean(n) ==
  \A t \in Nodes :
    peers[n][t] # NoConn /\ conns[peers[n][t]].life \in {"closing", "closed"} =>
      caller[n] \in Dropping /\ mine[n] = peers[n][t]

\* What a caller drops it has closed, and what waits for an answer has none.
Dropped(n) == caller[n] \in Dropping => conns[mine[n]].life \in {"closing", "closed"}

Unanswered(n) ==
  caller[n] \in {"offering", "waiting"} =>
    conns[mine[n]].initiator /\ conns[mine[n]].remote = NoConn

\* The listener gives an answer for a connection it has made for that.
Responding(n) ==
  /\ listener[n] \in {"answering", "rejecting"} => ~conns[offer[n].pc].initiator
  /\ listener[n] = "answering" => conns[offer[n].pc].remote = NoConn

\* What a caller uses or waits for, and what is or will be live, is cached.
Used(n) ==
  /\ caller[n] \in Using
  /\ conns[mine[n]].life = "open"
  /\ \/ conns[mine[n]].remote # NoConn
     \/ listener[n] = "answering" /\ offer[n].pc = mine[n]
  => peers[n][target[n]] = mine[n]

\* While the listener handles an offer, the cache has nothing for its sender
\* that was answered: nobody else reads the answers.
Window(n) ==
  listener[n] \in {"replacing", "answering"} /\ peers[n][offer[n].from] # NoConn =>
    /\ conns[peers[n][offer[n].from]].remote = NoConn
    /\ ~ /\ caller[n] = "waiting" /\ mine[n] = peers[n][offer[n].from]
         /\ future[n].is = "answered"

NodeInv(n) ==
  /\ Held(n) /\ Clean(n) /\ Dropped(n) /\ Unanswered(n) /\ Responding(n)
  /\ Used(n) /\ Window(n)

CInv == TypeOK /\ \A n \in Nodes : NodeInv(n)

-----------------------------------------------------------------------------
(***************************************************************************)
(* What a step does to the connections.                                    *)
(***************************************************************************)
\* None is lost, and none changes its ends.
Grown ==
  /\ conns' \in Seq(Conn)
  /\ Len(conns) \in Nat /\ Len(conns') \in Nat /\ Len(conns) <= Len(conns')
  /\ DOMAIN conns = 1 .. Len(conns) /\ DOMAIN conns' = 1 .. Len(conns')
  /\ \A k \in DOMAIN conns :
       /\ conns'[k].owner = conns[k].owner /\ conns'[k].with = conns[k].with
       /\ conns'[k].initiator = conns[k].initiator

\* The life of each of the former connections, and what was set as its remote.
LivesKept == \A k \in DOMAIN conns : conns'[k].life = conns[k].life
RemotesKept == \A k \in DOMAIN conns : conns'[k].remote = conns[k].remote

LEMMA ConnTyped ==
  ASSUME TypeOK
  PROVE  /\ conns \in Seq(Conn) /\ Len(conns) \in Nat /\ DOMAIN conns = 1 .. Len(conns)
         /\ \A k \in DOMAIN conns : conns[k] \in Conn
<1>1. conns \in Seq(Conn)
  BY DEF TypeOK
<1>2. QED
  BY <1>1, LenProperties, ElementOfSeq

LEMMA Untouched ==
  ASSUME TypeOK, conns' = conns
  PROVE  Grown /\ LivesKept /\ RemotesKept
BY ConnTyped DEF Grown, LivesKept, RemotesKept

\* None is made: what is there may change, but for its ends.
LEMMA Rewritten ==
  ASSUME TypeOK,
         DOMAIN conns' = DOMAIN conns, conns' = [k \in DOMAIN conns |-> conns'[k]],
         \A k \in DOMAIN conns :
           /\ conns'[k] \in Conn
           /\ conns'[k].owner = conns[k].owner /\ conns'[k].with = conns[k].with
           /\ conns'[k].initiator = conns[k].initiator
  PROVE  Grown /\ Len(conns') = Len(conns)
<1>1. DOMAIN conns = 1 .. Len(conns) /\ Len(conns) \in Nat
  BY ConnTyped
<1>2. /\ conns' = [k \in 1 .. Len(conns) |-> conns'[k]]
      /\ \A k \in 1 .. Len(conns) : conns'[k] \in Conn
  BY <1>1
<1>3. conns' \in Seq(Conn) /\ Len(conns') = Len(conns)
  BY <1>1, <1>2, IsASeq
<1>4. QED
  BY <1>1, <1>3 DEF Grown

LEMMA ClosingKeeps ==
  ASSUME TypeOK, NEW ks, conns' = Closing(ks)
  PROVE  /\ Grown /\ RemotesKept /\ Len(conns') = Len(conns)
         /\ \A k \in DOMAIN conns :
              conns'[k].life = IF k \in ks /\ conns[k].life \in {"open", "failed"}
                               THEN "closing" ELSE conns[k].life
<1>1. \A k \in DOMAIN conns : conns[k] \in Conn
  BY ConnTyped
<1>2. /\ DOMAIN conns' = DOMAIN conns
      /\ \A k \in DOMAIN conns :
           conns'[k] = IF k \in ks /\ conns[k].life \in {"open", "failed"}
                       THEN [conns[k] EXCEPT !.life = "closing"] ELSE conns[k]
  BY DEF Closing
<1>3. ASSUME NEW k \in DOMAIN conns
      PROVE  /\ conns'[k] \in Conn
             /\ conns'[k].owner = conns[k].owner /\ conns'[k].with = conns[k].with
             /\ conns'[k].initiator = conns[k].initiator
             /\ conns'[k].remote = conns[k].remote
             /\ conns'[k].life = IF k \in ks /\ conns[k].life \in {"open", "failed"}
                                 THEN "closing" ELSE conns[k].life
  BY <1>1, <1>2 DEF Conn, Lives
<1>4. conns' = [k \in DOMAIN conns |-> conns'[k]]
  BY DEF Closing
<1>5. QED
  BY <1>2, <1>3, <1>4, Rewritten DEF RemotesKept

LEMMA CrashCloses ==
  ASSUME TypeOK, NEW n \in Nodes, Crash(n)
  PROVE  /\ Grown /\ RemotesKept
         /\ \A k \in DOMAIN conns : conns[k].owner # n => conns'[k].life = conns[k].life
<1>1. \A k \in DOMAIN conns : conns[k] \in Conn
  BY ConnTyped
<1>2. /\ DOMAIN conns' = DOMAIN conns
      /\ \A k \in DOMAIN conns :
           conns'[k] = IF conns[k].owner = n
                       THEN [conns[k] EXCEPT !.life = "closed", !.ready = FALSE]
                       ELSE conns[k]
  BY DEF Crash
<1>3. ASSUME NEW k \in DOMAIN conns
      PROVE  /\ conns'[k] \in Conn
             /\ conns'[k].owner = conns[k].owner /\ conns'[k].with = conns[k].with
             /\ conns'[k].initiator = conns[k].initiator
             /\ conns'[k].remote = conns[k].remote
             /\ conns[k].owner # n => conns'[k].life = conns[k].life
  BY <1>1, <1>2 DEF Conn, Lives
<1>4. conns' = [k \in DOMAIN conns |-> conns'[k]]
  BY DEF Crash
<1>5. QED
  BY <1>2, <1>3, <1>4, Rewritten DEF RemotesKept

LEMMA RemoteSet ==
  ASSUME TypeOK, NEW k \in DOMAIN conns, NEW r \in Nat,
         conns' = [conns EXCEPT ![k].remote = r]
  PROVE  /\ Grown /\ LivesKept /\ conns'[k].remote = r
         /\ \A l \in DOMAIN conns : l # k => conns'[l].remote = conns[l].remote
<1>1. \A l \in DOMAIN conns : conns[l] \in Conn
  BY ConnTyped
<1>2. /\ DOMAIN conns' = DOMAIN conns /\ conns' = [l \in DOMAIN conns |-> conns'[l]]
      /\ conns'[k] = [conns[k] EXCEPT !.remote = r]
      /\ \A l \in DOMAIN conns : l # k => conns'[l] = conns[l]
  OBVIOUS
<1>3. conns'[k] \in Conn /\ conns'[k].owner = conns[k].owner /\ conns'[k].with = conns[k].with
      /\ conns'[k].initiator = conns[k].initiator /\ conns'[k].life = conns[k].life
      /\ conns'[k].remote = r
  BY <1>1, <1>2 DEF Conn
<1>4. QED
  BY <1>1, <1>2, <1>3, Rewritten DEF LivesKept

\* BecomeReady, Fail and CloseDone change no more than this.
LEMMA StateSet ==
  ASSUME TypeOK, NEW k \in DOMAIN conns, NEW l \in Lives, NEW r \in BOOLEAN,
         conns' = [conns EXCEPT ![k].life = l, ![k].ready = r]
  PROVE  /\ Grown /\ RemotesKept /\ conns'[k].life = l
         /\ \A j \in DOMAIN conns : j # k => conns'[j].life = conns[j].life
<1>1. \A j \in DOMAIN conns : conns[j] \in Conn
  BY ConnTyped
<1>2. /\ DOMAIN conns' = DOMAIN conns /\ conns' = [j \in DOMAIN conns |-> conns'[j]]
      /\ conns'[k] = [conns[k] EXCEPT !.life = l, !.ready = r]
      /\ \A j \in DOMAIN conns : j # k => conns'[j] = conns[j]
  OBVIOUS
<1>3. conns'[k] \in Conn /\ conns'[k].owner = conns[k].owner /\ conns'[k].with = conns[k].with
      /\ conns'[k].initiator = conns[k].initiator /\ conns'[k].life = l
      /\ conns'[k].remote = conns[k].remote
  BY <1>1, <1>2 DEF Conn
<1>4. QED
  BY <1>1, <1>2, <1>3, Rewritten DEF RemotesKept

LEMMA ReadySet ==
  ASSUME TypeOK, NEW k \in DOMAIN conns, conns' = [conns EXCEPT ![k].ready = TRUE]
  PROVE  Grown /\ LivesKept /\ RemotesKept
<1>1. \A j \in DOMAIN conns : conns[j] \in Conn
  BY ConnTyped
<1>2. /\ DOMAIN conns' = DOMAIN conns /\ conns' = [j \in DOMAIN conns |-> conns'[j]]
      /\ conns'[k] = [conns[k] EXCEPT !.ready = TRUE]
      /\ \A j \in DOMAIN conns : j # k => conns'[j] = conns[j]
  OBVIOUS
<1>3. conns'[k] \in Conn /\ conns'[k].owner = conns[k].owner /\ conns'[k].with = conns[k].with
      /\ conns'[k].initiator = conns[k].initiator /\ conns'[k].life = conns[k].life
      /\ conns'[k].remote = conns[k].remote
  BY <1>1, <1>2 DEF Conn
<1>4. QED
  BY <1>1, <1>2, <1>3, Rewritten DEF LivesKept, RemotesKept

\* One is made, k, which has the next index.
MadeAs(n, t, initiating, k) ==
  /\ Grown /\ LivesKept /\ RemotesKept
  /\ k \in Nat /\ k # NoConn /\ k \notin DOMAIN conns /\ k \in DOMAIN conns'
  /\ conns'[k].owner = n /\ conns'[k].with = t /\ conns'[k].initiator = initiating
  /\ conns'[k].life = "open" /\ conns'[k].remote = NoConn

LEMMA MadeNext ==
  ASSUME TypeOK, NEW n \in Nodes, NEW t \in Nodes, NEW initiating \in BOOLEAN,
         conns' = Append(conns, NewConn(n, t, initiating))
  PROVE  MadeAs(n, t, initiating, Len(conns) + 1)
<1>1. conns \in Seq(Conn) /\ Len(conns) \in Nat /\ DOMAIN conns = 1 .. Len(conns)
  BY ConnTyped
<1>2. NewConn(n, t, initiating) \in Conn
  BY DEF NewConn, Conn, Lives, NoConn
<1>3. /\ conns' \in Seq(Conn) /\ Len(conns') = Len(conns) + 1
      /\ \A i \in 1 .. Len(conns) : conns'[i] = conns[i]
      /\ conns'[Len(conns) + 1] = NewConn(n, t, initiating)
  BY <1>1, <1>2, AppendProperties
<1>4. DOMAIN conns' = 1 .. Len(conns')
  BY <1>3, LenProperties
<1>5. Grown /\ LivesKept /\ RemotesKept
  BY <1>1, <1>3, <1>4 DEF Grown, LivesKept, RemotesKept
<1>6. QED
  BY <1>1, <1>3, <1>4, <1>5 DEF MadeAs, NewConn, NoConn

-----------------------------------------------------------------------------
(***************************************************************************)
(* Types, and what caller and listener hold.                               *)
(***************************************************************************)
\* TypeOK, in two: what refers to conns, and the rest.
IndexTypes ==
  /\ conns \in Seq(Conn)
  /\ peers \in [Nodes -> [Nodes -> 0 .. Len(conns)]]
  /\ \A n, t \in Nodes :
       peers[n][t] # NoConn =>
         conns[peers[n][t]].owner = n /\ conns[peers[n][t]].with = t
  /\ mine \in [Nodes -> 0 .. Len(conns)]
  /\ before \in [Nodes -> 0 .. Len(conns)]

OtherTypes ==
  /\ caller \in [Nodes -> CallerPCs]
  /\ target \in [Nodes -> Nodes]
  /\ future \in [Nodes -> Futures]
  /\ pending \in [Nodes -> SUBSET Nodes]
  /\ listener \in [Nodes -> ListenerPCs]
  /\ offer \in [Nodes -> [from : Nodes, conn : Nat, pc : Nat]]
  /\ inbox \in [Nodes -> Seq(Message)]
  /\ link \in [Nodes -> {"up", "broken", "none"}]
  /\ {registered, alive, gone} \subseteq SUBSET Nodes
  /\ calls \in 0 .. MaxCalls /\ faults \in 0 .. MaxFaults

LEMMA TypeParts == TypeOK <=> IndexTypes /\ OtherTypes
BY DEF TypeOK, IndexTypes, OtherTypes

\* Entries of the cache stay, are dropped, or become a connection of the client
\* with the peer.
LEMMA IndexKept ==
  ASSUME IndexTypes, Grown,
         peers' \in [Nodes -> [Nodes -> Nat]],
         \A n, t \in Nodes : \/ peers'[n][t] \in {peers[n][t], NoConn}
                             \/ Own(n, t, peers[n][t])',
         mine' \in [Nodes -> Nat], before' \in [Nodes -> Nat],
         \A n \in Nodes : /\ mine'[n] = mine[n] \/ mine'[n] \in DOMAIN conns'
                          /\ before'[n] = before[n] \/ before'[n] \in 0 .. Len(conns)
  PROVE  IndexTypes'
<1>1. /\ DOMAIN conns' = 1 .. Len(conns') /\ DOMAIN conns = 1 .. Len(conns)
      /\ Len(conns) \in Nat /\ Len(conns') \in Nat /\ Len(conns) <= Len(conns')
  BY DEF Grown
<1>2. ASSUME NEW n \in Nodes, NEW t \in Nodes
      PROVE  /\ peers'[n][t] \in 0 .. Len(conns')
             /\ peers'[n][t] # NoConn =>
                  conns'[peers'[n][t]].owner = n /\ conns'[peers'[n][t]].with = t
  <2>1. peers[n][t] \in 0 .. Len(conns)
    BY DEF IndexTypes
  <2>2. peers[n][t] # NoConn => Own(n, t, peers[n][t])
    <3>1. peers[n][t] # NoConn => peers[n][t] \in DOMAIN conns
      BY <1>1, <2>1 DEF NoConn
    <3>2. peers[n][t] # NoConn =>
            conns[peers[n][t]].owner = n /\ conns[peers[n][t]].with = t
      BY DEF IndexTypes
    <3>3. QED
      BY <3>1, <3>2 DEF Own
  <2>3. CASE Own(n, t, peers[n][t])'
    BY <1>1, <2>3 DEF Own
  <2>4. CASE peers'[n][t] = NoConn
    BY <1>1, <2>4 DEF NoConn
  <2>5. CASE peers'[n][t] = peers[n][t]
    BY <1>1, <2>1, <2>2, <2>5 DEF Own, Grown
  <2>6. QED
    BY <2>3, <2>4, <2>5 DEF Own
<1>3. peers' \in [Nodes -> [Nodes -> 0 .. Len(conns')]]
  BY <1>2
<1>4. ASSUME NEW n \in Nodes
      PROVE  mine'[n] \in 0 .. Len(conns') /\ before'[n] \in 0 .. Len(conns')
  BY <1>1 DEF IndexTypes
<1>5. mine' \in [Nodes -> 0 .. Len(conns')] /\ before' \in [Nodes -> 0 .. Len(conns')]
  BY <1>4
<1>6. QED
  BY <1>2, <1>3, <1>5 DEF IndexTypes, Grown

LEMMA CachedOwn ==
  ASSUME IndexTypes, Grown, NEW n \in Nodes, NEW t \in Nodes
  PROVE  /\ peers[n][t] \in Nat
         /\ peers[n][t] # NoConn => Own(n, t, peers[n][t])
<1>1. DOMAIN conns = 1 .. Len(conns) /\ Len(conns) \in Nat
  BY DEF Grown
<1>2. peers[n][t] \in 0 .. Len(conns)
      /\ (peers[n][t] # NoConn =>
            conns[peers[n][t]].owner = n /\ conns[peers[n][t]].with = t)
  BY DEF IndexTypes
<1>3. QED
  BY <1>1, <1>2 DEF Own, NoConn

\* A step that is none of m's leaves what is said of m.
Same(m) ==
  /\ caller'[m] = caller[m] /\ target'[m] = target[m] /\ mine'[m] = mine[m]
  /\ listener'[m] = listener[m] /\ offer'[m] = offer[m]
  /\ peers'[m] = peers[m] /\ future'[m] = future[m]
  /\ \A k \in DOMAIN conns : conns[k].owner = m =>
       conns'[k].life = conns[k].life /\ conns'[k].remote = conns[k].remote

LEMMA SameKept ==
  ASSUME TypeOK, Grown, NEW m \in Nodes, Same(m), NodeInv(m)
  PROVE  NodeInv(m)'
<1>1. \A t \in Nodes : peers[m][t] # NoConn => Own(m, t, peers[m][t])
  BY TypeParts, CachedOwn
<1>2. \A k \in DOMAIN conns : conns[k].owner = m =>
        /\ k \in DOMAIN conns' /\ conns'[k].owner = m /\ conns'[k].with = conns[k].with
        /\ conns'[k].initiator = conns[k].initiator
        /\ conns'[k].life = conns[k].life /\ conns'[k].remote = conns[k].remote
  BY DEF Grown, Same
<1>3. Held(m)'
  BY <1>2 DEF NodeInv, Same, Held, Own
<1>4. Clean(m)'
  BY <1>1, <1>2 DEF NodeInv, Same, Clean, Own
<1>5. Held(m) /\ Dropping \subseteq Holding /\ Using \subseteq Holding
      /\ {"offering", "waiting"} \subseteq Holding
  BY DEF NodeInv, Dropping, Using, Holding, CallerPCs
<1>6. Dropped(m)' /\ Unanswered(m)' /\ Responding(m)'
  BY <1>2, <1>5 DEF NodeInv, Same, Dropped, Unanswered, Responding, Held, Own, Replying
<1>7. Used(m)'
  BY <1>2, <1>5 DEF NodeInv, Same, Used, Held, Own
<1>8. Window(m)'
  <2>1. CASE listener[m] \in Replying
    <3>1. offer[m].from \in Nodes
      BY DEF TypeOK
    <3>2. QED
      BY <1>1, <1>2, <3>1 DEF NodeInv, Same, Window, Own
  <2>2. QED
    BY <2>1 DEF Window, Same, Replying
<1>9. QED
  BY <1>3, <1>4, <1>6, <1>7, <1>8 DEF NodeInv

\* What the queues hold after something was delivered or received.
LEMMA DeliveredTyped ==
  ASSUME OtherTypes, NEW t, NEW m \in Message
  PROVE  Delivered(t, m) \in [Nodes -> Seq(Message)]
<1>1. inbox \in [Nodes -> Seq(Message)] /\ alive \subseteq Nodes
  BY DEF OtherTypes
<1>2. t \in Nodes => Append(inbox[t], m) \in Seq(Message)
  BY <1>1, AppendProperties
<1>3. QED
  BY <1>1, <1>2 DEF Delivered

LEMMA SignalTyped ==
  ASSUME OtherTypes, NEW n \in Nodes, NEW t \in Nodes, NEW k \in Nat,
         NEW kind \in {"offer", "answer"}, Signal(kind, n, t, k)
  PROVE  inbox' \in [Nodes -> Seq(Message)]
<1>1. /\ [type |-> kind, from |-> n, conn |-> k] \in Message
      /\ [type |-> "reject", from |-> t] \in Message
  BY DEF Message
<1>2. QED
  BY <1>1, DeliveredTyped DEF Signal

LEMMA RejectTyped ==
  ASSUME OtherTypes, NEW n \in Nodes, NEW t \in Nodes, Reject(n, t)
  PROVE  inbox' \in [Nodes -> Seq(Message)]
<1>1. [type |-> "reject", from |-> n] \in Message /\ [type |-> "error"] \in Message
  BY DEF Message
<1>2. QED
  BY <1>1, DeliveredTyped DEF Reject

LEMMA HeadTyped ==
  ASSUME OtherTypes, NEW n \in Nodes, inbox[n] # <<>>
  PROVE  /\ Head(inbox[n]) \in Message
         /\ Head(inbox[n]).type \in {"offer", "answer"} =>
              Head(inbox[n]).from \in Nodes /\ Head(inbox[n]).conn \in Nat
         /\ Head(inbox[n]).type = "reject" => Head(inbox[n]).from \in Nodes
         /\ [inbox EXCEPT ![n] = Tail(@)] \in [Nodes -> Seq(Message)]
<1>1. inbox \in [Nodes -> Seq(Message)]
  BY DEF OtherTypes
<1>2. Head(inbox[n]) \in Message /\ Tail(inbox[n]) \in Seq(Message)
  BY <1>1, HeadTailProperties
<1>3. QED
  BY <1>1, <1>2 DEF Message

LEMMA FailPendingTyped ==
  ASSUME OtherTypes, NEW n \in Nodes, NEW ts, FailPending(n, ts)
  PROVE  future' \in [Nodes -> Futures] /\ pending' \in [Nodes -> SUBSET Nodes]
<1>1. Future("failed") \in Futures
  BY DEF Future, Futures
<1>2. QED
  BY <1>1 DEF OtherTypes, FailPending

\* The offer that the listener handles now, and where it is suspended.
LEMMA ReplyingTyped ==
  ASSUME OtherTypes, NEW n \in Nodes, NEW source \in Nodes, NEW c \in Nat, NEW k \in Nat,
         NEW w \in ListenerPCs, listener' = [listener EXCEPT ![n] = w],
         offer' = [offer EXCEPT ![n] = [from |-> source, conn |-> c, pc |-> k]]
  PROVE  /\ listener' \in [Nodes -> ListenerPCs]
         /\ offer' \in [Nodes -> [from : Nodes, conn : Nat, pc : Nat]]
BY DEF OtherTypes

LEMMA OtherTypesStep ==
  ASSUME TypeOK, [Next]_vars
  PROVE  OtherTypes'
<1>1. OtherTypes /\ mine \in [Nodes -> Nat] /\ Len(conns) \in Nat
  <2>1. IndexTypes /\ OtherTypes /\ Len(conns) \in Nat
    BY TypeParts, ConnTyped
  <2>2. QED
    BY <2>1 DEF IndexTypes
<1>2. /\ NegotiationAssumption
      /\ Future("none") \in Futures /\ Future("waiting") \in Futures
      /\ Future("failed") \in Futures /\ \A k \in Nat : Answered(k) \in Futures
  BY NegotiationAssumption DEF Future, Answered, Futures
<1> USE DEF Goes, At, Waiting, HandlingOn, Handling, hubVars, worldVars, signalVars,
            listenerVars, callerVars
<1>3. ASSUME NEW n \in Nodes, NEW t \in Nodes,
             CallFresh(n, t) \/ CallExisting(n, t) \/ CallStale(n, t)
      PROVE  OtherTypes'
  <2>1. \E w \in CallerPCs : caller' = [caller EXCEPT ![n] = w]
    BY <1>3 DEF CallFresh, CallExisting, CallStale, Start, Request, CallerPCs
  <2>2. Calling(n, t)
    BY <1>3 DEF CallFresh, CallExisting, CallStale
  <2>3. QED
    BY <1>1, <1>2, <2>1, <2>2 DEF Calling, OtherTypes, NegotiationAssumption
<1>4. ASSUME NEW n \in Nodes,
             \/ JoinExisting(n) \/ JoinTimeout(n) \/ RegisterFails(n) \/ OfferRaises(n)
             \/ GiveUp(n) \/ FindPeer(n) \/ PollTimeout(n) \/ Connected(n)
             \/ ConnectTimeout(n) \/ KeepConnection(n) \/ HangUp(n) \/ HungUp(n)
      PROVE  OtherTypes'
  <2>1. \E w \in CallerPCs : caller' = [caller EXCEPT ![n] = w]
    BY <1>4 DEF JoinExisting, JoinTimeout, RegisterFails, OfferRaises, GiveUp, FindPeer,
                PollTimeout, Connected, ConnectTimeout, KeepConnection, HangUp, HungUp, CallerPCs
  <2>2. UNCHANGED <<target, future, pending, listener, offer, inbox, link, registered,
                    alive, gone, calls, faults>>
    BY <1>4 DEF JoinExisting, JoinTimeout, RegisterFails, OfferRaises, GiveUp, FindPeer,
                PollTimeout, Connected, ConnectTimeout, KeepConnection, HangUp, HungUp
  <2>3. QED
    BY <1>1, <2>1, <2>2 DEF OtherTypes
<1>5. ASSUME NEW n \in Nodes, Rebuild(n) \/ Registered(n)
      PROVE  OtherTypes'
  <2>1. \E w \in CallerPCs : caller' = [caller EXCEPT ![n] = w]
    BY <1>5 DEF Rebuild, Registered, Start, Request, CallerPCs
  <2>2. UNCHANGED <<target, future, pending, listener, offer, inbox, link, registered,
                    alive, gone, calls, faults>>
    BY <1>5 DEF Rebuild, Registered
  <2>3. QED
    BY <1>1, <2>1, <2>2 DEF OtherTypes
<1>6. ASSUME NEW n \in Nodes, Register(n)
      PROVE  OtherTypes'
  BY <1>1, <1>6 DEF Register, OtherTypes, CallerPCs
<1>7. ASSUME NEW n \in Nodes, SendOffer(n)
      PROVE  OtherTypes'
  <2>1. target[n] \in Nodes /\ mine[n] \in Nat /\ Signal("offer", n, target[n], mine[n])
    BY <1>1, <1>7 DEF SendOffer, OtherTypes
  <2>2. inbox' \in [Nodes -> Seq(Message)]
    BY <1>1, <2>1, SignalTyped
  <2>3. QED
    BY <1>1, <1>2, <1>7, <2>1, <2>2 DEF SendOffer, OtherTypes, CallerPCs
<1>8. ASSUME NEW n \in Nodes, OfferUnsent(n)
      PROVE  OtherTypes'
  BY <1>1, <1>8 DEF OfferUnsent, OtherTypes, CallerPCs
<1>9. ASSUME NEW n \in Nodes, SetAnswer(n) \/ AnswerRaises(n) \/ OfferFailed(n)
      PROVE  OtherTypes'
  <2>1. /\ \E w \in CallerPCs : caller' = [caller EXCEPT ![n] = w]
        /\ future' = [future EXCEPT ![n] = Future("none")]
        /\ UNCHANGED <<target, pending, listener, offer, inbox, link, registered, alive, gone,
                       calls, faults>>
    BY <1>9 DEF SetAnswer, AnswerRaises, OfferFailed, CallerPCs
  <2>2. QED
    BY <1>1, <1>2, <2>1 DEF OtherTypes
<1>10. ASSUME NEW n \in Nodes, ReceiveOffer(n)
       PROVE  OtherTypes'
  <2>1. /\ inbox[n] # <<>> /\ Head(inbox[n]).type = "offer"
        /\ inbox' = [inbox EXCEPT ![n] = Tail(@)]
        /\ UNCHANGED <<caller, target, future, pending, link, registered, alive, gone,
                       calls, faults>>
    BY <1>10 DEF ReceiveOffer, Receiving, Received
  <2>2. Head(inbox[n]).from \in Nodes /\ Head(inbox[n]).conn \in Nat
        /\ inbox' \in [Nodes -> Seq(Message)]
    BY <1>1, <2>1, HeadTyped
  <2>3. peers[n][Head(inbox[n]).from] \in Nat
    BY <2>2, TypeParts DEF IndexTypes
  <2>4. /\ listener' \in [Nodes -> ListenerPCs]
        /\ offer' \in [Nodes -> [from : Nodes, conn : Nat, pc : Nat]]
    <3>1. \/ Respond(n, Head(inbox[n]).from, Head(inbox[n]).conn)
          \/ /\ listener' = [listener EXCEPT ![n] = "replacing"]
             /\ offer' = [offer EXCEPT ![n] =
                            [from |-> Head(inbox[n]).from, conn |-> Head(inbox[n]).conn,
                             pc |-> peers[n][Head(inbox[n]).from]]]
      BY <1>10 DEF ReceiveOffer
    <3>2. {"answering", "replacing"} \subseteq ListenerPCs /\ Len(conns) + 1 \in Nat
      BY <1>1 DEF ListenerPCs, Replying
    <3>3. CASE Respond(n, Head(inbox[n]).from, Head(inbox[n]).conn)
      BY <1>1, <2>2, <3>2, <3>3, ReplyingTyped DEF Respond
    <3>4. QED
      BY <1>1, <2>2, <2>3, <3>1, <3>2, <3>3, ReplyingTyped
  <2>5. QED
    BY <1>1, <2>1, <2>2, <2>4 DEF OtherTypes
<1>11. ASSUME NEW n \in Nodes, Replace(n)
       PROVE  OtherTypes'
  <2>1. /\ offer[n].from \in Nodes /\ offer[n].conn \in Nat /\ Len(conns) + 1 \in Nat
        /\ "answering" \in ListenerPCs
    BY <1>1 DEF OtherTypes, ListenerPCs, Replying
  <2>2. /\ Respond(n, offer[n].from, offer[n].conn)
        /\ UNCHANGED <<caller, target, future, pending, inbox, link, registered, alive, gone,
                       calls, faults>>
    BY <1>11 DEF Replace
  <2>3. /\ listener' \in [Nodes -> ListenerPCs]
        /\ offer' \in [Nodes -> [from : Nodes, conn : Nat, pc : Nat]]
    BY <1>1, <2>1, <2>2, ReplyingTyped DEF Respond
  <2>4. QED
    BY <1>1, <2>2, <2>3 DEF OtherTypes
<1>12. ASSUME NEW n \in Nodes, SendAnswer(n)
       PROVE  OtherTypes'
  <2>1. offer[n].from \in Nodes /\ offer[n].pc \in Nat
    BY <1>1 DEF OtherTypes
  <2>2. inbox' \in [Nodes -> Seq(Message)]
    BY <1>1, <1>12, <2>1, SignalTyped DEF SendAnswer
  <2>3. QED
    BY <1>1, <1>12, <2>2 DEF SendAnswer, OtherTypes, ListenerPCs
<1>13. ASSUME NEW n \in Nodes, OfferUnusable(n)
       PROVE  OtherTypes'
  BY <1>1, <1>13 DEF OfferUnusable, OtherTypes, ListenerPCs, Replying
<1>14. ASSUME NEW n \in Nodes, SendReject(n)
       PROVE  OtherTypes'
  <2>1. offer[n].from \in Nodes
    BY <1>1 DEF OtherTypes
  <2>2. inbox' \in [Nodes -> Seq(Message)]
    BY <1>1, <1>14, <2>1, RejectTyped DEF SendReject
  <2>3. QED
    BY <1>1, <1>14, <2>2 DEF SendReject, OtherTypes, ListenerPCs
<1>15. ASSUME NEW n \in Nodes, ReceiveAnswer(n)
       PROVE  OtherTypes'
  <2>1. /\ inbox[n] # <<>> /\ Head(inbox[n]).type = "answer"
        /\ inbox' = [inbox EXCEPT ![n] = Tail(@)]
    BY <1>15 DEF ReceiveAnswer, Receiving, Received
  <2>2. Head(inbox[n]).conn \in Nat /\ inbox' \in [Nodes -> Seq(Message)]
    BY <1>1, <2>1, HeadTyped
  <2>3. QED
    BY <1>1, <1>2, <1>15, <2>2 DEF ReceiveAnswer, Receiving, OtherTypes
<1>16. ASSUME NEW n \in Nodes, ReceiveReject(n) \/ ReceiveError(n)
       PROVE  OtherTypes'
  <2>1. /\ inbox[n] # <<>> /\ inbox' = [inbox EXCEPT ![n] = Tail(@)]
        /\ UNCHANGED <<caller, target, listener, offer, link, registered, alive, gone,
                       calls, faults>>
    BY <1>16 DEF ReceiveReject, ReceiveError, Receiving, Received
  <2>2. future' \in [Nodes -> Futures] /\ pending' \in [Nodes -> SUBSET Nodes]
    BY <1>1, <1>16, FailPendingTyped DEF ReceiveReject, ReceiveError
  <2>3. inbox' \in [Nodes -> Seq(Message)]
    BY <1>1, <2>1, HeadTyped
  <2>4. QED
    BY <1>1, <2>1, <2>2, <2>3 DEF OtherTypes
<1>17. ASSUME NEW n \in Nodes, HandleDisconnect(n) \/ AnswerUnsent(n) \/ RejectUnsent(n)
       PROVE  OtherTypes'
  <2>1. Disconnected(n) /\ UNCHANGED <<caller, target, registered, alive, gone, calls, faults>>
    BY <1>17 DEF HandleDisconnect, AnswerUnsent, RejectUnsent
  <2>2. future' \in [Nodes -> Futures] /\ pending' \in [Nodes -> SUBSET Nodes]
    BY <1>1, <2>1, FailPendingTyped DEF Disconnected
  <2>3. <<>> \in Seq(Message)
    BY EmptySeq
  <2>4. QED
    BY <1>1, <2>1, <2>2, <2>3 DEF Disconnected, OtherTypes, ListenerPCs
<1>18. ASSUME NEW k \in DOMAIN conns, ConnStep(k)
       PROVE  OtherTypes'
  BY <1>1, <1>18 DEF ConnStep, BecomeReady, Fail, CloseDone, ConnOnly, OtherTypes
<1>19. ASSUME NEW n \in Nodes, Crash(n)
       PROVE  OtherTypes'
  <2>1. <<>> \in Seq(Message)
    BY EmptySeq
  <2>2. faults' \in 0 .. MaxFaults
    <3>1. Fault("crash")
      BY <1>19 DEF Crash
    <3>2. QED
      BY <1>1, <1>2, <3>1 DEF Fault, OtherTypes, NegotiationAssumption
  <2>3. QED
    BY <1>1, <1>2, <1>19, <2>1, <2>2 DEF Crash, OtherTypes, CallerPCs, ListenerPCs
<1>20. ASSUME NEW n \in Nodes, LoseHub(n)
       PROVE  OtherTypes'
  <2>1. <<>> \in Seq(Message)
    BY EmptySeq
  <2>2. faults' \in 0 .. MaxFaults
    <3>1. Fault("loss")
      BY <1>20 DEF LoseHub
    <3>2. QED
      BY <1>1, <1>2, <3>1 DEF Fault, OtherTypes, NegotiationAssumption
  <2>3. QED
    <3>1. inbox' \in [Nodes -> Seq(Message)] /\ link' \in [Nodes -> {"up", "broken", "none"}]
      <4>1. inbox \in [Nodes -> Seq(Message)] /\ link \in [Nodes -> {"up", "broken", "none"}]
        BY <1>1 DEF OtherTypes
      <4>2. link' = [link EXCEPT ![n] = "broken"]
            /\ (inbox' = inbox \/ inbox' = [inbox EXCEPT ![n] = <<>>])
        BY <1>20 DEF LoseHub
      <4>3. QED
        BY <2>1, <4>1, <4>2
    <3>2. QED
      BY <1>1, <1>20, <2>2, <3>1 DEF LoseHub, OtherTypes
<1>21. ASSUME NEW n \in Nodes, Unregister(n)
       PROVE  OtherTypes'
  BY <1>1, <1>21 DEF Unregister, OtherTypes
<1>22. CASE HubRestarts
  BY <1>1, <1>2, <1>22 DEF HubRestarts, Fault, OtherTypes, NegotiationAssumption
<1>23. CASE Quiet \/ UNCHANGED vars
  BY <1>1, <1>23 DEF Quiet, vars, OtherTypes
<1>24. QED
  BY <1>3, <1>4, <1>5, <1>6, <1>7, <1>8, <1>9, <1>10, <1>11, <1>12, <1>13, <1>14, <1>15,
     <1>16, <1>17, <1>18, <1>19, <1>20, <1>21, <1>22, <1>23
     DEF Next, CallerStep, ListenerStep

-----------------------------------------------------------------------------
(***************************************************************************)
(* What is said of a client survives every step.                           *)
(***************************************************************************)
\* What a step has to leave of the types, and of what is said of the clients.
Kept == IndexTypes' /\ \A m \in Nodes : NodeInv(m)'

\* The facts about a client that the steps use.
LEMMA Facts ==
  ASSUME CInv, NEW n \in Nodes
  PROVE  /\ IndexTypes /\ OtherTypes /\ NodeInv(n)
         /\ DOMAIN conns = 1 .. Len(conns) /\ Len(conns) \in Nat
         /\ \A k \in DOMAIN conns : conns[k] \in Conn
         /\ target[n] \in Nodes /\ offer[n].from \in Nodes
         /\ mine \in [Nodes -> Nat] /\ peers \in [Nodes -> [Nodes -> Nat]]
         /\ \A t \in Nodes : /\ peers[n][t] \in Nat
                             /\ peers[n][t] # NoConn => Own(n, t, peers[n][t])
         /\ Dropping \subseteq Holding /\ Using \subseteq Holding
         /\ {"offering", "waiting"} \subseteq Holding
<1>1. IndexTypes /\ OtherTypes /\ NodeInv(n)
      /\ DOMAIN conns = 1 .. Len(conns) /\ Len(conns) \in Nat
      /\ \A k \in DOMAIN conns : conns[k] \in Conn
  BY TypeParts, ConnTyped DEF CInv
<1>2. ASSUME NEW t \in Nodes
      PROVE  peers[n][t] \in Nat /\ (peers[n][t] # NoConn => Own(n, t, peers[n][t]))
  BY <1>1 DEF IndexTypes, Own, NoConn
<1>3. target[n] \in Nodes /\ offer[n].from \in Nodes
  BY <1>1 DEF OtherTypes
<1>4. mine \in [Nodes -> Nat] /\ peers \in [Nodes -> [Nodes -> Nat]]
  BY <1>1 DEF IndexTypes
<1>5. QED
  BY <1>1, <1>2, <1>3, <1>4 DEF Dropping, Using, Holding, CallerPCs

\* Steps of one client, n: the rest is as it was.
LEMMA OthersKept ==
  ASSUME CInv, Grown, NEW n \in Nodes, NodeInv(n)',
         \A m \in Nodes : m # n => Same(m)
  PROVE  \A m \in Nodes : NodeInv(m)'
BY SameKept DEF CInv

\* The caller moves on, with the connection it has or without one.
LEMMA CallerMoves ==
  ASSUME CInv, NEW n \in Nodes, NEW w, Goes(n, w),
         UNCHANGED <<conns, peers, mine, before, target, listener, offer>>,
         caller[n] \notin Dropping,
         \/ w \in {"idle", "requesting", "registering"}
         \/ caller[n] \in Using /\ w = "using"
         \/ caller[n] = "offering" /\ w = "waiting" /\ future'[n].is # "answered",
         \A m \in Nodes : m # n => future'[m] = future[m]
  PROVE  Kept
<1>1. Grown /\ LivesKept /\ RemotesKept
  BY Untouched DEF CInv
<1>2. IndexTypes'
  BY TypeParts DEF CInv, IndexTypes
<1>3. caller'[n] = w /\ \A m \in Nodes : m # n => caller'[m] = caller[m]
  BY TypeParts DEF CInv, OtherTypes, Goes
<1>4. NodeInv(n)'
  <2>1. NodeInv(n)
    BY DEF CInv
  <2>2. Held(n)' /\ Clean(n)' /\ Dropped(n)'
    BY <1>3, <2>1 DEF NodeInv, Held, Own, Clean, Dropped, Holding, Using, Dropping, CallerPCs
  <2>3. Unanswered(n)' /\ Responding(n)' /\ Used(n)' /\ Window(n)'
    BY <1>3, <2>1 DEF NodeInv, Unanswered, Responding, Used, Window, Using
  <2>4. QED
    BY <2>2, <2>3 DEF NodeInv
<1>5. \A m \in Nodes : m # n => Same(m)
  BY <1>3 DEF Same
<1>6. QED
  BY <1>1, <1>2, <1>4, <1>5, OthersKept DEF Kept

LEMMA QuietCallerSteps ==
  ASSUME CInv, NEW n \in Nodes,
         \/ JoinExisting(n) \/ Connected(n) \/ ConnectTimeout(n) \/ KeepConnection(n)
         \/ Register(n) \/ RegisterFails(n) \/ SendOffer(n) \/ OfferUnsent(n)
         \/ OfferRaises(n) \/ AnswerRaises(n) \/ PollTimeout(n)
  PROVE  Kept
<1> USE DEF At, Waiting, listenerVars, signalVars
<1>1. future \in [Nodes -> Futures]
  BY TypeParts DEF CInv, OtherTypes
<1>2. CASE \/ JoinExisting(n) \/ Connected(n) \/ ConnectTimeout(n) \/ KeepConnection(n)
           \/ Register(n) \/ RegisterFails(n) \/ OfferUnsent(n) \/ OfferRaises(n)
           \/ PollTimeout(n)
  BY <1>2, CallerMoves DEF JoinExisting, Connected, ConnectTimeout, KeepConnection, Register,
       RegisterFails, OfferUnsent, OfferRaises, PollTimeout, Dropping, Using
<1>3. CASE SendOffer(n)
  <2>1. future'[n].is # "answered" /\ \A m \in Nodes : m # n => future'[m] = future[m]
    BY <1>1, <1>3 DEF SendOffer, Future
  <2>2. QED
    BY <1>3, <2>1, CallerMoves DEF SendOffer, Dropping
<1>4. CASE AnswerRaises(n)
  <2>1. \A m \in Nodes : m # n => future'[m] = future[m]
    BY <1>1, <1>4 DEF AnswerRaises
  <2>2. QED
    BY <1>4, <2>1, CallerMoves DEF AnswerRaises, Dropping
<1>5. QED
  BY <1>2, <1>3, <1>4

\* The variables of IndexTypes that a caller's step may change.
Before(n) ==
  /\ before' \in [Nodes -> Nat]
  /\ \A m \in Nodes : before'[m] = before[m] \/ before'[m] \in 0 .. Len(conns)

\* The caller closes the connection it has, or finds closed, and waits for that.
LEMMA CallerCloses ==
  ASSUME CInv, NEW n \in Nodes, NEW t \in Nodes, NEW k, Own(n, t, k), NEW w \in Dropping,
         Goes(n, w), caller[n] \notin Dropping, conns' = Closing({k}), Before(n),
         mine' = [mine EXCEPT ![n] = k], target' = [target EXCEPT ![n] = t],
         UNCHANGED <<peers, listener, offer>>,
         \A m \in Nodes : m # n => future'[m] = future[m]
  PROVE  Kept
<1>1. TypeOK /\ k \in DOMAIN conns /\ k \in Nat
  BY ConnTyped DEF CInv, Own
<1>2. /\ Grown /\ RemotesKept /\ Len(conns') = Len(conns)
      /\ \A l \in DOMAIN conns :
           conns'[l].life = IF l = k /\ conns[l].life \in {"open", "failed"}
                            THEN "closing" ELSE conns[l].life
  <2>1. /\ Grown /\ RemotesKept /\ Len(conns') = Len(conns)
        /\ \A l \in DOMAIN conns :
             conns'[l].life = IF l \in {k} /\ conns[l].life \in {"open", "failed"}
                              THEN "closing" ELSE conns[l].life
    BY <1>1, ClosingKeeps
  <2>2. QED
    BY <2>1
<1>3. /\ caller'[n] = w /\ mine'[n] = k /\ target'[n] = t
      /\ \A m \in Nodes : m # n => caller'[m] = caller[m] /\ mine'[m] = mine[m]
                                   /\ target'[m] = target[m]
      /\ mine' \in [Nodes -> Nat] /\ peers' \in [Nodes -> [Nodes -> Nat]]
  BY <1>1, Facts, TypeParts DEF OtherTypes, Goes
<1>4. IndexTypes'
  BY <1>1, <1>2, <1>3, TypeParts, IndexKept DEF Before, Grown
<1>5. NodeInv(n)'
  <2>1. /\ NodeInv(n) /\ offer[n].from \in Nodes
        /\ \A l \in DOMAIN conns : conns[l] \in Conn
        /\ \A s \in Nodes : peers[n][s] # NoConn => Own(n, s, peers[n][s])
    BY Facts
  <2>2. Held(n)'
    BY <1>2, <1>3, <2>1 DEF NodeInv, Held, Own, Grown
  <2>7. Clean(n)'
    <3> SUFFICES ASSUME NEW s \in Nodes, peers[n][s] # NoConn,
                        conns'[peers[n][s]].life \in {"closing", "closed"}
                 PROVE  caller'[n] \in Dropping /\ mine'[n] = peers[n][s]
      BY DEF Clean
    <3>1. peers[n][s] = k \/ conns'[peers[n][s]].life = conns[peers[n][s]].life
      BY <1>2, <2>1 DEF Own
    <3>2. QED
      BY <1>3, <2>1, <3>1 DEF NodeInv, Clean
  <2>3. Dropped(n)' /\ Unanswered(n)' /\ Used(n)'
    BY <1>1, <1>2, <1>3, <2>1 DEF Dropped, Unanswered, Used, Dropping, Using, Conn, Lives
  <2>4. Responding(n)'
    BY <1>2, <2>1 DEF NodeInv, Held, Own, Responding, Replying, Grown, RemotesKept
  <2>5. Window(n)'
    <3>1. caller'[n] # "waiting" /\ offer'[n] = offer[n] /\ listener'[n] = listener[n]
          /\ peers'[n] = peers[n]
      BY <1>3 DEF Dropping
    <3>2. peers[n][offer[n].from] # NoConn =>
            conns'[peers[n][offer[n].from]].remote = conns[peers[n][offer[n].from]].remote
      BY <1>2, <2>1 DEF Own, RemotesKept
    <3>3. QED
      BY <2>1, <3>1, <3>2 DEF NodeInv, Window
  <2>6. QED
    BY <2>2, <2>3, <2>4, <2>5, <2>7 DEF NodeInv
<1>6. \A m \in Nodes : m # n => Same(m)
  BY <1>2, <1>3 DEF Same, Own, RemotesKept
<1>7. QED
  BY <1>2, <1>4, <1>5, <1>6, OthersKept DEF Kept

\* The caller takes what is cached, to wait for it.
LEMMA CallerTakes ==
  ASSUME CInv, NEW n \in Nodes, NEW t \in Nodes, peers[n][t] # NoConn, NEW w \in Using,
         Goes(n, w), caller[n] \notin Dropping, Before(n),
         mine' = [mine EXCEPT ![n] = peers[n][t]], target' = [target EXCEPT ![n] = t],
         UNCHANGED <<conns, peers, listener, offer, future>>
  PROVE  Kept
<1>1. TypeOK /\ Grown /\ LivesKept /\ RemotesKept
  BY Untouched DEF CInv
<1>2. /\ NodeInv(n) /\ offer[n].from \in Nodes /\ peers[n][t] \in Nat
      /\ \A s \in Nodes : peers[n][s] # NoConn => Own(n, s, peers[n][s])
  BY Facts
<1>3. /\ caller'[n] = w /\ mine'[n] = peers[n][t] /\ target'[n] = t
      /\ \A m \in Nodes : m # n => caller'[m] = caller[m] /\ mine'[m] = mine[m]
                                   /\ target'[m] = target[m]
      /\ mine' \in [Nodes -> Nat] /\ peers' \in [Nodes -> [Nodes -> Nat]]
  BY <1>1, <1>2, Facts, TypeParts DEF OtherTypes, Goes
<1>4. IndexTypes'
  BY <1>1, <1>2, <1>3, TypeParts, IndexKept DEF Before, Own
<1>5. NodeInv(n)'
  <2>1. Held(n)' /\ Clean(n)' /\ Used(n)'
    BY <1>2, <1>3 DEF NodeInv, Held, Own, Clean, Used
  <2>2. Dropped(n)' /\ Unanswered(n)' /\ Responding(n)' /\ Window(n)'
    BY <1>2, <1>3 DEF NodeInv, Dropped, Unanswered, Responding, Window, Dropping, Using
  <2>3. QED
    BY <2>1, <2>2 DEF NodeInv
<1>6. \A m \in Nodes : m # n => Same(m)
  BY <1>3 DEF Same
<1>7. QED
  BY <1>1, <1>4, <1>5, <1>6, OthersKept DEF Kept

\* The caller pops what is cached for its target, or lets it be, and has no
\* connection in hand after that.
LEMMA CallerLetsGo ==
  ASSUME CInv, NEW n \in Nodes, NEW t \in Nodes, NEW w \in {"idle", "registering"},
         Goes(n, w), Before(n), target' = [target EXCEPT ![n] = t],
         NEW k \in {NoConn, peers[n][t]}, peers' = [peers EXCEPT ![n][t] = k],
         caller[n] \in Dropping => target[n] = t /\ (k = NoConn \/ k # mine[n]),
         UNCHANGED <<conns, mine, listener, offer, future>>
  PROVE  Kept
<1>1. TypeOK /\ Grown /\ LivesKept /\ RemotesKept
  BY Untouched DEF CInv
<1>2. /\ NodeInv(n) /\ offer[n].from \in Nodes /\ peers[n][t] \in Nat
      /\ \A s \in Nodes : peers[n][s] # NoConn => Own(n, s, peers[n][s])
      /\ Dropping \subseteq Holding
  BY Facts
<1>3. /\ caller'[n] = w /\ target'[n] = t
      /\ \A m \in Nodes : m # n => caller'[m] = caller[m] /\ target'[m] = target[m]
                                   /\ peers'[m] = peers[m]
      /\ \A s \in Nodes : peers'[n][s] = IF s = t THEN k ELSE peers[n][s]
      /\ mine \in [Nodes -> Nat] /\ peers' \in [Nodes -> [Nodes -> Nat]]
  <2>1. k \in Nat
    BY <1>2 DEF NoConn
  <2>2. mine \in [Nodes -> Nat] /\ peers \in [Nodes -> [Nodes -> Nat]]
        /\ caller \in [Nodes -> CallerPCs] /\ target \in [Nodes -> Nodes]
    BY <1>1, Facts, TypeParts DEF OtherTypes
  <2>3. QED
    BY <2>1, <2>2 DEF Goes
<1>4. IndexTypes'
  <2>1. \A m, s \in Nodes : peers'[m][s] \in {peers[m][s], NoConn}
    BY <1>3
  <2>2. QED
    BY <1>1, <1>3, <2>1, TypeParts, IndexKept DEF Before
<1>5. NodeInv(n)'
  <2>1. Held(n)' /\ Dropped(n)' /\ Unanswered(n)' /\ Responding(n)' /\ Used(n)'
    BY <1>2, <1>3 DEF NodeInv, Held, Own, Dropped, Unanswered, Responding, Used,
                      Holding, Dropping, Using
  <2>2. Clean(n)'
    BY <1>2, <1>3 DEF NodeInv, Held, Own, Clean
  <2>3. Window(n)'
    BY <1>2, <1>3 DEF NodeInv, Window
  <2>4. QED
    BY <2>1, <2>2, <2>3 DEF NodeInv
<1>6. \A m \in Nodes : m # n => Same(m)
  BY <1>3 DEF Same
<1>7. QED
  BY <1>1, <1>4, <1>5, <1>6, OthersKept DEF Kept

\* request_conn_to_peer makes a connection and caches it.
LEMMA CallerMakesAs ==
  ASSUME CInv, NEW n \in Nodes, NEW t \in Nodes, NEW k, MadeAs(n, t, TRUE, k),
         Goes(n, "offering"), Before(n), target' = [target EXCEPT ![n] = t],
         mine' = [mine EXCEPT ![n] = k], peers' = Cached(n, t, k),
         caller[n] \in Dropping => target[n] = t,
         UNCHANGED <<listener, offer, future>>
  PROVE  Kept
<1>1. TypeOK
  BY DEF CInv
<1>2. /\ Grown /\ LivesKept /\ RemotesKept /\ k \in Nat /\ k \notin DOMAIN conns
      /\ k # NoConn /\ Own(n, t, k)' /\ conns'[k].initiator /\ conns'[k].life = "open"
      /\ conns'[k].remote = NoConn
  BY DEF MadeAs, Own
<1>3. /\ NodeInv(n) /\ offer[n].from \in Nodes
      /\ \A s \in Nodes : peers[n][s] # NoConn => Own(n, s, peers[n][s])
      /\ Dropping \subseteq Holding
  BY Facts
<1>4. /\ caller'[n] = "offering" /\ target'[n] = t /\ mine'[n] = k
      /\ \A m \in Nodes : m # n => /\ caller'[m] = caller[m] /\ target'[m] = target[m]
                                   /\ mine'[m] = mine[m] /\ peers'[m] = peers[m]
      /\ \A s \in Nodes : peers'[n][s] = IF s = t THEN k ELSE peers[n][s]
      /\ mine' \in [Nodes -> Nat] /\ peers' \in [Nodes -> [Nodes -> Nat]]
  <2>1. mine \in [Nodes -> Nat] /\ peers \in [Nodes -> [Nodes -> Nat]]
        /\ caller \in [Nodes -> CallerPCs] /\ target \in [Nodes -> Nodes]
    BY <1>1, Facts, TypeParts DEF OtherTypes
  <2>2. QED
    BY <1>2, <2>1 DEF Goes, Cached
<1>5. IndexTypes'
  <2>1. \A m, s \in Nodes : peers'[m][s] \in {peers[m][s], NoConn} \/ Own(m, s, peers[m][s])'
    BY <1>2, <1>4 DEF Own
  <2>2. \A m \in Nodes : mine'[m] = mine[m] \/ mine'[m] \in DOMAIN conns'
    BY <1>2, <1>4 DEF Own
  <2>3. QED
    BY <1>1, <1>2, <1>4, <2>1, <2>2, TypeParts, IndexKept DEF Before
<1>6. NodeInv(n)'
  <2>1. \A l \in DOMAIN conns :
          /\ l \in DOMAIN conns' /\ conns'[l].owner = conns[l].owner
          /\ conns'[l].with = conns[l].with /\ conns'[l].initiator = conns[l].initiator
          /\ conns'[l].life = conns[l].life /\ conns'[l].remote = conns[l].remote
    BY <1>2 DEF Grown, LivesKept, RemotesKept
  <2>2. Held(n)'
    BY <1>2, <1>3, <1>4, <2>1 DEF NodeInv, Held, Own
  <2>3. Clean(n)'
    <3> SUFFICES ASSUME NEW s \in Nodes, peers'[n][s] # NoConn,
                        conns'[peers'[n][s]].life \in {"closing", "closed"}
                 PROVE  FALSE
      BY DEF Clean
    <3>1. s # t /\ peers'[n][s] = peers[n][s]
      BY <1>2, <1>4
    <3>2. Own(n, s, peers[n][s]) /\ conns[peers[n][s]].life \in {"closing", "closed"}
      BY <1>3, <2>1, <3>1 DEF Own
    <3>3. caller[n] \in Dropping /\ mine[n] = peers[n][s]
      BY <1>3, <3>1, <3>2 DEF NodeInv, Clean
    <3>4. QED
      BY <1>3, <3>1, <3>2, <3>3 DEF NodeInv, Held, Own
  <2>4. Dropped(n)' /\ Unanswered(n)' /\ Used(n)'
    BY <1>2, <1>4 DEF Dropped, Unanswered, Used, Dropping, Using
  <2>5. Responding(n)'
    BY <1>3, <2>1 DEF NodeInv, Held, Own, Responding, Replying
  <2>6. Window(n)'
    BY <1>2, <1>3, <1>4, <2>1 DEF NodeInv, Window, Own
  <2>7. QED
    BY <2>2, <2>3, <2>4, <2>5, <2>6 DEF NodeInv
<1>7. \A m \in Nodes : m # n => Same(m)
  BY <1>2, <1>4 DEF Same, LivesKept, RemotesKept
<1>8. QED
  BY <1>2, <1>5, <1>6, <1>7, OthersKept DEF Kept

LEMMA CallerMakes ==
  ASSUME CInv, NEW n \in Nodes, NEW t \in Nodes, Goes(n, "offering"), Before(n),
         conns' = Append(conns, NewConn(n, t, TRUE)), target' = [target EXCEPT ![n] = t],
         mine' = [mine EXCEPT ![n] = Len(conns) + 1],
         peers' = Cached(n, t, Len(conns) + 1),
         caller[n] \in Dropping => target[n] = t,
         UNCHANGED <<listener, offer, future>>
  PROVE  Kept
<1>1. MadeAs(n, t, TRUE, Len(conns) + 1)
  BY MadeNext DEF CInv
<1>2. QED
  BY <1>1, CallerMakesAs

LEMMA StartKept ==
  ASSUME CInv, NEW n \in Nodes, NEW t \in Nodes, Start(n, t), Before(n),
         target' = [target EXCEPT ![n] = t],
         caller[n] \in Dropping => target[n] = t,
         UNCHANGED <<listener, offer, future>>
  PROVE  Kept
<1>1. CASE link[n] # "none" /\ t \notin pending[n]
  BY <1>1, CallerMakes DEF Start, Request
<1>2. CASE link[n] # "none" /\ t \in pending[n]
  BY <1>2, CallerLetsGo DEF Start, Request
<1>3. CASE link[n] = "none"
  BY <1>3, CallerLetsGo DEF Start, Popped
<1>4. QED
  BY <1>1, <1>2, <1>3

LEMMA CallingSteps ==
  ASSUME CInv, NEW n \in Nodes, NEW t \in Nodes,
         CallFresh(n, t) \/ CallExisting(n, t) \/ CallStale(n, t)
  PROVE  Kept
<1>1. /\ target' = [target EXCEPT ![n] = t] /\ caller[n] \notin Dropping
      /\ UNCHANGED <<listener, offer, future>>
  BY DEF CallFresh, CallExisting, CallStale, Calling, Dropping, listenerVars, signalVars
<1>2. Before(n)
  <2>1. before \in [Nodes -> 0 .. Len(conns)] /\ peers[n][t] \in 0 .. Len(conns)
        /\ Len(conns) \in Nat
    BY Facts DEF IndexTypes
  <2>2. before' = [before EXCEPT ![n] = peers[n][t]]
    BY DEF CallFresh, CallExisting, CallStale, Calling
  <2>3. QED
    BY <2>1, <2>2 DEF Before
<1>3. CASE CallFresh(n, t)
  BY <1>1, <1>2, <1>3, StartKept DEF CallFresh
<1>4. CASE CallExisting(n, t)
  <2>1. conns' = conns /\ peers' = peers /\ peers[n][t] # NoConn /\ Goes(n, "joining")
        /\ mine' = [mine EXCEPT ![n] = peers[n][t]]
    BY <1>4 DEF CallExisting
  <2>2. QED
    BY <1>1, <1>2, <2>1, CallerTakes DEF Using
<1>5. CASE CallStale(n, t)
  <2>1. Own(n, t, peers[n][t])
    BY <1>5, Facts DEF CallStale
  <2>2. conns' = Closing({peers[n][t]}) /\ peers' = peers /\ Goes(n, "dropping")
        /\ mine' = [mine EXCEPT ![n] = peers[n][t]]
    BY <1>5 DEF CallStale
  <2>3. QED
    BY <1>1, <1>2, <2>1, <2>2, CallerCloses DEF Dropping
<1>6. QED
  BY <1>3, <1>4, <1>5

LEMMA HoldingSteps ==
  ASSUME CInv, NEW n \in Nodes,
         \/ JoinTimeout(n) \/ OfferFailed(n) \/ HangUp(n) \/ FindPeer(n)
         \/ Rebuild(n) \/ Registered(n) \/ GiveUp(n) \/ HungUp(n)
  PROVE  Kept
<1> USE DEF At, Waiting, listenerVars, signalVars
<1>1. /\ target' = [target EXCEPT ![n] = target[n]] /\ target[n] \in Nodes
      /\ Before(n) /\ UNCHANGED <<listener, offer>>
      /\ \A m \in Nodes : m # n => future'[m] = future[m]
  <2>1. target' = target /\ before' = before /\ UNCHANGED <<listener, offer>>
    BY DEF JoinTimeout, OfferFailed, HangUp, FindPeer, Rebuild, Registered, GiveUp, HungUp
  <2>2. target \in [Nodes -> Nodes] /\ before \in [Nodes -> 0 .. Len(conns)]
        /\ Len(conns) \in Nat /\ future \in [Nodes -> Futures]
    BY Facts DEF IndexTypes, OtherTypes
  <2>3. future' = future \/ future' = [future EXCEPT ![n] = Future("none")]
    BY DEF JoinTimeout, OfferFailed, HangUp, FindPeer, Rebuild, Registered, GiveUp, HungUp
  <2>4. QED
    BY <2>1, <2>2, <2>3 DEF Before
<1>2. mine \in [Nodes -> Nat] /\ peers \in [Nodes -> [Nodes -> Nat]] /\ NodeInv(n)
      /\ Dropping \subseteq Holding /\ Using \subseteq Holding
      /\ {"offering", "waiting"} \subseteq Holding
  BY Facts
<1>3. CASE JoinTimeout(n) \/ OfferFailed(n) \/ HangUp(n)
  <2>1. /\ caller[n] \in {"joining", "waiting", "using"}
        /\ \E w \in Dropping : Goes(n, w)
        /\ conns' = Closing({mine[n]}) /\ peers' = peers /\ mine' = mine
    BY <1>3 DEF JoinTimeout, OfferFailed, HangUp, Dropping
  <2>2. Own(n, target[n], mine[n]) /\ caller[n] \notin Dropping
    BY <1>2, <2>1 DEF NodeInv, Held, Using, Dropping
  <2>3. mine' = [mine EXCEPT ![n] = mine[n]]
    BY <1>2, <2>1
  <2>4. QED
    BY <1>1, <2>1, <2>2, <2>3, CallerCloses
<1>4. CASE FindPeer(n)
  <2>1. /\ caller[n] \notin Dropping /\ peers[n][target[n]] # NoConn /\ Goes(n, "connecting")
        /\ mine' = [mine EXCEPT ![n] = peers[n][target[n]]]
        /\ UNCHANGED <<conns, peers, future>>
    BY <1>4 DEF FindPeer, Dropping
  <2>2. QED
    BY <1>1, <2>1, CallerTakes DEF Using
<1>5. CASE Rebuild(n)
  BY <1>1, <1>5, StartKept DEF Rebuild
<1>6. CASE Registered(n)
  <2>1. caller[n] \notin Dropping /\ UNCHANGED future
        /\ Request(n, target[n], peers[n][target[n]])
    BY <1>6 DEF Registered, Dropping
  <2>2. CASE target[n] \in pending[n] \/ peers[n][target[n]] # NoConn
    BY <1>1, <2>1, <2>2, CallerLetsGo DEF Request
  <2>3. CASE ~(target[n] \in pending[n] \/ peers[n][target[n]] # NoConn)
    BY <1>1, <2>1, <2>3, CallerMakes DEF Request
  <2>4. QED
    BY <2>2, <2>3
<1>7. CASE GiveUp(n)
  BY <1>1, <1>7, CallerLetsGo DEF GiveUp, Popped
<1>8. CASE HungUp(n)
  <2>1. caller[n] \in Dropping /\ Goes(n, "idle") /\ UNCHANGED <<conns, mine, future>>
    BY <1>8 DEF HungUp, Dropping
  <2>2. CASE peers[n][target[n]] = mine[n]
    BY <1>1, <1>8, <2>1, <2>2, CallerLetsGo DEF HungUp, Popped
  <2>3. CASE peers[n][target[n]] # mine[n]
    <3>1. peers' = [peers EXCEPT ![n][target[n]] = peers[n][target[n]]]
      BY <1>2, <1>8, <2>3 DEF HungUp
    <3>2. QED
      BY <1>1, <2>1, <2>3, <3>1, CallerLetsGo
  <2>4. QED
    BY <2>2, <2>3
<1>9. QED
  BY <1>3, <1>4, <1>5, <1>6, <1>7, <1>8

\* What the listener's steps leave of the caller, and what they leave of the
\* other clients.
Aside(n) ==
  /\ UNCHANGED <<caller, target, mine, before>>
  /\ \A m \in Nodes : m # n =>
       /\ listener'[m] = listener[m] /\ offer'[m] = offer[m]
       /\ peers'[m] = peers[m] /\ future'[m] = future[m]

LEMMA AnswerSet ==
  ASSUME CInv, NEW n \in Nodes, SetAnswer(n)
  PROVE  Kept
<1> USE DEF At, Waiting, listenerVars
<1>1. /\ TypeOK /\ NodeInv(n) /\ Own(n, target[n], mine[n]) /\ offer[n].from \in Nodes
      /\ \A s \in Nodes : peers[n][s] # NoConn => Own(n, s, peers[n][s])
      /\ caller[n] = "waiting" /\ future[n].is = "answered"
      /\ conns[mine[n]].initiator
  BY Facts DEF CInv, SetAnswer, NodeInv, Held, Unanswered
<1>2. future \in [Nodes -> Futures] /\ caller \in [Nodes -> CallerPCs]
  BY Facts DEF OtherTypes
<1>3. future[n].by \in Nat
  BY <1>1, <1>2 DEF Futures
<1>4. /\ Grown /\ LivesKept
      /\ \A l \in DOMAIN conns : l # mine[n] => conns'[l].remote = conns[l].remote
  BY <1>1, <1>3, RemoteSet DEF SetAnswer, Own
<1>5. /\ UNCHANGED <<target, mine, before, listener, offer, peers>>
      /\ caller'[n] = "polling"
      /\ \A m \in Nodes : m # n => caller'[m] = caller[m] /\ future'[m] = future[m]
  BY <1>2 DEF SetAnswer, Goes
<1>6. IndexTypes'
  <2>1. /\ mine \in [Nodes -> Nat] /\ peers \in [Nodes -> [Nodes -> Nat]]
        /\ before \in [Nodes -> 0 .. Len(conns)] /\ Len(conns) \in Nat /\ IndexTypes
    BY Facts DEF IndexTypes
  <2>2. before' \in [Nodes -> Nat]
    BY <1>5, <2>1
  <2>3. QED
    BY <1>4, <1>5, <2>1, <2>2, IndexKept
<1>7. NodeInv(n)'
  <2>1. Held(n)'
    BY <1>1, <1>4, <1>5 DEF NodeInv, Held, Own, Grown, Holding
  <2>6. Clean(n)'
    <3>1. \A t \in Nodes : peers[n][t] # NoConn =>
            conns'[peers[n][t]].life = conns[peers[n][t]].life
      BY <1>1, <1>4 DEF Own, LivesKept
    <3>2. caller[n] \notin Dropping
      BY <1>1 DEF Dropping
    <3>3. QED
      BY <1>1, <1>5, <3>1, <3>2 DEF NodeInv, Clean
  <2>2. Dropped(n)' /\ Unanswered(n)' /\ Used(n)'
    BY <1>5 DEF Dropped, Unanswered, Used, Dropping, Using
  <2>3. Responding(n)'
    BY <1>1, <1>4, <1>5 DEF NodeInv, Held, Own, Responding, Replying, Grown
  <2>4. Window(n)'
    BY <1>1, <1>4, <1>5 DEF NodeInv, Window, Own
  <2>5. QED
    BY <2>1, <2>2, <2>3, <2>4, <2>6 DEF NodeInv
<1>8. \A m \in Nodes : m # n => Same(m)
  BY <1>1, <1>4, <1>5 DEF Same, Own, LivesKept
<1>9. QED
  BY <1>4, <1>6, <1>7, <1>8, OthersKept DEF CInv, Kept

\* The listener makes a connection for an offer, where the cache had none, or
\* none that was answered.
LEMMA ListenerMakesAs ==
  ASSUME CInv, NEW n \in Nodes, NEW source \in Nodes, NEW k, MadeAs(n, source, FALSE, k),
         Aside(n), UNCHANGED future, peers' = Cached(n, source, k),
         listener'[n] = "answering", offer'[n].from = source, offer'[n].pc = k,
         peers[n][source] # NoConn => conns[peers[n][source]].remote = NoConn
  PROVE  Kept
<1>1. TypeOK
  BY DEF CInv
<1>2. /\ Grown /\ LivesKept /\ RemotesKept /\ k \in Nat /\ k \notin DOMAIN conns
      /\ k # NoConn /\ Own(n, source, k)' /\ ~conns'[k].initiator /\ conns'[k].life = "open"
      /\ conns'[k].remote = NoConn
  BY DEF MadeAs, Own
<1>3. /\ NodeInv(n) /\ target[n] \in Nodes
      /\ \A s \in Nodes : peers[n][s] # NoConn => Own(n, s, peers[n][s])
      /\ Dropping \subseteq Holding /\ Using \subseteq Holding
      /\ {"offering", "waiting"} \subseteq Holding
  BY Facts
<1>4. /\ \A s \in Nodes : peers'[n][s] = IF s = source THEN k ELSE peers[n][s]
      /\ mine' \in [Nodes -> Nat] /\ peers' \in [Nodes -> [Nodes -> Nat]]
      /\ before' \in [Nodes -> Nat]
  <2>1. mine \in [Nodes -> Nat] /\ peers \in [Nodes -> [Nodes -> Nat]]
        /\ before \in [Nodes -> 0 .. Len(conns)] /\ Len(conns) \in Nat
    BY Facts DEF IndexTypes
  <2>2. before \in [Nodes -> Nat]
    BY <2>1
  <2>3. QED
    BY <1>2, <2>1, <2>2 DEF Cached, Aside
<1>5. IndexTypes'
  <2>1. \A m, s \in Nodes : peers'[m][s] \in {peers[m][s], NoConn} \/ Own(m, s, peers[m][s])'
    BY <1>2, <1>4 DEF Own, Aside
  <2>2. QED
    BY <1>1, <1>2, <1>4, <2>1, TypeParts, IndexKept DEF Aside
<1>6. NodeInv(n)'
  <2>1. \A l \in DOMAIN conns :
          /\ l \in DOMAIN conns' /\ conns'[l].owner = conns[l].owner
          /\ conns'[l].with = conns[l].with /\ conns'[l].initiator = conns[l].initiator
          /\ conns'[l].life = conns[l].life /\ conns'[l].remote = conns[l].remote
    BY <1>2 DEF Grown, LivesKept, RemotesKept
  <2>2. caller[n] \in Holding => Own(n, target[n], mine[n]) /\ mine[n] # k
    BY <1>2, <1>3 DEF NodeInv, Held, Own
  <2>3. Held(n)'
    BY <1>2, <2>1, <2>2 DEF Held, Own, Aside
  <2>4. Clean(n)'
    <3> SUFFICES ASSUME NEW s \in Nodes, peers'[n][s] # NoConn,
                        conns'[peers'[n][s]].life \in {"closing", "closed"}
                 PROVE  caller'[n] \in Dropping /\ mine'[n] = peers'[n][s]
      BY DEF Clean
    <3>1. peers'[n][s] = peers[n][s]
      BY <1>2, <1>4
    <3>2. conns[peers[n][s]].life \in {"closing", "closed"}
      BY <1>3, <2>1, <3>1 DEF Own
    <3>3. QED
      BY <1>3, <3>1, <3>2 DEF NodeInv, Clean, Aside
  <2>5. Dropped(n)' /\ Unanswered(n)'
    BY <1>3, <2>1, <2>2 DEF NodeInv, Dropped, Unanswered, Own, Aside
  <2>6. Responding(n)'
    BY <1>2 DEF Responding
  <2>7. Used(n)'
    <3> SUFFICES ASSUME caller'[n] \in Using, conns'[mine'[n]].life = "open",
                        \/ conns'[mine'[n]].remote # NoConn
                        \/ listener'[n] = "answering" /\ offer'[n].pc = mine'[n]
                 PROVE  peers'[n][target'[n]] = mine'[n]
      BY DEF Used
    <3>1. caller[n] \in Using /\ mine'[n] = mine[n] /\ target'[n] = target[n]
          /\ Own(n, target[n], mine[n]) /\ mine[n] # k
      BY <1>3, <2>2 DEF Aside
    <3>2. conns[mine[n]].life = "open" /\ conns[mine[n]].remote # NoConn
      BY <2>1, <3>1 DEF Own
    <3>3. peers[n][target[n]] = mine[n] /\ mine[n] # NoConn
      BY <1>1, <1>3, <3>1, <3>2, ConnTyped DEF NodeInv, Used, Own, NoConn
    <3>4. target[n] # source
      BY <3>2, <3>3
    <3>5. QED
      BY <1>3, <1>4, <3>1, <3>3, <3>4
  <2>8. Window(n)'
    BY <1>2, <1>4, <2>2 DEF Window, Aside, Holding, CallerPCs
  <2>9. QED
    BY <2>3, <2>4, <2>5, <2>6, <2>7, <2>8 DEF NodeInv
<1>7. \A m \in Nodes : m # n => Same(m)
  BY <1>2 DEF Same, LivesKept, RemotesKept, Aside
<1>8. QED
  BY <1>2, <1>5, <1>6, <1>7, OthersKept DEF Kept

LEMMA ListenerMakes ==
  ASSUME CInv, NEW n \in Nodes, NEW source \in Nodes, NEW c, Respond(n, source, c),
         UNCHANGED <<caller, target, mine, before, future>>,
         peers[n][source] # NoConn => conns[peers[n][source]].remote = NoConn
  PROVE  Kept
<1>1. MadeAs(n, source, FALSE, Len(conns) + 1)
  BY MadeNext DEF CInv, Respond
<1>2. /\ listener \in [Nodes -> ListenerPCs] /\ peers \in [Nodes -> [Nodes -> Nat]]
      /\ offer \in [Nodes -> [from : Nodes, conn : Nat, pc : Nat]]
  BY Facts DEF OtherTypes
<1>3. /\ listener'[n] = "answering" /\ offer'[n].from = source
      /\ offer'[n].pc = Len(conns) + 1
  BY <1>2 DEF Respond
<1>4. Aside(n)
  BY <1>2 DEF Respond, Aside, Cached
<1>5. QED
  BY <1>1, <1>3, <1>4, ListenerMakesAs DEF Respond

\* The listener closes and pops what the cache has for ts, when it starts on an
\* offer, or at a rejection or an error.
LEMMA ListenerDrops ==
  ASSUME CInv, NEW n \in Nodes, NEW ts \in SUBSET Nodes, Aside(n), listener[n] = "receiving",
         conns' = Closing({peers[n][t] : t \in ts}),
         peers' = [peers EXCEPT ![n] = [t \in Nodes |-> IF t \in ts THEN NoConn ELSE @[t]]],
         \/ listener'[n] = "receiving"
         \/ /\ listener'[n] = "replacing" /\ offer'[n].from \in ts
            /\ Own(n, offer'[n].from, offer'[n].pc)
  PROVE  Kept
<1>1. TypeOK
  BY DEF CInv
<1>2. /\ NodeInv(n) /\ target[n] \in Nodes
      /\ \A l \in DOMAIN conns : conns[l] \in Conn
      /\ \A s \in Nodes : peers[n][s] # NoConn => Own(n, s, peers[n][s])
      /\ Dropping \subseteq Holding /\ Using \subseteq Holding
      /\ {"offering", "waiting"} \subseteq Holding
      /\ DOMAIN conns = 1 .. Len(conns) /\ Len(conns) \in Nat
  BY Facts
<1>3. /\ Grown /\ RemotesKept
      /\ \A l \in DOMAIN conns :
           conns'[l].life = IF l \in {peers[n][t] : t \in ts} /\ conns[l].life \in {"open", "failed"}
                            THEN "closing" ELSE conns[l].life
  BY <1>1, ClosingKeeps
<1>4. /\ \A s \in Nodes : peers'[n][s] = IF s \in ts THEN NoConn ELSE peers[n][s]
      /\ mine' \in [Nodes -> Nat] /\ peers' \in [Nodes -> [Nodes -> Nat]]
      /\ before' \in [Nodes -> Nat]
  <2>1. mine \in [Nodes -> Nat] /\ peers \in [Nodes -> [Nodes -> Nat]]
        /\ before \in [Nodes -> 0 .. Len(conns)] /\ Len(conns) \in Nat
    BY Facts DEF IndexTypes
  <2>2. before \in [Nodes -> Nat]
    BY <2>1
  <2>3. QED
    BY <2>1, <2>2 DEF Aside, NoConn
<1>5. IndexTypes'
  <2>1. \A m, s \in Nodes : peers'[m][s] \in {peers[m][s], NoConn}
    BY <1>4 DEF Aside
  <2>2. QED
    BY <1>1, <1>3, <1>4, <2>1, TypeParts, IndexKept DEF Aside
<1>6. NodeInv(n)'
  <2>1. \A l \in DOMAIN conns :
          /\ l \in DOMAIN conns' /\ conns'[l].owner = conns[l].owner
          /\ conns'[l].with = conns[l].with /\ conns'[l].initiator = conns[l].initiator
          /\ conns'[l].remote = conns[l].remote
    BY <1>3 DEF Grown, RemotesKept
  <2>2. caller[n] \in Holding => Own(n, target[n], mine[n])
    BY <1>2 DEF NodeInv, Held
  <2>3. Held(n)'
    BY <2>1, <2>2 DEF Held, Own, Aside, Replying
  <2>4. Clean(n)'
    <3> SUFFICES ASSUME NEW s \in Nodes, peers'[n][s] # NoConn,
                        conns'[peers'[n][s]].life \in {"closing", "closed"}
                 PROVE  caller'[n] \in Dropping /\ mine'[n] = peers'[n][s]
      BY DEF Clean
    <3>1. s \notin ts /\ peers'[n][s] = peers[n][s] /\ Own(n, s, peers[n][s])
      BY <1>2, <1>4
    <3>2. peers[n][s] \notin {peers[n][t] : t \in ts}
      BY <1>2, <3>1, <1>4 DEF Own
    <3>3. conns[peers[n][s]].life \in {"closing", "closed"}
      BY <1>3, <3>1, <3>2 DEF Own
    <3>4. QED
      BY <1>2, <3>1, <3>3 DEF NodeInv, Clean, Aside
  <2>5. Dropped(n)'
    BY <1>2, <1>3, <2>2 DEF NodeInv, Dropped, Own, Aside
  <2>6. Unanswered(n)'
    BY <1>2, <2>1, <2>2 DEF NodeInv, Unanswered, Own, Aside
  <2>7. Responding(n)'
    BY DEF Responding
  <2>8. Used(n)'
    <3> SUFFICES ASSUME caller'[n] \in Using, conns'[mine'[n]].life = "open",
                        conns'[mine'[n]].remote # NoConn
                 PROVE  peers'[n][target'[n]] = mine'[n]
      BY DEF Used
    <3>1. caller[n] \in Using /\ mine'[n] = mine[n] /\ target'[n] = target[n]
          /\ Own(n, target[n], mine[n])
      BY <1>2, <2>2 DEF Aside
    <3>2. conns[mine[n]].life = "open" /\ conns[mine[n]].remote # NoConn
          /\ mine[n] \notin {peers[n][t] : t \in ts}
      BY <1>3, <2>1, <3>1 DEF Own
    <3>3. peers[n][target[n]] = mine[n]
      BY <1>2, <3>1, <3>2 DEF NodeInv, Used
    <3>4. target[n] \notin ts
      BY <3>2, <3>3
    <3>5. QED
      BY <1>2, <1>4, <3>1, <3>3, <3>4
  <2>9. Window(n)'
    BY <1>4 DEF Window
  <2>10. QED
    BY <2>3, <2>4, <2>5, <2>6, <2>7, <2>8, <2>9 DEF NodeInv
<1>7. \A m \in Nodes : m # n => Same(m)
  <2>1. \A t \in ts : peers[n][t] \in DOMAIN conns => conns[peers[n][t]].owner = n
    BY <1>2 DEF Own, NoConn
  <2>2. \A m \in Nodes : m # n => \A l \in DOMAIN conns : conns[l].owner = m =>
          l \notin {peers[n][t] : t \in ts}
    BY <2>1
  <2>3. QED
    BY <1>3, <2>2 DEF Same, RemotesKept, Aside
<1>8. QED
  BY <1>3, <1>5, <1>6, <1>7, OthersKept DEF Kept

\* The listener rejects the offer it handles: pc closes, and whatever is cached
\* for the sender is popped.
LEMMA OfferRejected ==
  ASSUME CInv, NEW n \in Nodes, OfferUnusable(n)
  PROVE  Kept
<1> USE DEF HandlingOn, Handling, callerVars, signalVars
<1>1. TypeOK /\ listener[n] = "answering" /\ Aside(n) /\ offer' = offer
      /\ listener'[n] = "rejecting"
  BY Facts DEF CInv, OfferUnusable, Aside, OtherTypes, Popped, IndexTypes
<1>2. /\ NodeInv(n) /\ target[n] \in Nodes /\ offer[n].from \in Nodes
      /\ \A l \in DOMAIN conns : conns[l] \in Conn
      /\ \A s \in Nodes : peers[n][s] # NoConn => Own(n, s, peers[n][s])
      /\ Dropping \subseteq Holding /\ Using \subseteq Holding
      /\ {"offering", "waiting"} \subseteq Holding
      /\ DOMAIN conns = 1 .. Len(conns) /\ Len(conns) \in Nat
  BY Facts
<1>3. /\ Grown /\ RemotesKept
      /\ \A l \in DOMAIN conns :
           conns'[l].life = IF l \in {offer[n].pc} /\ conns[l].life \in {"open", "failed"}
                            THEN "closing" ELSE conns[l].life
  BY <1>1, ClosingKeeps DEF OfferUnusable
<1>4. /\ \A s \in Nodes : peers'[n][s] = IF s = offer[n].from THEN NoConn ELSE peers[n][s]
      /\ mine' \in [Nodes -> Nat] /\ peers' \in [Nodes -> [Nodes -> Nat]]
      /\ before' \in [Nodes -> Nat]
  <2>1. mine \in [Nodes -> Nat] /\ peers \in [Nodes -> [Nodes -> Nat]]
        /\ before \in [Nodes -> 0 .. Len(conns)] /\ Len(conns) \in Nat
    BY Facts DEF IndexTypes
  <2>2. before \in [Nodes -> Nat]
    BY <2>1
  <2>3. peers' = Popped(n, offer[n].from) /\ mine' = mine /\ before' = before
    BY DEF OfferUnusable
  <2>4. QED
    BY <1>2, <2>1, <2>2, <2>3 DEF NoConn, Popped
<1>5. IndexTypes'
  <2>1. \A m, s \in Nodes : peers'[m][s] \in {peers[m][s], NoConn}
    BY <1>1, <1>4 DEF Aside
  <2>2. QED
    BY <1>1, <1>3, <1>4, <2>1, TypeParts, IndexKept DEF Aside
<1>6. Own(n, offer[n].from, offer[n].pc)
  BY <1>1, <1>2 DEF NodeInv, Held, Replying
<1>7. NodeInv(n)'
  <2>1. \A l \in DOMAIN conns :
          /\ l \in DOMAIN conns' /\ conns'[l].owner = conns[l].owner
          /\ conns'[l].with = conns[l].with /\ conns'[l].initiator = conns[l].initiator
          /\ conns'[l].remote = conns[l].remote
    BY <1>3 DEF Grown, RemotesKept
  <2>2. caller[n] \in Holding => Own(n, target[n], mine[n])
    BY <1>2 DEF NodeInv, Held
  <2>3. Held(n)'
    BY <1>1, <1>6, <2>1, <2>2 DEF Held, Own, Aside
  <2>4. Clean(n)'
    <3> SUFFICES ASSUME NEW s \in Nodes, peers'[n][s] # NoConn,
                        conns'[peers'[n][s]].life \in {"closing", "closed"}
                 PROVE  caller'[n] \in Dropping /\ mine'[n] = peers'[n][s]
      BY DEF Clean
    <3>1. s # offer[n].from /\ peers'[n][s] = peers[n][s] /\ Own(n, s, peers[n][s])
      BY <1>2, <1>4
    <3>2. conns[peers[n][s]].life \in {"closing", "closed"}
      BY <1>3, <1>6, <3>1 DEF Own
    <3>3. QED
      BY <1>1, <1>2, <3>1, <3>2 DEF NodeInv, Clean, Aside
  <2>5. Dropped(n)'
    BY <1>1, <1>2, <1>3, <2>2 DEF NodeInv, Dropped, Own, Aside
  <2>6. Unanswered(n)'
    BY <1>1, <1>2, <2>1, <2>2 DEF NodeInv, Unanswered, Own, Aside
  <2>7. Responding(n)'
    BY <1>1, <1>2, <1>6, <2>1 DEF NodeInv, Responding, Own
  <2>8. Used(n)'
    <3> SUFFICES ASSUME caller'[n] \in Using, conns'[mine'[n]].life = "open",
                        conns'[mine'[n]].remote # NoConn
                 PROVE  peers'[n][target'[n]] = mine'[n]
      BY <1>1 DEF Used
    <3>1. caller[n] \in Using /\ mine'[n] = mine[n] /\ target'[n] = target[n]
          /\ Own(n, target[n], mine[n])
      BY <1>1, <1>2, <2>2 DEF Aside
    <3>2. conns[mine[n]].life = "open" /\ conns[mine[n]].remote # NoConn
      BY <1>3, <2>1, <3>1 DEF Own
    <3>3. peers[n][target[n]] = mine[n] /\ mine[n] # NoConn
      BY <1>2, <3>1, <3>2 DEF NodeInv, Used, Own, NoConn
    <3>4. target[n] # offer[n].from
      BY <1>1, <1>2, <3>2, <3>3 DEF NodeInv, Window
    <3>5. QED
      BY <1>2, <1>4, <3>1, <3>3, <3>4
  <2>9. Window(n)'
    BY <1>1 DEF Window
  <2>10. QED
    BY <2>3, <2>4, <2>5, <2>6, <2>7, <2>8, <2>9 DEF NodeInv
<1>8. \A m \in Nodes : m # n => Same(m)
  BY <1>1, <1>3, <1>6 DEF Same, RemotesKept, Aside, Own
<1>9. QED
  BY <1>3, <1>5, <1>7, <1>8, OthersKept DEF Kept

\* The answer is made, whether it can be sent or not.
LEMMA AnswerMade ==
  ASSUME CInv, NEW n \in Nodes, listener[n] = "answering", listener'[n] = "receiving",
         conns' = [conns EXCEPT ![offer[n].pc].remote = offer[n].conn],
         Aside(n), UNCHANGED peers
  PROVE  Kept
<1>1. /\ TypeOK /\ NodeInv(n) /\ target[n] \in Nodes /\ Own(n, offer[n].from, offer[n].pc)
      /\ ~conns[offer[n].pc].initiator
      /\ \A s \in Nodes : peers[n][s] # NoConn => Own(n, s, peers[n][s])
      /\ Using \subseteq Holding /\ {"offering", "waiting"} \subseteq Holding
      /\ Dropping \subseteq Holding
  BY Facts DEF CInv, NodeInv, Held, Responding, Replying
<1>2. offer[n].conn \in Nat
  BY Facts DEF OtherTypes
<1>3. /\ Grown /\ LivesKept
      /\ \A l \in DOMAIN conns : l # offer[n].pc => conns'[l].remote = conns[l].remote
  BY <1>1, <1>2, RemoteSet DEF Own
<1>4. IndexTypes'
  <2>1. /\ mine \in [Nodes -> Nat] /\ peers \in [Nodes -> [Nodes -> Nat]]
        /\ before \in [Nodes -> 0 .. Len(conns)] /\ Len(conns) \in Nat /\ IndexTypes
    BY Facts DEF IndexTypes
  <2>2. before' \in [Nodes -> Nat]
    BY <2>1 DEF Aside
  <2>3. QED
    BY <1>3, <2>1, <2>2, IndexKept DEF Aside
<1>5. NodeInv(n)'
  <2>1. caller[n] \in Holding => Own(n, target[n], mine[n])
    BY <1>1 DEF NodeInv, Held
  <2>2. \A l \in DOMAIN conns :
          /\ l \in DOMAIN conns' /\ conns'[l].owner = conns[l].owner
          /\ conns'[l].with = conns[l].with /\ conns'[l].initiator = conns[l].initiator
          /\ conns'[l].life = conns[l].life
    BY <1>3 DEF Grown, LivesKept
  <2>3. Held(n)'
    BY <2>1, <2>2 DEF Held, Own, Aside, Replying
  <2>4. Clean(n)'
    BY <1>1, <2>2 DEF NodeInv, Clean, Own, Aside
  <2>5. Dropped(n)'
    BY <1>1, <2>1, <2>2 DEF NodeInv, Dropped, Own, Aside
  <2>6. Unanswered(n)'
    BY <1>1, <1>3, <2>1, <2>2 DEF NodeInv, Unanswered, Own, Aside
  <2>7. Used(n)'
    BY <1>1, <1>3, <2>1, <2>2 DEF NodeInv, Used, Own, Aside
  <2>8. Responding(n)' /\ Window(n)'
    BY DEF Responding, Window
  <2>9. QED
    BY <2>3, <2>4, <2>5, <2>6, <2>7, <2>8 DEF NodeInv
<1>6. \A m \in Nodes : m # n => Same(m)
  BY <1>1, <1>3 DEF Same, Own, LivesKept, Aside
<1>7. QED
  BY <1>3, <1>4, <1>5, <1>6, OthersKept DEF CInv, Kept

\* The listener is back to recv(), and an answer future may be resolved.
LEMMA ListenerReturns ==
  ASSUME CInv, NEW n \in Nodes, listener'[n] = "receiving", Aside(n), UNCHANGED <<conns, peers>>
  PROVE  Kept
<1>1. Grown /\ LivesKept /\ RemotesKept
  BY Untouched DEF CInv
<1>2. IndexTypes'
  BY Facts DEF IndexTypes, Aside
<1>3. NodeInv(n)'
  <2>1. NodeInv(n)
    BY DEF CInv
  <2>2. Held(n)' /\ Clean(n)' /\ Dropped(n)'
    BY <2>1 DEF NodeInv, Held, Own, Clean, Dropped, Replying, Aside
  <2>3. Unanswered(n)' /\ Responding(n)' /\ Used(n)' /\ Window(n)'
    BY <2>1 DEF NodeInv, Unanswered, Responding, Used, Window, Aside
  <2>4. QED
    BY <2>2, <2>3 DEF NodeInv
<1>4. \A m \in Nodes : m # n => Same(m)
  BY DEF Same, Aside
<1>5. QED
  BY <1>1, <1>2, <1>3, <1>4, OthersKept DEF Kept

LEMMA ListenerSteps ==
  ASSUME CInv, NEW n \in Nodes, ListenerStep(n)
  PROVE  Kept
<1> USE DEF Receiving, Handling, HandlingOn, callerVars, listenerVars, signalVars
<1>1. /\ OtherTypes /\ peers \in [Nodes -> [Nodes -> Nat]] /\ NodeInv(n)
      /\ \A t \in Nodes : peers[n][t] # NoConn => Own(n, t, peers[n][t])
      /\ offer[n].from \in Nodes
  BY Facts
<1>2. /\ listener \in [Nodes -> ListenerPCs] /\ future \in [Nodes -> Futures]
      /\ offer \in [Nodes -> [from : Nodes, conn : Nat, pc : Nat]]
  BY <1>1 DEF OtherTypes
<1>3. CASE ReceiveOffer(n)
  <2>1. PICK source : source = Head(inbox[n]).from
    OBVIOUS
  <2>2. source \in Nodes /\ UNCHANGED <<caller, target, mine, before, future>>
        /\ listener[n] = "receiving"
    BY <1>1, <1>3, <2>1, HeadTyped DEF ReceiveOffer
  <2>3. CASE peers[n][source] = NoConn
    BY <1>3, <2>1, <2>2, <2>3, ListenerMakes DEF ReceiveOffer
  <2>4. CASE peers[n][source] # NoConn
    <3>1. /\ peers' = Popped(n, source) /\ conns' = Closing({peers[n][source]})
          /\ offer'[n].from = source /\ offer'[n].pc = peers[n][source]
          /\ listener'[n] = "replacing"
          /\ \A m \in Nodes : m # n => listener'[m] = listener[m] /\ offer'[m] = offer[m]
      BY <1>2, <1>3, <2>1, <2>4 DEF ReceiveOffer
    <3>2. {peers[n][t] : t \in {source}} = {peers[n][source]}
      OBVIOUS
    <3>3. peers' = [peers EXCEPT ![n] = [t \in Nodes |-> IF t \in {source} THEN NoConn ELSE @[t]]]
      BY <1>1, <3>1, <2>2 DEF Popped
    <3>4. Aside(n)
      BY <1>1, <2>2, <3>1 DEF Aside, Popped
    <3>5. conns' = Closing({peers[n][t] : t \in {source}}) /\ {source} \in SUBSET Nodes
          /\ Own(n, offer'[n].from, offer'[n].pc) /\ offer'[n].from \in {source}
      BY <1>1, <2>2, <2>4, <3>1, <3>2
    <3>6. QED
      BY <2>2, <3>1, <3>3, <3>4, <3>5, ListenerDrops
  <2>5. QED
    BY <2>3, <2>4
<1>4. CASE Replace(n)
  <2>1. peers[n][offer[n].from] # NoConn => conns[peers[n][offer[n].from]].remote = NoConn
    BY <1>1, <1>4 DEF Replace, NodeInv, Window
  <2>2. QED
    BY <1>1, <1>4, <2>1, ListenerMakes DEF Replace
<1>5. CASE SendAnswer(n)
  <2>1. listener'[n] = "receiving" /\ Aside(n)
    BY <1>2, <1>5 DEF SendAnswer, Aside
  <2>2. QED
    BY <1>5, <2>1, AnswerMade DEF SendAnswer
<1>6. CASE OfferUnusable(n)
  BY <1>6, OfferRejected
<1>7. CASE SendReject(n) \/ ReceiveAnswer(n)
  <2>1. listener'[n] = "receiving" /\ Aside(n) /\ UNCHANGED <<conns, peers>>
    BY <1>2, <1>7 DEF SendReject, ReceiveAnswer, Aside
  <2>2. QED
    BY <2>1, ListenerReturns
<1>8. CASE ReceiveReject(n) \/ ReceiveError(n)
  <2>1. UNCHANGED <<caller, target, mine, before, listener, offer>>
        /\ listener[n] = "receiving"
    BY <1>8 DEF ReceiveReject, ReceiveError
  <2>2. \A m \in Nodes : m # n => future'[m] = future[m]
    BY <1>2, <1>8 DEF ReceiveReject, ReceiveError, FailPending
  <2>3. CASE ReceiveReject(n)
    <3>1. PICK source : source = Head(inbox[n]).from
      OBVIOUS
    <3>2. source \in Nodes
      BY <1>1, <2>3, <3>1, HeadTyped DEF ReceiveReject
    <3>3. peers' = Popped(n, source) /\ conns' = Closing({peers[n][source]})
      BY <2>3, <3>1 DEF ReceiveReject
    <3>4. {peers[n][t] : t \in {source}} = {peers[n][source]}
      OBVIOUS
    <3>5. peers' = [peers EXCEPT ![n] = [t \in Nodes |-> IF t \in {source} THEN NoConn ELSE @[t]]]
      BY <1>1, <3>2, <3>3 DEF Popped
    <3>6. Aside(n)
      BY <1>1, <2>1, <2>2, <3>3 DEF Aside, Popped
    <3>7. conns' = Closing({peers[n][t] : t \in {source}}) /\ {source} \in SUBSET Nodes
      BY <3>2, <3>3, <3>4
    <3>8. QED
      BY <2>1, <3>5, <3>6, <3>7, ListenerDrops
  <2>4. CASE ReceiveError(n)
    <3>1. pending[n] \in SUBSET Nodes
      BY <1>1 DEF OtherTypes
    <3>2. /\ peers' = [peers EXCEPT ![n] =
                        [t \in Nodes |-> IF t \in pending[n] THEN NoConn ELSE @[t]]]
          /\ conns' = Closing({peers[n][t] : t \in pending[n]})
      BY <2>4 DEF ReceiveError
    <3>3. Aside(n)
      BY <1>1, <2>1, <2>2, <3>2 DEF Aside
    <3>4. QED
      BY <2>1, <3>1, <3>2, <3>3, ListenerDrops
  <2>5. QED
    BY <1>8, <2>3, <2>4
<1>9. CASE HandleDisconnect(n) \/ AnswerUnsent(n) \/ RejectUnsent(n)
  <2>1. Disconnected(n) /\ UNCHANGED <<caller, target, mine, before>>
    BY <1>9 DEF HandleDisconnect, AnswerUnsent, RejectUnsent
  <2>2. listener'[n] = "receiving" /\ Aside(n) /\ UNCHANGED peers
    BY <1>2, <2>1 DEF Disconnected, FailPending, Aside
  <2>3. CASE AnswerUnsent(n)
    BY <2>2, <2>3, AnswerMade DEF AnswerUnsent
  <2>4. CASE HandleDisconnect(n) \/ RejectUnsent(n)
    <3>1. UNCHANGED conns
      BY <2>4 DEF HandleDisconnect, RejectUnsent
    <3>2. QED
      BY <2>2, <3>1, ListenerReturns
  <2>5. QED
    BY <1>9, <2>3, <2>4
<1>10. QED
  BY <1>3, <1>4, <1>5, <1>6, <1>7, <1>8, <1>9 DEF ListenerStep

-----------------------------------------------------------------------------
(***************************************************************************)
(* Connections that come up, fail and close, and faults.                   *)
(***************************************************************************)
\* No connection opens again, or is closed by anything but pc.close().
LEMMA LivesMove ==
  ASSUME CInv, Grown, RemotesKept,
         \A k \in DOMAIN conns :
           \/ conns'[k].life = conns[k].life
           \/ conns[k].life = "open" /\ conns'[k].life = "failed"
           \/ conns[k].life = "closing" /\ conns'[k].life = "closed",
         UNCHANGED <<peers, caller, target, mine, before, listener, offer, future>>
  PROVE  Kept
<1>1. IndexTypes'
  <2>1. /\ mine \in [Nodes -> 0 .. Len(conns)] /\ before \in [Nodes -> 0 .. Len(conns)]
        /\ peers \in [Nodes -> [Nodes -> 0 .. Len(conns)]] /\ Len(conns) \in Nat /\ IndexTypes
    BY TypeParts, ConnTyped DEF CInv, IndexTypes
  <2>2. /\ mine' \in [Nodes -> Nat] /\ before' \in [Nodes -> Nat]
        /\ peers' \in [Nodes -> [Nodes -> Nat]]
    BY <2>1
  <2>3. QED
    BY <2>1, <2>2, IndexKept
<1>2. ASSUME NEW m \in Nodes
      PROVE  NodeInv(m)'
  <2>1. /\ NodeInv(m) /\ target[m] \in Nodes /\ offer[m].from \in Nodes
        /\ \A s \in Nodes : peers[m][s] # NoConn => Own(m, s, peers[m][s])
        /\ Dropping \subseteq Holding /\ Using \subseteq Holding
        /\ {"offering", "waiting"} \subseteq Holding
    BY Facts
  <2>2. \A l \in DOMAIN conns :
          /\ l \in DOMAIN conns' /\ conns'[l].owner = conns[l].owner
          /\ conns'[l].with = conns[l].with /\ conns'[l].initiator = conns[l].initiator
          /\ conns'[l].remote = conns[l].remote
    BY DEF Grown, RemotesKept
  <2>3. caller[m] \in Holding => Own(m, target[m], mine[m])
    BY <2>1 DEF NodeInv, Held
  <2>4. Held(m)'
    BY <2>1, <2>2 DEF NodeInv, Held, Own
  <2>5. Clean(m)'
    BY <2>1 DEF NodeInv, Clean, Own
  <2>6. Dropped(m)'
    BY <2>1, <2>3 DEF NodeInv, Dropped, Own
  <2>7. Unanswered(m)'
    BY <2>1, <2>2, <2>3 DEF NodeInv, Unanswered, Own
  <2>8. Responding(m)'
    BY <2>1, <2>2 DEF NodeInv, Responding, Held, Own, Replying
  <2>9. Used(m)'
    BY <2>1, <2>2, <2>3 DEF NodeInv, Used, Own
  <2>10. Window(m)'
    BY <2>1, <2>2 DEF NodeInv, Window, Own
  <2>11. QED
    BY <2>4, <2>5, <2>6, <2>7, <2>8, <2>9, <2>10 DEF NodeInv
<1>3. QED
  BY <1>1, <1>2 DEF Kept

LEMMA ConnSteps ==
  ASSUME CInv, NEW k \in DOMAIN conns, ConnStep(k)
  PROVE  Kept
<1>1. TypeOK
  BY DEF CInv
<1>2. UNCHANGED <<peers, caller, target, mine, before, listener, offer, future>>
  BY DEF ConnStep, BecomeReady, Fail, CloseDone, ConnOnly, callerVars, listenerVars, signalVars
<1>3. CASE BecomeReady(k)
  BY <1>1, <1>2, <1>3, ReadySet, LivesMove DEF BecomeReady, LivesKept
<1>4. CASE Fail(k)
  <2>1. /\ Grown /\ RemotesKept /\ conns'[k].life = "failed"
        /\ \A j \in DOMAIN conns : j # k => conns'[j].life = conns[j].life
    BY <1>1, <1>4, StateSet DEF Fail, Lives
  <2>2. QED
    BY <1>2, <1>4, <2>1, LivesMove DEF Fail
<1>5. CASE CloseDone(k)
  <2>1. /\ Grown /\ RemotesKept /\ conns'[k].life = "closed"
        /\ \A j \in DOMAIN conns : j # k => conns'[j].life = conns[j].life
    BY <1>1, <1>5, StateSet DEF CloseDone, Lives
  <2>2. QED
    BY <1>2, <1>5, <2>1, LivesMove DEF CloseDone
<1>6. QED
  BY <1>3, <1>4, <1>5 DEF ConnStep

LEMMA CrashStep ==
  ASSUME CInv, NEW n \in Nodes, Crash(n)
  PROVE  Kept
<1>1. /\ TypeOK /\ Grown /\ RemotesKept
      /\ \A k \in DOMAIN conns : conns[k].owner # n => conns'[k].life = conns[k].life
  BY CrashCloses DEF CInv
<1>2. /\ peers \in [Nodes -> [Nodes -> Nat]] /\ mine \in [Nodes -> Nat]
      /\ before \in [Nodes -> 0 .. Len(conns)] /\ Len(conns) \in Nat /\ IndexTypes
      /\ OtherTypes
  BY Facts DEF IndexTypes
<1>3. /\ caller'[n] = "idle" /\ listener'[n] = "receiving"
      /\ \A t \in Nodes : peers'[n][t] = NoConn
      /\ \A m \in Nodes : m # n =>
           /\ caller'[m] = caller[m] /\ listener'[m] = listener[m]
           /\ peers'[m] = peers[m] /\ future'[m] = future[m]
      /\ UNCHANGED <<target, mine, before, offer>>
      /\ peers' \in [Nodes -> [Nodes -> Nat]] /\ before' \in [Nodes -> Nat]
  <2>1. /\ caller \in [Nodes -> CallerPCs] /\ listener \in [Nodes -> ListenerPCs]
        /\ future \in [Nodes -> Futures]
    BY <1>2 DEF OtherTypes
  <2>2. before \in [Nodes -> Nat]
    BY <1>2
  <2>3. QED
    BY <1>2, <2>1, <2>2 DEF Crash, NoConn
<1>4. IndexTypes'
  <2>1. \A m, t \in Nodes : peers'[m][t] \in {peers[m][t], NoConn}
    BY <1>3
  <2>2. QED
    BY <1>1, <1>2, <1>3, <2>1, IndexKept
<1>5. NodeInv(n)'
  BY <1>3 DEF NodeInv, Held, Clean, Dropped, Unanswered, Responding, Used, Window,
              Holding, Dropping, Using, Replying, CallerPCs
<1>6. \A m \in Nodes : m # n => Same(m)
  BY <1>1, <1>3 DEF Same, RemotesKept
<1>7. QED
  BY <1>1, <1>4, <1>5, <1>6, OthersKept DEF Kept

LEMMA InvStep ==
  ASSUME CInv, [Next]_vars
  PROVE  CInv'
<1>1. OtherTypes'
  BY OtherTypesStep DEF CInv
<1>2. ASSUME NEW n \in Nodes, CallerStep(n)
      PROVE  Kept
  BY <1>2, CallingSteps, HoldingSteps, QuietCallerSteps, AnswerSet DEF CallerStep
<1>3. ASSUME \/ \E n \in Nodes : LoseHub(n) \/ Unregister(n)
             \/ HubRestarts \/ Quiet \/ UNCHANGED vars
      PROVE  Kept
  <2>1. UNCHANGED <<conns, peers, caller, target, mine, before, listener, offer, future>>
    BY <1>3 DEF LoseHub, Unregister, HubRestarts, Quiet, vars, callerVars, listenerVars, signalVars
  <2>2. Grown /\ LivesKept /\ RemotesKept
    BY <2>1, Untouched DEF CInv
  <2>3. QED
    BY <2>1, <2>2, LivesMove DEF LivesKept
<1>4. Kept
  BY <1>2, <1>3, ListenerSteps, ConnSteps, CrashStep DEF Next
<1>5. TypeOK'
  BY <1>1, <1>4 DEF Kept, TypeOK, IndexTypes, OtherTypes
<1>6. QED
  BY <1>4, <1>5 DEF CInv, Kept

LEMMA InvInit ==
  Init => CInv
<1> SUFFICES ASSUME Init PROVE CInv
  OBVIOUS
<1>1. Len(conns) = 0 /\ conns \in Seq(Conn)
  BY EmptySeq, LenProperties DEF Init
<1>2. IndexTypes
  BY <1>1 DEF Init, IndexTypes, NoConn
<1>3. OtherTypes
  <2>1. Future("none") \in Futures /\ <<>> \in Seq(Message)
    BY EmptySeq DEF Future, Futures
  <2>2. QED
    BY <2>1, NegotiationAssumption
       DEF Init, OtherTypes, CallerPCs, ListenerPCs, NoConn, NegotiationAssumption
<1>4. ASSUME NEW n \in Nodes
      PROVE  NodeInv(n)
  <2>1. /\ caller[n] = "idle" /\ listener[n] = "receiving"
        /\ \A t \in Nodes : peers[n][t] = NoConn
    BY DEF Init
  <2>2. QED
    BY <2>1 DEF NodeInv, Held, Clean, Dropped, Unanswered, Responding, Used, Window,
                Holding, Dropping, Using, Replying, CallerPCs
<1>5. QED
  BY <1>2, <1>3, <1>4, TypeParts DEF CInv

\* Types hold, and a cached connection is one the client has made, with the peer
\* it is cached under.
THEOREM TypeCorrect ==
  Spec => []TypeOK
<1>1. CInv => TypeOK
  BY DEF CInv
<1>2. QED
  BY <1>1, InvInit, InvStep, PTL DEF Spec

\* Client.peers offers no connection that the client has closed, but while the
\* caller that closed it is about to pop it.
THEOREM CacheServesOpen ==
  Spec => []CacheNotClosed
<1>1. CInv => CacheNotClosed
  <2> SUFFICES ASSUME CInv PROVE CacheNotClosed
    OBVIOUS
  <2>1. alive \subseteq Nodes /\ \A n \in Nodes : Clean(n)
    BY Facts DEF CInv, NodeInv, TypeOK
  <2>2. QED
    BY <2>1 DEF CacheNotClosed, Clean, Dropping
<1>2. QED
  BY <1>1, InvInit, InvStep, PTL DEF Spec

\* What a client knows of and is live is what it has cached for that peer ...
LEMMA LiveIsCached ==
  ASSUME CInv, NEW k \in DOMAIN conns, Live(k), Known(k)
  PROVE  /\ conns[k].owner \in Nodes /\ conns[k].with \in Nodes
         /\ peers[conns[k].owner][conns[k].with] = k
<1> DEFINE n == conns[k].owner
           t == conns[k].with
<1>1. n \in Nodes /\ t \in Nodes
  BY ConnTyped DEF CInv, Conn
<1>2. NodeInv(n)
  BY <1>1 DEF CInv
<1>3. ASSUME caller[n] \in Holding, mine[n] = k
      PROVE  peers[n][t] = k
  <2>1. target[n] = t
    BY <1>2, <1>3 DEF NodeInv, Held, Own
  <2>2. caller[n] \notin Dropping /\ caller[n] \notin {"offering", "waiting"}
    BY <1>2, <1>3 DEF NodeInv, Dropped, Unanswered, Live
  <2>3. caller[n] \in Using
    BY <1>3, <2>2 DEF Using, Dropping, Holding, CallerPCs
  <2>4. QED
    BY <1>2, <1>3, <2>1, <2>3 DEF NodeInv, Used, Live
<1>4. QED
  BY <1>1, <1>3 DEF Known

\* ... so that, however two clients call each other, each has at most one live
\* connection with the other that it can still reach.
THEOREM OneLiveLink ==
  Spec => []OneLink
<1>1. CInv => OneLink
  BY LiveIsCached DEF OneLink
<1>2. QED
  BY <1>1, InvInit, InvStep, PTL DEF Spec

-----------------------------------------------------------------------------
(***************************************************************************)
(* Which answer reaches which offer, while nobody has left the hub.        *)
(***************************************************************************)
\* A connection that was made for an offer, which has been answered with it.
Given(k) == k \in DOMAIN conns /\ ~conns[k].initiator /\ conns[k].remote # NoConn

GivenKept ==
  /\ DOMAIN conns \subseteq DOMAIN conns'
  /\ \A k \in DOMAIN conns : conns'[k].initiator = conns[k].initiator
  /\ \A k \in DOMAIN conns : Given(k) => conns'[k].remote = conns[k].remote

LEMMA KeepsGiven ==
  ASSUME Grown, RemotesKept
  PROVE  GivenKept
BY DEF Grown, RemotesKept, GivenKept

\* What an answer was made with, no step sets again.
LEMMA GivenStays ==
  ASSUME CInv, [Next]_vars
  PROVE  GivenKept
<1>1. TypeOK
  BY DEF CInv
<1> USE DEF At, Waiting, HandlingOn, Handling, Receiving, callerVars
<1>2. ASSUME UNCHANGED conns
      PROVE  GivenKept
  BY <1>1, <1>2, Untouched, KeepsGiven
<1>3. ASSUME NEW ks, conns' = Closing(ks)
      PROVE  GivenKept
  BY <1>1, <1>3, ClosingKeeps, KeepsGiven
<1>4. ASSUME NEW n \in Nodes, NEW t \in Nodes, NEW b \in BOOLEAN,
             conns' = Append(conns, NewConn(n, t, b))
      PROVE  GivenKept
  BY <1>1, <1>4, MadeNext, KeepsGiven DEF MadeAs
<1>5. ASSUME NEW n \in Nodes, NEW t \in Nodes, Start(n, t)
      PROVE  GivenKept
  BY <1>2, <1>4, <1>5 DEF Start, Request
<1>6. ASSUME NEW n \in Nodes, CallerStep(n)
      PROVE  GivenKept
  <2>1. target[n] \in Nodes
    BY Facts
  <2>2. ASSUME NEW t \in Nodes, CallFresh(n, t) \/ CallExisting(n, t) \/ CallStale(n, t)
        PROVE  GivenKept
    BY <1>2, <1>3, <1>5, <2>2 DEF CallFresh, CallExisting, CallStale
  <2>3. CASE Rebuild(n) \/ Registered(n)
    BY <1>2, <1>4, <1>5, <2>1, <2>3 DEF Rebuild, Registered, Request
  <2>4. CASE JoinTimeout(n) \/ OfferFailed(n) \/ HangUp(n)
    BY <1>3, <2>4 DEF JoinTimeout, OfferFailed, HangUp
  <2>5. CASE SetAnswer(n)
    <3>1. /\ Own(n, target[n], mine[n]) /\ conns[mine[n]].initiator
          /\ future[n] \in Futures /\ future[n].is = "answered"
      BY <2>5, Facts DEF SetAnswer, NodeInv, Held, Unanswered, OtherTypes
    <3>2. future[n].by \in Nat
      BY <3>1 DEF Futures
    <3>3. QED
      BY <1>1, <2>5, <3>1, <3>2, RemoteSet DEF SetAnswer, Own, Given, GivenKept, Grown
  <2>6. CASE \/ JoinExisting(n) \/ Register(n) \/ RegisterFails(n) \/ SendOffer(n)
             \/ OfferUnsent(n) \/ OfferRaises(n) \/ AnswerRaises(n) \/ GiveUp(n)
             \/ FindPeer(n) \/ PollTimeout(n) \/ Connected(n) \/ ConnectTimeout(n)
             \/ KeepConnection(n) \/ HungUp(n)
    BY <1>2, <2>6 DEF JoinExisting, Register, RegisterFails, SendOffer, OfferUnsent,
         OfferRaises, AnswerRaises, GiveUp, FindPeer, PollTimeout, Connected,
         ConnectTimeout, KeepConnection, HungUp
  <2>7. QED
    BY <1>6, <2>2, <2>3, <2>4, <2>5, <2>6 DEF CallerStep
<1>7. ASSUME NEW n \in Nodes, ListenerStep(n)
      PROVE  GivenKept
  <2>1. OtherTypes /\ offer[n].from \in Nodes /\ NodeInv(n)
    BY Facts
  <2>2. CASE ReceiveOffer(n)
    <3>1. Head(inbox[n]).from \in Nodes
      BY <2>1, <2>2, HeadTyped DEF ReceiveOffer
    <3>2. QED
      BY <1>3, <1>4, <2>2, <3>1 DEF ReceiveOffer, Respond
  <2>3. CASE Replace(n)
    BY <1>4, <2>1, <2>3 DEF Replace, Respond
  <2>4. CASE SendAnswer(n) \/ AnswerUnsent(n)
    <3>1. /\ conns' = [conns EXCEPT ![offer[n].pc].remote = offer[n].conn]
          /\ listener[n] = "answering" /\ offer[n].conn \in Nat
          /\ offer[n].pc \in DOMAIN conns /\ conns[offer[n].pc].remote = NoConn
      BY <2>1, <2>4
         DEF SendAnswer, AnswerUnsent, NodeInv, Held, Own, Responding, Replying, OtherTypes
    <3>2. QED
      BY <1>1, <3>1, RemoteSet DEF Given, GivenKept, Grown
  <2>5. CASE OfferUnusable(n) \/ ReceiveReject(n) \/ ReceiveError(n)
    BY <1>3, <2>5 DEF OfferUnusable, ReceiveReject, ReceiveError
  <2>6. CASE SendReject(n) \/ ReceiveAnswer(n) \/ HandleDisconnect(n) \/ RejectUnsent(n)
    BY <1>2, <2>6 DEF SendReject, ReceiveAnswer, HandleDisconnect, RejectUnsent
  <2>7. QED
    BY <1>7, <2>2, <2>3, <2>4, <2>5, <2>6 DEF ListenerStep
<1>8. ASSUME NEW k \in DOMAIN conns, ConnStep(k)
      PROVE  GivenKept
  <2>1. CASE BecomeReady(k)
    BY <1>1, <2>1, ReadySet, KeepsGiven DEF BecomeReady
  <2>2. CASE Fail(k)
    BY <1>1, <2>2, StateSet, KeepsGiven DEF Fail, Lives
  <2>3. CASE CloseDone(k)
    BY <1>1, <2>3, StateSet, KeepsGiven DEF CloseDone, Lives
  <2>4. QED
    BY <1>8, <2>1, <2>2, <2>3 DEF ConnStep
<1>9. ASSUME NEW n \in Nodes, Crash(n)
      PROVE  GivenKept
  BY <1>1, <1>9, CrashCloses, KeepsGiven
<1>10. ASSUME \/ \E n \in Nodes : LoseHub(n) \/ Unregister(n)
              \/ HubRestarts \/ Quiet \/ UNCHANGED vars
       PROVE  GivenKept
  BY <1>2, <1>10 DEF LoseHub, Unregister, HubRestarts, Quiet, vars
<1>11. QED
  BY <1>6, <1>7, <1>8, <1>9, <1>10 DEF Next

\* One exchange of an offer and a reply, from n to t and back: the offer is on
\* its way, or t handles it, or the reply is on its way.
Deaf(n) == n \notin alive \/ link[n] = "none"

Awaits(n, t, k) ==
  \/ Deaf(n)
  \/ caller[n] = "waiting" /\ target[n] = t /\ future[n].is = "waiting" /\ mine[n] = k

Offers(n, t, i) ==
  i \in DOMAIN inbox[t] /\ inbox[t][i].type = "offer" /\ inbox[t][i].from = n

Handles(n, t) == listener[t] \in Replying /\ offer[t].from = n

Replies(n, t, i) ==
  i \in DOMAIN inbox[n] /\ inbox[n][i].type \in {"answer", "reject"} /\ inbox[n][i].from = t

\* There is one such exchange at a time ...
Single(n, t) ==
  /\ \A i, j \in Nat : Offers(n, t, i) /\ Offers(n, t, j) => i = j
  /\ \A i, j \in Nat : Replies(n, t, i) /\ Replies(n, t, j) => i = j
  /\ \A i, j \in Nat : ~ (Offers(n, t, i) /\ Replies(n, t, j))
  /\ \A i \in Nat : Handles(n, t) => ~Offers(n, t, i) /\ ~Replies(n, t, i)

\* ... and it is about the connection that the caller waits with.
Awaited(n, t) ==
  /\ \A i \in Nat : Offers(n, t, i) =>
       inbox[t][i].conn # NoConn /\ Awaits(n, t, inbox[t][i].conn)
  /\ Handles(n, t) => offer[t].conn # NoConn /\ Awaits(n, t, offer[t].conn)
  /\ \A i \in Nat : Replies(n, t, i) =>
       \/ /\ inbox[n][i].type = "answer" /\ Given(inbox[n][i].conn)
          /\ Awaits(n, t, conns[inbox[n][i].conn].remote)
       \/ inbox[n][i].type = "reject" /\ Awaits(n, t, mine[n])

Pair(n, t) == Single(n, t) /\ Awaited(n, t)

Matched(n) ==
  /\ future[n].is # "none" => caller[n] = "waiting"
  /\ future[n].is = "answered" =>
       Given(future[n].by) /\ conns[future[n].by].remote = mine[n]
  /\ \A i \in DOMAIN inbox[n] : inbox[n][i].type # "error"

Calm ==
  /\ registered = Nodes
  /\ \A n \in Nodes : Matched(n)
  /\ \A n, t \in Nodes : Pair(n, t)

AInv == CInv /\ (gone = {} => Calm)

\* Each message in the queue of x was there before, d places further back.
Moved(x, d) ==
  \A i \in DOMAIN inbox'[x] :
    i + d \in DOMAIN inbox[x] /\ inbox'[x][i] = inbox[x][i + d]

LEMMA QueueFacts ==
  ASSUME CInv, NEW x \in Nodes
  PROVE  /\ inbox[x] \in Seq(Message) /\ Len(inbox[x]) \in Nat
         /\ DOMAIN inbox[x] = 1 .. Len(inbox[x])
<1>1. inbox[x] \in Seq(Message)
  BY Facts DEF OtherTypes
<1>2. QED
  BY <1>1, LenProperties

LEMMA Taken ==
  ASSUME CInv, NEW n \in Nodes, inbox[n] # <<>>, inbox' = [inbox EXCEPT ![n] = Tail(@)]
  PROVE  /\ Moved(n, 1) /\ \A x \in Nodes : x # n => Moved(x, 0)
         /\ DOMAIN inbox'[n] \subseteq Nat \ {0}
         /\ 1 \in DOMAIN inbox[n] /\ inbox[n][1] = Head(inbox[n])
<1>1. \A x \in Nodes : inbox[x] \in Seq(Message) /\ Len(inbox[x]) \in Nat
                       /\ DOMAIN inbox[x] = 1 .. Len(inbox[x])
  BY QueueFacts
<1>2. /\ Tail(inbox[n]) \in Seq(Message) /\ Len(Tail(inbox[n])) = Len(inbox[n]) - 1
      /\ \A i \in 1 .. Len(Tail(inbox[n])) : Tail(inbox[n])[i] = inbox[n][i + 1]
      /\ Len(inbox[n]) > 0 /\ Head(inbox[n]) = inbox[n][1]
  BY <1>1, HeadTailProperties, EmptySeq
<1>3. DOMAIN Tail(inbox[n]) = 1 .. (Len(inbox[n]) - 1)
  BY <1>2, LenProperties
<1>4. inbox'[n] = Tail(inbox[n]) /\ \A x \in Nodes : x # n => inbox'[x] = inbox[x]
  <2>1. inbox \in [Nodes -> Seq(Message)]
    BY Facts DEF OtherTypes
  <2>2. QED
    BY <2>1
<1>5. Moved(n, 1)
  <2> SUFFICES ASSUME NEW i \in DOMAIN inbox'[n]
               PROVE  i + 1 \in DOMAIN inbox[n] /\ inbox'[n][i] = inbox[n][i + 1]
    BY DEF Moved
  <2>1. i \in 1 .. Len(Tail(inbox[n])) /\ i \in 1 .. (Len(inbox[n]) - 1)
    BY <1>2, <1>3, <1>4
  <2>2. inbox'[n][i] = inbox[n][i + 1]
    BY <1>2, <1>4, <2>1
  <2>3. QED
    BY <1>1, <2>1, <2>2
<1>6. \A x \in Nodes : x # n => Moved(x, 0)
  BY <1>1, <1>4 DEF Moved
<1>7. QED
  BY <1>1, <1>2, <1>3, <1>4, <1>5, <1>6

LEMMA Joined ==
  ASSUME CInv, NEW t \in Nodes, NEW m \in Message, inbox' = Delivered(t, m)
  PROVE  /\ \A x \in Nodes : x # t => inbox'[x] = inbox[x]
         /\ \A i \in DOMAIN inbox'[t] :
              \/ i \in DOMAIN inbox[t] /\ inbox'[t][i] = inbox[t][i]
              \/ i = Len(inbox[t]) + 1 /\ inbox'[t][i] = m
         /\ DOMAIN inbox'[t] \subseteq Nat
         /\ Len(inbox[t]) + 1 \notin DOMAIN inbox[t]
<1>1. inbox \in [Nodes -> Seq(Message)] /\ inbox[t] \in Seq(Message)
      /\ Len(inbox[t]) \in Nat /\ DOMAIN inbox[t] = 1 .. Len(inbox[t])
  BY QueueFacts, Facts DEF OtherTypes
<1>2. CASE t \in alive /\ link[t] = "up"
  <2>1. inbox'[t] = Append(inbox[t], m) /\ \A x \in Nodes : x # t => inbox'[x] = inbox[x]
    BY <1>1, <1>2 DEF Delivered
  <2>2. /\ Append(inbox[t], m) \in Seq(Message)
        /\ Len(Append(inbox[t], m)) = Len(inbox[t]) + 1
        /\ \A i \in 1 .. Len(inbox[t]) : Append(inbox[t], m)[i] = inbox[t][i]
        /\ Append(inbox[t], m)[Len(inbox[t]) + 1] = m
    BY <1>1, AppendProperties
  <2>3. DOMAIN Append(inbox[t], m) = 1 .. (Len(inbox[t]) + 1)
    BY <2>2, LenProperties
  <2>4. QED
    BY <1>1, <2>1, <2>2, <2>3
<1>3. CASE ~(t \in alive /\ link[t] = "up")
  BY <1>1, <1>3 DEF Delivered
<1>4. QED
  BY <1>2, <1>3

\* What n waits for, if it hears at all, is what it waited for.
Steady(n) ==
  /\ Deaf(n) => Deaf(n)'
  /\ Deaf(n)' \/ ~ (caller[n] = "waiting" /\ future[n].is = "waiting")
     \/ /\ caller'[n] = caller[n] /\ target'[n] = target[n] /\ mine'[n] = mine[n]
        /\ future'[n] = future[n]

LEMMA SteadyAwaits ==
  ASSUME NEW n, NEW t, NEW k, Steady(n), Awaits(n, t, k)
  PROVE  Awaits(n, t, k)'
BY DEF Steady, Awaits

\* Each offer, and each reply, was there before, some places further back.
OffersStay(n, t) ==
  \E d \in Nat : \A i \in Nat : Offers(n, t, i)' =>
    Offers(n, t, i + d) /\ inbox'[t][i].conn = inbox[t][i + d].conn

RepliesStay(n, t) ==
  \E d \in Nat : \A i \in Nat : Replies(n, t, i)' =>
    Replies(n, t, i + d) /\ inbox'[n][i] = inbox[n][i + d]

LEMMA MovedStay ==
  ASSUME NEW n, NEW t, NEW d \in Nat, Moved(n, d), NEW e \in Nat, Moved(t, e)
  PROVE  OffersStay(n, t) /\ RepliesStay(n, t)
<1>1. \A i \in Nat : Offers(n, t, i)' =>
        Offers(n, t, i + e) /\ inbox'[t][i].conn = inbox[t][i + e].conn
  BY DEF Offers, Moved
<1>2. \A i \in Nat : Replies(n, t, i)' =>
        Replies(n, t, i + d) /\ inbox'[n][i] = inbox[n][i + d]
  BY DEF Replies, Moved
<1>3. OffersStay(n, t)
  BY <1>1 DEF OffersStay
<1>4. RepliesStay(n, t)
  BY <1>2 DEF RepliesStay
<1>5. QED
  BY <1>3, <1>4

\* A message that joins a queue is the only new one.
LEMMA JoinedStay ==
  ASSUME CInv, NEW x \in Nodes, NEW m \in Message, inbox' = Delivered(x, m),
         NEW n \in Nodes, NEW t \in Nodes
  PROVE  /\ ~ (x = t /\ m.type = "offer" /\ m.from = n) => OffersStay(n, t)
         /\ ~ (x = n /\ m.type \in {"answer", "reject"} /\ m.from = t) => RepliesStay(n, t)
<1>1. /\ \A y \in Nodes : y # x => inbox'[y] = inbox[y]
      /\ \A i \in DOMAIN inbox'[x] : \/ i \in DOMAIN inbox[x] /\ inbox'[x][i] = inbox[x][i]
                                     \/ inbox'[x][i] = m
  BY Joined
<1>2. ASSUME ~ (x = t /\ m.type = "offer" /\ m.from = n)
      PROVE  OffersStay(n, t)
  <2>1. \A i \in Nat : Offers(n, t, i)' =>
          Offers(n, t, i + 0) /\ inbox'[t][i].conn = inbox[t][i + 0].conn
    BY <1>1, <1>2 DEF Offers
  <2>2. QED
    BY <2>1 DEF OffersStay
<1>3. ASSUME ~ (x = n /\ m.type \in {"answer", "reject"} /\ m.from = t)
      PROVE  RepliesStay(n, t)
  <2>1. \A i \in Nat : Replies(n, t, i)' =>
          Replies(n, t, i + 0) /\ inbox'[n][i] = inbox[n][i + 0]
    BY <1>1, <1>3 DEF Replies
  <2>2. QED
    BY <2>1 DEF RepliesStay
<1>4. QED
  BY <1>2, <1>3

\* The exchange stays where it is, or is over.
LEMMA PairKept ==
  ASSUME NEW n \in Nodes, NEW t \in Nodes, Pair(n, t), GivenKept, Steady(n),
         OffersStay(n, t), RepliesStay(n, t),
         Handles(n, t)' => Handles(n, t) /\ offer'[t].conn = offer[t].conn
  PROVE  Pair(n, t)'
<1>1. PICK e \in Nat : \A i \in Nat : Offers(n, t, i)' =>
        Offers(n, t, i + e) /\ inbox'[t][i].conn = inbox[t][i + e].conn
  BY DEF OffersStay
<1>2. PICK d \in Nat : \A i \in Nat : Replies(n, t, i)' =>
        Replies(n, t, i + d) /\ inbox'[n][i] = inbox[n][i + d]
  BY DEF RepliesStay
<1>3. Single(n, t)'
  BY <1>1, <1>2 DEF Pair, Single
<1>4. Awaited(n, t)'
  <2>1. ASSUME NEW i \in Nat, Offers(n, t, i)'
        PROVE  inbox'[t][i].conn # NoConn /\ Awaits(n, t, inbox[t][i].conn)'
    <3>1. PICK k : k = inbox'[t][i].conn
      OBVIOUS
    <3>2. k # NoConn /\ Awaits(n, t, k)
      BY <1>1, <2>1, <3>1 DEF Pair, Awaited
    <3>3. Awaits(n, t, k)'
      BY <3>2, SteadyAwaits
    <3>4. QED
      BY <3>1, <3>2, <3>3
  <2>2. ASSUME Handles(n, t)'
        PROVE  offer'[t].conn # NoConn /\ Awaits(n, t, offer[t].conn)'
    <3>1. PICK k : k = offer'[t].conn
      OBVIOUS
    <3>2. k # NoConn /\ Awaits(n, t, k)
      BY <2>2, <3>1 DEF Pair, Awaited
    <3>3. Awaits(n, t, k)'
      BY <3>2, SteadyAwaits
    <3>4. QED
      BY <3>1, <3>2, <3>3
  <2>3. ASSUME NEW i \in Nat, Replies(n, t, i)'
        PROVE  \/ /\ inbox'[n][i].type = "answer" /\ Given(inbox[n][i].conn)'
                  /\ Awaits(n, t, conns[inbox[n][i].conn].remote)'
               \/ inbox'[n][i].type = "reject" /\ Awaits(n, t, mine[n])'
    <3>1. Replies(n, t, i + d) /\ inbox'[n][i] = inbox[n][i + d] /\ i + d \in Nat
      BY <1>2, <2>3
    <3>2. CASE /\ inbox[n][i + d].type = "answer" /\ Given(inbox[n][i + d].conn)
               /\ Awaits(n, t, conns[inbox[n][i + d].conn].remote)
      <4>1. PICK k : k = conns[inbox[n][i + d].conn].remote
        OBVIOUS
      <4>2. /\ conns'[inbox'[n][i].conn].remote = k /\ Given(inbox[n][i].conn)'
        BY <3>1, <3>2, <4>1 DEF Given, GivenKept
      <4>3. Awaits(n, t, k)'
        BY <3>2, <4>1, SteadyAwaits
      <4>4. QED
        BY <3>1, <3>2, <4>2, <4>3
    <3>3. CASE inbox[n][i + d].type = "reject" /\ Awaits(n, t, mine[n])
      <4>1. Awaits(n, t, mine[n])'
        BY <3>3 DEF Steady, Awaits
      <4>2. QED
        BY <3>1, <3>3, <4>1
    <3>4. QED
      BY <3>1, <3>2, <3>3 DEF Pair, Awaited
  <2>4. QED
    BY <2>1, <2>2, <2>3 DEF Awaited
<1>5. QED
  BY <1>3, <1>4 DEF Pair

\* There is none.
Idle(n, t) ==
  /\ \A i \in Nat : ~Offers(n, t, i) /\ ~Replies(n, t, i)
  /\ ~Handles(n, t)

LEMMA IdlePair ==
  ASSUME NEW n, NEW t
  PROVE  /\ Idle(n, t) => Pair(n, t)
         /\ Idle(n, t)' => Pair(n, t)'
BY DEF Idle, Pair, Single, Awaited

\* Who hears and does not wait has no exchange with anybody.
LEMMA NotWaiting ==
  ASSUME Calm, NEW n \in Nodes, NEW t \in Nodes, ~Deaf(n),
         ~ (caller[n] = "waiting" /\ target[n] = t /\ future[n].is = "waiting")
  PROVE  Idle(n, t)
BY DEF Calm, Pair, Awaited, Idle, Awaits

LEMMA NotMoved ==
  ASSUME CInv, NEW x \in Nodes, inbox'[x] = inbox[x] \/ inbox'[x] = <<>>
  PROVE  Moved(x, 0)
BY QueueFacts DEF Moved

LEMMA MatchedKept ==
  ASSUME CInv, GivenKept, NEW x \in Nodes, Matched(x), NEW d \in Nat, Moved(x, d),
         \/ caller'[x] = caller[x] /\ mine'[x] = mine[x] /\ future'[x] = future[x]
         \/ future'[x].is = "none"
         \/ caller'[x] = caller[x] /\ future[x].is = "waiting" /\ future'[x].is = "failed"
  PROVE  Matched(x)'
<1>1. \A i \in DOMAIN inbox'[x] : inbox'[x][i].type # "error"
  BY DEF Matched, Moved
<1>2. CASE caller'[x] = caller[x] /\ mine'[x] = mine[x] /\ future'[x] = future[x]
  BY <1>1, <1>2 DEF Matched, Given, GivenKept
<1>3. CASE future'[x].is = "none"
  BY <1>1, <1>3 DEF Matched
<1>4. CASE caller'[x] = caller[x] /\ future[x].is = "waiting" /\ future'[x].is = "failed"
  BY <1>1, <1>4 DEF Matched
<1>5. QED
  BY <1>2, <1>3, <1>4

\* A step that brings no message and starts on no offer.
LEMMA CalmKept ==
  ASSUME CInv, Calm, GivenKept, registered' = registered,
         \A x \in Nodes : Moved(x, 0) /\ Steady(x) /\ Matched(x)',
         \A n, t \in Nodes : Handles(n, t)' => Handles(n, t) /\ offer'[t].conn = offer[t].conn
  PROVE  Calm'
<1>1. ASSUME NEW n \in Nodes, NEW t \in Nodes
      PROVE  Pair(n, t)'
  <2>1. Pair(n, t)
    BY DEF Calm
  <2>2. 0 \in Nat
    OBVIOUS
  <2>3. OffersStay(n, t) /\ RepliesStay(n, t)
    BY <2>2, MovedStay
  <2>4. QED
    BY <2>1, <2>3, PairKept
<1>2. QED
  BY <1>1 DEF Calm

\* The caller moves without a message: it does not wait for an answer any more.
LEMMA CallerCalm ==
  ASSUME CInv, Calm, GivenKept, NEW n \in Nodes,
         ~ (caller[n] = "waiting" /\ future[n].is = "waiting"), future'[n].is = "none",
         \A x \in Nodes : x # n => /\ caller'[x] = caller[x] /\ target'[x] = target[x]
                                   /\ mine'[x] = mine[x] /\ future'[x] = future[x],
         UNCHANGED <<listener, offer, inbox, link, alive, registered>>
  PROVE  Calm'
<1>1. \A x \in Nodes : Moved(x, 0)
  BY NotMoved
<1>2. \A x \in Nodes : Steady(x)
  BY DEF Steady, Deaf
<1>3. \A x \in Nodes : Matched(x)'
  BY <1>1, MatchedKept DEF Calm
<1>4. \A x, t \in Nodes : Handles(x, t)' => Handles(x, t) /\ offer'[t].conn = offer[t].conn
  BY DEF Handles
<1>5. QED
  BY <1>1, <1>2, <1>3, <1>4, CalmKept

LEMMA CallerCalmSteps ==
  ASSUME CInv, Calm, GivenKept, NEW n \in Nodes, CallerStep(n), ~SendOffer(n)
  PROVE  Calm'
<1> USE DEF At, Waiting, Calling, listenerVars, signalVars, hubVars, worldVars
<1>1. /\ caller \in [Nodes -> CallerPCs] /\ target \in [Nodes -> Nodes]
      /\ mine \in [Nodes -> Nat] /\ future \in [Nodes -> Futures]
      /\ registered = Nodes /\ Matched(n)
  BY Facts DEF OtherTypes, Calm
<1>2. ~Register(n)
  BY <1>1 DEF Register
<1>3. /\ UNCHANGED <<listener, offer, inbox, alive, link, registered>>
      /\ \E w : Goes(n, w)
      /\ \E k : mine' = mine \/ mine' = [mine EXCEPT ![n] = k]
  <2>1. ASSUME NEW t \in Nodes, CallFresh(n, t) \/ CallExisting(n, t) \/ CallStale(n, t)
        PROVE  /\ UNCHANGED <<listener, offer, inbox, alive, link, registered>>
               /\ \E w : Goes(n, w)
               /\ \E k : mine' = mine \/ mine' = [mine EXCEPT ![n] = k]
    BY <2>1 DEF CallFresh, CallExisting, CallStale, Start, Request
  <2>2. CASE Rebuild(n) \/ Registered(n)
    BY <2>2 DEF Rebuild, Registered, Start, Request
  <2>3. CASE \/ JoinExisting(n) \/ JoinTimeout(n) \/ RegisterFails(n) \/ OfferUnsent(n)
             \/ OfferRaises(n) \/ SetAnswer(n) \/ AnswerRaises(n) \/ OfferFailed(n)
             \/ GiveUp(n) \/ FindPeer(n) \/ PollTimeout(n) \/ Connected(n)
             \/ ConnectTimeout(n) \/ KeepConnection(n) \/ HangUp(n) \/ HungUp(n)
    BY <2>3 DEF JoinExisting, JoinTimeout, RegisterFails, OfferUnsent, OfferRaises, SetAnswer,
         AnswerRaises, OfferFailed, GiveUp, FindPeer, PollTimeout, Connected,
         ConnectTimeout, KeepConnection, HangUp, HungUp
  <2>4. QED
    BY <1>2, <2>1, <2>2, <2>3 DEF CallerStep
<1>4. target' = target \/ \E t : target' = [target EXCEPT ![n] = t]
  BY <1>2 DEF CallerStep, CallFresh, CallExisting, CallStale, Rebuild, Registered, JoinExisting,
       JoinTimeout, RegisterFails, OfferUnsent, OfferRaises, SetAnswer, AnswerRaises, OfferFailed,
       GiveUp, FindPeer, PollTimeout, Connected, ConnectTimeout, KeepConnection, HangUp, HungUp
<1>5. \A x \in Nodes : x # n => /\ caller'[x] = caller[x] /\ target'[x] = target[x]
                                /\ mine'[x] = mine[x]
  BY <1>1, <1>3, <1>4 DEF Goes
<1>6. CASE SetAnswer(n) \/ AnswerRaises(n) \/ OfferFailed(n)
  <2>1. future' = [future EXCEPT ![n] = Future("none")] /\ future[n].is # "waiting"
    BY <1>6 DEF SetAnswer, AnswerRaises, OfferFailed
  <2>2. future'[n].is = "none" /\ \A x \in Nodes : x # n => future'[x] = future[x]
    BY <1>1, <2>1 DEF Future
  <2>3. QED
    BY <1>3, <1>5, <2>1, <2>2, CallerCalm
<1>7. CASE ~ (SetAnswer(n) \/ AnswerRaises(n) \/ OfferFailed(n))
  <2>1. caller[n] # "waiting" /\ future' = future
    BY <1>2, <1>7 DEF CallerStep, CallFresh, CallExisting, CallStale, Rebuild, Registered,
         JoinExisting, JoinTimeout, RegisterFails, OfferUnsent, OfferRaises, GiveUp, FindPeer,
         PollTimeout, Connected, ConnectTimeout, KeepConnection, HangUp, HungUp
  <2>2. future'[n].is = "none"
    BY <1>1, <2>1 DEF Matched
  <2>3. QED
    BY <1>3, <1>5, <2>1, <2>2, CallerCalm
<1>8. QED
  BY <1>6, <1>7

LEMMA ConnCalmSteps ==
  ASSUME CInv, Calm, GivenKept,
         \/ \E k \in DOMAIN conns : ConnStep(k)
         \/ \E n \in Nodes : LoseHub(n)
         \/ Quiet \/ UNCHANGED vars
  PROVE  Calm'
<1>1. UNCHANGED <<caller, target, mine, future, listener, offer, alive, registered>>
  BY DEF ConnStep, BecomeReady, Fail, CloseDone, ConnOnly, LoseHub, Quiet, vars,
         callerVars, listenerVars, signalVars, hubVars, worldVars
<1>2. inbox \in [Nodes -> Seq(Message)] /\ link \in [Nodes -> {"up", "broken", "none"}]
  BY TypeParts DEF CInv, OtherTypes
<1>3. \A x \in Nodes : /\ inbox'[x] = inbox[x] \/ inbox'[x] = <<>>
                       /\ link[x] = "none" => link'[x] = "none"
                       /\ link'[x] = "none" => link[x] = "none"
  <2>1. CASE UNCHANGED <<inbox, link>>
    BY <2>1
  <2>2. CASE \E n \in Nodes : LoseHub(n)
    <3>1. PICK n \in Nodes : /\ link' = [link EXCEPT ![n] = "broken"] /\ link[n] = "up"
                             /\ inbox' = inbox \/ inbox' = [inbox EXCEPT ![n] = <<>>]
      BY <2>2 DEF LoseHub
    <3>2. QED
      BY <1>2, <3>1
  <2>3. QED
    BY <2>1, <2>2 DEF ConnStep, BecomeReady, Fail, CloseDone, ConnOnly, Quiet, vars,
                      hubVars, worldVars
<1>4. \A x \in Nodes : Moved(x, 0)
  BY <1>3, NotMoved
<1>5. \A x \in Nodes : Steady(x)
  BY <1>1, <1>3 DEF Steady, Deaf
<1>6. \A x \in Nodes : Matched(x)'
  BY <1>1, <1>4, MatchedKept DEF Calm
<1>7. \A x, t \in Nodes : Handles(x, t)' => Handles(x, t) /\ offer'[t].conn = offer[t].conn
  BY <1>1 DEF Handles
<1>8. QED
  BY <1>1, <1>4, <1>5, <1>6, <1>7, CalmKept

\* An offer goes out, from a client that has no exchange with anybody.
LEMMA OfferCalm ==
  ASSUME CInv, Calm, GivenKept, NEW n \in Nodes, SendOffer(n)
  PROVE  Calm'
<1> USE DEF At, Waiting, listenerVars, hubVars
<1>1. /\ n \in alive /\ link[n] = "up" /\ caller[n] = "offering" /\ target[n] \in Nodes
      /\ registered' = registered /\ registered = Nodes
      /\ UNCHANGED <<target, mine, listener, offer, alive, link>>
      /\ caller' = [caller EXCEPT ![n] = "waiting"]
      /\ future' = [future EXCEPT ![n] = Future("waiting")]
  BY Facts DEF SendOffer, Goes, Calm
<1>2. PICK m \in Message : /\ m = [type |-> "offer", from |-> n, conn |-> mine[n]]
                           /\ inbox' = Delivered(target[n], m)
  <2>1. mine[n] \in Nat
    BY Facts
  <2>2. [type |-> "offer", from |-> n, conn |-> mine[n]] \in Message
    BY <2>1 DEF Message
  <2>3. QED
    BY <1>1, <2>2 DEF SendOffer, Signal
<1>3. /\ caller'[n] = "waiting" /\ future'[n].is = "waiting"
      /\ \A x \in Nodes : x # n => caller'[x] = caller[x] /\ future'[x] = future[x]
  <2>1. caller \in [Nodes -> CallerPCs] /\ future \in [Nodes -> Futures]
    BY Facts DEF OtherTypes
  <2>2. QED
    BY <1>1, <2>1 DEF Future
<1>4. mine[n] # NoConn
  BY <1>1, Facts DEF NodeInv, Held, Own, NoConn
<1>5. \A x \in Nodes : Steady(x)
  BY <1>1, <1>3 DEF Steady, Deaf
<1>6. \A x, t \in Nodes : Handles(x, t)' => Handles(x, t) /\ offer'[t].conn = offer[t].conn
  BY <1>1 DEF Handles
<1>7. ASSUME NEW x \in Nodes, NEW t \in Nodes, ~ (x = n /\ t = target[n])
      PROVE  Pair(x, t)'
  <2>1. OffersStay(x, t) /\ RepliesStay(x, t)
    BY <1>1, <1>2, <1>7, JoinedStay
  <2>2. QED
    BY <1>5, <1>6, <2>1, PairKept DEF Calm
<1>8. Pair(n, target[n])'
  <2>1. PICK t \in Nodes : t = target[n]
    BY <1>1
  <2>2. Idle(n, t)
    BY <1>1, <2>1, NotWaiting DEF Deaf
  <2>3. RepliesStay(n, t)
    BY <1>2, <2>1, JoinedStay
  <2>4. /\ \A i \in Nat : ~Replies(n, t, i)'
        /\ ~Handles(n, t)'
    BY <1>6, <2>2, <2>3 DEF Idle, RepliesStay
  <2>5. \A i \in Nat : Offers(n, t, i)' => i = Len(inbox[t]) + 1 /\ inbox'[t][i] = m
    <3>1. \A i \in DOMAIN inbox'[t] : \/ i \in DOMAIN inbox[t] /\ inbox'[t][i] = inbox[t][i]
                                      \/ i = Len(inbox[t]) + 1 /\ inbox'[t][i] = m
      BY <1>2, <2>1, Joined
    <3>2. QED
      BY <2>2, <3>1 DEF Idle, Offers
  <2>6. Awaits(n, t, mine[n])'
    BY <1>1, <1>3, <2>1 DEF Awaits
  <2>7. Single(n, t)'
    BY <2>4, <2>5 DEF Single
  <2>8. \A i \in Nat : Offers(n, t, i)' => inbox'[t][i].conn = mine[n]
    BY <1>2, <2>5
  <2>9. Awaited(n, t)'
    BY <1>1, <1>4, <2>4, <2>6, <2>8 DEF Awaited
  <2>10. QED
    BY <1>1, <2>1, <2>7, <2>9 DEF Pair
<1>9. ASSUME NEW x \in Nodes
      PROVE  Matched(x)'
  <2>1. \A i \in DOMAIN inbox'[x] : inbox'[x][i].type # "error"
    BY <1>1, <1>2, Joined DEF Calm, Matched
  <2>2. CASE x = n
    BY <1>3, <2>1, <2>2 DEF Matched
  <2>3. CASE x # n
    BY <1>1, <1>3, <2>1, <2>3 DEF Calm, Matched, Given, GivenKept
  <2>4. QED
    BY <2>2, <2>3
<1>10. QED
  BY <1>1, <1>7, <1>8, <1>9 DEF Calm

\* The offer that is handled is answered, or rejected.
LEMMA ReplyCalm ==
  ASSUME CInv, Calm, GivenKept, NEW n \in Nodes, Handles(offer[n].from, n),
         UNCHANGED <<caller, target, mine, future, offer, alive, link, registered>>,
         listener' = [listener EXCEPT ![n] = "receiving"],
         NEW m \in Message, inbox' = Delivered(offer[n].from, m), m.from = n,
         \/ /\ m.type = "answer" /\ Given(m.conn)'
            /\ conns'[m.conn].remote = offer[n].conn
         \/ m.type = "reject"
  PROVE  Calm'
<1>1. PICK s \in Nodes : s = offer[n].from
  BY Facts
<1>2. /\ listener'[n] = "receiving"
      /\ \A x \in Nodes : x # n => listener'[x] = listener[x]
  <2>1. listener \in [Nodes -> ListenerPCs]
    BY Facts DEF OtherTypes
  <2>2. QED
    BY <2>1
<1>3. \A x \in Nodes : Steady(x)
  BY DEF Steady, Deaf
<1>4. /\ \A x, t \in Nodes : Handles(x, t)' => Handles(x, t) /\ offer'[t].conn = offer[t].conn
      /\ ~Handles(s, n)'
  BY <1>2 DEF Handles, Replying
<1>5. ASSUME NEW x \in Nodes, NEW t \in Nodes, ~ (x = s /\ t = n)
      PROVE  Pair(x, t)'
  <2>1. OffersStay(x, t) /\ RepliesStay(x, t)
    BY <1>1, <1>5, JoinedStay
  <2>2. QED
    BY <1>3, <1>4, <2>1, PairKept DEF Calm
<1>6. Pair(s, n)'
  <2>1. /\ \A i \in Nat : ~Offers(s, n, i) /\ ~Replies(s, n, i)
        /\ Awaits(s, n, offer[n].conn)
    BY <1>1 DEF Calm, Pair, Single, Awaited
  <2>2. OffersStay(s, n)
    BY <1>1, JoinedStay
  <2>3. \A i \in Nat : ~Offers(s, n, i)'
    BY <2>1, <2>2 DEF OffersStay
  <2>4. \A i \in Nat : Replies(s, n, i)' => i = Len(inbox[s]) + 1 /\ inbox'[s][i] = m
    <3>1. \A i \in DOMAIN inbox'[s] : \/ i \in DOMAIN inbox[s] /\ inbox'[s][i] = inbox[s][i]
                                      \/ i = Len(inbox[s]) + 1 /\ inbox'[s][i] = m
      BY <1>1, Joined
    <3>2. QED
      BY <2>1, <3>1 DEF Replies
  <2>5. Single(s, n)'
    BY <1>4, <2>3, <2>4 DEF Single
  <2>6. PICK k : k = offer[n].conn
    OBVIOUS
  <2>7. Awaits(s, n, k)'
    BY <1>3, <2>1, <2>6, SteadyAwaits
  <2>8. Awaits(s, n, mine[s])'
    BY <2>7 DEF Awaits
  <2>9. ASSUME NEW i \in Nat, Replies(s, n, i)'
        PROVE  \/ /\ inbox'[s][i].type = "answer" /\ Given(inbox[s][i].conn)'
                  /\ Awaits(s, n, conns[inbox[s][i].conn].remote)'
               \/ inbox'[s][i].type = "reject" /\ Awaits(s, n, mine[s])'
    BY <2>4, <2>6, <2>7, <2>8, <2>9
  <2>10. Awaited(s, n)'
    BY <1>4, <2>3, <2>9 DEF Awaited
  <2>11. QED
    BY <2>5, <2>10 DEF Pair
<1>7. ASSUME NEW x \in Nodes
      PROVE  Matched(x)'
  <2>1. \A i \in DOMAIN inbox'[x] : inbox'[x][i].type # "error"
    BY <1>1, Joined DEF Calm, Matched
  <2>2. QED
    BY <2>1 DEF Calm, Matched, Given, GivenKept
<1>8. QED
  BY <1>5, <1>6, <1>7 DEF Calm

\* An offer is taken from the queue, and handled.
LEMMA OfferTakenCalm ==
  ASSUME CInv, Calm, GivenKept, NEW n \in Nodes, ReceiveOffer(n)
  PROVE  Calm'
<1> USE DEF Receiving, callerVars, worldVars, hubVars, signalVars
<1>1. PICK m : m = Head(inbox[n])
  OBVIOUS
<1>2. /\ inbox[n] # <<>> /\ m.type = "offer" /\ inbox' = [inbox EXCEPT ![n] = Tail(@)]
      /\ UNCHANGED <<caller, target, mine, future, alive, link, registered>>
      /\ listener[n] = "receiving"
  BY <1>1 DEF ReceiveOffer, Received
<1>3. m.from \in Nodes
  BY <1>1, <1>2, Facts, HeadTyped
<1>4. /\ offer'[n].from = m.from /\ offer'[n].conn = m.conn
      /\ \A x \in Nodes : x # n => listener'[x] = listener[x] /\ offer'[x] = offer[x]
  <2>1. listener \in [Nodes -> ListenerPCs]
        /\ offer \in [Nodes -> [from : Nodes, conn : Nat, pc : Nat]]
    BY Facts DEF OtherTypes
  <2>2. PICK p, w : /\ offer' = [offer EXCEPT ![n] = [from |-> m.from, conn |-> m.conn, pc |-> p]]
                    /\ listener' = [listener EXCEPT ![n] = w]
    BY <1>1 DEF ReceiveOffer, Respond
  <2>3. QED
    BY <2>1, <2>2
<1>5. \A x \in Nodes : Steady(x)
  BY <1>2 DEF Steady, Deaf
<1>6. /\ Moved(n, 1) /\ \A x \in Nodes : x # n => Moved(x, 0)
      /\ DOMAIN inbox'[n] \subseteq Nat \ {0}
      /\ 1 \in DOMAIN inbox[n] /\ inbox[n][1] = m
  BY <1>1, <1>2, Taken
<1>7. \A x \in Nodes : \E d \in Nat : Moved(x, d)
  BY <1>6
<1>8. \A x, t \in Nodes : OffersStay(x, t) /\ RepliesStay(x, t)
  BY <1>7, MovedStay
<1>9. ASSUME NEW x \in Nodes, NEW t \in Nodes, ~ (x = m.from /\ t = n)
      PROVE  Pair(x, t)'
  <2>1. Handles(x, t)' => Handles(x, t) /\ offer'[t].conn = offer[t].conn
    BY <1>4, <1>9 DEF Handles
  <2>2. QED
    BY <1>5, <1>8, <2>1, PairKept DEF Calm
<1>10. Pair(m.from, n)'
  <2>1. PICK s \in Nodes : s = m.from
    BY <1>3
  <2>2. PICK k : k = m.conn
    OBVIOUS
  <2>3. Offers(s, n, 1)
    BY <1>2, <1>6, <2>1 DEF Offers
  <2>4. /\ \A i \in Nat : Offers(s, n, i) => i = 1
        /\ \A i \in Nat : ~Replies(s, n, i)
        /\ k # NoConn /\ Awaits(s, n, k)
    BY <1>6, <2>2, <2>3 DEF Calm, Pair, Single, Awaited
  <2>5. \A i \in Nat : ~Replies(s, n, i)'
    BY <1>8, <2>4 DEF RepliesStay
  <2>6. \A i \in Nat : ~Offers(s, n, i)'
    <3> SUFFICES ASSUME NEW i \in Nat, Offers(s, n, i)'
                 PROVE  FALSE
      OBVIOUS
    <3>1. i \in DOMAIN inbox'[n] /\ i # 0
      BY <1>6 DEF Offers
    <3>2. Offers(s, n, i + 1)
      BY <1>6, <3>1 DEF Offers, Moved
    <3>3. QED
      BY <2>4, <3>1, <3>2
  <2>7. Awaits(s, n, k)'
    BY <1>5, <2>4, SteadyAwaits
  <2>8. Single(s, n)'
    BY <2>5, <2>6 DEF Single
  <2>9. Awaited(s, n)'
    BY <1>4, <2>2, <2>4, <2>5, <2>6, <2>7 DEF Awaited
  <2>10. QED
    BY <2>1, <2>8, <2>9 DEF Pair
<1>11. \A x \in Nodes : Matched(x)'
  BY <1>2, <1>7, MatchedKept DEF Calm
<1>12. QED
  BY <1>2, <1>9, <1>10, <1>11 DEF Calm

\* A reply is taken from the queue: it is the one n waits for, which has no
\* exchange with anybody then.
LEMMA ReplyTakenCalm ==
  ASSUME CInv, Calm, GivenKept, NEW n \in Nodes, ~Deaf(n),
         inbox[n] # <<>>, Head(inbox[n]).type \in {"answer", "reject"},
         inbox' = [inbox EXCEPT ![n] = Tail(@)],
         UNCHANGED <<caller, target, mine, listener, offer, alive, link, registered>>,
         \A x \in Nodes : x # n => future'[x] = future[x],
         NEW s \in Nodes, s = Head(inbox[n]).from,
         /\ caller[n] = "waiting" /\ future[n].is = "waiting" /\ target[n] = s
         /\ Head(inbox[n]).type = "answer" =>
              /\ Given(Head(inbox[n]).conn)
              /\ conns[Head(inbox[n]).conn].remote = mine[n]
         => \/ future'[n].is = "failed"
            \/ /\ Head(inbox[n]).type = "answer" /\ future'[n].is = "answered"
               /\ future'[n].by = Head(inbox[n]).conn
  PROVE  Calm'
<1>1. PICK m : m = Head(inbox[n])
  OBVIOUS
<1>2. /\ Moved(n, 1) /\ \A x \in Nodes : x # n => Moved(x, 0)
      /\ DOMAIN inbox'[n] \subseteq Nat \ {0}
      /\ 1 \in DOMAIN inbox[n] /\ inbox[n][1] = m
  BY <1>1, Taken
<1>3. \A x \in Nodes : \E d \in Nat : Moved(x, d)
  BY <1>2
<1>4. \A x, t \in Nodes : OffersStay(x, t) /\ RepliesStay(x, t)
  BY <1>3, MovedStay
<1>5. Replies(n, s, 1)
  BY <1>1, <1>2 DEF Replies
<1>6. /\ \/ m.type = "answer" /\ Given(m.conn) /\ Awaits(n, s, conns[m.conn].remote)
         \/ m.type = "reject" /\ Awaits(n, s, mine[n])
      /\ \A i \in Nat : Replies(n, s, i) => i = 1
      /\ \A i \in Nat : ~Offers(n, s, i)
      /\ ~Handles(n, s)
  BY <1>2, <1>5 DEF Calm, Pair, Single, Awaited
<1>7. /\ caller[n] = "waiting" /\ future[n].is = "waiting" /\ target[n] = s
      /\ m.type = "answer" => Given(m.conn) /\ conns[m.conn].remote = mine[n]
  BY <1>6 DEF Awaits
<1>8. \/ future'[n].is = "failed"
      \/ m.type = "answer" /\ future'[n].is = "answered" /\ future'[n].by = m.conn
  BY <1>1, <1>7
<1>9. ASSUME NEW t \in Nodes
      PROVE  Pair(n, t)'
  <2>1. CASE t # s
    <3>1. Idle(n, t)
      BY <1>7, <2>1, NotWaiting
    <3>2. Idle(n, t)'
      BY <1>4, <3>1 DEF Idle, OffersStay, RepliesStay, Handles
    <3>3. QED
      BY <3>2, IdlePair
  <2>2. CASE t = s
    <3>1. \A i \in Nat : ~Offers(n, s, i)'
      BY <1>4, <1>6 DEF OffersStay
    <3>2. \A i \in Nat : ~Replies(n, s, i)'
      <4> SUFFICES ASSUME NEW i \in Nat, Replies(n, s, i)'
                   PROVE  FALSE
        OBVIOUS
      <4>1. i \in DOMAIN inbox'[n] /\ i # 0
        BY <1>2 DEF Replies
      <4>2. Replies(n, s, i + 1)
        BY <1>2, <4>1 DEF Replies, Moved
      <4>3. QED
        BY <1>6, <4>1, <4>2
    <3>3. ~Handles(n, s)'
      BY <1>6 DEF Handles
    <3>4. Idle(n, t)'
      BY <2>2, <3>1, <3>2, <3>3 DEF Idle
    <3>5. QED
      BY <3>4, IdlePair
  <2>3. QED
    BY <2>1, <2>2
<1>10. ASSUME NEW x \in Nodes, NEW t \in Nodes, x # n
       PROVE  Pair(x, t)'
  <2>1. Steady(x)
    BY <1>10 DEF Steady, Deaf
  <2>2. Handles(x, t)' => Handles(x, t) /\ offer'[t].conn = offer[t].conn
    BY DEF Handles
  <2>3. QED
    BY <1>4, <2>1, <2>2, PairKept DEF Calm
<1>11. Matched(n)'
  <2>1. \A i \in DOMAIN inbox'[n] : inbox'[n][i].type # "error"
    BY <1>2 DEF Calm, Matched, Moved
  <2>2. QED
    BY <1>7, <1>8, <2>1 DEF Matched, Given, GivenKept
<1>12. \A x \in Nodes : x # n => Matched(x)'
  BY <1>3, MatchedKept DEF Calm
<1>13. QED
  BY <1>9, <1>10, <1>11, <1>12 DEF Calm

\* A client that does not hear any more, and forgets what was sent to it.
LEMMA DeafCalm ==
  ASSUME CInv, Calm, GivenKept, NEW n \in Nodes, Deaf(n)', inbox'[n] = <<>>,
         listener'[n] = "receiving", registered' = registered,
         UNCHANGED <<target, mine, offer>>,
         \A x \in Nodes : x # n =>
           /\ caller'[x] = caller[x] /\ future'[x] = future[x] /\ listener'[x] = listener[x]
           /\ inbox'[x] = inbox[x] /\ Deaf(x)' = Deaf(x),
         \/ future'[n].is = "none"
         \/ caller'[n] = caller[n] /\ future'[n] = future[n]
         \/ caller'[n] = caller[n] /\ future[n].is = "waiting" /\ future'[n].is = "failed"
  PROVE  Calm'
<1>1. \A x \in Nodes : Moved(x, 0)
  BY NotMoved
<1>2. \A x \in Nodes : Steady(x)
  BY DEF Steady
<1>3. \A x \in Nodes : Matched(x)'
  BY <1>1, MatchedKept DEF Calm
<1>4. \A x, t \in Nodes : Handles(x, t)' => Handles(x, t) /\ offer'[t].conn = offer[t].conn
  BY DEF Handles, Replying
<1>5. QED
  BY <1>1, <1>2, <1>3, <1>4, CalmKept

LEMMA ListenerCalmSteps ==
  ASSUME CInv, Calm, GivenKept, NEW n \in Nodes, ListenerStep(n)
  PROVE  Calm'
<1> USE DEF Receiving, Handling, HandlingOn, callerVars, listenerVars, signalVars, worldVars,
            hubVars
<1>1. /\ NodeInv(n) /\ offer[n].from \in Nodes /\ registered = Nodes
      /\ Pair(offer[n].from, n) /\ Matched(n)
      /\ caller \in [Nodes -> CallerPCs] /\ future \in [Nodes -> Futures]
      /\ listener \in [Nodes -> ListenerPCs] /\ inbox \in [Nodes -> Seq(Message)]
      /\ offer \in [Nodes -> [from : Nodes, conn : Nat, pc : Nat]]
      /\ link \in [Nodes -> {"up", "broken", "none"}]
  BY Facts DEF OtherTypes, Calm
<1>2. CASE ReceiveOffer(n)
  BY <1>2, OfferTakenCalm
<1>3. CASE Replace(n) \/ OfferUnusable(n)
  <2>1. /\ UNCHANGED <<caller, target, mine, future, inbox, alive, link, registered>>
        /\ listener[n] \in Replying
    BY <1>3 DEF Replace, OfferUnusable, Replying
  <2>2. \A t \in Nodes : /\ offer'[t].from = offer[t].from /\ offer'[t].conn = offer[t].conn
                         /\ t # n => listener'[t] = listener[t]
    <3>1. CASE Replace(n)
      BY <1>1, <3>1 DEF Replace, Respond
    <3>2. CASE OfferUnusable(n)
      BY <1>1, <3>2 DEF OfferUnusable
    <3>3. QED
      BY <1>3, <3>1, <3>2
  <2>3. \A x, t \in Nodes : Handles(x, t)' => Handles(x, t) /\ offer'[t].conn = offer[t].conn
    BY <2>1, <2>2 DEF Handles
  <2>4. \A x \in Nodes : Moved(x, 0)
    BY <2>1, NotMoved
  <2>5. \A x \in Nodes : Steady(x)
    BY <2>1 DEF Steady, Deaf
  <2>6. \A x \in Nodes : Matched(x)'
    BY <2>1, <2>4, MatchedKept DEF Calm
  <2>7. QED
    BY <2>1, <2>3, <2>4, <2>5, <2>6, CalmKept
<1>4. CASE SendAnswer(n)
  <2>1. PICK pc \in Nat : pc = offer[n].pc
    BY <1>1
  <2>2. /\ Handles(offer[n].from, n) /\ offer[n].conn # NoConn
        /\ pc \in DOMAIN conns /\ ~conns[pc].initiator
    BY <1>1, <1>4, <2>1
       DEF SendAnswer, Replying, Handles, Pair, Awaited, NodeInv, Held, Own, Responding
  <2>3. /\ conns' = [conns EXCEPT ![pc].remote = offer[n].conn]
        /\ offer[n].conn \in Nat /\ TypeOK
    BY <1>1, <1>4, <2>1 DEF SendAnswer, CInv
  <2>4. Given(pc)' /\ conns'[pc].remote = offer[n].conn
    <3>1. conns'[pc].remote = offer[n].conn
      BY <2>2, <2>3, RemoteSet
    <3>2. pc \in DOMAIN conns' /\ conns'[pc].initiator = conns[pc].initiator
      BY <2>2, <2>3, RemoteSet DEF Grown
    <3>3. QED
      BY <2>2, <3>1, <3>2 DEF Given
  <2>5. PICK m \in Message : m = [type |-> "answer", from |-> n, conn |-> pc]
    BY DEF Message
  <2>6. inbox' = Delivered(offer[n].from, m)
    BY <1>1, <1>4, <2>1, <2>5 DEF SendAnswer, Signal
  <2>7. /\ UNCHANGED <<caller, target, mine, future, offer, alive, link, registered>>
        /\ listener' = [listener EXCEPT ![n] = "receiving"]
    BY <1>4 DEF SendAnswer
  <2>8. m.type = "answer" /\ m.from = n /\ m.conn = pc
    BY <2>5
  <2>9. Given(m.conn)' /\ conns'[m.conn].remote = offer[n].conn
    BY <2>4, <2>8
  <2>10. QED
    BY <2>2, <2>6, <2>7, <2>8, <2>9, ReplyCalm
<1>5. CASE SendReject(n)
  <2>1. Handles(offer[n].from, n)
    BY <1>5 DEF SendReject, Replying, Handles
  <2>2. PICK m \in Message : m = [type |-> "reject", from |-> n]
    BY DEF Message
  <2>3. inbox' = Delivered(offer[n].from, m)
    BY <1>1, <1>5, <2>2 DEF SendReject, Reject
  <2>4. /\ UNCHANGED <<caller, target, mine, future, offer, alive, link, registered>>
        /\ listener' = [listener EXCEPT ![n] = "receiving"]
    BY <1>5 DEF SendReject
  <2>5. m.type = "reject" /\ m.from = n
    BY <2>2
  <2>6. QED
    BY <2>1, <2>3, <2>4, <2>5, ReplyCalm
<1>6. CASE ReceiveAnswer(n) \/ ReceiveReject(n)
  <2>1. PICK m : m = Head(inbox[n])
    OBVIOUS
  <2>2. /\ ~Deaf(n) /\ inbox[n] # <<>> /\ m.type \in {"answer", "reject"}
        /\ inbox' = [inbox EXCEPT ![n] = Tail(@)]
        /\ UNCHANGED <<caller, target, mine, listener, offer, alive, link, registered>>
    BY <1>6, <2>1 DEF ReceiveAnswer, ReceiveReject, Received, Deaf
  <2>3. m.from \in Nodes
    BY <1>1, <2>1, <2>2, Facts, HeadTyped
  <2>4. \A x \in Nodes : x # n => future'[x] = future[x]
    BY <1>1, <1>6 DEF ReceiveAnswer, ReceiveReject, FailPending
  <2>5. ASSUME future[n].is = "waiting", target[n] = m.from
        PROVE  \/ future'[n].is = "failed"
               \/ m.type = "answer" /\ future'[n].is = "answered" /\ future'[n].by = m.conn
    BY <1>1, <1>6, <2>1, <2>5 DEF ReceiveAnswer, ReceiveReject, FailPending, Answered, Future
  <2>6. QED
    BY <2>1, <2>2, <2>3, <2>4, <2>5, ReplyTakenCalm
<1>7. CASE ReceiveError(n)
  <2>1. inbox[n] # <<>> /\ Head(inbox[n]).type = "error"
    BY <1>7 DEF ReceiveError
  <2>2. 1 \in DOMAIN inbox[n] /\ inbox[n][1] = Head(inbox[n])
    BY <1>7, <2>1, Taken DEF ReceiveError, Received
  <2>3. QED
    BY <1>1, <2>1, <2>2 DEF Matched
<1>8. CASE HandleDisconnect(n) \/ AnswerUnsent(n) \/ RejectUnsent(n)
  <2>1. /\ Disconnected(n)
        /\ UNCHANGED <<caller, target, mine, offer, alive, registered>>
    BY <1>8 DEF HandleDisconnect, AnswerUnsent, RejectUnsent, Disconnected
  <2>2. /\ link' = [link EXCEPT ![n] = "none"] /\ inbox' = [inbox EXCEPT ![n] = <<>>]
        /\ listener' = [listener EXCEPT ![n] = "receiving"] /\ FailPending(n, Nodes)
    BY <2>1 DEF Disconnected
  <2>3. /\ Deaf(n)' /\ inbox'[n] = <<>> /\ listener'[n] = "receiving"
        /\ \A x \in Nodes : x # n => /\ listener'[x] = listener[x] /\ inbox'[x] = inbox[x]
                                     /\ link'[x] = link[x]
    BY <1>1, <2>2 DEF Deaf
  <2>4. /\ \A x \in Nodes : x # n => future'[x] = future[x]
        /\ \/ future'[n] = future[n]
           \/ future[n].is = "waiting" /\ future'[n].is = "failed"
    BY <1>1, <2>2 DEF FailPending, Future
  <2>5. \A x \in Nodes : x # n => Deaf(x)' = Deaf(x)
    BY <2>1, <2>3 DEF Deaf
  <2>6. QED
    BY <2>1, <2>3, <2>4, <2>5, DeafCalm
<1>9. QED
  BY <1>2, <1>3, <1>4, <1>5, <1>6, <1>7, <1>8 DEF ListenerStep

LEMMA CrashCalm ==
  ASSUME CInv, Calm, GivenKept, NEW n \in Nodes, Crash(n)
  PROVE  Calm'
<1>1. /\ caller \in [Nodes -> CallerPCs] /\ future \in [Nodes -> Futures]
      /\ listener \in [Nodes -> ListenerPCs] /\ inbox \in [Nodes -> Seq(Message)]
      /\ link \in [Nodes -> {"up", "broken", "none"}]
  BY Facts DEF OtherTypes
<1>2. /\ future'[n].is = "none" /\ inbox'[n] = <<>> /\ listener'[n] = "receiving" /\ Deaf(n)'
      /\ UNCHANGED <<target, mine, offer, registered>>
  BY <1>1 DEF Crash, Future, Deaf
<1>3. \A x \in Nodes : x # n =>
        /\ caller'[x] = caller[x] /\ future'[x] = future[x] /\ listener'[x] = listener[x]
        /\ inbox'[x] = inbox[x]
  BY <1>1 DEF Crash
<1>4. \A x \in Nodes : x # n => Deaf(x)' = Deaf(x)
  BY <1>1 DEF Crash, Deaf
<1>5. QED
  BY <1>2, <1>3, <1>4, DeafCalm

\* Who has left the hub stays in gone.
LEMMA OnlyGrows ==
  ASSUME [Next]_vars
  PROVE  gone \subseteq gone'
<1> USE DEF At, Waiting, Calling, Receiving, HandlingOn, Handling, ConnOnly, worldVars, hubVars
<1>1. ASSUME NEW n \in Nodes, CallerStep(n)
      PROVE  gone' = gone
  BY <1>1 DEF CallerStep, CallFresh, CallExisting, CallStale, JoinExisting, JoinTimeout, Rebuild,
       Register, RegisterFails, Registered, SendOffer, OfferUnsent, OfferRaises, SetAnswer,
       AnswerRaises, OfferFailed, GiveUp, FindPeer, PollTimeout, Connected, ConnectTimeout,
       KeepConnection, HangUp, HungUp
<1>2. ASSUME NEW n \in Nodes, ListenerStep(n)
      PROVE  gone' = gone
  BY <1>2 DEF ListenerStep, ReceiveOffer, Replace, SendAnswer, OfferUnusable, SendReject,
       ReceiveAnswer, ReceiveReject, ReceiveError, HandleDisconnect, AnswerUnsent, RejectUnsent
<1>3. ASSUME NEW k \in DOMAIN conns, ConnStep(k)
      PROVE  gone' = gone
  BY <1>3 DEF ConnStep, BecomeReady, Fail, CloseDone
<1>4. ASSUME NEW n \in Nodes, Crash(n) \/ LoseHub(n) \/ Unregister(n)
      PROVE  gone \subseteq gone'
  BY <1>4 DEF Crash, LoseHub, Unregister
<1>5. ASSUME HubRestarts \/ Quiet \/ UNCHANGED vars
      PROVE  gone \subseteq gone'
  BY <1>5 DEF HubRestarts, Quiet, vars
<1>6. QED
  BY <1>1, <1>2, <1>3, <1>4, <1>5 DEF Next

\* Only what makes somebody leave the hub does not keep it calm.
LEMMA CalmStep ==
  ASSUME CInv, [Next]_vars, gone = {} => Calm, gone' = {}
  PROVE  Calm'
<1>1. GivenKept
  BY GivenStays
<1>2. CASE gone # {}
  <2>1. gone \subseteq gone'
    BY OnlyGrows
  <2>2. QED
    BY <1>2, <2>1
<1>3. CASE gone = {}
  <2>1. Calm
    BY <1>3
  <2>2. ASSUME NEW n \in Nodes, CallerStep(n)
        PROVE  Calm'
    BY <1>1, <2>1, <2>2, OfferCalm, CallerCalmSteps
  <2>3. ASSUME NEW n \in Nodes, ListenerStep(n)
        PROVE  Calm'
    BY <1>1, <2>1, <2>3, ListenerCalmSteps
  <2>4. ASSUME \/ \E k \in DOMAIN conns : ConnStep(k)
               \/ \E n \in Nodes : LoseHub(n)
               \/ Quiet \/ UNCHANGED vars
        PROVE  Calm'
    BY <1>1, <2>1, <2>4, ConnCalmSteps
  <2>5. ASSUME NEW n \in Nodes, Crash(n)
        PROVE  Calm'
    BY <1>1, <2>1, <2>5, CrashCalm
  <2>6. ASSUME NEW n \in Nodes
        PROVE  ~Unregister(n)
    BY DEF Unregister
  <2>7. ASSUME HubRestarts
        PROVE  Calm'
    <3>1. Nodes = {}
      BY <2>1, <2>7 DEF HubRestarts, Calm
    <3>2. registered' = Nodes
      BY <2>7, <3>1 DEF HubRestarts
    <3>3. QED
      BY <3>1, <3>2 DEF Calm
  <2>8. QED
    BY <2>2, <2>3, <2>4, <2>5, <2>6, <2>7 DEF Next
<1>4. QED
  BY <1>2, <1>3

LEMMA AnswerInit ==
  ASSUME Init
  PROVE  AInv
<1>1. CInv
  BY InvInit
<1>2. ASSUME NEW n \in Nodes
      PROVE  inbox[n] = <<>> /\ DOMAIN inbox[n] = {} /\ listener[n] = "receiving"
             /\ future[n].is = "none"
  <2>1. inbox[n] = <<>> /\ listener[n] = "receiving" /\ future[n].is = "none"
    BY DEF Init, Future
  <2>2. DOMAIN inbox[n] = {}
    BY <1>1, <2>1, QueueFacts
  <2>3. QED
    BY <2>1, <2>2
<1>3. \A n \in Nodes : Matched(n)
  BY <1>2 DEF Matched
<1>4. \A n, t \in Nodes : Pair(n, t)
  BY <1>2, IdlePair DEF Idle, Offers, Replies, Handles, Replying
<1>5. registered = Nodes
  BY DEF Init
<1>6. QED
  BY <1>1, <1>3, <1>4, <1>5 DEF AInv, Calm

\* An answer names the peer it comes from and nothing else
\* (_handle_incoming_answer takes the future of its sender): yet while nobody
\* has left the hub, it is the answer to the offer the caller has pending, since
\* an offer and its reply are one exchange, and there is one at a time.
THEOREM AnswersMatch == Spec => []AnswerMatches
<1>1. Init => AInv
  BY AnswerInit
<1>2. AInv /\ [Next]_vars => AInv'
  BY InvStep, CalmStep DEF AInv
<1>3. AInv => AnswerMatches
  BY DEF AInv, Calm, Matched, AnswerMatches
<1>4. QED
  BY <1>1, <1>2, <1>3, PTL DEF Spec
=============================================================================

-------------------------- MODULE JobServiceProofs --------------------------
(***************************************************************************)
(* Theorems about JobService, for any requesters, connections and requests.*)
(*                                                                         *)
(* A request is in at most one place of one queue, on the connection that  *)
(* its requester still waits on; it is acknowledged before it is run, and  *)
(* what is sent on a connection arrives in order.                          *)
(***************************************************************************)
EXTENDS JobService, SequenceTheorems, TLAPS

\* Job ids grow.
Past ==
  \A q \in Requesters, j \in Jobs : fate[<<q, j>>] # "new" => j <= submitted[q]

\* Only the last connection of a requester can be up, and what is cached or used exists.
Links ==
  /\ \A q \in Requesters, s \in Sessions : <<q, s>> \in up => s = session[q]
  /\ \A q \in cached : session[q] # 0
  /\ \A q \in Requesters : request[q].job # 0 => session[q] # 0
  /\ \A q \in Requesters : handler[q].pc # "none" => handler[q].on # 0

\* What is queued has not been taken, and the request that is waited for is
\* on the connection it is waited for on.
QueuedJob(q, s, j) ==
  /\ fate[<<q, j>>] = "queued"
  /\ j = request[q].job => s = session[q]

Queued ==
  \A q \in Requesters, s \in Sessions : \A k \in 1 .. Len(queue[<<q, s>>]) :
    QueuedJob(q, s, queue[<<q, s>>][k].job)

Once ==
  \A q \in Requesters, s, t \in Sessions :
    \A k \in 1 .. Len(queue[<<q, s>>]), l \in 1 .. Len(queue[<<q, t>>]) :
      queue[<<q, s>>][k].job = queue[<<q, t>>][l].job => s = t /\ k = l

Running ==
  \A q \in Requesters : handler[q].pc = "running" =>
    /\ fate[<<q, handler[q].job>>] = "running"
    /\ handler[q].job = request[q].job => handler[q].on = session[q]

\* m says that job j succeeded.
Positive(m, j) == m.type = "result" /\ m.job = j /\ m.ok

Answered ==
  \A q \in Requesters, s \in Sessions, j \in Jobs : \A k \in 1 .. Len(back[<<q, s>>]) :
    Positive(back[<<q, s>>][k], j) => fate[<<q, j>>] = "ended"

\* One of the first n messages that q has not read acknowledges what it waits for.
AckWithin(q, n) ==
  \E i \in 1 .. n : /\ back[Current(q)][i].type = "ack"
                    /\ back[Current(q)][i].job = request[q].job

Unacked(q) == request[q].job # 0 /\ ~request[q].acked

\* The ack goes before the result.
AckFirst(q) ==
  Unacked(q) =>
    /\ handler[q].pc = "running" /\ handler[q].job = request[q].job /\ Current(q) \in up
         => AckWithin(q, Len(back[Current(q)]))
    /\ \A k \in 1 .. Len(back[Current(q)]) :
         Positive(back[Current(q)][k], request[q].job) => AckWithin(q, k - 1)

IInv ==
  /\ TypeOK /\ Past /\ Links /\ Queued /\ Once /\ Running
  /\ Answered /\ SuccessMeansRun /\ SuccessWasAcked
  /\ \A q \in Requesters : AckFirst(q)

Channels == Requesters \X Sessions

-----------------------------------------------------------------------------
(***************************************************************************)
(* Queues.                                                                 *)
(***************************************************************************)
\* The head of one of several queues is taken.
LEMMA HeadTaken ==
  ASSUME NEW C, NEW S, NEW f \in [C -> Seq(S)], NEW c \in C, f[c] # <<>>,
         NEW g, g = [f EXCEPT ![c] = Tail(@)]
  PROVE  /\ g \in [C -> Seq(S)]
         /\ 1 \in 1 .. Len(f[c]) /\ Head(f[c]) = f[c][1] /\ f[c][1] \in S
         /\ \A d \in C \ {c} : g[d] = f[d]
         /\ Len(f[c]) \in Nat /\ Len(g[c]) = Len(f[c]) - 1
         /\ \A k \in 1 .. Len(g[c]) : k + 1 \in 1 .. Len(f[c]) /\ g[c][k] = f[c][k + 1]
<1>1. f[c] \in Seq(S)
  OBVIOUS
<1>2. /\ Head(f[c]) \in S /\ Head(f[c]) = f[c][1]
      /\ Tail(f[c]) \in Seq(S) /\ Len(Tail(f[c])) = Len(f[c]) - 1
      /\ \A k \in 1 .. Len(Tail(f[c])) : Tail(f[c])[k] = f[c][k + 1]
  BY <1>1, HeadTailProperties
<1>3. Len(f[c]) \in Nat /\ Len(f[c]) # 0
  BY <1>1, EmptySeq, LenProperties
<1>4. g[c] = Tail(f[c]) /\ g \in [C -> Seq(S)] /\ \A d \in C \ {c} : g[d] = f[d]
  BY <1>2
<1>5. QED
  BY <1>2, <1>3, <1>4

\* A message is appended to one of several queues.
LEMMA MessageAdded ==
  ASSUME NEW C, NEW S, NEW f \in [C -> Seq(S)], NEW c \in C, NEW m \in S,
         NEW g, g = [f EXCEPT ![c] = Append(@, m)]
  PROVE  /\ g \in [C -> Seq(S)]
         /\ \A d \in C \ {c} : g[d] = f[d]
         /\ Len(f[c]) \in Nat /\ Len(g[c]) = Len(f[c]) + 1
         /\ \A k \in 1 .. Len(f[c]) : g[c][k] = f[c][k]
         /\ g[c][Len(f[c]) + 1] = m
<1>1. f[c] \in Seq(S)
  OBVIOUS
<1>2. /\ Append(f[c], m) \in Seq(S)
      /\ Len(Append(f[c], m)) = Len(f[c]) + 1
      /\ \A k \in 1 .. Len(f[c]) : Append(f[c], m)[k] = f[c][k]
      /\ Append(f[c], m)[Len(f[c]) + 1] = m
  BY <1>1, AppendProperties
<1>3. Len(f[c]) \in Nat
  BY <1>1, LenProperties
<1>4. g[c] = Append(f[c], m) /\ g \in [C -> Seq(S)] /\ \A d \in C \ {c} : g[d] = f[d]
  BY <1>2
<1>5. QED
  BY <1>2, <1>3, <1>4

LEMMA ElementsTyped ==
  ASSUME TypeOK, NEW q \in Requesters, NEW s \in Sessions
  PROVE  /\ \A k \in 1 .. Len(queue[<<q, s>>]) : queue[<<q, s>>][k] \in ToNode
         /\ \A k \in 1 .. Len(back[<<q, s>>]) : back[<<q, s>>][k] \in ToRequester
<1>1. queue[<<q, s>>] \in Seq(ToNode) /\ back[<<q, s>>] \in Seq(ToRequester)
  BY DEF TypeOK
<1>2. QED
  BY <1>1, ElementOfSeq

\* What the node sends arrives behind what is there, or not at all.
LEMMA SentAdds ==
  ASSUME TypeOK, NEW c \in Channels, NEW m \in ToRequester, back' = Sent(c, m)
  PROVE  /\ back' \in [Channels -> Seq(ToRequester)]
         /\ \A d \in Channels \ {c} : back'[d] = back[d]
         /\ Len(back[c]) \in Nat
         /\ \A k \in 1 .. Len(back[c]) : back'[c][k] = back[c][k]
         /\ c \notin up => back'[c] = back[c]
         /\ c \in up => Len(back'[c]) = Len(back[c]) + 1 /\ back'[c][Len(back[c]) + 1] = m
<1>1. back \in [Channels -> Seq(ToRequester)]
  BY DEF TypeOK, Channels
<1>2. CASE c \in up
  <2>1. back' = [back EXCEPT ![c] = Append(@, m)]
    BY <1>2 DEF Sent
  <2>2. QED
    BY <1>1, <1>2, <2>1, MessageAdded
<1>3. CASE c \notin up
  <2>1. back' = back /\ back[c] \in Seq(ToRequester)
    BY <1>1, <1>3 DEF Sent
  <2>2. QED
    BY <1>1, <1>3, <2>1, LenProperties
<1>4. QED
  BY <1>2, <1>3

-----------------------------------------------------------------------------
(***************************************************************************)
(* Nothing is submitted, taken, answered or read.                          *)
(***************************************************************************)
LEMMA AckFirstSame ==
  ASSUME NEW q \in Requesters, AckFirst(q),
         request'[q] = request[q], session'[q] = session[q],
         back'[Current(q)] = back[Current(q)],
         Current(q) \in up' => Current(q) \in up,
         handler'[q].pc = "running" => handler'[q] = handler[q]
  PROVE  AckFirst(q)'
<1>1. Current(q)' = Current(q)
  BY DEF Current
<1>2. QED
  BY <1>1 DEF AckFirst, AckWithin, Unacked

\* Nothing is submitted, taken or begun, and whoever waits keeps its connection.
LEMMA QueuesKept ==
  ASSUME IInv, UNCHANGED queue,
         \A p \in Requesters, i \in Jobs : fate[<<p, i>>] = "queued" => fate'[<<p, i>>] = "queued",
         \A p \in Requesters : handler'[p].pc = "running" =>
           fate'[<<p, handler[p].job>>] = fate[<<p, handler[p].job>>],
         \A p \in Requesters : request'[p].job \in {0, request[p].job},
         \A p \in Requesters : request'[p].job # 0 => session'[p] = session[p],
         \A p \in Requesters : handler'[p].pc = "running" => handler'[p] = handler[p]
  PROVE  Queued' /\ Once' /\ Running'
<1>1. Queued /\ Once /\ Running /\ 0 \notin Jobs
  BY DEF IInv, Jobs
<1>2. ASSUME NEW q \in Requesters, NEW s \in Sessions, NEW j \in Jobs, QueuedJob(q, s, j)
      PROVE  QueuedJob(q, s, j)'
  BY <1>1, <1>2 DEF QueuedJob
<1>3. ASSUME NEW q \in Requesters, NEW s \in Sessions, NEW k \in 1 .. Len(queue[<<q, s>>])
      PROVE  QueuedJob(q, s, queue[<<q, s>>][k].job)'
  <2>1. queue[<<q, s>>][k].job \in Jobs
    BY ElementsTyped DEF IInv, ToNode
  <2>2. QueuedJob(q, s, queue[<<q, s>>][k].job)
    BY <1>1 DEF Queued
  <2>3. QED
    BY <2>1, <2>2, <1>2
<1>4. Queued' /\ Once'
  BY <1>1, <1>3 DEF Queued, Once
<1>5. ASSUME NEW q \in Requesters, handler'[q].pc = "running"
      PROVE  /\ fate'[<<q, handler'[q].job>>] = "running"
             /\ handler'[q].job = request'[q].job => handler'[q].on = session'[q]
  <2>1. handler'[q] = handler[q] /\ handler[q].job \in Jobs
    BY <1>5 DEF IInv, TypeOK
  <2>2. QED
    BY <1>1, <1>5, <2>1 DEF Running
<1>6. QED
  BY <1>4, <1>5 DEF Running

LEMMA Calm ==
  ASSUME IInv, TypeOK', Links', UNCHANGED <<queue, back, fate, succeeded, submitted>>,
         \A p \in Requesters : request'[p] = request[p] \/ request'[p].job = 0,
         \A p \in Requesters : request'[p].job # 0 =>
           session'[p] = session[p] /\ (Current(p) \in up' => Current(p) \in up),
         \A p \in Requesters : handler'[p].pc = "running" => handler'[p] = handler[p]
  PROVE  IInv'
<1>1. Past' /\ Answered' /\ SuccessMeansRun' /\ SuccessWasAcked'
  BY DEF IInv, Past, Answered, SuccessMeansRun, SuccessWasAcked, Positive
<1>2. Queued' /\ Once' /\ Running'
  BY QueuesKept
<1>3. ASSUME NEW q \in Requesters PROVE AckFirst(q)'
  <2>1. CASE request'[q].job = 0
    BY <2>1 DEF AckFirst, Unacked
  <2>2. CASE request'[q].job # 0
    BY <2>2, AckFirstSame DEF IInv
  <2>3. QED
    BY <2>1, <2>2
<1>4. QED
  BY <1>1, <1>2, <1>3 DEF IInv

-----------------------------------------------------------------------------
(***************************************************************************)
(* The steps, by what they do.  First those that are calm.                 *)
(***************************************************************************)
LEMMA Bounds == /\ MaxSessions \in Nat /\ MaxJobs \in Nat /\ MaxAsks \in Nat
                /\ Sessions = (0 .. MaxSessions) \ {0} /\ Jobs = (0 .. MaxJobs) \ {0}
BY JobAssumption DEF Sessions, Jobs

LEMMA ConnectionSteps ==
  ASSUME IInv, \/ \E q \in Requesters :
                    Connect(q) \/ BecomeReady(q) \/ HangUp(q) \/ PopById(q)
               \/ \E c \in Channels : NoticeDown(c)
               \/ Leave
  PROVE  IInv'
<1>t. TypeOK /\ Links
  BY DEF IInv
<1>1. ASSUME NEW q \in Requesters, Connect(q) PROVE IInv'
  <2>1. session[q] + 1 \in Sessions /\ session[q] # session[q] + 1
    BY <1>t, <1>1, Bounds DEF Connect, TypeOK
  <2>2. TypeOK'
    <3>1. session' \in [Requesters -> 0 .. MaxSessions]
      BY <1>t, <1>1, <2>1, Bounds DEF Connect, TypeOK
    <3>2. up' \in SUBSET (Requesters \X Sessions)
      BY <1>t, <1>1, <2>1 DEF Connect, TypeOK
    <3>3. QED
      BY <1>t, <1>1, <3>1, <3>2 DEF Connect, TypeOK, nodeVars, requesterVars
  <2>3. Links'
    <3>1. /\ session' = [session EXCEPT ![q] = @ + 1] /\ cached' = cached \cup {q}
          /\ up' = (up \ {<<q, session[q]>>}) \cup {<<q, session[q] + 1>>}
          /\ UNCHANGED <<request, handler>> /\ request[q].job = 0
      BY <1>1 DEF Connect, Current, nodeVars, requesterVars
    <3>2. session'[q] # 0 /\ \A p \in Requesters \ {q} : session'[p] = session[p]
      BY <1>t, <2>1, <3>1, Bounds DEF TypeOK
    <3>3. \A p \in Requesters, s \in Sessions : <<p, s>> \in up' => s = session'[p]
      BY <1>t, <3>1, <3>2 DEF TypeOK, Links
    <3>4. \A p \in cached' : session'[p] # 0
      BY <1>t, <3>1, <3>2 DEF TypeOK, Links
    <3>5. QED
      BY <1>t, <3>1, <3>2, <3>3, <3>4 DEF Links
  <2>4. \A p \in Requesters : request'[p].job # 0 =>
          session'[p] = session[p] /\ (Current(p) \in up' => Current(p) \in up)
    BY <1>t, <1>1 DEF Connect, TypeOK, Current, requesterVars
  <2>5. QED
    BY <1>1, <2>2, <2>3, <2>4, Calm DEF Connect, nodeVars, requesterVars
<1>2. CASE \/ \E q \in Requesters : BecomeReady(q) \/ HangUp(q) \/ PopById(q)
           \/ \E c \in Channels : NoticeDown(c)
           \/ Leave
  <2>1. /\ UNCHANGED <<session, queue, back, handler, asker, asks, requesterVars, fate>>
        /\ up' \subseteq up /\ ready' \subseteq ready \cup up
        /\ cached' \subseteq cached /\ node' \in {node, "gone"}
    BY <1>2 DEF BecomeReady, HangUp, PopById, NoticeDown, Leave, nodeVars
  <2>2. TypeOK'
    BY <1>t, <2>1 DEF TypeOK, requesterVars
  <2>3. Links'
    BY <1>t, <2>1 DEF Links, requesterVars
  <2>4. QED
    BY <2>1, <2>2, <2>3, Calm DEF requesterVars
<1>3. QED
  BY <1>1, <1>2

LEMMA HandlerMoves ==
  ASSUME TypeOK, Links, NEW q \in Requesters, handler[q].pc # "none",
         NEW pc \in HandlerPCs, NEW i \in 0 .. MaxJobs, HandlerGoes(q, pc, i)
  PROVE  /\ handler' \in [Requesters -> [pc : HandlerPCs, on : 0 .. MaxSessions, job : 0 .. MaxJobs]]
         /\ \A p \in Requesters : handler'[p].pc # "none" => handler'[p].on # 0
         /\ \A p \in Requesters \ {q} : handler'[p] = handler[p]
         /\ handler'[q].pc = pc /\ handler'[q].job = i /\ handler'[q].on = handler[q].on
<1> DEFINE Task == [pc : HandlerPCs, on : 0 .. MaxSessions, job : 0 .. MaxJobs]
           new == [handler[q] EXCEPT !.pc = pc, !.job = i]
<1>1. handler \in [Requesters -> Task] /\ handler' = [handler EXCEPT ![q] = new]
  BY DEF HandlerGoes, TypeOK
<1>2. new \in Task /\ new.pc = pc /\ new.job = i /\ new.on = handler[q].on
  <2>1. handler[q] \in Task
    BY <1>1
  <2>2. QED
    BY <2>1
<1>3. /\ handler' \in [Requesters -> Task] /\ handler'[q] = new
      /\ \A p \in Requesters \ {q} : handler'[p] = handler[p]
  BY <1>1, <1>2
<1>4. \A p \in Requesters : handler[p].pc # "none" => handler[p].on # 0
  BY DEF Links
<1>5. QED
  BY <1>2, <1>3, <1>4

\* Handlers come and go, and none begins a job.
NoneStarts ==
  /\ handler' \in [Requesters -> [pc : HandlerPCs, on : 0 .. MaxSessions, job : 0 .. MaxJobs]]
  /\ \A p \in Requesters : handler'[p].pc = "running" => handler'[p] = handler[p]
  /\ \A p \in Requesters : handler'[p].pc # "none" => handler'[p].on # 0

LEMMA CalmHandlerSteps ==
  ASSUME IInv, \/ Refresh \/ Stop
               \/ \E q \in Requesters :
                    HandlerConnect(q) \/ HandlerCheck(q) \/ HandlerRecvTimeout(q)
  PROVE  IInv'
<1>t. TypeOK /\ Links
  BY DEF IInv
<1>1. /\ UNCHANGED <<linkVars, queue, back, requesterVars, fate, asks>>
      /\ asker' \in [Requesters -> 0 .. MaxSessions] /\ node' \in {node, "stopping"}
      /\ NoneStarts
  <2>1. CASE Refresh
    <3>1. UNCHANGED <<linkVars, queue, back, asker, asks, node, requesterVars, fate>>
      BY <2>1 DEF Refresh
    <3>2. ASSUME NEW p \in Requesters
          PROVE  /\ Refreshed(p) \in [pc : HandlerPCs, on : 0 .. MaxSessions, job : 0 .. MaxJobs]
                 /\ Refreshed(p).pc = "running" => Refreshed(p) = handler[p]
                 /\ Refreshed(p).pc # "none" => Refreshed(p).on # 0
      BY <1>t, Bounds DEF Refreshed, Free, NoHandler, HandlerPCs, TypeOK, Links
    <3>3. QED
      BY <1>t, <2>1, <3>1, <3>2 DEF Refresh, NoneStarts, TypeOK
  <2>2. CASE Stop
    BY <1>t, <2>2, Bounds DEF Stop, NoneStarts, NoHandler, HandlerPCs, TypeOK
  <2>3. ASSUME NEW q \in Requesters,
               HandlerConnect(q) \/ HandlerCheck(q) \/ HandlerRecvTimeout(q)
        PROVE  UNCHANGED <<linkVars, queue, back, requesterVars, fate, asks, asker, node>>
               /\ NoneStarts
    <3>1. PICK pc \in {"checking", "waiting", "done"} : HandlerGoes(q, pc, 0)
      BY <2>3 DEF HandlerConnect, HandlerCheck, HandlerRecvTimeout
    <3>2. UNCHANGED <<linkVars, queue, back, requesterVars, fate, asks, asker, node>>
      BY <2>3 DEF HandlerConnect, HandlerCheck, HandlerRecvTimeout, HandlerAt
    <3>3. handler[q].pc # "none"
      BY <2>3 DEF HandlerConnect, HandlerCheck, HandlerRecvTimeout, HandlerAt
    <3>4. pc \in HandlerPCs /\ 0 \in 0 .. MaxJobs
      BY Bounds DEF HandlerPCs
    <3>5. NoneStarts
      BY <1>t, <3>1, <3>3, <3>4, HandlerMoves DEF NoneStarts
    <3>6. QED
      BY <3>2, <3>5
  <2>4. QED
    BY <1>t, <2>1, <2>2, <2>3 DEF TypeOK
<1>2. TypeOK'
  BY <1>t, <1>1 DEF TypeOK, NoneStarts, linkVars, requesterVars
<1>3. Links'
  BY <1>t, <1>1 DEF Links, NoneStarts, linkVars, requesterVars
<1>4. QED
  BY <1>1, <1>2, <1>3, Calm DEF NoneStarts, linkVars, requesterVars

LEMMA TimeoutSteps ==
  ASSUME IInv, \/ \E q \in Requesters : RequestTimeout(q) \/ AskTimeout(q)
               \/ Idle \/ UNCHANGED vars
  PROVE  IInv'
<1>t. TypeOK /\ Links
  BY DEF IInv
<1>1. /\ UNCHANGED <<linkVars, queue, back, handler, asks, node, fate, succeeded, submitted>>
      /\ request' \in [Requesters -> [job : 0 .. MaxJobs, acked : BOOLEAN]]
      /\ asker' \in [Requesters -> 0 .. MaxSessions]
      /\ \A p \in Requesters : request'[p] = request[p] \/ request'[p].job = 0
  <2>1. CASE \E q \in Requesters : RequestTimeout(q)
    BY <1>t, <2>1, Bounds DEF RequestTimeout, Finished, nodeVars, TypeOK
  <2>2. CASE \E q \in Requesters : AskTimeout(q)
    BY <1>t, <2>2, Bounds DEF AskTimeout, requesterVars, TypeOK
  <2>3. CASE Idle \/ UNCHANGED vars
    BY <1>t, <2>3 DEF Idle, vars, linkVars, TypeOK
  <2>4. QED
    BY <2>1, <2>2, <2>3
<1>2. TypeOK'
  BY <1>t, <1>1 DEF TypeOK, linkVars
<1>3. Links'
  BY <1>t, <1>1 DEF Links, linkVars
<1>4. QED
  BY <1>1, <1>2, <1>3, Calm DEF linkVars

-----------------------------------------------------------------------------
(***************************************************************************)
(* What the requester does.                                                *)
(***************************************************************************)
LEMMA SubmitStep ==
  ASSUME IInv, NEW q \in Requesters, NEW kind \in Kinds, Submit(q, kind),
         NEW j, j = submitted[q] + 1, NEW c, c = Current(q)
  PROVE  IInv'
<1> DEFINE m == [kind |-> kind, job |-> j]
<1>t. TypeOK /\ Links /\ Past
  BY DEF IInv
<1>1. /\ request[q].job = 0 /\ j \in Jobs /\ c \in up
      /\ submitted' = [submitted EXCEPT ![q] = j]
      /\ request' = [request EXCEPT ![q] = [job |-> j, acked |-> FALSE]]
      /\ queue' = [queue EXCEPT ![c] = Append(@, m)]
      /\ fate' = [fate EXCEPT ![<<q, j>>] = "queued"]
      /\ UNCHANGED <<session, cached, up, ready, back, handler, asker, asks, node, succeeded>>
  BY DEF Submit, linkVars, nodeVars
<1>2. c \in Channels /\ c = <<q, session[q]>> /\ session[q] \in Sessions /\ m \in ToNode
  BY <1>t, <1>1 DEF TypeOK, Current, Channels, ToNode
<1>3. queue \in [Channels -> Seq(ToNode)]
  BY <1>t DEF TypeOK, Channels
<1>4. /\ queue' \in [Channels -> Seq(ToNode)]
      /\ \A d \in Channels \ {c} : queue'[d] = queue[d]
      /\ Len(queue[c]) \in Nat /\ Len(queue'[c]) = Len(queue[c]) + 1
      /\ \A k \in 1 .. Len(queue[c]) : queue'[c][k] = queue[c][k]
      /\ queue'[c][Len(queue[c]) + 1] = m
  BY <1>1, <1>2, <1>3, MessageAdded
<1>5. j \in Nat /\ submitted[q] \in Nat /\ j # 0 /\ fate[<<q, j>>] = "new"
  <2>1. submitted[q] \in Nat
    BY <1>t, Bounds DEF TypeOK
  <2>2. fate[<<q, j>>] \in {"new", "queued", "running", "ended", "refused", "fatal", "lost"}
    BY <1>t, <1>1 DEF TypeOK
  <2>3. QED
    BY <1>t, <1>1, <2>1, <2>2 DEF Past
<1>6. TypeOK'
  <2>1. fate' \in [Requesters \X Jobs ->
                    {"new", "queued", "running", "ended", "refused", "fatal", "lost"}]
    BY <1>t, <1>1 DEF TypeOK
  <2>2. /\ submitted' \in [Requesters -> 0 .. MaxJobs]
        /\ request' \in [Requesters -> [job : 0 .. MaxJobs, acked : BOOLEAN]]
    BY <1>t, <1>1, Bounds DEF TypeOK
  <2>3. QED
    BY <1>t, <1>1, <1>4, <2>1, <2>2 DEF TypeOK, Channels
<1>7. Links' /\ Past'
  <2>1. Links'
    BY <1>t, <1>1, <1>2, Bounds DEF Links, TypeOK
  <2>2. ASSUME NEW p \in Requesters, NEW i \in Jobs, fate'[<<p, i>>] # "new"
        PROVE  i <= submitted'[p]
    <3>1. CASE p = q
      <4>1. i = j \/ fate[<<q, i>>] # "new"
        BY <1>t, <1>1, <2>2, <3>1 DEF TypeOK
      <4>2. i <= j
        BY <1>t, <1>5, <4>1, Bounds DEF Past
      <4>3. QED
        BY <1>t, <1>1, <3>1, <4>2 DEF TypeOK
    <3>2. CASE p # q
      BY <1>t, <1>1, <2>2, <3>2 DEF Past, TypeOK
    <3>3. QED
      BY <3>1, <3>2
  <2>3. QED
    BY <2>1, <2>2 DEF Past
<1>8. \A p \in Requesters, i \in Jobs : fate[<<p, i>>] # "new" => fate'[<<p, i>>] = fate[<<p, i>>]
  BY <1>t, <1>1, <1>5 DEF TypeOK
<1>9. \A p \in Requesters, i \in Jobs :
        fate[<<p, i>>] # "new" /\ i = request'[p].job => i = request[p].job
  BY <1>t, <1>1, <1>5 DEF TypeOK
<1>10. ASSUME NEW p \in Requesters, NEW s \in Sessions, NEW k \in 1 .. Len(queue'[<<p, s>>])
       PROVE  \/ /\ k \in 1 .. Len(queue[<<p, s>>])
                 /\ queue'[<<p, s>>][k] = queue[<<p, s>>][k]
                 /\ queue[<<p, s>>][k].job \in Jobs
                 /\ QueuedJob(p, s, queue[<<p, s>>][k].job)
                 /\ p = q => queue[<<p, s>>][k].job # j
              \/ /\ p = q /\ s = session[q] /\ k = Len(queue[c]) + 1
                 /\ queue'[<<p, s>>][k].job = j
  <2>1. \/ k \in 1 .. Len(queue[<<p, s>>]) /\ queue'[<<p, s>>][k] = queue[<<p, s>>][k]
        \/ p = q /\ s = session[q] /\ k = Len(queue[c]) + 1 /\ queue'[<<p, s>>][k].job = j
    <3>1. CASE <<p, s>> = c
      <4>1. p = q /\ s = session[q] /\ queue'[<<p, s>>] = queue'[c] /\ queue[<<p, s>>] = queue[c]
        BY <1>2, <3>1
      <4>2. k \in 1 .. Len(queue'[c])
        BY <4>1
      <4>3. k \in 1 .. Len(queue[c]) \/ k = Len(queue[c]) + 1
        BY <1>4, <4>2
      <4>4. QED
        BY <1>4, <4>1, <4>3
    <3>2. CASE <<p, s>> # c
      BY <1>4, <3>2 DEF Channels
    <3>3. QED
      BY <3>1, <3>2
  <2>2. ASSUME k \in 1 .. Len(queue[<<p, s>>])
        PROVE  /\ queue[<<p, s>>][k].job \in Jobs
               /\ QueuedJob(p, s, queue[<<p, s>>][k].job)
    BY <2>2, ElementsTyped DEF IInv, ToNode, Queued
  <2>3. QED
    BY <1>5, <2>1, <2>2 DEF QueuedJob
<1>11. Queued'
  <2>1. ASSUME NEW p \in Requesters, NEW s \in Sessions, NEW i \in Jobs, QueuedJob(p, s, i)
        PROVE  QueuedJob(p, s, i)'
    BY <1>1, <1>8, <1>9, <2>1 DEF QueuedJob
  <2>2. ASSUME NEW s, s = session[q] PROVE QueuedJob(q, s, j)'
    BY <1>t, <1>1, <2>2 DEF QueuedJob, TypeOK
  <2>3. ASSUME NEW p \in Requesters, NEW s \in Sessions, NEW k \in 1 .. Len(queue'[<<p, s>>])
        PROVE  QueuedJob(p, s, queue[<<p, s>>][k].job)'
    <3>1. CASE p = q /\ s = session[q] /\ queue'[<<p, s>>][k].job = j
      BY <2>2, <3>1
    <3>2. CASE ~(p = q /\ s = session[q] /\ queue'[<<p, s>>][k].job = j)
      <4>1. /\ queue'[<<p, s>>][k] = queue[<<p, s>>][k]
            /\ queue[<<p, s>>][k].job \in Jobs
            /\ QueuedJob(p, s, queue[<<p, s>>][k].job)
        BY <1>10, <3>2
      <4>2. QED
        BY <2>1, <4>1
    <3>3. QED
      BY <3>1, <3>2
  <2>4. QED
    BY <2>3 DEF Queued
<1>12. Once'
  <2> SUFFICES ASSUME NEW p \in Requesters, NEW s \in Sessions, NEW t \in Sessions,
                      NEW k \in 1 .. Len(queue'[<<p, s>>]), NEW l \in 1 .. Len(queue'[<<p, t>>]),
                      queue'[<<p, s>>][k].job = queue'[<<p, t>>][l].job
               PROVE  s = t /\ k = l
    BY DEF Once
  <2>1. CASE queue'[<<p, s>>][k].job = j /\ p = q
    BY <1>10, <2>1
  <2>2. CASE ~(queue'[<<p, s>>][k].job = j /\ p = q)
    <3>1. /\ k \in 1 .. Len(queue[<<p, s>>]) /\ queue'[<<p, s>>][k] = queue[<<p, s>>][k]
          /\ l \in 1 .. Len(queue[<<p, t>>]) /\ queue'[<<p, t>>][l] = queue[<<p, t>>][l]
      BY <1>10, <2>2
    <3>2. QED
      BY <3>1 DEF IInv, Once
  <2>3. QED
    BY <2>1, <2>2
<1>13. Running'
  <2>1. ASSUME NEW p \in Requesters, handler[p].pc = "running"
        PROVE  handler[p].job \in Jobs /\ fate[<<p, handler[p].job>>] = "running"
               /\ (handler[p].job = request[p].job => handler[p].on = session[p])
    BY <1>t, <2>1 DEF TypeOK, IInv, Running
  <2>2. QED
    BY <1>1, <1>8, <1>9, <2>1 DEF Running
<1>14. Answered' /\ SuccessMeansRun' /\ SuccessWasAcked'
  <2>1. Answered /\ back' = back
    BY <1>1 DEF IInv
  <2>2. Answered'
    BY <1>8, <2>1 DEF Answered, Positive
  <2>3. \A x \in succeeded : x.from \in Requesters /\ x.job \in Jobs
    BY <1>t DEF TypeOK
  <2>4. SuccessMeansRun'
    BY <1>1, <1>8, <2>3 DEF IInv, SuccessMeansRun
  <2>5. SuccessWasAcked'
    BY <1>1 DEF IInv, SuccessWasAcked
  <2>6. QED
    BY <2>2, <2>4, <2>5
<1>15. ASSUME NEW p \in Requesters PROVE AckFirst(p)'
  <2>1. CASE p # q
    <3>1. request'[p] = request[p]
      BY <1>t, <1>1, <2>1 DEF TypeOK
    <3>2. QED
      BY <1>1, <3>1, AckFirstSame DEF IInv
  <2>2. CASE p = q
    <3>1. request'[q].job = j /\ Current(q)' = c
      BY <1>t, <1>1 DEF TypeOK, Current
    <3>2. ~(handler'[q].pc = "running" /\ handler'[q].job = j)
      BY <1>1, <1>5 DEF IInv, Running
    <3>3. ASSUME NEW k \in 1 .. Len(back[c]) PROVE ~Positive(back[c][k], j)
      BY <1>1, <1>2, <1>5 DEF IInv, Answered
    <3>4. QED
      BY <1>1, <2>2, <3>1, <3>2, <3>3 DEF AckFirst, Positive
  <2>3. QED
    BY <2>1, <2>2
<1>16. QED
  BY <1>6, <1>7, <1>11, <1>12, <1>13, <1>14, <1>15 DEF IInv

\* One message is read; c is the connection, and h the message.
LEMMA ReadKeeps ==
  ASSUME IInv, NEW q \in Requesters, Reading(q), NEW c, c = Current(q), NEW h, h = Reply(q),
         request' \in [Requesters -> [job : 0 .. MaxJobs, acked : BOOLEAN]],
         request'[q].job \in {0, request[q].job}, request'[q].acked \in BOOLEAN,
         \A p \in Requesters \ {q} : request'[p] = request[p],
         \/ request'[q].job = 0
         \/ request'[q].acked
         \/ request' = request /\ ~Is(q, "ack"),
         succeeded' \in
           {succeeded, succeeded \cup {[from |-> q, job |-> request[q].job,
                                        acked |-> request[q].acked]}},
         succeeded' # succeeded => Positive(h, request[q].job)
  PROVE  IInv'
<1>t. TypeOK /\ Links
  BY DEF IInv
<1>1. /\ request[q].job \in Jobs /\ back[c] # <<>>
      /\ back' = [back EXCEPT ![c] = Tail(@)]
      /\ UNCHANGED <<session, cached, up, ready, queue, handler, asker, asks, node, fate, submitted>>
  BY <1>t, Bounds DEF Reading, TypeOK, linkVars, nodeVars
<1>2. c \in Channels /\ c = <<q, session[q]>> /\ session[q] \in Sessions
  BY <1>t, <1>1, Bounds DEF TypeOK, Links, Current, Channels
<1>3. back \in [Channels -> Seq(ToRequester)]
  BY <1>t DEF TypeOK, Channels
<1>4. /\ back' \in [Channels -> Seq(ToRequester)]
      /\ 1 \in 1 .. Len(back[c]) /\ Head(back[c]) = back[c][1]
      /\ \A d \in Channels \ {c} : back'[d] = back[d]
      /\ Len(back[c]) \in Nat /\ Len(back'[c]) = Len(back[c]) - 1
      /\ \A k \in 1 .. Len(back'[c]) :
           k + 1 \in 1 .. Len(back[c]) /\ back'[c][k] = back[c][k + 1]
  BY <1>1, <1>2, <1>3, HeadTaken
<1>5. h = back[c][1]
  BY <1>4 DEF Reply
<1>6. TypeOK'
  <2>1. [from |-> q, job |-> request[q].job, acked |-> request[q].acked] \in
          [from : Requesters, job : Jobs, acked : BOOLEAN]
    BY <1>t, <1>1 DEF TypeOK
  <2>2. succeeded' \in SUBSET [from : Requesters, job : Jobs, acked : BOOLEAN]
    BY <1>t, <2>1 DEF TypeOK
  <2>3. QED
    BY <1>t, <1>1, <1>4, <2>2 DEF TypeOK, Channels
<1>7. Links' /\ Past'
  <2>1. Links'
    BY <1>1, <1>2, <1>t DEF Links, Jobs
  <2>2. QED
    BY <1>1, <2>1 DEF IInv, Past
<1>8. Queued' /\ Once' /\ Running'
  <2>1. \A p \in Requesters : request'[p].job \in {0, request[p].job}
    OBVIOUS
  <2>2. QED
    BY <1>1, <2>1, QueuesKept
<1>9. Answered'
  <2>1. ASSUME NEW p \in Requesters, NEW s \in Sessions, NEW j \in Jobs,
               NEW k \in 1 .. Len(back'[<<p, s>>]), Positive(back'[<<p, s>>][k], j)
        PROVE  fate[<<p, j>>] = "ended"
    <3>1. CASE <<p, s>> = c
      <4>1. k \in 1 .. Len(back'[c]) /\ back'[<<p, s>>] = back'[c] /\ back[<<p, s>>] = back[c]
        BY <3>1
      <4>2. k + 1 \in 1 .. Len(back[<<p, s>>]) /\ back'[<<p, s>>][k] = back[<<p, s>>][k + 1]
        BY <1>4, <4>1
      <4>3. QED
        BY <2>1, <4>2 DEF IInv, Answered
    <3>2. CASE <<p, s>> # c
      <4>1. back'[<<p, s>>] = back[<<p, s>>]
        BY <1>4, <3>2 DEF Channels
      <4>2. QED
        BY <2>1, <4>1 DEF IInv, Answered
    <3>3. QED
      BY <3>1, <3>2
  <2>2. QED
    BY <1>1, <2>1 DEF Answered
<1>10. SuccessMeansRun' /\ SuccessWasAcked'
  <2>1. CASE succeeded' = succeeded
    BY <1>1, <2>1 DEF IInv, SuccessMeansRun, SuccessWasAcked
  <2>2. CASE succeeded' # succeeded
    <3>1. Positive(back[c][1], request[q].job)
      BY <1>5, <2>2
    <3>2. fate[<<q, request[q].job>>] = "ended"
      BY <1>1, <1>2, <1>4, <3>1 DEF IInv, Answered
    <3>3. request[q].acked
      <4> SUFFICES ASSUME ~request[q].acked PROVE FALSE
        OBVIOUS
      <4>1. Unacked(q)
        BY <1>1 DEF Unacked, Jobs
      <4>2. AckWithin(q, 1 - 1)
        BY <1>4, <3>1, <4>1 DEF IInv, AckFirst
      <4>3. QED
        BY <4>2 DEF AckWithin
    <3>4. SuccessMeansRun'
      <4> SUFFICES ASSUME NEW r \in succeeded' PROVE fate'[<<r.from, r.job>>] = "ended"
        BY DEF SuccessMeansRun
      <4>1. CASE r \in succeeded
        BY <1>1, <4>1 DEF IInv, SuccessMeansRun
      <4>2. CASE r = [from |-> q, job |-> request[q].job, acked |-> request[q].acked]
        BY <1>1, <3>2, <4>2
      <4>3. QED
        BY <4>1, <4>2
    <3>5. SuccessWasAcked'
      BY <1>1, <3>3 DEF IInv, SuccessWasAcked
    <3>6. QED
      BY <3>4, <3>5
  <2>3. QED
    BY <2>1, <2>2
<1>11. ASSUME NEW p \in Requesters PROVE AckFirst(p)'
  <2>1. CASE p # q
    <3>1. CASE request[p].job = 0
      BY <2>1, <3>1 DEF AckFirst, Unacked
    <3>2. CASE request[p].job # 0
      <4>1. Current(p) \in Channels \ {c}
        BY <1>t, <1>2, <2>1, <3>2, Bounds DEF TypeOK, Links, Current, Channels
      <4>2. QED
        BY <1>1, <1>4, <2>1, <4>1, AckFirstSame DEF IInv
    <3>3. QED
      BY <3>1, <3>2
  <2>2. CASE p = q /\ (request'[q].job = 0 \/ request'[q].acked)
    BY <2>2 DEF AckFirst, Unacked
  <2>3. CASE p = q /\ request' = request /\ ~Is(q, "ack")
    <3>1. ~(back[c][1].type = "ack" /\ back[c][1].job = request[q].job)
      BY <1>5, <2>3 DEF Is
    <3>2. ASSUME NEW n \in Nat, n < Len(back[c]), AckWithin(q, n + 1) PROVE AckWithin(q, n)'
      <4>1. PICK i \in 1 .. n + 1 : back[c][i].type = "ack" /\ back[c][i].job = request[q].job
        BY <3>2 DEF AckWithin
      <4>2. i - 1 \in 1 .. n /\ i - 1 \in 1 .. Len(back'[c]) /\ back'[c][i - 1] = back[c][i]
        <5>1. i # 1
          BY <3>1, <4>1
        <5>2. i - 1 \in 1 .. n /\ i - 1 \in 1 .. Len(back'[c]) /\ (i - 1) + 1 = i
          BY <1>4, <3>2, <5>1
        <5>3. QED
          BY <1>4, <5>2
      <4>3. Current(q)' = c
        BY <1>1 DEF Current
      <4>4. QED
        BY <2>3, <4>1, <4>2, <4>3 DEF AckWithin
    <3>3. Current(q)' = c /\ request'[q] = request[q] /\ (Unacked(q)' => Unacked(q)) /\ AckFirst(q)
      BY <1>1, <2>3 DEF Current, Unacked, IInv
    <3>4. ASSUME Unacked(q), handler[q].pc = "running", handler[q].job = request[q].job, c \in up,
                 NEW n \in Nat, n = Len(back'[c])
          PROVE  AckWithin(q, n)'
      <4>1. AckWithin(q, n + 1) /\ n < Len(back[c])
        BY <1>4, <3>3, <3>4 DEF AckFirst
      <4>2. QED
        BY <3>2, <4>1
    <3>5. ASSUME Unacked(q), NEW k \in 1 .. Len(back'[c]),
                 Positive(back'[c][k], request[q].job)
          PROVE  AckWithin(q, k - 1)'
      <4>1. Positive(back[c][k + 1], request[q].job) /\ k + 1 \in 1 .. Len(back[c])
        BY <1>4, <3>5
      <4>2. k - 1 \in Nat /\ k - 1 < Len(back[c]) /\ (k - 1) + 1 = (k + 1) - 1
        BY <1>4, <4>1
      <4>3. AckWithin(q, (k - 1) + 1)
        BY <3>3, <3>5, <4>1, <4>2 DEF AckFirst
      <4>4. QED
        BY <3>2, <4>2, <4>3
    <3>6. Len(back'[c]) \in Nat
      BY <1>4
    <3>7. QED
      BY <1>1, <2>3, <3>3, <3>4, <3>5, <3>6 DEF AckFirst, Positive
  <2>4. QED
    BY <2>1, <2>2, <2>3
<1>12. QED
  BY <1>6, <1>7, <1>8, <1>9, <1>10, <1>11 DEF IInv

LEMMA ReadSteps ==
  ASSUME IInv, NEW q \in Requesters,
         ReadAck(q) \/ ReadResult(q) \/ ReadError(q) \/ ReadOther(q)
  PROVE  IInv'
<1>t. request \in [Requesters -> [job : 0 .. MaxJobs, acked : BOOLEAN]] /\ 0 \in 0 .. MaxJobs
  BY Bounds DEF IInv, TypeOK
<1>1. CASE ReadAck(q)
  BY <1>t, <1>1, ReadKeeps DEF ReadAck
<1>2. CASE ReadResult(q)
  <2>1. /\ Reading(q) /\ Reply(q).type = "result" /\ Reply(q).job = request[q].job
        /\ request' = [request EXCEPT ![q] = [job |-> 0, acked |-> FALSE]]
        /\ \/ succeeded' = succeeded
           \/ /\ Reply(q).ok
              /\ succeeded' = succeeded \cup {[from |-> q, job |-> request[q].job,
                                               acked |-> request[q].acked]}
    BY <1>2 DEF ReadResult, Is, Finished
  <2>2. QED
    BY <1>t, <2>1, ReadKeeps DEF Positive
<1>3. CASE ReadError(q)
  BY <1>t, <1>3, ReadKeeps DEF ReadError, Finished
<1>4. CASE ReadOther(q)
  BY <1>t, <1>4, ReadKeeps DEF ReadOther
<1>5. QED
  BY <1>1, <1>2, <1>3, <1>4

-----------------------------------------------------------------------------
(***************************************************************************)
(* What the node does.                                                     *)
(***************************************************************************)
\* A message m is sent on c: an ack when the job begins, and no success unless
\* the ack is there.
LEMMA AckFirstSent ==
  ASSUME IInv, NEW q \in Requesters, NEW c \in Channels, NEW m \in ToRequester, back' = Sent(c, m),
         UNCHANGED <<session, up, request>>,
         Unacked(q) /\ handler'[q].pc = "running" /\ handler'[q].job = request[q].job =>
           \/ handler'[q] = handler[q]
           \/ c = Current(q) /\ m.type = "ack" /\ m.job = request[q].job,
         Unacked(q) /\ c = Current(q) /\ c \in up /\ Positive(m, request[q].job) =>
           AckWithin(q, Len(back[c]))
  PROVE  AckFirst(q)'
<1> SUFFICES ASSUME Unacked(q) PROVE AckFirst(q)'
  BY DEF AckFirst, Unacked
<1>t. TypeOK /\ Links /\ AckFirst(q)
  BY DEF IInv
<1>1. Current(q)' = Current(q) /\ Current(q) \in Channels
  BY <1>t, Bounds DEF TypeOK, Links, Current, Channels, Unacked
<1>2. /\ \A d \in Channels \ {c} : back'[d] = back[d]
      /\ Len(back[c]) \in Nat
      /\ \A k \in 1 .. Len(back[c]) : back'[c][k] = back[c][k]
      /\ c \notin up => back'[c] = back[c]
      /\ c \in up => Len(back'[c]) = Len(back[c]) + 1 /\ back'[c][Len(back[c]) + 1] = m
  BY <1>t, SentAdds
<1>3. CASE c # Current(q) \/ c \notin up
  <2>1. back'[Current(q)] = back[Current(q)]
    BY <1>1, <1>2, <1>3
  <2>2. ASSUME NEW n, AckWithin(q, n) PROVE AckWithin(q, n)'
    BY <1>1, <2>1, <2>2 DEF AckWithin
  <2>3. ASSUME handler'[q].pc = "running", handler'[q].job = request[q].job, Current(q) \in up,
               NEW n, n = Len(back[Current(q)])
        PROVE  AckWithin(q, n)
    BY <1>3, <1>t, <2>3 DEF AckFirst
  <2>4. ASSUME NEW k \in 1 .. Len(back[Current(q)]),
               Positive(back[Current(q)][k], request[q].job)
        PROVE  AckWithin(q, k - 1)
    BY <1>t, <2>4 DEF AckFirst
  <2>5. QED
    BY <1>1, <2>1, <2>2, <2>3, <2>4 DEF AckFirst, Positive
<1>4. CASE c = Current(q) /\ c \in up
  <2>1. ASSUME NEW n \in Nat, n <= Len(back[c]), AckWithin(q, n),
               NEW l \in Nat, n <= l
        PROVE  AckWithin(q, l)'
    <3>1. PICK i \in 1 .. n : back[c][i].type = "ack" /\ back[c][i].job = request[q].job
      BY <1>4, <2>1 DEF AckWithin
    <3>2. i \in 1 .. Len(back[c]) /\ i \in 1 .. l
      BY <1>2, <2>1
    <3>3. back'[c][i] = back[c][i]
      BY <1>2, <3>2
    <3>4. QED
      BY <1>1, <1>4, <3>1, <3>2, <3>3 DEF AckWithin
  <2>2. ASSUME handler'[q].pc = "running", handler'[q].job = request[q].job,
               NEW n \in Nat, n = Len(back[c]) + 1
        PROVE  AckWithin(q, n)'
    <3>1. CASE handler'[q] = handler[q]
      <4>1. AckWithin(q, Len(back[c]))
        BY <1>t, <1>4, <2>2, <3>1 DEF AckFirst
      <4>2. QED
        BY <1>2, <2>1, <2>2, <4>1
    <3>2. CASE m.type = "ack" /\ m.job = request[q].job
      <4>1. n \in 1 .. n /\ back'[c][n] = m
        BY <1>2, <1>4, <2>2
      <4>2. QED
        BY <1>1, <1>4, <3>2, <4>1 DEF AckWithin
    <3>3. QED
      BY <2>2, <3>1, <3>2
  <2>3. ASSUME NEW k \in 1 .. Len(back[c]) + 1, Positive(back'[c][k], request[q].job)
        PROVE  AckWithin(q, k - 1)'
    <3>1. CASE k \in 1 .. Len(back[c])
      <4>1. AckWithin(q, k - 1)
        BY <1>t, <1>2, <1>4, <2>3, <3>1 DEF AckFirst
      <4>2. k - 1 \in Nat /\ k - 1 <= Len(back[c])
        BY <1>2, <3>1
      <4>3. QED
        BY <2>1, <4>1, <4>2
    <3>2. CASE k = Len(back[c]) + 1
      <4>1. AckWithin(q, Len(back[c])) /\ k - 1 = Len(back[c])
        BY <1>2, <1>4, <2>3, <3>2
      <4>2. QED
        BY <1>2, <2>1, <4>1
    <3>3. QED
      BY <1>2, <3>1, <3>2
  <2>4. Len(back'[c]) = Len(back[c]) + 1 /\ Len(back'[c]) \in Nat
    BY <1>2, <1>4
  <2>5. QED
    BY <1>1, <1>4, <2>2, <2>3, <2>4 DEF AckFirst, Positive
<1>5. QED
  BY <1>3, <1>4

\* Nothing but m, which is a success only if its job has ended, is added to the answers.
LEMMA AnsweredSent ==
  ASSUME IInv, NEW c \in Channels, NEW m \in ToRequester, back' = Sent(c, m),
         \A p \in Requesters, i \in Jobs : fate[<<p, i>>] = "ended" => fate'[<<p, i>>] = "ended",
         \A j \in Jobs : Positive(m, j) => fate'[<<c[1], j>>] = "ended"
  PROVE  Answered'
<1>1. ASSUME NEW p \in Requesters, NEW s \in Sessions, NEW j \in Jobs,
             NEW k \in 1 .. Len(back'[<<p, s>>]), Positive(back'[<<p, s>>][k], j)
      PROVE  fate'[<<p, j>>] = "ended"
  <2>1. <<p, s>> \in Channels /\ TypeOK
    BY DEF Channels, IInv
  <2>2. \/ k \in 1 .. Len(back[<<p, s>>]) /\ back'[<<p, s>>][k] = back[<<p, s>>][k]
        \/ <<p, s>> = c /\ back'[<<p, s>>][k] = m
    <3>1. CASE <<p, s>> # c
      BY <2>1, <3>1, SentAdds
    <3>2. CASE <<p, s>> = c /\ c \notin up
      BY <2>1, <3>2, SentAdds
    <3>3. CASE <<p, s>> = c /\ c \in up
      <4>1. /\ Len(back[c]) \in Nat /\ Len(back'[c]) = Len(back[c]) + 1
            /\ \A i \in 1 .. Len(back[c]) : back'[c][i] = back[c][i]
            /\ back'[c][Len(back[c]) + 1] = m
        BY <2>1, <3>3, SentAdds
      <4>2. k \in 1 .. Len(back'[c]) /\ back'[<<p, s>>] = back'[c] /\ back[<<p, s>>] = back[c]
        BY <3>3
      <4>3. k \in 1 .. Len(back[c]) \/ k = Len(back[c]) + 1
        BY <4>1, <4>2
      <4>4. QED
        BY <3>3, <4>1, <4>2, <4>3
    <3>4. QED
      BY <3>1, <3>2, <3>3
  <2>3. QED
    BY <1>1, <2>2 DEF IInv, Answered
<1>2. QED
  BY <1>1 DEF Answered, Positive

\* Job j is taken from the queue of c.
Takes(q, s, c, j, f) ==
  /\ c = <<q, s>> /\ queue[c] # <<>>
  /\ queue' = [queue EXCEPT ![c] = Tail(@)]
  /\ j = Head(queue[c]).job
  /\ Fate(q, j, f)
  /\ UNCHANGED <<linkVars, requesterVars>>

Taken(q, s, j, f) ==
  /\ queue' \in [Channels -> Seq(ToNode)]
  /\ fate' \in [Requesters \X Jobs ->
                {"new", "queued", "running", "ended", "refused", "fatal", "lost"}]
  /\ j \in Jobs /\ QueuedJob(q, s, j)
  /\ fate'[<<q, j>>] = f
  /\ \A p \in Requesters, i \in Jobs : <<p, i>> # <<q, j>> => fate'[<<p, i>>] = fate[<<p, i>>]
  /\ Past' /\ Queued' /\ Once'

LEMMA TakeKeeps ==
  ASSUME IInv, NEW q \in Requesters, NEW s \in Sessions, NEW c, NEW j,
         NEW f \in {"running", "refused", "fatal", "lost"}, Takes(q, s, c, j, f)
  PROVE  Taken(q, s, j, f)
<1>t. TypeOK
  BY DEF IInv
<1>1. queue \in [Channels -> Seq(ToNode)] /\ c \in Channels
  BY <1>t DEF TypeOK, Channels, Takes
<1>2. /\ queue' \in [Channels -> Seq(ToNode)]
      /\ 1 \in 1 .. Len(queue[c]) /\ Head(queue[c]) = queue[c][1] /\ queue[c][1] \in ToNode
      /\ \A d \in Channels \ {c} : queue'[d] = queue[d]
      /\ Len(queue[c]) \in Nat /\ Len(queue'[c]) = Len(queue[c]) - 1
      /\ \A k \in 1 .. Len(queue'[c]) :
           k + 1 \in 1 .. Len(queue[c]) /\ queue'[c][k] = queue[c][k + 1]
  BY <1>1, HeadTaken DEF Takes
<1>3. /\ c = <<q, s>> /\ j = queue[c][1].job /\ j \in Jobs
      /\ UNCHANGED <<session, request, submitted>>
  BY <1>2 DEF Takes, ToNode, linkVars, requesterVars
<1>4. QueuedJob(q, s, j)
  BY <1>2, <1>3 DEF IInv, Queued
<1>5. /\ fate' \in [Requesters \X Jobs ->
                    {"new", "queued", "running", "ended", "refused", "fatal", "lost"}]
      /\ fate'[<<q, j>>] = f
      /\ \A p \in Requesters, i \in Jobs : <<p, i>> # <<q, j>> => fate'[<<p, i>>] = fate[<<p, i>>]
  BY <1>t, <1>3 DEF Takes, Fate, TypeOK
<1>6. Past'
  <2>1. fate[<<q, j>>] # "new"
    BY <1>4 DEF QueuedJob
  <2>2. ASSUME NEW p \in Requesters, NEW i \in Jobs, fate'[<<p, i>>] # "new"
        PROVE  fate[<<p, i>>] # "new"
    BY <1>5, <2>1, <2>2
  <2>3. QED
    BY <1>3, <2>2 DEF IInv, Past
<1>7. \* Where what is left was.
      ASSUME NEW p \in Requesters, NEW t \in Sessions, NEW k \in 1 .. Len(queue'[<<p, t>>])
      PROVE  \E l \in 1 .. Len(queue[<<p, t>>]) :
               /\ queue'[<<p, t>>][k] = queue[<<p, t>>][l]
               /\ <<p, t>> = c => l = k + 1
               /\ <<p, t>> # c => l = k
               /\ <<p, queue[<<p, t>>][l].job>> # <<q, j>>
               /\ queue[<<p, t>>][l].job \in Jobs
  <2>1. <<p, t>> \in Channels
    BY DEF Channels
  <2>2. PICK l \in 1 .. Len(queue[<<p, t>>]) :
               /\ queue'[<<p, t>>][k] = queue[<<p, t>>][l]
               /\ <<p, t>> = c => l = k + 1
               /\ <<p, t>> # c => l = k
    <3>1. CASE <<p, t>> = c
      <4>1. k \in 1 .. Len(queue'[c]) /\ queue'[<<p, t>>] = queue'[c] /\ queue[<<p, t>>] = queue[c]
        BY <3>1
      <4>2. QED
        BY <1>2, <3>1, <4>1
    <3>2. CASE <<p, t>> # c
      <4>1. queue'[<<p, t>>] = queue[<<p, t>>]
        BY <1>2, <2>1, <3>2
      <4>2. QED
        BY <3>2, <4>1
    <3>3. QED
      BY <3>1, <3>2
  <2>3. queue[<<p, t>>][l].job \in Jobs
    BY <1>t, ElementsTyped DEF ToNode
  <2>4. <<p, queue[<<p, t>>][l].job>> # <<q, j>>
    <3> SUFFICES ASSUME p = q, queue[<<p, t>>][l].job = j PROVE FALSE
      OBVIOUS
    <3>1. 1 \in 1 .. Len(queue[<<q, s>>]) /\ queue[<<q, s>>][1].job = j
      BY <1>2, <1>3
    <3>2. t = s /\ l = 1
      BY <3>1 DEF IInv, Once
    <3>3. l = k + 1 /\ k \in Nat /\ k # 0
      BY <1>3, <2>2, <3>2
    <3>4. QED
      BY <3>2, <3>3
  <2>5. QED
    BY <2>2, <2>3, <2>4
<1>8. Queued'
  <2>1. ASSUME NEW p \in Requesters, NEW t \in Sessions, NEW k \in 1 .. Len(queue'[<<p, t>>])
        PROVE  QueuedJob(p, t, queue[<<p, t>>][k].job)'
    <3>1. PICK l \in 1 .. Len(queue[<<p, t>>]) :
               /\ queue'[<<p, t>>][k] = queue[<<p, t>>][l]
               /\ <<p, queue[<<p, t>>][l].job>> # <<q, j>>
               /\ queue[<<p, t>>][l].job \in Jobs
      BY <1>7
    <3>2. QueuedJob(p, t, queue[<<p, t>>][l].job)
      BY DEF IInv, Queued
    <3>3. ASSUME NEW i \in Jobs, QueuedJob(p, t, i), <<p, i>> # <<q, j>> PROVE QueuedJob(p, t, i)'
      BY <1>3, <1>5, <3>3 DEF QueuedJob
    <3>4. QED
      BY <3>1, <3>2, <3>3
  <2>2. QED
    BY <2>1 DEF Queued
<1>9. Once'
  <2> SUFFICES ASSUME NEW p \in Requesters, NEW t \in Sessions, NEW u \in Sessions,
                      NEW k \in 1 .. Len(queue'[<<p, t>>]), NEW l \in 1 .. Len(queue'[<<p, u>>]),
                      queue'[<<p, t>>][k].job = queue'[<<p, u>>][l].job
               PROVE  t = u /\ k = l
    BY DEF Once
  <2>1. PICK m \in 1 .. Len(queue[<<p, t>>]) :
          /\ queue'[<<p, t>>][k] = queue[<<p, t>>][m]
          /\ <<p, t>> = c => m = k + 1
          /\ <<p, t>> # c => m = k
    BY <1>7
  <2>2. PICK n \in 1 .. Len(queue[<<p, u>>]) :
          /\ queue'[<<p, u>>][l] = queue[<<p, u>>][n]
          /\ <<p, u>> = c => n = l + 1
          /\ <<p, u>> # c => n = l
    BY <1>7
  <2>3. t = u /\ m = n
    BY <2>1, <2>2 DEF IInv, Once
  <2>4. QED
    BY <2>1, <2>2, <2>3
<1>10. QED
  BY <1>2, <1>3, <1>4, <1>5, <1>6, <1>8, <1>9 DEF Taken

\* What is taken is answered with m, or not at all; a job that begins is
\* acknowledged.
Serves(q, s, c, j, f, m) ==
  /\ Takes(q, s, c, j, f)
  /\ back' \in {back, Sent(c, m)} /\ m \in ToRequester
  /\ \A i \in Jobs : ~Positive(m, i)
  /\ handler' \in [Requesters -> [pc : HandlerPCs, on : 0 .. MaxSessions, job : 0 .. MaxJobs]]
  /\ \A p \in Requesters : handler'[p].pc # "none" => handler'[p].on # 0
  /\ \A p \in Requesters : handler'[p].pc = "running" =>
       \/ handler'[p] = handler[p]
       \/ /\ p = q /\ f = "running" /\ handler'[q].job = j /\ handler'[q].on = s
          /\ back' = Sent(c, m) /\ m.type = "ack" /\ m.job = j
  /\ UNCHANGED <<asker, asks, node>>

LEMMA ServeKeeps ==
  ASSUME IInv, NEW q \in Requesters, NEW s \in Sessions, NEW c, NEW j,
         NEW f \in {"running", "refused", "fatal", "lost"}, NEW m, Serves(q, s, c, j, f, m)
  PROVE  IInv'
<1>s. /\ Takes(q, s, c, j, f)
      /\ back' \in {back, Sent(c, m)} /\ m \in ToRequester
      /\ \A i \in Jobs : ~Positive(m, i)
      /\ handler' \in [Requesters -> [pc : HandlerPCs, on : 0 .. MaxSessions, job : 0 .. MaxJobs]]
      /\ \A p \in Requesters : handler'[p].pc # "none" => handler'[p].on # 0
      /\ \A p \in Requesters : handler'[p].pc = "running" =>
           \/ handler'[p] = handler[p]
           \/ /\ p = q /\ f = "running" /\ handler'[q].job = j /\ handler'[q].on = s
              /\ back' = Sent(c, m) /\ m.type = "ack" /\ m.job = j
      /\ UNCHANGED <<asker, asks, node>>
  BY DEF Serves
<1>t. TypeOK /\ Links
  BY DEF IInv
<1>1. /\ queue' \in [Channels -> Seq(ToNode)]
      /\ fate' \in [Requesters \X Jobs ->
                    {"new", "queued", "running", "ended", "refused", "fatal", "lost"}]
      /\ j \in Jobs /\ QueuedJob(q, s, j)
      /\ fate'[<<q, j>>] = f
      /\ \A p \in Requesters, i \in Jobs : <<p, i>> # <<q, j>> => fate'[<<p, i>>] = fate[<<p, i>>]
      /\ Past' /\ Queued' /\ Once'
  <2>1. Taken(q, s, j, f)
    BY <1>s, TakeKeeps
  <2>2. QED
    BY <2>1 DEF Taken
<1>2. /\ c = <<q, s>> /\ c \in Channels
      /\ UNCHANGED <<session, cached, up, ready, request, succeeded, submitted>>
  BY <1>s DEF Takes, linkVars, requesterVars, Channels
<1>3. fate[<<q, j>>] = "queued"
  BY <1>1 DEF QueuedJob
<1>4. \A p \in Requesters, i \in Jobs : fate[<<p, i>>] = "ended" => fate'[<<p, i>>] = "ended"
  BY <1>1, <1>3
<1>5. back' \in [Channels -> Seq(ToRequester)]
  <2>1. back \in [Channels -> Seq(ToRequester)]
    BY <1>t DEF TypeOK, Channels
  <2>2. QED
    BY <1>s, <1>t, <1>2, <2>1, SentAdds
<1>6. \A p \in Requesters : handler'[p].pc = "running" => handler'[p].job \in Jobs
  BY <1>s, <1>t, <1>1 DEF TypeOK
<1>7. TypeOK'
  BY <1>s, <1>t, <1>1, <1>2, <1>5, <1>6 DEF TypeOK, Channels
<1>8. Links'
  BY <1>s, <1>t, <1>2 DEF Links
<1>9. Running'
  <2> SUFFICES ASSUME NEW p \in Requesters, handler'[p].pc = "running"
               PROVE  /\ fate'[<<p, handler'[p].job>>] = "running"
                      /\ handler'[p].job = request'[p].job => handler'[p].on = session'[p]
    BY DEF Running
  <2>1. CASE handler'[p] = handler[p]
    <3>1. fate[<<p, handler[p].job>>] = "running" /\ handler[p].job \in Jobs
      BY <1>t, <2>1 DEF IInv, Running, TypeOK
    <3>2. <<p, handler[p].job>> # <<q, j>>
      BY <1>3, <3>1
    <3>3. fate'[<<p, handler'[p].job>>] = "running"
      BY <1>1, <2>1, <3>1, <3>2
    <3>4. handler[p].job = request[p].job => handler[p].on = session[p]
      BY <2>1 DEF IInv, Running
    <3>5. QED
      BY <1>2, <2>1, <3>3, <3>4
  <2>2. CASE p = q /\ f = "running" /\ handler'[q].job = j /\ handler'[q].on = s
    BY <1>1, <1>2, <2>2 DEF QueuedJob
  <2>3. QED
    BY <1>s, <2>1, <2>2
<1>10. Answered'
  <2>1. CASE back' = back
    BY <1>4, <2>1 DEF IInv, Answered, Positive
  <2>2. CASE back' = Sent(c, m)
    BY <1>s, <1>2, <1>4, <2>2, AnsweredSent
  <2>3. QED
    BY <1>s, <2>1, <2>2
<1>11. SuccessMeansRun' /\ SuccessWasAcked'
  <2>1. \A x \in succeeded : x.from \in Requesters /\ x.job \in Jobs
    BY <1>t DEF TypeOK
  <2>2. QED
    BY <1>2, <1>4, <2>1 DEF IInv, SuccessMeansRun, SuccessWasAcked
<1>12. ASSUME NEW p \in Requesters PROVE AckFirst(p)'
  <2>1. CASE back' = back /\ (handler'[p].pc = "running" => handler'[p] = handler[p])
    BY <1>s, <1>2, <2>1, AckFirstSame DEF IInv
  <2>2. CASE back' = Sent(c, m)
    <3>1. ASSUME Unacked(p), handler'[p].pc = "running", handler'[p].job = request[p].job,
                 handler'[p] # handler[p]
          PROVE  c = Current(p) /\ m.type = "ack" /\ m.job = request[p].job
      <4>1. p = q /\ j = request[q].job /\ m.type = "ack" /\ m.job = j
        BY <1>s, <3>1
      <4>2. s = session[q]
        BY <1>1, <4>1 DEF QueuedJob
      <4>3. QED
        BY <1>2, <4>1, <4>2 DEF Current
    <3>2. request[p].job = 0 \/ request[p].job \in Jobs
      BY <1>t, Bounds DEF TypeOK
    <3>3. ~(Unacked(p) /\ Positive(m, request[p].job))
      BY <1>s, <3>2 DEF Unacked
    <3>4. QED
      BY <1>s, <1>2, <2>2, <3>1, <3>3, AckFirstSent
  <2>3. QED
    BY <1>s, <2>1, <2>2
<1>13. QED
  BY <1>1, <1>7, <1>8, <1>9, <1>10, <1>11, <1>12 DEF IInv

LEMMA ServeSteps ==
  ASSUME IInv, NEW q \in Requesters,
         StartJob(q) \/ RefuseJob(q) \/ RefuseMessage(q) \/ HandlerDies(q)
  PROVE  IInv'
<1> DEFINE s == handler[q].on
           c == Channel(q)
           j == Head(queue[c]).job
<1>t. TypeOK /\ Links
  BY DEF IInv
<1>1. handler[q].pc = "waiting" /\ s \in Sessions /\ c = <<q, s>>
  BY <1>t, Bounds DEF StartJob, RefuseJob, RefuseMessage, HandlerDies, Taking, HandlerAt, Channel,
                      TypeOK, Links
<1>2. /\ queue[c] # <<>> /\ queue' = [queue EXCEPT ![c] = Tail(@)]
      /\ UNCHANGED <<linkVars, requesterVars, asker, asks, node>>
  BY DEF StartJob, RefuseJob, RefuseMessage, HandlerDies, Taking, HandlerAt
<1>3. j \in Jobs
  <2>1. queue[c] \in Seq(ToNode)
    BY <1>t, <1>1 DEF TypeOK
  <2>2. Head(queue[c]) \in ToNode
    BY <1>2, <2>1, HeadTailProperties
  <2>3. QED
    BY <2>2 DEF ToNode
<1>4. /\ Ack(j) \in ToRequester /\ Result(j, FALSE) \in ToRequester /\ Error \in ToRequester
      /\ \A i \in Jobs : ~Positive(Ack(j), i) /\ ~Positive(Result(j, FALSE), i) /\ ~Positive(Error, i)
      /\ Ack(j).type = "ack" /\ Ack(j).job = j
  BY <1>3 DEF Ack, Result, Error, ToRequester, Positive
<1>5. "running" \in HandlerPCs /\ "checking" \in HandlerPCs /\ "done" \in HandlerPCs
      /\ 0 \in 0 .. MaxJobs /\ j \in 0 .. MaxJobs
  BY <1>3, Bounds DEF HandlerPCs
<1>6. CASE StartJob(q)
  <2>1. back' = Sent(c, Ack(j)) /\ HandlerGoes(q, "running", j) /\ Takes(q, s, c, j, "running")
    BY <1>1, <1>2, <1>6 DEF StartJob, Takes
  <2>2. Serves(q, s, c, j, "running", Ack(j))
    <3>1. /\ handler' \in [Requesters ->
                             [pc : HandlerPCs, on : 0 .. MaxSessions, job : 0 .. MaxJobs]]
          /\ \A p \in Requesters : handler'[p].pc # "none" => handler'[p].on # 0
          /\ \A p \in Requesters \ {q} : handler'[p] = handler[p]
          /\ handler'[q].job = j /\ handler'[q].on = s
      BY <1>t, <1>1, <1>5, <2>1, HandlerMoves
    <3>2. QED
      BY <1>2, <1>4, <2>1, <3>1 DEF Serves
  <2>3. QED
    BY <1>1, <2>2, ServeKeeps
<1>7. CASE RefuseJob(q)
  <2>1. /\ back' = Sent(c, Result(j, FALSE)) /\ HandlerGoes(q, "checking", 0)
        /\ Takes(q, s, c, j, "refused")
    BY <1>1, <1>2, <1>7 DEF RefuseJob, Takes
  <2>2. Serves(q, s, c, j, "refused", Result(j, FALSE))
    BY <1>t, <1>1, <1>2, <1>4, <1>5, <2>1, HandlerMoves DEF Serves
  <2>3. QED
    BY <1>1, <2>2, ServeKeeps
<1>8. CASE RefuseMessage(q)
  <2>1. /\ back' = Sent(c, Error) /\ HandlerGoes(q, "checking", 0) /\ Takes(q, s, c, j, "refused")
    BY <1>1, <1>2, <1>8 DEF RefuseMessage, Takes
  <2>2. Serves(q, s, c, j, "refused", Error)
    BY <1>t, <1>1, <1>2, <1>4, <1>5, <2>1, HandlerMoves DEF Serves
  <2>3. QED
    BY <1>1, <2>2, ServeKeeps
<1>9. CASE HandlerDies(q)
  <2>1. back' = back /\ HandlerGoes(q, "done", 0) /\ Takes(q, s, c, j, "fatal")
    BY <1>1, <1>2, <1>9 DEF HandlerDies, Takes
  <2>2. Serves(q, s, c, j, "fatal", Error)
    BY <1>t, <1>1, <1>2, <1>4, <1>5, <2>1, HandlerMoves DEF Serves
  <2>3. QED
    BY <1>1, <2>2, ServeKeeps
<1>10. QED
  BY <1>6, <1>7, <1>8, <1>9

LEMMA AskerStep ==
  ASSUME IInv, NEW q \in Requesters, AskerTakes(q)
  PROVE  IInv'
<1> DEFINE s == asker[q]
           c == <<q, s>>
           j == Head(queue[c]).job
<1>t. TypeOK /\ Links
  BY DEF IInv
<1>1. s \in Sessions
  BY <1>t, Bounds DEF AskerTakes, TypeOK
<1>2. Takes(q, s, c, j, "lost") /\ UNCHANGED <<back, handler, asker, asks, node>>
  BY DEF AskerTakes, Takes, nodeVars
<1>3. Error \in ToRequester /\ \A i \in Jobs : ~Positive(Error, i)
  BY DEF Error, ToRequester, Positive
<1>4. QED
  <2>1. Serves(q, s, c, j, "lost", Error)
    BY <1>t, <1>2, <1>3 DEF Serves, TypeOK, Links
  <2>2. QED
    BY <1>1, <2>1, ServeKeeps

LEMMA AskStep ==
  ASSUME IInv, NEW q \in Requesters, Ask(q)
  PROVE  IInv'
<1> DEFINE m == [type |-> "submit"]
<1>t. TypeOK /\ Links
  BY DEF IInv
<1>1. /\ asker' = [asker EXCEPT ![q] = session[q]] /\ asks' = asks + 1 /\ asks < MaxAsks
      /\ back' = Sent(Current(q), m)
      /\ UNCHANGED <<session, cached, up, ready, queue, handler, node, request, succeeded, submitted, fate>>
  BY DEF Ask, linkVars, requesterVars
<1>2. Current(q) \in Channels /\ m \in ToRequester /\ \A i \in Jobs : ~Positive(m, i)
  BY <1>t DEF Ask, TypeOK, Channels, ToRequester, Positive
<1>3. TypeOK'
  <2>1. back' \in [Channels -> Seq(ToRequester)]
    BY <1>t, <1>1, <1>2, SentAdds
  <2>2. asker' \in [Requesters -> 0 .. MaxSessions] /\ asks' \in 0 .. MaxAsks
    BY <1>t, <1>1, Bounds DEF TypeOK
  <2>3. QED
    BY <1>t, <1>1, <2>1, <2>2 DEF TypeOK, Channels
<1>4. Links' /\ Past' /\ SuccessMeansRun' /\ SuccessWasAcked'
  BY <1>1 DEF IInv, Links, Past, SuccessMeansRun, SuccessWasAcked
<1>5. Queued' /\ Once' /\ Running'
  BY <1>1, QueuesKept
<1>6. Answered'
  BY <1>1, <1>2, AnsweredSent
<1>7. ASSUME NEW p \in Requesters PROVE AckFirst(p)'
  <2>1. request[p].job = 0 \/ request[p].job \in Jobs
    BY <1>t, Bounds DEF TypeOK
  <2>2. ~(Unacked(p) /\ Positive(m, request[p].job))
    BY <1>2, <2>1 DEF Unacked
  <2>3. QED
    BY <1>1, <1>2, <2>2, AckFirstSent
<1>8. QED
  BY <1>3, <1>4, <1>5, <1>6, <1>7 DEF IInv

LEMMA EndStep ==
  ASSUME IInv, NEW q \in Requesters, EndJob(q)
  PROVE  IInv'
<1> DEFINE s == handler[q].on
           c == Channel(q)
           j == handler[q].job
<1>t. TypeOK /\ Links
  BY DEF IInv
<1>1. PICK ok \in BOOLEAN : back' = Sent(c, Result(j, ok))
  BY DEF EndJob
<1>2. /\ handler[q].pc = "running"
      /\ handler' = [handler EXCEPT ![q].pc = "checking", ![q].job = 0]
      /\ fate' = [fate EXCEPT ![<<q, j>>] = "ended"]
      /\ UNCHANGED <<session, cached, up, ready, queue, asker, asks, node, request, succeeded, submitted>>
  BY DEF EndJob, HandlerAt, HandlerGoes, Fate, linkVars, requesterVars
<1>3. s \in Sessions /\ c = <<q, s>> /\ c \in Channels /\ j \in Jobs
  BY <1>t, <1>2, Bounds DEF TypeOK, Links, Channel, Channels
<1>4. fate[<<q, j>>] = "running" /\ (j = request[q].job => s = session[q])
  BY <1>2 DEF IInv, Running
<1>5. Result(j, ok) \in ToRequester /\ \A i \in Jobs : Positive(Result(j, ok), i) => i = j
  BY <1>3 DEF Result, ToRequester, Positive
<1>6. /\ fate'[<<q, j>>] = "ended"
      /\ \A p \in Requesters, i \in Jobs : <<p, i>> # <<q, j>> => fate'[<<p, i>>] = fate[<<p, i>>]
  BY <1>t, <1>2, <1>3 DEF TypeOK
<1>7. /\ handler'[q].pc = "checking" /\ handler'[q].on = s
      /\ \A p \in Requesters \ {q} : handler'[p] = handler[p]
  BY <1>t, <1>2 DEF TypeOK
<1>8. TypeOK'
  <2>1. back' \in [Channels -> Seq(ToRequester)]
    BY <1>t, <1>1, <1>3, <1>5, SentAdds
  <2>2. fate' \in [Requesters \X Jobs ->
                    {"new", "queued", "running", "ended", "refused", "fatal", "lost"}]
    BY <1>t, <1>2, <1>3 DEF TypeOK
  <2>3. handler' \in [Requesters -> [pc : HandlerPCs, on : 0 .. MaxSessions, job : 0 .. MaxJobs]]
    BY <1>t, <1>2, Bounds DEF TypeOK, HandlerPCs
  <2>4. \A p \in Requesters : handler'[p].pc = "running" => handler'[p].job \in Jobs
    BY <1>t, <1>7 DEF TypeOK
  <2>5. QED
    BY <1>t, <1>2, <2>1, <2>2, <2>3, <2>4 DEF TypeOK, Channels
<1>9. Links'
  BY <1>t, <1>2, <1>3, <1>7, Bounds DEF Links
<1>10. Past'
  BY <1>2, <1>3, <1>4, <1>6 DEF IInv, Past
<1>11. Queued' /\ Once' /\ Running'
  <2>1. \A p \in Requesters, i \in Jobs : fate[<<p, i>>] = "queued" => fate'[<<p, i>>] = "queued"
    BY <1>4, <1>6
  <2>2. \A p \in Requesters : handler'[p].pc = "running" =>
          fate'[<<p, handler[p].job>>] = fate[<<p, handler[p].job>>]
    BY <1>t, <1>6, <1>7 DEF TypeOK
  <2>3. \A p \in Requesters : handler'[p].pc = "running" => handler'[p] = handler[p]
    BY <1>7
  <2>4. QED
    BY <1>2, <2>1, <2>2, <2>3, QueuesKept
<1>12. \A p \in Requesters, i \in Jobs : fate[<<p, i>>] = "ended" => fate'[<<p, i>>] = "ended"
  BY <1>6
<1>13. Answered'
  BY <1>1, <1>3, <1>5, <1>6, <1>12, AnsweredSent
<1>14. SuccessMeansRun' /\ SuccessWasAcked'
  <2>1. \A x \in succeeded : x.from \in Requesters /\ x.job \in Jobs
    BY <1>t DEF TypeOK
  <2>2. QED
    BY <1>2, <1>12, <2>1 DEF IInv, SuccessMeansRun, SuccessWasAcked
<1>15. ASSUME NEW p \in Requesters PROVE AckFirst(p)'
  <2>1. ASSUME Unacked(p), c = Current(p), c \in up, Positive(Result(j, ok), request[p].job)
        PROVE  AckWithin(p, Len(back[c]))
    <3>1. request[p].job \in Jobs
      BY <1>t, <2>1, Bounds DEF TypeOK, Unacked
    <3>2. p = q /\ request[q].job = j
      BY <1>3, <1>5, <2>1, <3>1 DEF Current
    <3>3. QED
      BY <1>2, <2>1, <3>2 DEF IInv, AckFirst
  <2>2. handler'[p].pc = "running" => handler'[p] = handler[p]
    BY <1>7
  <2>3. QED
    BY <1>1, <1>2, <1>3, <1>5, <2>1, <2>2, AckFirstSent
<1>16. QED
  BY <1>8, <1>9, <1>10, <1>11, <1>13, <1>14, <1>15 DEF IInv

-----------------------------------------------------------------------------
(***************************************************************************)
(* The theorems.                                                           *)
(***************************************************************************)
LEMMA StepIInv == IInv /\ [Next]_vars => IInv'
<1> SUFFICES ASSUME IInv, [Next]_vars PROVE IInv'
  OBVIOUS
<1>1. ASSUME NEW q \in Requesters, RequesterStep(q) PROVE IInv'
  <2>1. CASE Connect(q) \/ HangUp(q)
    BY <2>1, ConnectionSteps
  <2>2. CASE \E kind \in Kinds : Submit(q, kind)
    BY <2>2, SubmitStep
  <2>3. CASE ReadAck(q) \/ ReadResult(q) \/ ReadError(q) \/ ReadOther(q)
    BY <2>3, ReadSteps
  <2>4. CASE RequestTimeout(q)
    BY <2>4, TimeoutSteps
  <2>5. QED
    BY <1>1, <2>1, <2>2, <2>3, <2>4 DEF RequesterStep
<1>2. ASSUME NEW q \in Requesters, NodeStep(q) PROVE IInv'
  <2>1. CASE HandlerConnect(q) \/ HandlerCheck(q) \/ HandlerRecvTimeout(q)
    BY <2>1, CalmHandlerSteps
  <2>2. CASE StartJob(q) \/ RefuseJob(q) \/ RefuseMessage(q) \/ HandlerDies(q)
    BY <2>2, ServeSteps
  <2>3. CASE EndJob(q)
    BY <2>3, EndStep
  <2>4. CASE Ask(q) \/ AskerTakes(q) \/ AskTimeout(q)
    BY <2>4, AskStep, AskerStep, TimeoutSteps
  <2>5. CASE PopById(q)
    BY <2>5, ConnectionSteps
  <2>6. QED
    BY <1>2, <2>1, <2>2, <2>3, <2>4, <2>5 DEF NodeStep, HandlerStep
<1>3. CASE \/ \E q \in Requesters : BecomeReady(q)
           \/ \E c \in Channels : NoticeDown(c)
           \/ Leave
  BY <1>3, ConnectionSteps
<1>4. CASE Refresh \/ Stop
  BY <1>4, CalmHandlerSteps
<1>5. CASE Idle \/ UNCHANGED vars
  BY <1>5, TimeoutSteps
<1>6. QED
  BY <1>1, <1>2, <1>3, <1>4, <1>5 DEF Next, Channels

LEMMA InitIInv == Init => IInv
<1> SUFFICES ASSUME Init PROVE IInv
  OBVIOUS
<1>1. TypeOK
  <2>1. <<>> \in Seq(ToNode) /\ <<>> \in Seq(ToRequester)
    OBVIOUS
  <2>2. queue \in [Requesters \X Sessions -> Seq(ToNode)]
        /\ back \in [Requesters \X Sessions -> Seq(ToRequester)]
    BY <2>1 DEF Init
  <2>3. fate \in [Requesters \X Jobs ->
                  {"new", "queued", "running", "ended", "refused", "fatal", "lost"}]
    BY DEF Init
  <2>4. QED
    BY <2>2, <2>3, Bounds DEF Init, TypeOK, NoHandler, HandlerPCs
<1>2. Links /\ Past /\ Running /\ SuccessMeansRun /\ SuccessWasAcked
  BY DEF Init, Links, Past, Running, SuccessMeansRun, SuccessWasAcked, NoHandler
<1>3. \A q \in Requesters, s \in Sessions :
        Len(queue[<<q, s>>]) = 0 /\ Len(back[<<q, s>>]) = 0
  BY DEF Init
<1>4. Queued /\ Once /\ Answered
  BY <1>3 DEF Queued, Once, Answered
<1>5. \A q \in Requesters : AckFirst(q)
  BY DEF Init, AckFirst, Unacked
<1>6. QED
  BY <1>1, <1>2, <1>4, <1>5 DEF IInv

LEMMA Invariant == Spec => []IInv
BY InitIInv, StepIInv, PTL DEF Spec

\* For any requesters, connections and requests, every variable keeps its type.
THEOREM TypeCorrect == Spec => []TypeOK
BY Invariant, PTL DEF IInv

\* A job that its requester reports as completed was run to its end for that
\* request, however many late replies to earlier ones are still on the way.
THEOREM Truth == Spec => []SuccessMeansRun
BY Invariant, PTL DEF IInv

\* A requester that has a success has seen the ack before: the node sends it
\* first, and a channel that can carry the result has carried the ack.
THEOREM AckSeen == Spec => []SuccessWasAcked
BY Invariant, PTL DEF IInv
=============================================================================

----------------------------- MODULE JobService -----------------------------
(***************************************************************************)
(* One compute node (src/src/compute_node.py) and the requesters that send *)
(* it jobs (submit_job_to_peer of main.py) over the connections they made. *)
(*                                                                         *)
(* The node keeps one handler task per peer id, whatever connection of that*)
(* peer it was spawned for.  A handler and the node's own submissions, if  *)
(* they use the same connection, read from the same queue, Peer._incoming. *)
(* A requester may come back on a new connection, which Negotiation made.  *)
(***************************************************************************)
EXTENDS Naturals, Sequences

CONSTANTS
  Requesters,   \* peers that submit jobs to the node
  MaxSessions,  \* bound of the model on the connections of each
  MaxJobs,      \* bound of the model on the requests of each
  MaxAsks       \* bound of the model on the node's own submissions

ASSUME JobAssumption == {MaxSessions, MaxJobs, MaxAsks} \subseteq Nat

Sessions == 1 .. MaxSessions
Jobs == 1 .. MaxJobs

VARIABLES
  session,      \* the last connection of each requester, 0 for none
  cached,       \* requesters whose last connection is in client.peers
  up,           \* connections whose channel is open at both ends
  ready,        \* connections whose Peer._ready is set at the node
  queue,        \* Peer._incoming of each connection, at the node
  back,         \* and at the requester
  handler,      \* the task of _peer_tasks for each requester
  asker,        \* the node's own submission to each requester
  request,      \* what the requester does in submit_job_to_peer
  fate,         \* history: what became of each request
  succeeded,    \* history: jobs the requester reports as completed, and
                \* whether it had seen their ack
  submitted,    \* requests each requester made
  asks,         \* submissions the node made
  node          \* running, stopping, or gone

vars == <<session, cached, up, ready, queue, back, handler, asker, request,
          fate, succeeded, submitted, asks, node>>

\* "refused" jobs are not in C or have no source; an "unsupported" message is
\* malformed or of a type the node does not know, and the language of a "fatal"
\* one is not a string.  main.py sends neither of the last two.
Kinds == {"job", "refused", "unsupported", "fatal"}

ToNode == [kind : Kinds, job : Jobs]
ToRequester ==
  [type : {"ack", "result"}, job : Jobs, ok : BOOLEAN] \cup [type : {"error", "submit"}]

Ack(j) == [type |-> "ack", job |-> j, ok |-> TRUE]
Result(j, ok) == [type |-> "result", job |-> j, ok |-> ok]
Error == [type |-> "error"]

HandlerPCs == {"none", "connecting", "checking", "waiting", "running", "done"}
NoHandler == [pc |-> "none", on |-> 0, job |-> 0]

\* The one type invariant of the module.
TypeOK ==
  /\ session \in [Requesters -> 0 .. MaxSessions]
  /\ cached \in SUBSET Requesters
  /\ up \in SUBSET (Requesters \X Sessions)
  /\ ready \in SUBSET (Requesters \X Sessions)
  /\ queue \in [Requesters \X Sessions -> Seq(ToNode)]
  /\ back \in [Requesters \X Sessions -> Seq(ToRequester)]
  /\ handler \in [Requesters -> [pc : HandlerPCs, on : 0 .. MaxSessions,
                                 job : 0 .. MaxJobs]]
  /\ \A q \in Requesters : handler[q].pc = "running" => handler[q].job \in Jobs
  /\ asker \in [Requesters -> 0 .. MaxSessions]
  /\ request \in [Requesters -> [job : 0 .. MaxJobs, acked : BOOLEAN]]
  /\ fate \in [Requesters \X Jobs ->
                 {"new", "queued", "running", "ended", "refused", "fatal", "lost"}]
  /\ succeeded \in SUBSET [from : Requesters, job : Jobs, acked : BOOLEAN]
  /\ submitted \in [Requesters -> 0 .. MaxJobs]
  /\ asks \in 0 .. MaxAsks
  /\ node \in {"running", "stopping", "gone"}

Init ==
  /\ session = [q \in Requesters |-> 0]
  /\ cached = {} /\ up = {} /\ ready = {}
  /\ queue = [c \in Requesters \X Sessions |-> <<>>]
  /\ back = [c \in Requesters \X Sessions |-> <<>>]
  /\ handler = [q \in Requesters |-> NoHandler]
  /\ asker = [q \in Requesters |-> 0]
  /\ request = [q \in Requesters |-> [job |-> 0, acked |-> FALSE]]
  /\ fate = [j \in Requesters \X Jobs |-> "new"]
  /\ succeeded = {}
  /\ submitted = [q \in Requesters |-> 0]
  /\ asks = 0
  /\ node = "running"

Current(q) == <<q, session[q]>>

-----------------------------------------------------------------------------
(***************************************************************************)
(* Connections.                                                            *)
(***************************************************************************)
linkVars == <<session, cached, up, ready>>
nodeVars == <<handler, asker, asks, node>>
requesterVars == <<request, succeeded, submitted>>

\* A new connection of q takes the place of the last in the node's cache.  The last
\* is closed, by the node if it has it cached, and by q before it dials anew.
Connect(q) ==
  /\ request[q].job = 0 /\ node # "gone"
  /\ session[q] < MaxSessions
  /\ session' = [session EXCEPT ![q] = @ + 1]
  /\ cached' = cached \cup {q}
  /\ up' = (up \ {Current(q)}) \cup {<<q, session[q] + 1>>}
  /\ UNCHANGED <<ready, queue, back, nodeVars, requesterVars, fate>>

BecomeReady(q) ==
  /\ Current(q) \in up \ ready
  /\ ready' = ready \cup {Current(q)}
  /\ UNCHANGED <<session, cached, up, queue, back, nodeVars, requesterVars, fate>>

\* q hangs up (close_peer_connection), dies, or loses the connection.
HangUp(q) ==
  /\ Current(q) \in up
  /\ up' = up \ {Current(q)}
  /\ UNCHANGED <<session, cached, ready, queue, back, nodeVars, requesterVars, fate>>

\* The node's end of the connection reports it.
NoticeDown(c) ==
  /\ c \in ready \ up
  /\ ready' = ready \ {c}
  /\ UNCHANGED <<session, cached, up, queue, back, nodeVars, requesterVars, fate>>

-----------------------------------------------------------------------------
(***************************************************************************)
(* The requester: submit_job_to_peer.                                      *)
(***************************************************************************)
Submit(q, kind) ==
  LET j == submitted[q] + 1
  IN  /\ request[q].job = 0 /\ j \in Jobs
      /\ Current(q) \in up
      /\ submitted' = [submitted EXCEPT ![q] = j]
      /\ request' = [request EXCEPT ![q] = [job |-> j, acked |-> FALSE]]
      /\ queue' = [queue EXCEPT ![Current(q)] = Append(@, [kind |-> kind, job |-> j])]
      /\ fate' = [fate EXCEPT ![<<q, j>>] = "queued"]
      /\ UNCHANGED <<linkVars, back, nodeVars, succeeded>>

Finished(q) == request' = [request EXCEPT ![q] = [job |-> 0, acked |-> FALSE]]

Reading(q) ==
  /\ request[q].job # 0
  /\ back[Current(q)] # <<>>
  /\ back' = [back EXCEPT ![Current(q)] = Tail(@)]
  /\ UNCHANGED <<linkVars, queue, nodeVars, fate, submitted>>

Reply(q) == Head(back[Current(q)])

\* Is, if the job id were not compared.
IsAnyJob(q, type) == Reply(q).type = type

Is(q, type) == Reply(q).type = type /\ Reply(q).job = request[q].job

ReadAck(q) ==
  /\ Reading(q)
  /\ Is(q, "ack")
  /\ request' = [request EXCEPT ![q].acked = TRUE]
  /\ UNCHANGED succeeded

ReadResult(q) ==
  /\ Reading(q)
  /\ Is(q, "result")
  /\ Finished(q)
  /\ succeeded' = IF Reply(q).ok
                  THEN succeeded \cup
                    {[from |-> q, job |-> request[q].job, acked |-> request[q].acked]}
                  ELSE succeeded

\* An error is taken for the answer to the pending job, whatever it answers.
ReadError(q) ==
  /\ Reading(q)
  /\ Reply(q).type = "error"
  /\ Finished(q)
  /\ UNCHANGED succeeded

\* Replies to other jobs, and the node's own submissions, are skipped.
ReadOther(q) ==
  /\ Reading(q)
  /\ Reply(q).type # "error" /\ ~Is(q, "ack") /\ ~Is(q, "result")
  /\ UNCHANGED <<request, succeeded>>

RequestTimeout(q) ==
  /\ request[q].job # 0
  /\ Finished(q)
  /\ UNCHANGED <<linkVars, queue, back, nodeVars, fate, succeeded, submitted>>

-----------------------------------------------------------------------------
(***************************************************************************)
(* The node.                                                               *)
(***************************************************************************)

\* send_with_retry and _send_message: what a closed channel does not take in
\* time is logged and forgotten.
Sent(c, m) == IF c \in up THEN [back EXCEPT ![c] = Append(@, m)] ELSE back

\* Free, if finished tasks were never reaped.
FreeUnreaped(q) == handler[q].pc = "none"

Free(q) == handler[q].pc \in {"none", "done"}

\* _refresh_peer_handlers, which does not suspend: reap what is done, then
\* spawn a handler for every peer in client.peers that is ready and has none.
Refreshed(q) ==
  IF Free(q)
  THEN IF q \in cached /\ Current(q) \in ready
       THEN [pc |-> "connecting", on |-> session[q], job |-> 0]
       ELSE NoHandler
  ELSE handler[q]

Refresh ==
  /\ node = "running"
  /\ handler' = [q \in Requesters |-> Refreshed(q)]
  /\ handler' # handler
  /\ UNCHANGED <<linkVars, queue, back, asker, asks, node, requesterVars, fate>>

Channel(q) == <<q, handler[q].on>>

HandlerAt(q, pc) ==
  /\ handler[q].pc = pc
  /\ UNCHANGED <<linkVars, asker, asks, node, requesterVars>>

\* HandlerGoes, if the handler forgot which job it runs.
HandlerForgets(q, pc, j) ==
  handler' = [handler EXCEPT ![q].pc = pc]

HandlerGoes(q, pc, j) ==
  handler' = [handler EXCEPT ![q].pc = pc, ![q].job = j]

\* peer.connect returns or times out.
HandlerConnect(q) ==
  /\ HandlerAt(q, "connecting")
  /\ \/ Channel(q) \in ready /\ HandlerGoes(q, "checking", 0)
     \/ Channel(q) \notin ready /\ HandlerGoes(q, "done", 0)
  /\ UNCHANGED <<queue, back, fate>>

\* The top of the loop: leave if the peer is gone, else wait for a message,
\* and come back after recv_timeout (which is a stutter while it is there).
HandlerCheck(q) ==
  /\ HandlerAt(q, "checking")
  /\ HandlerGoes(q, IF Channel(q) \in ready THEN "waiting" ELSE "done", 0)
  /\ UNCHANGED <<queue, back, fate>>

HandlerRecvTimeout(q) ==
  /\ HandlerAt(q, "waiting")
  /\ queue[Channel(q)] = <<>>
  /\ Channel(q) \notin ready
  /\ HandlerGoes(q, "checking", 0)
  /\ UNCHANGED <<queue, back, fate>>

Taking(q, kind) ==
  /\ HandlerAt(q, "waiting")
  /\ queue[Channel(q)] # <<>>
  /\ Head(queue[Channel(q)]).kind = kind
  /\ queue' = [queue EXCEPT ![Channel(q)] = Tail(@)]

Fate(q, j, f) == fate' = [fate EXCEPT ![<<q, j>>] = f]

\* StartJob, if the acknowledgement were left out.
StartUnacked(q) ==
  LET j == Head(queue[Channel(q)]).job
  IN  /\ Taking(q, "job")
      /\ HandlerGoes(q, "running", j)
      /\ Fate(q, j, "running")
      /\ UNCHANGED back

\* Acknowledge the job and hand it to a thread.
StartJob(q) ==
  LET j == Head(queue[Channel(q)]).job
  IN  /\ Taking(q, "job")
      /\ back' = Sent(Channel(q), Ack(j))
      /\ HandlerGoes(q, "running", j)
      /\ Fate(q, j, "running")

\* compile_and_execute returns or raises; nothing bounds how long it takes.
EndJob(q) ==
  /\ HandlerAt(q, "running")
  /\ \E ok \in BOOLEAN : back' = Sent(Channel(q), Result(handler[q].job, ok))
  /\ HandlerGoes(q, "checking", 0)
  /\ Fate(q, handler[q].job, "ended")
  /\ UNCHANGED queue

RefuseJob(q) ==
  LET j == Head(queue[Channel(q)]).job
  IN  /\ Taking(q, "refused")
      /\ back' = Sent(Channel(q), Result(j, FALSE))
      /\ HandlerGoes(q, "checking", 0)
      /\ Fate(q, j, "refused")

RefuseMessage(q) ==
  LET j == Head(queue[Channel(q)]).job
  IN  /\ Taking(q, "unsupported")
      /\ back' = Sent(Channel(q), Error)
      /\ HandlerGoes(q, "checking", 0)
      /\ Fate(q, j, "refused")

\* The handler ends with an exception, which is logged when it is reaped.
HandlerDies(q) ==
  LET j == Head(queue[Channel(q)]).job
  IN  /\ Taking(q, "fatal")
      /\ HandlerGoes(q, "done", 0)
      /\ Fate(q, j, "fatal")
      /\ UNCHANGED back

-----------------------------------------------------------------------------
(***************************************************************************)
(* The node submits a job of its own to q over the connection that q made. *)
(* Peer.initiator is set at q's end, so that no handler of q serves it.    *)
(***************************************************************************)
Ask(q) ==
  /\ node = "running" /\ asker[q] = 0 /\ asks < MaxAsks
  /\ q \in cached /\ Current(q) \in ready \cap up
  /\ asker' = [asker EXCEPT ![q] = session[q]]
  /\ asks' = asks + 1
  /\ back' = Sent(Current(q), [type |-> "submit"])
  /\ UNCHANGED <<linkVars, queue, handler, node, requesterVars, fate>>

\* Waiting for its result, it takes whatever comes and skips what is not one.
AskerTakes(q) ==
  LET c == <<q, asker[q]>>
  IN  /\ asker[q] # 0 /\ queue[c] # <<>>
      /\ queue' = [queue EXCEPT ![c] = Tail(@)]
      /\ Fate(q, Head(queue[c]).job, "lost")
      /\ UNCHANGED <<linkVars, back, nodeVars, requesterVars>>

AskTimeout(q) ==
  /\ asker[q] # 0
  /\ asker' = [asker EXCEPT ![q] = 0]
  /\ UNCHANGED <<linkVars, queue, back, handler, asks, node, requesterVars, fate>>

\* A call of the node to q, begun before q connected, fails only now: GiveUp of
\* Negotiation closes the call's own connection and pops the entry of q by id,
\* which is the live connection that q has made meanwhile.
PopById(q) ==
  /\ node = "running" /\ asker[q] = 0
  /\ q \in cached /\ cached' = cached \ {q}
  /\ UNCHANGED <<session, up, ready, queue, back, nodeVars, requesterVars, fate>>

-----------------------------------------------------------------------------
(***************************************************************************)
(* The node stops.  Its handlers and its own submissions are cancelled at  *)
(* whichever await they are suspended in; a job that runs is not heard of  *)
(* again, though its thread goes on.  Then close() takes the connections.  *)
(***************************************************************************)
Stop ==
  /\ node = "running" /\ node' = "stopping"
  /\ handler' = [q \in Requesters |-> NoHandler]
  /\ asker' = [q \in Requesters |-> 0]
  /\ UNCHANGED <<linkVars, queue, back, asks, requesterVars, fate>>

Leave ==
  /\ node = "stopping" /\ node' = "gone"
  /\ up' = {} /\ cached' = {}
  /\ UNCHANGED <<session, ready, queue, back, handler, asker, asks, requesterVars, fate>>

\* Nobody has anything left to do.
Idle ==
  /\ node = "gone" /\ \A q \in Requesters : request[q].job = 0
  /\ UNCHANGED vars

RequesterStep(q) ==
  \/ Connect(q) \/ HangUp(q)
  \/ \E kind \in Kinds : Submit(q, kind)
  \/ ReadAck(q) \/ ReadResult(q) \/ ReadError(q) \/ ReadOther(q)
  \/ RequestTimeout(q)

HandlerStep(q) ==
  \/ HandlerConnect(q) \/ HandlerCheck(q) \/ HandlerRecvTimeout(q)
  \/ StartJob(q) \/ EndJob(q) \/ RefuseJob(q) \/ RefuseMessage(q) \/ HandlerDies(q)

NodeStep(q) ==
  \/ HandlerStep(q)
  \/ Ask(q) \/ AskerTakes(q) \/ AskTimeout(q) \/ PopById(q)

Next ==
  \/ \E q \in Requesters : RequesterStep(q) \/ NodeStep(q) \/ BecomeReady(q)
  \/ \E c \in Requesters \X Sessions : NoticeDown(c)
  \/ Refresh \/ Stop \/ Leave
  \/ Idle

Spec == Init /\ [][Next]_vars

\* The node's loop polls, its handlers run and jobs end (an assumption on the
\* jobs: the node gives them all the time they take); connections that are up
\* become ready and those that are not report it.
Fairness ==
  /\ WF_vars(Refresh)
  /\ \A q \in Requesters : WF_vars(HandlerStep(q)) /\ WF_vars(BecomeReady(q))
  /\ \A c \in Requesters \X Sessions : WF_vars(NoticeDown(c))

FairSpec == Spec /\ Fairness

-----------------------------------------------------------------------------
(***************************************************************************)
(* Properties.                                                             *)
(***************************************************************************)

\* A job that is reported as completed was run to its end, for that request:
\* late results of requests that timed out on the same connection are not
\* taken for it (the comparison of job ids in submit_job_to_peer).
SuccessMeansRun ==
  \A r \in succeeded : fate[<<r.from, r.job>>] = "ended"

\* The requester has seen the ack of every job that it reports as completed:
\* the "no ACK was observed" of attempt_job_dispatch never happens.
SuccessWasAcked == \A r \in succeeded : r.acked

\* The connection a queued request came in on.
Carries(q, s, j) ==
  \E k \in DOMAIN queue[<<q, s>>] : queue[<<q, s>>][k].job = j

Settled(q, j) ==
  fate[<<q, j>>] \in {"running", "ended", "refused", "fatal", "lost"}

\* Until the node stops, a request on a connection that stays up is served in the
\* end, though the handler of the peer may first have to finish on an older
\* connection, or has died of an earlier request and must be replaced.  Excepted
\* are the requests that the node's own submission reads from the same
\* Peer._incoming ("lost"), and those on a connection that was popped by id and
\* has no handler yet (compute_node.py looks for peers in client.peers only); a
\* handler that is there goes on, whatever becomes of the cache.
RequestServed ==
  \A q \in Requesters, s \in Sessions, j \in Jobs :
    Carries(q, s, j) ~>
      \/ Settled(q, j)
      \/ <<q, s>> \notin up \/ node # "running"
      \/ q \notin cached /\ Free(q)
=============================================================================

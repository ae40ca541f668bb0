---------------------------- MODULE JobDispatch -----------------------------
(***************************************************************************)
(* A node finds somebody for its job: attempt_job_dispatch of main.py,     *)
(* which tries one candidate after the other, and Peer.send_with_retry of  *)
(* peer.py.  How connect_to_peer negotiates is in Negotiation, and how a   *)
(* target serves a job in JobService; here both are what the dispatch can  *)
(* see of them: connections come, break and get their channel at any time, *)
(* and a target may answer late, with an error or not at all.              *)
(***************************************************************************)
EXTENDS Naturals, Sequences

CONSTANTS
  Targets,
  MaxDispatches,  \* bound of the model on lines read by stdin_loop
  MaxConns        \* bound of the model on connections

ASSUME DispatchAssumption ==
  Targets # {} /\ MaxDispatches \in Nat /\ MaxConns \in Nat

VARIABLES
  peers,       \* Client.peers: an index of conns, or 0
  conns,       \* every connection so far
  loop,        \* where attempt_job_dispatch is
  todo,        \* candidate_ids that were not tried yet
  target, existing, peer,  \* target_id, existing_peer and peer
  job,         \* the id of the current job: they are all different
  result,      \* how the attempt ended
  tried,       \* history: how each attempt of the dispatch ended
  mark,        \* history: connections made before the attempt
  fresh,       \* history: connections the dispatch got that are younger
  ran,         \* history: the target has run the current job
  report,      \* what the dispatch printed last
  dispatches

vars == <<peers, conns, loop, todo, target, existing, peer, job, result, tried, mark,
          fresh, ran, report, dispatches>>

attempt == <<target, existing, mark>>

NoConn == 0

\* life is "down" when the connection broke, "closed" when the node closed it;
\* incoming is Peer._incoming, and asked what the target has not handled yet.
Conn == [with : Targets, life : {"up", "down", "closed"},
         channel : {"none", "connecting", "open", "closed"},
         incoming : Seq([type : {"ok", "failed"}, job : Nat] \cup [type : {"error"}]),
         asked : Seq(Nat)]

Failures == {"unreachable", "no channel", "timed out", "rejected", "failed", "cancelled"}

\* The one type invariant of the module; no candidate is tried twice.
TypeOK ==
  /\ todo \subseteq Targets
  /\ conns \in Seq(Conn)
  /\ peers \in [Targets -> 0 .. Len(conns)]
  /\ \A t \in Targets : peers[t] # NoConn => conns[peers[t]].with = t
  /\ loop \in {"idle", "listing", "choosing", "connecting", "sending", "waiting", "closing",
              "stopped"}
  /\ target \in Targets
  /\ loop \in {"connecting", "sending", "waiting", "closing"} => target \notin todo
  /\ {existing, peer, mark} \subseteq 0 .. Len(conns)
  /\ job \in Nat
  /\ result \in Failures \cup {"none", "ok"}
  /\ tried \in [Targets -> Failures \cup {"none", "ok"}]
  /\ fresh \subseteq DOMAIN conns /\ ran \in BOOLEAN
  /\ report \in {"nothing", "no peers", "completed", "all rejected"}
  /\ dispatches \in 0 .. MaxDispatches

Untried == [t \in Targets |-> "none"]

Init ==
  /\ peers = [t \in Targets |-> NoConn]
  /\ conns = <<>> /\ job = 0
  /\ loop = "idle" /\ todo = {}
  /\ target = CHOOSE t \in Targets : TRUE
  /\ existing = NoConn /\ peer = NoConn /\ mark = 0
  /\ result = "none" /\ tried = Untried
  /\ fresh = {} /\ ran = FALSE
  /\ report = "nothing" /\ dispatches = 0

-----------------------------------------------------------------------------
(***************************************************************************)
(* attempt_job_dispatch.                                                   *)
(***************************************************************************)
\* A line with the path of a source file; request_peer_list is awaited.
Dispatch ==
  /\ loop = "idle" /\ dispatches < MaxDispatches
  /\ dispatches' = dispatches + 1
  /\ loop' = "listing"
  /\ tried' = Untried /\ fresh' = {} /\ result' = "none" /\ report' = "nothing"
  /\ UNCHANGED <<ran, peers, conns, todo, attempt, peer, job>>

ListFails ==
  /\ loop = "listing" /\ loop' = "idle"
  /\ UNCHANGED <<ran, peers, conns, todo, attempt, peer, job, result, tried,
                 fresh, report, dispatches>>

\* The peers that are registered now; the list is not read again.
Listed ==
  /\ loop = "listing"
  /\ todo' \in SUBSET Targets
  /\ \/ todo' = {} /\ loop' = "idle" /\ report' = "no peers"
     \/ todo' # {} /\ loop' = "choosing" /\ UNCHANGED report
  /\ UNCHANGED <<ran, peers, conns, attempt, peer, job, result, tried, fresh,
                 dispatches>>

\* Choose, if the candidate stayed on the list.
ChooseAgain(t) ==
  /\ loop = "choosing" /\ t \in todo
  /\ target' = t /\ existing' = peers[t] /\ mark' = Len(conns)
  /\ result' = "none"
  /\ loop' = "connecting"
  /\ UNCHANGED <<ran, peers, conns, todo, peer, job, tried, fresh, report, dispatches>>

\* The next candidate: connect_to_peer starts.
Choose(t) ==
  /\ loop = "choosing" /\ t \in todo
  /\ todo' = todo \ {t}
  /\ target' = t /\ existing' = peers[t] /\ mark' = Len(conns)
  /\ result' = "none"
  /\ loop' = "connecting"
  /\ UNCHANGED <<ran, peers, conns, peer, job, tried, fresh, report, dispatches>>

GiveUp ==
  /\ loop = "choosing" /\ todo = {}
  /\ loop' = "idle" /\ report' = "all rejected"
  /\ UNCHANGED <<ran, peers, conns, todo, attempt, peer, job, result, tried,
                 fresh, dispatches>>

\* The attempt ended with r: the finally block closes a connection that was
\* not there before, then the loop goes on, or ends.
Ended(r) ==
  /\ result' = r
  /\ tried' = [tried EXCEPT ![target] = r]

\* After, if a job that was done did not end the loop.
AfterContinuing(r) == IF r = "cancelled" THEN "stopped" ELSE "choosing"

After(r) ==
  IF r = "ok" THEN "idle" ELSE IF r = "cancelled" THEN "stopped" ELSE "choosing"

\* Finally, if only a job that was done closed its connection.
FinallyAfterSuccess(r) ==
  /\ Ended(r)
  /\ loop' = IF r = "ok" /\ peer # existing THEN "closing" ELSE After(r)
  /\ report' = IF r = "ok" /\ peer = existing THEN "completed" ELSE report

\* Finally, if every connection were closed.
FinallyAlways(r) == Ended(r) /\ loop' = "closing" /\ UNCHANGED report

Finally(r) ==
  /\ Ended(r)
  /\ loop' = IF peer # existing THEN "closing" ELSE After(r)
  /\ report' = IF r = "ok" /\ peer = existing THEN "completed" ELSE report

\* close_peer_connection returns.
Closed ==
  /\ loop = "closing"
  /\ conns' = [conns EXCEPT ![peer].life = "closed", ![peer].channel = "closed",
                           ![peer].incoming = <<>>]
  /\ peers' = [t \in Targets |-> IF peers[t] = peer THEN NoConn ELSE peers[t]]
  /\ loop' = After(result)
  /\ report' = IF result = "ok" THEN "completed" ELSE report
  /\ UNCHANGED <<ran, todo, attempt, peer, job, result, tried, fresh, dispatches>>

ConnectFails ==
  /\ loop = "connecting" /\ loop' = "choosing"
  /\ Ended("unreachable")
  /\ UNCHANGED <<ran, peers, conns, todo, attempt, peer, job, fresh, report,
                 dispatches>>

\* connect_to_peer finds that the connection that was there is stale, or times out
\* on one that does not become ready, and closes it; the cache drops it after that
\* (Uncached).
DropExisting ==
  /\ loop = "connecting" /\ existing # NoConn
  /\ conns[existing].life # "closed" /\ conns[existing].channel # "open"
  /\ conns' = [conns EXCEPT ![existing].life = "closed", ![existing].channel = "closed",
                           ![existing].incoming = <<>>]
  /\ UNCHANGED <<ran, peers, loop, todo, attempt, peer, job, result, tried, fresh,
                 report, dispatches>>

\* connect_to_peer finds a connection that is ready, old or new; its channel
\* may be missing still, or not open yet.  The job gets an id of its own.
Connected ==
  /\ loop = "connecting" /\ loop' = "sending"
  /\ peers[target] # NoConn /\ conns[peers[target]].life = "up"
  /\ peer' = peers[target]
  /\ fresh' = IF peer' > mark THEN fresh \cup {peer'} ELSE fresh
  /\ job' = job + 1 /\ ran' = FALSE
  /\ UNCHANGED <<peers, conns, todo, attempt, result, tried, report, dispatches>>

Trying(where) ==
  /\ loop = where
  /\ UNCHANGED <<ran, peers, todo, attempt, peer, job, fresh, dispatches>>

\* send_with_retry: the channel is open.
Send ==
  /\ Trying("sending") /\ conns[peer].channel = "open"
  /\ conns' = [conns EXCEPT ![peer].asked = Append(@, job)]
  /\ loop' = "waiting"
  /\ UNCHANGED <<result, tried, report>>

\* There is no channel: send_with_retry raises at once.
SendRaises ==
  /\ Trying("sending") /\ conns[peer].channel = "none"
  /\ Finally("no channel")
  /\ UNCHANGED conns

\* SendTimesOut, if the deadline were forgotten.
SendPolls ==
  /\ Trying("sending") /\ conns[peer].channel \in {"connecting", "closed"}
  /\ UNCHANGED <<loop, result, tried, report, conns>>

\* The channel is polled until the deadline, a closed one too.
SendTimesOut ==
  /\ Trying("sending") /\ conns[peer].channel \in {"connecting", "closed"}
  /\ Finally("timed out")
  /\ UNCHANGED conns

\* submit_job_to_peer: the next message in Peer._incoming.
Message == Head(conns[peer].incoming)

Waits ==
  /\ Trying("waiting") /\ conns[peer].incoming # <<>>
  /\ conns' = [conns EXCEPT ![peer].incoming = Tail(@)]

\* IsCurrent, if job ids were not compared.
IsAny(m) == m.type # "error"

IsCurrent(m) == m.type # "error" /\ m.job = job

TakeResult ==
  /\ Waits /\ IsCurrent(Message) /\ Message.type \in {"ok", "failed"}
  /\ Finally(Message.type)

TakeError == Waits /\ Message.type = "error" /\ Finally("rejected")

\* What another job left; acks are left out.
TakeOther ==
  /\ Waits /\ Message.type # "error"
  /\ ~(IsCurrent(Message) /\ Message.type \in {"ok", "failed"})
  /\ UNCHANGED <<loop, result, tried, report>>

WaitTimesOut == Trying("waiting") /\ Finally("timed out") /\ UNCHANGED conns

-----------------------------------------------------------------------------
(***************************************************************************)
(* The node stops: run_node cancels the task of stdin_loop, once, wherever *)
(* it is suspended.                                                        *)
(***************************************************************************)
CancelledBetween ==
  /\ loop \in {"idle", "listing", "connecting"}
  /\ loop' = "stopped"
  /\ UNCHANGED <<ran, peers, conns, todo, attempt, peer, job, result, tried,
                 fresh, report, dispatches>>

\* The finally block is run, and awaits close_peer_connection.
CancelledWithin ==
  /\ \E where \in {"sending", "waiting"} : Trying(where)
  /\ Finally("cancelled")
  /\ UNCHANGED conns

\* close() has begun, which makes the connection useless, and it stays cached.
CloseInterrupted ==
  /\ loop = "closing" /\ result # "cancelled"
  /\ conns' = [conns EXCEPT ![peer].life = "closed", ![peer].channel = "closed",
                           ![peer].incoming = <<>>]
  /\ loop' = "stopped"
  /\ UNCHANGED <<ran, peers, todo, attempt, peer, job, result, tried, fresh, report,
                 dispatches>>

Stop == CancelledBetween \/ CancelledWithin \/ CloseInterrupted

-----------------------------------------------------------------------------
(***************************************************************************)
(* The rest of the node, and its targets.                                  *)
(***************************************************************************)
dispatchVars == <<loop, todo, attempt, peer, job, result, tried, fresh, report,
                  dispatches>>

\* A connection takes its place in the cache: the node's own, while it runs
\* connect_to_peer and has none cached, or one that the target has asked for.
Appears(t, channel) ==
  /\ Len(conns) < MaxConns
  /\ conns' = Append(conns, [with |-> t, life |-> "up", channel |-> channel,
                             incoming |-> <<>>, asked |-> <<>>])
  /\ peers' = [peers EXCEPT ![t] = Len(conns) + 1]
  /\ UNCHANGED <<dispatchVars, ran>>

Dial == loop = "connecting" /\ peers[target] = NoConn /\ Appears(target, "connecting")

TargetCalls(t) == Appears(t, "none")

\* The channel is attached or opens.
Open(k) ==
  /\ conns[k].life = "up" /\ conns[k].channel \in {"none", "connecting"}
  /\ conns' = [conns EXCEPT ![k].channel = "open"]
  /\ UNCHANGED <<dispatchVars, ran, peers>>

Break(k) ==
  /\ conns[k].life = "up"
  /\ conns' = [conns EXCEPT ![k].life = "down",
                           ![k].channel = IF @ = "none" THEN "none" ELSE "closed"]
  /\ UNCHANGED <<dispatchVars, ran, peers>>

\* The cache drops a connection that failed, was closed or was rejected; connect_to_peer
\* pops by id, and may drop one that the target has just made.
Uncached(t) ==
  /\ peers[t] # NoConn
  /\ conns[peers[t]].life # "up" \/ (loop = "connecting" /\ t = target)
  /\ peers' = [peers EXCEPT ![t] = NoConn]
  /\ UNCHANGED <<dispatchVars, ran, conns>>

\* The target runs the oldest job it has, or refuses to, and its replies
\* arrive or not.
Serve(k) ==
  /\ conns[k].asked # <<>>
  /\ LET j == Head(conns[k].asked)
         Replies(ms) ==
           conns' = [conns EXCEPT ![k].asked = Tail(@),
                       ![k].incoming = IF conns[k].life = "up" THEN @ \o ms ELSE @]
     IN  \/ \E ms \in {<<>>, <<[type |-> "ok", job |-> j]>>} :
              Replies(ms) /\ ran' = (ran \/ (j = job /\ conns[k].with = target))
         \/ \E ms \in {<<[type |-> "failed", job |-> j]>>, <<[type |-> "error"]>>} :
              Replies(ms) /\ UNCHANGED ran
  /\ UNCHANGED <<dispatchVars, peers>>

Idle ==
  /\ loop = "stopped" \/ (loop = "idle" /\ dispatches = MaxDispatches)
  /\ UNCHANGED vars

LoopStep ==
  \/ ListFails \/ Listed \/ (\E t \in Targets : Choose(t)) \/ GiveUp
  \/ Send \/ SendRaises \/ SendTimesOut
  \/ TakeResult \/ TakeError \/ TakeOther \/ WaitTimesOut \/ Closed

ConnectStep == DropExisting \/ ConnectFails \/ Connected \/ Dial

Next ==
  \/ Dispatch \/ LoopStep \/ ConnectStep \/ Stop
  \/ \E t \in Targets : TargetCalls(t) \/ Uncached(t)
  \/ \E k \in DOMAIN conns : Open(k) \/ Break(k) \/ Serve(k)
  \/ Idle

Spec == Init /\ [][Next]_vars

\* The event loop runs, and a request for the list of peers ends (RequestReturns of
\* NodeLifecycle); connect_to_peer need not (answer_never_comes), and nothing is
\* asked of the targets or of the network.
FairSpec == Spec /\ WF_vars(LoopStep)

-----------------------------------------------------------------------------
(***************************************************************************)
(* Properties.                                                             *)
(***************************************************************************)

\* "Job completed via t" is printed of a job that t has run, submitted by this
\* very dispatch, whatever earlier jobs have left on a connection that is kept.
ReportIsTrue ==
  report = "completed" =>
    ran /\ tried[target] = "ok" /\ \A t \in Targets \ {target} : tried[t] # "ok"

\* "All peers rejected" is printed only when every peer that was listed has
\* been tried and has failed: no failure of one keeps the job from the others.
GivesUpHonestly ==
  report = "all rejected" =>
    /\ todo = {}
    /\ \A t \in Targets : tried[t] # "ok"

\* A dispatch that has ended, or was cancelled at any of its awaits, leaves none
\* of the connections it got from connect_to_peer open that are younger than its
\* attempt (the finally block).
NothingLeftOpen == loop \in {"idle", "stopped"} => \A k \in fresh : conns[k].life # "up"

\* Nor does it close one that was there before, whoever may be using it, but for
\* an existing connection to the target that connect_to_peer finds not open.
KeepsOthers ==
  [][\A k \in DOMAIN conns :
       conns'[k].life = "closed" /\ conns[k].life # "closed" =>
         \/ k > mark
         \/ loop = "connecting" /\ k = existing /\ conns[k].channel # "open"]_vars

\* A dispatch ends, and stdin_loop reads on, although no target is obliged to take
\* a job or to answer, and no channel to open; or it stays for ever in one call of
\* connect_to_peer, whose wait for the answer has no timeout.
DispatchEnds ==
  loop # "idle" ~> loop \in {"idle", "stopped"} \/ [](loop = "connecting")
=============================================================================

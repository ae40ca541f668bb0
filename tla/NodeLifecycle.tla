---------------------------- MODULE NodeLifecycle ----------------------------
(***************************************************************************)
(* One node process from start to exit (run_node and stdin_loop of         *)
(* src/src/main.py) and its session with the hub (connect, close,          *)
(* request_peer_list, the listener and _handle_disconnect of client.py).   *)
(*                                                                         *)
(* The tasks are the main task, the stdin task, the compute service and    *)
(* the listener; the threads are the one that reads a line of the standard *)
(* input and the one that runs a job.  connect() is called by the main     *)
(* task before the others exist and by the stdin task afterwards.          *)
(***************************************************************************)
EXTENDS Naturals, Sequences

CONSTANTS
  MaxSockets,   \* bound of the model on the connections the node opens
  MaxLines,     \* bound of the model on the lines it reads
  MaxChanges    \* bound of the model on what others change in the hub's table

ASSUME LifecycleAssumption == {MaxSockets, MaxLines, MaxChanges} \subseteq Nat

Sockets == 1 .. MaxSockets
Versions == 0 .. MaxChanges   \* of the hub's table, which a peer list carries

VARIABLES
  main,         \* where run_node is
  stop,         \* stop_event
  stdin,        \* where the stdin task is
  reader,       \* the thread in readline, and what it returned
  lines,        \* lines read
  compute,      \* the compute service
  job,          \* the thread that runs a job
  connect,      \* where connect() is suspended, if anyone called it
  connection,   \* _connection, 0 for None
  listener,     \* the connection that the listener reads, 0 for no listener
  register,     \* _register_future
  list,         \* _pending_peer_list, and what its caller will find in it
  directory,    \* Client.directory
  up,           \* connections that are open
  opened,       \* connections opened
  toHub,        \* per connection: what the hub has not received yet
  toNode,       \* and what the listener has not
  holder,       \* the connection that holds the node's id in the hub
  version       \* the version of the hub's table

taskVars == <<main, stop, stdin, reader, lines, compute, job>>
clientVars == <<connect, connection, listener, register, list, directory>>
hubVars == <<up, opened, toHub, toNode, holder, version>>
vars == <<taskVars, clientVars, hubVars>>

Is(kind) == [is |-> kind]
PeerList(v) == [is |-> "list", of |-> v]
Ack(v) == [is |-> "ack", of |-> v]

ToHub == {"register", "list"}
Lists == [is : {"list"}, of : Versions]
ToNode == [is : {"ack"}, of : Versions] \cup Lists \cup {Is("error")}

TaskTypes ==
  /\ main \in {"starting", "serving", "stopping", "closing", "joining", "exited"}
  /\ stop \in BOOLEAN
  /\ stdin \in {"none", "reading", "asking", "listing", "dispatching", "done",
                "dead", "cancelled"}
  /\ reader \in {"idle", "reading", "line", "eof"}
  /\ lines \in 0 .. MaxLines
  /\ compute \in {"none", "running", "stopped"}
  /\ job \in {"none", "running", "ended"}

ClientTypes ==
  /\ connect \in {"no", "opening", "registering"}
  /\ connection \in 0 .. opened
  /\ listener \in {0, connection}
  /\ register \in {"none", "pending", "ok", "failed"}
  /\ list \in {Is("none"), Is("pending"), Is("failed")} \cup Lists
  /\ directory \in Versions

HubTypes ==
  /\ up \in SUBSET Sockets
  /\ opened \in 0 .. MaxSockets
  /\ toHub \in [Sockets -> Seq(ToHub)]
  /\ toNode \in [Sockets -> Seq(ToNode)]
  /\ holder \in 0 .. MaxSockets
  /\ version \in Versions

\* The one type invariant of the module.
TypeOK == TaskTypes /\ ClientTypes /\ HubTypes

Init ==
  /\ main = "starting" /\ stop = FALSE /\ stdin = "none" /\ reader = "idle"
  /\ lines = 0 /\ compute = "none" /\ job = "none"
  /\ connect = "opening" /\ connection = 0 /\ listener = 0
  /\ register = "none" /\ list = Is("none") /\ directory = 0
  /\ up = {} /\ opened = 0
  /\ toHub = [k \in Sockets |-> <<>>] /\ toNode = [k \in Sockets |-> <<>>]
  /\ holder = 0 /\ version = 0

-----------------------------------------------------------------------------
(***************************************************************************)
(* connect() and request_peer_list.  A task that was cancelled, once the   *)
(* node stops, does not go on.                                             *)
(***************************************************************************)
Running == main \in {"starting", "serving"}

\* The next turn of stdin_loop.
NextLine ==
  IF stop THEN stdin' = "done" /\ UNCHANGED reader
          ELSE stdin' = "reading" /\ reader' = "reading"

\* websockets.connect returns; the listener is created and register is sent.
Opened ==
  LET k == opened + 1
  IN  /\ Running /\ connect = "opening" /\ k \in Sockets
      /\ opened' = k
      /\ up' = up \cup {k}
      /\ connection' = k /\ listener' = k
      /\ register' = "pending"
      /\ toHub' = [toHub EXCEPT ![k] = Append(@, "register")]
      /\ connect' = "registering"
      /\ UNCHANGED <<taskVars, list, directory, toNode, holder, version>>

\* connect() raises.  At the start this ends run_node, without close(), and
\* asyncio.run cancels the listener; a dispatch is given up, or goes on to its
\* next candidate.
ConnectRaises ==
  /\ connect' = "no"
  /\ \/ /\ main = "starting"
        /\ main' = "joining"
        /\ connection' = 0 /\ listener' = 0
        /\ UNCHANGED <<stdin, reader>>
     \/ /\ main = "serving" /\ stdin = "asking"
        /\ NextLine
        /\ UNCHANGED <<main, connection, listener>>
     \/ /\ main = "serving" /\ stdin = "dispatching"
        /\ UNCHANGED <<main, stdin, reader, connection, listener>>
  /\ UNCHANGED <<stop, lines, compute, job, register, list, directory, hubVars>>

OpenFails == connect = "opening" /\ ConnectRaises

RegisterFailed ==
  connect = "registering" /\ register = "failed" /\ ConnectRaises

\* request_peer_list after connect(): refused while a list is pending, even if
\* its caller is long gone; else a future is made, and the send goes out, is
\* lost, or raises, which leaves the future pending.
RequestList ==
  \/ /\ connection = 0 \/ list = Is("pending")
     /\ NextLine
     /\ UNCHANGED <<list, toHub>>
  \/ /\ connection \in up /\ list # Is("pending")
     /\ list' = Is("pending")
     /\ toHub' = [toHub EXCEPT ![connection] = Append(@, "list")]
     /\ stdin' = "listing" /\ UNCHANGED reader
  \/ /\ connection \notin up \cup {0} /\ list # Is("pending")
     /\ list' = Is("pending")
     /\ \/ stdin' = "listing" /\ UNCHANGED reader
        \/ NextLine
     /\ UNCHANGED toHub

Registered ==
  /\ Running /\ connect = "registering" /\ register = "ok"
  /\ connect' = "no"
  /\ \/ /\ main = "starting"
        /\ main' = "serving" /\ compute' = "running"
        /\ stdin' = "reading" /\ reader' = "reading"
        /\ UNCHANGED <<list, toHub>>
     \/ /\ stdin = "asking"
        /\ RequestList
        /\ UNCHANGED <<main, compute>>
     \/ /\ stdin = "dispatching"
        /\ UNCHANGED <<main, compute, stdin, reader, list, toHub>>
  /\ UNCHANGED <<stop, lines, job, connection, listener, register, directory,
                 up, opened, toNode, holder, version>>

-----------------------------------------------------------------------------
(***************************************************************************)
(* stdin_loop and attempt_job_dispatch up to its list of candidates; what  *)
(* it does with each of them is in Negotiation and JobService.             *)
(***************************************************************************)
StdinAt(where) == main = "serving" /\ stdin = where

Input(what) ==
  /\ reader = "reading"
  /\ reader' = what
  /\ lines' = IF what = "line" THEN lines + 1 ELSE lines
  /\ lines' <= MaxLines
  /\ UNCHANGED <<main, stop, stdin, compute, job, clientVars, hubVars>>

TakeEof ==
  /\ StdinAt("reading") /\ reader = "eof"
  /\ stop' = TRUE
  /\ stdin' = "done"
  /\ UNCHANGED <<main, reader, lines, compute, job, clientVars, hubVars>>

Taking ==
  /\ StdinAt("reading") /\ reader = "line"
  /\ UNCHANGED <<main, stop, lines, compute, job, connection, listener,
                 register, directory, up, opened, toNode, holder, version>>

\* The line is blank, or names a file that is empty or that cannot be opened.
SkipLine ==
  /\ Taking
  /\ NextLine
  /\ UNCHANGED <<connect, list, toHub>>

\* The file is no UTF-8: read_text raises what is no OSError.
StdinDies ==
  /\ Taking
  /\ stdin' = "dead"
  /\ UNCHANGED <<reader, connect, list, toHub>>

\* DispatchLine, if connect() did not look for a connection first.
DispatchLineAnew ==
  /\ Taking
  /\ stdin' = "asking" /\ connect' = "opening"
  /\ UNCHANGED <<reader, list, toHub>>

DispatchLine ==
  /\ Taking
  /\ \/ /\ connection = 0
        /\ stdin' = "asking" /\ connect' = "opening"
        /\ UNCHANGED <<reader, list, toHub>>
     \/ /\ connection # 0
        /\ RequestList
        /\ UNCHANGED connect

\* The future is done, and its list becomes the directory, however many others
\* the listener has handled since.
Listed ==
  /\ StdinAt("listing") /\ list \in Lists
  /\ directory' = list.of
  /\ \/ stdin' = "dispatching" /\ UNCHANGED reader
     \/ NextLine
  /\ UNCHANGED <<main, stop, lines, compute, job, connect, connection, listener,
                 register, list, hubVars>>

ListFailed ==
  /\ StdinAt("listing") /\ list = Is("failed")
  /\ NextLine
  /\ UNCHANGED <<main, stop, lines, compute, job, clientVars, hubVars>>

\* request_conn_to_peer finds that the hub is lost.
Reconnect ==
  /\ StdinAt("dispatching") /\ connect = "no" /\ connection = 0
  /\ connect' = "opening"
  /\ UNCHANGED <<taskVars, connection, listener, register, list, directory, hubVars>>

Dispatched ==
  /\ StdinAt("dispatching") /\ connect = "no"
  /\ NextLine
  /\ UNCHANGED <<main, stop, lines, compute, job, clientVars, hubVars>>

-----------------------------------------------------------------------------
(***************************************************************************)
(* The listener.                                                           *)
(***************************************************************************)

\* Failed, if the future of a peer list were forgotten.
FailedRegister ==
  /\ register' = IF register = "pending" THEN "failed" ELSE register
  /\ UNCHANGED list

Failed ==
  /\ register' = IF register = "pending" THEN "failed" ELSE register
  /\ list' = IF list = Is("pending") THEN Is("failed") ELSE list

\* Any list answers the pending request.
Listen ==
  LET m == Head(toNode[listener])
  IN  /\ listener # 0 /\ toNode[listener] # <<>>
      /\ toNode' = [toNode EXCEPT ![listener] = Tail(@)]
      /\ \/ /\ m.is = "ack"
            /\ register' = IF register = "pending" THEN "ok" ELSE register
            /\ directory' = IF register = "pending" THEN m.of ELSE directory
            /\ UNCHANGED list
         \/ /\ m.is = "list"
            /\ directory' = m.of
            /\ list' = IF list = Is("pending") THEN PeerList(m.of) ELSE list
            /\ UNCHANGED register
         \/ /\ m.is = "error"
            /\ Failed
            /\ UNCHANGED directory
      /\ UNCHANGED <<taskVars, connect, connection, listener, up, opened, toHub,
                     holder, version>>

\* HandleDisconnect, if _listener were not reset.
HandleDisconnectListening ==
  /\ listener # 0
  /\ main = "closing" \/ (listener \notin up /\ toNode[listener] = <<>>)
  /\ Failed
  /\ connection' = 0
  /\ UNCHANGED <<taskVars, connect, listener, directory, hubVars>>

\* _handle_disconnect, as the listener ends: ConnectionClosed, or close()
\* cancelled it.
HandleDisconnect ==
  /\ listener # 0
  /\ main = "closing" \/ (listener \notin up /\ toNode[listener] = <<>>)
  /\ Failed
  /\ connection' = 0 /\ listener' = 0
  /\ UNCHANGED <<taskVars, connect, directory, hubVars>>

-----------------------------------------------------------------------------
(***************************************************************************)
(* The main task, and the compute service as far as it matters here.       *)
(***************************************************************************)
StartJob ==
  /\ main = "serving" /\ compute = "running" /\ job = "none"
  /\ job' = "running"
  /\ UNCHANGED <<main, stop, stdin, reader, lines, compute, clientVars, hubVars>>

EndJob ==
  /\ job = "running"
  /\ job' = "ended"
  /\ UNCHANGED <<main, stop, stdin, reader, lines, compute, clientVars, hubVars>>

\* SIGINT or SIGTERM, or the compute service ended by itself.
StopSignal ==
  /\ main = "serving" /\ ~stop
  /\ stop' = TRUE
  /\ UNCHANGED <<main, stdin, reader, lines, compute, job, clientVars, hubVars>>

Stop ==
  /\ main = "serving" /\ stop
  /\ main' = "stopping"
  /\ UNCHANGED <<stop, stdin, reader, lines, compute, job, clientVars, hubVars>>

\* ComputeStops, if the service waited for its job.
ComputeWaits ==
  /\ main = "stopping" /\ compute = "running" /\ job # "running"
  /\ compute' = "stopped"
  /\ UNCHANGED <<main, stop, stdin, reader, lines, job, clientVars, hubVars>>

\* The service cancels its handlers; a job's thread goes on.
ComputeStops ==
  /\ main = "stopping" /\ compute = "running"
  /\ compute' = "stopped"
  /\ UNCHANGED <<main, stop, stdin, reader, lines, job, clientVars, hubVars>>

Over == {"done", "dead", "cancelled"}

\* The stdin task ends where it is suspended; a thread in readline goes on.
StdinCancelled ==
  /\ main = "stopping" /\ stdin \notin Over
  /\ stdin' = "cancelled" /\ connect' = "no"
  /\ UNCHANGED <<main, stop, reader, lines, compute, job, connection, listener,
                 register, list, directory, hubVars>>

\* close() returns at once if the hub is lost already; else it waits for the
\* listener.
Close ==
  /\ main = "stopping" /\ compute = "stopped" /\ stdin \in Over
  /\ main' = IF connection = 0 THEN "joining" ELSE "closing"
  /\ UNCHANGED <<stop, stdin, reader, lines, compute, job, clientVars, hubVars>>

\* The listener has ended: close what is left in _connection.
Closed ==
  /\ main = "closing" /\ listener = 0
  /\ up' = up \ {connection}
  /\ connection' = 0
  /\ main' = "joining"
  /\ UNCHANGED <<stop, stdin, reader, lines, compute, job, connect, listener,
                 register, list, directory, opened, toHub, toNode, holder, version>>

\* asyncio.run and the interpreter wait for every thread of the executor.
Exit ==
  /\ main = "joining" /\ reader # "reading" /\ job # "running"
  /\ main' = "exited"
  /\ up' = {}
  /\ UNCHANGED <<stop, stdin, reader, lines, compute, job, clientVars, opened,
                 toHub, toNode, holder, version>>

-----------------------------------------------------------------------------
(***************************************************************************)
(* The hub, as far as one client sees it (SignalingHub has the rest), and  *)
(* the network.                                                            *)
(***************************************************************************)
Delivered(k, m) ==
  IF k \in up THEN [toNode EXCEPT ![k] = Append(@, m)] ELSE toNode

HubReceives(k) ==
  /\ toHub[k] # <<>>
  /\ toHub' = [toHub EXCEPT ![k] = Tail(@)]
  /\ \/ /\ Head(toHub[k]) = "register" /\ holder = 0
        /\ holder' = k
        /\ toNode' = Delivered(k, Ack(version))
        /\ UNCHANGED up
     \/ /\ Head(toHub[k]) = "list" /\ holder = k
        /\ toNode' = Delivered(k, PeerList(version))
        /\ UNCHANGED <<up, holder>>
     \/ /\ holder \notin {0, k}
        /\ toNode' = Delivered(k, Is("error"))
        /\ up' = up \ {k}
        /\ UNCHANGED holder
  /\ UNCHANGED <<taskVars, clientVars, opened, version>>

HubNotices(k) ==
  /\ k \notin up /\ holder = k
  /\ holder' = 0
  /\ toHub' = [toHub EXCEPT ![k] = <<>>]
  /\ UNCHANGED <<taskVars, clientVars, up, opened, toNode, version>>

OthersChange ==
  /\ version < MaxChanges
  /\ version' = version + 1
  /\ toNode' = IF holder # 0 THEN Delivered(holder, PeerList(version + 1)) ELSE toNode
  /\ UNCHANGED <<taskVars, clientVars, up, opened, toHub, holder>>

\* A connection breaks, with some of what was on its way.
Lose(k) ==
  /\ k \in up
  /\ up' = up \ {k}
  /\ \E n \in 0 .. Len(toNode[k]) :
       toNode' = [toNode EXCEPT ![k] = SubSeq(@, 1, n)]
  /\ UNCHANGED <<taskVars, clientVars, opened, toHub, holder, version>>

Exited == main = "exited" /\ UNCHANGED vars

-----------------------------------------------------------------------------
ConnectStep == Opened \/ OpenFails \/ Registered \/ RegisterFailed

StdinStep == TakeEof \/ SkipLine \/ StdinDies \/ DispatchLine \/ Listed \/ ListFailed

ListenerStep == Listen \/ HandleDisconnect

MainStep == Stop \/ ComputeStops \/ StdinCancelled \/ Close \/ Closed \/ Exit

HubStep(k) == HubReceives(k) \/ HubNotices(k)

Environment ==
  \/ \E what \in {"line", "eof"} : Input(what)
  \/ Reconnect \/ Dispatched
  \/ StartJob \/ EndJob \/ StopSignal
  \/ OthersChange
  \/ \E k \in Sockets : Lose(k)

Next ==
  \/ ConnectStep \/ StdinStep \/ ListenerStep \/ MainStep
  \/ \E k \in Sockets : HubStep(k)
  \/ Environment
  \/ Exited

Spec == Init /\ [][Next]_vars

\* The event loop runs every task that can go on, and the hub reads what it is
\* sent.  Nobody has to type a line, and a job may take for ever.
Fairness ==
  /\ WF_vars(ConnectStep) /\ WF_vars(StdinStep) /\ WF_vars(ListenerStep)
  /\ WF_vars(MainStep)
  /\ \A k \in Sockets : WF_vars(HubStep(k))

FairSpec == Spec /\ Fairness

-----------------------------------------------------------------------------
(***************************************************************************)
(* Properties.                                                             *)
(***************************************************************************)

\* Whoever awaits a future that is not done has a listener that will see to it,
\* on the current connection: _handle_disconnect leaves nobody behind, and
\* nobody starts to wait after it.
WaitersHaveListener ==
  /\ Running
  /\ \/ connect = "registering" /\ register = "pending"
     \/ stdin = "listing" /\ list = Is("pending")
  => listener # 0

\* However often the hub is lost and found, the node keeps no connection to it
\* but the current one, until it closes the client.
NoSocketLeaks == main \notin {"closing", "joining", "exited"} => up \subseteq {connection}

\* connect() and request_peer_list return or raise, whatever the hub answers and
\* whenever the connection to it breaks.
RequestReturns ==
  (stdin \in {"asking", "listing"} \/ connect # "no")
    ~> (stdin \notin {"asking", "listing"} /\ connect = "no")

\* A stop is carried through, cancelled tasks and all, up to the threads that
\* cannot be cancelled: those are all the node may still wait for.
StopEnds ==
  stop ~> \/ main = "exited"
          \/ main = "joining" /\ (reader = "reading" \/ job = "running")

\* A client that was closed is gone: it leaves no connection to the hub open.
\* The cancelled listener has cleared _connection before close() looks at it.
ClosedMeansGone == main = "joining" /\ stop => up = {}
=============================================================================

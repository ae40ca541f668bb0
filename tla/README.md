# ComputeNet in TLA+

ComputeNet is a small peer-to-peer network for running C jobs. Nodes register with a signaling
hub over websockets, build WebRTC data channels to each other through it, and send each other
C programs, which the receiver compiles to WebAssembly and runs. Everything is asyncio: one event
loop per process, and every `await` is a place where something else may run. This project models
what the interleavings of those coroutines, of the messages and of the failures can do.

## 1. Inventory

| component | code | state | operations |
|---|---|---|---|
| Signaling hub | `src/src/server.py` | `_clients`: peer id to `ClientRecord`; per socket the endpoint task with its local `peer_id` | `register`, `unregister`, `request_peer_list`, `request_conn_to_peer`, `forward_rejection`, snapshot broadcast, `websocket_endpoint` |
| Client: negotiation | `src/src/client.py` | `peers` (cache of `Peer`), `_pending_signals` (one future per pending offer) | `request_conn_to_peer`, `wait_for_peer`, `connect_to_peer`, `_listen_loop`, `_dispatch` and its handlers |
| Client: life cycle | `src/src/client.py` | `_connection`, `_listener`, `_register_future`, `_pending_peer_list`, `directory` | `connect`, `close`, `request_peer_list`, `_handle_disconnect` |
| WebRTC helpers | `src/src/webrtc_connection.py` | one `RTCPeerConnection` and its data channel | create a pc, make an offer, handle an offer, set an answer |
| Peer | `src/src/peer.py` | `channel`, `_ready`, `_incoming`, `initiator` | `attach_channel`, `mark_connected`, `connect`, `send_with_retry`, `recv`, `close` |
| Compute node | `src/src/compute_node.py` | `_peer_tasks`: one handler task per peer id | `run`, `_refresh_peer_handlers`, `_handle_peer`, `_handle_job_submission`, shutdown |
| Job dispatch | `src/src/main.py` | none of its own; uses the cache and the queues | `submit_job_to_peer`, `close_peer_connection`, `attempt_job_dispatch` |
| Node process | `src/src/main.py` | the tasks of a process | `run_node`, `stdin_loop`, signal handlers |
| Job execution | `src/src/CEE.py`, `compiler.py`, `tempdir.py` | a temporary directory per job | compile, run with wasmtime, collect output |
| Messages | `src/src/message.py` | none | `to_json`, `from_json`, `build_*`, `extract_*` |
| Examples | `src/src/webrtc_example/` | | used by nothing |

How they interact: a client talks to the hub only by websocket messages; two clients share nothing
but what the hub forwards and the data channel they build. Inside a client the *caller* (a
coroutine that runs `connect_to_peer`), the *listener* (`_listen_loop`) and the handler tasks of the
compute node share `Client.peers`, the answer futures and each peer's incoming queue, without locks.

What is hard, and what each part should guarantee:

- *Hub.* The lock is never held across an `await`; a registration broadcasts and waits for everybody
  before it is acknowledged; a socket can fill up or die at any of these points. Ids must stay with
  exactly one live session, be freed in the end, and directories must converge.
- *Negotiation.* Caller and listener both install, replace, close and pop entries of the same cache,
  keyed by id, with awaits in between; both ends may call at once; an answer names only its sender.
  The cache must not offer what has been closed, no client may end up with two live connections to the
  same peer that it can still reach, an answer must belong to the offer it is set on, and calls must end.
- *Jobs.* A requester times out, retries and reconnects; replies are late; the handler is found by
  peer id while queues belong to connections; the node may itself be a requester on the same
  connection. A reported success must be the success of that job, and requests must be served.
- *Dispatch.* A job goes from candidate to candidate, and an attempt fails at any of its awaits. What is
  printed must be true of this job, and of the connections involved exactly the attempt's own are closed.
- *Life cycle.* The hub can be lost at any await, and whoever comes next reconnects; shutdown cancels
  tasks wherever they are, but not threads. Nobody may be left waiting, and no connection may stay behind.
- *Execution.* Any step may raise, in or out of two nested `with` blocks, and four kinds of handlers
  translate what it raised. The stage that is told must be the right one, no directory may stay or go
  early, and jobs share their thread pool with the reading of the standard input.
- *Messages.* The hub takes what it forwards apart and builds it anew, and an `extract_*` that raises
  ends the task it runs in, at the hub and at the client. Nobody may lose its listener or its
  registration over what another client has sent.

The full list of hazards, each at its line, is in `PROJECT.json`.

## 2. Modules

| module | models | role |
|---|---|---|
| `PeerRegistry` | what the hub promises about ids | abstract specification |
| `SignalingHub` | `server.py` | detailed specification, properties, refinement mapping |
| `SignalingHubProofs` | | inductive invariant and theorems |
| `Negotiation` | negotiation part of `client.py`, with `peer.py`, `webrtc_connection.py`, `main.py:117-125` | specification and properties |
| `NegotiationProofs` | | inductive invariants and theorems |
| `JobService` | `compute_node.py` handlers and `submit_job_to_peer` | specification and properties |
| `JobServiceProofs` | | inductive invariant and theorems |
| `JobDispatch` | `attempt_job_dispatch`, with `Peer.send_with_retry` and the attachment of channels | specification and properties |
| `JobDispatchProofs` | | inductive invariant and theorems |
| `JobOutcome` | what a node promises about the end of a job | abstract specification |
| `JobExecution` | `compile_and_execute`, `compiler.py`, `CEE.py`, `tempdir.py`, and the thread pool | detailed specification, properties, refinement |
| `JobExecutionProofs` | | inductive invariant and theorems |
| `Messages` | `message.py`, and who calls it in `server.py` and `client.py` | specification and properties |
| `MessagesProofs` | | inductive invariant and theorems |
| `NodeLifecycle` | `main.py` (`run_node`, `stdin_loop`), life-cycle part of `client.py` | specification and properties |
| `NodeLifecycleProofs` | | inductive invariant and theorems |
| `MCSignalingHub`, `MCNegotiation`, `MCJobService`, `MCJobDispatch`, `MCJobExecution`, `MCNodeLifecycle`, `MCMessages` | | the instances for TLC: symmetry sets where there are any, and the payloads of foreign clients in `MCMessages` |

In every module **an action is a stretch of code between two suspension points**. Program counters
(`pc`, `caller`, `listener`, `handler`, `loop`) name the `await` at which a coroutine is suspended. Operators
marked "if ..." in their comment (`FreeUnchecked`, `ReceiveOfferKeeping`, ...) are plausible wrong
versions of the operator that follows them; no behaviour of the specifications uses them. They exist
to show that the properties notice: with the wrong version in place TLC must report a violation.

### SignalingHub

`clients` is `_clients` (the record reduced to its socket), `pc`/`peerId`/`claimed`/`snapshot` are the
endpoint task of each socket and its locals, `tasks` the send tasks a broadcast has created and the
loop has not started (`asyncio.gather` wraps each send in a task that runs later, in creation order),
`out` what is written and not yet read. `awaiting[s]` is the set of sockets whose write `s` waits for;
a write to a socket with more than `HighWater` unread messages is suspended until its client has read
or gone. `directory` is `Client.directory` at the other end. `missed` is a history variable: the ids
that came or went while a socket was between its registration and its ack.

Each handler is one action per branch: `Register` and `RegisterAlone` are `hub.register` with
somebody and nobody to tell; `AckRegistration` continues it after the gather; `AckRaises` is the same
point with a client that is gone; `NoticeDisconnect` and `BadPayload` are the two ways into the
`finally` block, which is `Finally`/`Unregister`; `ReplyError`, `RequestPeerList`,
`RequestConnToPeer` and `ForwardRejection` are the branches of the loop. `Terminated` is the
self-loop of a hub whose sockets have all closed, so that deadlock checking stays on.

Left out: payload contents; the connection opened twice (every reconnect is a new socket); the
drain of the error reply in `Refuse`, after which the endpoint only closes its socket and which
touches nothing shared; a request that finds the client gone while it is answered, which raises at
the same place and with the same effect as `NoticeDisconnect`.

### Negotiation

A `Peer` and its `RTCPeerConnection` are created together and are one entry of `conns`; its index is
its identity, so that "the same peer" of the code is equality of indices. `peers[n][t]` is the cache,
`future[n]` the one answer future a caller can have, `inbox[n]` the FIFO of what the hub forwarded.
`caller` follows `connect_to_peer`, then the use of the connection, then `close_peer_connection`, in
the order of `attempt_job_dispatch`; `listener` follows `_dispatch`.

- The two-step closings are kept: `pc.close()` sets the state at once (`"closing"`) and returns
  later (`CloseDone`), and what follows the `await` is an action of its own (`Rebuild`, `GiveUp`,
  `HungUp`, `Replace`, `SendReject`). Most of the interesting behaviour is in these gaps.
- aiortc is external: `BecomeReady` (both ends hold each other's description), `Fail` (the remote
  end closed, died or never matched, or the network failed: the code cannot tell which), `CloseDone`.
  Calls on a closed pc may raise (`OfferRaises`, `AnswerRaises`, `OfferUnusable`).
- The hub is one FIFO per client: its detail is SignalingHub's. A message to an unregistered client turns
  into a rejection or an error for its sender, as there. A client that crashed, or whose connection to
  the hub is `"broken"` without anybody having noticed, stays registered until `Unregister`, so messages
  to it can be lost without anybody being told.
- `link[n]` is `_connection`: up, broken unnoticed, or none. `LoseHub` breaks the connection of one client
  and may lose what is on its way; `HubRestarts` breaks all of them and forgets every record.
  `Disconnected` is `_handle_disconnect`: it fails every entry of `pending` (`_pending_signals`).
  It is reached when the buffer has been read (`HandleDisconnect`) and when an answer or a rejection
  cannot be sent (`AnswerUnsent`, `RejectUnsent`). The next call of `request_conn_to_peer` registers anew
  under the same id (`Register`, `RegisterFails`, `Registered`), as soon as the hub has forgotten it.
- One call at a time per client, as `stdin_loop` does it. Clients are registered from the start.
- `Quiet` is the self-loop of a system in which nobody has anything to do. It admits a caller that
  waits for the answer of a client that is gone: that is a finding below, not a state to be hidden.

### JobService

One node and its requesters. `session[q]` counts the connections of a requester; `queue` and `back`
are the incoming queues at both ends of each. `handler[q]` is the entry of `_peer_tasks`, `on` the
connection it was spawned for. `cached` is who has an entry in `Client.peers`: `Connect` makes one, `Leave`
clears them, and `PopById` is the node's own caller that pops the entry of the connection that the requester has just
made (`client.py:174`). Whether it can come to that is Negotiation's, and it can: two clients call each other, one
caller's offer is rejected or fails, and while it awaits `pc.close()` the listener installs the responder's
connection (`GiveUp`). `Refresh` is `_refresh_peer_handlers`, which does not suspend: all
finished tasks are reaped and all ready peers of `client.peers` without a task get one, in one step. `Submit`,
`ReadAck`, `ReadResult`, `ReadError`, `ReadOther` and `RequestTimeout` are `submit_job_to_peer`. `Ask`,
`AskerTakes` and `AskTimeout` are the same function run by the node, over a connection that the
requester made and that `connect_to_peer` found in the node's cache. `fate` and `succeeded` are
history variables. `HandlerDies` is a message whose language is not a string, of which
`_handle_job_submission` raises. `Stop` is the cancellation of `run`, whose `finally` cancels every
handler at the `await` it is suspended in, together with that of the node's own submissions; `Leave` is
`close()`, at the latest the end of the process. A requester may submit more than once over one
connection: `attempt_job_dispatch` closes only what its own call has made, and a connection that came up
after its call had given up, or that the test-suite holds, is used again. What compiling and running do
is a Boolean here; how a connection comes about is Negotiation's; `Idle` is the self-loop of a system
whose node has gone.

### JobDispatch

One node that looks for somebody to run its jobs. `loop` is where `attempt_job_dispatch` is; `todo` are the
candidates it has not tried, `target`, `existing`, `peer` and `job` its locals. `conns` are the
connections with the two ends of their queues: `asked` is what the target has not handled yet,
`incoming` is `Peer._incoming`. `mark`, `fresh`, `tried` and `ran` are history.

- `Dispatch`, `Listed` or `ListFails`, `Choose`, `ConnectFails` or `Connected`, then `Send`, `SendRaises` or
  `SendTimesOut` (`send_with_retry`), then `TakeResult`, `TakeError`, `TakeOther` or `WaitTimesOut`
  (`submit_job_to_peer`). Each way out of an attempt goes through `Finally`, the `finally` block, which
  either closes the connection (`Closed` is the return of that) or goes on at once.
- `Stop` is `run_node` cancelling the task of `stdin_loop`, wherever it is suspended: between attempts
  (`CancelledBetween`), within one, where the `finally` block still runs (`CancelledWithin`), or while
  the connection is being closed (`CloseInterrupted`), which then stays in the cache.
- A connection can be up and have no channel: the responder's `Peer` is ready when its pc is, and its
  channel is attached by a later callback (`Open`). `send_with_retry` then raises without trying; a channel
  that is connecting or closed is polled until the deadline.
- While the loop is in `connect_to_peer`, that may close the connection it found, when it is stale or does not become
  ready (`DropExisting`), drop what is cached for the target, by id (`Uncached`), and make a new connection (`Dial`).
  It returns (`Connected`), raises (`ConnectFails`), or never does either.
- `TargetCalls` makes connections, `Break` and `Uncached` take them away, at any time; the target
  answers what it was asked with success, failure, an error, or nothing (`Serve`), however late. How
  connections come about is Negotiation's, how a job is served JobService's.

### JobExecution and JobOutcome

Inside the node that runs a job. `at[j]` is the step of the job's thread: `mkdtemp`, `source`, `clang`
(the `Compiler`), then `outdir`, `store`, `load`, `link`, `instantiate`, `lookup`, `entry`, `run`, `output`
(`WasmExecutor.execute`),
then `closing` and `cleanup`, the two `__exit__`s that every path out of the `with` blocks takes. Each
step may raise; `outcome` is what is in flight, a `JobExecutionError` with its stage or any `Other`
exception, which `Return` turns into a compilation error, as `compile_and_execute` does.

`queue` is the work of asyncio's default executor, which `stdin_loop` shares with the jobs: `Begin` and
`BeginReading` need a free thread. `Stop` cancels the handlers and the work that waits, not the threads.
`JobReadsLine` is a job that reads the standard input it inherits (`CEE.py:50`). What `stdin_loop` does with a line
is here only that it returns (`Dispatched`), raises on a file that is not UTF-8 and ends the task
(`DispatchRaises`), or hangs.

`JobOutcome` is the promise: a job comes to one end, and its requester is told at most once, afterwards,
the verdict on that end. `ImplementsOutcome` says that `JobExecution` implements it, with `ended` and
`told` as they are. Five steps belong to no stage (`Outside`): the directory and the store, the linker, the lookup
of the entry point, whose name is whatever JSON value the requester sent, and the reading of the output.
No `try` surrounds them, and the last handler tells a compilation of what they raise. `JobOutcome` says so too,
since that is what a requester has to reckon with, and not because it is right.

Left out: the text of messages, what a job prints, clang's diagnosis (it is part of the message).

### Messages

A JSON value is a tag with what it holds; an operation that may raise is the set of what it returns,
empty when it raises. `build_*` and `extract_*` are the operators of the same name (the two signals and
the two forwards of each kind share one, `build_signal` and `build_forward`, as in the code). They are
composed as the code does: a native client builds, the endpoint of its socket at the hub reads, extracts,
builds and sends, the listener of the other client reads and extracts. Clients outside `Native` send
any of the `Foreign` payloads. An `extract_*` that raises ends the endpoint (`Raise`, which
unregisters) or the listener (`Ends`), since both call it outside of a `try`.

The endpoint handles a message in one step here, sockets do not break and nobody comes back: that is
SignalingHub's part.

### NodeLifecycle

One process. The tasks are `main` (`run_node`, then `close`, then the end of `asyncio.run`), `stdin`
(`stdin_loop` with what it calls), `compute` (the compute service) and `listener`, whose value is the
connection it reads; the threads, which cannot be cancelled, are `reader` (in `readline`) and `job`.
`connect` is where `connect()` is suspended; it has one caller at a time, the main task at the start
and the stdin task later. `register` and `list` are the two futures of the client, with what the
latter was resolved to.

- Connections to the hub are numbered as they are opened, `connection` is `_connection`. The peer list
  is reduced to the `version` of the hub's table, which `OthersChange` increments and broadcasts, so
  that an older list can be told from a newer one.
- `Opened` opens the websocket, makes the listener and sends `register`: between these nothing of the
  node can run that touches the same state. A request that is sent can be lost with its connection, or
  the send raises; both leave the future pending (`RequestList`).
- `Listen` is `_dispatch` for acks, lists and errors; `HandleDisconnect` is the listener's `finally`
  block, entered when the connection is closed and its buffer is read, or when `close()` cancels it.
- `Running` guards what a task does that shutdown cancels. `StdinCancelled` ends the stdin task wherever
  it is. `ComputeStops` is the shutdown of the compute service, in one step: the handlers are
  cancelled, the thread of a job goes on.
- `StdinDies` is a source file that is not UTF-8: `read_text` raises what `main.py:132-133` does not
  catch, the task ends and nobody looks at its exception before the shutdown.
- `Exit` waits for both threads, as `asyncio.run` and the interpreter do for those of the executor.
  `Exited` is the self-loop of a process that is gone.

Left out: pending offers, which `_handle_disconnect` fails like the other futures (Negotiation), and the
closing of the peer connections; what a dispatch does with each candidate (JobDispatch), except
that `request_conn_to_peer` may reconnect (`Reconnect`); the detail of the hub, which is SignalingHub's;
how the thread of a job and the one in `readline` come by a thread (JobExecution).

## 3. Runs

Symmetry is used only where no liveness property is checked. All runs check deadlock.

| run | instance | question |
|---|---|---|
| `hub_safety` | 3 sockets, 2 ids, `HighWater` 1, 1 request, symmetry | `RegistryOwned`: the table is exactly the live sessions. `DirectoryConverges`: what is on its way to a client brings its directory to the table. `ImplementsRegistry`: the hub implements `PeerRegistry` |
| `hub_liveness` | 2 sockets, 2 ids, fair | `RegistrationSettles`, `DeadPeersForgotten` |
| `negotiation` | 2 clients, 2 calls, 1 fault, fair | `CacheNotClosed`, `OneLink`, `AnswerMatches`; `CallReturns` |
| `negotiation_three` | 3 clients, 2 calls, 1 crash or lost connection, symmetry | a third client does not disturb `OneLink` and `AnswerMatches` |
| `answer_never_comes` | 2 clients, 1 call, 1 fault, fair | violated: `CallAlwaysReturns` |
| `stale_pending` | 2 clients, 1 call, 1 fault | violated: `PendingIsAwaited` |
| `jobs` | 1 requester, 2 connections, 2 requests, 1 submission of the node, fair | `SuccessMeansRun`, `SuccessWasAcked`; `RequestServed`. The node is stopped at any point |
| `dispatch` | 2 targets, 2 dispatches, 2 connections, fair | `ReportIsTrue`, `GivesUpHonestly`, `NothingLeftOpen`; no step closes what was there before, but for an existing connection that is not open (`KeepsOthers`); `DispatchEnds`: a dispatch ends or stays for ever in one `connect_to_peer`. The node is stopped at any point |
| `execution` | 2 jobs, 2 threads, 2 lines, fair | `DirsMatchUse`; `ImplementsOutcome`: what is told is the verdict on the step that broke; `JobsAnswered`, `ReaderServed` |
| `messages` | 2 native clients and 1 foreign, 2 messages unprompted | `ListenersSurvive`, `NativeKept`, `HandedWasSent` |
| `lifecycle` | 3 connections, 3 lines, 1 change of the hub's table, fair | `WaitersHaveListener`, `NoSocketLeaks`; `RequestReturns`, `StopEnds` |
| `close_leaves_socket` | 1 connection, no line | violated: `ClosedMeansGone` |

The type invariant of each module is checked by its first run in the table.

Why the bounds suffice for the cases that matter:

- *Hub.* Three sockets on two ids give a duplicate registration, a registration during the broadcast
  of another and one under an id that has just been freed, all at once. `HighWater` 1 makes the drain
  suspend with two messages. One request reaches every branch of the loop at every point. Two sockets
  are enough for liveness: one waits for the other. Symmetry is sound for the refinement, which is
  checked step by step and does not tell ids or sockets apart.
- *Negotiation.* Two calls are glare (both call at once), or a call on what a failed or finished one has
  left in the cache. One fault is a crash, a broken connection or a restart of the hub, at any point of
  both calls, after which there is still a call to come back with. The third client is there for errors
  and rejections that are about somebody else; a restart of the hub, which hits all clients alike, is left to
  the run with two.
- *Jobs.* Requesters do not interact with each other (each has its own handler, queue and
  submission), so one shows what any number do. Two requests show a late reply meeting the next
  request, two connections a handler still busy on the old one.
- *Dispatch.* Two targets are a failure followed by a success; two dispatches let the second meet the late
  answers of the first on a connection that was kept; two connections are an old one and a fresh one, also
  to the same target.
- *Execution.* Jobs share nothing but the pool and the lines. Two of them and a reader compete for two
  threads, so that each can be kept waiting by the others; two lines are one that a job takes and
  one that is left.
- *Messages.* The foreign client sends each kind of message with each field missing, null, mistyped, empty
  or right. Every message is handled on its own, so one from there and one in answer to it, or two in a
  row, reach every pair of an `extract_*` and what comes in.
- *Life cycle.* Two losses of the hub, each followed by a reconnection, show a second session that
  starts from what the first has left behind; a third connection repeats the second. Three lines let a
  list request fail, be refused because of its predecessor's future, and succeed. One change of the
  table puts an older and a newer list on their way together.

What the runs taught about the properties:

- `DirectoryConverges` needs its exception. `register` returns the snapshot it took before the
  gather, so an ack may be written after newer broadcasts and take a directory back until the next
  broadcast or peer list. Without `missed` TLC finds that behaviour.
- `AnswerMatches` is claimed while nobody has left the hub (`gone = {}`). It fails otherwise, in two ways:
  an error about a dead client fails the offer pending to another one, and a client that loses the hub
  fails its offer and returns under its id. In both cases the answer to the failed offer is
  still on its way, and is taken for the answer to the next one.
- `OneLink` speaks of connections that their owner can reach: through the cache, or because its
  caller has it in hand. A half-made connection that lost its cache entry may still come up, as an
  orphan next to a newer one. What a caller returned from `request_conn_to_peer` is not in its hand:
  `connect_to_peer` drops it (`client.py:229`) and polls the cache. A first form of `OneLink` counted it;
  with four calls TLC found an orphan and a newer connection together, one that two calls are too few for.
  The present form also passes three calls with one fault, and is proved for any number (section 4).
- `DirectoryConverges` says what a client will hold once it has read everything with a quantifier over
  the positions of the lists it has not read (`Latest`), where a filter on the sequence would do for TLC
  alone.

### Fairness

- *Hub.* The event loop runs every task that is ready (a continuation after an `await`, a send task),
  hence weak fairness of each; a client that stays keeps reading its socket. No client is obliged to
  connect, ask or leave. `DeadPeersForgotten` rests on a socket that reports the loss of its client:
  the keep-alive of uvicorn and websockets, left at its
  defaults, sees to that.
- *Negotiation.* Callers and listeners of live clients run, `close()` returns, the hub notices who is
  gone. One weak fairness condition on the union of these steps says as much as is needed: calls are
  bounded, so each run of progress steps ends. Timeouts are actions of the caller, so its
  fairness makes them expire. Neither a call nor a connection that comes up is guaranteed.
- *Dispatch.* The loop runs (`LoopStep`): its timeouts expire, `close()` and the request for the list return
  (`RequestReturns`). `connect_to_peer` is under no fairness, since finding 1 shows that it need not return;
  `DispatchEnds` therefore ends in "or stays in it for ever", and `CallReturns` shows when it does
  return. No target has to answer and no channel has to open.
- *Execution.* Threads and the event loop run, and **jobs end**, which the code does not see to. As in Negotiation
  one condition on the union of their steps is enough. No dispatch has to return (finding 1), and it may raise
  and end the task of `stdin_loop`: that typed lines are read in the end is therefore not claimed, only that a
  `readline` that is submitted gets its thread (`ReaderServed`). Nobody is obliged to type, to submit or to stop
  the node.
- *Jobs.* The node's loop polls, its handlers run, connections report that they are up or down, and
  **jobs end**. The last is an assumption on the jobs: `compile_and_execute` has no time limit, and
  without it a single job starves every later request of its peer. Requesters and the
  node's own submissions are under no obligation. `RequestServed` excepts the requests that such a
  submission takes away (`main.py:89`, below), and those on a connection that was popped by id
  (`client.py:174`, below).
- *Life cycle.* The event loop runs the tasks that can go on, and the hub reads, answers and notices
  lost connections. Nobody has to type a line, no signal has to come, a job may run for ever: `StopEnds`
  therefore promises an exit only up to the threads that cannot be cancelled. `websockets.connect` has
  a timeout (`client.py:77`), so its task is always able to go on.

### Disagreements between the code and its descriptions

1. `answer_never_comes`. `request_conn_to_peer` waits for the answer without a timeout
   (`client.py:171`). If the target dies after the hub forwarded the offer, nobody resolves the
   future; `connect_to_peer(..., timeout)` never returns and the node's `stdin_loop` is stuck.
2. `close_leaves_socket`. `close()` cancels the listener and awaits it; its `finally` block clears
   `_connection`, so the test at `client.py:98` never holds and the websocket is not closed. A node that
   still has a job to finish keeps its id at the hub. `test_client_server.py:106` calls this closed
   cleanly.
3. `stale_pending`. `request_conn_to_peer` makes its entry in `_pending_signals` and sends the offer before
   the `try` that follows (`client.py:164-170`). If the hub was lost while the offer was made, `_send` raises
   and the entry stays. Once the client is connected again, it refuses the target with "Connection attempt
   to ... already pending", although none is.

What the models do as well, and no property claims or denies:

- A caller whose offer was rejected awaits `pc.close()` and then pops the cache by id
  (`client.py:173-175`). If the target called back in between, what is popped is the live connection
  that its listener has just made (`GiveUp` of Negotiation, `PopById` of JobService). `_refresh_peer_handlers` sees
  only `client.peers`, so nobody reads what the target submits, and both ends keep the connection open, although
  `compute_node.py:15` speaks of "incoming job submissions over established peer channels".
- What the steps of `WasmExecutor.execute` outside its `try` blocks raise (`CEE.py:48-55`, `62-63`, `70`,
  `86-87`) is reported with the stage `compilation` (`compute_node.py:242-243`): a job that ran and
  printed bytes that are not UTF-8, for one. `CEE.py:16` speaks of a "specific stage".
- `submit_job_to_peer` on a connection made by the other side reads the queue that the handler reads
  (`main.py:89`), and drops a `submit` it finds there (`AskerTakes`).
- A stop cancels the stdin task, but not the thread in `readline` (`main.py:225`): the process exits only
  after another line or the end of the input (`Exit`).
- `send_with_retry` raises at once when there is no channel yet (`peer.py:71`), and does not retry
  (`SendRaises`).
- A job reads lines that were typed for `stdin_loop` (`CEE.py:50`, `JobReadsLine`).
- `request_peer_list` assigns the list it awaited (`client.py:122`) over a newer broadcast that the
  listener handled before the caller ran (`Listed`).
- A path to a file that is not UTF-8 ends the stdin task (`StdinDies`, `DispatchRaises`).
- An error carries no job id: a late one fails the job that is pending when it arrives (`main.py:107`, `ReadError`,
  `TakeError`). `main.py` itself sends nothing that is answered by an error.
- A connection that a `connect_to_peer` has made which then failed or was cancelled is nobody's to close: `Peer.rtc`
  stays open, in the cache (`ConnectFails`, `CancelledBetween`). `NothingLeftOpen` speaks of those it returned.

## 4. Proofs

### The hub

`SignalingHubProofs` proves, for every set of ids and sockets and all bounds, from `HubAssumption`
alone (`None` is neither an id nor a socket; the bounds are naturals):

- `TypeCorrect`: `Spec => []TypeOK`. In particular no ack and no forwarded message carries a missing
  id, although `peer_id` is a local that is set late.
- `Ownership`: `Spec => []RegistryOwned`. The table lists exactly the live sessions.
- `Refinement`: `Spec => ImplementsRegistry`. The hub implements `PeerRegistry`.

The inductive invariant is `IInv == TypeOK /\ RegistryOwned /\ Sessions`. `RegistryOwned` alone is not
inductive: the endpoint's `peer_id` is set only when the registration is over, and the `finally` block
pops whatever id it names, so the induction needs to know how `peerId`, `claimed` and `pc` agree in
each phase of a session (`Sessions`): a socket that has not registered claims nothing, one that has
keeps its id for good.

The proof does not visit the twenty-odd actions once per conjunct. `StepKinds` shows that every step is
of one of four kinds as far as sessions are concerned: it leaves them alone up to a change of the
suspension point (*Moves*), takes a free id (*Takes*), settles a registration (*Settles*), or gives an
id up (*GivesUp*). Preservation of `RegistryOwned` and `Sessions`, and the step of the
refinement (`Takes` is `Join`, `GivesUp` is `Leave` or a stutter, the others stutter), are then proved
per kind. Typing is proved by action, over lemmas for what writing and broadcasting do to `out`
and `tasks`.

- `Directories`: `Spec => []DirectoryConverges`. A registered client that reads what is on its way to it
  knows the table, but for the ids in `missed`.

For that the invariant is `DInv`, which adds to `IInv` four facts about each socket (`Told`): nobody is told
anything before it has a record (`Untold`), the last send that is scheduled to a recorded client carries the
table (`LastIsTable`), the snapshot with which a registration will be acknowledged is the table up to `missed`
(`SnapshotAges`), and the property itself. When the table changes, a broadcast goes to exactly those that
have a record (`RecordedHas`, which rests on `RegistryOwned`), so `LastIsTable` holds at once and the
property with it; the endpoint that registers is left out of its own broadcast, which is where `missed` starts to
count. All other steps write no list to a client (`Undisturbed`), the table itself (`ListTells`), or the
snapshot (`AckTells`), or only move a list along from task to socket to directory (`LatestSent`, `LatestRead`).

### The negotiation

`NegotiationProofs` proves, for all clients, calls and faults, from `NegotiationAssumption` alone:

- `TypeCorrect`: `Spec => []TypeOK`. What is cached for a peer is a connection with that peer.
- `CacheServesOpen`: `Spec => []CacheNotClosed`.
- `OneLiveLink`: `Spec => []OneLink`.
- `AnswersMatch`: `Spec => []AnswerMatches`.

The inductive invariant of the first three is `CInv == TypeOK /\ \A n : NodeInv(n)`, which gives each suspension
point its meaning: what the caller holds is its own connection with its target and what the
listener holds its own with the sender of the offer (`Held`); what the caller is about to drop it has closed
(`Dropped`); what waits for an answer has none (`Unanswered`); what the listener answers or rejects with was made
for that (`Responding`). `Clean` is `CacheNotClosed` of one client. `OneLink` is a consequence of `Used`: what a
caller joins, waits for or uses, if it is live or the listener will make it so, is in the cache. Hence
all live connections with a peer that are in reach are the one cache entry. What makes `Used` inductive is the gap in
`_handle_incoming_offer` between the removal of the old entry and the installation of the new
one: a caller may fill the entry there, but only with a connection that has no answer and will get none,
since the listener that would read it is busy (`Window`). Most steps change one client and leave the others'
connections alone (`Same`); each way of changing `conns` (one made, set, closed, or of another life) has its lemma.

`AnswerMatches` speaks of all clients at once and of what is between them. Its invariant is
`AInv == CInv /\ (gone = {} => Calm)`. `Calm` says that everybody is registered and that of each pair of clients
there is at most one exchange: either the offer on its way, or the listener that handles it, or the reply
on its way (`Single`); and that this exchange is about the connection the caller waits with, unless the caller is
deaf, that is dead or without a connection to the hub (`Awaited`). So a caller that makes an offer has none
under way, and the answer it takes was made from the one it has pending; what an answer was made with no
later step changes (`GivenStays`). A step that makes `gone` non-empty has nothing to show, which is where the
two counterexamples of section 3 end the claim.

### The messages

`MessagesProofs` proves, for all clients, texts, descriptions and payloads of others, from
`MessagesAssumption` and `ForeignAssumption` (the strings and descriptions in what others send are among
`Texts` and `Descriptions`):

- `TypeCorrect`: `Spec => []TypeOK`.
- `ListenersStay`: `Spec => []ListenersSurvive`. No message ends the listener of a native client.
- `RegistrationStays`: `Spec => []NativeKept`. The hub can take apart every message of a native client.
- `Provenance`: `Spec => []HandedWasSent`. What is handed over under a name was sent by the client of that name.

The inductive invariant is `IInv == TypeOK /\ Recorded /\ InTransit /\ HandedTraced /\ ListenersSurvive /\
NativeKept`. Its types carry the first half of the argument: what waits for the hub from a native client was made
by `build_*`, what waits for any client was made by the hub, and lemmas about `build_*` and `extract_*` show
that each can be taken apart. `Recorded` and `InTransit` carry the other half: a message is traced, at each
place it can be, to the client that sent it. It stays traced because ids, once taken, are kept in this module.

### The node's session with the hub

`NodeLifecycleProofs` proves, for all bounds, from `LifecycleAssumption` alone (the bounds are
naturals):

- `TypeCorrect`: `Spec => []TypeOK`.
- `NobodyWaitsAlone`: `Spec => []WaitersHaveListener`. Whoever awaits an unresolved future of the client
  has a listener on the current connection, however often the hub was lost.
- `OneConnection`: `Spec => []NoSocketLeaks`. Reconnecting never leaves an older connection open.

The inductive invariant is `IInv == TypeOK /\ Session`, where `Session` adds two facts to the two
properties. `ListenerOwnsConnection` (the listener reads `_connection`, and both come and go together)
is needed because the listener, as it ends, fails the futures of *the client*: they are those of its own
session only if there is no other. `OpensWhenLost` (`connect()` opens a connection only when there is
none) is what keeps an older socket from being overwritten. Typing and `Session` are proved per action,
grouped as in `Next`. That `close()` leaves its socket open (finding 2) is why `NoSocketLeaks` ends
where `close()` begins.

### The execution of a job

`JobExecutionProofs` proves, for every set of jobs, every size of the pool and any number of lines, from
`ExecutionAssumption` alone (the pool has at least two threads; the bound is a natural):

- `TypeCorrect`: `Spec => []TypeOK`. In particular no requester is told an exception without a stage.
- `Tidiness`: `Spec => []DirsMatchUse`. Directories exist exactly while their `with` block is entered.
- `Refinement`: `Spec => ImplementsOutcome`. What a requester is told is the verdict on the step that broke.

The inductive invariant is `IInv == TypeOK /\ LinesLeft /\ Verdicts /\ DirsMatchUse`. `LinesLeft` bounds the
lines that wait by those typed. `Verdicts` is the heart: before a step has ended the job there is no
outcome; on the way out the outcome is the verdict or an `Other` exception of a step whose verdict is
compilation; after `Return` it is the verdict. Every step of a thread is of a kind
(it waits, proceeds, breaks, enters or leaves a directory, returns, tells), and preservation is
proved once per kind. `Tell` then maps to `Tell` of `JobOutcome`, a step that ends a job to `End`,
all others to stutters.

### The dispatch of a job

`JobDispatchProofs` proves, for all targets, dispatches and connections, from `DispatchAssumption` alone
(there is a target; the bounds are naturals):

- `TypeCorrect`: `Spec => []TypeOK`; no candidate is tried twice.
- `Truth`: `Spec => []ReportIsTrue`. A job is reported as completed by a target that has run it.
- `Honesty`: `Spec => []GivesUpHonestly`. That all peers rejected it is said when all failed.
- `NothingStaysOpen`: `Spec => []NothingLeftOpen`, and `OthersKept`: `Spec => KeepsOthers`. A dispatch closes
  the connections of its attempts, all of them and no others, also when it is cancelled at an `await`; the one
  exception is an existing connection that `connect_to_peer` finds stale or not ready.

The inductive invariant is `TypeOK /\ JobsKnown /\ Outcomes /\ Connections`, with the two properties about
reports. The argument is that job ids grow. `JobsKnown` says of every connection that what it holds is of
jobs up to the current one, that only the current target was asked for the current job, and that a success
of the current job in `incoming` means that it was run. Hence what earlier attempts left behind has another
id and is skipped. `Connections` relates `peer`, `existing` and `mark`: the connection of an attempt either
is the one that was there before it or is younger than it, and a fresh one that is up belongs to the attempt.
Each step is split by what it does to the connections (`ConnsStep`: one changes, one appears, or none)
and by what it does to the loop (the world moves, an attempt ends, between attempts, within one).

### The service of jobs

`JobServiceProofs` proves, for all requesters, connections, requests and submissions of the node, from
`JobAssumption` alone (the bounds are naturals):

- `TypeCorrect`: `Spec => []TypeOK`.
- `Truth`: `Spec => []SuccessMeansRun`. A success that a requester reports is of a job that was run to its end.
- `AckSeen`: `Spec => []SuccessWasAcked`. It has seen the ack before.

A requester may time out, submit again over the same connection, and come back on another one, so the
queues hold replies to several requests. The inductive invariant says where each request can be: `Queued`
and `Once` (a request that has not been taken is in one place of one queue, and the one that is waited for is on the
connection it is waited for on), `Running` (so is the one that is run), `Answered` (a success on its way
is of a job that has ended) and `AckFirst` (before the success of the request that is waited for, and while it
is run on a connection that is up, there is its ack, unless it was read). `Past` says that job ids grow,
and `Links` that only the last connection of a requester can be up. A job that is submitted is new by `Past`;
the one that is taken is gone from every queue by `Once`; and what is sent is either the ack of the job that begins or
comes behind it in the same queue. The steps fall into those that touch no queue (`Calm`), `Submit`,
the reads (`ReadKeeps`), the takes (`ServeKeeps`) and the end of a job.

### Only model-checked

The liveness properties (`RegistrationSettles`, `DeadPeersForgotten`, `CallReturns`, `RequestServed`,
`DispatchEnds`, `JobsAnswered`, `ReaderServed`, `RequestReturns`, `StopEnds`): temporal reasoning under fairness
needs `ENABLED`, which is out of the prover's reach. Every invariant and every action property that a passing run
checks is proved, and so are both refinements.

## 5. Not modelled, and the plan

Not modelled because there is nothing to check or it is somebody else's code: configuration and
logging, uvicorn, aiortc, wasmtime and clang themselves, the examples. The checks of `build_*` on their own
arguments are left out, since no caller passes what they refuse.

Of the code that the modules are about, one thing is left: `close()` closes the peer connections one by one
while the listener is gone and, where a program other than `main.py` calls it, callers may still run.

Planned:

1. The safety core of `CallReturns`: while all clients live and are connected, a caller that waits for an answer
   has an offer, a listener at work or a reply under way. `Calm` has at most one of these; the proof that it
   has one must follow the exchange where the present one only shows that no second appears.
2. The same for `RequestServed`: a request that nobody has taken is in front of a handler or of its spawning.
3. The omission above, as an extension of `Negotiation` whose caller is any task of the program, with the
   proofs extended to it.

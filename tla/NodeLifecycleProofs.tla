------------------------ MODULE NodeLifecycleProofs ------------------------
(***************************************************************************)
(* Theorems about NodeLifecycle, for every bound.                          *)
(*                                                                         *)
(* The properties are not inductive by themselves: that nobody waits on a  *)
(* connection without listener needs to know that the listener and         *)
(* _connection come and go together, and that no connection leaks needs to *)
(* know that connect() opens one only when there is none.                  *)
(***************************************************************************)
EXTENDS NodeLifecycle, SequenceTheorems, TLAPS

ListenerOwnsConnection == listener = connection

OpensWhenLost == connect = "opening" => connection = 0

Session ==
  /\ ListenerOwnsConnection
  /\ OpensWhenLost
  /\ WaitersHaveListener
  /\ NoSocketLeaks

IInv == TypeOK /\ Session

-----------------------------------------------------------------------------
(***************************************************************************)
(* Types of what the actions put together.                                 *)
(***************************************************************************)

\* Bounds are natural numbers.
LEMMA Bounds == MaxSockets \in Nat /\ MaxLines \in Nat /\ MaxChanges \in Nat
BY LifecycleAssumption

\* What is left of the incoming messages of a connection that breaks is
\* well typed (Lose keeps a prefix).
LEMMA PrefixType ==
  ASSUME NEW S, NEW s \in Seq(S), NEW n \in 0 .. Len(s)
  PROVE  SubSeq(s, 1, n) \in Seq(S)
<1>1. 1 \in Int /\ n \in Int
  OBVIOUS
<1>2. \A i \in 1 .. n : s[i] \in S
  BY ElementOfSeq
<1>3. QED
  BY <1>1, <1>2, SubSeqProperties

\* What is delivered to a connection keeps its type.
LEMMA DeliveredType ==
  ASSUME HubTypes, NEW k \in Sockets, NEW m \in ToNode
  PROVE  Delivered(k, m) \in [Sockets -> Seq(ToNode)]
BY DEF HubTypes, Delivered

\* The messages of the hub are of their type.
LEMMA MessageType ==
  ASSUME NEW v \in Versions
  PROVE  PeerList(v) \in Lists /\ PeerList(v) \in ToNode /\ Ack(v) \in ToNode
         /\ Is("error") \in ToNode
BY DEF PeerList, Ack, Is, Lists, ToNode

\* What the listener takes from a message that is no error is a version.
LEMMA CarriedVersion ==
  ASSUME NEW m \in ToNode, m.is \in {"ack", "list"}
  PROVE  m.of \in Versions
BY DEF ToNode, Lists, Is

\* The next turn of stdin_loop is well typed, and waits for no list.
LEMMA NextLineType ==
  ASSUME TaskTypes, NextLine
  PROVE  stdin' \in {"reading", "done"} /\ reader' \in {"idle", "reading", "line", "eof"}
BY DEF TaskTypes, NextLine

\* Asking for a list keeps the types, and leaves the caller waiting only on a
\* connection (request_peer_list).
LEMMA RequestListType ==
  ASSUME TypeOK, RequestList
  PROVE  /\ stdin' = stdin \/ stdin' \in {"reading", "listing", "done"}
         /\ stdin' = "listing" => connection # 0
         /\ reader' \in {"idle", "reading", "line", "eof"}
         /\ list' \in {Is("none"), Is("pending"), Is("failed")} \cup Lists
         /\ toHub' \in [Sockets -> Seq(ToHub)]
<1>1. connection \in up => connection \in Sockets /\ connection # 0
  BY DEF TypeOK, HubTypes, Sockets
<1>2. toHub' \in [Sockets -> Seq(ToHub)]
  <2>1. "list" \in ToHub
    BY DEF ToHub
  <2>2. CASE UNCHANGED toHub
    BY <2>2 DEF TypeOK, HubTypes
  <2>3. CASE /\ connection \in up
             /\ toHub' = [toHub EXCEPT ![connection] = Append(@, "list")]
    BY <1>1, <2>1, <2>3 DEF TypeOK, HubTypes
  <2>4. QED
    BY <2>2, <2>3 DEF RequestList
<1>3. list' = list \/ list' = Is("pending")
  BY DEF RequestList
<1>4. list' \in {Is("none"), Is("pending"), Is("failed")} \cup Lists
  BY <1>3 DEF TypeOK, ClientTypes
<1>5. CASE NextLine
  BY <1>2, <1>4, <1>5, NextLineType DEF TypeOK
<1>6. CASE stdin' = "listing" /\ connection # 0 /\ UNCHANGED reader
  BY <1>2, <1>4, <1>6 DEF TypeOK, TaskTypes
<1>7. QED
  BY <1>1, <1>5, <1>6 DEF RequestList

\* Failing the futures keeps their types, and leaves none pending.
LEMMA FailedType ==
  ASSUME ClientTypes, Failed
  PROVE  /\ register' \in {"none", "pending", "ok", "failed"} \ {"pending"}
         /\ list' \in {Is("none"), Is("pending"), Is("failed")} \cup Lists
         /\ list' # Is("pending")
<1>1. Is("failed") # Is("pending")
  BY DEF Is
<1>2. QED
  BY <1>1 DEF ClientTypes, Failed

-----------------------------------------------------------------------------
(***************************************************************************)
(* Every step keeps the types.                                             *)
(***************************************************************************)
LEMMA InitIInv == Init => IInv
<1> SUFFICES ASSUME Init PROVE IInv
  OBVIOUS
<1>0. 0 \in 0 .. MaxLines
  BY Bounds
<1>1. TaskTypes
  BY <1>0 DEF Init, TaskTypes
<1>2. ClientTypes
  BY Bounds DEF Init, ClientTypes, Versions
<1>3. HubTypes
  BY Bounds DEF Init, HubTypes, Versions
<1>4. Session
  BY DEF Init, Session, ListenerOwnsConnection, OpensWhenLost, WaitersHaveListener,
         NoSocketLeaks, Running
<1>5. QED
  BY <1>1, <1>2, <1>3, <1>4 DEF IInv, TypeOK

LEMMA ConnectTypes == TypeOK /\ ConnectStep => TypeOK'
<1> SUFFICES ASSUME TypeOK, ConnectStep PROVE TypeOK'
  OBVIOUS
<1>1. CASE Opened
  <2>1. "register" \in ToHub
    BY DEF ToHub
  <2>2. HubTypes'
    BY <1>1, <2>1, Bounds DEF Opened, TypeOK, HubTypes, Sockets
  <2>3. ClientTypes'
    BY <1>1, Bounds DEF Opened, TypeOK, ClientTypes, Sockets
  <2>4. QED
    BY <1>1, <2>2, <2>3 DEF Opened, TypeOK, taskVars, TaskTypes
<1>2. CASE ConnectRaises
  <2>1. HubTypes'
    BY <1>2 DEF ConnectRaises, hubVars, TypeOK, HubTypes
  <2>2. ClientTypes'
    BY <1>2, Bounds DEF ConnectRaises, hubVars, TypeOK, ClientTypes, HubTypes
  <2>3. TaskTypes'
    BY <1>2, NextLineType DEF ConnectRaises, TypeOK, TaskTypes
  <2>4. QED
    BY <2>1, <2>2, <2>3 DEF TypeOK
<1>3. CASE Registered
  <2>1. CASE UNCHANGED <<list, toHub>>
    BY <1>3, <2>1, RequestListType
       DEF Registered, TypeOK, TaskTypes, ClientTypes, HubTypes
  <2>2. CASE RequestList /\ UNCHANGED <<main, compute>>
    BY <1>3, <2>2, RequestListType
       DEF Registered, TypeOK, TaskTypes, ClientTypes, HubTypes
  <2>3. QED
    BY <1>3, <2>1, <2>2 DEF Registered
<1>4. QED
  BY <1>1, <1>2, <1>3 DEF ConnectStep, OpenFails, RegisterFailed

LEMMA StdinTypes == TypeOK /\ StdinStep => TypeOK'
<1> SUFFICES ASSUME TypeOK, StdinStep PROVE TypeOK'
  OBVIOUS
<1> USE DEF TypeOK
<1>1. CASE TakeEof
  BY <1>1 DEF TakeEof, TaskTypes, ClientTypes, HubTypes, clientVars, hubVars
<1>2. CASE SkipLine
  BY <1>2, NextLineType DEF SkipLine, Taking, TaskTypes, ClientTypes, HubTypes
<1>3. CASE StdinDies
  BY <1>3 DEF StdinDies, Taking, TaskTypes, ClientTypes, HubTypes
<1>4. CASE DispatchLine
  <2>1. CASE RequestList /\ UNCHANGED connect
    BY <1>4, <2>1, RequestListType
       DEF DispatchLine, Taking, TaskTypes, ClientTypes, HubTypes
  <2>2. CASE /\ stdin' = "asking" /\ connect' = "opening"
             /\ UNCHANGED <<reader, list, toHub>>
    BY <1>4, <2>2 DEF DispatchLine, Taking, TaskTypes, ClientTypes, HubTypes
  <2>3. QED
    BY <1>4, <2>1, <2>2 DEF DispatchLine
<1>5. CASE Listed
  <2>1. list.of \in Versions
    BY <1>5 DEF Listed, Lists
  <2>2. ClientTypes' /\ HubTypes'
    BY <1>5, <2>1 DEF Listed, ClientTypes, HubTypes, hubVars
  <2>3. TaskTypes'
    BY <1>5, NextLineType DEF Listed, TaskTypes
  <2>4. QED
    BY <2>2, <2>3
<1>6. CASE ListFailed
  BY <1>6, NextLineType
     DEF ListFailed, TaskTypes, ClientTypes, HubTypes, clientVars, hubVars
<1>7. QED
  BY <1>1, <1>2, <1>3, <1>4, <1>5, <1>6 DEF StdinStep

LEMMA ListenerTypes == TypeOK /\ ListenerStep => TypeOK'
<1> SUFFICES ASSUME TypeOK, ListenerStep PROVE TypeOK'
  OBVIOUS
<1> USE DEF TypeOK
<1>1. CASE Listen
  <2> DEFINE m == Head(toNode[listener])
  <2>1. listener \in Sockets
    BY <1>1, Bounds DEF Listen, ClientTypes, HubTypes, Sockets
  <2>2. m \in ToNode /\ Tail(toNode[listener]) \in Seq(ToNode)
    BY <1>1, <2>1, HeadTailProperties DEF Listen, HubTypes
  <2>3. toNode' \in [Sockets -> Seq(ToNode)]
    BY <1>1, <2>1, <2>2 DEF Listen, HubTypes
  <2>4. HubTypes' /\ TaskTypes'
    BY <1>1, <2>3 DEF Listen, HubTypes, TaskTypes, taskVars
  <2>5. CASE m.is = "ack"
    BY <1>1, <2>2, <2>4, <2>5, CarriedVersion DEF Listen, ClientTypes
  <2>6. CASE m.is = "list"
    BY <1>1, <2>2, <2>4, <2>6, CarriedVersion, MessageType DEF Listen, ClientTypes
  <2>7. CASE m.is = "error"
    BY <1>1, <2>4, <2>7, FailedType DEF Listen, ClientTypes
  <2>8. QED
    BY <1>1, <2>5, <2>6, <2>7 DEF Listen
<1>2. CASE HandleDisconnect
  BY <1>2, FailedType, Bounds
     DEF HandleDisconnect, TaskTypes, ClientTypes, HubTypes, taskVars, hubVars
<1>3. QED
  BY <1>1, <1>2 DEF ListenerStep

LEMMA MainTypes == TypeOK /\ MainStep => TypeOK'
<1> SUFFICES ASSUME TypeOK, MainStep PROVE TypeOK'
  OBVIOUS
<1> USE DEF TypeOK, TaskTypes, ClientTypes, HubTypes, clientVars, hubVars
<1>1. CASE Stop
  BY <1>1 DEF Stop
<1>2. CASE ComputeStops
  BY <1>2 DEF ComputeStops
<1>3. CASE StdinCancelled
  BY <1>3 DEF StdinCancelled
<1>4. CASE Close
  BY <1>4 DEF Close
<1>5. CASE Closed
  BY <1>5, Bounds DEF Closed
<1>6. CASE Exit
  BY <1>6 DEF Exit
<1>7. QED
  BY <1>1, <1>2, <1>3, <1>4, <1>5, <1>6 DEF MainStep

LEMMA HubStepTypes ==
  ASSUME TypeOK, NEW k \in Sockets, HubStep(k)
  PROVE  TypeOK'
<1> USE DEF TypeOK
<1>1. CASE HubReceives(k)
  <2>1. k \in 0 .. MaxSockets
    BY Bounds DEF Sockets
  <2>2. toHub' \in [Sockets -> Seq(ToHub)]
    BY <1>1, HeadTailProperties DEF HubReceives, HubTypes
  <2>3. version \in Versions
    BY DEF HubTypes
  <2>4. toNode' \in [Sockets -> Seq(ToNode)]
    BY <1>1, <2>3, MessageType, DeliveredType DEF HubReceives
  <2>5. holder' \in 0 .. MaxSockets /\ up' \in SUBSET Sockets
    BY <1>1, <2>1 DEF HubReceives, HubTypes
  <2>6. QED
    BY <1>1, <2>2, <2>4, <2>5
       DEF HubReceives, TaskTypes, ClientTypes, HubTypes, taskVars, clientVars
<1>2. CASE HubNotices(k)
  <2>1. toHub' \in [Sockets -> Seq(ToHub)] /\ holder' \in 0 .. MaxSockets
    BY <1>2, Bounds DEF HubNotices, HubTypes
  <2>2. QED
    BY <1>2, <2>1
       DEF HubNotices, TaskTypes, ClientTypes, HubTypes, taskVars, clientVars
<1>3. QED
  BY <1>1, <1>2 DEF HubStep

LEMMA EnvironmentTypes == TypeOK /\ Environment => TypeOK'
<1> SUFFICES ASSUME TypeOK, Environment PROVE TypeOK'
  OBVIOUS
<1> USE DEF TypeOK
<1>1. CASE \E what \in {"line", "eof"} : Input(what)
  BY <1>1, Bounds
     DEF Input, TaskTypes, ClientTypes, HubTypes, clientVars, hubVars
<1>2. CASE Reconnect
  BY <1>2 DEF Reconnect, TaskTypes, ClientTypes, HubTypes, taskVars, hubVars
<1>3. CASE Dispatched
  BY <1>3, NextLineType
     DEF Dispatched, TaskTypes, ClientTypes, HubTypes, clientVars, hubVars
<1>4. CASE StartJob \/ EndJob \/ StopSignal
  BY <1>4 DEF StartJob, EndJob, StopSignal, TaskTypes, ClientTypes, HubTypes,
              clientVars, hubVars
<1>5. CASE OthersChange
  <2>1. version' \in Versions
    BY <1>5, Bounds DEF OthersChange, HubTypes, Versions
  <2>2. holder # 0 => holder \in Sockets
    BY Bounds DEF HubTypes, Sockets
  <2>3. toNode' \in [Sockets -> Seq(ToNode)]
    BY <1>5, <2>1, <2>2, MessageType, DeliveredType DEF OthersChange, HubTypes
  <2>4. QED
    BY <1>5, <2>1, <2>3
       DEF OthersChange, TaskTypes, ClientTypes, HubTypes, taskVars, clientVars
<1>6. CASE \E k \in Sockets : Lose(k)
  <2>1. PICK k \in Sockets : Lose(k)
    BY <1>6
  <2>2. PICK n \in 0 .. Len(toNode[k]) :
          toNode' = [toNode EXCEPT ![k] = SubSeq(@, 1, n)]
    BY <2>1 DEF Lose
  <2>3. toNode' \in [Sockets -> Seq(ToNode)]
    BY <2>2, PrefixType DEF HubTypes
  <2>4. QED
    BY <2>1, <2>3 DEF Lose, TaskTypes, ClientTypes, HubTypes, taskVars, clientVars
<1>7. QED
  BY <1>1, <1>2, <1>3, <1>4, <1>5, <1>6 DEF Environment

-----------------------------------------------------------------------------
(***************************************************************************)
(* Every step keeps the session in order.                                  *)
(***************************************************************************)
LEMMA ConnectSession == IInv /\ ConnectStep => Session'
<1> SUFFICES ASSUME IInv, ConnectStep PROVE Session'
  OBVIOUS
<1> USE DEF IInv, Session, ListenerOwnsConnection, OpensWhenLost,
            WaitersHaveListener, NoSocketLeaks, Running
<1>1. CASE Opened
  <2>1. up = {} /\ opened + 1 # 0
    BY <1>1, Bounds DEF Opened, TypeOK, HubTypes, Sockets
  <2>2. QED
    BY <1>1, <2>1 DEF Opened, taskVars
<1>2. CASE ConnectRaises
  BY <1>2 DEF ConnectRaises, NextLine, hubVars
<1>3. CASE Registered
  <2>1. CASE main = "starting" /\ stdin' = "reading"
    BY <1>3, <2>1 DEF Registered
  <2>2. CASE stdin = "asking" /\ RequestList /\ UNCHANGED main
    <3>1. stdin' = "listing" => connection # 0
      BY <2>2, RequestListType
    <3>2. QED
      BY <1>3, <2>2, <3>1 DEF Registered
  <2>3. CASE UNCHANGED <<main, stdin, list>>
    BY <1>3, <2>3 DEF Registered
  <2>4. QED
    BY <1>3, <2>1, <2>2, <2>3 DEF Registered
<1>4. QED
  BY <1>1, <1>2, <1>3 DEF ConnectStep, OpenFails, RegisterFailed

LEMMA StdinSession == IInv /\ StdinStep => Session'
<1> SUFFICES ASSUME IInv, StdinStep PROVE Session'
  OBVIOUS
<1> USE DEF IInv, Session, ListenerOwnsConnection, OpensWhenLost,
            WaitersHaveListener, NoSocketLeaks, Running
<1>1. CASE TakeEof
  BY <1>1 DEF TakeEof, clientVars, hubVars
<1>2. CASE SkipLine \/ StdinDies
  BY <1>2 DEF SkipLine, StdinDies, Taking, NextLine, StdinAt
<1>3. CASE DispatchLine
  <2>1. CASE RequestList /\ UNCHANGED connect
    <3>1. stdin' = "listing" => connection # 0
      BY <2>1, RequestListType
    <3>2. QED
      BY <1>3, <2>1, <3>1 DEF DispatchLine, Taking
  <2>2. CASE connection = 0 /\ stdin' = "asking" /\ connect' = "opening"
    BY <1>3, <2>2 DEF DispatchLine, Taking
  <2>3. QED
    BY <1>3, <2>1, <2>2 DEF DispatchLine
<1>4. CASE Listed
  <2>1. list # Is("pending")
    BY <1>4 DEF Listed, Lists, Is
  <2>2. QED
    BY <1>4, <2>1 DEF Listed, NextLine, hubVars
<1>5. CASE ListFailed
  BY <1>5 DEF ListFailed, NextLine, clientVars, hubVars
<1>6. QED
  BY <1>1, <1>2, <1>3, <1>4, <1>5 DEF StdinStep

LEMMA ListenerSession == IInv /\ ListenerStep => Session'
<1> SUFFICES ASSUME IInv, ListenerStep PROVE Session'
  OBVIOUS
<1> USE DEF IInv, Session, ListenerOwnsConnection, OpensWhenLost,
            WaitersHaveListener, NoSocketLeaks, Running
<1>1. CASE Listen
  BY <1>1 DEF Listen, taskVars
<1>2. CASE HandleDisconnect
  <2>1. register' # "pending" /\ list' # Is("pending")
    BY <1>2, FailedType DEF HandleDisconnect, TypeOK
  <2>2. main # "closing" => up \subseteq {} \/ main \in {"joining", "exited"}
    BY <1>2 DEF HandleDisconnect
  <2>3. QED
    BY <1>2, <2>1, <2>2 DEF HandleDisconnect, taskVars, hubVars
<1>3. QED
  BY <1>1, <1>2 DEF ListenerStep

\* The steps of the main task, of the hub and of the environment.
LEMMA OtherSession ==
  IInv /\ (MainStep \/ Environment \/ \E k \in Sockets : HubStep(k)) => Session'
<1> USE DEF IInv, Session, ListenerOwnsConnection, OpensWhenLost,
            WaitersHaveListener, NoSocketLeaks, Running
<1>1. ASSUME IInv, MainStep PROVE Session'
  BY <1>1 DEF MainStep, Stop, ComputeStops, StdinCancelled, Close, Closed, Exit,
              clientVars, hubVars
<1>2. ASSUME IInv, NEW k \in Sockets, HubStep(k) PROVE Session'
  BY <1>2 DEF HubStep, HubReceives, HubNotices, taskVars, clientVars
<1>3. ASSUME IInv, Environment PROVE Session'
  <2>1. CASE Reconnect
    BY <1>3, <2>1 DEF Reconnect, taskVars, hubVars
  <2>2. CASE Dispatched
    BY <1>3, <2>2 DEF Dispatched, NextLine, clientVars, hubVars
  <2>3. CASE OthersChange \/ \E k \in Sockets : Lose(k)
    BY <1>3, <2>3 DEF OthersChange, Lose, taskVars, clientVars
  <2>4. CASE StartJob \/ EndJob \/ StopSignal \/ \E what \in {"line", "eof"} : Input(what)
    BY <1>3, <2>4 DEF StartJob, EndJob, StopSignal, Input, clientVars, hubVars
  <2>5. QED
    BY <1>3, <2>1, <2>2, <2>3, <2>4 DEF Environment
<1>4. QED
  BY <1>1, <1>2, <1>3

-----------------------------------------------------------------------------
(***************************************************************************)
(* The theorems.                                                           *)
(***************************************************************************)

\* The invariant holds in every reachable state of a node, however its tasks,
\* the hub and the network take their turns.
THEOREM Inductive == Spec => []IInv
<1>1. IInv /\ [Next]_vars => IInv'
  <2> SUFFICES ASSUME IInv, [Next]_vars PROVE IInv'
    OBVIOUS
  <2>1. CASE ConnectStep
    BY <2>1, ConnectTypes, ConnectSession DEF IInv
  <2>2. CASE StdinStep
    BY <2>2, StdinTypes, StdinSession DEF IInv
  <2>3. CASE ListenerStep
    BY <2>3, ListenerTypes, ListenerSession DEF IInv
  <2>4. CASE MainStep
    BY <2>4, MainTypes, OtherSession DEF IInv
  <2>5. CASE \E k \in Sockets : HubStep(k)
    BY <2>5, HubStepTypes, OtherSession DEF IInv
  <2>6. CASE Environment
    BY <2>6, EnvironmentTypes, OtherSession DEF IInv
  <2>7. CASE UNCHANGED vars
    BY <2>7 DEF vars, taskVars, clientVars, hubVars, IInv, TypeOK, TaskTypes,
         ClientTypes, HubTypes, Session, ListenerOwnsConnection, OpensWhenLost,
         WaitersHaveListener, NoSocketLeaks, Running
  <2>8. QED
    BY <2>1, <2>2, <2>3, <2>4, <2>5, <2>6, <2>7 DEF Next, Exited
<1>2. QED
  BY <1>1, InitIInv, PTL DEF Spec

\* Every variable of the node keeps its type; in particular the listener never
\* reads another connection than the current one.
THEOREM TypeCorrect == Spec => []TypeOK
<1>1. IInv => TypeOK
  BY DEF IInv
<1>2. QED
  BY <1>1, Inductive, PTL

\* Whoever awaits a registration or a list has a listener that will resolve or
\* fail its future (_handle_disconnect).
THEOREM NobodyWaitsAlone == Spec => []WaitersHaveListener
<1>1. IInv => WaitersHaveListener
  BY DEF IInv, Session
<1>2. QED
  BY <1>1, Inductive, PTL

\* A node that reconnects leaves no connection behind (connect).
THEOREM OneConnection == Spec => []NoSocketLeaks
<1>1. IInv => NoSocketLeaks
  BY DEF IInv, Session
<1>2. QED
  BY <1>1, Inductive, PTL
=============================================================================

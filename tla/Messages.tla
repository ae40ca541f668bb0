------------------------------ MODULE Messages ------------------------------
(***************************************************************************)
(* The messages of the signaling protocol (src/src/message.py) on their    *)
(* way from a client's build_* through the hub's extract_* and build_* to  *)
(* the extract_* of another client's listener.  Clients in Native run      *)
(* client.py; the others may send any payload of Foreign.                  *)
(*                                                                         *)
(* A JSON value is a tag with what it holds, and an object a function of   *)
(* the keys it has.  An operation that may raise is the set of what it     *)
(* returns: no element when it raises.  The endpoint of a socket handles a *)
(* message in one step here; SignalingHub has its suspension points.       *)
(***************************************************************************)
EXTENDS Naturals, Sequences

CONSTANTS
  Clients,       \* sockets; native clients register under their own name
  Native,        \* those that run client.py
  Foreign,       \* the payloads others may send
  Texts,         \* strings
  Descriptions,  \* objects that may stand for an SDP description
  NoName,        \* None: no id is registered yet
  MaxSends       \* bound of the model on messages sent unprompted

\* Ids are not empty: build_register and build_register_ack insist on it.
Names == Texts \ {""}

ASSUME MessagesAssumption ==
  /\ Native \subseteq Clients /\ Clients \subseteq Names
  /\ {"", "text"} \subseteq Texts /\ NoName \notin Texts
  /\ MaxSends \in Nat

VARIABLES
  name,          \* the id each endpoint has registered: peer_id
  endpoint,      \* websocket_endpoint of each socket
  acked,         \* native clients whose register future is resolved
  listening,     \* native clients whose _listen_loop runs
  toHub, toClient,
  sent,          \* history: every payload, with its sender
  handed,        \* history: what extract_* gave the listener of each client
  sends

vars == <<name, endpoint, acked, listening, toHub, toClient, sent, handed, sends>>

Signals == {"connection_offer", "connection_answer"}
MessageType == Signals \cup
  {"register", "register_ack", "peer_list_request", "peer_list_response",
   "connection_reject", "error"}

-----------------------------------------------------------------------------
(***************************************************************************)
(* JSON.  A missing key and null are the same to dict.get(key).            *)
(***************************************************************************)
Null == <<"null">>
Number == <<"number">>     \* also true, false and arrays
Str(s) == <<"string", s>>
Obj(o) == <<"object", o>>
IsStr(v) == v[1] = "string"
IsObj(v) == v[1] = "object"
NonEmpty(v) == IsStr(v) /\ v[2] # ""

Get(o, key) == IF key \in DOMAIN o THEN o[key] ELSE Null
GetOr(o, key, default) == IF key \in DOMAIN o THEN o[key] ELSE default

Message(type, data) == [type |-> type, data |-> data]

to_json(m) ==
  Obj(IF m.data = Null THEN [type |-> Str(m.type)]
      ELSE [type |-> Str(m.type), data |-> m.data])

\* A text that is no JSON is like a value that is no object: it raises.
from_json(payload) ==
  {Message(Get(o, "type")[2], Get(o, "data")) :
     o \in {p \in (IF IsObj(payload) THEN {payload[2]} ELSE {}) :
              /\ IsStr(Get(p, "type")) /\ Get(p, "type")[2] \in MessageType
              /\ Get(p, "data") = Null \/ IsObj(Get(p, "data"))}}

require_data(m) == IF IsObj(m.data) THEN {m.data[2]} ELSE {}

\* Payloads of others are JSON too: what is tagged as a string holds one.
ASSUME ForeignAssumption ==
  \A p \in Foreign : \A m \in from_json(p) : \A o \in require_data(m) :
    /\ \A key \in {"peer_id", "target_id", "reason"} :
         IsStr(Get(o, key)) => Get(o, key)[2] \in Texts
    /\ IsObj(Get(o, "description")) => Get(o, "description")[2] \in Descriptions

-----------------------------------------------------------------------------
(***************************************************************************)
(* build_*                                                                 *)
(***************************************************************************)
build_register(id) == Message("register", Obj([peer_id |-> Str(id), metadata |-> Obj("")]))
build_register_ack(id, ids) ==
  Message("register_ack", Obj([peer_id |-> Str(id), peers |-> Obj(ids)]))
build_peer_list_request == Message("peer_list_request", Null)
build_peer_list_response(ids) == Message("peer_list_response", Obj([peers |-> Obj(ids)]))
build_signal(kind, target, d) ==
  Message(kind, Obj([target_id |-> Str(target), description |-> Obj(d)]))
build_forward(kind, source, d) ==
  Message(kind, Obj([source_id |-> Str(source), description |-> Obj(d)]))
build_connection_reject(target, reason) ==
  Message("connection_reject", Obj([target_id |-> Str(target), reason |-> Str(reason)]))
build_connection_reject_forward(source, reason) ==
  Message("connection_reject", Obj([source_id |-> Str(source), reason |-> Str(reason)]))
build_error == Message("error", Obj([error |-> Str("text")]))

(***************************************************************************)
(* extract_*                                                               *)
(***************************************************************************)
Fields(m, kinds) == IF m.type \in kinds THEN require_data(m) ELSE {}

extract_registration(m) ==
  {Get(o, "peer_id")[2] :
     o \in {f \in Fields(m, {"register"}) :
              /\ NonEmpty(Get(f, "peer_id"))
              /\ Get(f, "metadata") = Null \/ IsObj(Get(f, "metadata"))}}

extract_register_ack(m) ==
  {<<Get(o, "peer_id")[2], Get(o, "peers")[2]>> :
     o \in {f \in Fields(m, {"register_ack"}) :
              NonEmpty(Get(f, "peer_id")) /\ IsObj(Get(f, "peers"))}}

extract_peer_list(m) ==
  {Get(o, "peers")[2] :
     o \in {f \in Fields(m, {"peer_list_response"}) : IsObj(Get(f, "peers"))}}

extract_error(m) ==
  {Get(o, "error")[2] : o \in {f \in Fields(m, {"error"}) : IsStr(Get(f, "error"))}}

\* The id under key, and the description.
SignalOf(m, key) ==
  {<<Get(o, key)[2], Get(o, "description")[2]>> :
     o \in {f \in Fields(m, Signals) :
              NonEmpty(Get(f, key)) /\ IsObj(Get(f, "description"))}}

extract_signal(m) == SignalOf(m, "target_id")
extract_forwarded_signal(m) == SignalOf(m, "source_id")

\* The id under key, and the reason: "" if it is missing, but not if it is null.
RejectionOf(m, key) ==
  {<<Get(o, key)[2], GetOr(o, "reason", Str(""))[2]>> :
     o \in {f \in Fields(m, {"connection_reject"}) :
              NonEmpty(Get(f, key)) /\ IsStr(GetOr(f, "reason", Str("")))}}

\* extract_rejection, if it required a reason as it requires an id.
extract_reasoned_rejection(m) == {r \in RejectionOf(m, "target_id") : r[2] # ""}

extract_rejection(m) == RejectionOf(m, "target_id")

extract_forwarded_rejection(m) == RejectionOf(m, "source_id")

-----------------------------------------------------------------------------
(***************************************************************************)
(* The hub: websocket_endpoint.                                            *)
(***************************************************************************)
\* What a client of each make sends, and what the hub sends.
NativePayloads(c) ==
  {to_json(build_register(c)), to_json(build_peer_list_request)}
    \cup {to_json(build_signal(kind, t, d)) : kind \in Signals, t \in Names, d \in Descriptions}
    \cup {to_json(build_connection_reject(t, reason)) : t \in Names, reason \in Texts}

Payloads(c) == IF c \in Native THEN NativePayloads(c) ELSE Foreign

HubPayloads ==
  {to_json(build_error)}
    \cup {to_json(build_register_ack(id, ids)) : id \in Names, ids \in SUBSET Names}
    \cup {to_json(build_peer_list_response(ids)) : ids \in SUBSET Names}
    \cup {to_json(build_forward(kind, s, d)) : kind \in Signals, s \in Names, d \in Descriptions}
    \cup {to_json(build_connection_reject_forward(s, reason)) : s \in Names, reason \in Texts}

\* The one type invariant of the module: who sends what.
TypeOK ==
  /\ name \in [Clients -> Names \cup {NoName}]
  /\ endpoint \in [Clients -> {"running", "refused", "raised"}]
  /\ acked \subseteq Native /\ listening \subseteq Native
  /\ DOMAIN toHub = Clients /\ \A c \in Clients : toHub[c] \in Seq(Payloads(c))
  /\ toClient \in [Clients -> Seq(HubPayloads)]
  /\ sends \in 0 .. MaxSends

Init ==
  /\ name = [c \in Clients |-> NoName]
  /\ endpoint = [c \in Clients |-> "running"]
  /\ acked = {} /\ listening = Native
  /\ toHub = [c \in Clients |-> IF c \in Native THEN <<to_json(build_register(c))>> ELSE <<>>]
  /\ toClient = [c \in Clients |-> <<>>]
  /\ sent = {<<c, to_json(build_register(c))>> : c \in Native}
  /\ handed = {}
  /\ sends = 0

Registered(c) == endpoint[c] = "running" /\ name[c] # NoName
Named(id) == {c \in Clients : Registered(c) /\ name[c] = id}
Snapshot == {name[c] : c \in {d \in Clients : Registered(d)}}

\* What reaches clients that do not run client.py is left out.
Send(cs, m) ==
  toClient' = [c \in Clients |-> IF c \in cs \cap Native
                                 THEN Append(toClient[c], to_json(m)) ELSE toClient[c]]

\* The message that the endpoint of c reads next: none if from_json raises.
Read(c) == from_json(Head(toHub[c]))

HubReads(c) ==
  /\ endpoint[c] = "running" /\ toHub[c] # <<>>
  /\ toHub' = [toHub EXCEPT ![c] = Tail(@)]
  /\ UNCHANGED <<acked, listening, sent, handed, sends>>

Malformed(c) ==
  /\ HubReads(c) /\ Read(c) = {}
  /\ Send({c}, build_error)
  /\ UNCHANGED <<name, endpoint>>

Refuse(c) ==
  /\ Send({c}, build_error)
  /\ endpoint' = [endpoint EXCEPT ![c] = "refused"]
  /\ UNCHANGED name

\* The list broadcast to the others and the ack.
Register(c) ==
  /\ HubReads(c) /\ name[c] = NoName
  /\ \E m \in Read(c) :
       \/ m.type # "register" /\ Refuse(c)
       \/ m.type = "register" /\ extract_registration(m) = {} /\ Refuse(c)
       \/ \E id \in extract_registration(m) :
            \/ Named(id) # {} /\ Refuse(c)
            \/ /\ Named(id) = {}
               /\ name' = [name EXCEPT ![c] = id]
               /\ toClient' =
                    [d \in Clients |->
                       IF d \notin Native \/ ~(Registered(d) \/ d = c) THEN toClient[d]
                       ELSE Append(toClient[d], to_json(
                              IF d = c THEN build_register_ack(id, Snapshot \cup {id})
                              ELSE build_peer_list_response(Snapshot \cup {id})))]
               /\ UNCHANGED endpoint

\* An extract_* raises and nothing in the loop catches it: the finally block
\* unregisters the client, and the others are told.
Raise(c) ==
  /\ endpoint' = [endpoint EXCEPT ![c] = "raised"]
  /\ Send({d \in Clients : Registered(d)} \ {c},
          build_peer_list_response(Snapshot \ {name[c]}))

ListRequest(c) ==
  /\ HubReads(c) /\ name[c] # NoName
  /\ \E m \in Read(c) : m.type = "peer_list_request"
  /\ Send({c}, build_peer_list_response(Snapshot))
  /\ UNCHANGED <<name, endpoint>>

\* Forwarded, if the forwarder of offers served answers too.
ForwardedCrossed(c, m, d) == build_forward("connection_offer", name[c], d)

\* Forwarded, if a message that is well formed were passed on as it is.
ForwardedUnchanged(c, m, d) == m

Forwarded(c, m, d) == build_forward(m.type, name[c], d)

RequestConn(c) ==
  /\ HubReads(c) /\ name[c] # NoName
  /\ \E m \in Read(c) :
       /\ m.type \in Signals
       /\ \/ extract_signal(m) = {} /\ Raise(c)
          \/ \E s \in extract_signal(m) :
               /\ IF Named(s[1]) = {}
                  THEN Send({c}, build_connection_reject_forward(s[1], "text"))
                  ELSE Send(Named(s[1]), Forwarded(c, m, s[2]))
               /\ UNCHANGED endpoint
  /\ UNCHANGED name

ForwardRejection(c) ==
  /\ HubReads(c) /\ name[c] # NoName
  /\ \E m \in Read(c) :
       /\ m.type = "connection_reject"
       /\ \/ extract_rejection(m) = {} /\ Raise(c)
          \/ \E r \in extract_rejection(m) :
               /\ IF Named(r[1]) = {}
                  THEN Send({c}, build_error)
                  ELSE Send(Named(r[1]), build_connection_reject_forward(name[c], r[2]))
               /\ UNCHANGED endpoint
  /\ UNCHANGED name

Unhandled(c) ==
  /\ HubReads(c) /\ name[c] # NoName
  /\ \E m \in Read(c) :
       m.type \notin Signals \cup {"peer_list_request", "connection_reject"}
  /\ Send({c}, build_error)
  /\ UNCHANGED <<name, endpoint>>

-----------------------------------------------------------------------------
(***************************************************************************)
(* Clients.                                                                *)
(***************************************************************************)
ToHub(c, payload) ==
  /\ toHub' = [toHub EXCEPT ![c] = Append(@, payload)]
  /\ sent' = sent \cup {<<c, payload>>}

Unprompted(c, payload) ==
  /\ sends < MaxSends /\ sends' = sends + 1
  /\ ToHub(c, payload)
  /\ UNCHANGED <<name, endpoint, acked, listening, toClient, handed>>

\* request_peer_list and request_conn_to_peer.
NativeSends(c) ==
  /\ c \in acked
  /\ \/ Unprompted(c, to_json(build_peer_list_request))
     \/ \E t \in Clients \ {c}, d \in Descriptions :
          Unprompted(c, to_json(build_signal("connection_offer", t, d)))

ForeignSends(c) ==
  /\ c \notin Native /\ endpoint[c] = "running"
  /\ \E p \in Foreign : Unprompted(c, p)

\* What _listen_loop takes next, and gives to _dispatch outside of its try.
Incoming(c, kind) ==
  {m \in (IF toClient[c] = <<>> THEN {} ELSE from_json(Head(toClient[c]))) :
     c \in listening /\ m.type = kind}

Taken(c) ==
  /\ toClient' = [toClient EXCEPT ![c] = Tail(@)]
  /\ UNCHANGED <<name, endpoint, sends>>

\* An extract_* raises in _dispatch: the listener ends.
Ends(c) == listening' = listening \ {c} /\ UNCHANGED <<acked, toHub, sent, handed>>

Hands(c, m, what) ==
  /\ handed' = handed \cup {<<c, m.type, what[1], what[2]>>}
  /\ UNCHANGED listening

\* An ack is taken apart only while the register future is pending.
ReceiveAck(c) ==
  \E m \in Incoming(c, "register_ack") :
    /\ Taken(c)
    /\ \/ c \notin acked /\ extract_register_ack(m) = {} /\ Ends(c)
       \/ /\ c \in acked \/ extract_register_ack(m) # {}
          /\ acked' = acked \cup {c}
          /\ UNCHANGED <<listening, toHub, sent, handed>>

ReceiveList(c) ==
  \E m \in Incoming(c, "peer_list_response") :
    /\ Taken(c)
    /\ \/ extract_peer_list(m) = {} /\ Ends(c)
       \/ extract_peer_list(m) # {} /\ UNCHANGED <<acked, listening, toHub, sent, handed>>

\* The offer is answered, or cannot be used; str(exc) may be empty.
ReceiveOffer(c) ==
  \E m \in Incoming(c, "connection_offer") :
    /\ Taken(c)
    /\ \/ extract_forwarded_signal(m) = {} /\ Ends(c)
       \/ \E s \in extract_forwarded_signal(m) :
            /\ Hands(c, m, s)
            /\ \/ \E d \in Descriptions :
                    ToHub(c, to_json(build_signal("connection_answer", s[1], d)))
               \/ \E reason \in {"", "text"} :
                    ToHub(c, to_json(build_connection_reject(s[1], reason)))
            /\ UNCHANGED acked

ReceiveAnswer(c) ==
  \E m \in Incoming(c, "connection_answer") :
    /\ Taken(c)
    /\ \/ extract_forwarded_signal(m) = {} /\ Ends(c)
       \/ \E s \in extract_forwarded_signal(m) :
            Hands(c, m, s) /\ UNCHANGED <<acked, toHub, sent>>

ReceiveReject(c) ==
  \E m \in Incoming(c, "connection_reject") :
    /\ Taken(c)
    /\ \/ extract_forwarded_rejection(m) = {} /\ Ends(c)
       \/ \E r \in extract_forwarded_rejection(m) :
            Hands(c, m, r) /\ UNCHANGED <<acked, toHub, sent>>

ReceiveError(c) ==
  \E m \in Incoming(c, "error") :
    /\ Taken(c)
    /\ \/ extract_error(m) = {} /\ Ends(c)
       \/ extract_error(m) # {} /\ UNCHANGED <<acked, listening, toHub, sent, handed>>

HubStep(c) ==
  \/ Malformed(c) \/ Register(c) \/ ListRequest(c) \/ RequestConn(c)
  \/ ForwardRejection(c) \/ Unhandled(c)

ClientStep(c) ==
  \/ NativeSends(c) \/ ForeignSends(c)
  \/ ReceiveAck(c) \/ ReceiveList(c) \/ ReceiveOffer(c) \/ ReceiveAnswer(c)
  \/ ReceiveReject(c) \/ ReceiveError(c)

\* Every message has been read; nobody has to send another one.
Quiet ==
  /\ \A c \in Clients : endpoint[c] = "running" => toHub[c] = <<>>
  /\ \A c \in listening : toClient[c] = <<>>
  /\ UNCHANGED vars

Next == (\E c \in Clients : HubStep(c) \/ ClientStep(c)) \/ Quiet

Spec == Init /\ [][Next]_vars

-----------------------------------------------------------------------------
(***************************************************************************)
(* Properties.                                                             *)
(***************************************************************************)

\* Whatever clients of another make send, no message that the hub passes on or
\* makes up raises in the listener of a native client (_dispatch, outside of
\* the try of _listen_loop), which would end it and leave the client deaf.
ListenersSurvive == listening = Native

\* No message of a native client raises in its endpoint, which would
\* unregister it: the hub's extract_* accept all that build_* makes, the
\* rejection without a reason included (message.py).
NativeKept == \A c \in Native : endpoint[c] # "raised"

\* What the listener of a client is handed under the name of a source was sent
\* to it, with that kind and content, by the client registered under that
\* name; or it is the hub's rejection of a signal of its own.
WasSent(c, kind, source, content) ==
  \E p \in sent : \E m \in from_json(p[2]) :
    \/ /\ name[p[1]] = source
       /\ <<name[c], content>> \in extract_signal(m) \cup extract_rejection(m)
       /\ m.type = kind
    \/ /\ p[1] = c /\ kind = "connection_reject"
       /\ \E s \in extract_signal(m) : s[1] = source

HandedWasSent == \A h \in handed : WasSent(h[1], h[2], h[3], h[4])
=============================================================================

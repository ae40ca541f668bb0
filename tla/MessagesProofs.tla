--------------------------- MODULE MessagesProofs ---------------------------
(***************************************************************************)
(* Theorems about Messages, for any clients, texts, payloads of others,    *)
(* and number of messages.                                                 *)
(*                                                                         *)
(* What waits for the hub was sent by the client it waits behind, what     *)
(* waits for a client was made by the hub, and both can be taken apart.    *)
(***************************************************************************)
EXTENDS Messages, SequenceTheorems, TLAPS

\* What waits for the hub has been sent by the client it comes from.
Recorded ==
  \A c \in Clients : \A i \in 1 .. Len(toHub[c]) : <<c, toHub[c][i]>> \in sent

\* What c gets from source was sent to it under the ids both have now and will
\* keep, or it is the hub's rejection.
Traced(c, kind, source, content) ==
  /\ c \in Clients
  /\ \E p \in sent : \E m \in from_json(p[2]) :
       \/ /\ p[1] \in Clients /\ name[p[1]] # NoName /\ name[c] # NoName
          /\ name[p[1]] = source
          /\ <<name[c], content>> \in extract_signal(m) \cup extract_rejection(m)
          /\ m.type = kind
       \/ /\ p[1] = c /\ kind = "connection_reject"
          /\ \E s \in extract_signal(m) : s[1] = source

Traceable(c, payload) ==
  \A m \in from_json(payload) :
    \A w \in extract_forwarded_signal(m) \cup extract_forwarded_rejection(m) :
      Traced(c, m.type, w[1], w[2])

InTransit ==
  \A c \in Clients, p \in HubPayloads :
    (\E i \in 1 .. Len(toClient[c]) : toClient[c][i] = p) => Traceable(c, p)

HandedTraced == \A h \in handed : Traced(h[1], h[2], h[3], h[4])

IInv ==
  /\ TypeOK /\ Recorded /\ InTransit /\ HandedTraced
  /\ ListenersSurvive /\ NativeKept

-----------------------------------------------------------------------------
(***************************************************************************)
(* What from_json and extract_* make of what build_* has made.             *)
(***************************************************************************)
LEMMA RoundTrip ==
  ASSUME NEW type \in MessageType, NEW data, data = Null \/ IsObj(data)
  PROVE  from_json(to_json(Message(type, data))) = {Message(type, data)}
<1> DEFINE m == Message(type, data)
           o == IF data = Null THEN [type |-> Str(type)]
                ELSE [type |-> Str(type), data |-> data]
<1>1. to_json(m) = Obj(o)
  BY DEF to_json, Message
<1>2. IsObj(Obj(o)) /\ Obj(o)[2] = o
  BY DEF Obj, IsObj
<1>3. Get(o, "type") = Str(type) /\ Get(o, "data") = data
  BY DEF Get
<1>4. IsStr(Str(type)) /\ Str(type)[2] = type
  BY DEF Str, IsStr
<1> HIDE DEF o, m
<1>5. {p \in {o} : /\ IsStr(Get(p, "type")) /\ Get(p, "type")[2] \in MessageType
                   /\ Get(p, "data") = Null \/ IsObj(Get(p, "data"))} = {o}
  BY <1>3, <1>4
<1>6. from_json(Obj(o)) = {Message(Get(q, "type")[2], Get(q, "data")) : q \in {o}}
  BY <1>2, <1>5 DEF from_json
<1>7. QED
  BY <1>1, <1>3, <1>4, <1>6 DEF m

LEMMA Objects ==
  ASSUME NEW o
  PROVE  IsObj(Obj(o)) /\ Obj(o)[2] = o /\ ~IsStr(Obj(o)) /\ Obj(o) # Null
BY DEF IsObj, Obj, IsStr, Null

LEMMA Strings ==
  ASSUME NEW s
  PROVE  /\ IsStr(Str(s)) /\ Str(s)[2] = s /\ ~IsObj(Str(s)) /\ Str(s) # Null
         /\ s # "" => NonEmpty(Str(s))
BY DEF IsObj, Str, IsStr, Null, NonEmpty

\* What from_json and require_data return.
LEMMA Parsed ==
  ASSUME NEW p, NEW m \in from_json(p)
  PROVE  m.type \in MessageType /\ m = Message(m.type, m.data)
BY DEF from_json, Message

LEMMA Fielded ==
  ASSUME NEW kind, NEW o, NEW kinds
  PROVE  Fields(Message(kind, Obj(o)), kinds) = IF kind \in kinds THEN {o} ELSE {}
BY Objects DEF Fields, require_data, Message

LEMMA ExtractedSignal ==
  ASSUME NEW kind \in Signals, NEW id \in Names, NEW d
  PROVE  /\ extract_signal(build_signal(kind, id, d)) = {<<id, d>>}
         /\ extract_forwarded_signal(build_forward(kind, id, d)) = {<<id, d>>}
         /\ extract_forwarded_rejection(build_forward(kind, id, d)) = {}
<1> DEFINE o == [target_id |-> Str(id), description |-> Obj(d)]
           f == [source_id |-> Str(id), description |-> Obj(d)]
<1>1. NonEmpty(Str(id)) /\ Str(id)[2] = id /\ IsObj(Obj(d)) /\ Obj(d)[2] = d
  BY Strings, Objects DEF Names
<1>2. /\ Get(o, "target_id") = Str(id) /\ Get(o, "description") = Obj(d)
      /\ Get(f, "source_id") = Str(id) /\ Get(f, "description") = Obj(d)
  BY DEF Get
<1>3. /\ Fields(build_signal(kind, id, d), Signals) = {o}
      /\ Fields(build_forward(kind, id, d), Signals) = {f}
      /\ Fields(build_forward(kind, id, d), {"connection_reject"}) = {}
  BY Fielded DEF build_signal, build_forward, Signals
<1> HIDE DEF o, f
<1>4. extract_signal(build_signal(kind, id, d)) = {<<id, d>>}
  BY <1>1, <1>2, <1>3 DEF extract_signal, SignalOf
<1>5. extract_forwarded_signal(build_forward(kind, id, d)) = {<<id, d>>}
  BY <1>1, <1>2, <1>3 DEF extract_forwarded_signal, SignalOf
<1>6. extract_forwarded_rejection(build_forward(kind, id, d)) = {}
  BY <1>3 DEF extract_forwarded_rejection, RejectionOf
<1>7. QED
  BY <1>4, <1>5, <1>6

LEMMA ExtractedRejection ==
  ASSUME NEW id \in Names, NEW reason \in Texts
  PROVE  /\ extract_rejection(build_connection_reject(id, reason)) = {<<id, reason>>}
         /\ extract_forwarded_rejection(build_connection_reject_forward(id, reason))
              = {<<id, reason>>}
         /\ extract_forwarded_signal(build_connection_reject_forward(id, reason)) = {}
<1> DEFINE o == [target_id |-> Str(id), reason |-> Str(reason)]
           f == [source_id |-> Str(id), reason |-> Str(reason)]
           kind == "connection_reject"
<1>1. /\ NonEmpty(Str(id)) /\ Str(id)[2] = id
      /\ IsStr(Str(reason)) /\ Str(reason)[2] = reason
  BY Strings DEF Names
<1>2. /\ Get(o, "target_id") = Str(id) /\ GetOr(o, "reason", Str("")) = Str(reason)
      /\ Get(f, "source_id") = Str(id) /\ GetOr(f, "reason", Str("")) = Str(reason)
  BY DEF Get, GetOr
<1>3. /\ Fields(build_connection_reject(id, reason), {kind}) = {o}
      /\ Fields(build_connection_reject_forward(id, reason), {kind}) = {f}
      /\ Fields(build_connection_reject_forward(id, reason), Signals) = {}
  BY Fielded DEF build_connection_reject, build_connection_reject_forward, Signals
<1> HIDE DEF o, f
<1>4. extract_rejection(build_connection_reject(id, reason)) = {<<id, reason>>}
  BY <1>1, <1>2, <1>3 DEF extract_rejection, RejectionOf
<1>5. extract_forwarded_rejection(build_connection_reject_forward(id, reason))
        = {<<id, reason>>}
  BY <1>1, <1>2, <1>3 DEF extract_forwarded_rejection, RejectionOf
<1>6. extract_forwarded_signal(build_connection_reject_forward(id, reason)) = {}
  BY <1>3 DEF extract_forwarded_signal, SignalOf
<1>7. QED
  BY <1>4, <1>5, <1>6

\* The other messages of the hub.
LEMMA ExtractedNews ==
  ASSUME NEW id \in Names, NEW ids
  PROVE  /\ extract_register_ack(build_register_ack(id, ids)) # {}
         /\ extract_peer_list(build_peer_list_response(ids)) # {}
<1> DEFINE a == [peer_id |-> Str(id), peers |-> Obj(ids)]
           l == [peers |-> Obj(ids)]
<1>1. NonEmpty(Str(id)) /\ IsObj(Obj(ids))
  BY Strings, Objects DEF Names
<1>2. /\ Get(a, "peer_id") = Str(id) /\ Get(a, "peers") = Obj(ids)
      /\ Get(l, "peers") = Obj(ids)
  BY DEF Get
<1>3. /\ Fields(build_register_ack(id, ids), {"register_ack"}) = {a}
      /\ Fields(build_peer_list_response(ids), {"peer_list_response"}) = {l}
  BY Fielded DEF build_register_ack, build_peer_list_response
<1> HIDE DEF a, l
<1>4. <<Get(a, "peer_id")[2], Get(a, "peers")[2]>> \in
        extract_register_ack(build_register_ack(id, ids))
  BY <1>1, <1>2, <1>3 DEF extract_register_ack
<1>5. extract_peer_list(build_peer_list_response(ids)) # {}
  BY <1>1, <1>2, <1>3 DEF extract_peer_list
<1>6. QED
  BY <1>4, <1>5

LEMMA ExtractedError == extract_error(build_error) # {}
<1> DEFINE e == [error |-> Str("text")]
<1>1. Get(e, "error") = Str("text") /\ IsStr(Str("text"))
  BY Strings DEF Get
<1>2. Fields(build_error, {"error"}) = {e}
  BY Fielded DEF build_error
<1> HIDE DEF e
<1>3. QED
  BY <1>1, <1>2 DEF extract_error

\* What is extracted has the kind that it is extracted from.
LEMMA KindOfExtracted ==
  ASSUME NEW m
  PROVE  /\ m.type \notin Signals =>
              extract_signal(m) = {} /\ extract_forwarded_signal(m) = {}
         /\ m.type # "connection_reject" =>
              extract_rejection(m) = {} /\ extract_forwarded_rejection(m) = {}
         /\ m.type # "register" => extract_registration(m) = {}
BY DEF extract_signal, extract_forwarded_signal, extract_rejection,
       extract_forwarded_rejection, extract_registration, SignalOf, RejectionOf, Fields

\* The messages that the hub makes, and their extraction.
LEMMA HubMade ==
  ASSUME NEW p \in HubPayloads, NEW m \in from_json(p)
  PROVE  /\ m.type = "register_ack" => extract_register_ack(m) # {}
         /\ m.type = "peer_list_response" => extract_peer_list(m) # {}
         /\ m.type = "error" => extract_error(m) # {}
         /\ m.type \in Signals => extract_forwarded_signal(m) # {}
         /\ m.type = "connection_reject" => extract_forwarded_rejection(m) # {}
         /\ extract_forwarded_signal(m) \subseteq Names \X Descriptions
         /\ extract_forwarded_rejection(m) \subseteq Names \X Texts
<1> USE DEF MessageType, Signals
<1>1. CASE p = to_json(build_error)
  <2>1. m = build_error /\ m.type = "error"
    BY <1>1, RoundTrip, Objects DEF build_error, Message
  <2>2. m.type \notin Signals \cup {"connection_reject"}
    BY <2>1
  <2>3. extract_error(m) # {}
    BY <2>1, ExtractedError
  <2>4. QED
    BY <2>1, <2>2, <2>3, KindOfExtracted
<1>2. ASSUME NEW id \in Names, NEW ids \in SUBSET Names, p = to_json(build_register_ack(id, ids))
      PROVE  m = build_register_ack(id, ids) /\ m.type = "register_ack"
  BY <1>2, RoundTrip, Objects DEF build_register_ack, Message
<1>3. ASSUME NEW ids \in SUBSET Names, p = to_json(build_peer_list_response(ids))
      PROVE  m = build_peer_list_response(ids) /\ m.type = "peer_list_response"
  BY <1>3, RoundTrip, Objects DEF build_peer_list_response, Message
<1>4. ASSUME NEW kind \in Signals, NEW id \in Names, NEW d \in Descriptions,
             p = to_json(build_forward(kind, id, d))
      PROVE  m = build_forward(kind, id, d) /\ m.type = kind
  BY <1>4, RoundTrip, Objects DEF build_forward, Message
<1>5. ASSUME NEW id \in Names, NEW reason \in Texts,
             p = to_json(build_connection_reject_forward(id, reason))
      PROVE  m = build_connection_reject_forward(id, reason) /\ m.type = "connection_reject"
  BY <1>5, RoundTrip, Objects DEF build_connection_reject_forward, Message
<1>6. CASE \E id \in Names, ids \in SUBSET Names : p = to_json(build_register_ack(id, ids))
  BY <1>2, <1>6, ExtractedNews, KindOfExtracted
<1>7. CASE \E ids \in SUBSET Names : p = to_json(build_peer_list_response(ids))
  <2>1. "text" \in Names
    BY MessagesAssumption DEF Names
  <2>2. QED
    BY <1>3, <1>7, <2>1, ExtractedNews, KindOfExtracted
<1>8. CASE \E kind \in Signals, id \in Names, d \in Descriptions :
             p = to_json(build_forward(kind, id, d))
  <2>1. PICK kind \in Signals, id \in Names, d \in Descriptions :
               p = to_json(build_forward(kind, id, d))
    BY <1>8
  <2>2. m = build_forward(kind, id, d) /\ m.type = kind
    BY <1>4, <2>1
  <2>3. extract_forwarded_signal(m) = {<<id, d>>} /\ extract_forwarded_rejection(m) = {}
    BY <2>2, ExtractedSignal
  <2>4. QED
    BY <2>2, <2>3
<1>9. CASE \E id \in Names, reason \in Texts :
             p = to_json(build_connection_reject_forward(id, reason))
  <2>1. PICK id \in Names, reason \in Texts :
               p = to_json(build_connection_reject_forward(id, reason))
    BY <1>9
  <2>2. m = build_connection_reject_forward(id, reason) /\ m.type = "connection_reject"
    BY <1>5, <2>1
  <2>3. extract_forwarded_rejection(m) = {<<id, reason>>} /\ extract_forwarded_signal(m) = {}
    BY <2>2, ExtractedRejection
  <2>4. QED
    BY <2>2, <2>3
<1>10. QED
  BY <1>1, <1>6, <1>7, <1>8, <1>9 DEF HubPayloads

\* The messages that a native client makes, and their extraction.
LEMMA NativeMade ==
  ASSUME NEW c \in Native, NEW p \in NativePayloads(c), NEW m \in from_json(p)
  PROVE  /\ m.type \in Signals => extract_signal(m) # {}
         /\ m.type = "connection_reject" => extract_rejection(m) # {}
         /\ extract_registration(m) \subseteq Names
         /\ extract_signal(m) \subseteq Names \X Descriptions
         /\ extract_rejection(m) \subseteq Names \X Texts
<1> USE DEF MessageType, Signals
<1>1. CASE p = to_json(build_register(c))
  <2> DEFINE o == [peer_id |-> Str(c), metadata |-> Obj("")]
  <2>1. build_register(c) = Message("register", Obj(o)) /\ IsObj(Obj(o))
    BY Objects DEF build_register
  <2>2. NonEmpty(Str(c)) /\ Str(c)[2] = c /\ Get(o, "peer_id") = Str(c) /\ c \in Names
    BY Strings, MessagesAssumption DEF Get, Names
  <2> HIDE DEF o
  <2>3. m = Message("register", Obj(o)) /\ m.type = "register"
    BY <1>1, <2>1, RoundTrip DEF Message
  <2>4. Fields(m, {"register"}) = {o}
    BY <2>3, Fielded
  <2>5. extract_registration(m) \subseteq Names
    BY <2>2, <2>4 DEF extract_registration
  <2>6. QED
    BY <2>3, <2>5, KindOfExtracted
<1>2. CASE p = to_json(build_peer_list_request)
  <2>1. m.type = "peer_list_request"
    BY <1>2, RoundTrip DEF build_peer_list_request, Message
  <2>2. QED
    BY <2>1, KindOfExtracted
<1>3. ASSUME NEW kind \in Signals, NEW t \in Names, NEW d \in Descriptions,
             p = to_json(build_signal(kind, t, d))
      PROVE  m = build_signal(kind, t, d) /\ m.type = kind
  BY <1>3, RoundTrip, Objects DEF build_signal, Message
<1>4. ASSUME NEW t \in Names, NEW reason \in Texts,
             p = to_json(build_connection_reject(t, reason))
      PROVE  m = build_connection_reject(t, reason) /\ m.type = "connection_reject"
  BY <1>4, RoundTrip, Objects DEF build_connection_reject, Message
<1>5. CASE \E kind \in Signals, t \in Names, d \in Descriptions :
             p = to_json(build_signal(kind, t, d))
  <2>1. PICK kind \in Signals, t \in Names, d \in Descriptions :
               p = to_json(build_signal(kind, t, d))
    BY <1>5
  <2>2. m = build_signal(kind, t, d) /\ m.type = kind
    BY <1>3, <2>1
  <2>3. extract_signal(m) = {<<t, d>>}
    BY <2>2, ExtractedSignal
  <2>4. QED
    BY <2>2, <2>3, KindOfExtracted
<1>6. CASE \E t \in Names, reason \in Texts : p = to_json(build_connection_reject(t, reason))
  <2>1. PICK t \in Names, reason \in Texts : p = to_json(build_connection_reject(t, reason))
    BY <1>6
  <2>2. m = build_connection_reject(t, reason) /\ m.type = "connection_reject"
    BY <1>4, <2>1
  <2>3. extract_rejection(m) = {<<t, reason>>}
    BY <2>2, ExtractedRejection
  <2>4. QED
    BY <2>2, <2>3, KindOfExtracted
<1>7. QED
  BY <1>1, <1>2, <1>5, <1>6 DEF NativePayloads

\* What the hub extracts is typed, whoever has sent it.
LEMMA Extracted ==
  ASSUME NEW c \in Clients, NEW p \in Payloads(c), NEW m \in from_json(p)
  PROVE  /\ extract_registration(m) \subseteq Names
         /\ extract_signal(m) \subseteq Names \X Descriptions
         /\ extract_rejection(m) \subseteq Names \X Texts
<1>1. CASE c \in Native
  BY <1>1, NativeMade DEF Payloads
<1>2. CASE c \notin Native
  <2>1. \A o \in require_data(m) :
          /\ \A key \in {"peer_id", "target_id", "reason"} :
               IsStr(Get(o, key)) => Get(o, key)[2] \in Texts
          /\ IsObj(Get(o, "description")) => Get(o, "description")[2] \in Descriptions
    BY <1>2, ForeignAssumption DEF Payloads
  <2>2. \A kinds : Fields(m, kinds) \subseteq require_data(m)
    BY DEF Fields
  <2>3. extract_registration(m) \subseteq Names
    BY <2>1, <2>2 DEF extract_registration, NonEmpty, Names
  <2>4. ASSUME NEW s \in extract_signal(m)
        PROVE  s \in Names \X Descriptions
    <3>1. PICK o \in Fields(m, Signals) :
                 /\ NonEmpty(Get(o, "target_id")) /\ IsObj(Get(o, "description"))
                 /\ s = <<Get(o, "target_id")[2], Get(o, "description")[2]>>
      BY DEF extract_signal, SignalOf
    <3>2. o \in require_data(m)
      BY <2>2, <3>1
    <3>3. Get(o, "target_id")[2] \in Names /\ Get(o, "description")[2] \in Descriptions
      BY <2>1, <3>1, <3>2 DEF NonEmpty, Names
    <3>4. QED
      BY <3>1, <3>3
  <2>5. ASSUME NEW o \in require_data(m), IsStr(GetOr(o, "reason", Str("")))
        PROVE  GetOr(o, "reason", Str(""))[2] \in Texts
    BY <2>1, <2>5, Strings, MessagesAssumption DEF GetOr, Get
  <2>6. ASSUME NEW r \in extract_rejection(m)
        PROVE  r \in Names \X Texts
    <3>1. PICK o \in Fields(m, {"connection_reject"}) :
                 /\ NonEmpty(Get(o, "target_id")) /\ IsStr(GetOr(o, "reason", Str("")))
                 /\ r = <<Get(o, "target_id")[2], GetOr(o, "reason", Str(""))[2]>>
      BY DEF extract_rejection, RejectionOf
    <3>2. o \in require_data(m)
      BY <2>2, <3>1
    <3>3. Get(o, "target_id")[2] \in Names /\ GetOr(o, "reason", Str(""))[2] \in Texts
      BY <2>1, <2>5, <3>1, <3>2 DEF NonEmpty, Names
    <3>4. QED
      BY <3>1, <3>3
  <2>7. QED
    BY <2>3, <2>4, <2>6
<1>3. QED
  BY <1>1, <1>2

-----------------------------------------------------------------------------
(***************************************************************************)
(* What a message that the hub makes hands to the client.                  *)
(***************************************************************************)
LEMMA NewsHand ==
  ASSUME NEW id \in Names, NEW ids \in SUBSET Names,
         NEW p \in {to_json(build_error), to_json(build_register_ack(id, ids)),
                    to_json(build_peer_list_response(ids))}
  PROVE  /\ p \in HubPayloads
         /\ \A m \in from_json(p) :
              extract_forwarded_signal(m) = {} /\ extract_forwarded_rejection(m) = {}
<1>1. p \in HubPayloads
  BY DEF HubPayloads
<1>2. ASSUME NEW m \in from_json(p)
      PROVE  m.type \in {"error", "register_ack", "peer_list_response"}
  <2>1. CASE p = to_json(build_error)
    BY <1>2, <2>1, RoundTrip, Objects DEF build_error, Message, MessageType, Signals
  <2>2. CASE p = to_json(build_register_ack(id, ids))
    BY <1>2, <2>2, RoundTrip, Objects DEF build_register_ack, Message, MessageType, Signals
  <2>3. CASE p = to_json(build_peer_list_response(ids))
    BY <1>2, <2>3, RoundTrip, Objects
       DEF build_peer_list_response, Message, MessageType, Signals
  <2>4. QED
    BY <2>1, <2>2, <2>3
<1>3. QED
  BY <1>1, <1>2, KindOfExtracted DEF Signals

LEMMA ForwardHands ==
  ASSUME NEW kind \in Signals, NEW id \in Names, NEW d \in Descriptions,
         NEW p, p = to_json(build_forward(kind, id, d))
  PROVE  /\ p \in HubPayloads
         /\ \A m \in from_json(p) :
              /\ m.type = kind
              /\ extract_forwarded_signal(m) \cup extract_forwarded_rejection(m) = {<<id, d>>}
<1>1. p \in HubPayloads
  BY DEF HubPayloads
<1>2. ASSUME NEW m \in from_json(p)
      PROVE  m = build_forward(kind, id, d) /\ m.type = kind
  BY <1>2, RoundTrip, Objects DEF build_forward, Message, MessageType, Signals
<1>3. QED
  BY <1>1, <1>2, ExtractedSignal

LEMMA RejectHands ==
  ASSUME NEW id \in Names, NEW reason \in Texts,
         NEW p, p = to_json(build_connection_reject_forward(id, reason))
  PROVE  /\ p \in HubPayloads
         /\ \A m \in from_json(p) :
              /\ m.type = "connection_reject"
              /\ extract_forwarded_signal(m) \cup extract_forwarded_rejection(m)
                   = {<<id, reason>>}
<1>1. p \in HubPayloads
  BY DEF HubPayloads
<1>2. ASSUME NEW m \in from_json(p)
      PROVE  m = build_connection_reject_forward(id, reason) /\ m.type = "connection_reject"
  BY <1>2, RoundTrip, Objects
     DEF build_connection_reject_forward, Message, MessageType, Signals
<1>3. QED
  BY <1>1, <1>2, ExtractedRejection

-----------------------------------------------------------------------------
(***************************************************************************)
(* What a step may do to the queues, and what it must leave.               *)
(***************************************************************************)
\* Ids are set once, and what was sent stays sent.
Grows ==
  /\ sent \subseteq sent'
  /\ \A d \in Clients : name[d] # NoName => name'[d] = name[d]

LEMMA TracedKept ==
  ASSUME Grows, NEW c, NEW kind, NEW source, NEW content, Traced(c, kind, source, content)
  PROVE  Traced(c, kind, source, content)'
<1>0. PICK p \in sent : \E m \in from_json(p[2]) :
        \/ /\ p[1] \in Clients /\ name[p[1]] # NoName /\ name[c] # NoName
           /\ name[p[1]] = source
           /\ <<name[c], content>> \in extract_signal(m) \cup extract_rejection(m)
           /\ m.type = kind
        \/ /\ p[1] = c /\ kind = "connection_reject"
           /\ \E s \in extract_signal(m) : s[1] = source
  BY DEF Traced
<1>1. PICK m \in from_json(p[2]) :
        \/ /\ p[1] \in Clients /\ name[p[1]] # NoName /\ name[c] # NoName
           /\ name[p[1]] = source
           /\ <<name[c], content>> \in extract_signal(m) \cup extract_rejection(m)
           /\ m.type = kind
        \/ /\ p[1] = c /\ kind = "connection_reject"
           /\ \E s \in extract_signal(m) : s[1] = source
  BY <1>0
<1>2. c \in Clients /\ p \in sent'
  BY DEF Traced, Grows
<1>3. CASE /\ p[1] \in Clients /\ name[p[1]] # NoName /\ name[c] # NoName
           /\ name[p[1]] = source
           /\ <<name[c], content>> \in extract_signal(m) \cup extract_rejection(m)
           /\ m.type = kind
  <2>1. name'[p[1]] = name[p[1]] /\ name'[c] = name[c]
    BY <1>2, <1>3 DEF Grows
  <2>2. QED
    BY <1>2, <1>3, <2>1 DEF Traced
<1>4. CASE /\ p[1] = c /\ kind = "connection_reject"
           /\ \E s \in extract_signal(m) : s[1] = source
  BY <1>2, <1>4 DEF Traced
<1>5. QED
  BY <1>1, <1>3, <1>4

LEMMA TraceableKept ==
  ASSUME Grows, NEW c, NEW payload, Traceable(c, payload)
  PROVE  Traceable(c, payload)'
BY TracedKept DEF Traceable

LEMMA HandedKept ==
  ASSUME Grows, HandedTraced, handed' = handed
  PROVE  HandedTraced'
BY TracedKept DEF HandedTraced

\* Each client gets at most one message, of the hub's make.
Delivers ==
  /\ toClient' = [d \in Clients |-> toClient'[d]]
  /\ \A d \in Clients :
       \/ toClient'[d] = toClient[d]
       \/ \E p \in HubPayloads :
            toClient'[d] = Append(toClient[d], p) /\ Traceable(d, p)'

LEMMA DeliveredKeeps ==
  ASSUME TypeOK, InTransit, Grows, Delivers
  PROVE  toClient' \in [Clients -> Seq(HubPayloads)] /\ InTransit'
<1>1. ASSUME NEW d \in Clients
      PROVE  /\ toClient'[d] \in Seq(HubPayloads)
             /\ \A p \in HubPayloads :
                  (\E i \in 1 .. Len(toClient'[d]) : toClient'[d][i] = p) => Traceable(d, p)'
  <2>1. toClient[d] \in Seq(HubPayloads)
    BY DEF TypeOK
  <2>2. \A p \in HubPayloads :
          (\E i \in 1 .. Len(toClient[d]) : toClient[d][i] = p) => Traceable(d, p)'
    BY TraceableKept DEF InTransit
  <2>3. CASE toClient'[d] = toClient[d]
    BY <2>1, <2>2, <2>3
  <2>4. ASSUME NEW q \in HubPayloads, Traceable(d, q)',
               toClient'[d] = Append(toClient[d], q)
        PROVE  /\ toClient'[d] \in Seq(HubPayloads)
               /\ \A p \in HubPayloads :
                    (\E i \in 1 .. Len(toClient'[d]) : toClient'[d][i] = p)
                      => Traceable(d, p)'
    <3>1. /\ toClient'[d] \in Seq(HubPayloads) /\ Len(toClient'[d]) = Len(toClient[d]) + 1
          /\ \A i \in 1 .. Len(toClient[d]) : toClient'[d][i] = toClient[d][i]
          /\ toClient'[d][Len(toClient[d]) + 1] = q
      BY <2>1, <2>4, AppendProperties
    <3>2. Len(toClient[d]) \in Nat
      BY <2>1, LenProperties
    <3>3. ASSUME NEW i \in 1 .. Len(toClient'[d])
          PROVE  toClient'[d][i] = q \/ \E k \in 1 .. Len(toClient[d]) : toClient[d][k] = toClient'[d][i]
      <4>1. CASE i \in 1 .. Len(toClient[d])
        BY <3>1, <4>1
      <4>2. CASE i = Len(toClient[d]) + 1
        BY <3>1, <4>2
      <4>3. QED
        BY <3>1, <3>2, <4>1, <4>2
    <3>4. ASSUME NEW p \in HubPayloads, \E i \in 1 .. Len(toClient'[d]) : toClient'[d][i] = p
          PROVE  Traceable(d, p)'
      <4>1. CASE p = q
        BY <2>4, <4>1
      <4>2. CASE p # q
        BY <2>2, <3>3, <3>4, <4>2
      <4>3. QED
        BY <4>1, <4>2
    <3>5. QED
      BY <3>1, <3>4
  <2>5. QED
    BY <2>3, <2>4 DEF Delivers
<1>2. toClient' \in [Clients -> Seq(HubPayloads)]
  BY <1>1 DEF Delivers
<1>3. QED
  BY <1>1, <1>2 DEF InTransit

LEMMA TakenKeeps ==
  ASSUME TypeOK, InTransit, Grows, NEW c \in Clients, toClient[c] # <<>>,
         toClient' = [toClient EXCEPT ![c] = Tail(@)]
  PROVE  /\ toClient' \in [Clients -> Seq(HubPayloads)] /\ InTransit'
         /\ Head(toClient[c]) \in HubPayloads /\ Traceable(c, Head(toClient[c]))
<1>1. toClient[c] \in Seq(HubPayloads)
  BY DEF TypeOK
<1>2. /\ Head(toClient[c]) \in HubPayloads /\ Head(toClient[c]) = toClient[c][1]
      /\ Tail(toClient[c]) \in Seq(HubPayloads)
      /\ Len(Tail(toClient[c])) = Len(toClient[c]) - 1
      /\ \A k \in 1 .. Len(Tail(toClient[c])) : Tail(toClient[c])[k] = toClient[c][k + 1]
  BY <1>1, HeadTailProperties
<1>3. Len(toClient[c]) \in Nat /\ Len(toClient[c]) # 0
  BY <1>1, EmptySeq, LenProperties
<1>4. /\ toClient' \in [Clients -> Seq(HubPayloads)]
      /\ toClient'[c] = Tail(toClient[c]) /\ \A d \in Clients \ {c} : toClient'[d] = toClient[d]
  BY <1>2 DEF TypeOK
<1>5. ASSUME NEW d \in Clients, NEW i \in 1 .. Len(toClient'[d])
      PROVE  \E k \in 1 .. Len(toClient[d]) : toClient[d][k] = toClient'[d][i]
  <2>1. CASE d = c
    BY <1>2, <1>3, <1>4, <2>1
  <2>2. CASE d # c
    BY <1>4, <2>2
  <2>3. QED
    BY <2>1, <2>2
<1>6. ASSUME NEW d \in Clients, NEW p \in HubPayloads,
             \E i \in 1 .. Len(toClient'[d]) : toClient'[d][i] = p
      PROVE  Traceable(d, p)'
  BY <1>5, <1>6, TraceableKept DEF InTransit
<1>7. Traceable(c, Head(toClient[c]))
  <2>1. 1 \in 1 .. Len(toClient[c])
    BY <1>3
  <2>2. QED
    BY <1>2, <2>1 DEF InTransit
<1>8. QED
  BY <1>2, <1>4, <1>6, <1>7 DEF InTransit

Typed(q) == DOMAIN q = Clients /\ \A d \in Clients : q[d] \in Seq(Payloads(d))

LEMMA HubReadsKeeps ==
  ASSUME TypeOK, Recorded, NEW c \in Clients, HubReads(c)
  PROVE  /\ Typed(toHub') /\ Recorded'
         /\ Head(toHub[c]) \in Payloads(c) /\ <<c, Head(toHub[c])>> \in sent
<1>1. toHub[c] \in Seq(Payloads(c)) /\ toHub[c] # <<>>
  BY DEF TypeOK, HubReads
<1>2. /\ Head(toHub[c]) \in Payloads(c) /\ Head(toHub[c]) = toHub[c][1]
      /\ Tail(toHub[c]) \in Seq(Payloads(c))
      /\ Len(Tail(toHub[c])) = Len(toHub[c]) - 1
      /\ \A k \in 1 .. Len(Tail(toHub[c])) : Tail(toHub[c])[k] = toHub[c][k + 1]
  BY <1>1, HeadTailProperties
<1>3. Len(toHub[c]) \in Nat /\ Len(toHub[c]) # 0
  BY <1>1, EmptySeq, LenProperties
<1>4. /\ DOMAIN toHub' = Clients /\ sent' = sent
      /\ toHub'[c] = Tail(toHub[c]) /\ \A d \in Clients \ {c} : toHub'[d] = toHub[d]
  BY DEF TypeOK, HubReads
<1>5. Typed(toHub')
  BY <1>2, <1>4 DEF TypeOK, Typed
<1>6. ASSUME NEW d \in Clients, NEW i \in 1 .. Len(toHub'[d])
      PROVE  <<d, toHub'[d][i]>> \in sent'
  <2>1. CASE d = c
    <3>1. i + 1 \in 1 .. Len(toHub[c]) /\ toHub'[d][i] = toHub[c][i + 1]
      BY <1>2, <1>3, <1>4, <2>1
    <3>2. QED
      BY <1>4, <2>1, <3>1 DEF Recorded
  <2>2. CASE d # c
    BY <1>4, <2>2 DEF Recorded
  <2>3. QED
    BY <2>1, <2>2
<1>7. <<c, Head(toHub[c])>> \in sent
  BY <1>2, <1>3 DEF Recorded
<1>8. QED
  BY <1>2, <1>5, <1>6, <1>7 DEF Recorded

LEMMA ToHubKeeps ==
  ASSUME TypeOK, Recorded, NEW c \in Clients, NEW payload \in Payloads(c), ToHub(c, payload)
  PROVE  Typed(toHub') /\ Recorded' /\ sent \subseteq sent'
<1>1. toHub[c] \in Seq(Payloads(c))
  BY DEF TypeOK
<1>2. /\ Append(toHub[c], payload) \in Seq(Payloads(c))
      /\ Len(Append(toHub[c], payload)) = Len(toHub[c]) + 1
      /\ \A i \in 1 .. Len(toHub[c]) : Append(toHub[c], payload)[i] = toHub[c][i]
      /\ Append(toHub[c], payload)[Len(toHub[c]) + 1] = payload
  BY <1>1, AppendProperties
<1>3. Len(toHub[c]) \in Nat
  BY <1>1, LenProperties
<1>4. /\ DOMAIN toHub' = Clients /\ sent' = sent \cup {<<c, payload>>}
      /\ toHub'[c] = Append(toHub[c], payload)
      /\ \A d \in Clients \ {c} : toHub'[d] = toHub[d]
  BY DEF TypeOK, ToHub
<1>5. Typed(toHub')
  BY <1>2, <1>4 DEF TypeOK, Typed
<1>6. ASSUME NEW d \in Clients, NEW i \in 1 .. Len(toHub'[d])
      PROVE  <<d, toHub'[d][i]>> \in sent'
  <2>1. CASE d = c
    <3>1. CASE i \in 1 .. Len(toHub[c])
      BY <1>2, <1>4, <2>1, <3>1 DEF Recorded
    <3>2. CASE i = Len(toHub[c]) + 1
      BY <1>2, <1>4, <2>1, <3>2
    <3>3. QED
      BY <1>2, <1>3, <1>4, <2>1, <3>1, <3>2
  <2>2. CASE d # c
    BY <1>4, <2>2 DEF Recorded
  <2>3. QED
    BY <2>1, <2>2
<1>7. QED
  BY <1>4, <1>5, <1>6 DEF Recorded

-----------------------------------------------------------------------------
(***************************************************************************)
(* The steps of the hub.                                                   *)
(***************************************************************************)
\* Each id that is registered is set once.
NamesKept ==
  /\ name' \in [Clients -> Names \cup {NoName}]
  /\ \A d \in Clients : name[d] # NoName => name'[d] = name[d]

LEMMA HubStepKeeps ==
  ASSUME IInv, NEW c \in Clients, HubReads(c), Delivers, NamesKept, NativeKept',
         endpoint' \in [Clients -> {"running", "refused", "raised"}]
  PROVE  IInv'
<1>1. TypeOK /\ Recorded /\ InTransit /\ HandedTraced /\ ListenersSurvive
  BY DEF IInv
<1>2. Grows
  BY DEF HubReads, NamesKept, Grows
<1>3. toClient' \in [Clients -> Seq(HubPayloads)] /\ InTransit'
  BY <1>1, <1>2, DeliveredKeeps
<1>4. Typed(toHub') /\ Recorded'
  BY <1>1, HubReadsKeeps
<1>5. HandedTraced'
  BY <1>1, <1>2, HandedKept DEF HubReads
<1>6. TypeOK' /\ ListenersSurvive'
  BY <1>1, <1>3, <1>4 DEF TypeOK, Typed, HubReads, NamesKept, ListenersSurvive
<1>7. QED
  BY <1>3, <1>4, <1>5, <1>6 DEF IInv

LEMMA SendDelivers ==
  ASSUME TypeOK, NEW cs, NEW m, Send(cs, m), to_json(m) \in HubPayloads,
         NEW p, p = to_json(m), \A d \in cs \cap Native : Traceable(d, p)'
  PROVE  Delivers
<1>1. /\ toClient' = [d \in Clients |-> toClient'[d]]
      /\ \A d \in Clients : toClient'[d] = IF d \in cs \cap Native
                                           THEN Append(toClient[d], p) ELSE toClient[d]
  BY DEF Send
<1>2. QED
  BY <1>1 DEF Delivers

\* News say nothing under the name of another client.
LEMMA NewsTraceable ==
  ASSUME NEW id \in Names, NEW ids \in SUBSET Names, NEW d,
         NEW p \in {to_json(build_error), to_json(build_register_ack(id, ids)),
                    to_json(build_peer_list_response(ids))}
  PROVE  p \in HubPayloads /\ Traceable(d, p)'
BY NewsHand DEF Traceable

LEMMA NewsDelivered ==
  ASSUME TypeOK, NEW cs, NEW ids \in SUBSET Names,
         NEW m \in {build_error, build_peer_list_response(ids)}, Send(cs, m)
  PROVE  Delivers
<1>1. "text" \in Names
  BY MessagesAssumption DEF Names
<1>2. PICK p : p = to_json(m)
  OBVIOUS
<1>3. p \in HubPayloads /\ \A d : Traceable(d, p)'
  BY <1>1, <1>2, NewsTraceable
<1>4. QED
  BY <1>2, <1>3, SendDelivers

\* p hands only what d can trace.
LEMMA TraceableFrom ==
  ASSUME Grows, NEW d, NEW p, NEW kind, NEW source, NEW content,
         \A m \in from_json(p) :
           /\ m.type = kind
           /\ extract_forwarded_signal(m) \cup extract_forwarded_rejection(m)
                = {<<source, content>>},
         Traced(d, kind, source, content)
  PROVE  Traceable(d, p)'
<1>1. Traced(d, kind, source, content)'
  BY TracedKept
<1>2. ASSUME NEW m \in from_json(p),
             NEW w \in extract_forwarded_signal(m) \cup extract_forwarded_rejection(m)
      PROVE  m.type = kind /\ w[1] = source /\ w[2] = content
  BY <1>2
<1>3. QED
  BY <1>1, <1>2 DEF Traceable

LEMMA SnapshotNames ==
  ASSUME TypeOK
  PROVE  Snapshot \in SUBSET Names
BY DEF TypeOK, Snapshot, Registered

LEMMA MalformedStep ==
  ASSUME IInv, NEW c \in Clients, Malformed(c)
  PROVE  IInv'
<1>1. TypeOK /\ NativeKept
  BY DEF IInv
<1>2. Delivers
  <2>1. Send({c}, build_error) /\ {} \in SUBSET Names
    BY DEF Malformed
  <2>2. QED
    BY <1>1, <2>1, NewsDelivered
<1>3. HubReads(c) /\ NamesKept /\ NativeKept'
      /\ endpoint' \in [Clients -> {"running", "refused", "raised"}]
  BY <1>1 DEF Malformed, NamesKept, TypeOK, NativeKept
<1>4. QED
  BY <1>2, <1>3, HubStepKeeps

LEMMA RefuseStep ==
  ASSUME IInv, NEW c \in Clients, HubReads(c), Refuse(c)
  PROVE  IInv'
<1>1. TypeOK /\ NativeKept
  BY DEF IInv
<1>2. Delivers
  <2>1. Send({c}, build_error) /\ {} \in SUBSET Names
    BY DEF Refuse
  <2>2. QED
    BY <1>1, <2>1, NewsDelivered
<1>3. /\ NamesKept /\ NativeKept'
      /\ endpoint' \in [Clients -> {"running", "refused", "raised"}]
  BY <1>1, MessagesAssumption DEF Refuse, NamesKept, TypeOK, NativeKept
<1>4. QED
  BY <1>2, <1>3, HubStepKeeps

\* A message that is not to be had from a native client.
LEMMA RaiseStep ==
  ASSUME IInv, NEW c \in Clients, HubReads(c), Raise(c), name' = name, c \notin Native
  PROVE  IInv'
<1>1. TypeOK /\ NativeKept
  BY DEF IInv
<1>2. Delivers
  <2>1. Snapshot \ {name[c]} \in SUBSET Names
    BY <1>1, SnapshotNames
  <2>2. QED
    BY <1>1, <2>1, NewsDelivered DEF Raise
<1>3. /\ NamesKept /\ NativeKept'
      /\ endpoint' \in [Clients -> {"running", "refused", "raised"}]
  BY <1>1, MessagesAssumption DEF Raise, NamesKept, TypeOK, NativeKept
<1>4. QED
  BY <1>2, <1>3, HubStepKeeps

LEMMA RegisterStep ==
  ASSUME IInv, NEW c \in Clients, Register(c)
  PROVE  IInv'
<1>1. TypeOK /\ NativeKept /\ Recorded
  BY DEF IInv
<1>2. HubReads(c) /\ name[c] = NoName
  BY DEF Register
<1>3. CASE Refuse(c)
  BY <1>2, <1>3, RefuseStep
<1>4. ASSUME NEW m \in Read(c), NEW id \in extract_registration(m),
             name' = [name EXCEPT ![c] = id], endpoint' = endpoint,
             toClient' =
               [d \in Clients |->
                  IF d \notin Native \/ ~(Registered(d) \/ d = c) THEN toClient[d]
                  ELSE Append(toClient[d], to_json(
                         IF d = c THEN build_register_ack(id, Snapshot \cup {id})
                         ELSE build_peer_list_response(Snapshot \cup {id})))]
      PROVE  IInv'
  <2>1. id \in Names
    BY <1>1, <1>2, <1>4, HubReadsKeeps, Extracted DEF Read
  <2>2. PICK ids : ids = Snapshot \cup {id}
    OBVIOUS
  <2>3. ids \in SUBSET Names
    BY <1>1, <2>1, <2>2, SnapshotNames
  <2>4. ASSUME NEW d \in Clients
        PROVE  \/ toClient'[d] = toClient[d]
               \/ \E p \in HubPayloads :
                    toClient'[d] = Append(toClient[d], p) /\ Traceable(d, p)'
    <3>1. CASE d \notin Native \/ ~(Registered(d) \/ d = c)
      BY <1>4, <3>1
    <3>2. ASSUME NEW p \in {to_json(build_register_ack(id, ids)),
                            to_json(build_peer_list_response(ids))}
          PROVE  p \in HubPayloads /\ Traceable(d, p)'
      BY <2>1, <2>3, <3>2, NewsTraceable
    <3>3. CASE ~(d \notin Native \/ ~(Registered(d) \/ d = c))
      <4>1. CASE d = c
        BY <1>4, <2>2, <3>2, <3>3, <4>1
      <4>2. CASE d # c
        BY <1>4, <2>2, <3>2, <3>3, <4>2
      <4>3. QED
        BY <4>1, <4>2
    <3>4. QED
      BY <3>1, <3>3
  <2>5. Delivers
    BY <1>4, <2>4 DEF Delivers
  <2>6. /\ NamesKept /\ NativeKept'
        /\ endpoint' \in [Clients -> {"running", "refused", "raised"}]
    BY <1>1, <1>2, <1>4, <2>1 DEF NamesKept, NativeKept, TypeOK
  <2>7. QED
    BY <1>2, <2>5, <2>6, HubStepKeeps
<1>5. QED
  BY <1>3, <1>4 DEF Register

LEMMA AnsweredStep ==
  ASSUME IInv, NEW c \in Clients, ListRequest(c) \/ Unhandled(c)
  PROVE  IInv'
<1>1. TypeOK /\ NativeKept
  BY DEF IInv
<1>2. Delivers
  <2>1. Snapshot \in SUBSET Names
    BY <1>1, SnapshotNames
  <2>2. QED
    BY <1>1, <2>1, NewsDelivered DEF ListRequest, Unhandled
<1>3. HubReads(c) /\ NamesKept /\ NativeKept'
      /\ endpoint' \in [Clients -> {"running", "refused", "raised"}]
  BY <1>1 DEF ListRequest, Unhandled, NamesKept, TypeOK, NativeKept
<1>4. QED
  BY <1>2, <1>3, HubStepKeeps

\* What c has sent to the id of d, d can trace to the id of c.
LEMMA ReadTraced ==
  ASSUME TypeOK, Recorded, NEW c \in Clients, HubReads(c), name[c] # NoName,
         NEW m \in Read(c), NEW s \in extract_signal(m) \cup extract_rejection(m)
  PROVE  /\ s[1] \in Names /\ s[1] # NoName
         /\ s \in extract_signal(m) => s[2] \in Descriptions
         /\ s \in extract_rejection(m) => s[2] \in Texts
         /\ \A d \in Named(s[1]) : Traced(d, m.type, name[c], s[2])
         /\ s \in extract_signal(m) =>
              \A content : Traced(c, "connection_reject", s[1], content)
<1>1. /\ Head(toHub[c]) \in Payloads(c) /\ <<c, Head(toHub[c])>> \in sent
      /\ m \in from_json(Head(toHub[c]))
  BY HubReadsKeeps DEF Read
<1>2. /\ s \in (Names \X Descriptions) \cup (Names \X Texts)
      /\ s \in extract_signal(m) => s \in Names \X Descriptions
      /\ s \in extract_rejection(m) => s \in Names \X Texts
  BY <1>1, Extracted
<1>3. s = <<s[1], s[2]>> /\ s[1] \in Names /\ s[1] # NoName
  <2>1. \A n \in Names : n # NoName
    BY MessagesAssumption DEF Names
  <2>2. CASE s \in Names \X Descriptions
    <3>1. PICK n \in Names, d \in Descriptions : s = <<n, d>>
      BY <2>2
    <3>2. QED
      BY <2>1, <3>1
  <2>3. CASE s \in Names \X Texts
    <3>1. PICK n \in Names, d \in Texts : s = <<n, d>>
      BY <2>3
    <3>2. QED
      BY <2>1, <3>1
  <2>4. QED
    BY <1>2, <2>2, <2>3
<1>4. ASSUME NEW d \in Named(s[1])
      PROVE  Traced(d, m.type, name[c], s[2])
  <2>1. d \in Clients /\ name[d] = s[1]
    BY DEF Named
  <2>2. PICK p \in sent : p = <<c, Head(toHub[c])>>
    BY <1>1
  <2>3. /\ p[1] = c /\ m \in from_json(p[2])
        /\ <<name[d], s[2]>> \in extract_signal(m) \cup extract_rejection(m)
    BY <1>1, <1>3, <2>1, <2>2
  <2>4. QED
    BY <1>3, <2>1, <2>3 DEF Traced
<1>5. ASSUME s \in extract_signal(m), NEW content
      PROVE  Traced(c, "connection_reject", s[1], content)
  <2>1. PICK p \in sent : p = <<c, Head(toHub[c])>>
    BY <1>1
  <2>2. p[1] = c /\ m \in from_json(p[2])
    BY <1>1, <2>1
  <2>3. QED
    BY <1>5, <2>2 DEF Traced
<1>6. QED
  BY <1>2, <1>3, <1>4, <1>5

\* An extract_* that the hub needs raises only for a message of another make.
LEMMA RaisesForForeign ==
  ASSUME TypeOK, Recorded, NEW c \in Clients, HubReads(c), NEW m \in Read(c),
         \/ m.type \in Signals /\ extract_signal(m) = {}
         \/ m.type = "connection_reject" /\ extract_rejection(m) = {}
  PROVE  c \notin Native
BY HubReadsKeeps, NativeMade DEF Read, Payloads

LEMMA RequestConnStep ==
  ASSUME IInv, NEW c \in Clients, RequestConn(c)
  PROVE  IInv'
<1>1. TypeOK /\ NativeKept /\ Recorded
  BY DEF IInv
<1>2. HubReads(c) /\ name[c] # NoName /\ name' = name
  BY DEF RequestConn
<1>3. PICK m \in Read(c) :
        /\ m.type \in Signals
        /\ \/ extract_signal(m) = {} /\ Raise(c)
           \/ \E s \in extract_signal(m) :
                /\ IF Named(s[1]) = {}
                   THEN Send({c}, build_connection_reject_forward(s[1], "text"))
                   ELSE Send(Named(s[1]), Forwarded(c, m, s[2]))
                /\ UNCHANGED endpoint
  BY DEF RequestConn
<1>4. CASE extract_signal(m) = {} /\ Raise(c)
  BY <1>1, <1>2, <1>3, <1>4, RaisesForForeign, RaiseStep
<1>5. ASSUME NEW s \in extract_signal(m), endpoint' = endpoint,
             IF Named(s[1]) = {}
             THEN Send({c}, build_connection_reject_forward(s[1], "text"))
             ELSE Send(Named(s[1]), Forwarded(c, m, s[2]))
      PROVE  IInv'
  <2>1. /\ s[1] \in Names /\ s[2] \in Descriptions
        /\ \A d \in Named(s[1]) : Traced(d, m.type, name[c], s[2])
        /\ \A content : Traced(c, "connection_reject", s[1], content)
    BY <1>1, <1>2, <1>3, ReadTraced
  <2>2. Grows /\ NamesKept /\ NativeKept'
        /\ endpoint' \in [Clients -> {"running", "refused", "raised"}]
    BY <1>1, <1>2, <1>5 DEF Grows, NamesKept, NativeKept, TypeOK, HubReads
  <2>3. CASE Named(s[1]) = {}
    <3>1. PICK p : p = to_json(build_connection_reject_forward(s[1], "text"))
      OBVIOUS
    <3>2. "text" \in Texts
      BY MessagesAssumption
    <3>3. /\ p \in HubPayloads
          /\ \A q \in from_json(p) :
               /\ q.type = "connection_reject"
               /\ extract_forwarded_signal(q) \cup extract_forwarded_rejection(q)
                    = {<<s[1], "text">>}
      BY <2>1, <3>1, <3>2, RejectHands
    <3>4. Traceable(c, p)'
      <4>1. Traced(c, "connection_reject", s[1], "text")
        BY <2>1
      <4>2. QED
        BY <2>2, <3>3, <4>1, TraceableFrom
    <3>5. Delivers
      BY <1>1, <1>5, <2>3, <3>1, <3>3, <3>4, SendDelivers
    <3>6. QED
      BY <1>2, <2>2, <3>5, HubStepKeeps
  <2>4. CASE Named(s[1]) # {}
    <3>1. PICK p : p = to_json(build_forward(m.type, name[c], s[2]))
      OBVIOUS
    <3>2. name[c] \in Names
      BY <1>1, <1>2 DEF TypeOK
    <3>3. p \in HubPayloads /\ \A d \in Named(s[1]) : Traceable(d, p)'
      BY <1>3, <2>1, <2>2, <3>1, <3>2, ForwardHands, TraceableFrom
    <3>4. Delivers
      BY <1>1, <1>5, <2>4, <3>1, <3>3, SendDelivers DEF Forwarded
    <3>5. QED
      BY <1>2, <2>2, <3>4, HubStepKeeps
  <2>5. QED
    BY <2>3, <2>4
<1>6. QED
  BY <1>3, <1>4, <1>5

LEMMA ForwardRejectionStep ==
  ASSUME IInv, NEW c \in Clients, ForwardRejection(c)
  PROVE  IInv'
<1>1. TypeOK /\ NativeKept /\ Recorded
  BY DEF IInv
<1>2. HubReads(c) /\ name[c] # NoName /\ name' = name
  BY DEF ForwardRejection
<1>3. PICK m \in Read(c) :
        /\ m.type = "connection_reject"
        /\ \/ extract_rejection(m) = {} /\ Raise(c)
           \/ \E r \in extract_rejection(m) :
                /\ IF Named(r[1]) = {}
                   THEN Send({c}, build_error)
                   ELSE Send(Named(r[1]), build_connection_reject_forward(name[c], r[2]))
                /\ UNCHANGED endpoint
  BY DEF ForwardRejection
<1>4. CASE extract_rejection(m) = {} /\ Raise(c)
  BY <1>1, <1>2, <1>3, <1>4, RaisesForForeign, RaiseStep
<1>5. ASSUME NEW r \in extract_rejection(m), endpoint' = endpoint,
             IF Named(r[1]) = {}
             THEN Send({c}, build_error)
             ELSE Send(Named(r[1]), build_connection_reject_forward(name[c], r[2]))
      PROVE  IInv'
  <2>1. /\ r[2] \in Texts
        /\ \A d \in Named(r[1]) : Traced(d, m.type, name[c], r[2])
    BY <1>1, <1>2, <1>3, ReadTraced
  <2>2. Grows /\ NamesKept /\ NativeKept'
        /\ endpoint' \in [Clients -> {"running", "refused", "raised"}]
    BY <1>1, <1>2, <1>5 DEF Grows, NamesKept, NativeKept, TypeOK, HubReads
  <2>3. CASE Named(r[1]) = {}
    <3>1. Send({c}, build_error) /\ {} \in SUBSET Names
      BY <1>5, <2>3
    <3>2. Delivers
      BY <1>1, <3>1, NewsDelivered
    <3>3. QED
      BY <1>2, <2>2, <3>2, HubStepKeeps
  <2>4. CASE Named(r[1]) # {}
    <3>1. PICK p : p = to_json(build_connection_reject_forward(name[c], r[2]))
      OBVIOUS
    <3>2. name[c] \in Names
      BY <1>1, <1>2 DEF TypeOK
    <3>3. p \in HubPayloads /\ \A d \in Named(r[1]) : Traceable(d, p)'
      BY <1>3, <2>1, <2>2, <3>1, <3>2, RejectHands, TraceableFrom
    <3>4. Delivers
      BY <1>1, <1>5, <2>4, <3>1, <3>3, SendDelivers
    <3>5. QED
      BY <1>2, <2>2, <3>4, HubStepKeeps
  <2>5. QED
    BY <2>3, <2>4
<1>6. QED
  BY <1>3, <1>4, <1>5

LEMMA HubSteps ==
  ASSUME IInv, NEW c \in Clients, HubStep(c)
  PROVE  IInv'
BY MalformedStep, RegisterStep, AnsweredStep, RequestConnStep, ForwardRejectionStep
   DEF HubStep

-----------------------------------------------------------------------------
(***************************************************************************)
(* The steps of the clients.                                               *)
(***************************************************************************)
LEMMA UnpromptedStep ==
  ASSUME IInv, NEW c \in Clients, NEW payload \in Payloads(c), Unprompted(c, payload)
  PROVE  IInv'
<1>1. TypeOK /\ Recorded /\ InTransit /\ HandedTraced /\ ListenersSurvive /\ NativeKept
  BY DEF IInv
<1>2. /\ ToHub(c, payload) /\ sends < MaxSends /\ sends' = sends + 1
      /\ UNCHANGED <<name, endpoint, acked, listening, toClient, handed>>
  BY DEF Unprompted
<1>3. Typed(toHub') /\ Recorded' /\ Grows
  BY <1>1, <1>2, ToHubKeeps DEF Grows
<1>4. InTransit' /\ HandedTraced'
  <2>1. Delivers
    BY <1>1, <1>2 DEF Delivers, TypeOK
  <2>2. QED
    BY <1>1, <1>2, <1>3, <2>1, DeliveredKeeps, HandedKept
<1>5. sends' \in 0 .. MaxSends
  <2>1. sends \in 0 .. MaxSends /\ MaxSends \in Nat
    BY <1>1, MessagesAssumption DEF TypeOK
  <2>2. QED
    BY <1>2, <2>1
<1>6. TypeOK' /\ ListenersSurvive' /\ NativeKept'
  BY <1>1, <1>2, <1>3, <1>5 DEF TypeOK, Typed, ListenersSurvive, NativeKept
<1>7. QED
  BY <1>3, <1>4, <1>6 DEF IInv

LEMMA SendSteps ==
  ASSUME IInv, NEW c \in Clients, NativeSends(c) \/ ForeignSends(c)
  PROVE  IInv'
<1>1. CASE NativeSends(c)
  <2>1. c \in Native
    BY <1>1 DEF NativeSends, IInv, TypeOK
  <2>2. to_json(build_peer_list_request) \in Payloads(c)
    BY <2>1 DEF Payloads, NativePayloads
  <2>3. ASSUME NEW t \in Clients, NEW d \in Descriptions
        PROVE  to_json(build_signal("connection_offer", t, d)) \in Payloads(c)
    <3>1. t \in Names /\ "connection_offer" \in Signals
      BY MessagesAssumption DEF Signals
    <3>2. QED
      BY <2>1, <3>1 DEF Payloads, NativePayloads
  <2>4. QED
    BY <1>1, <2>2, <2>3, UnpromptedStep DEF NativeSends
<1>2. CASE ForeignSends(c)
  BY <1>2, UnpromptedStep DEF ForeignSends, Payloads
<1>3. QED
  BY <1>1, <1>2

\* A native client takes a message; what it sends and records is its own business.
LEMMA ReadKeeps ==
  ASSUME IInv, NEW c \in Clients, Taken(c), NEW kind, NEW m \in Incoming(c, kind),
         acked' \subseteq Native, listening' = listening,
         \/ UNCHANGED <<toHub, sent>>
         \/ \E payload \in Payloads(c) : ToHub(c, payload),
         HandedTraced'
  PROVE  IInv'
<1>1. TypeOK /\ Recorded /\ InTransit /\ HandedTraced /\ ListenersSurvive /\ NativeKept
  BY DEF IInv
<1>2. Typed(toHub') /\ Recorded' /\ sent \subseteq sent'
  <2>1. CASE UNCHANGED <<toHub, sent>>
    BY <1>1, <2>1 DEF Typed, TypeOK, Recorded
  <2>2. CASE \E payload \in Payloads(c) : ToHub(c, payload)
    BY <1>1, <2>2, ToHubKeeps
  <2>3. QED
    BY <2>1, <2>2
<1>3. Grows
  BY <1>2 DEF Grows, Taken
<1>4. toClient[c] # <<>> /\ toClient' = [toClient EXCEPT ![c] = Tail(@)]
  BY DEF Incoming, Taken
<1>5. toClient' \in [Clients -> Seq(HubPayloads)] /\ InTransit'
  BY <1>1, <1>3, <1>4, TakenKeeps
<1>6. TypeOK' /\ ListenersSurvive' /\ NativeKept'
  BY <1>1, <1>2, <1>5 DEF TypeOK, Typed, Taken, ListenersSurvive, NativeKept
<1>7. QED
  BY <1>2, <1>5, <1>6 DEF IInv

\* What a native client takes is of the hub's make and can be traced.
LEMMA IncomingMade ==
  ASSUME IInv, NEW c \in Clients, Taken(c), NEW kind, NEW m \in Incoming(c, kind)
  PROVE  /\ c \in Native /\ m.type = kind
         /\ kind = "register_ack" => extract_register_ack(m) # {}
         /\ kind = "peer_list_response" => extract_peer_list(m) # {}
         /\ kind = "error" => extract_error(m) # {}
         /\ kind \in Signals => extract_forwarded_signal(m) # {}
         /\ kind = "connection_reject" => extract_forwarded_rejection(m) # {}
         /\ extract_forwarded_signal(m) \subseteq Names \X Descriptions
         /\ extract_forwarded_rejection(m) \subseteq Names \X Texts
         /\ \A w \in extract_forwarded_signal(m) \cup extract_forwarded_rejection(m) :
              Traced(c, kind, w[1], w[2])
<1>1. TypeOK /\ InTransit
  BY DEF IInv
<1>2. /\ toClient[c] # <<>> /\ m \in from_json(Head(toClient[c]))
      /\ c \in listening /\ m.type = kind
  BY DEF Incoming
<1>3. toClient[c] \in Seq(HubPayloads)
  BY <1>1 DEF TypeOK
<1>4. /\ Head(toClient[c]) \in HubPayloads /\ Head(toClient[c]) = toClient[c][1]
      /\ 1 \in 1 .. Len(toClient[c])
  <2>1. Head(toClient[c]) \in HubPayloads /\ Head(toClient[c]) = toClient[c][1]
    BY <1>2, <1>3, HeadTailProperties
  <2>2. Len(toClient[c]) \in Nat /\ Len(toClient[c]) # 0
    BY <1>2, <1>3, EmptySeq, LenProperties
  <2>3. QED
    BY <2>1, <2>2
<1>5. Traceable(c, Head(toClient[c]))
  BY <1>1, <1>4 DEF InTransit
<1>6. \A w \in extract_forwarded_signal(m) \cup extract_forwarded_rejection(m) :
        Traced(c, kind, w[1], w[2])
  BY <1>2, <1>5 DEF Traceable
<1>7. c \in Native
  BY <1>1, <1>2 DEF TypeOK
<1>8. QED
  BY <1>2, <1>4, <1>6, <1>7, HubMade

\* News are read, and the listener goes on.
LEMMA NewsStep ==
  ASSUME IInv, NEW c \in Clients, ReceiveAck(c) \/ ReceiveList(c) \/ ReceiveError(c)
  PROVE  IInv'
<1>1. PICK m, kind : /\ m \in Incoming(c, kind) /\ Taken(c)
                     /\ acked' \in {acked, acked \cup {c}} /\ listening' = listening
                     /\ UNCHANGED <<toHub, sent, handed>>
  <2>1. CASE ReceiveAck(c)
    BY <2>1, IncomingMade DEF ReceiveAck
  <2>2. CASE ReceiveList(c)
    BY <2>2, IncomingMade DEF ReceiveList
  <2>3. CASE ReceiveError(c)
    BY <2>3, IncomingMade DEF ReceiveError
  <2>4. QED
    BY <2>1, <2>2, <2>3
<1>2. c \in Native
  BY <1>1, IncomingMade
<1>3. acked' \subseteq Native
  BY <1>1, <1>2 DEF IInv, TypeOK
<1>4. Grows
  BY <1>1 DEF Grows, Taken
<1>5. HandedTraced'
  BY <1>1, <1>4, HandedKept DEF IInv
<1>6. QED
  BY <1>1, <1>3, <1>5, ReadKeeps

\* What is handed to c can be traced.
LEMMA HandsTraced ==
  ASSUME HandedTraced, Grows, NEW c, NEW m, NEW w, Hands(c, m, w),
         Traced(c, m.type, w[1], w[2])
  PROVE  HandedTraced'
<1>1. handed' = handed \cup {<<c, m.type, w[1], w[2]>>}
  BY DEF Hands
<1>2. ASSUME NEW h \in handed'
      PROVE  Traced(h[1], h[2], h[3], h[4])
  <2>1. CASE h \in handed
    BY <2>1 DEF HandedTraced
  <2>2. CASE h = <<c, m.type, w[1], w[2]>>
    BY <2>2
  <2>3. QED
    BY <1>1, <1>2, <2>1, <2>2
<1>3. QED
  BY <1>2, TracedKept DEF HandedTraced

LEMMA HandStep ==
  ASSUME IInv, NEW c \in Clients, ReceiveOffer(c) \/ ReceiveAnswer(c) \/ ReceiveReject(c)
  PROVE  IInv'
<1>1. PICK m, kind, w :
        /\ m \in Incoming(c, kind) /\ Taken(c) /\ Hands(c, m, w) /\ acked' = acked
        /\ w \in extract_forwarded_signal(m) \cup extract_forwarded_rejection(m)
        /\ \/ UNCHANGED <<toHub, sent>>
           \/ \E payload \in Payloads(c) : ToHub(c, payload)
  <2>1. CASE ReceiveOffer(c)
    <3>0. PICK m \in Incoming(c, "connection_offer") :
            /\ Taken(c) /\ extract_forwarded_signal(m) # {}
            /\ \/ extract_forwarded_signal(m) = {}
               \/ \E w \in extract_forwarded_signal(m) :
                    /\ Hands(c, m, w) /\ acked' = acked
                    /\ \/ \E d \in Descriptions :
                            ToHub(c, to_json(build_signal("connection_answer", w[1], d)))
                       \/ \E reason \in {"", "text"} :
                            ToHub(c, to_json(build_connection_reject(w[1], reason)))
      BY <2>1, IncomingMade DEF ReceiveOffer, Signals
    <3>1. PICK w \in extract_forwarded_signal(m) :
            /\ Taken(c) /\ Hands(c, m, w) /\ acked' = acked
            /\ \/ \E d \in Descriptions :
                    ToHub(c, to_json(build_signal("connection_answer", w[1], d)))
               \/ \E reason \in {"", "text"} :
                    ToHub(c, to_json(build_connection_reject(w[1], reason)))
      BY <3>0
    <3>2. c \in Native /\ extract_forwarded_signal(m) \subseteq Names \X Descriptions
      BY <3>1, IncomingMade
    <3>3. w[1] \in Names /\ "connection_answer" \in Signals /\ {"", "text"} \subseteq Texts
      <4>1. w \in Names \X Descriptions
        BY <3>2
      <4>2. QED
        BY <4>1, MessagesAssumption DEF Signals
    <3>4. /\ \A d \in Descriptions :
               to_json(build_signal("connection_answer", w[1], d)) \in Payloads(c)
          /\ \A reason \in {"", "text"} :
               to_json(build_connection_reject(w[1], reason)) \in Payloads(c)
      <4>1. ASSUME NEW kind \in Signals, NEW t \in Names, NEW d \in Descriptions
            PROVE  to_json(build_signal(kind, t, d)) \in Payloads(c)
        BY <3>2 DEF Payloads, NativePayloads
      <4>2. ASSUME NEW t \in Names, NEW reason \in Texts
            PROVE  to_json(build_connection_reject(t, reason)) \in Payloads(c)
        BY <3>2 DEF Payloads, NativePayloads
      <4>3. QED
        BY <3>3, <4>1, <4>2
    <3>5. \E payload \in Payloads(c) : ToHub(c, payload)
      BY <3>1, <3>4
    <3>6. QED
      BY <3>1, <3>5
  <2>2. CASE ReceiveAnswer(c)
    BY <2>2, IncomingMade DEF ReceiveAnswer, Signals
  <2>3. CASE ReceiveReject(c)
    BY <2>3, IncomingMade DEF ReceiveReject
  <2>4. QED
    BY <2>1, <2>2, <2>3
<1>2. Traced(c, m.type, w[1], w[2])
  BY <1>1, IncomingMade
<1>3. Grows
  <2>1. sent \subseteq sent'
    BY <1>1 DEF ToHub
  <2>2. QED
    BY <1>1, <2>1 DEF Grows, Taken
<1>4. HandedTraced'
  BY <1>1, <1>2, <1>3, HandsTraced DEF IInv
<1>5. acked' \subseteq Native /\ listening' = listening
  BY <1>1 DEF IInv, TypeOK, Hands
<1>6. QED
  BY <1>1, <1>4, <1>5, ReadKeeps

LEMMA ClientSteps ==
  ASSUME IInv, NEW c \in Clients, ClientStep(c)
  PROVE  IInv'
BY SendSteps, NewsStep, HandStep DEF ClientStep

LEMMA Stutter ==
  ASSUME IInv, UNCHANGED vars
  PROVE  IInv'
<1>1. name' = name /\ sent' = sent /\ handed' = handed /\ toHub' = toHub /\ toClient' = toClient
  BY DEF vars
<1>2. TypeOK' /\ Recorded' /\ ListenersSurvive' /\ NativeKept'
  BY DEF vars, IInv, TypeOK, Recorded, ListenersSurvive, NativeKept
<1>3. InTransit' /\ HandedTraced'
  <2>1. Grows /\ Delivers
    BY <1>1 DEF Grows, Delivers, IInv, TypeOK
  <2>2. QED
    BY <1>1, <2>1, DeliveredKeeps, HandedKept DEF IInv
<1>4. QED
  BY <1>2, <1>3 DEF IInv

-----------------------------------------------------------------------------
LEMMA InitIInv == Init => IInv
<1> SUFFICES ASSUME Init
             PROVE  IInv
  OBVIOUS
<1>1. ASSUME NEW c \in Clients
      PROVE  /\ toHub[c] \in Seq(Payloads(c))
             /\ \A i \in 1 .. Len(toHub[c]) : <<c, toHub[c][i]>> \in sent
  <2>1. CASE c \in Native
    <3>1. toHub[c] = <<to_json(build_register(c))>>
      BY <2>1 DEF Init
    <3>2. to_json(build_register(c)) \in Payloads(c)
      BY <2>1 DEF Payloads, NativePayloads
    <3>3. toHub[c] \in Seq(Payloads(c)) /\ Len(toHub[c]) = 1
          /\ toHub[c][1] = to_json(build_register(c))
      BY <3>1, <3>2
    <3>4. <<c, to_json(build_register(c))>> \in sent
      BY <2>1 DEF Init
    <3>5. QED
      BY <3>3, <3>4
  <2>2. CASE c \notin Native
    BY <2>2 DEF Init
  <2>3. QED
    BY <2>1, <2>2
<1>2. TypeOK
  <2>1. /\ name \in [Clients -> Names \cup {NoName}]
        /\ endpoint \in [Clients -> {"running", "refused", "raised"}]
        /\ acked \subseteq Native /\ listening \subseteq Native
        /\ DOMAIN toHub = Clients
    BY DEF Init
  <2>2. toClient \in [Clients -> Seq(HubPayloads)]
    BY DEF Init
  <2>3. sends \in 0 .. MaxSends
    <3>1. sends = 0 /\ MaxSends \in Nat
      BY MessagesAssumption DEF Init
    <3>2. QED
      BY <3>1
  <2>4. QED
    BY <1>1, <2>1, <2>2, <2>3 DEF TypeOK
<1>3. Recorded
  BY <1>1 DEF Recorded
<1>4. InTransit /\ HandedTraced
  BY DEF Init, InTransit, HandedTraced
<1>5. ListenersSurvive /\ NativeKept
  BY MessagesAssumption DEF Init, ListenersSurvive, NativeKept
<1>6. QED
  BY <1>2, <1>3, <1>4, <1>5 DEF IInv

LEMMA StepIInv == IInv /\ [Next]_vars => IInv'
<1> SUFFICES ASSUME IInv, [Next]_vars
             PROVE  IInv'
  OBVIOUS
<1>1. CASE \E c \in Clients : HubStep(c) \/ ClientStep(c)
  BY <1>1, HubSteps, ClientSteps
<1>2. CASE Quiet \/ UNCHANGED vars
  BY <1>2, Stutter DEF Quiet
<1>3. QED
  BY <1>1, <1>2 DEF Next

LEMMA Invariant == Spec => []IInv
BY InitIInv, StepIInv, PTL DEF Spec

\* Whatever clients of another make send, every queue holds only what the code
\* at its other end makes (build_*), and ids are set and not empty.
THEOREM TypeCorrect == Spec => []TypeOK
<1>1. IInv => TypeOK
  BY DEF IInv
<1>2. QED
  BY Invariant, <1>1, PTL

\* No message raises in the listener of a native client, which stays up.
THEOREM ListenersStay == Spec => []ListenersSurvive
<1>1. IInv => ListenersSurvive
  BY DEF IInv
<1>2. QED
  BY Invariant, <1>1, PTL

\* No message of a native client raises at the hub, which keeps it registered.
THEOREM RegistrationStays == Spec => []NativeKept
<1>1. IInv => NativeKept
  BY DEF IInv
<1>2. QED
  BY Invariant, <1>1, PTL

\* What a listener is handed under the name of a source, the client of that
\* name has sent to it; or it is the hub's rejection of a signal of its own.
THEOREM Provenance == Spec => []HandedWasSent
<1>1. IInv => HandedWasSent
  <2>1. ASSUME NEW c, NEW kind, NEW source, NEW content, Traced(c, kind, source, content)
        PROVE  WasSent(c, kind, source, content)
    BY <2>1 DEF Traced, WasSent
  <2>2. QED
    BY <2>1 DEF IInv, HandedTraced, HandedWasSent
<1>2. QED
  BY Invariant, <1>1, PTL
=============================================================================

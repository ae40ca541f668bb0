----------------------------- MODULE MCMessages -----------------------------
(***************************************************************************)
(* Messages on a small instance, for TLC, with the payloads that a client  *)
(* of another make may send: each kind with each of its fields missing,    *)
(* null, of the wrong type, empty or right.                                *)
(***************************************************************************)
EXTENDS Messages

\* Data with any of these values for one field, or without it.
With(data, key, values) == {data} \cup {[data EXCEPT ![key] = v] : v \in values}
Without(data, key) == [k \in DOMAIN data \ {key} |-> data[k]]

\* The ids, the empty string, and one more.
SomeTexts == Clients \cup {"", "text"}

Wrong == {Null, Number, Str("")}

Data(id, d) ==
  LET signal == [target_id |-> Str(id), description |-> Obj(d)]
      reject == [target_id |-> Str(id), reason |-> Str("text")]
  IN  [connection_offer  |-> With(signal, "target_id", Wrong)
                               \cup {Without(signal, "description"),
                                     [signal EXCEPT !.description = Str("")]},
       connection_answer |-> With(signal, "description", {Null, Number}),
       connection_reject |-> With(reject, "reason", Wrong)
                               \cup {Without(reject, "reason"), Without(reject, "target_id")},
       register          |-> With([peer_id |-> Str(id), metadata |-> Obj("")], "peer_id", Wrong)
                               \cup {[peer_id |-> Str(id), metadata |-> Number],
                                     [peer_id |-> Str(id)]}]

ForeignPayloads ==
  {Number, Obj(<<>>), Obj([type |-> Number]), Obj([type |-> Str("text")]),
   Obj([type |-> Str("connection_offer"), data |-> Number]),
   Obj([type |-> Str("peer_list_request")]), Obj([type |-> Str("connection_offer")]),
   Obj([type |-> Str("error"), data |-> Obj(<<>>)])}
    \cup UNION {UNION {{Obj([type |-> Str(kind), data |-> Obj(o)]) : o \in Data(id, d)[kind]} :
                         kind \in DOMAIN Data(id, d)} :
                  id \in Clients, d \in Descriptions}
=============================================================================

------------------------- MODULE JobDispatchProofs --------------------------
(***************************************************************************)
(* Theorems about JobDispatch, for any targets, dispatches and connections.*)
(*                                                                         *)
(* A report is true because job ids grow: whatever an earlier attempt has  *)
(* left on a connection carries a smaller id than the job of this one.     *)
(***************************************************************************)
EXTENDS JobDispatch, SequenceTheorems, TLAPS

\* The loop has a connection and waits for its target.
Trial == {"sending", "waiting"}

\* What a target sends back.
Replies == [type : {"ok", "failed"}, job : Nat] \cup [type : {"error"}]

\* What a connection holds is of jobs up to n.
Old(c, n) ==
  /\ \A i \in 1 .. Len(c.asked) : c.asked[i] <= n
  /\ \A i \in 1 .. Len(c.incoming) : c.incoming[i].type # "error" => c.incoming[i].job <= n

\* Only t was asked for job n.
Sent(c, n, t) == \A i \in 1 .. Len(c.asked) : c.asked[i] = n => c.with = t

\* A success of job n waits to be taken.
Claims(c, n) ==
  \E i \in 1 .. Len(c.incoming) : c.incoming[i].type = "ok" /\ c.incoming[i].job = n

\* No queue holds more than is known of the current job: it is the latest, only
\* its target was asked for it, and a success of it says that it was run.
JobsKnown ==
  \A k \in 1 .. Len(conns) :
    /\ Old(conns[k], job)
    /\ loop \in Trial => Sent(conns[k], job, target)
    /\ loop \in Trial /\ Claims(conns[k], job) => ran

\* What is known of the outcomes at each step of the loop.
Outcomes ==
  /\ loop \notin {"idle", "stopped"} => report = "nothing"
  /\ loop \notin {"idle", "closing", "stopped"} => \A t \in Targets : tried[t] # "ok"
  /\ loop = "closing" =>
       /\ tried[target] = result
       /\ \A t \in Targets \ {target} : tried[t] # "ok"
       /\ result = "ok" => ran

\* The connection of the attempt, and which connections are older than it.
Connections ==
  /\ existing <= mark
  /\ loop = "connecting" => peers[target] \in {NoConn, existing} \/ peers[target] > mark
  /\ loop \in Trial \cup {"closing"} =>
       /\ peer # NoConn
       /\ conns[peer].with = target
       /\ peer = existing \/ peer > mark
  /\ loop = "closing" => peer # existing
  /\ \A k \in fresh : conns[k].life = "up" =>
       loop \in Trial \cup {"closing"} /\ k = peer /\ k > mark

\* The inductive invariant.
IInv == TypeOK /\ JobsKnown /\ Outcomes /\ Connections /\ ReportIsTrue /\ GivesUpHonestly

-----------------------------------------------------------------------------
(***************************************************************************)
(* What happens to one connection.                                         *)
(***************************************************************************)
\* d is c after a step.
Keeps(c, d, n, t) ==
  /\ d \in Conn
  /\ d.with = c.with
  /\ d.life = "up" => c.life = "up"
  /\ Old(c, n) => Old(d, n)
  /\ Sent(c, n, t) => Sent(d, n, t)

\* A connection breaks, opens or is closed, and loses nothing or everything.
LEMMA Relabelled ==
  ASSUME NEW c \in Conn, NEW d \in Conn, NEW n, NEW t,
         d.with = c.with, d.life = "up" => c.life = "up", d.asked = c.asked,
         d.incoming \in {c.incoming, <<>>}
  PROVE  Keeps(c, d, n, t) /\ (Claims(d, n) => Claims(c, n))
<1>1. Len(<<>>) = 0
  OBVIOUS
<1>2. QED
  BY <1>1 DEF Keeps, Old, Sent, Claims

\* A message is taken.
LEMMA Taken ==
  ASSUME NEW c \in Conn, NEW d, NEW n, NEW t, c.incoming # <<>>,
         d = [c EXCEPT !.incoming = Tail(@)]
  PROVE  Keeps(c, d, n, t) /\ (Claims(d, n) => Claims(c, n))
<1>1. c.incoming \in Seq(Replies)
  BY DEF Conn, Replies
<1>2. /\ Tail(c.incoming) \in Seq(Replies)
      /\ Len(Tail(c.incoming)) = Len(c.incoming) - 1
      /\ \A i \in 1 .. Len(Tail(c.incoming)) : Tail(c.incoming)[i] = c.incoming[i + 1]
  BY <1>1, HeadTailProperties
<1>3. Len(c.incoming) \in Nat
  BY <1>1
<1>4. d \in Conn /\ d.incoming = Tail(c.incoming) /\ d.asked = c.asked
      /\ d.with = c.with /\ d.life = c.life
  BY <1>2 DEF Conn, Replies
<1>5. \A i \in 1 .. Len(d.incoming) :
        i + 1 \in 1 .. Len(c.incoming) /\ d.incoming[i] = c.incoming[i + 1]
  BY <1>2, <1>3, <1>4
<1>6. Old(c, n) => Old(d, n)
  BY <1>4, <1>5 DEF Old
<1>7. Claims(d, n) => Claims(c, n)
  BY <1>5 DEF Claims
<1>8. QED
  BY <1>4, <1>6, <1>7 DEF Keeps, Sent

\* The current job is submitted.
LEMMA Asked ==
  ASSUME NEW c \in Conn, NEW d, NEW n \in Nat, d = [c EXCEPT !.asked = Append(@, n)]
  PROVE  Keeps(c, d, n, c.with) /\ (Claims(d, n) => Claims(c, n))
<1>1. c.asked \in Seq(Nat)
  BY DEF Conn
<1>2. /\ Append(c.asked, n) \in Seq(Nat)
      /\ Len(Append(c.asked, n)) = Len(c.asked) + 1
      /\ \A i \in 1 .. Len(c.asked) : Append(c.asked, n)[i] = c.asked[i]
      /\ Append(c.asked, n)[Len(c.asked) + 1] = n
  BY <1>1, AppendProperties
<1>3. \A i \in 1 .. Len(Append(c.asked, n)) :
        \/ i \in 1 .. Len(c.asked) /\ Append(c.asked, n)[i] = c.asked[i]
        \/ Append(c.asked, n)[i] = n
  BY <1>1, <1>2
<1>4. d \in Conn /\ d.asked = Append(c.asked, n) /\ d.incoming = c.incoming
      /\ d.with = c.with /\ d.life = c.life
  BY <1>2 DEF Conn
<1>5. Old(c, n) => Old(d, n)
  BY <1>3, <1>4 DEF Old
<1>6. Sent(c, n, c.with) => Sent(d, n, c.with)
  BY <1>3, <1>4 DEF Sent
<1>7. QED
  BY <1>4, <1>5, <1>6 DEF Keeps, Claims

\* A job is run and answered, with ms.
IsAnswered(c, d, ms) ==
  d = [c EXCEPT !.asked = Tail(@), !.incoming = IF c.life = "up" THEN @ \o ms ELSE @]

\* The target sends the results of the oldest job, or nothing.
LEMMA Answered ==
  ASSUME NEW c \in Conn, NEW d, NEW n \in Nat, NEW t, c.asked # <<>>, NEW ms \in Seq(Replies),
         \A i \in 1 .. Len(ms) : ms[i].type # "error" => ms[i].job = Head(c.asked),
         IsAnswered(c, d, ms)
  PROVE  /\ Keeps(c, d, n, t)
         /\ Claims(d, n) =>
              \/ Claims(c, n)
              \/ Head(c.asked) = n /\ \E i \in 1 .. Len(ms) : ms[i].type = "ok"
         /\ Head(c.asked) = n /\ Sent(c, n, t) => c.with = t
<1>1. c.asked \in Seq(Nat) /\ c.incoming \in Seq(Replies)
  BY DEF Conn, Replies
<1>2. /\ Tail(c.asked) \in Seq(Nat)
      /\ Len(Tail(c.asked)) = Len(c.asked) - 1
      /\ \A i \in 1 .. Len(Tail(c.asked)) : Tail(c.asked)[i] = c.asked[i + 1]
  BY <1>1, HeadTailProperties
<1>3. /\ c.incoming \o ms \in Seq(Replies)
      /\ Len(c.incoming \o ms) = Len(c.incoming) + Len(ms)
      /\ \A i \in 1 .. Len(c.incoming) + Len(ms) : (c.incoming \o ms)[i] =
            IF i <= Len(c.incoming) THEN c.incoming[i] ELSE ms[i - Len(c.incoming)]
  BY <1>1, ConcatProperties
<1>4. Len(c.asked) \in Nat /\ Len(c.asked) >= 1 /\ Head(c.asked) = c.asked[1]
  BY <1>1
<1>5. \A i \in 1 .. Len(d.asked) : \E k \in 1 .. Len(c.asked) : d.asked[i] = c.asked[k]
  <2>1. d.asked = Tail(c.asked)
    BY DEF Conn, IsAnswered
  <2>2. \A i \in 1 .. Len(d.asked) :
          i + 1 \in 1 .. Len(c.asked) /\ d.asked[i] = c.asked[i + 1]
    BY <1>2, <1>4, <2>1
  <2>3. QED
    BY <2>2
<1>6. \A i \in 1 .. Len(d.incoming) :
        \/ \E k \in 1 .. Len(c.incoming) : d.incoming[i] = c.incoming[k]
        \/ \E k \in 1 .. Len(ms) : d.incoming[i] = ms[k]
  <2>1. Len(c.incoming) \in Nat /\ Len(ms) \in Nat
    BY <1>1
  <2>2. CASE c.life = "up"
    <3>1. d.incoming = c.incoming \o ms
      BY <2>2 DEF Conn, IsAnswered
    <3>2. TAKE i \in 1 .. Len(d.incoming)
    <3>3. CASE i <= Len(c.incoming)
      BY <1>3, <2>1, <3>1, <3>3
    <3>4. CASE ~(i <= Len(c.incoming))
      <4>1. i - Len(c.incoming) \in 1 .. Len(ms) /\ d.incoming[i] = ms[i - Len(c.incoming)]
        BY <1>3, <2>1, <3>1, <3>4
      <4>2. QED
        BY <4>1
    <3>5. QED
      BY <3>3, <3>4
  <2>3. CASE c.life # "up"
    BY <2>3 DEF Conn, IsAnswered
  <2>4. QED
    BY <2>2, <2>3
<1>7. d \in Conn
  BY <1>1, <1>2, <1>3 DEF Conn, Replies, IsAnswered
<1>8. d.with = c.with /\ d.life = c.life
  BY DEF Conn, IsAnswered
<1>9. 1 \in 1 .. Len(c.asked)
  BY <1>4
<1>10. Old(c, n) => Old(d, n)
  <2>1. SUFFICES ASSUME Old(c, n) PROVE Old(d, n)
    OBVIOUS
  <2>2. Head(c.asked) <= n
    BY <1>4, <1>9, <2>1 DEF Old
  <2>3. \A i \in 1 .. Len(d.asked) : d.asked[i] <= n
    BY <1>5, <2>1 DEF Old
  <2>4. \A i \in 1 .. Len(d.incoming) :
          d.incoming[i].type # "error" => d.incoming[i].job <= n
    <3> TAKE i \in 1 .. Len(d.incoming)
    <3>1. CASE \E k \in 1 .. Len(c.incoming) : d.incoming[i] = c.incoming[k]
      BY <2>1, <3>1 DEF Old
    <3>2. CASE \E k \in 1 .. Len(ms) : d.incoming[i] = ms[k]
      BY <2>2, <3>2
    <3>3. QED
      BY <1>6, <3>1, <3>2
  <2>5. QED
    BY <2>3, <2>4 DEF Old
<1>11. Sent(c, n, t) => Sent(d, n, t)
  BY <1>5, <1>8 DEF Sent
<1>12. Claims(d, n) =>
         \/ Claims(c, n)
         \/ Head(c.asked) = n /\ \E i \in 1 .. Len(ms) : ms[i].type = "ok"
  BY <1>6 DEF Claims
<1>13. QED
  BY <1>4, <1>7, <1>8, <1>9, <1>10, <1>11, <1>12 DEF Keeps, Sent

-----------------------------------------------------------------------------
(***************************************************************************)
(* What happens to the connections in a step.                              *)
(***************************************************************************)
\* Old connections keep what is known of them, new ones are empty.
ConnsStep ==
  /\ conns' \in Seq(Conn)
  /\ Len(conns) <= Len(conns')
  /\ \A k \in 1 .. Len(conns) :
       /\ Keeps(conns[k], conns'[k], job, target)
       /\ Claims(conns'[k], job) =>
            Claims(conns[k], job) \/ ~Sent(conns[k], job, target) \/ ran'
  /\ \A k \in 1 .. Len(conns') :
       k > Len(conns) => conns'[k].asked = <<>> /\ conns'[k].incoming = <<>>

\* The connections are a sequence of connections.
LEMMA ConnsTyped ==
  TypeOK => /\ conns \in Seq(Conn) /\ Len(conns) \in Nat /\ DOMAIN conns = 1 .. Len(conns)
            /\ \A k \in 1 .. Len(conns) : conns[k] \in Conn
<1>1. TypeOK => conns \in Seq(Conn)
  BY DEF TypeOK
<1>2. ASSUME conns \in Seq(Conn)
      PROVE  /\ Len(conns) \in Nat /\ DOMAIN conns = 1 .. Len(conns)
             /\ \A k \in 1 .. Len(conns) : conns[k] \in Conn
  BY <1>2
<1>3. QED
  BY <1>1, <1>2

\* No connection changes.
LEMMA NoConnChanges ==
  ASSUME TypeOK, UNCHANGED conns
  PROVE  ConnsStep
<1>1. conns \in Seq(Conn) /\ Len(conns) \in Nat /\ \A k \in 1 .. Len(conns) : conns[k] \in Conn
  BY ConnsTyped
<1>2. \A k \in 1 .. Len(conns) : Keeps(conns[k], conns[k], job, target)
  BY <1>1 DEF Keeps
<1>3. QED
  BY <1>1, <1>2 DEF ConnsStep

\* One connection changes.
Changes(k, d) ==
  /\ conns' = [conns EXCEPT ![k] = d]
  /\ Keeps(conns[k], d, job, target)
  /\ Claims(d, job) => Claims(conns[k], job) \/ ~Sent(conns[k], job, target) \/ ran'

\* The others stay what they are.
LEMMA OneConnChanges ==
  ASSUME TypeOK, NEW k \in 1 .. Len(conns), NEW d, Changes(k, d)
  PROVE  ConnsStep
<1>1. conns \in Seq(Conn) /\ Len(conns) \in Nat /\ d \in Conn
      /\ \A l \in 1 .. Len(conns) : conns[l] \in Conn
  BY ConnsTyped DEF Changes, Keeps
<1>2. /\ conns' \in Seq(Conn)
      /\ Len(conns') = Len(conns)
      /\ \A l \in 1 .. Len(conns) : conns'[l] = IF l = k THEN d ELSE conns[l]
  BY <1>1, ExceptSeq DEF Changes
<1>3. \A l \in 1 .. Len(conns) : Keeps(conns[l], conns[l], job, target)
  BY <1>1 DEF Keeps
<1>4. QED
  BY <1>1, <1>2, <1>3 DEF ConnsStep, Changes

\* One connection is made.
LEMMA ConnAppears ==
  ASSUME TypeOK, NEW d \in Conn, d.asked = <<>>, d.incoming = <<>>,
         conns' = Append(conns, d)
  PROVE  ConnsStep /\ Len(conns') = Len(conns) + 1 /\ conns'[Len(conns) + 1] = d
<1>1. /\ conns \in Seq(Conn) /\ Len(conns) \in Nat
      /\ \A l \in 1 .. Len(conns) : conns[l] \in Conn
  BY ConnsTyped
<1>2. /\ conns' \in Seq(Conn)
      /\ Len(conns') = Len(conns) + 1
      /\ \A l \in 1 .. Len(conns) : conns'[l] = conns[l]
      /\ conns'[Len(conns) + 1] = d
  BY <1>1, AppendProperties
<1>3. \A l \in 1 .. Len(conns) : Keeps(conns[l], conns[l], job, target)
  BY <1>1 DEF Keeps
<1>4. QED
  BY <1>1, <1>2, <1>3 DEF ConnsStep

\* What the queues hold stays true of the current job.
LEMMA JobsKept ==
  ASSUME TypeOK, JobsKnown, ConnsStep,
         \/ /\ UNCHANGED <<job, target>> /\ (ran => ran')
            /\ (loop' \in Trial => loop \in Trial)
         \/ job' = job + 1
         \/ UNCHANGED job /\ loop' \notin Trial
  PROVE  JobsKnown'
<1>1. job \in Nat /\ Len(conns) \in Nat /\ Len(conns') \in Nat /\ Len(<<>>) = 0
  <2>1. job \in Nat /\ conns' \in Seq(Conn)
    BY DEF TypeOK, ConnsStep
  <2>2. QED
    BY <2>1, ConnsTyped
<1>2. SUFFICES ASSUME NEW k \in 1 .. Len(conns')
               PROVE  /\ Old(conns'[k], job')
                      /\ loop' \in Trial => Sent(conns'[k], job', target')
                      /\ loop' \in Trial /\ Claims(conns'[k], job') => ran'
  BY DEF JobsKnown
<1>3. CASE k > Len(conns)
  BY <1>1, <1>3 DEF ConnsStep, Old, Sent, Claims
<1>4. CASE k \in 1 .. Len(conns)
  <2>1. conns'[k] \in Conn /\ Old(conns'[k], job)
    BY <1>4 DEF ConnsStep, Keeps, JobsKnown
  <2>2. CASE UNCHANGED <<job, target>> /\ (ran => ran') /\ (loop' \in Trial => loop \in Trial)
    BY <1>4, <2>1, <2>2 DEF ConnsStep, Keeps, JobsKnown
  <2>3. CASE job' = job + 1
    <3>1. conns'[k].asked \in Seq(Nat) /\ conns'[k].incoming \in Seq(Replies)
      BY <2>1 DEF Conn, Replies
    <3>2. /\ \A i \in 1 .. Len(conns'[k].asked) : conns'[k].asked[i] \in Nat
          /\ \A i \in 1 .. Len(conns'[k].incoming) :
               conns'[k].incoming[i].type # "error" => conns'[k].incoming[i].job \in Nat
      BY <3>1 DEF Replies
    <3>3. Old(conns'[k], job + 1)
      BY <1>1, <2>1, <3>2 DEF Old
    <3>4. Sent(conns'[k], job + 1, target') /\ ~Claims(conns'[k], job + 1)
      BY <1>1, <2>1, <3>2 DEF Old, Sent, Claims
    <3>5. QED
      BY <2>3, <3>3, <3>4
  <2>4. CASE UNCHANGED job /\ loop' \notin Trial
    BY <2>1, <2>4
  <2>5. QED
    BY <2>2, <2>3, <2>4
<1>5. QED
  BY <1>1, <1>3, <1>4

-----------------------------------------------------------------------------
(***************************************************************************)
(* The steps, by what they do to the loop.                                 *)
(***************************************************************************)
\* The rest of the node and the targets move: the loop does not.
WorldStep ==
  /\ UNCHANGED dispatchVars
  /\ ran' \in BOOLEAN /\ (ran => ran')
  /\ \A t \in Targets :
       \/ peers'[t] \in {peers[t], NoConn}
       \/ peers'[t] \in Len(conns) + 1 .. Len(conns') /\ conns'[peers'[t]].with = t
  /\ peers' \in [Targets -> Nat]

\* The attempt ends with r.
Ends(r) ==
  /\ loop \in Trial /\ r \in Failures \cup {"ok"} /\ (r = "ok" => ran)
  /\ UNCHANGED <<ran, peers, todo, attempt, peer, job, fresh, dispatches>>
  /\ Finally(r)

\* Connections that come, open or break claim nothing new.
LEMMA WorldConns ==
  ASSUME TypeOK, \/ Dial \/ DropExisting
                 \/ \E t \in Targets : TargetCalls(t) \/ Uncached(t)
                 \/ \E k \in DOMAIN conns : Open(k) \/ Break(k)
  PROVE  ConnsStep /\ WorldStep
<1>t. /\ conns \in Seq(Conn) /\ Len(conns) \in Nat /\ DOMAIN conns = 1 .. Len(conns)
      /\ \A k \in 1 .. Len(conns) : conns[k] \in Conn
  BY ConnsTyped
<1>p. peers \in [Targets -> 0 .. Len(conns)] /\ target \in Targets /\ ran \in BOOLEAN
  BY DEF TypeOK
<1>n. peers \in [Targets -> Nat]
  BY <1>t, <1>p
<1>1. ASSUME NEW t \in Targets, NEW channel \in {"none", "connecting"}, Appears(t, channel)
      PROVE  ConnsStep /\ WorldStep
  <2>1. PICK d \in Conn : /\ d.asked = <<>> /\ d.incoming = <<>> /\ d.with = t
                          /\ conns' = Append(conns, d)
    <3>1. [with |-> t, life |-> "up", channel |-> channel,
           incoming |-> <<>>, asked |-> <<>>] \in Conn
      BY DEF Conn
    <3>2. QED
      BY <1>1, <3>1 DEF Appears
  <2>2. ConnsStep /\ Len(conns') = Len(conns) + 1 /\ conns'[Len(conns) + 1].with = t
    BY <2>1, ConnAppears
  <2>3. peers' = [peers EXCEPT ![t] = Len(conns) + 1] /\ UNCHANGED <<dispatchVars, ran>>
    BY <1>1 DEF Appears
  <2>4. WorldStep
    BY <1>t, <1>p, <1>n, <2>2, <2>3 DEF WorldStep
  <2>5. QED
    BY <2>2, <2>4
<1>2. CASE Dial
  BY <1>1, <1>2, <1>p DEF Dial
<1>3. CASE \E t \in Targets : TargetCalls(t)
  BY <1>1, <1>3 DEF TargetCalls
<1>4. CASE \E t \in Targets : Uncached(t)
  <2>1. ConnsStep
    BY <1>4, NoConnChanges DEF Uncached
  <2>2. WorldStep
    BY <1>4, <1>p, <1>n DEF Uncached, WorldStep, NoConn
  <2>3. QED
    BY <2>1, <2>2
<1>5. CASE \E k \in DOMAIN conns : Open(k) \/ Break(k)
  <2>1. PICK k \in 1 .. Len(conns) : Open(k) \/ Break(k)
    BY <1>t, <1>5
  <2>2. ASSUME Open(k) PROVE ConnsStep
    <3>1. PICK d : d = [conns[k] EXCEPT !.channel = "open"] /\ conns' = [conns EXCEPT ![k] = d]
      BY <2>2 DEF Open
    <3>2. /\ d \in Conn /\ d.with = conns[k].with /\ d.asked = conns[k].asked
          /\ d.incoming = conns[k].incoming /\ d.life = conns[k].life
      BY <1>t, <3>1 DEF Conn
    <3>3. Changes(k, d)
      BY <1>t, <3>1, <3>2, Relabelled DEF Changes
    <3>4. QED
      BY <2>1, <3>3, OneConnChanges
  <2>3. ASSUME Break(k) PROVE ConnsStep
    <3>1. PICK channel \in {"none", "closed"} :
            conns' = [conns EXCEPT ![k] = [conns[k] EXCEPT !.life = "down", !.channel = channel]]
      <4>1. CASE conns[k].channel = "none"
        BY <2>3, <4>1 DEF Break
      <4>2. CASE conns[k].channel # "none"
        BY <2>3, <4>2 DEF Break
      <4>3. QED
        BY <4>1, <4>2
    <3>2. PICK d : /\ d = [conns[k] EXCEPT !.life = "down", !.channel = channel]
                   /\ conns' = [conns EXCEPT ![k] = d]
      BY <3>1
    <3>3. /\ d \in Conn /\ d.with = conns[k].with /\ d.asked = conns[k].asked
          /\ d.incoming = conns[k].incoming /\ d.life = "down"
      BY <1>t, <3>2 DEF Conn
    <3>4. Changes(k, d)
      BY <1>t, <3>2, <3>3, Relabelled DEF Changes
    <3>5. QED
      BY <2>1, <3>4, OneConnChanges
  <2>6. ConnsStep
    BY <2>1, <2>2, <2>3
  <2>7. WorldStep
    BY <1>p, <1>n, <2>1 DEF WorldStep, Open, Break
  <2>8. QED
    BY <2>6, <2>7
<1>6. CASE DropExisting
  <2>1. existing \in 1 .. Len(conns)
    <3>1. existing \in 0 .. Len(conns) /\ existing # 0
      BY <1>6 DEF DropExisting, NoConn, TypeOK
    <3>2. QED
      BY <1>t, <3>1
  <2>2. PICK d : /\ d = [conns[existing] EXCEPT !.life = "closed", !.channel = "closed",
                                                !.incoming = <<>>]
                 /\ conns' = [conns EXCEPT ![existing] = d]
    BY <1>6 DEF DropExisting
  <2>3. /\ d \in Conn /\ d.with = conns[existing].with /\ d.life = "closed"
        /\ d.asked = conns[existing].asked /\ d.incoming = <<>>
    <3>1. <<>> \in Seq(Replies)
      OBVIOUS
    <3>2. QED
      BY <1>t, <2>1, <2>2, <3>1 DEF Conn, Replies
  <2>4. Changes(existing, d)
    BY <1>t, <2>1, <2>2, <2>3, Relabelled DEF Changes
  <2>5. ConnsStep
    BY <2>1, <2>4, OneConnChanges
  <2>6. WorldStep
    BY <1>6, <1>p, <1>n DEF DropExisting, WorldStep, dispatchVars
  <2>7. QED
    BY <2>5, <2>6
<1>7. QED
  BY <1>2, <1>3, <1>4, <1>5, <1>6

\* A target answers what it was asked: a success of the current job sets ran.
LEMMA ServeConns ==
  ASSUME TypeOK, NEW k \in DOMAIN conns, Serve(k)
  PROVE  ConnsStep /\ WorldStep
<1>t. /\ conns \in Seq(Conn) /\ Len(conns) \in Nat /\ k \in 1 .. Len(conns)
      /\ conns[k] \in Conn
  BY ConnsTyped
<1>p. /\ peers \in [Targets -> 0 .. Len(conns)] /\ ran \in BOOLEAN /\ job \in Nat
  BY DEF TypeOK
<1>n. peers \in [Targets -> Nat]
  BY <1>t, <1>p
<1>h. Head(conns[k].asked) \in Nat
  <2>1. conns[k].asked \in Seq(Nat) /\ conns[k].asked # <<>>
    BY <1>t DEF Serve, Conn
  <2>2. QED
    BY <2>1, HeadTailProperties
<1>1. PICK ms \in Seq(Replies) :
        /\ conns' = [conns EXCEPT ![k].asked = Tail(@),
                       ![k].incoming = IF conns[k].life = "up" THEN @ \o ms ELSE @]
        /\ \A i \in 1 .. Len(ms) :
             /\ ms[i].type # "error" => ms[i].job = Head(conns[k].asked)
             /\ ms[i].type = "ok" =>
                  ran' = (ran \/ (Head(conns[k].asked) = job /\ conns[k].with = target))
  <2> DEFINE j == Head(conns[k].asked)
             Done == <<[type |-> "ok", job |-> j]>>
             Broke == <<[type |-> "failed", job |-> j]>>
             Refused == <<[type |-> "error"]>>
             To(ms) == conns' = [conns EXCEPT ![k].asked = Tail(@),
                       ![k].incoming = IF conns[k].life = "up" THEN @ \o ms ELSE @]
             Known == ran' = (ran \/ (j = job /\ conns[k].with = target))
  <2>1. /\ <<>> \in Seq(Replies) /\ Done \in Seq(Replies)
        /\ Broke \in Seq(Replies) /\ Refused \in Seq(Replies)
    BY <1>h DEF Replies
  <2>2. /\ Len(<<>>) = 0
        /\ Len(Done) = 1 /\ Done[1].type = "ok" /\ Done[1].job = j
        /\ Len(Broke) = 1 /\ Broke[1].type = "failed" /\ Broke[1].job = j
        /\ Len(Refused) = 1 /\ Refused[1].type = "error"
    OBVIOUS
  <2>3. \/ To(<<>>) \/ (To(Done) /\ Known) \/ To(Broke) \/ To(Refused)
    BY DEF Serve
  <2> SUFFICES \E ms \in Seq(Replies) :
                 /\ To(ms)
                 /\ \A i \in 1 .. Len(ms) :
                      /\ ms[i].type # "error" => ms[i].job = j
                      /\ ms[i].type = "ok" => Known
    OBVIOUS
  <2> HIDE DEF Done, Broke, Refused, j, To, Known
  <2>4. CASE To(<<>>)
    <3>1. PICK ms \in Seq(Replies) : To(ms) /\ Len(ms) = 0
      BY <2>1, <2>2, <2>4
    <3>2. \A i \in 1 .. Len(ms) : FALSE
      BY <3>1
    <3>3. QED
      BY <3>1, <3>2
  <2>5. CASE To(Done) /\ Known
    BY <2>1, <2>2, <2>5
  <2>6. CASE To(Broke)
    BY <2>1, <2>2, <2>6
  <2>7. CASE To(Refused)
    BY <2>1, <2>2, <2>7
  <2>8. QED
    BY <2>3, <2>4, <2>5, <2>6, <2>7
<1>2. (ran => ran') /\ ran' \in BOOLEAN /\ UNCHANGED <<dispatchVars, peers>>
  BY <1>p DEF Serve
<1>3. PICK d :
        IsAnswered(conns[k], d, ms) /\ conns' = [conns EXCEPT ![k] = d]
  BY <1>1 DEF IsAnswered
<1>4. conns[k].asked # <<>>
  BY DEF Serve
<1>5. /\ Keeps(conns[k], d, job, target)
      /\ Claims(d, job) =>
           \/ Claims(conns[k], job)
           \/ Head(conns[k].asked) = job /\ \E i \in 1 .. Len(ms) : ms[i].type = "ok"
      /\ Head(conns[k].asked) = job /\ Sent(conns[k], job, target) => conns[k].with = target
  BY <1>t, <1>p, <1>1, <1>3, <1>4, Answered
<1>6. Changes(k, d)
  BY <1>1, <1>3, <1>5 DEF Changes
<1>7. ConnsStep
  BY <1>t, <1>6, OneConnChanges
<1>8. WorldStep
  BY <1>p, <1>n, <1>2 DEF WorldStep
<1>9. QED
  BY <1>7, <1>8

\* What the loop does to the connections.
LEMMA LoopConns ==
  ASSUME TypeOK, Connections,
         Dispatch \/ LoopStep \/ ConnectFails \/ Connected \/ Stop \/ Idle \/ UNCHANGED vars
  PROVE  ConnsStep
<1>t. /\ conns \in Seq(Conn) /\ Len(conns) \in Nat
      /\ \A k \in 1 .. Len(conns) : conns[k] \in Conn
  BY ConnsTyped
<1>o. peer \in 0 .. Len(conns) /\ job \in Nat
  BY DEF TypeOK
<1>p. loop \in Trial \cup {"closing"} =>
        peer \in 1 .. Len(conns) /\ conns[peer].with = target
  BY <1>t, <1>o DEF Connections, NoConn
<1>1. CASE UNCHANGED conns
  BY <1>1, NoConnChanges
<1>2. ASSUME Send PROVE ConnsStep
  <2>1. PICK d : d = [conns[peer] EXCEPT !.asked = Append(@, job)]
                 /\ conns' = [conns EXCEPT ![peer] = d]
    BY <1>2 DEF Send
  <2>2. peer \in 1 .. Len(conns) /\ conns[peer].with = target /\ conns[peer] \in Conn
    BY <1>2, <1>t, <1>p DEF Send, Trying, Trial
  <2>3. Changes(peer, d)
    BY <1>o, <2>1, <2>2, Asked DEF Changes
  <2>4. QED
    BY <2>2, <2>3, OneConnChanges
<1>3. ASSUME Waits PROVE ConnsStep
  <2>1. PICK d : d = [conns[peer] EXCEPT !.incoming = Tail(@)]
                 /\ conns' = [conns EXCEPT ![peer] = d]
    BY <1>3 DEF Waits
  <2>2. peer \in 1 .. Len(conns) /\ conns[peer] \in Conn /\ conns[peer].incoming # <<>>
    BY <1>3, <1>t, <1>p DEF Waits, Trying, Trial
  <2>3. Changes(peer, d)
    BY <2>1, <2>2, Taken DEF Changes
  <2>4. QED
    BY <2>2, <2>3, OneConnChanges
<1>4. ASSUME Closed \/ CloseInterrupted PROVE ConnsStep
  <2>1. PICK d : d = [conns[peer] EXCEPT !.life = "closed", !.channel = "closed",
                                         !.incoming = <<>>]
                 /\ conns' = [conns EXCEPT ![peer] = d]
    BY <1>4 DEF Closed, CloseInterrupted
  <2>2. peer \in 1 .. Len(conns) /\ conns[peer] \in Conn
    BY <1>4, <1>t, <1>p DEF Closed, CloseInterrupted
  <2>3. /\ d \in Conn /\ d.with = conns[peer].with /\ d.life = "closed"
        /\ d.asked = conns[peer].asked /\ d.incoming = <<>>
    <3>1. <<>> \in Seq(Replies)
      OBVIOUS
    <3>2. QED
      BY <2>1, <2>2, <3>1 DEF Conn, Replies
  <2>4. Changes(peer, d)
    BY <2>1, <2>2, <2>3, Relabelled DEF Changes
  <2>5. QED
    BY <2>2, <2>4, OneConnChanges
<1>5. QED
  BY <1>1, <1>2, <1>3, <1>4 DEF Dispatch, LoopStep, ListFails, Listed, Choose, GiveUp,
     ConnectFails, Connected, SendRaises, SendTimesOut, TakeResult, TakeError, TakeOther,
     WaitTimesOut, Stop, CancelledBetween, CancelledWithin, Idle, vars

-----------------------------------------------------------------------------
(***************************************************************************)
(* The steps keep what is known of the loop.                               *)
(***************************************************************************)
\* The inductive invariant without what the queues hold.
State == TypeOK /\ Outcomes /\ Connections /\ ReportIsTrue /\ GivesUpHonestly

\* Connections keep their place and their target, and none comes up again.
LEMMA ConnsOnlyFall ==
  ASSUME TypeOK, ConnsStep
  PROVE  /\ conns' \in Seq(Conn) /\ Len(conns) \in Nat /\ Len(conns') \in Nat
         /\ Len(conns) <= Len(conns')
         /\ DOMAIN conns = 1 .. Len(conns) /\ DOMAIN conns' = 1 .. Len(conns')
         /\ \A k \in 1 .. Len(conns) :
              /\ conns'[k].with = conns[k].with
              /\ conns'[k].life = "up" => conns[k].life = "up"
<1>1. conns' \in Seq(Conn) /\ Len(conns) <= Len(conns')
  BY DEF ConnsStep
<1>2. Len(conns') \in Nat /\ DOMAIN conns' = 1 .. Len(conns')
  BY <1>1
<1>3. \A k \in 1 .. Len(conns) :
        /\ conns'[k].with = conns[k].with
        /\ conns'[k].life = "up" => conns[k].life = "up"
  BY DEF ConnsStep, Keeps
<1>4. QED
  BY <1>1, <1>2, <1>3, ConnsTyped

\* The rest of the node and the targets do not touch the loop.
LEMMA WorldKeeps ==
  ASSUME State, ConnsStep, WorldStep
  PROVE  State'
<1>c. /\ conns' \in Seq(Conn) /\ Len(conns) \in Nat /\ Len(conns') \in Nat
      /\ Len(conns) <= Len(conns')
      /\ DOMAIN conns = 1 .. Len(conns) /\ DOMAIN conns' = 1 .. Len(conns')
      /\ \A k \in 1 .. Len(conns) :
           /\ conns'[k].with = conns[k].with
           /\ conns'[k].life = "up" => conns[k].life = "up"
  BY ConnsOnlyFall DEF State
<1>u. UNCHANGED <<loop, todo, target, existing, mark, peer, job, result, tried, fresh,
                  report, dispatches>> /\ ran' \in BOOLEAN /\ (ran => ran')
  BY DEF WorldStep, dispatchVars, attempt
<1>p. /\ peers \in [Targets -> 0 .. Len(conns)]
      /\ \A t \in Targets : peers[t] # NoConn => conns[peers[t]].with = t
      /\ {existing, peer, mark} \subseteq 0 .. Len(conns) /\ fresh \subseteq 1 .. Len(conns)
      /\ target \in Targets
  BY <1>c DEF State, TypeOK
<1>1. peers' \in [Targets -> 0 .. Len(conns')]
  BY <1>c, <1>p DEF WorldStep, NoConn
<1>2. \A t \in Targets : peers'[t] # NoConn => conns'[peers'[t]].with = t
  BY <1>c, <1>p DEF WorldStep, NoConn
<1>3. {existing, peer, mark} \subseteq 0 .. Len(conns') /\ fresh \subseteq 1 .. Len(conns')
  BY <1>c, <1>p
<1>4. TypeOK'
  BY <1>c, <1>u, <1>1, <1>2, <1>3 DEF State, TypeOK
<1>5. Outcomes'
  BY <1>u DEF State, Outcomes
<1>6. Connections'
  <2>1. loop = "connecting" => peers'[target] \in {NoConn, existing} \/ peers'[target] > mark
    BY <1>c, <1>p DEF State, Connections, WorldStep, NoConn
  <2>2. loop \in Trial \cup {"closing"} => conns'[peer].with = target
    BY <1>c, <1>p DEF State, Connections, NoConn
  <2>3. \A k \in fresh : conns'[k].life = "up" =>
          loop \in Trial \cup {"closing"} /\ k = peer /\ k > mark
    BY <1>c, <1>p DEF State, Connections
  <2>4. QED
    BY <1>u, <2>1, <2>2, <2>3 DEF State, Connections
<1>7. ReportIsTrue' /\ GivesUpHonestly'
  BY <1>u DEF State, ReportIsTrue, GivesUpHonestly
<1>8. QED
  BY <1>4, <1>5, <1>6, <1>7 DEF State

\* The attempt ends: the finally block closes what is new, or the loop goes on.
LEMMA EndsKeeps ==
  ASSUME State, ConnsStep, NEW r, Ends(r)
  PROVE  State'
<1>c. /\ conns' \in Seq(Conn) /\ Len(conns) \in Nat /\ Len(conns') \in Nat
      /\ Len(conns) <= Len(conns')
      /\ DOMAIN conns = 1 .. Len(conns) /\ DOMAIN conns' = 1 .. Len(conns')
      /\ \A k \in 1 .. Len(conns) :
           /\ conns'[k].with = conns[k].with
           /\ conns'[k].life = "up" => conns[k].life = "up"
  BY ConnsOnlyFall DEF State
<1>u. /\ UNCHANGED <<ran, peers, todo, target, existing, mark, peer, job, fresh, dispatches>>
      /\ loop \in Trial /\ r \in Failures \cup {"ok"} /\ (r = "ok" => ran)
      /\ result' = r /\ tried' = [tried EXCEPT ![target] = r]
      /\ loop' = IF peer # existing THEN "closing" ELSE After(r)
      /\ report' = IF r = "ok" /\ peer = existing THEN "completed" ELSE report
  BY DEF Ends, Finally, Ended, attempt
<1>p. /\ peers \in [Targets -> 0 .. Len(conns)]
      /\ \A t \in Targets : peers[t] # NoConn => conns[peers[t]].with = t
      /\ {existing, peer, mark} \subseteq 0 .. Len(conns) /\ fresh \subseteq 1 .. Len(conns)
      /\ target \in Targets /\ target \notin todo /\ todo \subseteq Targets
      /\ tried \in [Targets -> Failures \cup {"none", "ok"}]
      /\ loop' \in {"closing", "idle", "choosing", "stopped"} /\ "ok" \notin Failures
  BY <1>c, <1>u DEF State, TypeOK, Trial, After, Failures
<1>o. /\ report = "nothing" /\ \A t \in Targets : tried[t] # "ok"
      /\ tried'[target] = r /\ \A t \in Targets \ {target} : tried'[t] # "ok"
      /\ tried' \in [Targets -> Failures \cup {"none", "ok"}]
  BY <1>u, <1>p DEF State, Outcomes, Trial
<1>1. TypeOK'
  <2>1. peers' \in [Targets -> 0 .. Len(conns')]
    BY <1>c, <1>u, <1>p
  <2>2. \A t \in Targets : peers'[t] # NoConn => conns'[peers'[t]].with = t
    BY <1>c, <1>u, <1>p DEF NoConn
  <2>3. {existing, peer, mark} \subseteq 0 .. Len(conns') /\ fresh \subseteq 1 .. Len(conns')
    BY <1>c, <1>p
  <2>4. QED
    BY <1>c, <1>u, <1>p, <1>o, <2>1, <2>2, <2>3 DEF State, TypeOK
<1>2. Outcomes'
  BY <1>u, <1>p, <1>o DEF State, Outcomes, After
<1>3. Connections'
  <2>1. peer # NoConn /\ conns'[peer].with = target /\ (peer = existing \/ peer > mark)
    BY <1>c, <1>u, <1>p DEF State, Connections, NoConn
  <2>2. \A k \in fresh : conns'[k].life = "up" => k = peer /\ k > mark
    BY <1>c, <1>u, <1>p DEF State, Connections
  <2>3. existing <= mark /\ (peer > mark => peer # existing)
    BY <1>c, <1>p DEF State, Connections
  <2>4. QED
    BY <1>u, <1>p, <2>1, <2>2, <2>3 DEF Connections, Trial, After
<1>4. ReportIsTrue'
  BY <1>u, <1>o DEF ReportIsTrue
<1>5. GivesUpHonestly'
  BY <1>u, <1>o DEF GivesUpHonestly
<1>6. QED
  BY <1>1, <1>2, <1>3, <1>4, <1>5 DEF State

\* Between attempts.
LEMMA BetweenKeeps ==
  ASSUME State,
         \/ Dispatch \/ ListFails \/ Listed \/ GiveUp \/ ConnectFails \/ Connected
         \/ CancelledBetween
         \/ \E t \in Targets : Choose(t)
  PROVE  State'
<1>c. /\ Len(conns) \in Nat /\ DOMAIN conns = 1 .. Len(conns) /\ MaxDispatches \in Nat
      /\ "ok" \notin Failures /\ "unreachable" \in Failures
  BY ConnsTyped, DispatchAssumption DEF State, Failures
<1>t. TypeOK /\ Outcomes /\ Connections
  BY DEF State
<1>d. dispatches \in 0 .. MaxDispatches /\ job \in Nat /\ target \in Targets
  BY <1>t DEF TypeOK
<1>e. {existing, peer, mark} \subseteq 0 .. Len(conns)
  BY <1>t DEF TypeOK
<1>f. fresh \subseteq DOMAIN conns /\ peers \in [Targets -> 0 .. Len(conns)]
  BY <1>t DEF TypeOK
<1>1. CASE Dispatch
  <2>1. TypeOK'
    <3>1. dispatches' \in 0 .. MaxDispatches
      BY <1>c, <1>d, <1>1 DEF Dispatch
    <3>2. tried' \in [Targets -> Failures \cup {"none", "ok"}]
      BY <1>1 DEF Dispatch, Untried
    <3>3. QED
      BY <1>t, <1>1, <3>1, <3>2 DEF TypeOK, Dispatch, attempt
  <2>2. Outcomes' /\ ReportIsTrue' /\ GivesUpHonestly'
    BY <1>1 DEF Outcomes, Dispatch, Untried, ReportIsTrue, GivesUpHonestly
  <2>3. Connections'
    BY <1>t, <1>1 DEF Connections, Dispatch, Trial, attempt
  <2>4. QED
    BY <2>1, <2>2, <2>3 DEF State
<1>2. CASE ListFails \/ Listed
  <2>1. TypeOK'
    BY <1>c, <1>t, <1>2 DEF TypeOK, ListFails, Listed, attempt
  <2>2. Outcomes' /\ ReportIsTrue' /\ GivesUpHonestly'
    BY <1>t, <1>2 DEF Outcomes, ListFails, Listed, ReportIsTrue, GivesUpHonestly, attempt
  <2>3. Connections'
    BY <1>t, <1>2 DEF Connections, ListFails, Listed, Trial, attempt
  <2>4. QED
    BY <2>1, <2>2, <2>3 DEF State
<1>3. CASE GiveUp
  <2>1. TypeOK'
    BY <1>c, <1>t, <1>3 DEF TypeOK, GiveUp, attempt
  <2>2. Outcomes' /\ ReportIsTrue' /\ GivesUpHonestly'
    BY <1>t, <1>3 DEF Outcomes, GiveUp, ReportIsTrue, GivesUpHonestly
  <2>3. Connections'
    BY <1>t, <1>3 DEF Connections, GiveUp, Trial, attempt
  <2>4. QED
    BY <2>1, <2>2, <2>3 DEF State
<1>4. CASE \E t \in Targets : Choose(t)
  <2>0. PICK t \in Targets : Choose(t)
    BY <1>4
  <2>p. peers[t] \in 0 .. Len(conns)
    BY <1>t DEF TypeOK
  <2>1. TypeOK'
    <3>1. {existing', peer', mark'} \subseteq 0 .. Len(conns)
      BY <1>c, <1>e, <2>0, <2>p DEF Choose
    <3>2. todo' \subseteq Targets /\ target' \in Targets /\ target' \notin todo'
      BY <1>t, <2>0 DEF TypeOK, Choose
    <3>3. QED
      BY <1>t, <2>0, <3>1, <3>2 DEF TypeOK, Choose
  <2>2. Outcomes' /\ ReportIsTrue' /\ GivesUpHonestly'
    BY <1>t, <1>4 DEF Outcomes, Choose, ReportIsTrue, GivesUpHonestly
  <2>3. Connections'
    <3>1. existing' <= mark' /\ peers'[target'] = existing' /\ loop' = "connecting"
      BY <1>c, <2>0, <2>p DEF Choose
    <3>2. \A k \in fresh' : conns'[k].life # "up"
      BY <1>t, <2>0 DEF Connections, Choose, Trial
    <3>3. QED
      BY <3>1, <3>2 DEF Connections, Trial
  <2>4. QED
    BY <2>1, <2>2, <2>3 DEF State
<1>5. CASE ConnectFails
  <2>1. TypeOK'
    BY <1>c, <1>t, <1>5 DEF TypeOK, ConnectFails, Ended, attempt
  <2>2. Outcomes' /\ ReportIsTrue' /\ GivesUpHonestly'
    BY <1>c, <1>t, <1>5 DEF TypeOK, Outcomes, ConnectFails, Ended, ReportIsTrue, GivesUpHonestly
  <2>3. Connections'
    BY <1>t, <1>5 DEF Connections, ConnectFails, Trial, attempt
  <2>4. QED
    BY <2>1, <2>2, <2>3 DEF State
<1>6. CASE Connected
  <2>1. TypeOK'
    <3>1. peer' \in 0 .. Len(conns) /\ fresh' \subseteq DOMAIN conns
      BY <1>c, <1>d, <1>f, <1>6 DEF Connected, NoConn
    <3>2. job' \in Nat /\ ran' \in BOOLEAN
      <4>1. job' = job + 1 /\ ran' = FALSE
        BY <1>6 DEF Connected
      <4>2. job' \in Nat
        BY <1>d, <4>1
      <4>3. QED
        BY <4>1, <4>2
    <3>3. UNCHANGED <<todo, conns, peers, target, existing, mark, result, tried, report, dispatches>>
          /\ loop = "connecting" /\ loop' = "sending"
      BY <1>6 DEF Connected, attempt
    <3>4. QED
      BY <1>c, <1>t, <1>e, <3>1, <3>2, <3>3 DEF TypeOK
  <2>2. Outcomes' /\ ReportIsTrue' /\ GivesUpHonestly'
    BY <1>t, <1>6 DEF Outcomes, Connected, ReportIsTrue, GivesUpHonestly
  <2>3. Connections'
    BY <1>c, <1>t, <1>6 DEF TypeOK, Connections, Connected, Trial, NoConn, attempt
  <2>4. QED
    BY <2>1, <2>2, <2>3 DEF State
<1>7. CASE CancelledBetween
  <2>1. TypeOK'
    BY <1>c, <1>t, <1>7 DEF TypeOK, CancelledBetween, attempt
  <2>2. Outcomes' /\ ReportIsTrue' /\ GivesUpHonestly'
    BY <1>7 DEF State, Outcomes, CancelledBetween, ReportIsTrue, GivesUpHonestly, attempt
  <2>3. Connections'
    BY <1>t, <1>7 DEF Connections, CancelledBetween, Trial, attempt
  <2>4. QED
    BY <2>1, <2>2, <2>3 DEF State
<1>8. QED
  BY <1>1, <1>2, <1>3, <1>4, <1>5, <1>6, <1>7

\* Within an attempt, and when its connection has been closed.
LEMMA WithinKeeps ==
  ASSUME State, ConnsStep, Send \/ TakeOther \/ Closed \/ CloseInterrupted
  PROVE  State'
<1>c. /\ conns' \in Seq(Conn) /\ Len(conns) \in Nat /\ Len(conns') \in Nat
      /\ Len(conns) <= Len(conns')
      /\ DOMAIN conns = 1 .. Len(conns) /\ DOMAIN conns' = 1 .. Len(conns')
      /\ \A k \in 1 .. Len(conns) :
           /\ conns'[k].with = conns[k].with
           /\ conns'[k].life = "up" => conns[k].life = "up"
  BY ConnsOnlyFall DEF State
<1>p. /\ peers \in [Targets -> 0 .. Len(conns)]
      /\ \A t \in Targets : peers[t] # NoConn => conns[peers[t]].with = t
      /\ {existing, peer, mark} \subseteq 0 .. Len(conns) /\ fresh \subseteq 1 .. Len(conns)
      /\ target \in Targets
  BY <1>c DEF State, TypeOK
<1>l. /\ peers' \in [Targets -> 0 .. Len(conns)]
      /\ \A t \in Targets : peers'[t] \in {peers[t], NoConn}
      /\ UNCHANGED <<ran, todo, target, existing, mark, peer, job, result, tried, fresh, dispatches>>
  BY <1>p DEF Send, TakeOther, Waits, Trying, Closed, CloseInterrupted, attempt, NoConn
<1>1. /\ peers' \in [Targets -> 0 .. Len(conns')]
      /\ \A t \in Targets : peers'[t] # NoConn => conns'[peers'[t]].with = t
      /\ {existing, peer, mark} \subseteq 0 .. Len(conns') /\ fresh \subseteq 1 .. Len(conns')
  BY <1>c, <1>p, <1>l DEF NoConn
<1>2. /\ loop \in Trial \cup {"closing"} => conns'[peer].with = target
      /\ \A k \in fresh : conns'[k].life = "up" =>
           loop \in Trial \cup {"closing"} /\ k = peer /\ k > mark
  BY <1>c, <1>p DEF State, Connections, NoConn
<1>3. CASE Send \/ TakeOther
  <2>1. loop \in Trial /\ loop' \in Trial /\ UNCHANGED report
    BY <1>3 DEF Send, TakeOther, Waits, Trying, Trial
  <2>2. TypeOK'
    BY <1>c, <1>l, <1>1, <2>1 DEF State, TypeOK, Trial
  <2>3. Outcomes' /\ ReportIsTrue' /\ GivesUpHonestly'
    BY <1>l, <2>1 DEF State, Outcomes, ReportIsTrue, GivesUpHonestly, Trial
  <2>4. Connections'
    BY <1>l, <1>2, <2>1 DEF State, Connections, Trial
  <2>5. QED
    BY <2>2, <2>3, <2>4 DEF State
<1>4. CASE Closed \/ CloseInterrupted
  <2>1. /\ loop = "closing"
        /\ \/ /\ loop' = After(result)
              /\ report' = IF result = "ok" THEN "completed" ELSE report
           \/ loop' = "stopped" /\ report' = report
    BY <1>4 DEF Closed, CloseInterrupted
  <2>2. TypeOK'
    BY <1>c, <1>l, <1>1, <2>1 DEF State, TypeOK, After
  <2>3. Outcomes' /\ ReportIsTrue' /\ GivesUpHonestly'
    BY <1>l, <1>p, <2>1 DEF State, Outcomes, ReportIsTrue, GivesUpHonestly, After
  <2>4. conns'[peer].life # "up"
    <3>1. peer \in 1 .. Len(conns)
      BY <1>c, <1>p, <2>1 DEF State, Connections, NoConn
    <3>2. conns[peer] \in Conn
      BY <3>1, ConnsTyped DEF State
    <3>3. conns' = [conns EXCEPT ![peer].life = "closed", ![peer].channel = "closed",
                                 ![peer].incoming = <<>>]
      BY <1>4 DEF Closed, CloseInterrupted
    <3>4. QED
      BY <1>c, <3>1, <3>2, <3>3 DEF Conn
  <2>5. Connections'
    BY <1>l, <1>2, <2>1, <2>4 DEF State, Connections, After, Trial
  <2>6. QED
    BY <2>2, <2>3, <2>5 DEF State
<1>5. QED
  BY <1>3, <1>4

-----------------------------------------------------------------------------
(***************************************************************************)
(* The invariant.                                                          *)
(***************************************************************************)
\* An attempt ends with a failure, or with a result that says its job was run.
LEMMA EndsHow ==
  ASSUME TypeOK, JobsKnown, Connections,
         SendRaises \/ SendTimesOut \/ TakeResult \/ TakeError \/ WaitTimesOut \/ CancelledWithin
  PROVE  \E r : Ends(r)
<1>1. CASE SendRaises \/ SendTimesOut \/ WaitTimesOut \/ CancelledWithin
  BY <1>1 DEF SendRaises, SendTimesOut, WaitTimesOut, CancelledWithin, Trying, Trial, Failures, Ends
<1>2. CASE TakeError
  BY <1>2 DEF TakeError, Waits, Trying, Trial, Failures, Ends
<1>3. CASE TakeResult
  <2>1. /\ loop = "waiting" /\ Finally(Message.type) /\ Message.type \in {"ok", "failed"}
        /\ Message.job = job /\ conns[peer].incoming # <<>>
        /\ UNCHANGED <<ran, peers, todo, attempt, peer, job, fresh, dispatches>>
    BY <1>3 DEF TakeResult, Waits, Trying, IsCurrent
  <2>2. Message.type = "ok" => ran
    <3>1. SUFFICES ASSUME Message.type = "ok" PROVE ran
      OBVIOUS
    <3>2. peer \in 0 .. Len(conns) /\ peer # 0
      BY <2>1 DEF TypeOK, Connections, Trial, NoConn
    <3>3. peer \in 1 .. Len(conns) /\ conns[peer] \in Conn
      BY <3>2, ConnsTyped
    <3>4. conns[peer].incoming \in Seq(Replies)
      BY <3>3 DEF Conn, Replies
    <3>5. /\ 1 \in 1 .. Len(conns[peer].incoming)
          /\ Message = conns[peer].incoming[1]
      BY <2>1, <3>4 DEF Message
    <3>6. Claims(conns[peer], job)
      BY <2>1, <3>1, <3>5 DEF Claims
    <3>7. QED
      BY <2>1, <3>3, <3>6 DEF JobsKnown, Trial
  <2>3. QED
    BY <2>1, <2>2 DEF Ends, Trial, Failures
<1>4. QED
  BY <1>1, <1>2, <1>3

\* Job ids grow when an attempt starts, and only then.
LEMMA JobsStep ==
  ASSUME TypeOK, JobsKnown, ConnsStep, [Next]_vars,
         Dispatch \/ LoopStep \/ ConnectFails \/ Connected \/ Stop \/ Idle \/ UNCHANGED vars
  PROVE  JobsKnown'
<1>1. CASE Connected
  BY <1>1, JobsKept DEF Connected
<1>2. CASE \E t \in Targets : Choose(t)
  BY <1>2, JobsKept DEF Choose, Trial
<1>3. CASE ~Connected /\ ~ \E t \in Targets : Choose(t)
  <2>1. UNCHANGED <<job, target, ran>> /\ (loop' \in Trial => loop \in Trial)
    BY <1>3 DEF Dispatch, LoopStep, ListFails, Listed, GiveUp, ConnectFails, Send,
       SendRaises, SendTimesOut, TakeResult, TakeError, TakeOther, Waits, WaitTimesOut,
       Closed, Stop, CancelledBetween, CancelledWithin, CloseInterrupted, Trying, Finally,
       Ended, After, attempt, Trial, Idle, vars
  <2>2. QED
    BY <2>1, JobsKept
<1>4. QED
  BY <1>1, <1>2, <1>3

\* Every step keeps the inductive invariant.
LEMMA StepIInv == IInv /\ [Next]_vars => IInv'
<1> SUFFICES ASSUME IInv, [Next]_vars PROVE IInv'
  OBVIOUS
<1>0. State /\ TypeOK /\ JobsKnown /\ Connections
  BY DEF IInv, State
<1>1. CASE \/ Dial \/ DropExisting \/ \E t \in Targets : TargetCalls(t) \/ Uncached(t)
           \/ \E k \in DOMAIN conns : Open(k) \/ Break(k) \/ Serve(k)
  <2>1. ConnsStep /\ WorldStep
    BY <1>0, <1>1, WorldConns, ServeConns
  <2>2. State'
    BY <1>0, <2>1, WorldKeeps
  <2>3. JobsKnown'
    <3>1. UNCHANGED <<job, target, loop>> /\ (ran => ran')
      BY <2>1 DEF WorldStep, dispatchVars, attempt
    <3>2. QED
      BY <1>0, <2>1, <3>1, JobsKept
  <2>4. QED
    BY <2>2, <2>3 DEF State, IInv
<1>2. CASE Dispatch \/ LoopStep \/ ConnectFails \/ Connected \/ Stop \/ Idle \/ UNCHANGED vars
  <2>1. ConnsStep
    BY <1>0, <1>2, LoopConns
  <2>2. JobsKnown'
    BY <1>0, <1>2, <2>1, JobsStep
  <2>3. State'
    <3>1. CASE \/ Dispatch \/ ListFails \/ Listed \/ GiveUp \/ ConnectFails \/ Connected
               \/ CancelledBetween
               \/ \E t \in Targets : Choose(t)
      BY <1>0, <3>1, BetweenKeeps
    <3>2. CASE Send \/ TakeOther \/ Closed \/ CloseInterrupted
      BY <1>0, <2>1, <3>2, WithinKeeps
    <3>3. CASE \/ SendRaises \/ SendTimesOut \/ TakeResult \/ TakeError \/ WaitTimesOut
               \/ CancelledWithin
      BY <1>0, <2>1, <3>3, EndsHow, EndsKeeps
    <3>4. CASE UNCHANGED vars
      <4>1. UNCHANGED <<peers, conns, loop, todo, target, existing, mark, peer, job, result,
                        tried, fresh, ran, report, dispatches>>
        BY <3>4 DEF vars
      <4>2. TypeOK'
        BY <1>0, <4>1 DEF TypeOK
      <4>3. Outcomes' /\ Connections' /\ ReportIsTrue' /\ GivesUpHonestly'
        BY <1>0, <4>1 DEF State, Outcomes, Connections, ReportIsTrue, GivesUpHonestly
      <4>4. QED
        BY <4>2, <4>3 DEF State
    <3>5. QED
      BY <1>2, <3>1, <3>2, <3>3, <3>4 DEF LoopStep, Stop, Idle
  <2>4. QED
    BY <2>2, <2>3 DEF State, IInv
<1>3. QED
  BY <1>1, <1>2 DEF Next, ConnectStep

\* It holds before the first dispatch.
LEMMA InitIInv == Init => IInv
<1> SUFFICES ASSUME Init PROVE IInv
  OBVIOUS
<1>1. conns = <<>> /\ conns \in Seq(Conn) /\ Len(conns) = 0 /\ DOMAIN conns = {}
  BY DEF Init
<1>2. target \in Targets /\ 0 \in 0 .. MaxDispatches
  BY DispatchAssumption DEF Init
<1>3. TypeOK
  <2>1. /\ peers = [t \in Targets |-> 0] /\ existing = 0 /\ peer = 0 /\ mark = 0
        /\ tried = [t \in Targets |-> "none"] /\ fresh = {}
    BY DEF Init, NoConn, Untried
  <2>2. peers \in [Targets -> 0 .. Len(conns)] /\ {existing, peer, mark} \subseteq 0 .. Len(conns)
    BY <1>1, <2>1
  <2>3. tried \in [Targets -> Failures \cup {"none", "ok"}]
    BY <2>1
  <2>4. \A t \in Targets : peers[t] # NoConn => conns[peers[t]].with = t
    BY <2>1 DEF NoConn
  <2>5. QED
    BY <1>1, <1>2, <2>1, <2>2, <2>3, <2>4 DEF Init, TypeOK
<1>4. JobsKnown
  BY <1>1 DEF JobsKnown
<1>5. Outcomes /\ Connections /\ ReportIsTrue /\ GivesUpHonestly
  BY DEF Init, Outcomes, Connections, ReportIsTrue, GivesUpHonestly, Untried, NoConn, Trial
<1>6. QED
  BY <1>3, <1>4, <1>5 DEF IInv

\* And hence always.
LEMMA Invariant == Spec => []IInv
BY InitIInv, StepIInv, PTL DEF Spec

-----------------------------------------------------------------------------
(***************************************************************************)
(* Theorems.                                                               *)
(***************************************************************************)

\* Every variable of the dispatch and its connections keeps its type, and no
\* candidate is tried twice (attempt_job_dispatch).
THEOREM TypeCorrect == Spec => []TypeOK
BY Invariant, PTL DEF IInv

\* "Job completed" is true: the target that is named has run the job that was
\* submitted to it last, and nobody else was asked after it.
THEOREM Truth == Spec => []ReportIsTrue
BY Invariant, PTL DEF IInv

\* "All peers rejected" is printed only when all were tried and all failed.
THEOREM Honesty == Spec => []GivesUpHonestly
BY Invariant, PTL DEF IInv

\* A dispatch that is over, or was cancelled, has left none of its own connections open.
THEOREM NothingStaysOpen == Spec => []NothingLeftOpen
<1>1. IInv => NothingLeftOpen
  BY DEF IInv, Connections, NothingLeftOpen, Trial
<1>2. QED
  BY <1>1, Invariant, PTL

\* The dispatch closes no connection that was there before its attempt, but for an
\* existing one that connect_to_peer finds not open.
THEOREM OthersKept == Spec => KeepsOthers
<1>1. IInv /\ [Next]_vars =>
        \A k \in DOMAIN conns :
          conns'[k].life = "closed" /\ conns[k].life # "closed" =>
            \/ k > mark
            \/ loop = "connecting" /\ k = existing /\ conns[k].channel # "open"
  <2> DEFINE Dropped(k) == loop = "connecting" /\ k = existing /\ conns[k].channel # "open"
  <2> SUFFICES ASSUME IInv, [Next]_vars, NEW k \in DOMAIN conns,
                      conns'[k].life = "closed", conns[k].life # "closed"
               PROVE  k > mark \/ Dropped(k)
    OBVIOUS
  <2>1. /\ conns \in Seq(Conn) /\ Len(conns) \in Nat /\ k \in 1 .. Len(conns)
        /\ conns[k] \in Conn
    BY ConnsTyped DEF IInv
  <2>2. Closed \/ CloseInterrupted \/ DropExisting
    <3>1. CASE UNCHANGED conns
      BY <3>1
    <3>2. ASSUME NEW t, NEW channel PROVE ~Appears(t, channel)
      BY <2>1, AppendProperties DEF Appears
    <3>3. ASSUME NEW l \in DOMAIN conns PROVE ~Open(l) /\ ~Break(l) /\ ~Serve(l)
      <4>1. ASSUME NEW d, conns' = [conns EXCEPT ![l] = d], d.life \in {conns[l].life, "down"}
            PROVE  FALSE
        BY <2>1, <4>1
      <4>2. ~Open(l)
        <5>1. SUFFICES ASSUME Open(l) PROVE FALSE
          OBVIOUS
        <5>2. PICK d : d = [conns[l] EXCEPT !.channel = "open"] /\ conns' = [conns EXCEPT ![l] = d]
          BY <5>1 DEF Open
        <5>3. d.life = conns[l].life
          BY <2>1, <5>2, ConnsTyped DEF IInv, Conn
        <5>4. QED
          BY <4>1, <5>2, <5>3
      <4>3. ~Break(l)
        <5>1. SUFFICES ASSUME Break(l) PROVE FALSE
          OBVIOUS
        <5>2. PICK channel : conns' = [conns EXCEPT ![l] = [conns[l] EXCEPT !.life = "down",
                                                                  !.channel = channel]]
          BY <5>1 DEF Break
        <5>3. [conns[l] EXCEPT !.life = "down", !.channel = channel].life = "down"
          BY <2>1, ConnsTyped DEF IInv, Conn
        <5>4. QED
          BY <4>1, <5>2, <5>3
      <4>4. ~Serve(l)
        <5>1. SUFFICES ASSUME Serve(l) PROVE FALSE
          OBVIOUS
        <5>2. PICK ms : conns' = [conns EXCEPT ![l].asked = Tail(@),
                          ![l].incoming = IF conns[l].life = "up" THEN @ \o ms ELSE @]
          BY <5>1 DEF Serve
        <5>3. PICK d : IsAnswered(conns[l], d, ms) /\ conns' = [conns EXCEPT ![l] = d]
          BY <5>2 DEF IsAnswered
        <5>4. d.life = conns[l].life
          BY <2>1, <5>3, ConnsTyped DEF IInv, Conn, IsAnswered
        <5>5. QED
          BY <4>1, <5>3, <5>4
      <4>5. QED
        BY <4>2, <4>3, <4>4
    <3>4. ~Send /\ ~Waits
      <4>1. ~Send
        <5>1. SUFFICES ASSUME Send PROVE FALSE
          OBVIOUS
        <5>2. PICK d : /\ d = [conns[peer] EXCEPT !.asked = Append(@, job)]
                       /\ conns' = [conns EXCEPT ![peer] = d]
          BY <5>1 DEF Send
        <5>3. peer = k
          BY <2>1, <5>2
        <5>4. d.life = conns[k].life
          BY <2>1, <5>2, <5>3 DEF Conn
        <5>5. QED
          BY <2>1, <5>2, <5>3, <5>4
      <4>2. ~Waits
        BY <2>1 DEF Waits, Conn
      <4>3. QED
        BY <4>1, <4>2
    <3>5. QED
      BY <3>1, <3>2, <3>3, <3>4 DEF Next, Dispatch, LoopStep, ConnectStep, Dial, TargetCalls,
         Uncached, ListFails, Listed, Choose, GiveUp, ConnectFails, Connected, SendRaises, SendTimesOut,
         TakeResult, TakeError, TakeOther, WaitTimesOut, Stop, CancelledBetween,
         CancelledWithin, Idle, vars
  <2>3. CASE Closed \/ CloseInterrupted
    <3>1. k = peer
      BY <2>1, <2>3 DEF Closed, CloseInterrupted, Conn
    <3>2. peer > mark
      BY <2>3 DEF Closed, CloseInterrupted, IInv, Connections
    <3>3. QED
      BY <3>1, <3>2
  <2>4. CASE DropExisting
    BY <2>1, <2>4 DEF DropExisting, Conn
  <2>5. QED
    BY <2>2, <2>3, <2>4
<1>2. QED
  BY <1>1, Invariant, PTL DEF Spec, KeepsOthers
=============================================================================

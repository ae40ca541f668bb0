----------------------------- MODULE JobOutcome -----------------------------
(***************************************************************************)
(* What a compute node promises about the jobs it accepts: a job comes to  *)
(* one end, and its requester is told about it at most once, afterwards,   *)
(* and nothing but the verdict on that end (the "stage" of the result).    *)
(***************************************************************************)
CONSTANT Jobs

VARIABLES
  ended,   \* how each job ended: where it broke, or "ran"
  told     \* the result its requester got

vars == <<ended, told>>

\* The steps of a job that can break, by stage.  Those of Outside belong to none:
\* they are reported as a compilation too, by the last handler of exceptions.
Compilation == {"mkdtemp", "source", "clang", "load"}
Execution == {"entry", "run"}
Outside == {"outdir", "store", "link", "lookup", "output"}
Endings == Compilation \cup {"instantiate"} \cup Execution \cup Outside \cup {"ran"}

Verdict(end) ==
  IF end \in Compilation \cup Outside THEN "compilation"
  ELSE IF end = "instantiate" THEN "instantiation"
  ELSE IF end \in Execution THEN "execution"
  ELSE "ok"

Init ==
  /\ ended = [j \in Jobs |-> "not yet"]
  /\ told = [j \in Jobs |-> "nothing"]

End(j, how) ==
  /\ ended[j] = "not yet"
  /\ ended' = [ended EXCEPT ![j] = how]
  /\ UNCHANGED told

Tell(j) ==
  /\ ended[j] # "not yet" /\ told[j] = "nothing"
  /\ told' = [told EXCEPT ![j] = Verdict(ended[j])]
  /\ UNCHANGED ended

Next == \E j \in Jobs : Tell(j) \/ \E how \in Endings : End(j, how)

Spec == Init /\ [][Next]_vars
=============================================================================

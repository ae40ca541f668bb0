------------------------- MODULE JobExecutionProofs -------------------------
(***************************************************************************)
(* Theorems about JobExecution, for any jobs, threads and lines.           *)
(*                                                                         *)
(* What a requester is told is right only because of what the thread holds *)
(* at each of its steps: no outcome before a step has ended the job, then  *)
(* an outcome that the handlers of exceptions still may have to translate. *)
(***************************************************************************)
EXTENDS JobExecution, SequenceTheorems, TLAPS

\* The places of a job that has not ended, and of one on its way out.
Unended == {"new", "queued", "mkdtemp", "source", "clang", "outdir", "store", "load",
            "link", "instantiate", "lookup", "entry", "run", "output"}
Leaving == {"closing", "cleanup", "returning"}

\* What is known of a job at each of its steps.
Known(j) ==
  /\ at[j] \in Unended => ended[j] = "not yet" /\ outcome[j] = "none"
  /\ at[j] \in Leaving =>
       /\ ended[j] # "not yet"
       /\ \/ outcome[j] = Promise!Verdict(ended[j])
          \/ outcome[j] = Other /\ Promise!Verdict(ended[j]) = "compilation"
  /\ at[j] = "returned" =>
       ended[j] # "not yet" /\ outcome[j] = Promise!Verdict(ended[j])
  /\ at[j] # "over" => told[j] = "nothing"

Verdicts == \A j \in Jobs : Known(j)

\* The lines that are left were typed.
LinesLeft == lines <= typed

\* The inductive invariant.
IInv == TypeOK /\ LinesLeft /\ Verdicts /\ DirsMatchUse

jobVars == <<at, outcome, ended, told, dirs>>

USE DEF Other, Stdin

-----------------------------------------------------------------------------
(***************************************************************************)
(* Every step keeps the types of the pool and of the standard input.       *)
(***************************************************************************)
PoolTypes ==
  /\ queue \in Seq(Jobs \cup {Stdin})
  /\ stdin \in {"queued", "reading", "dispatching", "stopped"}
  /\ typed \in 0 .. MaxLines /\ lines \in 0 .. MaxLines
  /\ stopping \in BOOLEAN
  /\ LinesLeft

JobTypes ==
  /\ at \in [Jobs -> Places]
  /\ outcome \in [Jobs -> Outcomes]
  /\ ended \in [Jobs -> Promise!Endings \cup {"not yet"}]
  /\ told \in [Jobs -> {"nothing", "ok", "compilation", "instantiation", "execution"}]
  /\ dirs \subseteq {"compiler_", "computenet_wasm_"} \X Jobs

\* The types split into those of the pool and those of the jobs.
LEMMA Types == TypeOK /\ LinesLeft <=> PoolTypes /\ JobTypes
BY DEF TypeOK, PoolTypes, JobTypes

\* The queue holds work, and no line is read that was not typed.
LEMMA PoolStep ==
  ASSUME PoolTypes, [Next]_vars
  PROVE  PoolTypes'
<1> USE DEF PoolTypes, LinesLeft
<1>0. MaxLines \in Nat
  BY ExecutionAssumption
<1>1. CASE \E j \in Jobs : Accept(j)
  BY <1>1, AppendProperties DEF Accept
<1>2. CASE \E j \in Jobs : Begin(j)
  BY <1>2, HeadTailProperties DEF Begin, Dequeue
<1>3. CASE \E j \in Jobs : Thread(j) \/ Tell(j) \/ Drop(j)
  BY <1>3 DEF Thread, MakeCompiler, WriteSource, Clang, MakeOutput, MakeStore, Load,
     Link, Instantiate, Lookup, FindEntry, Run, ReadOutput, CloseOutput, Cleanup, Return,
       Proceeds, Raises, Goes, poolVars, Tell, Drop
<1>4. CASE \E j \in Jobs : JobReadsLine(j)
  BY <1>0, <1>4 DEF JobReadsLine
<1>5. CASE BeginReading
  BY <1>5, HeadTailProperties DEF BeginReading, Dequeue
<1>6. CASE Type
  BY <1>0, <1>6 DEF Type
<1>7. CASE ReadLine
  BY <1>0, <1>7 DEF ReadLine
<1>8. CASE Dispatched \/ DispatchRaises
  BY <1>8, AppendProperties DEF Dispatched, DispatchRaises
<1>9. CASE Stop
  <2>1. <<>> \in Seq(Jobs \cup {Stdin})
    OBVIOUS
  <2>2. QED
    BY <1>9, <2>1 DEF Stop
<1>10. CASE Quiet \/ UNCHANGED vars
  BY <1>10 DEF Quiet, vars
<1>11. QED
  BY <1>1, <1>2, <1>3, <1>4, <1>5, <1>6, <1>7, <1>8, <1>9, <1>10 DEF Next

-----------------------------------------------------------------------------
(***************************************************************************)
(* Every step keeps what is known of the jobs.                             *)
(***************************************************************************)
JobFacts == JobTypes /\ Verdicts /\ DirsMatchUse

\* A job that waits may be accepted, begun or cancelled.
Waits ==
  /\ at' \in [Jobs -> Places]
  /\ \A j \in Jobs : \/ at'[j] = at[j]
                     \/ /\ at[j] \in {"new", "queued"}
                        /\ at'[j] \in {"queued", "mkdtemp", "over"}
  /\ UNCHANGED <<outcome, ended, told, dirs>>

\* No outcome and no directory is touched by that.
LEMMA WaitsKeeps ==
  ASSUME JobFacts, Waits
  PROVE  JobFacts'
<1>1. JobTypes'
  BY DEF JobFacts, JobTypes, Waits
<1>2. Verdicts'
  <2> SUFFICES ASSUME NEW k \in Jobs PROVE Known(k)'
    BY DEF Verdicts
  <2>1. Known(k)
    BY DEF JobFacts, Verdicts
  <2>2. CASE at'[k] = at[k]
    BY <2>1, <2>2 DEF Known, Waits
  <2>3. CASE at[k] \in {"new", "queued"} /\ at'[k] \in {"queued", "mkdtemp", "over"}
    BY <2>1, <2>3 DEF Known, Waits, Unended, Leaving
  <2>4. QED
    BY <2>2, <2>3 DEF Waits
<1>3. DirsMatchUse'
  BY DEF JobFacts, DirsMatchUse, Waits, InCompiler, InOutput
<1>4. QED
  BY <1>1, <1>2, <1>3 DEF JobFacts

\* Steps between which no directory comes or goes.
SameDirs(from, to) ==
  /\ from \in InCompiler \cup InOutput <=> to \in InCompiler \cup InOutput
  /\ from \in InOutput <=> to \in InOutput

\* A step that neither ends the job nor makes or removes a directory.
LEMMA ProceedsKeeps ==
  ASSUME JobFacts, NEW j \in Jobs, NEW from \in Unended, NEW to \in Unended,
         SameDirs(from, to), Proceeds(j, from, to)
  PROVE  JobFacts'
<1>1. JobTypes'
  BY DEF JobFacts, JobTypes, Proceeds, Goes, poolVars, Unended, Places, InThread,
     InCompiler, InOutput
<1>2. Verdicts'
  <2>1. \A k \in Jobs \ {j} : Known(k)'
    BY DEF JobFacts, JobTypes, Verdicts, Known, Proceeds, Goes, poolVars
  <2>2. Known(j)'
    BY DEF JobFacts, JobTypes, Verdicts, Known, Proceeds, Goes, poolVars, Unended, Leaving
  <2>3. QED
    BY <2>1, <2>2 DEF Verdicts
<1>3. DirsMatchUse'
  BY DEF JobFacts, JobTypes, DirsMatchUse, Proceeds, Goes, SameDirs
<1>4. QED
  BY <1>1, <1>2, <1>3 DEF JobFacts

\* A step ends the job, with an outcome that is right or will be translated.
Breaks(j, from, how, result, to) ==
  /\ Goes(j, from, to)
  /\ ended' = [ended EXCEPT ![j] = how]
  /\ outcome' = [outcome EXCEPT ![j] = result]
  /\ UNCHANGED dirs

\* The outcome of such a step.
Right(how, result) ==
  /\ how \in Promise!Endings /\ result \in Outcomes
  /\ \/ result = Promise!Verdict(how)
     \/ result = Other /\ Promise!Verdict(how) = "compilation"

\* What the handlers further out rely on: the outcome they are handed.
LEMMA BreaksKeeps ==
  ASSUME JobFacts, NEW j \in Jobs, NEW from \in Unended, NEW to \in Leaving,
         NEW how, NEW result, Right(how, result), SameDirs(from, to),
         Breaks(j, from, how, result, to)
  PROVE  JobFacts'
<1>0. how # "not yet"
  BY DEF Right, Promise!Endings, Promise!Compilation, Promise!Execution, Promise!Outside
<1>1. JobTypes'
  BY DEF Right, JobFacts, JobTypes, Breaks, Goes, poolVars, Leaving, Places, InThread,
     InCompiler, InOutput
<1>2. Verdicts'
  <2>1. \A k \in Jobs \ {j} : Known(k)'
    BY DEF JobFacts, JobTypes, Verdicts, Known, Breaks, Goes, poolVars
  <2>2. Known(j)'
    BY <1>0 DEF JobFacts, JobTypes, Verdicts, Known, Right, Breaks, Goes, poolVars,
       Unended, Leaving
  <2>3. QED
    BY <2>1, <2>2 DEF Verdicts
<1>3. DirsMatchUse'
  BY DEF JobFacts, JobTypes, DirsMatchUse, Breaks, Goes, SameDirs
<1>4. QED
  BY <1>1, <1>2, <1>3 DEF JobFacts

\* A step that does its work, or raises.
LEMMA WorksKeeps ==
  ASSUME JobFacts, NEW j \in Jobs, NEW from \in Unended, NEW to \in Unended,
         NEW out \in Leaving, NEW e, Right(from, e), SameDirs(from, to), SameDirs(from, out),
         Proceeds(j, from, to) \/ Raises(j, from, e, out)
  PROVE  JobFacts'
<1>1. CASE Proceeds(j, from, to)
  BY <1>1, ProceedsKeeps
<1>2. CASE Raises(j, from, e, out)
  <2>1. Breaks(j, from, from, e, out)
    BY <1>2 DEF Raises, Breaks
  <2>2. QED
    BY <2>1, BreaksKeeps
<1>3. QED
  BY <1>1, <1>2

\* The directories there can be.
Directories == {"compiler_", "computenet_wasm_"} \X Jobs

\* A job has two directories.
LEMMA DirectoryOf ==
  ASSUME NEW j \in Jobs
  PROVE  <<"compiler_", j>> \in Directories /\ <<"computenet_wasm_", j>> \in Directories
BY DEF Directories

\* A step makes or removes a directory of its job and leaves the outcome alone.
Redirects(j, from, to) ==
  /\ Goes(j, from, to)
  /\ UNCHANGED <<outcome, ended>>
  /\ dirs' \subseteq Directories
  /\ \A k \in Jobs \ {j} :
       /\ <<"compiler_", k>> \in dirs' <=> <<"compiler_", k>> \in dirs
       /\ <<"computenet_wasm_", k>> \in dirs' <=> <<"computenet_wasm_", k>> \in dirs
  /\ <<"compiler_", j>> \in dirs' <=> to \in InCompiler \cup InOutput
  /\ <<"computenet_wasm_", j>> \in dirs' <=> to \in InOutput

\* On the way in, a step makes a directory.
LEMMA EntersKeeps ==
  ASSUME JobFacts, NEW j \in Jobs, NEW from \in Unended, NEW to \in Unended,
         Redirects(j, from, to)
  PROVE  JobFacts'
<1>1. JobTypes'
  BY DEF JobFacts, JobTypes, Redirects, Goes, poolVars, Directories, Unended, Places,
     InThread, InCompiler, InOutput
<1>2. Verdicts'
  <2>1. \A k \in Jobs \ {j} : Known(k)'
    BY DEF JobFacts, JobTypes, Verdicts, Known, Redirects, Goes, poolVars
  <2>2. Known(j)'
    BY DEF JobFacts, JobTypes, Verdicts, Known, Redirects, Goes, poolVars, Unended, Leaving
  <2>3. QED
    BY <2>1, <2>2 DEF Verdicts
<1>3. DirsMatchUse'
  BY DEF JobFacts, JobTypes, DirsMatchUse, Redirects, Goes
<1>4. QED
  BY <1>1, <1>2, <1>3 DEF JobFacts

\* On the way out, a step removes one.
LEMMA LeavesKeeps ==
  ASSUME JobFacts, NEW j \in Jobs, NEW from \in Leaving, NEW to \in Leaving,
         Redirects(j, from, to)
  PROVE  JobFacts'
<1>1. JobTypes'
  BY DEF JobFacts, JobTypes, Redirects, Goes, poolVars, Directories, Leaving, Places,
     InThread, InCompiler, InOutput
<1>2. Verdicts'
  <2>1. \A k \in Jobs \ {j} : Known(k)'
    BY DEF JobFacts, JobTypes, Verdicts, Known, Redirects, Goes, poolVars
  <2>2. Known(j)'
    BY DEF JobFacts, JobTypes, Verdicts, Known, Redirects, Goes, poolVars, Unended, Leaving
  <2>3. QED
    BY <2>1, <2>2 DEF Verdicts
<1>3. DirsMatchUse'
  BY DEF JobFacts, JobTypes, DirsMatchUse, Redirects, Goes
<1>4. QED
  BY <1>1, <1>2, <1>3 DEF JobFacts

\* The way out of compile_and_execute: what was raised gets its stage.
LEMMA ReturnKeeps ==
  ASSUME JobFacts, NEW j \in Jobs, Return(j)
  PROVE  JobFacts'
<1>0. at[j] \in Leaving /\ "compilation" # Other
  BY DEF Return, Goes, Leaving
<1>1. JobTypes'
  BY DEF JobFacts, JobTypes, Return, Goes, poolVars, Places, InThread, Outcomes
<1>2. Promise!Verdict(ended[j]) # Other
  BY DEF Promise!Verdict
<1>3. ended[j] # "not yet" /\ outcome'[j] = Promise!Verdict(ended[j])
  BY <1>0, <1>2 DEF JobFacts, JobTypes, Verdicts, Known, Return
<1>4. Verdicts'
  <2>1. \A k \in Jobs \ {j} : Known(k)'
    BY DEF JobFacts, JobTypes, Verdicts, Known, Return, Goes, poolVars
  <2>2. Known(j)'
    BY <1>3 DEF JobFacts, JobTypes, Verdicts, Known, Return, Goes, poolVars, Unended, Leaving
  <2>3. QED
    BY <2>1, <2>2 DEF Verdicts
<1>5. DirsMatchUse'
  BY DEF JobFacts, JobTypes, DirsMatchUse, Return, Goes, InCompiler, InOutput
<1>6. QED
  BY <1>1, <1>4, <1>5 DEF JobFacts

\* The steps of a thread, each by its kind.
LEMMA ThreadKeeps ==
  ASSUME JobFacts, NEW j \in Jobs, Thread(j)
  PROVE  JobFacts'
<1> USE DEF SameDirs, Unended, Leaving, InCompiler, InOutput
<1>v. /\ Right("mkdtemp", Other) /\ Right("source", Other) /\ Right("clang", Other)
      /\ Right("outdir", Other) /\ Right("store", Other) /\ Right("load", "compilation")
      /\ Right("link", Other) /\ Right("instantiate", "instantiation")
      /\ Right("lookup", Other) /\ Right("entry", "execution")
      /\ Right("run", "execution") /\ Right("output", Other) /\ Right("ran", "ok")
  BY DEF Right, Promise!Verdict, Promise!Endings, Promise!Compilation, Promise!Execution,
     Promise!Outside, Outcomes
<1>b. ASSUME NEW from, NEW e, NEW to, Raises(j, from, e, to)
      PROVE  Breaks(j, from, from, e, to)
  BY <1>b DEF Raises, Breaks
<1>1. CASE MakeCompiler(j)
  <2>1. CASE Goes(j, "mkdtemp", "source") /\ Makes(j, "compiler_")
    <3>1. Goes(j, "mkdtemp", "source") /\ UNCHANGED <<outcome, ended>>
             /\ dirs' = dirs \cup {<<"compiler_", j>>}
      BY <2>1 DEF Makes
    <3>2. dirs' \subseteq Directories
      BY <3>1, DirectoryOf DEF JobFacts, JobTypes, Directories
    <3>3. /\ <<"compiler_", j>> \in dirs <=> "mkdtemp" \in InCompiler \cup InOutput
          /\ <<"computenet_wasm_", j>> \in dirs <=> "mkdtemp" \in InOutput
      BY <3>1 DEF JobFacts, DirsMatchUse, Goes
    <3>4. Redirects(j, "mkdtemp", "source")
      BY <3>1, <3>2, <3>3 DEF Redirects
    <3>5. QED
      BY <3>4, EntersKeeps
  <2>2. CASE Raises(j, "mkdtemp", Other, "returning")
    BY <2>2, <1>v, <1>b, BreaksKeeps
  <2>3. QED
    BY <1>1, <2>1, <2>2 DEF MakeCompiler
<1>2. CASE WriteSource(j)
  BY <1>2, <1>v, WorksKeeps DEF WriteSource
<1>3. CASE Clang(j)
  BY <1>3, <1>v, WorksKeeps DEF Clang
<1>4. CASE MakeOutput(j)
  <2>1. CASE Goes(j, "outdir", "store") /\ Makes(j, "computenet_wasm_")
    <3>1. Goes(j, "outdir", "store") /\ UNCHANGED <<outcome, ended>>
             /\ dirs' = dirs \cup {<<"computenet_wasm_", j>>}
      BY <2>1 DEF Makes
    <3>2. dirs' \subseteq Directories
      BY <3>1, DirectoryOf DEF JobFacts, JobTypes, Directories
    <3>3. /\ <<"compiler_", j>> \in dirs <=> "outdir" \in InCompiler \cup InOutput
          /\ <<"computenet_wasm_", j>> \in dirs <=> "outdir" \in InOutput
      BY <3>1 DEF JobFacts, DirsMatchUse, Goes
    <3>4. Redirects(j, "outdir", "store")
      BY <3>1, <3>2, <3>3 DEF Redirects
    <3>5. QED
      BY <3>4, EntersKeeps
  <2>2. CASE Raises(j, "outdir", Other, "cleanup")
    BY <2>2, <1>v, <1>b, BreaksKeeps
  <2>3. QED
    BY <1>4, <2>1, <2>2 DEF MakeOutput
<1>5. CASE MakeStore(j)
  BY <1>5, <1>v, WorksKeeps DEF MakeStore
<1>6. CASE Load(j)
  BY <1>6, <1>v, WorksKeeps DEF Load
<1>7. CASE Link(j)
  BY <1>7, <1>v, WorksKeeps DEF Link
<1>8. CASE Instantiate(j)
  BY <1>8, <1>v, WorksKeeps DEF Instantiate
<1>9. CASE Lookup(j)
  BY <1>9, <1>v, WorksKeeps DEF Lookup
<1>10. CASE FindEntry(j)
  BY <1>10, <1>v, WorksKeeps DEF FindEntry
<1>11. CASE Run(j)
  BY <1>11, <1>v, WorksKeeps DEF Run
<1>12. CASE ReadOutput(j)
  <2>1. CASE Raises(j, "output", Other, "closing")
    BY <2>1, <1>v, <1>b, BreaksKeeps
  <2>2. CASE Breaks(j, "output", "ran", "ok", "closing")
    BY <2>2, <1>v, BreaksKeeps
  <2>3. QED
    BY <1>12, <2>1, <2>2 DEF ReadOutput, Breaks
<1>13. CASE CloseOutput(j)
  <2>1. Goes(j, "closing", "cleanup") /\ UNCHANGED <<outcome, ended>>
           /\ dirs' = dirs \ {<<"computenet_wasm_", j>>}
    BY <1>13 DEF CloseOutput, Removes
  <2>2. dirs' \subseteq Directories
    BY <2>1, DirectoryOf DEF JobFacts, JobTypes, Directories
  <2>3. /\ <<"compiler_", j>> \in dirs <=> "closing" \in InCompiler \cup InOutput
        /\ <<"computenet_wasm_", j>> \in dirs <=> "closing" \in InOutput
    BY <2>1 DEF JobFacts, DirsMatchUse, Goes
  <2>4. Redirects(j, "closing", "cleanup")
    BY <2>1, <2>2, <2>3 DEF Redirects
  <2>5. QED
    BY <2>4, LeavesKeeps
<1>14. CASE Cleanup(j)
  <2>1. Goes(j, "cleanup", "returning") /\ UNCHANGED <<outcome, ended>>
           /\ dirs' = dirs \ {<<"compiler_", j>>}
    BY <1>14 DEF Cleanup, Removes
  <2>2. dirs' \subseteq Directories
    BY <2>1, DirectoryOf DEF JobFacts, JobTypes, Directories
  <2>3. /\ <<"compiler_", j>> \in dirs <=> "cleanup" \in InCompiler \cup InOutput
        /\ <<"computenet_wasm_", j>> \in dirs <=> "cleanup" \in InOutput
    BY <2>1 DEF JobFacts, DirsMatchUse, Goes
  <2>4. Redirects(j, "cleanup", "returning")
    BY <2>1, <2>2, <2>3 DEF Redirects
  <2>5. QED
    BY <2>4, LeavesKeeps
<1>15. CASE Return(j)
  BY <1>15, ReturnKeeps
<1>16. QED
  BY <1>1, <1>2, <1>3, <1>4, <1>5, <1>6, <1>7, <1>8, <1>9, <1>10, <1>11, <1>12, <1>13,
     <1>14, <1>15 DEF Thread

\* The result is told, or nobody is left to tell it.
LEMMA TellKeeps ==
  ASSUME JobFacts, NEW j \in Jobs, Tell(j) \/ Drop(j)
  PROVE  JobFacts'
<1>1. JobTypes'
  <2>1. at[j] = "returned"
    BY DEF Tell, Drop
  <2>2. outcome[j] \in {"ok", "compilation", "instantiation", "execution"}
    BY <2>1 DEF JobFacts, Verdicts, Known, Promise!Verdict
  <2>3. QED
    BY <2>2 DEF JobFacts, JobTypes, Tell, Drop, Places
<1>2. Verdicts'
  <2>1. at'[j] = "over" /\ outcome' = outcome /\ ended' = ended
    BY DEF JobFacts, JobTypes, Tell, Drop
  <2>2. \A k \in Jobs \ {j} : at'[k] = at[k] /\ told'[k] = told[k]
    BY DEF JobFacts, JobTypes, Tell, Drop
  <2>3. QED
    BY <2>1, <2>2 DEF JobFacts, Verdicts, Known, Unended, Leaving
<1>3. DirsMatchUse'
  BY DEF JobFacts, JobTypes, DirsMatchUse, Tell, Drop, InCompiler, InOutput
<1>4. QED
  BY <1>1, <1>2, <1>3 DEF JobFacts

\* Every other step leaves the jobs alone, or their outcomes and directories.
LEMMA OtherSteps ==
  ASSUME JobFacts, [Next]_vars, ~ \E j \in Jobs : Thread(j) \/ Tell(j) \/ Drop(j)
  PROVE  Waits \/ UNCHANGED jobVars
<1>1. CASE \E j \in Jobs : Accept(j)
  BY <1>1 DEF Accept, Waits, JobFacts, JobTypes, Places
<1>2. CASE \E j \in Jobs : Begin(j)
  BY <1>2 DEF Begin, Dequeue, Waits, JobFacts, JobTypes, Places, InThread
<1>3. CASE Stop
  BY <1>3 DEF Stop, Waits, JobFacts, JobTypes, Places
<1>4. CASE \/ BeginReading \/ Type \/ ReadLine \/ Dispatched \/ DispatchRaises
           \/ Quiet \/ UNCHANGED vars
           \/ \E j \in Jobs : JobReadsLine(j)
  BY <1>4 DEF BeginReading, Dequeue, Type, ReadLine, Dispatched, DispatchRaises, Quiet,
     JobReadsLine, vars, jobVars
<1>5. QED
  BY <1>1, <1>2, <1>3, <1>4 DEF Next

\* Every step keeps the inductive invariant.
LEMMA StepIInv == IInv /\ [Next]_vars => IInv'
<1> SUFFICES ASSUME IInv, [Next]_vars PROVE IInv'
  OBVIOUS
<1>1. PoolTypes /\ JobFacts
  BY Types DEF IInv, JobFacts
<1>2. PoolTypes'
  BY <1>1, PoolStep
<1>3. JobFacts'
  <2>1. CASE \E j \in Jobs : Thread(j) \/ Tell(j) \/ Drop(j)
    BY <1>1, <2>1, ThreadKeeps, TellKeeps
  <2>2. CASE Waits
    BY <1>1, <2>2, WaitsKeeps
  <2>3. CASE UNCHANGED jobVars
    BY <1>1, <2>3 DEF jobVars, JobFacts, JobTypes, Verdicts, Known, DirsMatchUse
  <2>4. QED
    BY <1>1, <2>1, <2>2, <2>3, OtherSteps
<1>4. QED
  BY <1>2, <1>3 DEF PoolTypes, JobFacts, JobTypes, IInv, TypeOK

\* A node without a job satisfies it.
LEMMA InitIInv == Init => IInv
<1> SUFFICES ASSUME Init PROVE IInv
  OBVIOUS
<1>1. 0 \in 0 .. MaxLines /\ 0 <= 0
  BY ExecutionAssumption
<1>2. <<Stdin>> \in Seq(Jobs \cup {Stdin})
  OBVIOUS
<1>6. TypeOK /\ LinesLeft
  BY <1>1, <1>2 DEF Init, TypeOK, LinesLeft, Places, Outcomes
<1>3. Verdicts
  BY DEF Init, Verdicts, Known, Unended, Leaving
<1>4. DirsMatchUse
  BY DEF Init, DirsMatchUse, InCompiler, InOutput
<1>5. QED
  BY <1>3, <1>4, <1>6 DEF IInv

\* It holds for every behaviour, for any jobs, threads and lines.
LEMMA Invariant == Spec => []IInv
BY InitIInv, StepIInv, PTL DEF Spec

-----------------------------------------------------------------------------
(***************************************************************************)
(* Theorems.                                                               *)
(***************************************************************************)

\* Every variable of the jobs, the pool and the standard input keeps its type;
\* no exception without a stage reaches a requester (compile_and_execute).
THEOREM TypeCorrect == Spec => []TypeOK
BY Invariant, PTL DEF IInv

\* The directories of a job exist exactly while its thread is between their
\* creation and the end of their with block, whatever raises where.
THEOREM Tidiness == Spec => []DirsMatchUse
BY Invariant, PTL DEF IInv

\* Nothing has ended and nothing is told.
LEMMA InitOutcome == Init => Promise!Init
BY DEF Init, Promise!Init

\* A thread that ends a job ends it in the abstract specification, and what is
\* told is the verdict on that end.
LEMMA StepOutcome == IInv /\ [Next]_vars => [Promise!Next]_(Promise!vars)
<1> SUFFICES ASSUME IInv, [Next]_vars PROVE [Promise!Next]_(Promise!vars)
  OBVIOUS
<1>0. JobFacts
  BY Types DEF IInv, JobFacts
<1>1. CASE \E j \in Jobs : Thread(j)
  <2>1. PICK j \in Jobs : Thread(j)
    BY <1>1
  <2>2. at[j] \in Unended \cup Leaving
    BY <2>1 DEF Thread, MakeCompiler, WriteSource, Clang, MakeOutput, MakeStore, Load,
       Link, Instantiate, Lookup, FindEntry, Run, ReadOutput, CloseOutput, Cleanup, Return,
       Proceeds, Raises, Goes, Unended, Leaving
  <2>3. UNCHANGED told
    BY <2>1 DEF Thread, MakeCompiler, WriteSource, Clang, MakeOutput, MakeStore, Load,
       Link, Instantiate, Lookup, FindEntry, Run, ReadOutput, CloseOutput, Cleanup, Return,
       Proceeds, Raises, Goes, poolVars
  <2>4. \/ UNCHANGED ended
        \/ /\ at[j] \in Unended
           /\ \E how \in Promise!Endings : ended' = [ended EXCEPT ![j] = how]
    BY <2>1 DEF Thread, MakeCompiler, WriteSource, Clang, MakeOutput, MakeStore, Load,
       Link, Instantiate, Lookup, FindEntry, Run, ReadOutput, CloseOutput, Cleanup, Return,
       Proceeds, Raises, Goes, Makes, Removes, Unended,
       Promise!Endings, Promise!Compilation, Promise!Execution, Promise!Outside
  <2>5. QED
    BY <1>0, <2>3, <2>4 DEF JobFacts, Verdicts, Known, Promise!Next, Promise!End, Promise!vars
<1>2. CASE \E j \in Jobs : Tell(j)
  <2>1. PICK j \in Jobs : Tell(j)
    BY <1>2
  <2>2. at[j] = "returned" /\ told' = [told EXCEPT ![j] = outcome[j]] /\ ended' = ended
    BY <2>1 DEF Tell
  <2>3. /\ ended[j] # "not yet" /\ told[j] = "nothing"
        /\ outcome[j] = Promise!Verdict(ended[j])
    BY <1>0, <2>2 DEF JobFacts, Verdicts, Known
  <2>4. QED
    BY <2>2, <2>3 DEF Promise!Next, Promise!Tell
<1>3. CASE \E j \in Jobs : Drop(j)
  BY <1>3 DEF Drop, Promise!vars
<1>4. CASE Waits \/ UNCHANGED jobVars
  BY <1>4 DEF Waits, jobVars, Promise!vars
<1>5. QED
  BY <1>0, <1>1, <1>2, <1>3, <1>4, OtherSteps

\* What a requester is told is the verdict on the step that broke: its stage, and
\* "compilation" for the steps that belong to none (JobOutcome).
THEOREM Refinement == Spec => ImplementsOutcome
BY Invariant, InitOutcome, StepOutcome, PTL DEF Spec, Promise!Spec, ImplementsOutcome
=============================================================================

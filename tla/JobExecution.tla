---------------------------- MODULE JobExecution ----------------------------
(***************************************************************************)
(* A job inside a compute node: asyncio.to_thread runs compile_and_execute *)
(* (src/src/compute_node.py with compiler.py, CEE.py and tempdir.py) in    *)
(* the default thread pool, which stdin_loop of main.py uses to read the   *)
(* standard input.  Every step of a job may raise; the exception passes    *)
(* through the with blocks, which remove the temporary directories, and is *)
(* turned into the stage that the requester is told.                       *)
(***************************************************************************)
EXTENDS Naturals, Sequences, FiniteSets

CONSTANTS
  Jobs,
  Workers,    \* threads of the pool: asyncio makes min(32, cpus + 4)
  MaxLines    \* bound of the model on lines typed

ASSUME ExecutionAssumption == Workers \in Nat /\ Workers >= 2 /\ MaxLines \in Nat

VARIABLES
  at,         \* where each job is
  outcome,    \* what its thread returns or the exception it raises
  ended,      \* history: the step that broke, or "ran"
  told,       \* the result sent to its requester
  dirs,       \* temporary directories that exist
  queue,      \* work that waits for a thread
  stdin,      \* where stdin_loop is
  typed, lines,  \* lines typed so far, and those nobody has read
  stopping    \* run() was cancelled, and its handlers with it

vars == <<at, outcome, ended, told, dirs, queue, stdin, typed, lines, stopping>>
poolVars == <<told, queue, stdin, typed, lines, stopping>>

Promise == INSTANCE JobOutcome WITH ended <- ended, told <- told

\* An exception is a JobExecutionError with its stage, or any other.
Other == "exception"
Outcomes == {"none", "ok", Other, "compilation", "instantiation", "execution"}

\* The steps of the thread, between the directories it is in.
InCompiler == {"source", "clang", "outdir", "cleanup"}
InOutput == {"store", "load", "link", "instantiate", "lookup", "entry", "run", "output",
             "closing"}
InThread == {"mkdtemp", "returning"} \cup InCompiler \cup InOutput
Places == {"new", "queued", "returned", "over"} \cup InThread

Stdin == "readline"   \* the work item of stdin_loop in the queue

TypeOK ==
  /\ at \in [Jobs -> Places]
  /\ outcome \in [Jobs -> Outcomes]
  /\ ended \in [Jobs -> Promise!Endings \cup {"not yet"}]
  /\ told \in [Jobs -> {"nothing", "ok", "compilation", "instantiation", "execution"}]
  /\ dirs \subseteq {"compiler_", "computenet_wasm_"} \X Jobs
  /\ queue \in Seq(Jobs \cup {Stdin})
  /\ stdin \in {"queued", "reading", "dispatching", "stopped"}
  /\ typed \in 0 .. MaxLines /\ lines \in 0 .. MaxLines
  /\ stopping \in BOOLEAN

Init ==
  /\ at = [j \in Jobs |-> "new"]
  /\ outcome = [j \in Jobs |-> "none"]
  /\ ended = [j \in Jobs |-> "not yet"]
  /\ told = [j \in Jobs |-> "nothing"]
  /\ dirs = {}
  /\ queue = <<Stdin>>
  /\ stdin = "queued"
  /\ typed = 0 /\ lines = 0
  /\ stopping = FALSE

-----------------------------------------------------------------------------
(***************************************************************************)
(* The event loop and the pool.                                            *)
(***************************************************************************)
Busy == Cardinality({j \in Jobs : at[j] \in InThread}) + (IF stdin = "reading" THEN 1 ELSE 0)

\* The job was acknowledged, and to_thread is called.
Accept(j) ==
  /\ at[j] = "new" /\ ~stopping
  /\ at' = [at EXCEPT ![j] = "queued"]
  /\ queue' = Append(queue, j)
  /\ UNCHANGED <<outcome, ended, told, dirs, stdin, typed, lines, stopping>>

Dequeue ==
  /\ queue # <<>> /\ Busy < Workers
  /\ queue' = Tail(queue)
  /\ UNCHANGED <<outcome, ended, told, dirs, typed, lines, stopping>>

Begin(j) ==
  /\ Dequeue /\ Head(queue) = j
  /\ at[j] = "queued"
  /\ at' = [at EXCEPT ![j] = "mkdtemp"]
  /\ UNCHANGED stdin

BeginReading ==
  /\ Dequeue /\ Head(queue) = Stdin
  /\ stdin' = "reading"
  /\ UNCHANGED at

\* Tell, if a failure were only logged.
TellSuccess(j) ==
  /\ at[j] = "returned" /\ ~stopping
  /\ at' = [at EXCEPT ![j] = "over"]
  /\ told' = IF outcome[j] = "ok" THEN [told EXCEPT ![j] = "ok"] ELSE told
  /\ UNCHANGED <<outcome, ended, dirs, queue, stdin, typed, lines, stopping>>

\* Only while nobody has cancelled the handler.
Tell(j) ==
  /\ at[j] = "returned" /\ ~stopping
  /\ at' = [at EXCEPT ![j] = "over"]
  /\ told' = [told EXCEPT ![j] = outcome[j]]
  /\ UNCHANGED <<outcome, ended, dirs, queue, stdin, typed, lines, stopping>>

\* The result of a cancelled handler is dropped.
Drop(j) ==
  /\ at[j] = "returned" /\ stopping
  /\ at' = [at EXCEPT ![j] = "over"]
  /\ UNCHANGED <<outcome, ended, told, dirs, queue, stdin, typed, lines, stopping>>

\* Work that waits for a thread is cancelled, threads are not.
Stop ==
  /\ ~stopping /\ stopping' = TRUE
  /\ queue' = <<>>
  /\ at' = [j \in Jobs |-> IF at[j] = "queued" THEN "over" ELSE at[j]]
  /\ stdin' = IF stdin = "reading" THEN "reading" ELSE "stopped"
  /\ UNCHANGED <<outcome, ended, told, dirs, typed, lines>>

(***************************************************************************)
(* The standard input.                                                     *)
(***************************************************************************)
Type ==
  /\ typed < MaxLines
  /\ typed' = typed + 1 /\ lines' = lines + 1
  /\ UNCHANGED <<at, outcome, ended, told, dirs, queue, stdin, stopping>>

ReadLine ==
  /\ stdin = "reading" /\ lines > 0
  /\ lines' = lines - 1
  /\ stdin' = IF stopping THEN "stopped" ELSE "dispatching"
  /\ UNCHANGED <<at, outcome, ended, told, dirs, queue, typed, stopping>>

\* attempt_job_dispatch returns, which it need not do (answer_never_comes), and
\* the next readline is submitted.
Dispatched ==
  /\ stdin = "dispatching"
  /\ stdin' = "queued"
  /\ queue' = Append(queue, Stdin)
  /\ UNCHANGED <<at, outcome, ended, told, dirs, typed, lines, stopping>>

\* It raises on a file that is not UTF-8, and nothing catches that in stdin_loop.
DispatchRaises ==
  /\ stdin = "dispatching" /\ stdin' = "stopped"
  /\ UNCHANGED <<at, outcome, ended, told, dirs, queue, typed, lines, stopping>>

\* A job inherits the standard input and reads a line of it.
JobReadsLine(j) ==
  /\ at[j] = "run" /\ lines > 0
  /\ lines' = lines - 1
  /\ UNCHANGED <<at, outcome, ended, told, dirs, queue, stdin, typed, stopping>>

-----------------------------------------------------------------------------
(***************************************************************************)
(* The thread of a job.                                                    *)
(***************************************************************************)
Goes(j, from, to) ==
  /\ at[j] = from
  /\ at' = [at EXCEPT ![j] = to]
  /\ UNCHANGED poolVars

Proceeds(j, from, to) == Goes(j, from, to) /\ UNCHANGED <<outcome, ended, dirs>>

\* The step breaks: the exception takes the thread to the next __exit__.
Raises(j, from, exception, to) ==
  /\ Goes(j, from, to)
  /\ ended' = [ended EXCEPT ![j] = from]
  /\ outcome' = [outcome EXCEPT ![j] = exception]
  /\ UNCHANGED dirs

Makes(j, prefix) == dirs' = dirs \cup {<<prefix, j>>} /\ UNCHANGED <<outcome, ended>>
Removes(j, prefix) == dirs' = dirs \ {<<prefix, j>>} /\ UNCHANGED <<outcome, ended>>

\* Compiler.__init__; if it raises, the with block was not entered.
MakeCompiler(j) ==
  \/ Goes(j, "mkdtemp", "source") /\ Makes(j, "compiler_")
  \/ Raises(j, "mkdtemp", Other, "returning")

\* Compiler.compile.
WriteSource(j) ==
  Proceeds(j, "source", "clang") \/ Raises(j, "source", Other, "cleanup")

Clang(j) ==
  Proceeds(j, "clang", "outdir") \/ Raises(j, "clang", Other, "cleanup")

\* WasmExecutor.execute.  Four of its steps are in none of its try blocks, and
\* what they raise is no JobExecutionError: the set-up of the store, that of the
\* linker, the lookup of the entry point, which is whatever JSON value the
\* requester sent, and the reading of the output.
MakeOutput(j) ==
  \/ Goes(j, "outdir", "store") /\ Makes(j, "computenet_wasm_")
  \/ Raises(j, "outdir", Other, "cleanup")

MakeStore(j) ==
  Proceeds(j, "store", "load") \/ Raises(j, "store", Other, "closing")

Load(j) ==
  Proceeds(j, "load", "link") \/ Raises(j, "load", "compilation", "closing")

Link(j) ==
  Proceeds(j, "link", "instantiate") \/ Raises(j, "link", Other, "closing")

\* Instantiate, if its exceptions were left to the caller.
InstantiateUncaught(j) ==
  Proceeds(j, "instantiate", "lookup") \/ Raises(j, "instantiate", Other, "closing")

Instantiate(j) ==
  \/ Proceeds(j, "instantiate", "lookup")
  \/ Raises(j, "instantiate", "instantiation", "closing")

Lookup(j) ==
  Proceeds(j, "lookup", "entry") \/ Raises(j, "lookup", Other, "closing")

\* The module has no export of that name.
FindEntry(j) ==
  Proceeds(j, "entry", "run") \/ Raises(j, "entry", "execution", "closing")

\* A call of exit() is not a failure.
Run(j) ==
  Proceeds(j, "run", "output") \/ Raises(j, "run", "execution", "closing")

\* ReadOutput, if an exception left the with block without its __exit__.
ReadOutputUnguarded(j) ==
  \/ /\ Goes(j, "output", "closing")
     /\ ended' = [ended EXCEPT ![j] = "ran"]
     /\ outcome' = [outcome EXCEPT ![j] = "ok"]
     /\ UNCHANGED dirs
  \/ Raises(j, "output", Other, "cleanup")

\* The output need not be UTF-8.
ReadOutput(j) ==
  \/ /\ Goes(j, "output", "closing")
     /\ ended' = [ended EXCEPT ![j] = "ran"]
     /\ outcome' = [outcome EXCEPT ![j] = "ok"]
     /\ UNCHANGED dirs
  \/ Raises(j, "output", Other, "closing")

CloseOutput(j) == Goes(j, "closing", "cleanup") /\ Removes(j, "computenet_wasm_")
Cleanup(j) == Goes(j, "cleanup", "returning") /\ Removes(j, "compiler_")

\* Return, if compile_and_execute passed every exception on.
ReturnAsIs(j) == Goes(j, "returning", "returned") /\ UNCHANGED <<outcome, ended, dirs>>

\* Return, if compile_and_execute tried once more whatever failed.
ReturnRetrying(j) ==
  /\ Goes(j, "returning", IF outcome[j] = "ok" THEN "returned" ELSE "mkdtemp")
  /\ UNCHANGED <<outcome, ended, dirs>>

\* compile_and_execute: what is no JobExecutionError becomes one.
Return(j) ==
  /\ Goes(j, "returning", "returned")
  /\ outcome' = [outcome EXCEPT ![j] = IF @ = Other THEN "compilation" ELSE @]
  /\ UNCHANGED <<ended, dirs>>

Thread(j) ==
  \/ MakeCompiler(j) \/ WriteSource(j) \/ Clang(j) \/ MakeOutput(j)
  \/ MakeStore(j) \/ Load(j) \/ Link(j) \/ Instantiate(j)
  \/ Lookup(j) \/ FindEntry(j) \/ Run(j) \/ ReadOutput(j)
  \/ CloseOutput(j) \/ Cleanup(j) \/ Return(j)

\* No job is left; a stopped node may still have a thread that reads.
Quiet ==
  /\ \A j \in Jobs : at[j] = "over" \/ (at[j] = "new" /\ stopping)
  /\ stdin = "stopped" \/ (stdin = "reading" /\ lines = 0)
  /\ UNCHANGED vars

Next ==
  \/ \E j \in Jobs :
       Accept(j) \/ Begin(j) \/ Thread(j) \/ Tell(j) \/ Drop(j) \/ JobReadsLine(j)
  \/ BeginReading \/ Type \/ ReadLine \/ Dispatched \/ DispatchRaises \/ Stop
  \/ Quiet

Spec == Init /\ [][Next]_vars

\* The pool's threads and the event loop run, and jobs end (nothing in
\* the code makes them); nobody is obliged to type, to submit a job or to stop the
\* node, and no dispatch to return.
Progress ==
  \/ \E j \in Jobs : Begin(j) \/ Thread(j) \/ Tell(j) \/ Drop(j)
  \/ BeginReading \/ ReadLine

FairSpec == Spec /\ WF_vars(Progress)

-----------------------------------------------------------------------------
(***************************************************************************)
(* Properties.                                                             *)
(***************************************************************************)

\* Whatever breaks where, a job's directories exist exactly from their
\* creation to the __exit__ of their with block: every step finds its files,
\* and a thread that has ended leaves nothing behind.
DirsMatchUse ==
  \A j \in Jobs :
    /\ <<"compiler_", j>> \in dirs <=> at[j] \in InCompiler \cup InOutput
    /\ <<"computenet_wasm_", j>> \in dirs <=> at[j] \in InOutput

\* The requester is told once, when the job is over, and what JobOutcome says of
\* the step that broke, through all the handlers of exceptions between that step
\* and the reply (compute_node.py, CEE.py).
ImplementsOutcome == Promise!Spec

\* A job that was accepted is answered, whatever waits for threads and for
\* input, unless the node is stopped: reading the standard input takes no more
\* than one thread.
JobsAnswered == \A j \in Jobs : at[j] = "queued" ~> told[j] # "nothing" \/ stopping

\* stdin_loop gets a thread for its next readline although jobs fill the pool,
\* however they fail.  That it then gets every line is not claimed: the jobs that
\* run read from the same input.
ReaderServed == stdin = "queued" ~> stdin = "reading" \/ stopping
=============================================================================

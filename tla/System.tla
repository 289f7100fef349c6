------------------------------- MODULE System -------------------------------
(***************************************************************************)
(* The whole way of a document: Delivery brings its message to the workers *)
(* of Celery, every execution of a worker is a run of Pipeline, and the    *)
(* requests of Review work on what the runs have committed.  Delivery      *)
(* takes a run for a single step; here its steps interleave with those of  *)
(* the upload, of other runs and of requests, and wait for row locks.      *)
(***************************************************************************)
EXTENDS Service

CONSTANTS Workers, MaxRetries, Mishaps, MaxRedeliveries

VARIABLES
    phase, queue, execution, redeliveries, forsaken,   \* see Delivery
    run    \* the run a worker executes

D == INSTANCE Delivery

NoRun == "none"

\* The mishaps are those of tasks and their messages; Delivery has more, of the
\* uploads and the broker.  Where runs have faults that make them raise, Delivery
\* is told that they do.
ASSUME SystemAssumption ==
    /\ NoRun \notin Runs
    /\ Mishaps \subseteq {"raise", "close", "worker_lost", "restore", "hard_limit"}
    /\ Faults \cap {"ocr", "mask", "key", "flush", "soft_limit"} # {}
          => "raise" \in Mishaps

deliveryVars == <<phase, queue, execution, redeliveries, forsaken>>
systemVars == <<serviceVars, deliveryVars, run>>
databaseVars == <<docStatus, reviewTasks, docLock>>

SystemInit ==
    /\ ServiceInit
    /\ D!Init
    /\ run = [w \in Workers |-> NoRun]
-----------------------------------------------------------------------------
Upload(d) ==
    /\ D!Upload(d)
    /\ UNCHANGED <<reviewTasks, docLock, pipelineVars, reviewVars, run>>

\* Runs that no worker has executed: there is one for each delivery.
Unused(d) ==
    {r \in Runs : pc[r] = "idle" /\ doc[r] = d /\ \A w \in Workers : run[w] # r}

\* A worker takes a message: process_document opens a session of its own.
StartTask(w) ==
    /\ D!Receive(w)
    /\ LET d == execution'[w].message.document IN
       /\ Unused(d) # {}
       /\ run' = [run EXCEPT ![w] = CHOOSE r \in Unused(d) : TRUE]
    /\ UNCHANGED <<databaseVars, pipelineVars, reviewVars>>

Executes(w) == run[w] # NoRun

\* A step of the run, on the way to its commit.
RunGoesOn(w) ==
    /\ Executes(w)
    /\ Begin(run[w]) \/ Step(run[w])
    /\ pc'[run[w]] \in Active \ {"raising"}
    /\ UNCHANGED <<deliveryVars, reviewVars, run>>

\* The run of w is about to end with an exception, which will leave the session
\* and the task.  When the document was still to be processed and there will be
\* no retry, it is lost.
TaskRaises(w) ==
    LET m == execution[w].message IN
    /\ D!Becomes(w, "raised")
    /\ IF docStatus[m.document] = "processing" /\ m.retries = MaxRetries
       THEN D!Forsake(w) ELSE UNCHANGED forsaken
    /\ UNCHANGED <<phase, queue, redeliveries, reviewVars, run>>

\* A step of the run raises.
RunRaisesInTask(w) ==
    /\ Executes(w)
    /\ Begin(run[w]) \/ Step(run[w])
    /\ pc'[run[w]] = "raising"
    /\ TaskRaises(w)

\* A statement of the run fails, or the soft limit cancels it, whatever it is
\* doing or waiting for ...
FaultStrikes(w) ==
    /\ Executes(w)
    /\ RunRaises(run[w])
    /\ TaskRaises(w)

\* ... or cuts a step short.
StepIsCutShort(w) ==
    /\ Executes(w)
    /\ SoftLimitInStep(run[w])
    /\ UNCHANGED <<deliveryVars, reviewVars, run>>

RunRollsBack(w) ==
    /\ Executes(w)
    /\ Rollback(run[w])
    /\ UNCHANGED <<deliveryVars, reviewVars, run>>

\* _run_pipeline returns, unless close_db() raises.
RunCommits(w) ==
    /\ Executes(w)
    /\ Commit(run[w])
    /\ \/ D!Becomes(w, "returned")
       \/ "close" \in Mishaps /\ D!Becomes(w, "raised")
    /\ UNCHANGED <<phase, queue, redeliveries, forsaken, reviewVars, run>>

\* The task has returned or raised, and its session is closed.
TaskEnds(w) ==
    /\ Executes(w) /\ pc[run[w]] \in Ended
    /\ D!Acknowledge(w) \/ D!Retry(w)
    /\ run' = [run EXCEPT ![w] = NoRun]
    /\ UNCHANGED <<databaseVars, pipelineVars, reviewVars>>

\* The pool process dies, by accident or by the hard limit, and PostgreSQL
\* aborts the transaction it had open.
TaskIsKilled(w) ==
    /\ D!WorkerLost(w) \/ D!HardLimit(w)
    /\ IF pc[run[w]] \in Active
       THEN WorkerLost(run[w])
       ELSE UNCHANGED <<databaseVars, pipelineVars>>
    /\ run' = [run EXCEPT ![w] = NoRun]
    /\ UNCHANGED reviewVars

\* The broker gives the message of a run under way to another worker.
MessageIsRestored(w) ==
    /\ D!Restore(w)
    /\ UNCHANGED <<databaseVars, pipelineVars, reviewVars, run>>

HandleRequest(s) ==
    /\ R!Handle(s)
    /\ UNCHANGED <<pipelineVars, deliveryVars, run>>

TaskGoesOn(w) ==
    \/ RunGoesOn(w) \/ RunRaisesInTask(w) \/ RunRollsBack(w) \/ RunCommits(w)
    \/ TaskEnds(w)

SystemNext ==
    \/ \E d \in Documents : Upload(d)
    \/ \E w \in Workers :
          \/ StartTask(w) \/ TaskGoesOn(w)
          \/ FaultStrikes(w) \/ StepIsCutShort(w)
          \/ TaskIsKilled(w) \/ MessageIsRestored(w)
    \/ \E s \in Sessions : HandleRequest(s)

SystemSpec == SystemInit /\ [][SystemNext]_systemVars

\* Every process goes on with what it has begun, and idle workers take
\* messages: neither is promised of a process that dies.
SystemFairness ==
    /\ \A d \in Documents : WF_systemVars(phase[d] # "none" /\ Upload(d))
    /\ \A w \in Workers :
          WF_systemVars(StartTask(w)) /\ WF_systemVars(TaskGoesOn(w))
    /\ \A s \in Sessions :
          WF_systemVars(R!Serve(s) /\ UNCHANGED <<pipelineVars, deliveryVars, run>>)

FairSystemSpec == SystemSpec /\ SystemFairness
-----------------------------------------------------------------------------
\* Delivery does not promise too much: seen from the broker, runs that take
\* many steps, fail, wait for each other's locks, die half way or process the
\* document a second time are single steps that succeed or raise, and none of
\* them waits for ever (document_tasks.py:41-89, orchestrator.py:78-172,
\* session.py:80-95).
ImplementsDelivery == D!FairSpec

\* Uploads, runs and requests wait for the same rows, and all of them end; so
\* does the way of every document that was committed.
EverybodyEnds ==
    /\ RunEnds
    /\ R!RequestsEnd
    /\ \A d \in Documents :
          phase[d] = "committed" ~> docStatus[d] \in FinalStatus \/ d \in forsaken
-----------------------------------------------------------------------------
(***************************************************************************)
(* The inductive invariant behind the refinements of Service and Delivery. *)
(***************************************************************************)

\* A worker that is not idle executes a run of its own, on the document of its
\* message; the execution is over with the run, and has returned only if the
\* run has committed.
TaskAgrees(w) ==
    LET e == execution[w] IN
    /\ Executes(w) <=> e # D!Idle
    /\ Executes(w) =>
          /\ doc[run[w]] = e.message.document
          /\ e.pc = "running" <=> pc[run[w]] \notin {"raising"} \cup Ended
          /\ e.pc = "returned" => Committed(run[w])
          /\ \A v \in Workers : run[v] = run[w] => v = w

\* A document is visible once its upload has committed, and one whose mapping
\* is stored is settled: a run that finds one has nothing left to process.  The
\* other reasons to raise are faults, an unusable key among them.
SystemInv ==
    /\ phase = [d \in Documents |-> phase[d]]
    /\ execution \in [Workers -> {D!Idle} \cup D!Execution]
    /\ run \in [Workers -> Runs \cup {NoRun}]
    /\ D!VisibleWhenCommitted
    /\ \A w \in Workers : TaskAgrees(w)
    /\ \A m \in piiMappings : docStatus[m.document] \in FinalStatus
    /\ \A r \in Runs : ~ctx[r].key_usable => "key" \in Faults
=============================================================================

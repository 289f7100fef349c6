------------------------------ MODULE Delivery ------------------------------
(***************************************************************************)
(* From the upload of a document to the end of its processing: the upload  *)
(* handler (app/api/v1/documents.py), the broker, and the Celery task with *)
(* its acknowledgements and retries (app/tasks).  The pipeline itself is   *)
(* what Pipeline shows it to be for a reader of the database: one step     *)
(* that gives the document a final status, or an exception without effect. *)
(*                                                                         *)
(* Celery and Redis are modelled from how they are configured in           *)
(* celery_app.py and docker-compose.yml.                                   *)
(***************************************************************************)
EXTENDS Schema, Naturals, FiniteSets

CONSTANTS
    Documents,
    Workers,          \* pool processes of the Celery worker
    MaxRetries,       \* max_retries of process_document
    Mishaps,          \* what may go wrong
    MaxRedeliveries   \* bound: how often messages are delivered again

MishapKinds ==
    {"upload",       \* a statement, the storage or the API process fails
     "raise",        \* the pipeline raises
     "close",        \* close_db() raises after the commit
     "worker_lost",  \* the pool process dies
     "restore",      \* the broker gives an unacknowledged message out again
     "hard_limit",   \* task_time_limit kills the execution
     "broker",       \* publishing fails
     "evict"}        \* Redis is at maxmemory and evicts the queue

ASSUME DeliveryAssumption ==
    /\ MaxRetries \in Nat \ {0} /\ MaxRedeliveries \in Nat
    /\ Mishaps \subseteq MishapKinds

VARIABLES
    phase,         \* progress of the upload of a document
    docStatus,     \* documents.status, committed
    queue,         \* how many copies of a message are in the broker
    execution,     \* what a worker executes
    redeliveries,
    forsaken       \* documents whose message a mishap has destroyed

vars == <<phase, docStatus, queue, execution, redeliveries, forsaken>>

Message == [document : Documents, retries : 0 .. MaxRetries]
Idle == [pc |-> "idle"]
\* delivered: the message is this execution's to acknowledge.
Execution ==
    [pc : {"running", "raised", "returned"}, message : Message,
     delivered : BOOLEAN]

Uploading == {"saved", "inserted", "published"}
Settled == {"committed", "rolled_back"}

DeliveryTypeOK ==
    /\ phase \in [Documents -> {"none"} \cup Uploading \cup Settled]
    /\ docStatus \in [Documents -> {Absent, "processing"} \cup FinalStatus]
    /\ queue \in [Message -> Nat]
    /\ execution \in [Workers -> {Idle} \cup Execution]
    /\ redeliveries \in 0 .. MaxRedeliveries
    /\ forsaken \subseteq Documents

Init ==
    /\ phase = [d \in Documents |-> "none"]
    /\ docStatus = [d \in Documents |-> Absent]
    /\ queue = [m \in Message |-> 0]
    /\ execution = [w \in Workers |-> Idle]
    /\ redeliveries = 0
    /\ forsaken = {}
-----------------------------------------------------------------------------
(***************************************************************************)
(* upload_document.                                                        *)
(***************************************************************************)
Reaches(d, from, to) ==
    phase[d] = from /\ phase' = [phase EXCEPT ![d] = to]

\* The PDF passed the checks and is written to the storage.
Save(d) ==
    /\ Reaches(d, "none", "saved")
    /\ UNCHANGED <<docStatus, queue, execution, redeliveries, forsaken>>

\* INSERT, flushed and not committed.
Insert(d) ==
    /\ Reaches(d, "saved", "inserted")
    /\ UNCHANGED <<docStatus, queue, execution, redeliveries, forsaken>>

Put(m) == [queue EXCEPT ![m] = @ + 1]

\* process_document.delay(): before the commit.
Publish(d) ==
    /\ Reaches(d, "inserted", "published")
    /\ queue' = Put([document |-> d, retries |-> 0])
    /\ UNCHANGED <<docStatus, execution, redeliveries, forsaken>>

\* Mutant: the status is not set.
CommitUploaded(d) ==
    /\ Reaches(d, "published", "committed")
    /\ docStatus' = [docStatus EXCEPT ![d] = "uploaded"]
    /\ UNCHANGED <<queue, execution, redeliveries, forsaken>>

\* The status is set and get_db_session commits.
CommitUpload(d) ==
    /\ Reaches(d, "published", "committed")
    /\ docStatus' = [docStatus EXCEPT ![d] = "processing"]
    /\ UNCHANGED <<queue, execution, redeliveries, forsaken>>

\* The transaction is rolled back; neither the PDF nor the message is.
UploadFails(d) ==
    /\ "upload" \in Mishaps \/ ("broker" \in Mishaps /\ phase[d] = "inserted")
    /\ phase[d] \in Uploading
    /\ phase' = [phase EXCEPT ![d] = "rolled_back"]
    /\ UNCHANGED <<docStatus, queue, execution, redeliveries, forsaken>>

Upload(d) ==
    Save(d) \/ Insert(d) \/ Publish(d) \/ CommitUpload(d) \/ UploadFails(d)
-----------------------------------------------------------------------------
(***************************************************************************)
(* The execution of a task.                                                *)
(***************************************************************************)
Running(w) == execution[w].pc = "running"
MessageOf(w) == execution[w].message

\* A retry waits for its countdown of 30 s and more; no upload takes so long.
Due(m) == m.retries > 0 => phase[m.document] \in Settled

Receive(w) ==
    \E m \in Message :
        /\ execution[w] = Idle
        /\ queue[m] > 0 /\ Due(m)
        /\ queue' = [queue EXCEPT ![m] = @ - 1]
        /\ execution' = [execution EXCEPT ![w] =
               [pc |-> "running", message |-> m, delivered |-> TRUE]]
        /\ UNCHANGED <<phase, docStatus, redeliveries, forsaken>>

Becomes(w, pc) == execution' = [execution EXCEPT ![w].pc = pc]

\* _run_pipeline commits; after that, close_db() may raise.
Process(w) ==
    \E status \in FinalStatus :
        /\ Running(w)
        /\ docStatus[MessageOf(w).document] # Absent
        /\ docStatus' = [docStatus EXCEPT ![MessageOf(w).document] = status]
        /\ \/ Becomes(w, "returned")
           \/ "close" \in Mishaps /\ Becomes(w, "raised")
        /\ UNCHANGED <<phase, queue, redeliveries, forsaken>>

\* The message of w is gone for good, unless another worker will have it.
Forsake(w) ==
    forsaken' = IF execution[w].delivered
                THEN forsaken \cup {MessageOf(w).document} ELSE forsaken

\* "Document not found"; uq_pii_mapping_document, when the document has been
\* processed before; or any other exception of the pipeline, which for the
\* last attempt is the end.
PipelineRaises(w) ==
    LET d == MessageOf(w).document IN
    /\ Running(w)
    /\ "raise" \in Mishaps \/ docStatus[d] # "processing"
    /\ Becomes(w, "raised")
    /\ IF docStatus[d] = "processing" /\ MessageOf(w).retries = MaxRetries
       THEN Forsake(w) ELSE UNCHANGED forsaken
    /\ UNCHANGED <<phase, docStatus, queue, redeliveries>>

Finish(w) == execution' = [execution EXCEPT ![w] = Idle]

\* task_acks_late: the message is acknowledged when the task has returned.
Acknowledge(w) ==
    /\ execution[w].pc = "returned"
    /\ Finish(w)
    /\ UNCHANGED <<phase, docStatus, queue, redeliveries, forsaken>>

\* Mutants: the old message is requeued too; no retry; retries without limit.
RetryAndRequeue(w) ==
    LET m == MessageOf(w) IN
    /\ execution[w].pc = "raised"
    /\ Finish(w)
    /\ queue' = IF m.retries < MaxRetries
                THEN [Put([m EXCEPT !.retries = @ + 1]) EXCEPT ![m] = @ + 1]
                ELSE queue
    /\ UNCHANGED <<phase, docStatus, redeliveries, forsaken>>
RetryNever(w) ==
    /\ execution[w].pc = "raised"
    /\ Finish(w)
    /\ UNCHANGED <<phase, docStatus, queue, redeliveries, forsaken>>
RetryForEver(w) ==
    LET m == MessageOf(w) IN
    /\ execution[w].pc = "raised"
    /\ Finish(w)
    /\ queue' = Put(IF m.retries < MaxRetries THEN [m EXCEPT !.retries = @ + 1]
                                              ELSE m)
    /\ UNCHANGED <<phase, docStatus, redeliveries, forsaken>>

\* self.retry publishes a new message with one retry more, and the old one is
\* acknowledged; after the last retry, the task fails.
Retry(w) ==
    LET m == MessageOf(w) IN
    /\ execution[w].pc = "raised"
    /\ Finish(w)
    /\ queue' = IF m.retries < MaxRetries
                THEN Put([m EXCEPT !.retries = @ + 1]) ELSE queue
    /\ UNCHANGED <<phase, docStatus, redeliveries, forsaken>>

\* The retry cannot be published: the message is rejected for good.
RetryFails(w) ==
    /\ "broker" \in Mishaps
    /\ execution[w].pc = "raised"
    /\ Finish(w)
    /\ Forsake(w)
    /\ UNCHANGED <<phase, docStatus, queue, redeliveries>>

\* The hard limit: the execution is killed and its message acknowledged.
HardLimit(w) ==
    /\ "hard_limit" \in Mishaps
    /\ Running(w)
    /\ Finish(w)
    /\ Forsake(w)
    /\ UNCHANGED <<phase, docStatus, queue, redeliveries>>

Redelivers ==
    redeliveries < MaxRedeliveries /\ redeliveries' = redeliveries + 1

\* Mutant: without task_reject_on_worker_lost.
WorkerLostAcked(w) ==
    /\ "worker_lost" \in Mishaps
    /\ execution[w] # Idle
    /\ Finish(w)
    /\ UNCHANGED <<phase, docStatus, queue, redeliveries, forsaken>>

\* task_reject_on_worker_lost: the message goes back to the queue.
WorkerLost(w) ==
    /\ "worker_lost" \in Mishaps
    /\ execution[w] # Idle
    /\ Finish(w)
    /\ IF execution[w].delivered
       THEN queue' = Put(MessageOf(w)) /\ Redelivers
       ELSE UNCHANGED <<queue, redeliveries, forsaken>>
    /\ UNCHANGED <<phase, docStatus, forsaken>>

\* Lost connection or visibility timeout: the message is given out again while
\* the execution goes on.
Restore(w) ==
    /\ "restore" \in Mishaps
    /\ execution[w] # Idle /\ execution[w].delivered
    /\ execution' = [execution EXCEPT ![w].delivered = FALSE]
    /\ queue' = Put(MessageOf(w))
    /\ Redelivers
    /\ UNCHANGED <<phase, docStatus, forsaken>>

InBroker(d) == \E m \in Message : m.document = d /\ queue[m] > 0

\* --maxmemory-policy allkeys-lru: the key evicted is the list of the queue.
Evict ==
    /\ "evict" \in Mishaps
    /\ queue' = [m \in Message |-> 0]
    /\ forsaken' = forsaken \cup {d \in Documents : InBroker(d)}
    /\ UNCHANGED <<phase, docStatus, execution, redeliveries>>

\* A reviewer decides on a processed document (api/v1/review.py).
Decide(d) ==
    \E status \in {"reviewed", "failed"} :
        /\ docStatus[d] \in FinalStatus
        /\ docStatus' = [docStatus EXCEPT ![d] = status]
        /\ UNCHANGED <<phase, queue, execution, redeliveries, forsaken>>

Work(w) ==
    Process(w) \/ PipelineRaises(w) \/ Acknowledge(w) \/ Retry(w)

Next ==
    \/ \E d \in Documents : Upload(d) \/ Decide(d)
    \/ \E w \in Workers :
          \/ Receive(w) \/ Work(w) \/ RetryFails(w) \/ HardLimit(w)
          \/ WorkerLost(w) \/ Restore(w)
    \/ Evict

Spec == Init /\ [][Next]_vars

\* Handlers and executions go on, and idle workers take what is due.
FairSpec ==
    /\ Spec
    /\ \A d \in Documents :
          WF_vars(Insert(d) \/ Publish(d) \/ CommitUpload(d) \/ UploadFails(d))
    /\ \A w \in Workers : WF_vars(Work(w)) /\ WF_vars(Receive(w))
-----------------------------------------------------------------------------
(***************************************************************************)
(* Properties.                                                             *)
(***************************************************************************)
\* An execution of d that will acknowledge its message only in exchange for a
\* status or a retry.
AtWork(d) ==
    \E w \in Workers :
        /\ execution[w] # Idle /\ execution[w].delivered
        /\ execution[w].pc # "returned" /\ execution[w].message.document = d

\* A document that is to be processed is never forgotten, although its message
\* may be executed before the document is committed, workers die and messages
\* are delivered twice (documents.py:102-111, celery_app.py:30-32): it has a
\* message until there is an outcome, unless a mishap has destroyed this very
\* message (the hard limit, celery_app.py:34, or the broker) or every attempt
\* has raised.
ProcessingHasMessage ==
    \A d \in Documents :
        docStatus[d] = "processing" => InBroker(d) \/ AtWork(d) \/ d \in forsaken

\* The copies of messages in the broker, the workers that execute one, and the
\* documents a message has been published for.
Queued == UNION {{m} \X (1 .. queue[m]) : m \in Message}
Busy == {w \in Workers : execution[w] # Idle}
Published == {d \in Documents : phase[d] \in {"published"} \cup Settled}

\* Retries and redeliveries do not multiply: each redelivery adds one chain of
\* at most 1 + max_retries attempts to that of an upload, whatever happens
\* (document_tasks.py:55-59).
MessagesDoNotMultiply ==
    Cardinality(Queued) + Cardinality(Busy)
        <= redeliveries + Cardinality(Published)

\* Every document that is committed gets its outcome, unless it is forsaken.
EveryDocumentIsProcessed ==
    \A d \in Documents :
        docStatus[d] = "processing" ~>
            docStatus[d] \in FinalStatus \/ d \in forsaken

\* The message of an upload that was rolled back is not retried for ever.
GhostsDieOut ==
    \A d \in Documents :
        phase[d] = "rolled_back" ~> ~InBroker(d) /\ ~AtWork(d)
-----------------------------------------------------------------------------
(***************************************************************************)
(* The inductive invariant behind ProcessingHasMessage.                    *)
(***************************************************************************)

\* A document is visible once its upload has committed.
VisibleWhenCommitted ==
    \A d \in Documents : docStatus[d] # Absent <=> phase[d] = "committed"

\* From the publication on, and until there is an outcome.
NeverForgotten ==
    \A d \in Documents \ forsaken :
        phase[d] \in {"published", "committed"} /\ docStatus[d] \notin FinalStatus
        => InBroker(d) \/ AtWork(d)

\* A retry starts when the upload is settled: the last one fails to find the
\* document only if there will be none.
RetriesComeLate ==
    \A w \in Workers :
        execution[w] # Idle /\ execution[w].message.retries > 0 =>
            phase[execution[w].message.document] \in Settled

LastAttemptIsLost ==
    \A w \in Workers :
        /\ execution[w] # Idle /\ execution[w].delivered
        /\ execution[w].pc = "raised" /\ execution[w].message.retries = MaxRetries
        => LET d == execution[w].message.document IN
           docStatus[d] \in FinalStatus \/ phase[d] = "rolled_back" \/ d \in forsaken

DeliveryInv ==
    VisibleWhenCommitted /\ NeverForgotten /\ RetriesComeLate /\ LastAttemptIsLost

\* The inductive invariant behind MessagesDoNotMultiply: what it counts can be
\* counted, however many documents and workers there are.
CountInv ==
    /\ IsFiniteSet(Queued) /\ IsFiniteSet(Busy) /\ IsFiniteSet(Published)
    /\ MessagesDoNotMultiply
=============================================================================

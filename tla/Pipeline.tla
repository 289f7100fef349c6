------------------------------ MODULE Pipeline ------------------------------
(***************************************************************************)
(* Concurrent executions of the document pipeline (app/pipeline) against   *)
(* the shared database.  A run is one execution of the body of the Celery  *)
(* task: one session, hence one READ COMMITTED transaction, from the first *)
(* SELECT to the commit of get_async_session.  Several runs may process    *)
(* the same document, because the broker delivers a task at least once.    *)
(*                                                                         *)
(* A step of the pipeline is one action: what it writes stays private to   *)
(* the transaction until Commit.  Steps of different runs meet in the row  *)
(* lock on documents and in the unique constraint on pii_mappings.         *)
(***************************************************************************)
EXTENDS Schema, FiniteSets

CONSTANTS
    Documents,      \* uploaded documents
    PiiDocuments,   \* those in whose text the analyzer finds an entity
    Runs,           \* executions of the task; also the ids of the rows they insert
    Faults          \* the failures that may happen

FaultKinds ==
    {"key",         \* PII_ENCRYPTION_KEY does not decode to 32 bytes
     "ocr",         \* the file or every OCR strategy fails
     "mask",        \* the analyzer raises, or its leakage check finds PII
     "llm",         \* the provider fails or its answer does not parse
     "unmask",      \* "Failed to decrypt" or "failed schema re-validation"
     "normalize",   \* the normalisation step reports an error
     "flush",       \* a statement of the transaction fails in the database
     "soft_limit",  \* SoftTimeLimitExceeded is raised inside a step
     "kill"}        \* the worker dies, or hits the hard limit

ASSUME PipelineAssumption ==
    /\ PiiDocuments \subseteq Documents
    /\ Faults \subseteq FaultKinds

VARIABLES
    \* committed tables
    docStatus,      \* documents.status, per document
    piiMappings,    \* table pii_mappings
    extractions,    \* table extraction_results
    reviewTasks,    \* table review_tasks
    auditLog,       \* the pipeline's rows of audit_logs
    docLock,        \* transactions holding the row lock of a document
    \* executions
    pc,             \* the step the run executes next
    doc,            \* the document_id argument of the run
    ctx,            \* its PipelineContext
    tx              \* its uncommitted writes

tables == <<docStatus, piiMappings, extractions, reviewTasks, auditLog>>
vars == <<docStatus, piiMappings, extractions, reviewTasks, auditLog, docLock,
          pc, doc, ctx, tx>>

CriticalSteps == {"ocr", "pii_mask"}
Steps == CriticalSteps \cup
    {"llm_extract", "unmask", "normalize", "validate", "risk_detect"}
Active == Steps \cup {"conclude", "audit", "commit", "raising"}
Ended == {"committed", "aborted"}

PIIMapping == [id : Runs, document : Documents]
ExtractionResult ==
    [id : Runs, document : Documents, data : {"masked", "real"},
     validation_status : ValidationStatus, risk_level : RiskLevel]
ReviewTask ==
    [id : Runs, document : Documents, priority : ReviewPriority,
     status : ReviewTaskStatus]
AuditEvent ==
    [run : Runs, step : CriticalSteps \cup {"orchestrator"},
     status : AuditEventStatus]

\* The slots of PipelineContext that later steps branch on.  has_errors is
\* "some entry of errors contains 'failed'".  Two slots stand for the worker:
\* key_usable for its settings, limit_spent for its one SoftTimeLimitExceeded.
Context ==
    [key_usable : BOOLEAN,
     pii_mapping_id : BOOLEAN,
     extraction_result : {"none", "masked", "real"},
     extraction_db_id : BOOLEAN,
     risk_assessment : {"none"} \cup RiskLevel,
     has_errors : BOOLEAN,
     final_status : FinalStatus \cup {"processing"},
     limit_spent : BOOLEAN]
NewContext ==
    [key_usable |-> TRUE, pii_mapping_id |-> FALSE, extraction_result |-> "none",
     extraction_db_id |-> FALSE, risk_assessment |-> "none", has_errors |-> FALSE,
     final_status |-> "processing", limit_spent |-> FALSE]

Transaction ==
    [status : {Absent} \cup DocumentStatus, mapping : SUBSET PIIMapping,
     extraction : SUBSET ExtractionResult, task : SUBSET ReviewTask,
     audit : SUBSET AuditEvent]
NoWrites ==
    [status |-> Absent, mapping |-> {}, extraction |-> {}, task |-> {},
     audit |-> {}]

\* The types, whoever else takes row locks.
RunTypeOK ==
    /\ docStatus \in [Documents -> {Absent} \cup DocumentStatus]
    /\ piiMappings \subseteq PIIMapping
    /\ extractions \subseteq ExtractionResult
    /\ reviewTasks \subseteq ReviewTask
    /\ auditLog \subseteq AuditEvent
    /\ docLock = [d \in Documents |-> docLock[d]]
    /\ pc \in [Runs -> {"idle"} \cup Active \cup Ended]
    /\ doc \in [Runs -> Documents]
    /\ ctx \in [Runs -> Context]
    /\ tx \in [Runs -> Transaction]

TypeOK == RunTypeOK /\ docLock \in [Documents -> SUBSET Runs]
-----------------------------------------------------------------------------
Init ==
    /\ docStatus = [d \in Documents |-> Absent]
    /\ piiMappings = {} /\ extractions = {} /\ reviewTasks = {}
    /\ auditLog = {}
    /\ docLock = [d \in Documents |-> {}]
    /\ pc = [r \in Runs |-> "idle"]
    /\ doc \in [Runs -> Documents]
    /\ ctx = [r \in Runs |-> NewContext]
    /\ tx = [r \in Runs |-> NoWrites]

\* The transaction of an upload commits: the document is visible, already
\* "processing".
UploadCommits(d) ==
    /\ docStatus[d] = Absent
    /\ docStatus' = [docStatus EXCEPT ![d] = "processing"]
    /\ UNCHANGED <<piiMappings, extractions, reviewTasks, auditLog, docLock,
                   pc, doc, ctx, tx>>

\* The key of the worker: it may differ from that of an earlier delivery.
Keys == {TRUE} \cup {k \in {FALSE} : "key" \in Faults}

\* A worker starts the task.  The message may have overtaken the commit of
\* the upload: the document is then not found and the run raises.
Begin(r) ==
    \E key \in Keys :
        /\ pc[r] = "idle"
        /\ pc' = [pc EXCEPT ![r] =
                    IF docStatus[doc[r]] = Absent THEN "raising" ELSE "ocr"]
        /\ ctx' = [ctx EXCEPT ![r].key_usable = key]
        /\ UNCHANGED <<tables, docLock, doc, tx>>
-----------------------------------------------------------------------------
(***************************************************************************)
(* How a step ends.                                                        *)
(***************************************************************************)

\* The first UPDATE of the document row takes its lock, until the end of the
\* transaction.
LockDocument(r) ==
    /\ docLock[doc[r]] \subseteq {r}
    /\ docLock' = [docLock EXCEPT ![doc[r]] = {r}]

\* Run r goes on with next, its context and writes being c and t.
Goto(r, next, c, t) ==
    /\ pc' = [pc EXCEPT ![r] = next]
    /\ ctx' = [ctx EXCEPT ![r] = c]
    /\ tx' = [tx EXCEPT ![r] = t]
    /\ UNCHANGED <<tables, doc>>

\* The step returns and its status, if it has one, is flushed.
StepReturns(r, next, c, t) ==
    /\ LockDocument(r)
    /\ Goto(r, next, c, t)

\* A non-critical step raises, or has no status: nothing is flushed after it.
StepGoesOn(r, next, c, t) ==
    /\ Goto(r, next, c, t)
    /\ UNCHANGED docLock

\* A critical step raises: status and audit event are flushed, then
\* PipelineError leaves the session's context manager.
CriticalStepFails(r) ==
    LET event == [run |-> r, step |-> pc[r], status |-> "failure"] IN
    /\ \/ pc[r] = "ocr" /\ Faults \cap {"ocr", "soft_limit"} # {}
       \/ pc[r] = "pii_mask" /\ Faults \cap {"mask", "soft_limit"} # {}
       \/ pc[r] = "pii_mask" /\ doc[r] \in PiiDocuments /\ ~ctx[r].key_usable
    /\ StepReturns(r, "raising",
                   [ctx[r] EXCEPT !.final_status = "failed"],
                   [tx[r] EXCEPT !.status = "failed", !.audit = {event}])

\* The soft limit is signalled once per execution of a task.
LimitMayStrike(r) == "soft_limit" \in Faults /\ ~ctx[r].limit_spent

\* The database transaction is gone and every later use of the session raises:
\* whatever the remaining steps do, the run cannot commit any more.
Doomed(r) ==
    /\ docLock' = [docLock EXCEPT ![doc[r]] = @ \ {r}]
    /\ Goto(r, "raising", ctx[r], NoWrites)

\* A statement or the commit fails (a failed flush rolls the transaction
\* back), or the soft limit strikes while the event loop waits (the run is
\* cancelled, and CancelledError is no Exception to the orchestrator).
RunRaises(r) ==
    /\ "flush" \in Faults \/ LimitMayStrike(r)
    /\ pc[r] \in Steps \cup {"conclude", "audit", "commit"}
    /\ Doomed(r)
-----------------------------------------------------------------------------
(***************************************************************************)
(* The steps, in the order of PipelineOrchestrator._steps.                 *)
(***************************************************************************)
OCR(r) ==
    /\ pc[r] = "ocr"
    /\ StepReturns(r, "pii_mask", ctx[r],
                   [tx[r] EXCEPT !.status = "ocr_complete"])

\* Text without entities has an empty reverse mapping: no row.
MaskClean(r) ==
    /\ pc[r] = "pii_mask"
    /\ doc[r] \notin PiiDocuments
    /\ StepReturns(r, "llm_extract", ctx[r], [tx[r] EXCEPT !.status = "masked"])

\* Mutant: without uq_pii_mapping_document.
MaskPiiUnchecked(r) ==
    LET row == [id |-> r, document |-> doc[r]] IN
    /\ pc[r] = "pii_mask" /\ doc[r] \in PiiDocuments /\ ctx[r].key_usable
    /\ StepReturns(r, "llm_extract",
                   [ctx[r] EXCEPT !.pii_mapping_id = TRUE],
                   [tx[r] EXCEPT !.status = "masked", !.mapping = {row}])

\* Mutant: INSERT ... ON CONFLICT DO NOTHING.
MaskPiiUnlessMapped(r) ==
    LET row == [id |-> r, document |-> doc[r]]
        new == IF \E m \in piiMappings : m.document = doc[r] THEN {} ELSE {row}
    IN
    /\ pc[r] = "pii_mask" /\ doc[r] \in PiiDocuments /\ ctx[r].key_usable
    /\ StepReturns(r, "llm_extract",
                   [ctx[r] EXCEPT !.pii_mapping_id = TRUE],
                   [tx[r] EXCEPT !.status = "masked", !.mapping = new])

\* The reverse mapping is encrypted and inserted.
MaskPii(r) ==
    LET row == [id |-> r, document |-> doc[r]] IN
    /\ pc[r] = "pii_mask"
    /\ doc[r] \in PiiDocuments
    /\ ctx[r].key_usable
    /\ \A m \in piiMappings : m.document # doc[r]
    /\ StepReturns(r, "llm_extract",
                   [ctx[r] EXCEPT !.pii_mapping_id = TRUE],
                   [tx[r] EXCEPT !.status = "masked", !.mapping = {row}])

\* uq_pii_mapping_document: the document already has a mapping.
MappingExists(r) ==
    /\ pc[r] = "pii_mask"
    /\ doc[r] \in PiiDocuments
    /\ ctx[r].key_usable
    /\ \E m \in piiMappings : m.document = doc[r]
    /\ Doomed(r)

StepPIIMask(r) == MaskClean(r) \/ MaskPii(r) \/ MappingExists(r)

\* What the model extracts from the text it was given.
Extracted(r) == IF doc[r] \in PiiDocuments THEN "masked" ELSE "real"

\* Mutant: the response is stored before it is encrypted.
LLMExtractUnencrypted(r) ==
    LET row == [id |-> r, document |-> doc[r], data |-> Extracted(r),
                validation_status |-> "passed", risk_level |-> "low"]
    IN
    /\ pc[r] = "llm_extract"
    /\ StepReturns(r, "unmask",
                   [ctx[r] EXCEPT !.extraction_result = Extracted(r),
                                  !.extraction_db_id = TRUE],
                   [tx[r] EXCEPT !.status = "extracted", !.extraction = {row}])

LLMExtract(r) ==
    LET row == [id |-> r, document |-> doc[r], data |-> Extracted(r),
                validation_status |-> "passed", risk_level |-> "low"]
    IN
    /\ pc[r] = "llm_extract"
    /\ ctx[r].key_usable
    /\ StepReturns(r, "unmask",
                   [ctx[r] EXCEPT !.extraction_result = Extracted(r),
                                  !.extraction_db_id = TRUE],
                   [tx[r] EXCEPT !.status = "extracted", !.extraction = {row}])

\* The call fails: extraction_result stays unset.
LLMFails(r) ==
    /\ pc[r] = "llm_extract"
    /\ "llm" \in Faults
    /\ StepGoesOn(r, "unmask", ctx[r], tx[r])

\* extraction_result is set before the response is encrypted: without a usable
\* key the step raises in between, and no row is inserted.
LLMResultNotStored(r) ==
    /\ pc[r] = "llm_extract"
    /\ ~ctx[r].key_usable
    /\ StepGoesOn(r, "unmask",
                  [ctx[r] EXCEPT !.extraction_result = Extracted(r)], tx[r])

StepLLMExtract(r) == LLMExtract(r) \/ LLMFails(r) \/ LLMResultNotStored(r)

\* Nothing to unmask, or no mapping to do it with.
UnmaskSkipped(r) ==
    /\ pc[r] = "unmask"
    /\ ctx[r].extraction_result = "none" \/ ~ctx[r].pii_mapping_id
    /\ StepGoesOn(r, "normalize", ctx[r], tx[r])

\* The row of the run, if it knows one, with the real values.
RowUnmasked(r) ==
    IF ctx[r].extraction_db_id
    THEN {[x EXCEPT !.data = "real"] : x \in tx[r].extraction}
    ELSE tx[r].extraction

Unmask(r) ==
    /\ pc[r] = "unmask"
    /\ ctx[r].extraction_result # "none" /\ ctx[r].pii_mapping_id
    /\ StepGoesOn(r, "normalize",
                  [ctx[r] EXCEPT !.extraction_result = "real"],
                  [tx[r] EXCEPT !.extraction = RowUnmasked(r)])

\* Mutant: an error message the orchestrator does not recognise.
UnmaskFailsUnnoticed(r) ==
    /\ pc[r] = "unmask"
    /\ ctx[r].extraction_result # "none" /\ ctx[r].pii_mapping_id
    /\ "unmask" \in Faults
    /\ StepGoesOn(r, "normalize", ctx[r], tx[r])

\* The masked data stays in place.
UnmaskFails(r) ==
    /\ pc[r] = "unmask"
    /\ ctx[r].extraction_result # "none" /\ ctx[r].pii_mapping_id
    /\ "unmask" \in Faults
    /\ StepGoesOn(r, "normalize", [ctx[r] EXCEPT !.has_errors = TRUE], tx[r])

StepUnmask(r) == UnmaskSkipped(r) \/ Unmask(r) \/ UnmaskFails(r)

\* External: step_normalize.py rewrites dates and amounts in place.
StepNormalize(r) ==
    \E failed \in {FALSE} \cup {f \in {TRUE} : "normalize" \in Faults} :
        /\ pc[r] = "normalize"
        /\ StepGoesOn(r, "validate",
                      [ctx[r] EXCEPT !.has_errors = @ \/ failed], tx[r])

\* The two last steps need the row of the extraction.
HasRow(r) == ctx[r].extraction_result # "none" /\ ctx[r].extraction_db_id

ValidateSkipped(r) ==
    /\ pc[r] = "validate"
    /\ ~HasRow(r)
    /\ StepReturns(r, "risk_detect", ctx[r],
                   [tx[r] EXCEPT !.status = "validated"])

\* The engine runs; then _map_status reads result.errored_count, which
\* ValidationResult does not have: the step raises before it writes the row.
Validate(r) ==
    /\ pc[r] = "validate"
    /\ HasRow(r)
    /\ StepGoesOn(r, "risk_detect", ctx[r], tx[r])

StepValidate(r) == ValidateSkipped(r) \/ Validate(r)

RiskSkipped(r) ==
    /\ pc[r] = "risk_detect"
    /\ ~HasRow(r)
    /\ StepReturns(r, "conclude", ctx[r],
                   [tx[r] EXCEPT !.status = "validated"])

\* Mutant: the level is not written to the row.
RowWithoutRisk(r, level) == tx[r].extraction

\* The row of the run once detect() has found level.
RowWithRisk(r, level) ==
    {[x EXCEPT !.risk_level = level] : x \in tx[r].extraction}

\* Mutants: a task for too few, and for all.
TaskForHigh(r, level) ==
    IF level \in {"high", "critical"}
    THEN {[id |-> r, document |-> doc[r], priority |-> RiskToPriority(level),
           status |-> "pending"]}
    ELSE {}
TaskForAll(r, level) ==
    {[id |-> r, document |-> doc[r], priority |-> RiskToPriority(level),
      status |-> "pending"]}

\* The task of a flagged extraction.
TaskFor(r, level) ==
    IF RequiresReview(level)
    THEN {[id |-> r, document |-> doc[r], priority |-> RiskToPriority(level),
           status |-> "pending"]}
    ELSE {}

DetectRisk(r) ==
    \E level \in RiskLevel :
        /\ pc[r] = "risk_detect"
        /\ HasRow(r)
        /\ StepReturns(r, "conclude", [ctx[r] EXCEPT !.risk_assessment = level],
                       [tx[r] EXCEPT !.status = "validated",
                                     !.extraction = RowWithRisk(r, level),
                                     !.task = TaskFor(r, level)])

StepRisk(r) == RiskSkipped(r) \/ DetectRisk(r)

\* The soft limit strikes inside the code of a non-critical step.  The
\* orchestrator takes it for the failure of that step, whose message does not
\* say "failed", and goes on with what the step had done so far; the status is
\* not flushed.  A row that was added is inserted with the next flush.
LimitInLLMExtract(r, c) ==
    LET row == [id |-> r, document |-> doc[r], data |-> Extracted(r),
                validation_status |-> "passed", risk_level |-> "low"]
    IN
    /\ pc[r] = "llm_extract"
    /\ \/ \E e \in {"none", Extracted(r)} :
             StepGoesOn(r, "unmask", [c EXCEPT !.extraction_result = e], tx[r])
       \/ \E id_read \in BOOLEAN :    \* the row is added
             /\ ctx[r].key_usable
             /\ StepGoesOn(r, "unmask",
                           [c EXCEPT !.extraction_result = Extracted(r),
                                     !.extraction_db_id = id_read],
                           [tx[r] EXCEPT !.extraction = {row}])

\* In the second validation it is taken for a failure of that.
LimitInUnmask(r, c) ==
    /\ pc[r] = "unmask"
    /\ \/ StepGoesOn(r, "normalize", c, tx[r])
       \/ /\ ctx[r].extraction_result # "none" /\ ctx[r].pii_mapping_id
          /\ \/ StepGoesOn(r, "normalize", [c EXCEPT !.has_errors = TRUE], tx[r])
             \/ \E row_too \in BOOLEAN :
                   StepGoesOn(r, "normalize", [c EXCEPT !.extraction_result = "real"],
                              [tx[r] EXCEPT !.extraction =
                                  IF row_too THEN RowUnmasked(r) ELSE @])

LimitInRisk(r, c) ==
    /\ pc[r] = "risk_detect"
    /\ \/ StepGoesOn(r, "conclude", c, tx[r])
       \/ \E level \in RiskLevel :
             /\ HasRow(r)
             /\ \/ StepGoesOn(r, "conclude", [c EXCEPT !.risk_assessment = level],
                              tx[r])
                \/ \E tasks \in {{}, TaskFor(r, level)} :    \* the row has it
                      StepGoesOn(r, "conclude", [c EXCEPT !.risk_assessment = level],
                                 [tx[r] EXCEPT !.extraction = RowWithRisk(r, level),
                                               !.task = tasks])

SoftLimitInStep(r) ==
    LET c == [ctx[r] EXCEPT !.limit_spent = TRUE] IN
    /\ LimitMayStrike(r)
    /\ \/ LimitInLLMExtract(r, c) \/ LimitInUnmask(r, c) \/ LimitInRisk(r, c)
       \/ pc[r] = "normalize" /\ StepGoesOn(r, "validate", c, tx[r])
       \/ pc[r] = "validate" /\ StepGoesOn(r, "risk_detect", c, tx[r])
-----------------------------------------------------------------------------
(***************************************************************************)
(* The end of a run.                                                       *)
(***************************************************************************)
\* Mutants: a missing extraction is ignored; a status of another table.
FinalStatusOfRisk(c) ==
    IF c.has_errors THEN "failed"
    ELSE IF RequiresReview(c.risk_assessment) THEN "validated"
    ELSE "reviewed"
FinalStatusApproved(c) ==
    IF c.has_errors \/ c.extraction_result = "none" THEN "failed"
    ELSE IF RequiresReview(c.risk_assessment) THEN "validated"
    ELSE "approved"

FinalStatusOf(c) ==
    IF c.has_errors \/ c.extraction_result = "none" THEN "failed"
    ELSE IF RequiresReview(c.risk_assessment) THEN "validated"
    ELSE "reviewed"

Conclude(r) ==
    LET final == FinalStatusOf(ctx[r]) IN
    /\ pc[r] = "conclude"
    /\ StepReturns(r, "audit", [ctx[r] EXCEPT !.final_status = final],
                   [tx[r] EXCEPT !.status = final])

\* Mutant: every outcome is a success.
WriteAuditSuccess(r) ==
    LET event == [run |-> r, step |-> "orchestrator", status |-> "success"] IN
    /\ pc[r] = "audit"
    /\ StepGoesOn(r, "commit", ctx[r], [tx[r] EXCEPT !.audit = {event}])

WriteAudit(r) ==
    LET event ==
          [run |-> r, step |-> "orchestrator",
           status |-> IF ctx[r].final_status = "failed" THEN "failure"
                                                        ELSE "success"]
    IN
    /\ pc[r] = "audit"
    /\ StepGoesOn(r, "commit", ctx[r], [tx[r] EXCEPT !.audit = {event}])

\* session.commit(): every write becomes visible and the row lock is released.
Commit(r) ==
    /\ pc[r] = "commit"
    /\ docStatus' = [docStatus EXCEPT ![doc[r]] = tx[r].status]
    /\ piiMappings' = piiMappings \cup tx[r].mapping
    /\ extractions' = extractions \cup tx[r].extraction
    /\ reviewTasks' = reviewTasks \cup tx[r].task
    /\ auditLog' = auditLog \cup tx[r].audit
    /\ docLock' = [docLock EXCEPT ![doc[r]] = @ \ {r}]
    /\ pc' = [pc EXCEPT ![r] = "committed"]
    /\ tx' = [tx EXCEPT ![r] = NoWrites]
    /\ UNCHANGED <<doc, ctx>>

\* session.rollback(), or the server's when the connection is lost.
Discard(r) ==
    /\ docLock' = [docLock EXCEPT ![doc[r]] = @ \ {r}]
    /\ Goto(r, "aborted", ctx[r], NoWrites)

\* Mutant: a session without `async with`, which the exception leaves open.
RollbackForgotten(r) ==
    /\ pc[r] = "raising"
    /\ Goto(r, "aborted", ctx[r], NoWrites)
    /\ UNCHANGED docLock

Rollback(r) == pc[r] = "raising" /\ Discard(r)

WorkerLost(r) == "kill" \in Faults /\ pc[r] \in Active /\ Discard(r)

Step(r) ==
    \/ OCR(r) \/ StepPIIMask(r) \/ StepLLMExtract(r) \/ StepUnmask(r)
    \/ StepNormalize(r) \/ StepValidate(r) \/ StepRisk(r)
    \/ Conclude(r) \/ WriteAudit(r) \/ Commit(r)
    \/ CriticalStepFails(r) \/ Rollback(r)

Next ==
    \/ \E d \in Documents : UploadCommits(d)
    \/ \E r \in Runs : \/ Begin(r) \/ Step(r)
                      \/ RunRaises(r) \/ SoftLimitInStep(r) \/ WorkerLost(r)

Spec == Init /\ [][Next]_vars

\* A run that is not killed goes on, unless it waits for a row lock.
FairSpec == Spec /\ \A r \in Runs : WF_vars(Step(r))
-----------------------------------------------------------------------------
(***************************************************************************)
(* Properties.                                                             *)
(***************************************************************************)
Committed(r) == pc[r] = "committed"

\* However often the task of a document with PII is delivered, and however its
\* runs interleave, one of them at most commits (row lock of update_status and
\* uq_pii_mapping_document).
PiiProcessedOnce ==
    \A r1, r2 \in Runs :
        /\ Committed(r1) /\ Committed(r2)
        /\ doc[r1] = doc[r2] /\ doc[r1] \in PiiDocuments
        => r1 = r2

\* Every stored extraction of a document with PII was made from the text that
\* the stored reverse mapping of the document reverses
\* (step_unmask.py:12-14, "the audit bridge").
ExtractionIsReversible ==
    \A x \in extractions :
        x.document \in PiiDocuments =>
            \E m \in piiMappings : m.document = x.document /\ m.id = x.id

\* The status a client sees is the one some audit event of a run of the
\* document reports (orchestrator.py:156-165).
OutcomeIsAudited ==
    \A d \in Documents : docStatus[d] \in FinalStatus =>
        \E e \in auditLog :
            doc[e.run] = d /\ (e.status = "failure" <=> docStatus[d] = "failed")

\* No redelivery changes the status of a document with PII once it is settled.
SettledPiiIsFinal ==
    [][\A d \in PiiDocuments : docStatus[d] \in FinalStatus =>
            docStatus'[d] = docStatus[d]]_vars

\* The soft time limit and a useless key make the orchestrator go on where it
\* should not: what a run or the runs of a document promise otherwise.
Disturbed(r) == ctx[r].limit_spent \/ ~ctx[r].key_usable
Undisturbed(d) ==
    \A r \in Runs : Committed(r) /\ doc[r] = d => ~Disturbed(r)

\* An extraction whose stored risk level calls for a human is in the review
\* queue, with the priority of that level (step_risk.py:44-75).
FlaggedHasTask ==
    \A x \in extractions : RequiresReview(x.risk_level) /\ ~Disturbed(x.id) =>
        \E t \in reviewTasks :
            /\ t.id = x.id /\ t.document = x.document
            /\ t.priority = RiskToPriority(x.risk_level)

\* A document is validated only while a review task of it waits
\* (orchestrator.py:142-147).
ValidatedAwaitsReview ==
    \A d \in Documents : docStatus[d] = "validated" /\ Undisturbed(d) =>
        \E t \in reviewTasks : t.document = d /\ t.status = "pending"

\* Only a document with an extraction the detector did not flag is cleared
\* without a human (orchestrator.py:142-147).
Assessed(d) ==
    \E r \in Runs : /\ Committed(r) /\ doc[r] = d
                    /\ ctx[r].risk_assessment = "low"
                    /\ \E x \in extractions : x.id = r
ReviewedWasAssessed ==
    \A d \in Documents : docStatus[d] = "reviewed" => Assessed(d)

\* The same of documents none of whose runs was disturbed.
ClearedWasAssessed ==
    \A d \in Documents :
        docStatus[d] = "reviewed" /\ Undisturbed(d) => Assessed(d)

\* Mask tokens that could not be reversed never reach a cleared document: the
\* run that stored them failed it (step_unmask.py:10-12).
MaskedMeansFailed ==
    \A x \in extractions : x.data = "masked" /\ ~Disturbed(x.id) =>
        ctx[x.id].final_status = "failed"

\* Seen through the committed tables, the interleaved steps are the single
\* steps of AtomicProcessing.
Abstract ==
    INSTANCE AtomicProcessing WITH disturbed <- {r \in Runs : Disturbed(r)}
ImplementsAtomicProcessing == Abstract!Spec

\* A run without a usable key stores nothing that derives from the text of its
\* document, and settles none with PII (crypto.py:17-26): whatever is stored
\* was encrypted, or restored from what was.
NothingStoredWithoutKey ==
    \A r \in Runs : ~ctx[r].key_usable =>
        /\ \A m \in piiMappings : m.id # r
        /\ \A x \in extractions : x.id # r
        /\ Committed(r) => doc[r] \notin PiiDocuments

\* Every run ends, also the one that waits for another's row lock.
RunEnds == \A r \in Runs : pc[r] \in Active ~> pc[r] \in Ended

\* "Audit the failure before returning" (orchestrator.py:136): a run that
\* marked its document failed leaves the event that says so.
FailureIsRecorded ==
    \A r \in Runs :
        pc[r] \in Ended /\ ctx[r].final_status = "failed" =>
            \E e \in auditLog : e.run = r /\ e.status = "failure"
-----------------------------------------------------------------------------
(***************************************************************************)
(* Inductive invariants behind the properties.                             *)
(***************************************************************************)

\* The row pii_mask inserts, if any.
MappingsOf(r) ==
    IF doc[r] \in PiiDocuments THEN {[id |-> r, document |-> doc[r]]} ELSE {}

Masked ==
    {"llm_extract", "unmask", "normalize", "validate", "risk_detect",
     "conclude", "audit", "commit"}

\* What holds of each run: from the first status update to the end it holds
\* the row lock, and once it has masked it carries the one mapping of its
\* document, of which none is committed.
PiiRun(r) ==
    /\ pc[r] \in Masked \cup {"pii_mask"} => docLock[doc[r]] = {r}
    /\ pc[r] \in {"idle", "ocr", "pii_mask"} => tx[r].mapping = {}
    /\ pc[r] \in Masked =>
          /\ tx[r].mapping = MappingsOf(r)
          /\ doc[r] \in PiiDocuments =>
                \A m \in piiMappings : m.document # doc[r]
    /\ Committed(r) => MappingsOf(r) \subseteq piiMappings
    /\ \A x \in tx[r].extraction : x.id = r /\ x.document = doc[r]

\* ... and of the tables.
PiiTables ==
    /\ \A m1, m2 \in piiMappings : m1.document = m2.document => m1 = m2
    /\ \A x \in extractions : x.document = doc[x.id] /\ Committed(x.id)
    /\ \A d \in PiiDocuments : docStatus[d] \in FinalStatus =>
          \E m \in piiMappings : m.document = d

PiiInv == PiiTables /\ \A r \in Runs : PiiRun(r)

\* What the context c and the writes t of run r have to do with each other when
\* it is at p.  There is a row whenever the context has its id, and it has the
\* level that was assessed and the data that are in the context, unless the soft
\* limit came between them ...
LevelOf(c) == IF c.risk_assessment = "none" THEN "low" ELSE c.risk_assessment
DisturbedIn(c) == c.limit_spent \/ ~c.key_usable

RowAgrees(r, p, c, t) ==
    /\ p \in {"idle", "ocr", "pii_mask", "llm_extract"} =>
          /\ c.extraction_result = "none" /\ ~c.extraction_db_id
          /\ t.extraction = {}
    /\ p \in Masked =>
          /\ \E level \in RiskLevel, data \in {"masked", "real"} :
                /\ t.extraction \in {{}, Abstract!RowOf(r, doc[r], level, data)}
                /\ t.task # {} => level = LevelOf(c)
                /\ c.extraction_db_id /\ ~DisturbedIn(c)
                      => level = LevelOf(c) /\ data = c.extraction_result
          /\ c.extraction_db_id => t.extraction # {}
          /\ t.extraction # {} => c.extraction_result # "none" /\ c.key_usable
          /\ c.extraction_result # "none" /\ ~DisturbedIn(c)
                => c.extraction_db_id

\* ... mask tokens are left in a document with PII only when the unmasking has
\* reported an error ...
MaskAgrees(r, p, c) ==
    /\ p = "idle" => c.key_usable
    /\ p \in Masked \cup {"committed"} /\ doc[r] \in PiiDocuments => c.key_usable
    /\ p \in Masked =>
          /\ doc[r] \in PiiDocuments => c.pii_mapping_id
          /\ c.extraction_result = "masked" => doc[r] \in PiiDocuments
    /\ p \in Masked \ {"llm_extract", "unmask"} /\ ~DisturbedIn(c)
          /\ c.extraction_result = "masked" => c.has_errors

\* ... a task comes with a row, and with every row that was flagged ...
RiskAgrees(r, p, c, t) ==
    /\ p \in Steps \cup {"idle"} =>
          c.risk_assessment = "none" /\ t.task = {}
    /\ p \in {"conclude", "audit", "commit"} =>
          /\ t.task \in {{}, TaskFor(r, LevelOf(c))}
          /\ t.task # {} => t.extraction # {}
          /\ c.extraction_db_id /\ ~DisturbedIn(c) =>
                /\ c.risk_assessment # "none"
                /\ t.task = TaskFor(r, c.risk_assessment)

\* ... and the status and the audit event are those of the context.
StatusAgrees(r, p, c, t) ==
    /\ p \in {"audit", "commit"} =>
          /\ c.final_status = FinalStatusOf(c)
          /\ t.status = c.final_status
    /\ p = "commit" => t.audit = {Abstract!EventOf(r, c.final_status)}

\* All this, and the soft limit strikes only where there is one.
Agrees(r, p, c, t) ==
    /\ c.limit_spent => "soft_limit" \in Faults
    /\ RowAgrees(r, p, c, t) /\ MaskAgrees(r, p, c)
    /\ RiskAgrees(r, p, c, t) /\ StatusAgrees(r, p, c, t)

\* Every run agrees with itself, and has its document while it is under way.
Underway == Masked \cup {"ocr", "pii_mask"}
RunsInv ==
    \A r \in Runs :
        /\ Agrees(r, pc[r], ctx[r], tx[r])
        /\ pc[r] \in Underway => docStatus[doc[r]] # Absent

\* The rows that are committed, and the runs that committed them.
OutcomeTables ==
    /\ \A m \in piiMappings : Committed(m.id) /\ ctx[m.id].key_usable
    /\ \A x \in extractions : ctx[x.id].key_usable
    /\ \A e \in auditLog : Committed(e.run)

OutcomeInv ==
    /\ OutcomeTables /\ RunsInv
    /\ OutcomeIsAudited /\ FlaggedHasTask /\ MaskedMeansFailed
    /\ ValidatedAwaitsReview /\ ClearedWasAssessed
=============================================================================

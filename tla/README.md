# A specification of FDIS

FDIS takes financial PDFs, extracts structured data from them with an LLM,
checks and rates what it extracted, and hands what looks risky to human
reviewers. This directory holds TLA+ modules that model its core, TLC
configurations that check them on small instances, and proofs, checked by TLAPS,
of the theorems that matter most for every instance. Paths below are relative to
the root of the repository.

## 1. The system

A client talks to a FastAPI process; documents are processed by Celery workers;
PostgreSQL holds all the state that lasts, Redis holds the queue, and a volume
the PDFs.

| Part | State it keeps | Operations | Interacts by |
| --- | --- | --- | --- |
| Upload endpoint (`app/api/v1/documents.py`) | a row of `documents`, a file | `POST /documents/upload`; reads | stores the file, inserts the row, publishes the task, *then* commits |
| Celery task (`app/tasks/`) | messages in Redis; the execution of each pool process | execute, acknowledge late, retry up to 3 times, time limits | calls the orchestrator in a session of its own |
| Orchestrator and steps (`app/pipeline/`) | a `PipelineContext` per run; uncommitted rows | OCR, mask, extract, unmask, normalise, validate, detect risk; final status; audit event | all writes through one session, committed at the end |
| Sessions (`app/db/`) | transactions, row locks | commit on a clean exit, rollback on an exception | `update_status` takes the row lock of a document |
| Review API (`app/api/v1/review.py`) | `review_tasks`, `review_decisions` | list, get, `POST /review/{id}/decide` | locks the task, then updates the document |
| Audit logger (`app/services/audit/`) | `audit_logs`, append-only | `log` | flushes the session of its caller |
| PII services (`app/services/pii/`) | `pii_mappings`, one row per document, encrypted | mask, check for leaks, encrypt, decrypt, unmask | called by steps |
| OCR, LLM, validation, risk services | none | pure, or calls to libraries and providers | called by steps |
| Users and tokens (`app/services/auth/`, `app/core/security.py`) | `users`; tokens live at the clients | log in, refresh, create | every endpoint checks the token; only `refresh` and `me` read the user's row |

What is hard about it, and what makes each part correct:

* **Delivery is at least once.** `task_acks_late` and
  `task_reject_on_worker_lost` give a message out again after a crash, Redis
  gives it out again after its visibility timeout, and the first execution may
  still be at work. So several runs may process the same document, one after
  the other or at the same time. They are kept apart by the row lock of the
  first `UPDATE documents` and by `uq_pii_mapping_document`. Correct means: a
  reader of the database sees each run entirely or not at all, and a document
  with PII is processed once.
* **The message precedes the row.** The task is published before the upload
  commits, and is not taken back when the upload rolls back. Correct means: a
  document that says `processing` has a message that will get it processed.
* **Steps fail in the middle.** Two steps are critical; any of the others may
  fail half way, and the rest run on what it left behind.
  Whether the document counts as failed depends on the text of the error
  messages. Correct means: nothing is cleared that a human should see, and
  nothing masked is taken for real data.
* **Reviewers race** each other for a task and the pipeline for the document.
  Correct means: one closing decision per task, the document shows it, and
  nothing undoes it.
* **Every failure may also hit the record of a failure**: the audit event of a
  run, a decision, a login or a download shares the transaction it is about,
  and a refused login is an exception. Correct means: the audit trail and what
  the client was told agree.
* **A token outlives what it was minted from.** Correct means: a user who is
  deactivated is locked out in the end.

`PROJECT.json` lists every hazard with the line where it bites and the
properties that would catch it.

## 2. The modules

| Module | Models |
| --- | --- |
| `Schema` | the enumerations of `app/models`, the review threshold, the priority of a task |
| `AtomicProcessing` | abstract: what a reader of the database may rely on. Processing a document is one step |
| `Pipeline` | any number of concurrent runs of the orchestrator, step by step, over the shared database |
| `Review` | any number of concurrent requests to `POST /review/{id}/decide`, statement by statement |
| `DocumentLife` | abstract: what a client and a reviewer see of a document with PII: upload, process, decide |
| `Service` | `Pipeline` and `Review` on one database: the rows, locks and tasks they share |
| `Delivery` | the upload handler, the broker and the Celery task, with the pipeline as one step |
| `System` | `Delivery` and `Service` together: messages, workers, the steps of the runs, requests |
| `Access` | logins, tokens, downloads and queries as concurrent requests, and their audit events |
| `Masking` | operators: what the analyzer may report, the numbering of tokens, replacement, the leakage check, unmasking |
| `Rules` | operators: the validation and risk rules on amounts, dates and descriptions |
| `Extraction` | one run again, from its content: OCR router, masking, LLM call, unmasking, rules |
| `PipelineProofs`, `OutcomeProofs` | theorems about `Pipeline`: the first about types and documents with PII, the second about outcomes and `AtomicProcessing` |
| `ReviewProofs`, `DeliveryProofs`, `AccessProofs` | theorems about the three |
| `ServiceProofs` | theorems about `Service`, on top of those about `Pipeline` and `Review`: runs and requests together, and `DocumentLife` |
| `SystemProofs` | theorems about `System`: to the database its steps are those of `Service`, to the broker those of `Delivery` |
| `ExtractionProofs` | lemmas about the operators of `Masking` and `Rules`; theorems about `Extraction` |
| `MCPipeline`, `MCReview`, `MCService`, `MCDelivery`, `MCSystem`, `MCAccess`, `MCExtraction` | small instances for TLC |

### Pipeline

A *run* is one execution of `_run_pipeline`: one session, so one READ COMMITTED
transaction. `tx[r]` is what it has flushed and not committed, `ctx[r]` the
slots of `PipelineContext` on which later steps branch, `pc[r]` the step it is
about to execute. The tables are what has been committed. A row's id is the run
that inserted it, since a run inserts one row of each kind at most.

A step of the pipeline is one action together with the status update that
follows it. That is the right grain because nothing a run writes is visible
before its commit: runs meet only in the row lock of the document
(`LockDocument`, a guard), in the unique constraint (`MaskPii` against
`MappingExists`) and at `Commit`. Each step has one disjunct per way it ends:
`StepReturns` (the status is flushed), `StepGoesOn` (no status to flush, or a
non-critical failure that the orchestrator swallows), `CriticalStepFails`, and
`RunRaises` (a failed flush has rolled the transaction back, and the session
raises from then on).

`has_errors` in the context abstracts the list of error messages by the only
question asked of it: does one contain "failed"? Failures of the extraction step
leave it alone although many of their messages do contain the word, because
without an extraction the document fails either way.

The soft time limit has actions of its own: the exception strikes inside the
code of a step (`SoftLimitInStep`, `CriticalStepFails`) or while the event loop
waits, which cancels the run (`RunRaises`). In a non-critical step it may strike
between any two statements after which the context or the rows differ:
`LimitInLLMExtract`, `LimitInUnmask` and `LimitInRisk` list what such a step may
leave behind, a row that is added and not known to the context, or an assessment
in the context that is not in the row, among it.

`AtomicProcessing` is what all this looks like from the tables: upload, and
process in one step. Two faults make the orchestrator go on where it should not,
the soft limit and a useless key; a run one of them hits is *disturbed*, and of
it the abstract specification promises only that its writes appear together, not
that they agree. The refinement maps `disturbed` to those runs.

### Review

One action per statement of the handler that waits or reads: `GetForUpdate`
(waits for the lock of the task and reads the latest version), `LoadDocument`
(no lock), `UpdateDocument` (lock; but no statement at all if the status loaded
is already the new one, as SQLAlchemy emits only changed columns),
`AuditDecision`, `CommitDecision`. `update` and `logged` are what the
transaction has written to the document and to the audit trail; only the commit
publishes them, and `AuditFails` and `StatementFails` may strike before it.
FastAPI 0.115 ends a dependency with `yield` before it sends the response, so a
request is answered when it has committed. `Init` allows every state the
pipeline leaves: any final statuses, any pending tasks, at least one for a
validated document.

### Service

`Service` extends `Pipeline` and instantiates `Review` over the same
`docStatus`, `reviewTasks` and `docLock`, with `TaskIds <- Runs`. Each step is a
step of one of them.

`ImplementsDocumentLife` says what the two together promise of a document with
PII: its status and its review change only by the three steps of `DocumentLife`,
however often its task is delivered. In particular a run never disturbs a
reviewer, and a decision and the status it entails are one step to a reader. The
task is part of that: what is validated has an open one from the same instant.
`ValidatedAwaitsDecision` excepts the documents of disturbed runs, as
`ValidatedAwaitsReview` of `Pipeline` does; in `service_all` there are none.

### Delivery

`phase[d]` is the progress of the handler of an upload, `queue[m]` the number of
copies of a message in Redis (a message is a document and the number of retries
it carries), `execution[w]` what a pool process executes. The pipeline is what
`Pipeline` shows it to be from outside: one step that gives the document a final
status, or an exception without effect. `delivered` says that the message is
this execution's to acknowledge: it is not after the broker has given the
message out again. `forsaken` is a history variable: the documents whose message
a mishap has destroyed (the hard limit, which acknowledges it; an eviction; a
retry that cannot be published; an exception on the last attempt). Everything
promised holds of the others. `Decide` stands for the reviewers, who may work on
a document while a redelivered task of it is on its way.

Celery and Redis are modelled from how `celery_app.py` and `docker-compose.yml`
configure them: a message is acknowledged when the task has returned, raised for
good, or has hit the hard limit; requeued when the pool process is lost; and
replaced by one with a retry more by `self.retry`. One assumption about time is
made, in `Due`: the countdown of a retry, 30 s and more, outlasts an upload.
Without it the message of a slow upload would run out of retries before its
document is visible.

### System

`System` puts the steps of `Pipeline` in the place of the one step of
`Delivery`, with the mishaps of tasks and their messages (those of the upload
and of the broker stay in `Delivery`): `run[w]` is the run a worker executes,
each execution being a run of its own. Begin and the steps of a run leave
`Delivery` where it is (`RunGoesOn`); the step that raises, and the commit, are
`PipelineRaises` and `Process`. A run raises by itself, because a critical step
fails or a second mapping is refused (`RunRaisesInTask`), or is struck from
outside (`FaultStrikes`); `TaskRaises` says for both what becomes of the task:
it is retried, or on its last attempt forsakes a document that is still
processing. What `Delivery` cannot see is that the rollback comes after the
exception, that a worker that dies leaves a transaction to abort, and that a run
waits for the locks of others. `ImplementsDelivery` is refinement with fairness:
that a run which has been begun ends is what `Delivery` assumes of its one step.

### Access

A slot of the server serves one request after another, each with a transaction
of its own; FastAPI 0.115 commits it before the answer is sent. `event` is what
the transaction has written, `trail` what of it was committed. The two places
where a handler commits before it raises (`auth.py:57`, `documents.py:181`) are
steps like the commit of a successful request. `token[u]` is what is left of the
freshest token of a user, `minted[r]` of the one in a response under way; time
passes in ticks of which a token lives `Lifetime`. Since `get_current_user` does
not read the user's row, only `refresh` and `me` notice a deactivation.

### Masking, Rules and Extraction

`Pipeline` asks of a step only how it ends; `Extraction` asks what it does to
the data of one document. A text is a sequence of words (a line each, as far as
the rules look), a mask token a pair of a type and a number. The analyzer
reports any part of what it could report, so it may miss anything; the LLM
answers with any figures and, for a bank statement, any transactions, each with
a description copied from the masked text or made up. `Inventions` holds those
it may make up, words and mask tokens alike: the parser validates the schema
alone (`output_parser.py:57-66`), and unmasking replaces the tokens it has in
its map and leaves every other one where it is, without an error
(`unmasker.py:20-26`). `at` in a transaction is the place the description was
copied from, or 0: the code has no such field, it lets properties compare what
came back with what was there. Descriptions stand for all strings of an answer:
the function that restores them walks over every field in the same way, and
that it does so is not followed field by field.

The ways an engine may end are a set per engine; the router's actions say what
comes of them (`NextEngine`, `EngineReads`, `AllEnginesFail`, and
`EngineCrashes` for the exceptions of doctr that are no `OCRError`); `RetryLLM`,
`LLMFails` and `LLMAnswers` are the ways a call ends for both providers. In
`Rules`, amounts are in cents; a sum that misses by exactly a cent may or may
not be reported, since 0.01 is no binary fraction; a missing amount is `Null`
and one given as a string is `Textual`, on which a rule raises. A date is three
numbers and a separator, read as `_parse_date` reads it, by the first format
that gives a day of the calendar; `parties` stands for all the required names,
references and the currency.

## 3. What the runs show

| Run | Checks | Bounds |
| --- | --- | --- |
| `pipeline_all` | types; one committed run per document with PII; extraction and mapping from the same run; outcome and audit agree; nothing is stored without a usable key; a settled document with PII stays; unless disturbed, a flagged extraction has its task, a validated document waits for a review, a cleared one was assessed, and masked data means failed; **`Pipeline` implements `AtomicProcessing`** | 2 runs, 2 documents (one with PII), every fault |
| `extraction_all` | types; no pattern and no reported place is in the prompt; a restored value is of the type of its token; no cleared document shows a token that the masking gave out or the prompt had; missing and textual amounts are reported; what passes validation is complete, adds up (balances and invoice totals) and has no reversed period; no transaction hides another; the run ends | texts of 1 or 2 of 4 words, 14 sets of figures, up to 2 transactions of 3 amounts, 1 made-up token, 1 retry |
| `review_all` | types; one closing decision per task; agreed decisions reach the document; decisions and audit events agree; a refusal has a reason; every request ends | 2 requests, 2 tasks, 2 documents, every failure |
| `service_all` | decisions on a document with PII stand; a validated document awaits a decision; decisions are about flagged extractions; **`Service` implements `DocumentLife`** for documents with PII | 2 runs, 2 requests, 2 documents (one with PII), failures of unmasking |
| `delivery_all` | types; a document that is processing has a message, and gets its outcome, unless it is forsaken; messages do not multiply; ghosts are given up | 2 documents, 2 workers, 2 retries, 1 redelivery, every mishap |
| `system_all` | **`System` implements `Delivery`**, with its fairness; runs, requests and documents come to their end | 1 document with PII, 2 workers, 4 runs, 1 retry, 1 redelivery, 1 approving request, failures of OCR and masking, soft limit, crashes, redelivery, hard limit, `close_db()` |
| `access_all` | types; logins and downloads, also refused ones, are audited; a deactivated user is locked out | 1 user, 1 document, 2 slots, tokens of 2 ticks, every failure |

Two runs are enough to show what runs can do to each other, because all they
share is one row lock and one constraint per document; the theorems of section 5
hold for any number. With two documents both the case of two runs of one
document and that of unrelated ones occur, with and without PII. `MaxRetries` is
3 in the code; with 2 there is a first, a middle and a last attempt, and with 1
in `system_all` a first and a last. `MaxRedeliveries` bounds how often the
broker delivers again, which the code does not bound; with one redelivery and
two workers an execution starts while another of the same message is at work, or
after it. Runs, requests and workers are interchangeable, so `pipeline_all` and
`service_all` use symmetry; the runs that check liveness do not. `system_all`
has a run for each delivery the bounds allow, (1 + `MaxRetries`) * (1 +
`MaxRedeliveries`), and one request, which approves the task of the first run
(`ApprovingInit`): that takes every lock a request can take, and the other
decisions are checked in `review_all` and `service_all`. Two more bounds keep it
in reach (`BoundedNext`): the detector, where it comes to a result, finds a high
risk, and what may strike a run at any time, the soft limit, strikes the first
run, before it has a lock (in OCR) or when it has them all (in the risk step).
Critical steps may fail in every run: a soft limit inside one of them and a
failure of OCR or of the masking are the same step of `Pipeline`
(`CriticalStepFails`). `DeliveryImplemented` has none of these bounds. One user
is enough in `access_all` since requests of different users share nothing; a
slot serves any number of requests, so logins, refreshes and downloads follow
each other in every order. Deadlock is not checked where the modelled executions
and requests come to an end; `Access` serves for ever, and has none.

In `extraction_all` two words are places, one is an account number that also
looks like a phone number, one is no entity and hints at structuring: two
results of a type, two types at a place, and a missed entity all occur. The
figures agree, miss by a cent and by more, are negative, missing and textual;
dates are missing, no day, ambiguous (05/12/2024), readable only with the month
first, and far away; the LLM may make up a token that is in the prompt, one that
is in the reverse map and not in the prompt, or, in other documents, one that is
in neither; `MaxTransactions` is 1, so that two transactions exceed it.
One retry is enough to tell a bounded count from none.

Each passing property has a mutant in `PROJECT.json`: a plausible bug in one of
the modelled operations, kept beside it in the module, under which TLC finds the
property violated.

`RollbackForgotten` serves both properties of `system_all`: the transaction of a
run that has raised stays open, as it would without `async with`
(`session.py:89-95`), and its lock shows to the broker as an execution that
never ends. `StatementFailsUnrolled` is the same omission in a request.

### Disagreements with the repository's own words

Each of these runs checks one sentence of the code's comments and ends with a
counterexample; `PROJECT.json` quotes the sentence.

* `pipeline_failure`: the failed status and audit event of a critical failure
  are flushed and then rolled back by the very exception they record. The
  document stays `processing` once the retries are used up.
* `pipeline_softlimit`: the soft limit inside the risk step is taken for a
  harmless error, and the document is cleared without an assessment, or left
  validated without a review task. A key that is long enough
  (`config.py:86` checks no more) and does not decode to 32 bytes has the same
  effect on a document without PII, as the context says that there is an
  extraction before it is stored (`step_llm_extract.py:48`). In `pipeline_all`
  these are the disturbed runs.
* `review_escalated`: an escalated task refuses every further decision, so its
  document stays validated for ever.
* `service_redelivery`: a redelivered task of a document without PII overwrites
  a reviewer's approval.
* `extraction_realdata`: the masker replaces every entity of a type by the token
  of the last one, so unmasking gives them all the same value: a payment to a
  high-risk place may come back as one to a harmless place and raise no flag.
  `RestoredByType` says how far the damage goes: never across types.

Seven more are modelled or noted here and have no run. `_map_status`
(`step_validate.py:54`) reads `errored_count`, which `ValidationResult` does not
have: every validation of a stored extraction raises, and its row keeps `passed`
and no violations. An exception of doctr's model loader that is no `ImportError`
(`doctr_service.py:31`) is no `OCRError`, so the router does not fall back to
Tesseract. `PIIEntity.token` (`masker.py:121`) numbers all results, where the
map numbers each type; nothing reads it yet. `AuditLogger.log` swallows the
error of a failed flush so that it "should never mask business logic"
(`logger.py:66`), but the flush has rolled back the transaction of the caller,
whose commit then raises (`AuditFails` in `Review` and `Access`): the decision
is lost with its event, so `DecisionsAreAudited` holds, and the 401 of a refused
login or the 404 of a missing file becomes a 500. `PassedIsConsistent` claims
nothing of a period one date of which is a day only with the month first: from
12/05/2024 to 05/31/2024 the first date is read as 12 May and the second as 31
May, so the order rule is content. Nor does it speak of line items, whose wrong
sum is a warning. The parser "Never trusts the raw LLM output"
(`output_parser.py:4`), yet a mask token the LLM made up passes it, and
unmasking leaves it in the record with no error: `ClearedIsRestored` excepts
exactly those. Finally, `get_document_file` "never holds the full document in
memory" (`documents.py:156-157`), but `storage.load` returns all its bytes.

## 4. Fairness

`FairSpec` of `Pipeline` gives each run weak fairness on its own steps: a run
that is not killed goes on, and only a row lock makes it wait (the calls of the
LLM clients have timeouts). Failures get no fairness; nothing has to fail. Weak
fairness is enough since a lock that is free stays free until some run takes it
and a run that waits for it is one of those; where two compete for ever fairness
would have to be strong, but each run takes a lock once and ends. `Extraction`
is one coroutine, with weak fairness on its next step. `Review` does the same
for requests. `Delivery` adds that an idle worker takes a message that is due,
and that the handler of an upload runs on once it has started; `System` says the
same of the steps of its runs, and `ImplementsDelivery` shows that this is
enough for the fairness of `Delivery`. No mishap gets fairness, and
`EveryDocumentIsProcessed` needs none: it excepts the documents that are
forsaken, and those alone. In `Access` time passes (`WF_vars(Tick)`) and
requests are served; `AccessEnds` rests on the first.

## 5. What is proved

The theorems hold for every set of documents, runs, requests, tasks, users and
workers, every set of faults, any number of retries and redeliveries, any texts,
figures and thresholds. They assume what is named in the modules
(`PipelineAssumption`, `ReviewAssumption`, `DeliveryAssumption`,
`ServiceAssumption`, `SystemAssumption`, `AccessAssumption`,
`MaskingAssumption`, `RulesAssumption`, `ExtractionAssumption`): the constants
have their types, runs are no requests, the markers for missing and textual
values are no values of the data, and those for an absent row and for no run are
no document and no run; and `System` has the mishap `"raise"` if it has a fault
that makes a run raise. Two theorems have a hypothesis of their own, which is
named below.

Every safety invariant of the passing runs, the action property
`SettledPiiIsFinal`, the refinements of `AtomicProcessing` and `DocumentLife`,
and that of `Delivery` up to its fairness, are theorems. Each rests on an
inductive invariant, stated after the properties in the module it is about:

* `Pipeline`, documents with PII (`PipelineProofs`). `TypeCorrect`. Then
  `PiiInvariant`. `PiiProcessedOnce` alone is not inductive: nothing in it says
  why a second run cannot commit. `PiiRun` says what a run carries (the row lock
  from its first status update on; once it has masked, exactly the mapping of
  its document, of which none is committed), `PiiTables` what the tables hold
  (one mapping per document; each extraction is of a committed run; a settled
  document with PII has a mapping). `Commit` preserves it because of the lock:
  another run past masking would need it too. From it follow `OneCommit`,
  `Reversible` and the action property `SettledStays`.
* `Pipeline`, outcomes (`OutcomeProofs`). What is committed agrees because what
  is about to be committed does, and that has to be carried through all steps.
  `Agrees(r, p, c, t)` relates the place, the context and the writes of a run:
  the row has the level that was assessed and the data in the context
  (`RowAgrees`); mask tokens are left only after an error was reported
  (`MaskAgrees`); a task comes with every flagged row (`RiskAgrees`); status and
  audit event are those of the context (`StatusAgrees`). The exceptions for
  disturbed runs are part of it, so it holds with every fault. It takes places
  and records rather than a state, so that a step is proved to lead from one
  agreement to another without looking at other runs (`PrivateAgrees`), and
  `Commit` publishes it (`OutcomeInvariant`). Six properties and `Refinement`
  follow: a commit is `Process` of `AtomicProcessing`, anything before it a
  stutter, except that it may disturb the run.
* `Review` (`ReviewProofs`). `ReviewInvariant` proves types and invariant
  together, since the document a request loaded exists only because the lock
  kept its task. `OpenUnderLock` says that between `SELECT ... FOR UPDATE` and
  the commit a request holds the lock of a task nobody has closed;
  `ClosedByDecision` and `ClosedOnce` connect decisions and statuses.
  `NoDoubleDecision` follows. `AgreementWins` is harder: a request emits no
  update if the document it loaded, without a lock, had the new status already.
  `SeenIsCurrent` says when that is right: as long as no decision has advanced
  the document, it still has the status that was loaded; and once one has, the
  property itself says what its status is. `RefusedForAReason` rests on
  `DecisionInv` too, and so does `DecisionsAudited`: `EventIsLogged` says that a
  request reaches its commit with its one event written, because a failure to
  write it ends the request.
* `Service` (`ServiceProofs`). Neither of the two invariants above survives in
  the company of the other component as it is: a run sets statuses behind the
  back of a request, and a request closes tasks that `ValidatedAwaitsReview`
  wants pending. `WholeInv` joins the types, `PiiInv` and `RunsInv`, which
  requests cannot hurt as they touch none of the variables they speak of but
  the status of settled documents, with `ServiceInv`. There
  `TaskTables` ties every task to a flagged extraction of a settled document;
  `RequestAgrees` keeps of `DecisionInv` what runs respect, `SeenIsCurrent` for
  documents with PII only; and `IsAwaited` adds to an open task of a validated
  document that whoever is about to close it has seen the document validated,
  and so will not leave out the update. A redelivered run can undo this of a
  document without PII, but what it validates anew has a new task, which no
  request has seen. `DecisionsStand`, `ValidatedIsAwaited`, `DecisionsNeeded`
  follow. `LifeImplemented` shows each commit of a run or a request to be one
  step of `DocumentLife`. Its hypothesis is that `"soft_limit"` is not among
  the faults: the soft limit may strike between the row of a flagged extraction
  and its task (`pipeline_softlimit`), and then `DocumentLife` is not what
  happens.
* `Delivery` (`DeliveryProofs`). `NothingIsForgotten` rests on `DeliveryInv`: a
  document is visible exactly when its upload has committed; from its
  publication on it has a message in the broker or at work until it has an
  outcome or is forsaken; a retry comes after its upload is settled, by the
  timing assumption of `Due`; and so the last attempt raises only for a document
  that is done, gone or forsaken. `MessagesAreBounded` rests on `CountInv`. The
  copies of messages, the busy workers and the published documents are finite
  sets at any time even if there are infinitely many of each, and each action
  adds to one of them only what it takes from another, or pays with a
  redelivery. No mishap is excluded.
* `System` (`SystemProofs`). `SystemInv` ties the execution of a worker to its
  run: no two workers share one, it works on the document of the message, the
  task is over when the run has raised or ended and has returned only if it has
  committed. It says besides that a document is visible once its upload has
  committed, that one with a stored mapping is settled, and that a key is
  unusable only by that fault. `SystemInvariant` proves it together with
  `WholeInv` for every fault and mishap. `ServiceImplemented` shows that to the
  database broker, workers and uploads are nothing but runs that begin, go on
  and die, so that all theorems of `ServiceProofs` hold of the whole system;
  `DeliveriesDoNoHarm` states three of them. `DeliveryImplemented` is the other
  side: the commit of a run is `Process`, and the exception of a run
  `PipelineRaises`, whatever its reason: its document is not there yet, its
  mapping is, or a fault has struck (`FaultPlaces`). `Delivery` lets a task raise
  for the first two at any time, as for the last with its mishap `"raise"`, which
  `SystemAssumption` asks for when a fault can make a run raise.
* `Access` (`AccessProofs`). `AccessInv` follows an event from the statement
  that writes it to the answer: up to the commit nothing is on the trail and the
  transaction holds exactly the event that the verdict calls for; afterwards the
  trail holds it. The cases that make this more than bookkeeping are the
  handlers that commit before they raise, and failures between the two.
* `Extraction` (`ExtractionProofs`). The weight is in the
  lemmas about operators: the token that wins for a type belongs to the last of
  its results, so it is in the reverse map (`OperatorIsToken`), whose values were
  reported under the type of the token (`ReverseMapTypes`); so what was copied
  from the prompt is restored, and what was made up is either in the map or stays
  (`RestoredWord`, `RestoredInvention`); what was masked shows
  no reported place (`AnonymizedPlace`); the first format of a date's style wins
  (`FirstFormatWins`); a rule on amounts says nothing only if all of them are
  numbers and the sum is right to the cent (`SumRuleResults`), so what is missing
  is reported (`UnverifiableLeavesViolation`); the overall level is the highest
  (`OverallIsHighest`). `ExtractionInv` says that each step left what the next
  one reads. `RestoredOfItsType` has the hypothesis that no word of a document is
  itself a mask token: a PDF in which `<PERSON_1>` is printed would have it
  restored to somebody.

Only model-checked are:

* the liveness properties (`Finishes`, `RequestsEnd`, `EveryDocumentIsProcessed`,
  `GhostsDieOut`, `EverybodyEnds`, `AccessEnds`), since fairness and `ENABLED`
  are out of the prover's reach;
* `ImplementsDelivery` as a whole, since it contains fairness. Its safety part
  is `DeliveryImplemented`;
* the disagreements of section 3, each of them a counterexample.

## 6. What is not modelled, and why

* `step_normalize.py`, `models/user.py`, `repositories/user.py` and
  `core/startup_checks.py` are imported and are not in the repository.
  Normalisation is an external action that may report an error.
* `step_unmask.py:29` imports `SCHEMA_MAP`, where `output_parser.py:26` defines
  `_SCHEMA_MAP`. The models take the import as it is meant.
* Branches no run can reach are left out: a missing OCR or masking result
  (`step_pii_mask.py:41`, `step_llm_extract.py:34`), a mapping or an extraction
  row that its own transaction does not find (`step_unmask.py:60`, `:112`).
* Whether a document has PII is a property of the document: the analyzer is
  taken to be deterministic.
* Prompts; logging, settings and middleware; health probes; the checks an upload
  passes before it is stored; what a page of a query contains.
* `UserService.ensure`, whose race is decided by a constraint of the `users`
  table that the repository does not have, and `touch_last_login`, whose
  statement it does not have either (no lock on the user's row is modelled).
  `Deactivate` is external: no code of the repository clears `is_active`.
* Confidence scores are a set of fields that are below the threshold.
* Words inside longer strings, and so tokens that are part of one; the regular
  expressions of the recognizers.
* Files: a rolled-back upload leaves an orphan that nothing reads.
* Foreign keys take share locks that do not conflict with status updates, so
  they are not locks of the model.

## 7. Plan

The modules are complete as far as the repository goes. All safety properties,
of single components and of the compositions, are proved, and so is the safety
part of every refinement. What is left:

* The theorems of `DeliveryProofs` for `System`. They follow from
  `DeliveryImplemented`, but this prover cannot cite a theorem through an
  `INSTANCE`, so `DeliveryInv` would have to be proved anew over `System`.
* Normalisation and the users' table, when the repository has their code.

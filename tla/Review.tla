------------------------------- MODULE Review -------------------------------
(***************************************************************************)
(* POST /review/{task_id}/decide (app/api/v1/review.py): concurrent        *)
(* requests of reviewers against the review tasks of processed documents.  *)
(* A session is one request, hence one READ COMMITTED transaction: the     *)
(* dependency get_db_session commits it before the response is sent.       *)
(***************************************************************************)
EXTENDS Schema, FiniteSets

CONSTANTS
    Documents,
    TaskIds,        \* ids of rows of review_tasks
    Sessions,       \* requests; also the ids of the decisions they insert
    Failures        \* what may go wrong while a request is served

FailureKinds ==
    {"statement",   \* a statement or the commit fails in the database
     "audit",       \* the INSERT of the audit event fails
     "kill"}        \* the API process dies

ASSUME ReviewAssumption == Failures \subseteq FailureKinds

VARIABLES
    \* committed tables, the first two shared with the pipeline
    docStatus, reviewTasks,
    decisions,      \* table review_decisions
    decisionAudit,  \* the events of review decisions in audit_logs
    \* row locks: the transactions that hold them
    docLock, taskLock,
    \* requests
    spc,            \* what the handler does next
    request,        \* task_id and body.decision
    parent,         \* document_id of the task, as loaded
    seen,           \* documents.status, as loaded
    update,         \* the uncommitted new status of the document, if any
    logged          \* the uncommitted audit events

sessionVars == <<spc, request, parent, seen, update, logged>>
reviewVars == <<decisions, decisionAudit, taskLock, sessionVars>>
vars == <<docStatus, reviewTasks, docLock, reviewVars>>

ReviewTask ==
    [id : TaskIds, document : Documents, priority : ReviewPriority,
     status : ReviewTaskStatus]
ReviewDecision ==
    [id : Sessions, task : TaskIds, decision : ReviewDecisionType]
ReviewEvent ==
    [id : Sessions, decision : ReviewDecisionType, document : Documents]
Request == [task : TaskIds, decision : ReviewDecisionType]

Serving == {"select", "load", "update", "audit", "commit", "raising"}
Served == {"answered", "refused", "failed"}

ReviewTypeOK ==
    /\ docStatus \in [Documents -> {Absent} \cup DocumentStatus]
    /\ reviewTasks \subseteq ReviewTask
    /\ decisions \subseteq ReviewDecision
    /\ decisionAudit \subseteq ReviewEvent
    /\ taskLock \in [TaskIds -> SUBSET Sessions]
    /\ spc \in [Sessions -> {"idle"} \cup Serving \cup Served]
    /\ request \in [Sessions -> Request]
    /\ parent \in [Sessions -> {Absent} \cup Documents]
    /\ seen \in [Sessions -> {Absent} \cup DocumentStatus]
    /\ update \in [Sessions -> {Absent, "reviewed", "failed"}]
    /\ logged \in [Sessions -> SUBSET ReviewEvent]
-----------------------------------------------------------------------------
TerminalStatuses == {"approved", "rejected", "escalated"}

\* Mutant: the decision is taken for the status.
DecisionAsStatus(decision) == decision

DecisionToStatus(decision) ==
    IF decision = "needs_correction" THEN "in_review" ELSE decision

\* The decisions that advance the document, and where to.
Closing == {"approved", "rejected"}
\* Mutant: a rejection leaves the document validated.
OutcomeOfApproval(decision) ==
    IF decision = "approved" THEN "reviewed" ELSE "validated"
Outcome(decision) == IF decision = "approved" THEN "reviewed" ELSE "failed"

\* No request has been received.
InitSessions ==
    /\ decisions = {} /\ decisionAudit = {}
    /\ taskLock = [k \in TaskIds |-> {}]
    /\ spc = [s \in Sessions |-> "idle"]
    /\ request \in [Sessions -> Request]
    /\ parent = [s \in Sessions |-> Absent]
    /\ seen = [s \in Sessions |-> Absent]
    /\ update = [s \in Sessions |-> Absent]
    /\ logged = [s \in Sessions |-> {}]

\* The pipeline has left its documents behind, each with a final status and,
\* when it is validated, a pending task.  A document without PII may have been
\* processed several times and have several tasks; a failed or cleared one may
\* have a pending task too.
Init ==
    /\ docStatus \in [Documents -> FinalStatus]
    /\ \E rows \in SUBSET TaskIds, f \in [TaskIds -> Documents] :
          /\ reviewTasks = {[id |-> k, document |-> f[k],
                             priority |-> "medium", status |-> "pending"]
                              : k \in rows}
          /\ \A d \in Documents :
                docStatus[d] = "validated" => \E k \in rows : f[k] = d
    /\ docLock = [d \in Documents |-> {}]
    /\ InitSessions
-----------------------------------------------------------------------------
Decision(s) == request[s].decision
NewStatus(s) == DecisionToStatus(Decision(s))

\* The handler of session s goes on with next.
Goes(s, next) == spc' = [spc EXCEPT ![s] = next]

Receive(s) ==
    /\ spc[s] = "idle"
    /\ Goes(s, "select")
    /\ UNCHANGED <<docStatus, reviewTasks, docLock, decisions, decisionAudit,
                   taskLock, request, parent, seen, update, logged>>

\* Mutants: a plain SELECT; FOR UPDATE NOWAIT.
GetWithoutLock(s) ==
    \E t \in reviewTasks :
        /\ spc[s] = "select"
        /\ t.id = request[s].task
        /\ parent' = [parent EXCEPT ![s] = t.document]
        /\ Goes(s, IF t.status \in TerminalStatuses THEN "raising"
                   ELSE IF NewStatus(s) \in Closing THEN "load" ELSE "audit")
        /\ UNCHANGED <<docStatus, reviewTasks, docLock, taskLock, decisions,
                       decisionAudit, request, seen, update, logged>>
GetNoWait(s) ==
    LET k == request[s].task IN
    \E t \in reviewTasks :
        /\ spc[s] = "select"
        /\ t.id = k
        /\ taskLock' = IF taskLock[k] = {} THEN [taskLock EXCEPT ![k] = {s}]
                                           ELSE taskLock
        /\ parent' = [parent EXCEPT ![s] = t.document]
        /\ Goes(s, IF t.status \in TerminalStatuses \/ taskLock[k] # {}
                   THEN "raising"
                   ELSE IF NewStatus(s) \in Closing THEN "load" ELSE "audit")
        /\ UNCHANGED <<docStatus, reviewTasks, docLock, decisions,
                       decisionAudit, request, seen, update, logged>>

\* SELECT ... FOR UPDATE waits for the lock and then reads the latest version
\* of the row.
GetForUpdate(s) ==
    LET k == request[s].task IN
    \E t \in reviewTasks :
        /\ spc[s] = "select"
        /\ t.id = k
        /\ taskLock[k] = {}
        /\ taskLock' = [taskLock EXCEPT ![k] = {s}]
        /\ parent' = [parent EXCEPT ![s] = t.document]
        /\ Goes(s, IF t.status \in TerminalStatuses THEN "raising"
                   ELSE IF NewStatus(s) \in Closing THEN "load" ELSE "audit")
        /\ UNCHANGED <<docStatus, reviewTasks, docLock, decisions,
                       decisionAudit, request, seen, update, logged>>

TaskNotFound(s) ==
    /\ spc[s] = "select"
    /\ \A t \in reviewTasks : t.id # request[s].task
    /\ Goes(s, "raising")
    /\ UNCHANGED <<docStatus, reviewTasks, docLock, decisions, decisionAudit,
                   taskLock, request, parent, seen, update, logged>>

\* DocumentRepository.update_status loads the document without a lock ...
LoadDocument(s) ==
    /\ spc[s] = "load"
    /\ seen' = [seen EXCEPT ![s] = docStatus[parent[s]]]
    /\ Goes(s, "update")
    /\ UNCHANGED <<docStatus, reviewTasks, docLock, decisions, decisionAudit,
                   taskLock, request, parent, update, logged>>

\* Mutant: only a document that was loaded as validated is updated.
UpdateValidatedOnly(s) ==
    LET d == parent[s] IN
    /\ spc[s] = "update"
    /\ seen[s] = "validated" => docLock[d] = {}
    /\ docLock' = IF seen[s] = "validated" THEN [docLock EXCEPT ![d] = {s}]
                                           ELSE docLock
    /\ update' = [update EXCEPT ![s] =
                     IF seen[s] = "validated" THEN Outcome(NewStatus(s)) ELSE @]
    /\ Goes(s, "audit")
    /\ UNCHANGED <<docStatus, reviewTasks, decisions, decisionAudit, taskLock,
                   request, parent, seen, logged>>

\* ... and the UPDATE sets the columns that differ from what was loaded.  A
\* rejection also sets error_message, which may differ when the status does
\* not; without a difference there is no UPDATE and no lock.
UpdateDocument(s) ==
    LET d == parent[s]
        new == Outcome(NewStatus(s))
    IN
    \E locks \in {TRUE} \cup {FALSE : x \in {seen[s]} \cap {new}} :
        /\ spc[s] = "update"
        /\ locks => docLock[d] = {} /\ (seen[s] # new \/ new = "failed")
        /\ docLock' = IF locks THEN [docLock EXCEPT ![d] = {s}] ELSE docLock
        /\ update' = [update EXCEPT ![s] = IF seen[s] # new THEN new ELSE @]
        /\ Goes(s, "audit")
        /\ UNCHANGED <<docStatus, reviewTasks, decisions, decisionAudit,
                       taskLock, request, parent, seen, logged>>

\* The event is flushed in the transaction of the decision.
Event(s) == [id |-> s, decision |-> Decision(s), document |-> parent[s]]
AuditDecision(s) ==
    /\ spc[s] = "audit"
    /\ logged' = [logged EXCEPT ![s] = @ \cup {Event(s)}]
    /\ Goes(s, "commit")
    /\ UNCHANGED <<docStatus, reviewTasks, docLock, decisions, decisionAudit,
                   taskLock, request, parent, seen, update>>
-----------------------------------------------------------------------------
Release(s) ==
    /\ docLock' = [d \in DOMAIN docLock |-> docLock[d] \ {s}]
    /\ taskLock' = [k \in TaskIds |-> taskLock[k] \ {s}]

\* The transaction ends without effect and the client gets outcome.
Abandon(s, outcome) ==
    /\ Release(s)
    /\ Goes(s, outcome)
    /\ update' = [update EXCEPT ![s] = Absent]
    /\ logged' = [logged EXCEPT ![s] = {}]
    /\ UNCHANGED <<docStatus, reviewTasks, decisions, decisionAudit, request,
                   parent, seen>>

\* 404 or 409: the exception leaves the session's context manager.
Refuse(s) == spc[s] = "raising" /\ Abandon(s, "refused")

\* Mutant: nobody rolls back after the error, and the aborted transaction keeps
\* its locks.
StatementFailsUnrolled(s) ==
    /\ "statement" \in Failures
    /\ spc[s] \in Serving
    /\ Goes(s, "failed")
    /\ UNCHANGED <<docStatus, reviewTasks, docLock, decisions, decisionAudit,
                   taskLock, request, parent, seen, update, logged>>

StatementFails(s) ==
    /\ "statement" \in Failures
    /\ spc[s] \in Serving
    /\ Abandon(s, "failed")

\* Mutant: the swallowed error leaves the transaction usable.
AuditFailsUnnoticed(s) ==
    /\ "audit" \in Failures
    /\ spc[s] = "audit"
    /\ Goes(s, "commit")
    /\ UNCHANGED <<docStatus, reviewTasks, docLock, decisions, decisionAudit,
                   taskLock, request, parent, seen, update, logged>>

\* log() swallows the error, but the failed flush has rolled the transaction
\* back and session.commit() raises PendingRollbackError.
AuditFails(s) ==
    /\ "audit" \in Failures
    /\ spc[s] = "audit"
    /\ Abandon(s, "failed")

ProcessDies(s) ==
    /\ "kill" \in Failures
    /\ spc[s] \in Serving
    /\ Abandon(s, "failed")

CommitDecision(s) ==
    LET k == request[s].task IN
    /\ spc[s] = "commit"
    /\ decisions' = decisions \cup
         {[id |-> s, task |-> k, decision |-> Decision(s)]}
    /\ reviewTasks' = {IF t.id = k THEN [t EXCEPT !.status = NewStatus(s)]
                                   ELSE t : t \in reviewTasks}
    /\ decisionAudit' = decisionAudit \cup logged[s]
    /\ docStatus' = IF update[s] = Absent THEN docStatus
                    ELSE [docStatus EXCEPT ![parent[s]] = update[s]]
    /\ Release(s)
    /\ Goes(s, "answered")
    /\ update' = [update EXCEPT ![s] = Absent]
    /\ logged' = [logged EXCEPT ![s] = {}]
    /\ UNCHANGED <<request, parent, seen>>

\* The handler itself: what a request that was received goes on to do.
Serve(s) ==
    \/ GetForUpdate(s) \/ TaskNotFound(s) \/ LoadDocument(s)
    \/ UpdateDocument(s) \/ AuditDecision(s) \/ CommitDecision(s) \/ Refuse(s)

Handle(s) ==
    Receive(s) \/ Serve(s) \/ StatementFails(s) \/ AuditFails(s)
               \/ ProcessDies(s)

Next == \E s \in Sessions : Handle(s)

Spec == Init /\ [][Next]_vars

\* The handler runs on: nothing in it waits but for a row lock.
FairSpec == Spec /\ \A s \in Sessions : WF_vars(Serve(s))
-----------------------------------------------------------------------------
(***************************************************************************)
(* Properties.                                                             *)
(***************************************************************************)
Terminal(x) == DecisionToStatus(x.decision) \in TerminalStatuses

\* "... so concurrent reviewers cannot both observe status='pending' and
\* double-decide" (review.py:87-88): a task has one closing decision at most,
\* and it is the one its status shows.
DecidedOnce ==
    \A x \in decisions : Terminal(x) =>
        /\ \A y \in decisions : y.task = x.task /\ Terminal(y) => y = x
        /\ \A t \in reviewTasks : t.id = x.task => t.status = x.decision

\* The decisions on the tasks of document d that advance it.
ClosingDecisions(d) ==
    {x \in decisions : /\ x.decision \in Closing
                       /\ \E t \in reviewTasks : t.id = x.task /\ t.document = d}

\* Reviewers who agree get their way, however their requests interleave: the
\* status of a document is the outcome of the decisions on its tasks when
\* these have the same outcome (review.py:119-132).  The update that is left
\* out because the status loaded earlier was already the new one is harmless.
AgreedOutcome ==
    \A d \in Documents, outcome \in {"reviewed", "failed"} :
        /\ ClosingDecisions(d) # {}
        /\ \A x \in ClosingDecisions(d) : Outcome(x.decision) = outcome
        => docStatus[d] = outcome

\* The audit trail and the decisions tell the same story, whatever fails
\* between them: who decided, what, and on which document (review.py:137-149).
\* A client is told of a decision if and only if its event is on record.
Records(e, x) ==
    /\ e.id = x.id /\ e.decision = x.decision
    /\ \E t \in reviewTasks : t.id = x.task /\ t.document = e.document
DecisionsAreAudited ==
    /\ \A x \in decisions : \E e \in decisionAudit : Records(e, x)
    /\ \A e \in decisionAudit : \E x \in decisions : Records(e, x)
    /\ \A s \in Sessions :
          spc[s] = "answered" <=> \E e \in decisionAudit : e.id = s

\* A request is refused only if another session has closed the task, or there
\* is no such task (review.py:89-94): losing a race for the row is no reason.
RefusedWasDecided ==
    \A s \in Sessions :
        /\ spc[s] = "refused"
        /\ \E t \in reviewTasks : t.id = request[s].task
        => \E x \in decisions : x.task = request[s].task /\ Terminal(x)

\* Reviewers never wait on each other for ever.
RequestsEnd == \A s \in Sessions : spc[s] \in Serving ~> spc[s] \in Served

\* "Escalated / needs_correction: leave at validated; another reviewer or
\* corrective action will move it forward" (review.py:122-123): a validated
\* document has a task that a decision can still close.
ValidatedCanMoveOn ==
    \A d \in Documents : docStatus[d] = "validated" =>
        \E t \in reviewTasks :
            t.document = d /\ t.status \notin TerminalStatuses
-----------------------------------------------------------------------------
(***************************************************************************)
(* The inductive invariant behind DecidedOnce.                             *)
(***************************************************************************)

\* Between the SELECT ... FOR UPDATE and the commit a request holds the lock of
\* the row it loaded, which nobody has closed.
OpenUnderLock(s) ==
    spc[s] \in {"load", "update", "audit", "commit"} =>
        /\ taskLock[request[s].task] = {s}
        /\ \E t \in reviewTasks :
              /\ t.id = request[s].task /\ t.document = parent[s]
              /\ t.status \notin TerminalStatuses

ClosedByDecision ==
    \A x \in decisions : Terminal(x) =>
        \E t \in reviewTasks : t.id = x.task /\ t.status = x.decision

ClosedOnce ==
    \A x, y \in decisions : Terminal(x) /\ Terminal(y) /\ x.task = y.task => x = y

TaskIdIsKey == \A t, u \in reviewTasks : t.id = u.id => t = u

ReviewInv ==
    /\ TaskIdIsKey /\ ClosedByDecision /\ ClosedOnce
    /\ \A s \in Sessions : OpenUnderLock(s)
-----------------------------------------------------------------------------
(***************************************************************************)
(* The inductive invariant behind the other properties.                    *)
(***************************************************************************)

\* A task is closed by a decision, and a request is only refused because of
\* one: what a row or a refusal says does not come from nowhere.
HasClosing(k) == \E x \in decisions : x.task = k /\ Terminal(x)
HasTask(k) == \E t \in reviewTasks : t.id = k

RefusalHasReason ==
    /\ \A t \in reviewTasks : t.status \in TerminalStatuses => HasClosing(t.id)
    /\ \A s \in Sessions :
          spc[s] \in {"raising", "refused"} /\ HasTask(request[s].task)
            => HasClosing(request[s].task)

\* The update of a request is the outcome of its decision, unless the document
\* had that status when it was loaded ...
UpdateIsOutcome(s) ==
    /\ spc[s] \in {"idle", "select", "load", "update", "raising"} =>
          update[s] = Absent
    /\ spc[s] \in {"load", "update"} => Decision(s) \in Closing
    /\ spc[s] \in {"audit", "commit"} =>
          update[s] = IF \/ Decision(s) \notin Closing
                         \/ seen[s] = Outcome(Decision(s))
                      THEN Absent ELSE Outcome(Decision(s))

\* ... and until a decision has advanced the document it still has it.
SeenIsCurrent(s) ==
    /\ spc[s] \in {"update", "audit", "commit"} /\ Decision(s) \in Closing
    /\ ClosingDecisions(parent[s]) = {}
    => seen[s] = docStatus[parent[s]]

\* A request that is about to commit has logged its one event.
EventIsLogged(s) == logged[s] = IF spc[s] = "commit" THEN {Event(s)} ELSE {}

DecisionInv ==
    /\ DecisionsAreAudited /\ RefusalHasReason /\ AgreedOutcome
    /\ \A s \in Sessions :
          UpdateIsOutcome(s) /\ SeenIsCurrent(s) /\ EventIsLogged(s)
=============================================================================

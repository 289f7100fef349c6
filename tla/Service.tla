------------------------------ MODULE Service -------------------------------
(***************************************************************************)
(* The pipeline and the reviewers on one database.  They meet in three     *)
(* places: the row of a document and its lock, the review tasks a run      *)
(* inserts, and the fact that a redelivered run may process a document     *)
(* again after a human has decided on it.                                  *)
(***************************************************************************)
EXTENDS Pipeline

CONSTANTS Sessions, Failures

VARIABLES
    decisions, decisionAudit, taskLock, spc, request, parent, seen, update, logged

\* The id of a review task is the run that inserted it.
R == INSTANCE Review WITH TaskIds <- Runs

ASSUME ServiceAssumption == Sessions \cap Runs = {}

reviewVars ==
    <<decisions, decisionAudit, taskLock, spc, request, parent, seen, update,
      logged>>
pipelineVars == <<piiMappings, extractions, auditLog, pc, doc, ctx, tx>>
serviceVars == <<vars, reviewVars>>

ServiceInit == Init /\ R!InitSessions

ServiceNext ==
    \/ Next /\ UNCHANGED reviewVars
    \/ \E s \in Sessions : R!Handle(s) /\ UNCHANGED pipelineVars

ServiceSpec == ServiceInit /\ [][ServiceNext]_serviceVars
-----------------------------------------------------------------------------
\* What reviewers said of document d is what its status says.
DecisionStands(d) ==
    \A x \in R!ClosingDecisions(d) : docStatus[d] = R!Outcome(x.decision)

\* The pipeline never undoes what a reviewer decided on a document with PII
\* (review.py:119-132), although its task may be delivered again at any time.
PiiDecisionStands == \A d \in PiiDocuments : DecisionStands(d)

\* "Approved -> reviewed (terminal, accepted by a human)" (review.py:120): the
\* same of every document that was approved and never rejected.
ApprovedIsTerminal ==
    \A d \in Documents :
        /\ R!ClosingDecisions(d) # {}
        /\ \A x \in R!ClosingDecisions(d) : x.decision = "approved"
        => docStatus[d] = "reviewed"

\* A document, unless one of its runs was disturbed, is validated only while a
\* task of it is open or escalated (orchestrator.py:142-147), however runs and
\* requests interleave: a request that skips its update, because of the status
\* it loaded, never leaves it so.
ValidatedAwaitsDecision ==
    \A d \in Documents : docStatus[d] = "validated" /\ Undisturbed(d) =>
        \E t \in reviewTasks :
            t.document = d /\ t.status \in {"pending", "in_review", "escalated"}

\* A decision is about an extraction that was stored and assessed as one that
\* needs a human (step_risk.py:44-46, review.py:89-114).
DecisionsAreAboutFlagged ==
    \A x \in decisions :
        \E y \in extractions : y.id = x.task /\ RequiresReview(y.risk_level)

\* The review of document d: that of its task, if it has one.
TasksOf(d) == {t \in reviewTasks : t.document = d}
ReviewOf(d) ==
    IF TasksOf(d) = {} THEN "none"
    ELSE LET status == (CHOOSE t \in TasksOf(d) : TRUE).status IN
         IF status \in {"pending", "in_review"} THEN "open" ELSE status

\* To its client and its reviewers, a document with PII lives the life of
\* DocumentLife, however runs and requests interleave.
Life ==
    INSTANCE DocumentLife WITH
        Documents <- PiiDocuments,
        docStatus <- [d \in PiiDocuments |-> docStatus[d]],
        review <- [d \in PiiDocuments |-> ReviewOf(d)]
ImplementsDocumentLife == Life!Spec
-----------------------------------------------------------------------------
(***************************************************************************)
(* The inductive invariant behind the properties.                          *)
(***************************************************************************)

\* A task belongs to a flagged extraction of a document that is settled.
TaskIsFlagged(t) ==
    /\ docStatus[t.document] \in FinalStatus
    /\ \E y \in extractions :
          /\ y.id = t.id /\ y.document = t.document
          /\ RequiresReview(y.risk_level)

\* What the decisions and the tasks have to do with each other.
TaskTables ==
    /\ R!TaskIdIsKey /\ R!ClosedByDecision
    /\ \A t \in reviewTasks : TaskIsFlagged(t)
    /\ \A x \in decisions : R!HasTask(x.task)

\* A request holds the lock of the open task it works on, and writes the
\* outcome of its decision; of a document with PII, which no run disturbs, it
\* knows whether it has that outcome already.
RequestAgrees(s) ==
    /\ R!OpenUnderLock(s) /\ R!UpdateIsOutcome(s)
    /\ parent[s] \in PiiDocuments => R!SeenIsCurrent(s)

\* Of a validated document there is an open task, and a request that is about
\* to close it has seen the document validated: it is not going to leave out
\* the update.
IsOpen(t) == t.status \in {"pending", "in_review", "escalated"}
IsAwaited(d) ==
    docStatus[d] = "validated" /\ Undisturbed(d) =>
        \E t \in reviewTasks :
            /\ t.document = d /\ IsOpen(t)
            /\ \A s \in Sessions :
                  /\ request[s].task = t.id
                  /\ spc[s] \in {"update", "audit", "commit"}
                  /\ R!Decision(s) \in R!Closing
                  => seen[s] = "validated"

ServiceInv ==
    /\ TaskTables /\ PiiDecisionStands
    /\ \A s \in Sessions : RequestAgrees(s)
    /\ \A d \in Documents :
          /\ docStatus[d] \in {Absent, "processing"} \cup FinalStatus
          /\ IsAwaited(d)
=============================================================================

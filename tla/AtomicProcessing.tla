-------------------------- MODULE AtomicProcessing --------------------------
(***************************************************************************)
(* What the pipeline promises to a reader of the database: processing a    *)
(* document is one step.  Its mapping, extraction, review task, audit      *)
(* event and status appear together or not at all, and a document with PII *)
(* is processed once.  They also agree with each other, unless the run was *)
(* disturbed: by its soft time limit, or by an encryption key of no use.   *)
(***************************************************************************)
EXTENDS Schema

CONSTANTS Documents, PiiDocuments, Runs

VARIABLES
    docStatus, piiMappings, extractions, reviewTasks, auditLog,
    disturbed    \* runs of which less is promised

tables == <<docStatus, piiMappings, extractions, reviewTasks, auditLog>>
vars == <<tables, disturbed>>

Init ==
    /\ docStatus = [d \in Documents |-> Absent]
    /\ piiMappings = {} /\ extractions = {} /\ reviewTasks = {}
    /\ auditLog = {} /\ disturbed = {}

\* Anything may disturb a run at any time.
Disturb ==
    /\ disturbed' \in SUBSET Runs
    /\ disturbed \subseteq disturbed'
    /\ UNCHANGED tables

Upload(d) ==
    /\ docStatus[d] = Absent
    /\ docStatus' = [docStatus EXCEPT ![d] = "processing"]
    /\ UNCHANGED <<piiMappings, extractions, reviewTasks, auditLog, disturbed>>

\* The only writes of processing d, as run r, that ends in status.
MappingOf(r, d) ==
    IF d \in PiiDocuments THEN {[id |-> r, document |-> d]} ELSE {}

EventOf(r, status) ==
    [run |-> r, step |-> "orchestrator",
     status |-> IF status = "failed" THEN "failure" ELSE "success"]

TaskOf(r, d, level) ==
    IF RequiresReview(level)
    THEN {[id |-> r, document |-> d, priority |-> RiskToPriority(level),
           status |-> "pending"]}
    ELSE {}

RowOf(r, d, level, data) ==
    {[id |-> r, document |-> d, data |-> data,
      validation_status |-> "passed", risk_level |-> level]}

Record(r, d, status) ==
    /\ docStatus[d] # Absent
    /\ \A e \in auditLog : e.run # r
    /\ d \in PiiDocuments => \A m \in piiMappings : m.document # d
    /\ docStatus' = [docStatus EXCEPT ![d] = status]
    /\ piiMappings' = piiMappings \cup MappingOf(r, d)
    /\ auditLog' = auditLog \cup {EventOf(r, status)}
    /\ UNCHANGED disturbed

\* The model gave no usable answer.
ProcessInVain(r, d) ==
    /\ Record(r, d, "failed")
    /\ UNCHANGED <<extractions, reviewTasks>>

\* An extraction was stored, assessed at level and queued for review if the
\* level asks for it.  Only real values can clear a document.
Process(r, d, level, status, data) ==
    /\ status \in {"failed", IF RequiresReview(level) THEN "validated"
                                                      ELSE "reviewed"}
    /\ data = "masked" => status = "failed"
    /\ Record(r, d, status)
    /\ extractions' = extractions \cup RowOf(r, d, level, data)
    /\ reviewTasks' = reviewTasks \cup TaskOf(r, d, level)

\* A disturbed run may clear its document without an extraction, with mask
\* tokens in it, or with a risk that nobody is asked to review.
ProcessDisturbed(r, d, level, status, data) ==
    /\ r \in disturbed
    /\ Record(r, d, status)
    /\ extractions' \in {extractions, extractions \cup RowOf(r, d, level, data)}
    /\ reviewTasks' \in {reviewTasks, reviewTasks \cup TaskOf(r, d, level)}
    /\ reviewTasks' # reviewTasks => extractions' # extractions

Next ==
    \/ Disturb
    \/ \E d \in Documents : Upload(d)
    \/ \E r \in Runs, d \in Documents :
          \/ ProcessInVain(r, d)
          \/ \E level \in RiskLevel, status \in FinalStatus,
                data \in {"masked", "real"} :
                \/ Process(r, d, level, status, data)
                \/ ProcessDisturbed(r, d, level, status, data)

Spec == Init /\ [][Next]_vars
=============================================================================

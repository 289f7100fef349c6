---------------------------- MODULE ServiceProofs ----------------------------
(***************************************************************************)
(* The pipeline and the reviewers on one database: what either of them     *)
(* relies on survives every step of the other, for any number of documents, *)
(* runs and requests and whatever fails.                                   *)
(***************************************************************************)
EXTENDS Service, OutcomeProofs

-----------------------------------------------------------------------------
(***************************************************************************)
(* The steps of a request, on the tables it shares with the pipeline.      *)
(***************************************************************************)

\* Both sides have the same schema.
LEMMA SameTables ==
    /\ R!Absent = Absent /\ R!DocumentStatus = DocumentStatus
    /\ R!ReviewTask = ReviewTask
    /\ {"reviewed", "failed"} \subseteq FinalStatus
    /\ FinalStatus \subseteq DocumentStatus /\ Absent \notin FinalStatus
  BY DEF R!Absent, Absent, R!DocumentStatus, DocumentStatus, R!ReviewTask,
         ReviewTask, R!ReviewPriority, ReviewPriority, R!ReviewTaskStatus,
         ReviewTaskStatus, FinalStatus

\* What a request asks for, and the status it gives its task.
LEMMA RequestFields ==
    ASSUME R!ReviewTypeOK, NEW s \in Sessions
    PROVE  /\ request[s].task \in Runs
           /\ R!Outcome(R!Decision(s)) \in {"reviewed", "failed"}
           /\ R!Outcome(R!NewStatus(s)) \in {"reviewed", "failed"}
           /\ R!NewStatus(s) \in ReviewTaskStatus
           /\ R!Decision(s) \in R!Closing <=> R!NewStatus(s) \in R!Closing
           /\ R!Decision(s) \in R!Closing => R!NewStatus(s) = R!Decision(s)
           /\ R!Decision(s) \notin R!Closing =>
                 R!NewStatus(s) \in {"in_review", "escalated"}
           /\ [id |-> s, task |-> request[s].task, decision |-> R!Decision(s)]
                 \in R!ReviewDecision
  <1>1. request[s].task \in Runs /\ R!Decision(s) \in R!ReviewDecisionType
    BY DEF R!ReviewTypeOK, R!Request, R!Decision
  <1>. QED
    BY <1>1
       DEF R!Outcome, R!NewStatus, R!DecisionToStatus, R!Closing,
           R!ReviewDecisionType, ReviewTaskStatus, R!ReviewDecision

\* Before its commit a request changes no table, no other request and no lock
\* of a run or of another request.
LEMMA QuietRequest ==
    ASSUME RunTypeOK, R!ReviewTypeOK, NEW s \in Sessions,
           R!Handle(s), ~R!CommitDecision(s)
    PROVE  /\ UNCHANGED <<docStatus, reviewTasks, decisions, decisionAudit,
                          request>>
           /\ \A q \in Sessions \ {s} :
                 /\ spc'[q] = spc[q] /\ parent'[q] = parent[q]
                 /\ seen'[q] = seen[q] /\ update'[q] = update[q]
                 /\ \A k \in Runs : taskLock[k] = {q} => taskLock'[k] = {q}
           /\ docLock' = [d \in Documents |-> docLock'[d]]
           /\ \A r \in Runs, d \in Documents :
                 docLock[d] = {r} => docLock'[d] = {r}
  <1> USE ServiceAssumption DEF R!ReviewTypeOK, R!Goes, RunTypeOK
  <1>1. CASE \/ R!Receive(s) \/ R!TaskNotFound(s) \/ R!LoadDocument(s)
             \/ R!AuditDecision(s)
    BY <1>1 DEF R!Receive, R!TaskNotFound, R!LoadDocument, R!AuditDecision
  <1>2. CASE R!GetForUpdate(s)
    <2>1. /\ taskLock[request[s].task] = {}
          /\ taskLock' = [taskLock EXCEPT ![request[s].task] = {s}]
          /\ UNCHANGED <<docStatus, reviewTasks, decisions, decisionAudit,
                         request, docLock, seen, update>>
          /\ \E next : spc' = [spc EXCEPT ![s] = next]
          /\ \E d : parent' = [parent EXCEPT ![s] = d]
      BY <1>2 DEF R!GetForUpdate
    <2>. QED BY <2>1
  <1>3. CASE R!UpdateDocument(s)
    <2>1. /\ \/ docLock' = docLock
             \/ /\ docLock[parent[s]] = {}
                /\ docLock' = [docLock EXCEPT ![parent[s]] = {s}]
          /\ UNCHANGED <<docStatus, reviewTasks, decisions, decisionAudit,
                         taskLock, request, parent, seen>>
          /\ spc' = [spc EXCEPT ![s] = "audit"]
          /\ \E u : update' = [update EXCEPT ![s] = u]
      BY <1>3 DEF R!UpdateDocument
    <2>. QED BY <2>1
  <1>4. ASSUME NEW outcome, R!Abandon(s, outcome)
        PROVE  /\ UNCHANGED <<docStatus, reviewTasks, decisions, decisionAudit,
                              request, parent, seen>>
               /\ spc' = [spc EXCEPT ![s] = outcome]
               /\ update' = [update EXCEPT ![s] = Absent]
               /\ docLock' = [d \in Documents |-> docLock[d] \ {s}]
               /\ taskLock' = [k \in Runs |-> taskLock[k] \ {s}]
    BY <1>4, SameTables DEF R!Abandon, R!Release
  <1>5. CASE R!Refuse(s) \/ R!StatementFails(s) \/ R!AuditFails(s)
             \/ R!ProcessDies(s)
    BY <1>4, <1>5 DEF R!Refuse, R!StatementFails, R!AuditFails, R!ProcessDies
  <1>. QED BY <1>1, <1>2, <1>3, <1>5 DEF R!Handle, R!Serve

\* Before its commit a request keeps the types of its variables.
LEMMA QuietTypes ==
    ASSUME RunTypeOK, R!ReviewTypeOK, NEW s \in Sessions, R!OpenUnderLock(s),
           R!Handle(s), ~R!CommitDecision(s)
    PROVE  R!ReviewTypeOK'
  <1> USE DEF R!ReviewTypeOK, R!Goes, R!Serving, R!Served
  <1>1. CASE R!Receive(s) \/ R!TaskNotFound(s)
    BY <1>1 DEF R!Receive, R!TaskNotFound
  <1>6. CASE R!AuditDecision(s)
    <2>1. parent[s] \in Documents
      BY <1>6 DEF R!AuditDecision, R!OpenUnderLock, R!ReviewTask
    <2>2. R!Event(s) \in R!ReviewEvent
      BY <2>1 DEF R!Event, R!ReviewEvent, R!Decision, R!Request
    <2>3. logged' \in [Sessions -> SUBSET R!ReviewEvent]
      BY <1>6, <2>2 DEF R!AuditDecision
    <2>. QED BY <1>6, <2>3 DEF R!AuditDecision
  <1>2. CASE R!GetForUpdate(s)
    <2>1. PICK t \in reviewTasks :
            /\ taskLock' = [taskLock EXCEPT ![request[s].task] = {s}]
            /\ parent' = [parent EXCEPT ![s] = t.document]
            /\ \E next \in R!Serving : spc' = [spc EXCEPT ![s] = next]
            /\ UNCHANGED <<docStatus, reviewTasks, docLock, decisions,
                           decisionAudit, request, seen, update, logged>>
      BY <1>2 DEF R!GetForUpdate
    <2>2. PICK next \in R!Serving : spc' = [spc EXCEPT ![s] = next]
      BY <2>1
    <2>3. t.document \in Documents
      BY DEF R!ReviewTask
    <2>4. parent' \in [Sessions -> {R!Absent} \cup Documents]
      BY <2>1, <2>3
    <2>5. /\ spc' \in [Sessions -> {"idle"} \cup R!Serving \cup R!Served]
          /\ taskLock' \in [Runs -> SUBSET Sessions]
      BY <2>1, <2>2
    <2>. QED BY <2>1, <2>4, <2>5
  <1>3. CASE R!LoadDocument(s)
    <2>1. parent[s] \in Documents
      BY <1>3 DEF R!LoadDocument, R!OpenUnderLock, R!ReviewTask
    <2>. QED BY <1>3, <2>1 DEF R!LoadDocument
  <1>4. CASE R!UpdateDocument(s)
    <2>1. PICK u \in {R!Absent, "reviewed", "failed"} :
            /\ docLock' \in {docLock, [docLock EXCEPT ![parent[s]] = {s}]}
            /\ update' = [update EXCEPT ![s] = u]
            /\ spc' = [spc EXCEPT ![s] = "audit"]
            /\ UNCHANGED <<docStatus, reviewTasks, decisions, decisionAudit,
                           taskLock, request, parent, seen, logged>>
      <3>1. /\ R!Outcome(R!NewStatus(s)) \in {"reviewed", "failed"}
            /\ update[s] \in {R!Absent, "reviewed", "failed"}
        BY RequestFields
      <3>. HIDE DEF R!ReviewTypeOK
      <3>. QED BY <1>4, <3>1 DEF R!UpdateDocument
    <2>. QED BY <2>1
  <1>5. ASSUME NEW outcome \in R!Served, R!Abandon(s, outcome)
        PROVE  R!ReviewTypeOK'
    BY <1>5 DEF R!Abandon, R!Release
  <1>. QED
    BY <1>1, <1>2, <1>3, <1>4, <1>5, <1>6
       DEF R!Handle, R!Serve, R!Refuse, R!StatementFails, R!AuditFails,
           R!ProcessDies

\* The request itself goes on agreeing with its decision, and what it knows of
\* the document is what it loads or has loaded.
LEMMA QuietAgrees ==
    ASSUME RunTypeOK, R!ReviewTypeOK, NEW s \in Sessions, RequestAgrees(s),
           R!Handle(s), ~R!CommitDecision(s)
    PROVE  /\ RequestAgrees(s)'
           /\ spc'[s] \in {"update", "audit", "commit"}
              /\ R!Decision(s) \in R!Closing =>
                 /\ parent'[s] = parent[s]
                 /\ \/ spc[s] = "load" /\ seen'[s] = docStatus[parent[s]]
                    \/ /\ spc[s] \in {"update", "audit", "commit"}
                       /\ seen'[s] = seen[s]
  <1> DEFINE Writing == {"update", "audit", "commit"}
             Loaded == spc'[s] \in Writing /\ R!Decision(s) \in R!Closing =>
                 /\ parent'[s] = parent[s]
                 /\ \/ spc[s] = "load" /\ seen'[s] = docStatus[parent[s]]
                    \/ spc[s] \in Writing /\ seen'[s] = seen[s]
  <1>1. UNCHANGED <<docStatus, reviewTasks, decisions, request>>
    BY QuietRequest
  <1>2. /\ R!Decision(s)' = R!Decision(s)
        /\ \A d : R!ClosingDecisions(d)' = R!ClosingDecisions(d)
    BY <1>1 DEF R!Decision, R!ClosingDecisions
  <1> USE RequestFields DEF R!ReviewTypeOK, R!Goes
  <1>3. R!OpenUnderLock(s) /\ R!UpdateIsOutcome(s)
    BY DEF RequestAgrees
  <1>4. CASE R!Receive(s) \/ R!TaskNotFound(s)
    <2>1. spc'[s] \in {"select", "raising"} /\ update'[s] = R!Absent
      BY <1>3, <1>4 DEF R!Receive, R!TaskNotFound, R!UpdateIsOutcome
    <2>. QED
      BY <2>1 DEF RequestAgrees, R!OpenUnderLock, R!UpdateIsOutcome,
                  R!SeenIsCurrent
  <1>5. CASE R!GetForUpdate(s)
    <2>1. PICK t \in reviewTasks :
            /\ spc[s] = "select" /\ update' = update
            /\ t.id = request[s].task
            /\ taskLock' = [taskLock EXCEPT ![request[s].task] = {s}]
            /\ parent' = [parent EXCEPT ![s] = t.document]
            /\ \/ spc'[s] = "raising"
               \/ /\ t.status \notin R!TerminalStatuses
                  /\ \/ spc'[s] = "load" /\ R!Decision(s) \in R!Closing
                     \/ spc'[s] = "audit" /\ R!Decision(s) \notin R!Closing
      BY <1>5 DEF R!GetForUpdate
    <2>2. R!OpenUnderLock(s)'
      BY <1>1, <2>1 DEF R!OpenUnderLock
    <2>. QED
      BY <1>2, <1>3, <2>1, <2>2
         DEF RequestAgrees, R!UpdateIsOutcome, R!SeenIsCurrent
  <1>6. CASE R!LoadDocument(s)
    <2>1. /\ spc[s] = "load" /\ spc'[s] = "update"
          /\ seen'[s] = docStatus[parent[s]]
          /\ UNCHANGED <<update, parent, taskLock>>
      BY <1>6 DEF R!LoadDocument
    <2>. QED
      BY <1>1, <1>2, <1>3, <2>1
         DEF RequestAgrees, R!OpenUnderLock, R!UpdateIsOutcome, R!SeenIsCurrent
  <1>7. CASE R!UpdateDocument(s)
    <2>1. /\ spc[s] = "update" /\ spc'[s] = "audit"
          /\ UNCHANGED <<parent, seen, taskLock>>
          /\ update'[s] = IF seen[s] # R!Outcome(R!NewStatus(s))
                          THEN R!Outcome(R!NewStatus(s)) ELSE update[s]
      BY <1>7 DEF R!UpdateDocument
    <2>. QED
      BY <1>1, <1>2, <1>3, <2>1
         DEF RequestAgrees, R!OpenUnderLock, R!UpdateIsOutcome, R!SeenIsCurrent
  <1>8. CASE R!AuditDecision(s)
    <2>1. /\ spc[s] = "audit" /\ spc'[s] = "commit"
          /\ UNCHANGED <<parent, seen, update, taskLock>>
      BY <1>8 DEF R!AuditDecision
    <2>. QED
      BY <1>1, <1>2, <1>3, <2>1
         DEF RequestAgrees, R!OpenUnderLock, R!UpdateIsOutcome, R!SeenIsCurrent
  <1>9. ASSUME NEW outcome \in {"refused", "failed"}, R!Abandon(s, outcome)
        PROVE  RequestAgrees(s)' /\ Loaded
    <2>1. spc'[s] = outcome
      BY <1>9 DEF R!Abandon
    <2>. QED
      BY <2>1 DEF RequestAgrees, R!OpenUnderLock, R!UpdateIsOutcome,
                  R!SeenIsCurrent
  <1>. QED
    BY <1>4, <1>5, <1>6, <1>7, <1>8, <1>9
       DEF R!Handle, R!Serve, R!Refuse, R!StatementFails, R!AuditFails,
           R!ProcessDies

-----------------------------------------------------------------------------
(***************************************************************************)
(* What the runs keep while a request takes a step.                        *)
(***************************************************************************)

\* All that holds of the service.
WholeInv == RunTypeOK /\ R!ReviewTypeOK /\ PiiInv /\ RunsInv /\ ServiceInv

\* A request takes no lock of a run away, and advances only documents that are
\* settled already: the runs do not notice it.
LEMMA RunsUnmoved ==
    ASSUME RunTypeOK, R!ReviewTypeOK', PiiInv, RunsInv, UNCHANGED pipelineVars,
           docLock' = [d \in Documents |-> docLock'[d]],
           \A r \in Runs, d \in Documents : docLock[d] = {r} => docLock'[d] = {r},
           \A d \in Documents : docStatus'[d] # docStatus[d] =>
              docStatus[d] \in FinalStatus /\ docStatus'[d] \in FinalStatus
    PROVE  /\ RunTypeOK' /\ PiiInv' /\ RunsInv'
           /\ \A d \in Documents : Undisturbed(d)' <=> Undisturbed(d)
  <1> USE DEF pipelineVars
  <1>1. RunTypeOK'
    BY SameTables DEF RunTypeOK, R!ReviewTypeOK
  <1>2. \A r \in Runs : PiiRun(r)'
    <2>1. \A r \in Runs : docLock[doc[r]] = {r} => docLock'[doc[r]] = {r}
      BY FieldTypes
    <2>. QED BY <2>1 DEF PiiInv, PiiRun, Committed, MappingsOf
  <1>3. PiiTables'
    BY PipelineAssumption DEF PiiInv, PiiTables, Committed
  <1>4. RunsInv'
    <2>1. \A q \in Runs : Agrees(q, pc[q], ctx[q], tx[q])'
      BY AgreesIsLocal, RunAgrees
    <2>2. \A q \in Runs : pc'[q] \in Underway => docStatus'[doc'[q]] # Absent
      BY FieldTypes, SameTables DEF RunsInv
    <2>3. Underway' = Underway
      OBVIOUS
    <2>. QED BY <2>1, <2>2, <2>3 DEF RunsInv
  <1>. QED
    BY <1>1, <1>2, <1>3, <1>4
       DEF PiiInv, Undisturbed, Committed, Disturbed

\* The tables say the same, and no other request notices, when a request takes
\* a step before its commit.  A request that loads the document it is about to
\* close finds it as it is.
LEMMA QuietService ==
    ASSUME WholeInv, NEW s \in Sessions, R!Handle(s), ~R!CommitDecision(s),
           UNCHANGED pipelineVars
    PROVE  WholeInv'
  <1> USE DEF WholeInv
  <1>1. /\ UNCHANGED <<docStatus, reviewTasks, decisions, request, extractions>>
        /\ \A q \in Sessions \ {s} :
              /\ spc'[q] = spc[q] /\ parent'[q] = parent[q]
              /\ seen'[q] = seen[q] /\ update'[q] = update[q]
              /\ \A k \in Runs : taskLock[k] = {q} => taskLock'[k] = {q}
    BY QuietRequest DEF pipelineVars
  <1>2. R!ReviewTypeOK'
    BY QuietTypes DEF ServiceInv, RequestAgrees
  <1>3. /\ RunTypeOK' /\ PiiInv' /\ RunsInv'
        /\ \A d \in Documents : Undisturbed(d)' <=> Undisturbed(d)
    BY <1>1, <1>2, QuietRequest, RunsUnmoved
  <1>4. TaskTables' /\ PiiDecisionStands'
    BY <1>1 DEF ServiceInv, TaskTables, TaskIsFlagged, PiiDecisionStands,
                DecisionStands, R!TaskIdIsKey, R!ClosedByDecision, R!Terminal,
                R!HasTask, R!ClosingDecisions
  <1>5. \A q \in Sessions : R!Decision(q)' = R!Decision(q)
    BY <1>1 DEF R!Decision
  <1>6. ASSUME NEW q \in Sessions \ {s} PROVE RequestAgrees(q)'
    <2>1. RequestAgrees(q) /\ request[q].task \in Runs
      BY RequestFields DEF ServiceInv
    <2>2. \A d : R!ClosingDecisions(d)' = R!ClosingDecisions(d)
      BY <1>1 DEF R!ClosingDecisions
    <2>. QED
      BY <1>1, <1>5, <2>1, <2>2
         DEF RequestAgrees, R!OpenUnderLock, R!UpdateIsOutcome, R!SeenIsCurrent
  <1>7. /\ RequestAgrees(s) /\ RequestAgrees(s)'
        /\ spc'[s] \in {"update", "audit", "commit"}
           /\ R!Decision(s) \in R!Closing =>
              /\ parent'[s] = parent[s]
              /\ \/ spc[s] = "load" /\ seen'[s] = docStatus[parent[s]]
                 \/ /\ spc[s] \in {"update", "audit", "commit"}
                    /\ seen'[s] = seen[s]
    BY QuietAgrees DEF ServiceInv
  <1>8. ASSUME NEW d \in Documents PROVE IsAwaited(d)'
    <2> SUFFICES ASSUME docStatus[d] = "validated", Undisturbed(d)
                 PROVE  IsAwaited(d)'
      BY <1>1, <1>3 DEF IsAwaited
    <2>1. PICK t \in reviewTasks :
            /\ t.document = d /\ IsOpen(t)
            /\ \A q \in Sessions :
                  /\ request[q].task = t.id
                  /\ spc[q] \in {"update", "audit", "commit"}
                  /\ R!Decision(q) \in R!Closing
                  => seen[q] = "validated"
      BY DEF ServiceInv, IsAwaited
    <2>2. request[s].task = t.id /\ spc[s] = "load" => parent[s] = d
      BY <1>7, <2>1
         DEF RequestAgrees, R!OpenUnderLock, ServiceInv, TaskTables,
             R!TaskIdIsKey
    <2>3. ASSUME NEW q \in Sessions, request[q].task = t.id,
                 spc'[q] \in {"update", "audit", "commit"},
                 R!Decision(q) \in R!Closing
          PROVE  seen'[q] = "validated"
      BY <1>1, <1>7, <2>1, <2>2, <2>3
    <2>. QED BY <1>1, <1>5, <2>1, <2>3 DEF IsAwaited, IsOpen
  <1>. QED
    BY <1>1, <1>2, <1>3, <1>4, <1>6, <1>7, <1>8 DEF ServiceInv

-----------------------------------------------------------------------------
(***************************************************************************)
(* The commit of a request.                                                *)
(***************************************************************************)

\* The row that a request inserts into review_decisions.
DecisionOf(s) ==
    [id |-> s, task |-> request[s].task, decision |-> R!Decision(s)]

\* The row of a task after the commit of s.
TaskAfter(s, t) ==
    IF t.id = request[s].task THEN [t EXCEPT !.status = R!NewStatus(s)] ELSE t

\* What the commit of s writes, and that it takes no lock from anybody else.
LEMMA CommitRequest ==
    ASSUME RunTypeOK, R!ReviewTypeOK, NEW s \in Sessions, R!CommitDecision(s)
    PROVE  /\ spc[s] = "commit" /\ spc'[s] = "answered"
           /\ decisions' = decisions \cup {DecisionOf(s)}
           /\ reviewTasks' = {TaskAfter(s, t) : t \in reviewTasks}
           /\ UNCHANGED <<request, parent, seen>>
           /\ \A q \in Sessions \ {s} :
                 /\ spc'[q] = spc[q] /\ update'[q] = update[q]
                 /\ \A k \in Runs : taskLock[k] = {q} => taskLock'[k] = {q}
           /\ docStatus' = IF update[s] = Absent THEN docStatus
                           ELSE [docStatus EXCEPT ![parent[s]] = update[s]]
           /\ docLock' = [d \in Documents |-> docLock'[d]]
           /\ \A r \in Runs, d \in Documents :
                 docLock[d] = {r} => docLock'[d] = {r}
  BY ServiceAssumption, SameTables
     DEF R!CommitDecision, R!Release, R!Goes, R!ReviewTypeOK, RunTypeOK,
         DecisionOf, TaskAfter

\* A task keeps all but its status, and only the task of s changes at all.
LEMMA TaskRows ==
    ASSUME R!ReviewTypeOK, NEW s \in Sessions, NEW t \in reviewTasks
    PROVE  /\ TaskAfter(s, t) \in R!ReviewTask
           /\ TaskAfter(s, t).id = t.id /\ TaskAfter(s, t).document = t.document
           /\ t.id = request[s].task => TaskAfter(s, t).status = R!NewStatus(s)
           /\ t.id # request[s].task => TaskAfter(s, t) = t
  <1>1. t \in R!ReviewTask /\ R!NewStatus(s) \in R!ReviewTaskStatus
    BY RequestFields DEF R!ReviewTypeOK, R!ReviewTaskStatus, ReviewTaskStatus
  <1>. QED BY <1>1 DEF TaskAfter, R!ReviewTask

\* The rows it commits have the type of their table.
LEMMA CommitRequestTypes ==
    ASSUME RunTypeOK, R!ReviewTypeOK, NEW s \in Sessions, R!CommitDecision(s)
    PROVE  R!ReviewTypeOK'
  <1>1. reviewTasks' \subseteq R!ReviewTask
    BY CommitRequest, TaskRows
  <1>2. decisions' \subseteq R!ReviewDecision
    BY CommitRequest, RequestFields DEF R!ReviewTypeOK, DecisionOf
  <1>3. docStatus' \in [Documents -> {R!Absent} \cup R!DocumentStatus]
    BY CommitRequest, SameTables DEF R!ReviewTypeOK
  <1>. QED
    BY <1>1, <1>2, <1>3
       DEF R!CommitDecision, R!Release, R!Goes, R!ReviewTypeOK, R!Served

\* Of all documents, only that of the request gets a decision, and only a
\* decision that closes the task advances it.
LEMMA CommitDecides ==
    ASSUME WholeInv, NEW s \in Sessions, R!CommitDecision(s)
    PROVE  /\ parent[s] \in Documents
           /\ \E t \in reviewTasks :
                 /\ t.id = request[s].task /\ t.document = parent[s]
                 /\ t.status \notin R!TerminalStatuses
           /\ \A k, d : (\E t \in reviewTasks' : t.id = k /\ t.document = d)
                 <=> (\E t \in reviewTasks : t.id = k /\ t.document = d)
           /\ \A d : R!ClosingDecisions(d)' =
                 R!ClosingDecisions(d) \cup
                   {x \in {DecisionOf(s)} :
                      d = parent[s] /\ R!Decision(s) \in R!Closing}
           /\ update[s] = IF \/ R!Decision(s) \notin R!Closing
                             \/ seen[s] = R!Outcome(R!Decision(s))
                          THEN Absent ELSE R!Outcome(R!Decision(s))
           /\ \A d \in Documents : docStatus'[d] # docStatus[d] =>
                 /\ d = parent[s] /\ R!Decision(s) \in R!Closing
                 /\ docStatus'[d] = R!Outcome(R!Decision(s))
                 /\ docStatus[d] \in FinalStatus
  <1> USE DEF WholeInv
  <1>1. RequestAgrees(s) /\ spc[s] = "commit"
    BY CommitRequest DEF ServiceInv
  <1>2. PICK row \in reviewTasks :
          /\ row.id = request[s].task /\ row.document = parent[s]
          /\ row.status \notin R!TerminalStatuses
    BY <1>1 DEF RequestAgrees, R!OpenUnderLock
  <1>3. row.document \in Documents /\ docStatus[row.document] \in FinalStatus
    BY DEF R!ReviewTypeOK, R!ReviewTask, ServiceInv, TaskTables, TaskIsFlagged
  <1>4. \A k, d : (\E t \in reviewTasks' : t.id = k /\ t.document = d)
                  <=> (\E t \in reviewTasks : t.id = k /\ t.document = d)
    BY CommitRequest, TaskRows
  <1>5. \A d : (\E t \in reviewTasks : t.id = request[s].task /\ t.document = d)
               <=> d = parent[s]
    BY <1>2 DEF ServiceInv, TaskTables, R!TaskIdIsKey
  <1>6. /\ DecisionOf(s).task = request[s].task
        /\ DecisionOf(s).decision = R!Decision(s)
    BY DEF DecisionOf
  <1>7. \A d : R!ClosingDecisions(d)' =
           R!ClosingDecisions(d) \cup
             {x \in {DecisionOf(s)} :
                d = parent[s] /\ R!Decision(s) \in R!Closing}
    <2>1. decisions' = decisions \cup {DecisionOf(s)}
      BY CommitRequest
    <2> HIDE DEF WholeInv
    <2>. QED BY <1>4, <1>5, <1>6, <2>1 DEF R!ClosingDecisions
  <1>8. update[s] = IF \/ R!Decision(s) \notin R!Closing
                       \/ seen[s] = R!Outcome(R!Decision(s))
                    THEN Absent ELSE R!Outcome(R!Decision(s))
    BY <1>1, SameTables DEF RequestAgrees, R!UpdateIsOutcome
  <1>9. ASSUME NEW d \in Documents, docStatus'[d] # docStatus[d]
        PROVE  d = parent[s] /\ docStatus'[d] = update[s] /\ update[s] # Absent
    BY <1>9, CommitRequest DEF RunTypeOK
  <1>10. \A d \in Documents : docStatus'[d] # docStatus[d] =>
           /\ d = parent[s] /\ R!Decision(s) \in R!Closing
           /\ docStatus'[d] = R!Outcome(R!Decision(s))
           /\ docStatus[d] \in FinalStatus
    BY <1>2, <1>3, <1>8, <1>9
  <1>. QED BY <1>2, <1>3, <1>4, <1>7, <1>8, <1>10

\* A task is that of a run which has committed a flagged extraction ...
LEMMA TaskRun ==
    ASSUME WholeInv, NEW t \in reviewTasks
    PROVE  /\ t.id \in Runs /\ t.document \in Documents
           /\ Committed(t.id) /\ t.document = doc[t.id]
           /\ docStatus[t.document] \in FinalStatus
  <1>1. TaskIsFlagged(t)
    BY DEF WholeInv, ServiceInv, TaskTables
  <1>2. t.id \in Runs /\ t.document \in Documents
    BY DEF WholeInv, RunTypeOK, ReviewTask
  <1>. QED BY <1>1, <1>2 DEF TaskIsFlagged, WholeInv, PiiInv, PiiTables

\* ... so that a document with PII has one task at most.
LEMMA OneTask ==
    ASSUME WholeInv, NEW t \in reviewTasks, NEW u \in reviewTasks,
           t.document = u.document, t.document \in PiiDocuments
    PROVE  t = u
  <1>1. PiiProcessedOnce
    BY OneMapping DEF WholeInv
  <1>2. t.id = u.id
    BY <1>1, TaskRun DEF PiiProcessedOnce
  <1>. QED BY <1>2 DEF WholeInv, ServiceInv, TaskTables, R!TaskIdIsKey

\* Before the one decision that closes it, there is none on the document.
LEMMA FirstDecision ==
    ASSUME WholeInv, NEW t \in reviewTasks, t.document \in PiiDocuments,
           t.status \notin R!TerminalStatuses
    PROVE  R!ClosingDecisions(t.document) = {}
  <1> SUFFICES ASSUME NEW x \in decisions, x.decision \in R!Closing,
                      NEW u \in reviewTasks, u.id = x.task,
                      u.document = t.document
               PROVE  FALSE
    BY DEF R!ClosingDecisions
  <1>1. u = t
    BY OneTask
  <1>2. R!Terminal(x) /\ x.decision \in R!TerminalStatuses
    BY DEF R!Terminal, R!DecisionToStatus, R!Closing, R!TerminalStatuses
  <1>3. \E v \in reviewTasks : v.id = x.task /\ v.status = x.decision
    BY <1>2 DEF WholeInv, ServiceInv, TaskTables, R!ClosedByDecision
  <1>. QED
    BY <1>1, <1>2, <1>3 DEF WholeInv, ServiceInv, TaskTables, R!TaskIdIsKey

\* The tasks stay what they were but for the status of one, which the decision
\* explains.
LEMMA CommitTasks ==
    ASSUME WholeInv, NEW s \in Sessions, R!CommitDecision(s),
           UNCHANGED pipelineVars
    PROVE  TaskTables'
  <1> USE DEF WholeInv
  <1>1. /\ reviewTasks' = {TaskAfter(s, t) : t \in reviewTasks}
        /\ decisions' = decisions \cup {DecisionOf(s)}
        /\ extractions' = extractions
    BY CommitRequest DEF pipelineVars
  <1>2. \A t \in reviewTasks :
           /\ TaskAfter(s, t).id = t.id /\ TaskAfter(s, t).document = t.document
           /\ t.id = request[s].task => TaskAfter(s, t).status = R!NewStatus(s)
           /\ t.id # request[s].task => TaskAfter(s, t) = t
    BY TaskRows
  <1>3. R!TaskIdIsKey'
    BY <1>1, <1>2 DEF ServiceInv, TaskTables, R!TaskIdIsKey
  <1>4. PICK row \in reviewTasks :
          row.id = request[s].task /\ row.status \notin R!TerminalStatuses
    BY CommitDecides
  <1>5. ASSUME NEW x \in decisions', R!Terminal(x)
        PROVE  \E t \in reviewTasks' : t.id = x.task /\ t.status = x.decision
    <2>1. CASE x = DecisionOf(s)
      <3>1. x.task = request[s].task /\ R!NewStatus(s) = x.decision
        BY <1>5, <2>1 DEF DecisionOf, R!Terminal, R!NewStatus,
                          R!DecisionToStatus, R!TerminalStatuses
      <3>. QED BY <1>1, <1>2, <1>4, <3>1
    <2>2. CASE x \in decisions
      <3>1. PICK t \in reviewTasks : t.id = x.task /\ t.status = x.decision
        BY <1>5, <2>2 DEF ServiceInv, TaskTables, R!ClosedByDecision
      <3>2. t.status \in R!TerminalStatuses
        BY <1>5, <3>1, <2>2
           DEF R!Terminal, R!DecisionToStatus, R!TerminalStatuses,
               R!ReviewTypeOK, R!ReviewDecision, R!ReviewDecisionType
      <3>3. t.id # request[s].task
        BY <1>4, <3>1, <3>2 DEF ServiceInv, TaskTables, R!TaskIdIsKey
      <3>. QED BY <1>1, <1>2, <3>1, <3>3
    <2>. QED BY <1>1, <1>5, <2>1, <2>2
  <1>6. R!ClosedByDecision'
    BY <1>5 DEF R!ClosedByDecision, R!Terminal
  <1>7. ASSUME NEW t \in reviewTasks'
        PROVE  /\ docStatus'[t.document] \in FinalStatus
               /\ \E y \in extractions :
                     /\ y.id = t.id /\ y.document = t.document
                     /\ RequiresReview(y.risk_level)
    <2>1. PICK u \in reviewTasks : u.id = t.id /\ u.document = t.document
      BY <1>1, <1>2
    <2>2. TaskIsFlagged(u) /\ u.document \in Documents
      BY <2>1, TaskRun DEF ServiceInv, TaskTables
    <2>3. docStatus'[u.document] # docStatus[u.document] =>
             docStatus'[u.document] = R!Outcome(R!Decision(s))
      BY <2>2, CommitDecides
    <2>4. R!Outcome(R!Decision(s)) \in FinalStatus
      BY RequestFields, SameTables
    <2>. QED BY <2>1, <2>2, <2>3, <2>4 DEF TaskIsFlagged
  <1>8. \A x \in decisions' : R!HasTask(x.task)'
    <2>1. \A k : R!HasTask(k) => R!HasTask(k)'
      BY <1>1, <1>2 DEF R!HasTask
    <2>2. R!HasTask(DecisionOf(s).task)
      BY <1>4 DEF R!HasTask, DecisionOf
    <2>. QED BY <1>1, <2>1, <2>2 DEF ServiceInv, TaskTables
  <1>9. \A t \in reviewTasks' : TaskIsFlagged(t)'
    BY <1>1, <1>7 DEF TaskIsFlagged
  <1>. QED BY <1>3, <1>6, <1>8, <1>9 DEF TaskTables

\* The status of the document of s is the outcome of its decision, also when
\* the update was left out: the document had that status, and still has it,
\* because nobody else could decide on it.
LEMMA CommitStands ==
    ASSUME WholeInv, NEW s \in Sessions, R!CommitDecision(s)
    PROVE  PiiDecisionStands'
  <1> SUFFICES ASSUME NEW d \in PiiDocuments, NEW x \in R!ClosingDecisions(d)'
               PROVE  docStatus'[d] = R!Outcome(x.decision)
    BY DEF PiiDecisionStands, DecisionStands, R!Outcome
  <1> USE DEF WholeInv
  <1>0. d \in Documents
    BY PipelineAssumption
  <1>1. CASE d = parent[s] /\ R!Decision(s) \in R!Closing
    <2>1. \E t \in reviewTasks :
             t.document = parent[s] /\ t.status \notin R!TerminalStatuses
      BY CommitDecides
    <2>2. R!ClosingDecisions(d) = {}
      BY <1>1, <2>1, FirstDecision
    <2>3. x = DecisionOf(s)
      BY <1>1, <2>2, CommitDecides
    <2>4. x.decision = R!Decision(s)
      BY <2>3 DEF DecisionOf
    <2>5. seen[s] = docStatus[d]
      BY <1>1, <2>2, CommitRequest
         DEF ServiceInv, RequestAgrees, R!SeenIsCurrent
    <2>6. /\ R!Outcome(R!Decision(s)) # Absent
          /\ update[s] = IF seen[s] = R!Outcome(R!Decision(s))
                         THEN Absent ELSE R!Outcome(R!Decision(s))
          /\ docStatus' = IF update[s] = Absent THEN docStatus
                          ELSE [docStatus EXCEPT ![parent[s]] = update[s]]
      <3>1. R!Outcome(R!Decision(s)) # Absent
        BY RequestFields, SameTables
      <3>. QED BY <1>1, <3>1, CommitDecides, CommitRequest
    <2>. QED BY <1>0, <1>1, <2>4, <2>5, <2>6 DEF RunTypeOK
  <1>2. CASE ~(d = parent[s] /\ R!Decision(s) \in R!Closing)
    <2>1. x \in R!ClosingDecisions(d) /\ docStatus'[d] = docStatus[d]
      BY <1>0, <1>2, CommitDecides
    <2>. QED BY <2>1 DEF ServiceInv, PiiDecisionStands, DecisionStands
  <1>. QED BY <1>1, <1>2

\* The other requests keep their tasks open: their task is not that of s.
LEMMA CommitOthers ==
    ASSUME WholeInv, NEW s \in Sessions, R!CommitDecision(s),
           NEW q \in Sessions
    PROVE  RequestAgrees(q)'
  <1> USE DEF WholeInv
  <1>1. CASE q = s
    <2>1. spc'[q] = "answered"
      BY <1>1, CommitRequest
    <2>. QED
      BY <2>1
         DEF RequestAgrees, R!OpenUnderLock, R!UpdateIsOutcome, R!SeenIsCurrent
  <1>2. CASE q # s
    <2>1. /\ spc'[q] = spc[q] /\ update'[q] = update[q]
          /\ \A k \in Runs : taskLock[k] = {q} => taskLock'[k] = {q}
          /\ UNCHANGED <<request, parent, seen>>
          /\ reviewTasks' = {TaskAfter(s, t) : t \in reviewTasks}
      BY <1>2, CommitRequest
    <2>2. RequestAgrees(q) /\ R!Decision(q)' = R!Decision(q)
      BY <2>1 DEF ServiceInv, R!Decision
    <2>3. R!OpenUnderLock(q)'
      <3> SUFFICES ASSUME spc[q] \in {"load", "update", "audit", "commit"}
                   PROVE  /\ taskLock'[request[q].task] = {q}
                          /\ \E t \in reviewTasks' :
                                /\ t.id = request[q].task
                                /\ t.document = parent[q]
                                /\ t.status \notin R!TerminalStatuses
        BY <2>1 DEF R!OpenUnderLock
      <3>1. PICK t \in reviewTasks :
              /\ t.id = request[q].task /\ t.document = parent[q]
              /\ t.status \notin R!TerminalStatuses
        BY <2>2 DEF RequestAgrees, R!OpenUnderLock
      <3>2. taskLock[request[q].task] = {q} /\ request[q].task \in Runs
        BY <2>2, RequestFields DEF RequestAgrees, R!OpenUnderLock
      <3>3. taskLock[request[s].task] = {s}
        BY CommitRequest DEF ServiceInv, RequestAgrees, R!OpenUnderLock
      <3>4. TaskAfter(s, t) = t
        BY <1>2, <3>1, <3>2, <3>3, TaskRows
      <3>. QED BY <2>1, <3>1, <3>2, <3>4
    <2>4. R!UpdateIsOutcome(q)'
      BY <2>1, <2>2 DEF RequestAgrees, R!UpdateIsOutcome
    <2>5. ASSUME NEW d, d = parent[q], d \in PiiDocuments,
                 spc[q] \in {"update", "audit", "commit"},
                 R!Decision(q) \in R!Closing, R!ClosingDecisions(d)' = {}
          PROVE  seen[q] = docStatus'[d]
      <3>1. R!ClosingDecisions(d) = {}
        BY <2>5, CommitDecides
      <3>2. ~(d = parent[s] /\ R!Decision(s) \in R!Closing)
        BY <2>5, CommitDecides
      <3>3. docStatus'[d] = docStatus[d]
        BY <2>5, <3>2, CommitDecides, PipelineAssumption
      <3>. QED BY <2>2, <2>5, <3>1, <3>3 DEF RequestAgrees, R!SeenIsCurrent
    <2>6. parent'[q] \in PiiDocuments => R!SeenIsCurrent(q)'
      BY <2>1, <2>2, <2>5 DEF R!SeenIsCurrent, R!ClosingDecisions
    <2>. QED BY <2>3, <2>4, <2>6 DEF RequestAgrees
  <1>. QED BY <1>1, <1>2

\* A document that stays validated keeps a task that is open: a request that
\* closed it had seen the document validated, and has advanced it.
LEMMA CommitAwaits ==
    ASSUME WholeInv, NEW s \in Sessions, R!CommitDecision(s),
           \A d \in Documents : Undisturbed(d)' <=> Undisturbed(d),
           NEW d \in Documents
    PROVE  IsAwaited(d)'
  <1> USE DEF WholeInv
  <1>1. /\ reviewTasks' = {TaskAfter(s, t) : t \in reviewTasks}
        /\ UNCHANGED <<request, seen>>
        /\ spc[s] = "commit" /\ spc'[s] = "answered"
        /\ \A q \in Sessions \ {s} : spc'[q] = spc[q]
    BY CommitRequest
  <1>2. \A q \in Sessions : R!Decision(q)' = R!Decision(q)
    BY <1>1 DEF R!Decision
  <1> SUFFICES ASSUME docStatus'[d] = "validated", Undisturbed(d)
               PROVE  \E t \in reviewTasks' :
                         /\ t.document = d /\ IsOpen(t)
                         /\ \A q \in Sessions :
                               /\ request[q].task = t.id
                               /\ spc'[q] \in {"update", "audit", "commit"}
                               /\ R!Decision(q) \in R!Closing
                               => seen[q] = "validated"
    BY <1>1, <1>2 DEF IsAwaited, IsOpen
  <1>3. R!Outcome(R!Decision(s)) \in {"reviewed", "failed"}
    BY RequestFields
  <1>4. docStatus[d] = "validated"
    BY <1>3, CommitDecides
  <1>5. PICK t \in reviewTasks :
          /\ t.document = d /\ IsOpen(t)
          /\ \A q \in Sessions :
                /\ request[q].task = t.id
                /\ spc[q] \in {"update", "audit", "commit"}
                /\ R!Decision(q) \in R!Closing
                => seen[q] = "validated"
    BY <1>4 DEF ServiceInv, IsAwaited
  <1>6. t.id = request[s].task => R!Decision(s) \notin R!Closing
    <2> SUFFICES ASSUME t.id = request[s].task, R!Decision(s) \in R!Closing
                 PROVE  FALSE
      OBVIOUS
    <2>1. parent[s] = d
      BY <1>5, CommitDecides DEF ServiceInv, TaskTables, R!TaskIdIsKey
    <2>2. seen[s] = "validated"
      BY <1>1, <1>5
    <2>3. update[s] = R!Outcome(R!Decision(s))
      BY <1>3, <2>2, CommitDecides
    <2>4. update[s] # Absent
      BY <1>3, <2>3 DEF Absent
    <2>5. docStatus' = [docStatus EXCEPT ![d] = update[s]]
      BY <2>1, <2>4, CommitRequest
    <2>6. docStatus'[d] = update[s]
      BY <2>5 DEF RunTypeOK
    <2>. QED BY <1>3, <2>3, <2>6
  <1>7. IsOpen(TaskAfter(s, t))
    BY <1>5, <1>6, RequestFields, TaskRows DEF IsOpen
  <1>. QED BY <1>1, <1>5, <1>7, TaskRows

\* The commit of a request keeps all that holds of the service.
LEMMA CommitService ==
    ASSUME WholeInv, NEW s \in Sessions, R!CommitDecision(s),
           UNCHANGED pipelineVars
    PROVE  WholeInv'
  <1>1. R!ReviewTypeOK'
    BY CommitRequestTypes DEF WholeInv
  <1>2. \A d \in Documents : docStatus'[d] # docStatus[d] =>
           docStatus[d] \in FinalStatus /\ docStatus'[d] \in FinalStatus
    <2>1. R!Outcome(R!Decision(s)) \in FinalStatus
      BY RequestFields, SameTables DEF WholeInv
    <2>. QED BY <2>1, CommitDecides
  <1>3. /\ RunTypeOK' /\ PiiInv' /\ RunsInv'
        /\ \A d \in Documents : Undisturbed(d)' <=> Undisturbed(d)
    BY <1>1, <1>2, CommitRequest, RunsUnmoved DEF WholeInv
  <1>4. \A d \in Documents :
           docStatus'[d] \in {Absent, "processing"} \cup FinalStatus
    BY <1>2 DEF WholeInv, ServiceInv
  <1>5. ServiceInv'
    BY <1>3, <1>4, CommitTasks, CommitStands, CommitOthers, CommitAwaits
       DEF ServiceInv
  <1>. QED BY <1>1, <1>3, <1>5 DEF WholeInv

-----------------------------------------------------------------------------
(***************************************************************************)
(* The steps of the runs, as the requests see them.                        *)
(***************************************************************************)

\* A step that leaves the tasks alone and touches the status of no document
\* that has one, or ever had, is not seen by any request.
LEMMA RequestsUnmoved ==
    ASSUME WholeInv, UNCHANGED reviewVars,
           reviewTasks' = reviewTasks, extractions' = extractions,
           \A d \in Documents : docStatus[d] \in FinalStatus =>
                                   docStatus'[d] = docStatus[d],
           \A d \in Documents : docStatus'[d] # docStatus[d] =>
                                   docStatus'[d] = "processing",
           \A d \in Documents : Undisturbed(d)' <=> Undisturbed(d)
    PROVE  ServiceInv'
  <1> USE DEF WholeInv
  <1>1. UNCHANGED <<decisions, taskLock, spc, request, parent, seen, update>>
    BY DEF reviewVars
  <1>2. /\ \A s \in Sessions : R!Decision(s)' = R!Decision(s)
        /\ \A d : R!ClosingDecisions(d)' = R!ClosingDecisions(d)
    BY <1>1 DEF R!Decision, R!ClosingDecisions
  <1>3. \A t \in reviewTasks : docStatus'[t.document] = docStatus[t.document]
    BY TaskRun
  <1>4. TaskTables'
    <2>1. \A t \in reviewTasks : TaskIsFlagged(t)'
      BY <1>3 DEF ServiceInv, TaskTables, TaskIsFlagged
    <2>. QED
      BY <1>1, <2>1 DEF ServiceInv, TaskTables, R!TaskIdIsKey,
                        R!ClosedByDecision, R!Terminal, R!HasTask
  <1>5. ASSUME NEW d \in PiiDocuments PROVE DecisionStands(d)'
    <2>1. R!ClosingDecisions(d) # {} => docStatus'[d] = docStatus[d]
      BY <1>3 DEF R!ClosingDecisions
    <2>2. \A x \in R!ClosingDecisions(d) : docStatus[d] = R!Outcome(x.decision)
      BY DEF ServiceInv, PiiDecisionStands, DecisionStands
    <2>. QED BY <1>2, <2>1, <2>2 DEF DecisionStands, R!Outcome
  <1>6. ASSUME NEW s \in Sessions PROVE RequestAgrees(s)'
    <2>1. RequestAgrees(s)
      BY DEF ServiceInv
    <2>2. spc[s] \in {"update", "audit", "commit"} =>
             docStatus'[parent[s]] = docStatus[parent[s]]
      BY <1>3, <2>1 DEF RequestAgrees, R!OpenUnderLock
    <2>. QED
      BY <1>1, <1>2, <2>1, <2>2
         DEF RequestAgrees, R!OpenUnderLock, R!UpdateIsOutcome, R!SeenIsCurrent
  <1>7. ASSUME NEW d \in Documents
        PROVE  /\ docStatus'[d] \in {Absent, "processing"} \cup FinalStatus
               /\ IsAwaited(d)'
    <2>1. docStatus'[d] = "validated" => docStatus[d] = "validated"
      OBVIOUS
    <2>2. IsAwaited(d)'
      BY <1>1, <1>2, <2>1 DEF ServiceInv, IsAwaited, IsOpen
    <2>. QED BY <2>2 DEF ServiceInv
  <1>. QED
    BY <1>4, <1>5, <1>6, <1>7 DEF ServiceInv, PiiDecisionStands

\* Such are an upload and all that a run does before it commits.
LEMMA PrivateService ==
    ASSUME WholeInv, UNCHANGED reviewVars,
           \/ \E d \in Documents : UploadCommits(d)
           \/ \E r \in Runs : KeepsAgreement(r)
           \/ UNCHANGED vars
    PROVE  ServiceInv'
  <1> USE DEF WholeInv
  <1>1. ASSUME NEW d \in Documents, UploadCommits(d) PROVE ServiceInv'
    <2>1. \A e \in Documents : Undisturbed(e)' <=> Undisturbed(e)
      BY <1>1, UploadEffect DEF Undisturbed, Committed, Disturbed
    <2>. QED
      BY <1>1, <2>1, UploadEffect, RequestsUnmoved, SameTables
  <1>2. ASSUME NEW r \in Runs, KeepsAgreement(r) PROVE ServiceInv'
    <2>1. PICK next, c, t :
            /\ Goto(r, next, c, t)
            /\ pc[r] # "committed" /\ next # "committed"
      BY <1>2 DEF KeepsAgreement
    <2>2. /\ \A q \in Runs : Committed(q)' <=> Committed(q)
          /\ \A q \in Runs : Committed(q) => ctx'[q] = ctx[q]
          /\ UNCHANGED <<tables, doc>>
      BY <2>1, CommittedStays
    <2>3. \A e \in Documents : Undisturbed(e)' <=> Undisturbed(e)
      BY <2>2 DEF Undisturbed, Disturbed
    <2>. QED BY <2>2, <2>3, RequestsUnmoved DEF tables
  <1>3. ASSUME UNCHANGED vars PROVE ServiceInv'
    <2>1. \A e \in Documents : Undisturbed(e)' <=> Undisturbed(e)
      BY <1>3 DEF vars, Undisturbed, Committed, Disturbed
    <2>. QED BY <1>3, <2>1, RequestsUnmoved DEF vars
  <1>. QED BY <1>1, <1>2, <1>3

\* What the commit of a run adds: at most the one task, whose extraction it
\* adds too, of a document that is settled now.
LEMMA CommitAdds ==
    ASSUME WholeInv, NEW r \in Runs, Commit(r)
    PROVE  /\ \A t \in tx[r].task :
                 /\ t.id = r /\ t.document = doc[r] /\ t.status = "pending"
                 /\ \E y \in tx[r].extraction :
                       /\ y.id = r /\ y.document = doc[r]
                       /\ RequiresReview(y.risk_level)
           /\ \A t, u \in tx[r].task : t = u
           /\ tx[r].status \in FinalStatus
           /\ ~Disturbed(r) =>
                 /\ tx[r].status = "validated" => tx[r].task # {}
                 /\ tx[r].status = "reviewed" => tx[r].task = {}
           /\ \A t \in reviewTasks : t.id # r
  <1> USE CommitEffect DEF WholeInv
  <1>1. PICK level \in RiskLevel, data \in {"masked", "real"} :
          /\ tx[r].extraction \in {{}, Abstract!RowOf(r, doc[r], level, data)}
          /\ tx[r].task \in {{}, TaskFor(r, level)}
          /\ ~Disturbed(r) /\ tx[r].extraction = {} => tx[r].status = "failed"
          /\ ~Disturbed(r) /\ tx[r].extraction # {} =>
                /\ tx[r].task = TaskFor(r, level)
                /\ tx[r].status \in
                      {"failed", IF RequiresReview(level)
                                 THEN "validated" ELSE "reviewed"}
    BY WrittenRow
  <1>2. /\ tx[r].task # {} => tx[r].extraction # {}
        /\ tx[r].status \in FinalStatus
    BY Writes
  <1>3. tx[r].task # {} => RequiresReview(level)
    BY <1>1 DEF TaskFor
  <1>4. tx[r].extraction # {} =>
          \E y \in tx[r].extraction :
             /\ y.id = r /\ y.document = doc[r]
             /\ y.risk_level = level
    BY <1>1 DEF Abstract!RowOf
  <1>5. \A t \in reviewTasks : t.id # r
    BY TaskRun DEF Committed
  <1>6. tx[r].status = "validated" /\ ~Disturbed(r) => tx[r].task # {}
    BY <1>1, FlaggedTask
  <1>7. tx[r].status = "reviewed" /\ ~Disturbed(r) => tx[r].task = {}
    BY <1>1, <1>2, <1>3
  <1>. QED BY <1>1, <1>2, <1>3, <1>4, <1>5, <1>6, <1>7 DEF TaskFor

\* A request that has loaded its task does not care about the new one, and a
\* document with PII that has a task is not processed again.
LEMMA CommitUnseen ==
    ASSUME WholeInv, UNCHANGED reviewVars, NEW r \in Runs, Commit(r)
    PROVE  /\ UNCHANGED <<decisions, taskLock, spc, request, parent, seen, update>>
           /\ \A s \in Sessions : R!Decision(s)' = R!Decision(s)
           /\ reviewTasks' = reviewTasks \cup tx[r].task
           /\ \A t \in reviewTasks : t.document \in PiiDocuments =>
                 docStatus'[t.document] = docStatus[t.document]
           /\ \A d : R!ClosingDecisions(d)' = R!ClosingDecisions(d)
  <1> USE DEF WholeInv
  <1>1. /\ UNCHANGED <<decisions, taskLock, spc, request, parent, seen, update>>
        /\ reviewTasks' = reviewTasks \cup tx[r].task
    BY CommitEffect DEF reviewVars
  <1>2. \A s \in Sessions : R!Decision(s)' = R!Decision(s)
    BY <1>1 DEF R!Decision
  <1>3. ASSUME NEW t \in reviewTasks, t.document \in PiiDocuments
        PROVE  docStatus'[t.document] = docStatus[t.document]
    <2>1. docStatus[t.document] \in FinalStatus
      BY TaskRun
    <2>2. /\ \E m \in piiMappings : m.document = t.document
          /\ docStatus[t.document] # Absent
      BY <1>3, <2>1, SameTables DEF PiiInv, PiiTables
    <2>3. Next
      BY DEF Next, Step
    <2>. QED BY <1>3, <2>2, <2>3, SettledStep
  <1>4. ASSUME NEW d PROVE R!ClosingDecisions(d)' = R!ClosingDecisions(d)
    <2>1. \A x \in decisions : \E t \in reviewTasks : t.id = x.task
      BY DEF ServiceInv, TaskTables, R!HasTask
    <2>2. /\ \A t \in tx[r].task : t.id = r
          /\ \A t \in reviewTasks : t.id # r
      BY CommitAdds
    <2>3. \A x \in decisions :
             (\E t \in reviewTasks' : t.id = x.task /\ t.document = d)
             <=> (\E t \in reviewTasks : t.id = x.task /\ t.document = d)
      BY <1>1, <2>1, <2>2
    <2> HIDE DEF WholeInv
    <2>. QED BY <1>1, <2>3 DEF R!ClosingDecisions
  <1>. QED BY <1>1, <1>2, <1>3, <1>4

\* The tasks and their extractions, after the commit of a run.
LEMMA CommitRunTasks ==
    ASSUME WholeInv, UNCHANGED reviewVars, NEW r \in Runs, Commit(r)
    PROVE  TaskTables'
  <1> USE DEF WholeInv
  <1>1. /\ reviewTasks' = reviewTasks \cup tx[r].task
        /\ decisions' = decisions
    BY CommitUnseen
  <1>2. /\ \A t \in tx[r].task : t.id = r
        /\ \A t, u \in tx[r].task : t = u
        /\ \A t \in reviewTasks : t.id # r
    BY CommitAdds
  <1>3. R!TaskIdIsKey'
    BY <1>1, <1>2 DEF ServiceInv, TaskTables, R!TaskIdIsKey
  <1>4. R!ClosedByDecision' /\ \A x \in decisions' : R!HasTask(x.task)'
    BY <1>1 DEF ServiceInv, TaskTables, R!ClosedByDecision, R!HasTask,
                R!Terminal
  <1>5. /\ extractions' = extractions \cup tx[r].extraction
        /\ docStatus'[doc[r]] \in FinalStatus
        /\ \A d \in Documents \ {doc[r]} : docStatus'[d] = docStatus[d]
    BY CommitEffect, CommitAdds
  <1>6. ASSUME NEW t \in reviewTasks' PROVE TaskIsFlagged(t)'
    <2>1. CASE t \in reviewTasks
      <3>1. TaskIsFlagged(t) /\ t.document \in Documents
        BY <2>1, TaskRun DEF ServiceInv, TaskTables
      <3>. QED BY <1>5, <3>1 DEF TaskIsFlagged
    <2>2. CASE t \in tx[r].task
      <3>1. /\ t.id = r /\ t.document = doc[r]
            /\ \E y \in tx[r].extraction :
                  /\ y.id = r /\ y.document = doc[r]
                  /\ RequiresReview(y.risk_level)
        BY <2>2, CommitAdds
      <3>. QED BY <1>5, <3>1 DEF TaskIsFlagged
    <2>. QED BY <1>1, <2>1, <2>2
  <1>. QED BY <1>3, <1>4, <1>6 DEF TaskTables

\* A document that the run has validated has its task, which no request has
\* touched yet; the other documents are as they were.
LEMMA CommitRunAwaits ==
    ASSUME WholeInv, UNCHANGED reviewVars, NEW r \in Runs, Commit(r),
           NEW d \in Documents
    PROVE  IsAwaited(d)'
  <1> USE DEF WholeInv
  <1>1. /\ UNCHANGED <<spc, request, seen>>
        /\ \A s \in Sessions : R!Decision(s)' = R!Decision(s)
        /\ reviewTasks' = reviewTasks \cup tx[r].task
    BY CommitUnseen
  <1> SUFFICES ASSUME docStatus'[d] = "validated", Undisturbed(d)'
               PROVE  \E t \in reviewTasks' :
                         /\ t.document = d /\ IsOpen(t)
                         /\ \A s \in Sessions :
                               /\ request[s].task = t.id
                               /\ spc[s] \in {"update", "audit", "commit"}
                               /\ R!Decision(s) \in R!Closing
                               => seen[s] = "validated"
    BY <1>1 DEF IsAwaited, IsOpen
  <1>2. Undisturbed(d) /\ (d = doc[r] => ~Disturbed(r))
    BY CommitEffect DEF Undisturbed, Disturbed
  <1>3. CASE d = doc[r]
    <2>1. PICK t \in tx[r].task : t.document = d /\ t.id = r /\ t.status = "pending"
      BY <1>2, <1>3, CommitAdds, CommitEffect
    <2>2. ASSUME NEW s \in Sessions, request[s].task = r,
                 spc[s] \in {"update", "audit", "commit"}
          PROVE  FALSE
      <3>1. \E t2 \in reviewTasks : t2.id = request[s].task
        BY <2>2 DEF ServiceInv, RequestAgrees, R!OpenUnderLock
      <3>. QED BY <2>2, <3>1, CommitAdds
    <2>. QED BY <1>1, <2>1, <2>2 DEF IsOpen
  <1>4. CASE d # doc[r]
    <2>1. docStatus[d] = "validated"
      BY <1>4, CommitEffect
    <2>. QED BY <1>1, <1>2, <2>1 DEF ServiceInv, IsAwaited
  <1>. QED BY <1>3, <1>4

\* The commit of a run keeps what the requests rely on.
LEMMA CommitRunService ==
    ASSUME WholeInv, UNCHANGED reviewVars, NEW r \in Runs, Commit(r)
    PROVE  ServiceInv'
  <1> USE DEF WholeInv
  <1>1. ASSUME NEW d \in PiiDocuments PROVE DecisionStands(d)'
    <2>1. R!ClosingDecisions(d)' = R!ClosingDecisions(d)
      BY CommitUnseen
    <2>2. R!ClosingDecisions(d) # {} => docStatus'[d] = docStatus[d]
      BY CommitUnseen DEF R!ClosingDecisions
    <2>3. \A x \in R!ClosingDecisions(d) : docStatus[d] = R!Outcome(x.decision)
      BY DEF ServiceInv, PiiDecisionStands, DecisionStands
    <2>. QED BY <2>1, <2>2, <2>3 DEF DecisionStands, R!Outcome
  <1>2. ASSUME NEW s \in Sessions PROVE RequestAgrees(s)'
    <2>1. /\ UNCHANGED <<taskLock, spc, request, parent, seen, update>>
          /\ R!Decision(s)' = R!Decision(s)
          /\ reviewTasks' = reviewTasks \cup tx[r].task
          /\ \A d : R!ClosingDecisions(d)' = R!ClosingDecisions(d)
          /\ \A t \in reviewTasks : t.document \in PiiDocuments =>
                docStatus'[t.document] = docStatus[t.document]
      BY CommitUnseen
    <2>2. RequestAgrees(s)
      BY DEF ServiceInv
    <2>3. R!OpenUnderLock(s)' /\ R!UpdateIsOutcome(s)'
      BY <2>1, <2>2 DEF RequestAgrees, R!OpenUnderLock, R!UpdateIsOutcome
    <2>4. spc[s] \in {"update", "audit", "commit"} /\ parent[s] \in PiiDocuments
             => docStatus'[parent[s]] = docStatus[parent[s]]
      BY <2>1, <2>2 DEF RequestAgrees, R!OpenUnderLock
    <2>5. parent'[s] \in PiiDocuments => R!SeenIsCurrent(s)'
      BY <2>1, <2>2, <2>4 DEF RequestAgrees, R!SeenIsCurrent
    <2>. QED BY <2>3, <2>5 DEF RequestAgrees
  <1>3. \A d \in Documents :
           docStatus'[d] \in {Absent, "processing"} \cup FinalStatus
    BY CommitEffect, CommitAdds DEF ServiceInv
  <1>. QED
    BY <1>1, <1>2, <1>3, CommitRunTasks, CommitRunAwaits
       DEF ServiceInv, PiiDecisionStands

\* No step of the pipeline breaks anything of the service.
LEMMA PipelineService ==
    ASSUME WholeInv, [Next]_vars, UNCHANGED reviewVars
    PROVE  WholeInv'
  <1>1. RunTypeOK' /\ PiiInv' /\ RunsInv'
    BY NextTypes, PiiNext, RunsNext DEF WholeInv
  <1>2. R!ReviewTypeOK'
    BY <1>1, SameTables DEF WholeInv, RunTypeOK, R!ReviewTypeOK, reviewVars
  <1>3. ServiceInv'
    <2>1. ASSUME NEW r \in Runs,
                 \/ Begin(r) \/ RunRaises(r)
                 \/ SoftLimitInStep(r) \/ WorkerLost(r)
                 \/ Step(r) /\ ~Commit(r)
          PROVE  KeepsAgreement(r)
      BY <2>1, PrivateAgrees DEF WholeInv
    <2>. QED BY <2>1, PrivateService, CommitRunService DEF Next
  <1>. QED BY <1>1, <1>2, <1>3 DEF WholeInv

-----------------------------------------------------------------------------
(***************************************************************************)
(* The theorems.                                                           *)
(***************************************************************************)

\* Nothing is there before the first upload and the first request.
LEMMA ServiceInitially == ServiceInit => WholeInv
  <1> SUFFICES ASSUME ServiceInit PROVE WholeInv
    OBVIOUS
  <1>1. RunTypeOK /\ PiiInv /\ RunsInv
    <2>1. NewContext \in Context
      BY DEF NewContext, Context
    <2>. QED
      BY <2>1, NoWritesType, PiiInit, RunsInit DEF ServiceInit, Init, RunTypeOK
  <1>2. R!ReviewTypeOK
    BY <1>1, SameTables
       DEF ServiceInit, R!InitSessions, R!ReviewTypeOK, RunTypeOK
  <1>3. /\ reviewTasks = {} /\ decisions = {}
        /\ \A d \in Documents : docStatus[d] = Absent
        /\ \A s \in Sessions : spc[s] = "idle" /\ update[s] = R!Absent
    BY DEF ServiceInit, Init, R!InitSessions
  <1>4. ServiceInv
    <2>1. \A d : R!ClosingDecisions(d) = {}
      BY <1>3 DEF R!ClosingDecisions
    <2>. QED
      BY <1>3, <2>1
         DEF ServiceInv, TaskTables, R!TaskIdIsKey, R!ClosedByDecision,
             PiiDecisionStands, DecisionStands, RequestAgrees,
             R!OpenUnderLock, R!UpdateIsOutcome, R!SeenIsCurrent, IsAwaited,
             Absent
  <1>. QED BY <1>1, <1>2, <1>4 DEF WholeInv

\* No step of the service breaks it.
LEMMA ServiceStepKeeps ==
    ASSUME WholeInv, [ServiceNext]_serviceVars
    PROVE  WholeInv'
  <1>1. CASE UNCHANGED serviceVars
    <2>1. UNCHANGED vars /\ UNCHANGED reviewVars
      BY <1>1 DEF serviceVars
    <2>. QED BY <2>1, PipelineService
  <1>. QED
    BY <1>1, PipelineService, QuietService, CommitService DEF ServiceNext

\* Runs and requests keep what they rely on, however they interleave.
THEOREM ServiceInvariant == ServiceSpec => []WholeInv
  <1>1. WholeInv /\ [ServiceNext]_serviceVars => WholeInv'
    BY ServiceStepKeeps
  <1>. QED BY <1>1, ServiceInitially, PTL DEF ServiceSpec

\* No redelivery undoes what a reviewer decided on a document with PII.
THEOREM DecisionsStand == ServiceSpec => []PiiDecisionStands
  <1>1. WholeInv => PiiDecisionStands
    BY DEF WholeInv, ServiceInv
  <1>. QED BY <1>1, ServiceInvariant, PTL

\* A validated document is waiting for a decision that somebody can still take.
THEOREM ValidatedIsAwaited == ServiceSpec => []ValidatedAwaitsDecision
  <1>1. WholeInv => ValidatedAwaitsDecision
    BY DEF WholeInv, ServiceInv, IsAwaited, IsOpen, ValidatedAwaitsDecision
  <1>. QED BY <1>1, ServiceInvariant, PTL

\* Nobody decides on what the detector did not flag.
THEOREM DecisionsNeeded == ServiceSpec => []DecisionsAreAboutFlagged
  <1>1. WholeInv => DecisionsAreAboutFlagged
    BY DEF WholeInv, ServiceInv, TaskTables, TaskIsFlagged, R!HasTask,
           DecisionsAreAboutFlagged
  <1>. QED BY <1>1, ServiceInvariant, PTL
-----------------------------------------------------------------------------
(***************************************************************************)
(* The refinement of DocumentLife.                                         *)
(***************************************************************************)

\* The review of a document that has these tasks.
ReviewIn(tasks) ==
    IF tasks = {} THEN "none"
    ELSE LET status == (CHOOSE t \in tasks : TRUE).status IN
         IF status \in {"pending", "in_review"} THEN "open" ELSE status

\* It is that of the only one.
LEMMA OnlyTask ==
    /\ ReviewIn({}) = "none"
    /\ \A t : ReviewIn({t}) = IF t.status \in {"pending", "in_review"}
                              THEN "open" ELSE t.status
  <1>1. ASSUME NEW t PROVE (CHOOSE u \in {t} : TRUE) = t
    OBVIOUS
  <1>. QED BY <1>1 DEF ReviewIn

\* A document whose tasks do not change stays in its review.
LEMMA ReviewsOf ==
    /\ \A d : ReviewOf(d) = ReviewIn(TasksOf(d))
    /\ \A d : ReviewOf(d)' = ReviewIn(TasksOf(d)')
  <1>1. ASSUME NEW d PROVE ReviewOf(d) = ReviewIn(TasksOf(d))
    BY DEF ReviewOf, ReviewIn
  <1>2. ASSUME NEW d PROVE ReviewOf(d)' = ReviewIn(TasksOf(d)')
    BY DEF ReviewOf, ReviewIn
  <1>. QED BY <1>1, <1>2

\* A step of the service moves one document with PII on ...
LEMMA Moves ==
    ASSUME NEW d \in PiiDocuments, NEW status, NEW rev,
           docStatus'[d] = status, ReviewIn(TasksOf(d)') = rev,
           \A e \in PiiDocuments \ {d} :
              docStatus'[e] = docStatus[e] /\ TasksOf(e)' = TasksOf(e)
    PROVE  Life!Becomes(d, status, rev)
  <1>1. /\ ReviewOf(d)' = rev
        /\ \A e \in PiiDocuments \ {d} : ReviewOf(e)' = ReviewOf(e)
    BY ReviewsOf
  <1>. QED BY <1>1 DEF Life!Becomes

\* ... or none.
LEMMA Rests ==
    ASSUME \A e \in PiiDocuments :
              docStatus'[e] = docStatus[e] /\ TasksOf(e)' = TasksOf(e)
    PROVE  UNCHANGED Life!vars
  <1>1. \A e \in PiiDocuments : ReviewOf(e)' = ReviewOf(e)
    BY ReviewsOf
  <1>. QED BY <1>1 DEF Life!vars

\* The tasks of a document before and after the commit of a run.
LEMMA RunTasks ==
    ASSUME WholeInv, NEW r \in Runs, Commit(r), NEW d, d = doc[r]
    PROVE  /\ docStatus'[d] = tx[r].status
           /\ \A e \in PiiDocuments \ {d} :
                 docStatus'[e] = docStatus[e] /\ TasksOf(e)' = TasksOf(e)
           /\ TasksOf(d)' = TasksOf(d) \cup tx[r].task
  <1>1. /\ reviewTasks' = reviewTasks \cup tx[r].task
        /\ docStatus'[d] = tx[r].status
        /\ \A e \in Documents \ {d} : docStatus'[e] = docStatus[e]
    BY CommitEffect DEF WholeInv
  <1>2. \A t \in tx[r].task : t.document = d
    BY CommitAdds
  <1>3. \A e : TasksOf(e)' = {t \in reviewTasks' : t.document = e}
    BY DEF TasksOf
  <1>. QED BY <1>1, <1>2, <1>3, PipelineAssumption DEF TasksOf

\* The commit of a run is the processing of its document: it had no task, and
\* a run that the soft limit does not disturb gives it the one it needs.
LEMMA RunMoves ==
    ASSUME WholeInv, "soft_limit" \notin Faults, NEW r \in Runs, Commit(r)
    PROVE  Life!Next \/ UNCHANGED Life!vars
  <1> USE DEF WholeInv
  <1> PICK d : d = doc[r]
    OBVIOUS
  <1>1. CASE d \notin PiiDocuments
    BY <1>1, RunTasks, Rests
  <1>2. CASE d \in PiiDocuments
    <2>1. docStatus[d] = "processing"
      <3>1. docStatus[d] # Absent
        BY CommitEffect DEF RunsInv, Underway, Masked
      <3>2. docStatus[d] \notin FinalStatus
        BY <1>2, CommitEffect, PiiMasked DEF PiiInv, PiiTables, Masked
      <3>. QED BY <3>1, <3>2, CommitEffect DEF ServiceInv
    <2>2. TasksOf(d) = {}
      BY <2>1, TaskRun DEF TasksOf, FinalStatus
    <2>3. ~Disturbed(r)
      BY <1>2, CommitEffect, RunAgrees
         DEF Agrees, MaskAgrees, Masked, Disturbed
    <2>4. ReviewIn(tx[r].task) = IF tx[r].task = {} THEN "none" ELSE "open"
      <3>1. \/ tx[r].task = {}
            \/ \E t : tx[r].task = {t} /\ t.status = "pending"
        BY CommitAdds
      <3>. QED BY <3>1, OnlyTask
    <2>5. TasksOf(d)' = tx[r].task
      <3>1. TasksOf(d)' = TasksOf(d) \cup tx[r].task
        <4> HIDE DEF WholeInv
        <4>. QED BY RunTasks
      <3>. QED BY <2>2, <3>1
    <2>6. docStatus'[d] = tx[r].status
      BY RunTasks
    <2>7. ASSUME NEW rev, rev = ReviewIn(tx[r].task)
          PROVE  Life!Becomes(d, tx[r].status, rev)
      <3>1. \A e \in PiiDocuments \ {d} :
               docStatus'[e] = docStatus[e] /\ TasksOf(e)' = TasksOf(e)
        BY RunTasks
      <3> HIDE DEF WholeInv
      <3>. QED BY <1>2, <2>5, <2>6, <2>7, <3>1, Moves
    <2>8. /\ tx[r].status \in FinalStatus
          /\ tx[r].status = "validated" => tx[r].task # {}
          /\ tx[r].status = "reviewed" => tx[r].task = {}
      BY <2>3, CommitAdds
    <2>9. Life!Process(d)
      BY <1>2, <2>1, <2>4, <2>7, <2>8 DEF Life!Process, FinalStatus
    <2>. QED BY <1>2, <2>9 DEF Life!Next
  <1>. QED BY <1>1, <1>2

\* The commit of a request is a decision, unless it asks for a correction.
LEMMA RequestMoves ==
    ASSUME WholeInv, NEW s \in Sessions, R!CommitDecision(s)
    PROVE  Life!Next \/ UNCHANGED Life!vars
  <1> USE DEF WholeInv
  <1>1. /\ reviewTasks' = {TaskAfter(s, t) : t \in reviewTasks}
        /\ \A t \in reviewTasks :
              /\ TaskAfter(s, t).document = t.document
              /\ t.id = request[s].task =>
                    TaskAfter(s, t).status = R!NewStatus(s)
              /\ t.id # request[s].task => TaskAfter(s, t) = t
    BY CommitRequest, TaskRows
  <1>2. PICK row \in reviewTasks :
          /\ row.id = request[s].task /\ row.document = parent[s]
          /\ row.status \notin R!TerminalStatuses
    BY CommitDecides
  <1>3. \A t \in reviewTasks : t.id = request[s].task => t = row
    BY <1>2 DEF ServiceInv, TaskTables, R!TaskIdIsKey
  <1>4. \A e : TasksOf(e)' = {TaskAfter(s, t) : t \in TasksOf(e)}
    <2>1. \A e : TasksOf(e)' = {t \in reviewTasks' : t.document = e}
      BY DEF TasksOf
    <2>. QED BY <1>1, <2>1 DEF TasksOf
  <1> PICK d : d = parent[s]
    OBVIOUS
  <1>5. \A e : e # d => TasksOf(e)' = TasksOf(e)
    BY <1>1, <1>2, <1>3, <1>4 DEF TasksOf
  <1>6. /\ \A e \in Documents : e # d => docStatus'[e] = docStatus[e]
        /\ R!Decision(s) \notin R!Closing =>
              \A e \in Documents : docStatus'[e] = docStatus[e]
    BY CommitDecides
  <1>7. CASE d \notin PiiDocuments
    BY <1>5, <1>6, <1>7, Rests, PipelineAssumption
  <1>8. CASE d \in PiiDocuments
    <2>1. TasksOf(d) = {row}
      BY <1>2, <1>8, OneTask DEF TasksOf
    <2>2. /\ TasksOf(d)' = {TaskAfter(s, row)}
          /\ TaskAfter(s, row).status = R!NewStatus(s)
      BY <1>1, <1>2, <1>4, <2>1
    <2>3. ReviewOf(d) = "open"
      BY <1>2, <2>1, OnlyTask, ReviewsOf
         DEF R!TerminalStatuses, RunTypeOK, ReviewTask, ReviewTaskStatus
    <2>4. ReviewIn(TasksOf(d)') = IF R!NewStatus(s) \in {"pending", "in_review"}
                                  THEN "open" ELSE R!NewStatus(s)
      BY <2>2, OnlyTask
    <2>5. ASSUME NEW rev, rev = ReviewIn(TasksOf(d)')
          PROVE  Life!Becomes(d, docStatus'[d], rev)
      BY <1>5, <1>6, <1>8, <2>5, Moves, PipelineAssumption
    <2>6. CASE R!Decision(s) \in R!Closing
      <3>1. docStatus'[d] = R!Outcome(R!Decision(s))
        <4>1. /\ DecisionOf(s) \in R!ClosingDecisions(d)'
              /\ DecisionOf(s).decision = R!Decision(s)
          BY <2>6, CommitDecides DEF DecisionOf
        <4>2. docStatus'[d] = R!Outcome(DecisionOf(s).decision)
          BY <1>8, <4>1, CommitStands
             DEF PiiDecisionStands, DecisionStands, R!Outcome
        <4>. QED BY <4>1, <4>2
      <3>2. R!NewStatus(s) = R!Decision(s)
        BY <2>6, RequestFields
      <3>3. Life!Decide(d)
        BY <1>8, <2>3, <2>4, <2>5, <2>6, <3>1, <3>2
           DEF Life!Decide, R!Closing, R!Outcome
      <3>. QED BY <1>8, <3>3 DEF Life!Next
    <2>7. CASE R!NewStatus(s) = "escalated"
      <3>1. docStatus'[d] = docStatus[d]
        BY <1>6, <1>8, <2>7, RequestFields, PipelineAssumption DEF R!Closing
      <3>2. Life!Decide(d)
        BY <1>8, <2>3, <2>4, <2>5, <2>7, <3>1 DEF Life!Decide
      <3>. QED BY <1>8, <3>2 DEF Life!Next
    <2>8. CASE R!NewStatus(s) = "in_review"
      <3>1. /\ \A e \in Documents : docStatus'[e] = docStatus[e]
            /\ ReviewIn(TasksOf(d)') = "open"
        BY <1>6, <2>4, <2>8, RequestFields DEF R!Closing
      <3>2. \A e \in PiiDocuments : ReviewOf(e)' = ReviewOf(e)
        BY <1>5, <2>3, <3>1, ReviewsOf
      <3>. QED BY <3>1, <3>2, PipelineAssumption DEF Life!vars
    <2>. QED BY <2>6, <2>7, <2>8, RequestFields
  <1>. QED BY <1>7, <1>8

\* An upload is one, and whatever else is not committed is not seen.
LEMMA PrivateMoves ==
    ASSUME WholeInv,
           \/ \E d \in Documents : UploadCommits(d)
           \/ \E r \in Runs : KeepsAgreement(r)
           \/ \E s \in Sessions : R!Handle(s) /\ ~R!CommitDecision(s)
           \/ UNCHANGED vars
    PROVE  Life!Next \/ UNCHANGED Life!vars
  <1> USE DEF WholeInv
  <1>1. ASSUME UNCHANGED <<docStatus, reviewTasks>>
        PROVE  UNCHANGED Life!vars
    BY <1>1, Rests DEF TasksOf
  <1>2. ASSUME NEW d \in Documents, UploadCommits(d)
        PROVE  Life!Next \/ UNCHANGED Life!vars
    <2>1. /\ docStatus[d] = Absent /\ docStatus'[d] = "processing"
          /\ \A e \in Documents \ {d} : docStatus'[e] = docStatus[e]
          /\ \A e : TasksOf(e)' = TasksOf(e)
      BY <1>2, UploadEffect DEF TasksOf
    <2>2. CASE d \notin PiiDocuments
      BY <2>1, <2>2, Rests, PipelineAssumption
    <2>3. CASE d \in PiiDocuments
      <3>1. TasksOf(d) = {}
        BY <2>1, TaskRun, SameTables DEF TasksOf
      <3>2. Life!Becomes(d, "processing", "none")
        BY <2>1, <2>3, <3>1, Moves, OnlyTask, PipelineAssumption
      <3>3. Life!Upload(d)
        BY <2>1, <2>3, <3>2 DEF Life!Upload, Life!Absent, Absent
      <3>. QED BY <2>3, <3>3 DEF Life!Next
    <2>. QED BY <2>2, <2>3
  <1>3. ASSUME NEW r \in Runs, KeepsAgreement(r)
        PROVE  UNCHANGED <<docStatus, reviewTasks>>
    BY <1>3 DEF KeepsAgreement, Goto, tables
  <1>. QED BY <1>1, <1>2, <1>3, QuietRequest DEF vars

\* To its client and its reviewers a document with PII lives the life of
\* DocumentLife.  The soft limit is left out: it may strike between the row of
\* a flagged extraction and its task.
THEOREM LifeImplemented ==
    ASSUME "soft_limit" \notin Faults
    PROVE  ServiceSpec => ImplementsDocumentLife
  <1>1. ServiceInit => Life!Init
    <2> SUFFICES ASSUME ServiceInit PROVE Life!Init
      OBVIOUS
    <2>1. /\ \A d \in PiiDocuments : docStatus[d] = Life!Absent
          /\ \A d : TasksOf(d) = {}
      BY PipelineAssumption
         DEF ServiceInit, Init, TasksOf, Life!Absent, Absent
    <2>. QED BY <2>1, OnlyTask, ReviewsOf DEF Life!Init
  <1>2. WholeInv /\ [ServiceNext]_serviceVars => [Life!Next]_(Life!vars)
    <2> SUFFICES ASSUME WholeInv, [ServiceNext]_serviceVars
                 PROVE  Life!Next \/ UNCHANGED Life!vars
      OBVIOUS
    <2>1. ASSUME NEW r \in Runs,
                 \/ Begin(r) \/ RunRaises(r)
                 \/ SoftLimitInStep(r) \/ WorkerLost(r)
                 \/ Step(r) /\ ~Commit(r)
          PROVE  KeepsAgreement(r)
      BY <2>1, PrivateAgrees DEF WholeInv
    <2>. QED
      BY <2>1, PrivateMoves, RunMoves, RequestMoves
         DEF ServiceNext, Next, serviceVars
  <1>. QED
    BY <1>1, <1>2, ServiceInvariant, PTL
       DEF ServiceSpec, ImplementsDocumentLife, Life!Spec

=============================================================================

---------------------------- MODULE ReviewProofs ----------------------------
(***************************************************************************)
(* A review task is decided once, for any number of reviewers, tasks and   *)
(* documents and whatever fails.                                           *)
(***************************************************************************)
EXTENDS Review, TLAPS

\* What is written to the status columns has their type.
LEMMA StatusTypes ==
    /\ \A decision \in ReviewDecisionType :
          /\ DecisionToStatus(decision) \in ReviewTaskStatus
          /\ Outcome(decision) \in {"reviewed", "failed"}
          /\ Outcome(DecisionToStatus(decision)) \in {"reviewed", "failed"}
    /\ {"reviewed", "failed"} \subseteq DocumentStatus
    /\ FinalStatus \subseteq DocumentStatus
  BY DEF DecisionToStatus, ReviewTaskStatus, ReviewDecisionType, Outcome,
         DocumentStatus, FinalStatus

\* The rows a request commits have the type of their table.
LEMMA CommitTypes ==
    ASSUME ReviewTypeOK, NEW s \in Sessions, CommitDecision(s)
    PROVE  ReviewTypeOK'
  <1> DEFINE k == request[s].task
             x == [id |-> s, task |-> k, decision |-> Decision(s)]
  <1>1. request[s] \in Request /\ Decision(s) \in ReviewDecisionType
    BY DEF ReviewTypeOK, Request, Decision
  <1>2. x \in ReviewDecision
    BY <1>1 DEF ReviewDecision, Request
  <1>3. NewStatus(s) \in ReviewTaskStatus
    BY <1>1, StatusTypes DEF NewStatus
  <1>4. ASSUME NEW t \in reviewTasks
        PROVE  [t EXCEPT !.status = NewStatus(s)] \in ReviewTask
    BY <1>3, <1>4 DEF ReviewTypeOK, ReviewTask
  <1>5. reviewTasks' \subseteq ReviewTask
    BY <1>4 DEF CommitDecision, ReviewTypeOK
  <1>6. docStatus' \in [Documents -> {Absent} \cup DocumentStatus]
    BY StatusTypes DEF CommitDecision, ReviewTypeOK
  <1>. QED BY <1>2, <1>5, <1>6
       DEF CommitDecision, Release, Goes, ReviewTypeOK, Served

\* Every step of a request preserves the types.
LEMMA HandleTypes ==
    ASSUME ReviewTypeOK, ReviewInv, NEW s \in Sessions, Handle(s)
    PROVE  ReviewTypeOK'
  <1> USE DEF ReviewTypeOK, Goes, Serving, Served
  <1>1. CASE Receive(s)
    BY <1>1 DEF Receive
  <1>2. CASE GetForUpdate(s)
    <2>1. PICK t \in reviewTasks :
            /\ taskLock' = [taskLock EXCEPT ![request[s].task] = {s}]
            /\ parent' = [parent EXCEPT ![s] = t.document]
            /\ \E next \in Serving : spc' = [spc EXCEPT ![s] = next]
            /\ UNCHANGED <<docStatus, reviewTasks, docLock, decisions,
                           decisionAudit, request, seen, update, logged>>
      BY <1>2 DEF GetForUpdate
    <2>2. PICK next \in Serving : spc' = [spc EXCEPT ![s] = next]
      BY <2>1
    <2>3. parent' \in [Sessions -> {Absent} \cup Documents]
      BY <2>1 DEF ReviewTask
    <2>4. /\ spc' \in [Sessions -> {"idle"} \cup Serving \cup Served]
          /\ taskLock' \in [TaskIds -> SUBSET Sessions]
      <3>1. taskLock' = [taskLock EXCEPT ![request[s].task] = {s}]
        BY <2>1
      <3>2. spc' \in [Sessions -> {"idle"} \cup Serving \cup Served]
        BY <2>2
      <3>3. taskLock' \in [TaskIds -> SUBSET Sessions]
        BY <3>1
      <3>. QED BY <3>2, <3>3
    <2>5. UNCHANGED <<docStatus, reviewTasks, docLock, decisions, decisionAudit,
                      request, seen, update, logged>>
      BY <2>1
    <2>. QED BY <2>3, <2>4, <2>5
  <1>3. CASE TaskNotFound(s)
    BY <1>3 DEF TaskNotFound
  <1>7. CASE AuditDecision(s)
    <2>1. parent[s] \in Documents
      BY <1>7 DEF AuditDecision, ReviewInv, OpenUnderLock, ReviewTask
    <2>2. Event(s) \in ReviewEvent
      BY <2>1 DEF Event, ReviewEvent, Decision, Request
    <2>3. logged' \in [Sessions -> SUBSET ReviewEvent]
      BY <1>7, <2>2 DEF AuditDecision
    <2>. QED BY <1>7, <2>3 DEF AuditDecision
  <1>4. CASE LoadDocument(s)
    <2>1. parent[s] \in Documents
      BY <1>4 DEF LoadDocument, ReviewInv, OpenUnderLock, ReviewTask
    <2>. QED BY <1>4, <2>1 DEF LoadDocument
  <1>5. CASE UpdateDocument(s)
    <2>1. Outcome(NewStatus(s)) \in {"reviewed", "failed"}
      BY StatusTypes DEF NewStatus, Decision, Request
    <2>. QED BY <1>5, <2>1 DEF UpdateDocument
  <1>6. ASSUME NEW outcome \in Served, Abandon(s, outcome)
        PROVE  ReviewTypeOK'
    BY <1>6 DEF Abandon, Release
  <1>. QED
    BY <1>1, <1>2, <1>3, <1>4, <1>5, <1>6, <1>7, CommitTypes
       DEF Handle, Serve, Refuse, StatementFails, AuditFails, ProcessDies

\* A step that changes no table and, of the locks of tasks, only gives back
\* those of s, leaves the other requests with theirs.
LEMMA OthersKeepLocks ==
    ASSUME ReviewTypeOK, ReviewInv, NEW s \in Sessions,
           UNCHANGED <<reviewTasks, request>>,
           \A q \in Sessions \ {s} :
              /\ spc'[q] = spc[q] /\ parent'[q] = parent[q]
              /\ \A k \in TaskIds : taskLock[k] = {q} => taskLock'[k] = {q}
    PROVE  \A q \in Sessions \ {s} : OpenUnderLock(q)'
  <1>1. \A q \in Sessions : request[q].task \in TaskIds
    BY DEF ReviewTypeOK, Request
  <1>. QED BY <1>1 DEF ReviewInv, OpenUnderLock

\* The steps of a request before it commits keep the invariant.
LEMMA HandleInv ==
    ASSUME ReviewTypeOK, ReviewInv, NEW s \in Sessions,
           Handle(s), ~CommitDecision(s)
    PROVE  ReviewInv'
  <1>1. UNCHANGED <<reviewTasks, decisions, request>>
    BY DEF Handle, Receive, Serve, GetForUpdate, TaskNotFound, LoadDocument,
           UpdateDocument, AuditDecision, Refuse, StatementFails, AuditFails,
           ProcessDies, Abandon
  <1>2. TaskIdIsKey' /\ ClosedByDecision' /\ ClosedOnce'
    BY <1>1 DEF ReviewInv, TaskIdIsKey, ClosedByDecision, ClosedOnce, Terminal
  <1>3. OpenUnderLock(s)
    BY DEF ReviewInv
  <1>4. CASE GetForUpdate(s)
    <2>1. PICK t \in reviewTasks :
            /\ t.id = request[s].task /\ taskLock[request[s].task] = {}
            /\ taskLock' = [taskLock EXCEPT ![request[s].task] = {s}]
            /\ parent' = [parent EXCEPT ![s] = t.document]
            /\ \E next \in Serving :
                  /\ spc' = [spc EXCEPT ![s] = next]
                  /\ t.status \in TerminalStatuses => next = "raising"
      BY <1>4 DEF GetForUpdate, Goes, Serving
    <2>2. request[s].task \in TaskIds
      BY DEF ReviewTypeOK, Request
    <2>3. OpenUnderLock(s)'
      BY <1>1, <2>1, <2>2 DEF OpenUnderLock, ReviewTypeOK
    <2>4. \A q \in Sessions \ {s} : OpenUnderLock(q)'
      BY <1>1, <2>1, OthersKeepLocks DEF ReviewTypeOK
    <2>. QED BY <1>2, <2>3, <2>4 DEF ReviewInv
  <1>5. CASE \/ Receive(s) \/ TaskNotFound(s) \/ LoadDocument(s)
             \/ UpdateDocument(s) \/ AuditDecision(s)
    <2>1. /\ UNCHANGED <<taskLock, parent>>
          /\ \A q \in Sessions \ {s} : spc'[q] = spc[q]
          /\ spc'[s] \in {"load", "update", "audit", "commit"} =>
                spc[s] \in {"load", "update", "audit", "commit"}
      BY <1>5 DEF Receive, TaskNotFound, LoadDocument, UpdateDocument,
                  AuditDecision, Goes, ReviewTypeOK
    <2>2. OpenUnderLock(s)'
      BY <1>1, <1>3, <2>1 DEF OpenUnderLock
    <2>3. \A q \in Sessions \ {s} : OpenUnderLock(q)'
      BY <1>1, <2>1, OthersKeepLocks
    <2>. QED BY <1>2, <2>2, <2>3 DEF ReviewInv
  <1>6. ASSUME NEW outcome \in Served, Abandon(s, outcome)
        PROVE  ReviewInv'
    <2>1. /\ parent' = parent /\ spc'[s] = outcome
          /\ \A q \in Sessions \ {s} :
                /\ spc'[q] = spc[q]
                /\ \A k \in TaskIds : taskLock[k] = {q} => taskLock'[k] = {q}
      BY <1>6 DEF Abandon, Release, Goes, ReviewTypeOK
    <2>2. OpenUnderLock(s)'
      BY <2>1 DEF OpenUnderLock, Served
    <2>3. \A q \in Sessions \ {s} : OpenUnderLock(q)'
      BY <1>1, <2>1, OthersKeepLocks
    <2>. QED BY <1>2, <2>2, <2>3 DEF ReviewInv
  <1>. QED
    BY <1>4, <1>5, <1>6
       DEF Handle, Serve, Refuse, StatementFails, AuditFails, ProcessDies,
           Served

\* The commit closes the one row of the task, which was open.
LEMMA CommitInv ==
    ASSUME ReviewTypeOK, ReviewInv, NEW s \in Sessions, CommitDecision(s)
    PROVE  ReviewInv'
  <1> DEFINE k == request[s].task
             x == [id |-> s, task |-> k, decision |-> Decision(s)]
             new(t) == IF t.id = k THEN [t EXCEPT !.status = NewStatus(s)]
                                   ELSE t
  <1>1. /\ spc[s] = "commit" /\ spc'[s] = "answered"
        /\ decisions' = decisions \cup {x}
        /\ reviewTasks' = {new(t) : t \in reviewTasks}
        /\ UNCHANGED <<request, parent>>
        /\ \A q \in Sessions \ {s} : spc'[q] = spc[q]
        /\ \A j \in TaskIds : taskLock'[j] = taskLock[j] \ {s}
    BY DEF CommitDecision, Release, Goes, ReviewTypeOK
  <1>2. PICK row \in reviewTasks :
          row.id = k /\ row.status \notin TerminalStatuses
    BY <1>1 DEF ReviewInv, OpenUnderLock
  <1>3. taskLock[k] = {s} /\ k \in TaskIds
    BY <1>1 DEF ReviewInv, OpenUnderLock, ReviewTypeOK, Request
  <1>4. ASSUME NEW t \in reviewTasks
        PROVE  /\ new(t).id = t.id /\ new(t).document = t.document
               /\ t.id = k => new(t).status = NewStatus(s)
               /\ t.id # k => new(t) = t
    BY DEF ReviewTypeOK, ReviewTask
  <1>5. x.id = s /\ x.task = k /\ x.decision = Decision(s)
    OBVIOUS
  <1>6. ASSUME NEW y \in decisions, Terminal(y)
        PROVE  y.task # k
    <2>1. PICK t \in reviewTasks : t.id = y.task /\ t.status = y.decision
      BY <1>6 DEF ReviewInv, ClosedByDecision
    <2>2. t.status \in TerminalStatuses
      BY <1>6, <2>1 DEF Terminal, DecisionToStatus, TerminalStatuses,
                        ReviewTypeOK, ReviewDecision, ReviewDecisionType
    <2>. QED BY <1>2, <2>1, <2>2 DEF ReviewInv, TaskIdIsKey
  <1> HIDE DEF new, x
  <1>7. TaskIdIsKey'
    BY <1>1, <1>4 DEF ReviewInv, TaskIdIsKey
  <1>8. ClosedOnce'
    BY <1>1, <1>5, <1>6 DEF ReviewInv, ClosedOnce, Terminal
  <1>9. ASSUME NEW y \in decisions', Terminal(y)
        PROVE  \E t \in reviewTasks' : t.id = y.task /\ t.status = y.decision
    <2>1. CASE y = x
      <3>1. NewStatus(s) = Decision(s)
        BY <1>5, <1>9, <2>1
           DEF Terminal, NewStatus, DecisionToStatus, TerminalStatuses
      <3>. QED BY <1>1, <1>2, <1>4, <1>5, <2>1, <3>1
    <2>2. CASE y \in decisions
      <3>1. PICK t \in reviewTasks : t.id = y.task /\ t.status = y.decision
        BY <1>9, <2>2 DEF ReviewInv, ClosedByDecision
      <3>. QED BY <1>1, <1>4, <1>6, <1>9, <2>2, <3>1
    <2>. QED BY <1>1, <1>9, <2>1, <2>2
  <1>10. ASSUME NEW q \in Sessions \ {s} PROVE OpenUnderLock(q)'
    <2> SUFFICES ASSUME spc[q] \in {"load", "update", "audit", "commit"}
                 PROVE  /\ taskLock'[request[q].task] = {q}
                        /\ \E t \in reviewTasks' :
                              /\ t.id = request[q].task
                              /\ t.document = parent[q]
                              /\ t.status \notin TerminalStatuses
      BY <1>1 DEF OpenUnderLock
    <2>1. /\ taskLock[request[q].task] = {q} /\ request[q].task \in TaskIds
          /\ \E t \in reviewTasks :
                /\ t.id = request[q].task /\ t.document = parent[q]
                /\ t.status \notin TerminalStatuses
      BY DEF ReviewInv, OpenUnderLock, ReviewTypeOK, Request
    <2>2. request[q].task # k
      BY <1>3, <2>1
    <2>. QED BY <1>1, <1>4, <2>1, <2>2
  <1>11. OpenUnderLock(s)'
    BY <1>1 DEF OpenUnderLock
  <1>. QED
    BY <1>7, <1>8, <1>9, <1>10, <1>11
       DEF ReviewInv, ClosedByDecision, Terminal

\* Type correctness and the inductive invariant, proved together: that the
\* loaded document exists follows from the lock.
THEOREM ReviewInvariant == Spec => [](ReviewTypeOK /\ ReviewInv)
  <1>1. Init => ReviewTypeOK
    <2> SUFFICES ASSUME Init PROVE ReviewTypeOK
      OBVIOUS
    <2>1. reviewTasks \subseteq ReviewTask
      BY DEF Init, ReviewTask, ReviewPriority, ReviewTaskStatus
    <2>. QED BY <2>1, StatusTypes DEF Init, InitSessions, ReviewTypeOK
  <1>2. Init => ReviewInv
    BY DEF Init, InitSessions, ReviewInv, TaskIdIsKey, ClosedByDecision,
           ClosedOnce, OpenUnderLock
  <1>3. ReviewTypeOK /\ ReviewInv /\ [Next]_vars => (ReviewTypeOK /\ ReviewInv)'
    <2> SUFFICES ASSUME ReviewTypeOK, ReviewInv, [Next]_vars
                 PROVE  (ReviewTypeOK /\ ReviewInv)'
      OBVIOUS
    <2>1. CASE UNCHANGED vars
      BY <2>1 DEF vars, reviewVars, sessionVars, ReviewTypeOK, ReviewInv,
                  TaskIdIsKey, ClosedByDecision, ClosedOnce, OpenUnderLock,
                  Terminal
    <2>2. ASSUME NEW s \in Sessions, Handle(s)
          PROVE  (ReviewTypeOK /\ ReviewInv)'
      BY <2>2, HandleTypes, HandleInv, CommitInv
    <2>. QED BY <2>1, <2>2 DEF Next
  <1>. QED BY <1>1, <1>2, <1>3, PTL DEF Spec

\* Every variable keeps its type.
THEOREM ReviewTypeCorrect == Spec => []ReviewTypeOK
  BY ReviewInvariant, PTL

\* "concurrent reviewers cannot ... double-decide".
THEOREM NoDoubleDecision == Spec => []DecidedOnce
  <1>1. ReviewInv => DecidedOnce
    BY DEF ReviewInv, TaskIdIsKey, ClosedByDecision, ClosedOnce, DecidedOnce
  <1>. QED BY <1>1, ReviewInvariant, PTL
-----------------------------------------------------------------------------
(***************************************************************************)
(* What the decisions, the audit trail and the documents say together.     *)
(***************************************************************************)

\* A decision closes its task in the same way as its status says.
LEMMA ClosingStatus ==
    ASSUME NEW s \in Sessions
    PROVE  /\ NewStatus(s) \in Closing <=> Decision(s) \in Closing
           /\ Decision(s) \in Closing => NewStatus(s) = Decision(s)
  BY DEF NewStatus, DecisionToStatus, Closing

\* Before its commit a request writes nothing that another one can see, and
\* no request answers in another's place.
LEMMA QuietStep ==
    ASSUME ReviewTypeOK, NEW s \in Sessions, Handle(s), ~CommitDecision(s)
    PROVE  /\ UNCHANGED <<docStatus, reviewTasks, decisions, decisionAudit,
                          request>>
           /\ \A q \in Sessions \ {s} :
                 /\ spc'[q] = spc[q] /\ parent'[q] = parent[q]
                 /\ seen'[q] = seen[q] /\ update'[q] = update[q]
                 /\ logged'[q] = logged[q]
           /\ spc[s] # "answered" /\ spc'[s] # "answered"
  <1> USE DEF ReviewTypeOK, Goes, Serving
  <1>1. CASE \/ Receive(s) \/ TaskNotFound(s) \/ LoadDocument(s)
             \/ AuditDecision(s)
    BY <1>1 DEF Receive, TaskNotFound, LoadDocument, AuditDecision
  <1>2. CASE GetForUpdate(s)
    BY <1>2 DEF GetForUpdate
  <1>3. CASE UpdateDocument(s)
    BY <1>3 DEF UpdateDocument
  <1>4. ASSUME NEW outcome \in {"refused", "failed"}, Abandon(s, outcome),
               spc[s] \in Serving
        PROVE  /\ UNCHANGED <<docStatus, reviewTasks, decisions, decisionAudit,
                              request>>
               /\ \A q \in Sessions \ {s} :
                     /\ spc'[q] = spc[q] /\ parent'[q] = parent[q]
                     /\ seen'[q] = seen[q] /\ update'[q] = update[q]
                     /\ logged'[q] = logged[q]
               /\ spc[s] # "answered" /\ spc'[s] # "answered"
    BY <1>4 DEF Abandon
  <1>. QED
    BY <1>1, <1>2, <1>3, <1>4
       DEF Handle, Serve, Refuse, StatementFails, AuditFails, ProcessDies

\* A request is only refused for a task that is closed or not there.
LEMMA QuietRefusal ==
    ASSUME ReviewTypeOK, DecisionInv, NEW s \in Sessions,
           Handle(s), ~CommitDecision(s)
    PROVE  RefusalHasReason'
  <1>1. /\ UNCHANGED <<reviewTasks, decisions, request>>
        /\ \A q \in Sessions \ {s} : spc'[q] = spc[q]
    BY QuietStep
  <1>2. \A k : /\ HasTask(k)' <=> HasTask(k)
               /\ HasClosing(k)' <=> HasClosing(k)
    BY <1>1 DEF HasTask, HasClosing, Terminal
  <1>3. ASSUME spc'[s] \in {"raising", "refused"}, HasTask(request[s].task)
        PROVE  HasClosing(request[s].task)
    <2>1. CASE Receive(s) \/ LoadDocument(s) \/ UpdateDocument(s)
               \/ AuditDecision(s)
      BY <1>3, <2>1 DEF Receive, LoadDocument, UpdateDocument, AuditDecision,
                        Goes, ReviewTypeOK
    <2>2. CASE GetForUpdate(s)
      <3>1. PICK t \in reviewTasks :
              t.id = request[s].task /\ t.status \in TerminalStatuses
        BY <1>3, <2>2 DEF GetForUpdate, Goes, ReviewTypeOK
      <3>. QED BY <3>1 DEF DecisionInv, RefusalHasReason
    <2>3. CASE TaskNotFound(s)
      BY <1>3, <2>3 DEF TaskNotFound, HasTask
    <2>4. CASE Refuse(s)
      BY <1>3, <2>4 DEF Refuse, DecisionInv, RefusalHasReason
    <2>5. CASE StatementFails(s) \/ AuditFails(s) \/ ProcessDies(s)
      BY <1>3, <2>5 DEF StatementFails, AuditFails, ProcessDies, Abandon, Goes,
                        ReviewTypeOK
    <2>. QED BY <2>1, <2>2, <2>3, <2>4, <2>5 DEF Handle, Serve
  <1>. QED
    BY <1>1, <1>2, <1>3 DEF DecisionInv, RefusalHasReason

\* What a request loads and is going to write keeps agreeing with its decision.
LEMMA QuietUpdate ==
    ASSUME ReviewTypeOK, ReviewInv, DecisionInv, NEW s \in Sessions,
           Handle(s), ~CommitDecision(s)
    PROVE  \A q \in Sessions : UpdateIsOutcome(q)' /\ SeenIsCurrent(q)'
  <1>1. /\ UNCHANGED <<docStatus, reviewTasks, decisions, request>>
        /\ \A q \in Sessions \ {s} :
              /\ spc'[q] = spc[q] /\ parent'[q] = parent[q]
              /\ seen'[q] = seen[q] /\ update'[q] = update[q]
    BY QuietStep
  <1>2. /\ \A q \in Sessions : Decision(q)' = Decision(q)
        /\ \A d : ClosingDecisions(d)' = ClosingDecisions(d)
    BY <1>1 DEF Decision, ClosingDecisions
  <1>3. ASSUME NEW q \in Sessions \ {s}
        PROVE  UpdateIsOutcome(q)' /\ SeenIsCurrent(q)'
    BY <1>1, <1>2 DEF DecisionInv, UpdateIsOutcome, SeenIsCurrent
  <1>4. UpdateIsOutcome(s) /\ SeenIsCurrent(s)
    BY DEF DecisionInv
  <1>5. UpdateIsOutcome(s)' /\ SeenIsCurrent(s)'
    <2> USE DEF ReviewTypeOK, Goes
    <2>1. CASE Receive(s) \/ TaskNotFound(s) \/ AuditDecision(s)
      BY <1>1, <1>2, <1>4, <2>1
         DEF Receive, TaskNotFound, AuditDecision, UpdateIsOutcome,
             SeenIsCurrent
    <2>2. CASE GetForUpdate(s)
      <3>1. /\ spc[s] = "select" /\ update' = update
            /\ \/ spc'[s] = "raising"
               \/ spc'[s] = "load" /\ Decision(s) \in Closing
               \/ spc'[s] = "audit" /\ Decision(s) \notin Closing
        BY <2>2, ClosingStatus DEF GetForUpdate
      <3>. QED
        BY <1>2, <1>4, <3>1 DEF UpdateIsOutcome, SeenIsCurrent
    <2>3. CASE LoadDocument(s)
      <3>1. /\ spc[s] = "load" /\ spc'[s] = "update"
            /\ seen'[s] = docStatus[parent[s]]
            /\ UNCHANGED <<update, parent>>
        BY <2>3 DEF LoadDocument
      <3>. QED
        BY <1>1, <1>2, <1>4, <3>1 DEF UpdateIsOutcome, SeenIsCurrent
    <2>4. CASE UpdateDocument(s)
      <3>1. /\ spc[s] = "update" /\ spc'[s] = "audit"
            /\ UNCHANGED <<parent, seen>>
            /\ update'[s] = IF seen[s] # Outcome(NewStatus(s))
                            THEN Outcome(NewStatus(s)) ELSE update[s]
        BY <2>4 DEF UpdateDocument
      <3>2. Decision(s) \in Closing /\ NewStatus(s) = Decision(s)
        BY <1>4, <3>1, ClosingStatus DEF UpdateIsOutcome
      <3>. QED
        BY <1>1, <1>2, <1>4, <3>1, <3>2 DEF UpdateIsOutcome, SeenIsCurrent
    <2>5. ASSUME NEW outcome \in {"refused", "failed"}, Abandon(s, outcome)
          PROVE  UpdateIsOutcome(s)' /\ SeenIsCurrent(s)'
      BY <2>5 DEF Abandon, UpdateIsOutcome, SeenIsCurrent
    <2>. QED
      BY <2>1, <2>2, <2>3, <2>4, <2>5
         DEF Handle, Serve, Refuse, StatementFails, AuditFails, ProcessDies
  <1>. QED BY <1>3, <1>5

\* The event is logged by the step that leads to the commit, and an exception
\* that ends the transaction takes it away again.
LEMMA QuietLog ==
    ASSUME ReviewTypeOK, DecisionInv, NEW s \in Sessions,
           Handle(s), ~CommitDecision(s)
    PROVE  \A q \in Sessions : EventIsLogged(q)'
  <1> USE DEF ReviewTypeOK, Goes
  <1>1. ASSUME NEW q \in Sessions \ {s} PROVE EventIsLogged(q)'
    BY QuietStep DEF DecisionInv, EventIsLogged, Event, Decision
  <1> SUFFICES EventIsLogged(s)'
    BY <1>1
  <1>2. EventIsLogged(s)
    BY DEF DecisionInv
  <1>3. CASE \/ Receive(s) \/ TaskNotFound(s) \/ LoadDocument(s)
    BY <1>2, <1>3 DEF Receive, TaskNotFound, LoadDocument, EventIsLogged
  <1>4. CASE GetForUpdate(s)
    <2>1. /\ logged' = logged /\ spc[s] = "select" /\ spc'[s] # "commit"
      BY <1>4 DEF GetForUpdate
    <2>. QED BY <1>2, <2>1 DEF EventIsLogged
  <1>5. CASE UpdateDocument(s)
    <2>1. /\ logged' = logged /\ spc[s] = "update" /\ spc'[s] = "audit"
      BY <1>5 DEF UpdateDocument
    <2>. QED BY <1>2, <2>1 DEF EventIsLogged
  <1>6. CASE AuditDecision(s)
    <2>1. /\ spc[s] = "audit" /\ spc'[s] = "commit"
          /\ logged'[s] = logged[s] \cup {Event(s)} /\ UNCHANGED <<request, parent>>
      BY <1>6 DEF AuditDecision
    <2>2. Event(s)' = Event(s)
      BY <2>1 DEF Event, Decision
    <2>. QED BY <1>2, <2>1, <2>2 DEF EventIsLogged
  <1>7. ASSUME NEW outcome \in {"refused", "failed"}, Abandon(s, outcome)
        PROVE  EventIsLogged(s)'
    BY <1>7 DEF Abandon, EventIsLogged
  <1>. QED
    BY <1>3, <1>4, <1>5, <1>6, <1>7
       DEF Handle, Serve, Refuse, StatementFails, AuditFails, ProcessDies

\* A request that has not committed keeps the invariant.
LEMMA QuietInv ==
    ASSUME ReviewTypeOK, ReviewInv, DecisionInv, NEW s \in Sessions,
           Handle(s), ~CommitDecision(s)
    PROVE  DecisionInv'
  <1>1. DecisionsAreAudited'
    <2>1. \A q \in Sessions : spc'[q] = "answered" <=> spc[q] = "answered"
      BY QuietStep
    <2>. QED
      BY <2>1, QuietStep DEF DecisionInv, DecisionsAreAudited, Records
  <1>2. AgreedOutcome'
    BY QuietStep DEF DecisionInv, AgreedOutcome, ClosingDecisions
  <1>. QED BY <1>1, <1>2, QuietRefusal, QuietUpdate, QuietLog DEF DecisionInv

\* The row that a request inserts into review_decisions.
DecisionOf(s) == [id |-> s, task |-> request[s].task, decision |-> Decision(s)]

\* What the commit of s writes; the tasks keep their ids and documents.
LEMMA CommitWrites ==
    ASSUME ReviewTypeOK, ReviewInv, NEW s \in Sessions, CommitDecision(s)
    PROVE  /\ spc[s] = "commit" /\ spc'[s] = "answered"
           /\ decisions' = decisions \cup {DecisionOf(s)}
           /\ decisionAudit' = decisionAudit \cup logged[s]
           /\ UNCHANGED <<request, parent, seen>>
           /\ logged'[s] = {}
           /\ \A q \in Sessions \ {s} :
                 /\ spc'[q] = spc[q] /\ update'[q] = update[q]
                 /\ logged'[q] = logged[q]
           /\ parent[s] \in Documents
           /\ docStatus' = IF update[s] = Absent THEN docStatus
                           ELSE [docStatus EXCEPT ![parent[s]] = update[s]]
           /\ \A k, d : (\E t \in reviewTasks' : t.id = k /\ t.document = d)
                 <=> (\E t \in reviewTasks : t.id = k /\ t.document = d)
           /\ \A k : HasTask(k)' <=> HasTask(k)
           /\ \A t \in reviewTasks' :
                 \/ t \in reviewTasks
                 \/ t.id = request[s].task /\ t.status = NewStatus(s)
  <1> DEFINE k == request[s].task
             new(t) == IF t.id = k THEN [t EXCEPT !.status = NewStatus(s)]
                                   ELSE t
  <1>1. /\ spc[s] = "commit" /\ spc'[s] = "answered"
        /\ decisions' = decisions \cup {DecisionOf(s)}
        /\ decisionAudit' = decisionAudit \cup logged[s]
        /\ UNCHANGED <<request, parent, seen>>
        /\ logged'[s] = {}
        /\ \A q \in Sessions \ {s} :
              /\ spc'[q] = spc[q] /\ update'[q] = update[q]
              /\ logged'[q] = logged[q]
        /\ docStatus' = IF update[s] = Absent THEN docStatus
                        ELSE [docStatus EXCEPT ![parent[s]] = update[s]]
        /\ reviewTasks' = {new(t) : t \in reviewTasks}
    BY DEF CommitDecision, DecisionOf, Goes, ReviewTypeOK
  <1>2. ASSUME NEW t \in reviewTasks
        PROVE  /\ new(t).id = t.id /\ new(t).document = t.document
               /\ t.id = k => new(t).status = NewStatus(s)
               /\ t.id # k => new(t) = t
    BY DEF ReviewTypeOK, ReviewTask
  <1>3. parent[s] \in Documents
    BY <1>1 DEF ReviewInv, OpenUnderLock, ReviewTypeOK, ReviewTask
  <1> HIDE DEF new
  <1>. QED BY <1>1, <1>2, <1>3 DEF HasTask

\* The commit adds its decision to those of its document, and to no other's.
LEMMA CommitCloses ==
    ASSUME ReviewTypeOK, ReviewInv, NEW s \in Sessions, CommitDecision(s)
    PROVE  \A d : ClosingDecisions(d)' =
              ClosingDecisions(d) \cup
                {x \in {DecisionOf(s)} : d = parent[s] /\ Decision(s) \in Closing}
  <1>1. PICK row \in reviewTasks :
          row.id = request[s].task /\ row.document = parent[s]
    BY CommitWrites DEF ReviewInv, OpenUnderLock
  <1>2. \A d : (\E t \in reviewTasks : t.id = request[s].task /\ t.document = d)
               <=> d = parent[s]
    BY <1>1 DEF ReviewInv, TaskIdIsKey
  <1>3. /\ DecisionOf(s).task = request[s].task
        /\ DecisionOf(s).decision = Decision(s)
    BY DEF DecisionOf
  <1>. QED BY <1>2, <1>3, CommitWrites DEF ClosingDecisions

\* The commit puts the status of its document where its decision wants it, also
\* when it leaves the update out.
LEMMA CommitAgrees ==
    ASSUME ReviewTypeOK, ReviewInv, DecisionInv,
           NEW s \in Sessions, CommitDecision(s)
    PROVE  AgreedOutcome'
  <1> SUFFICES ASSUME NEW d \in Documents, NEW outcome \in {"reviewed", "failed"},
                      ClosingDecisions(d)' # {},
                      \A x \in ClosingDecisions(d)' :
                         Outcome(x.decision) = outcome
               PROVE  docStatus'[d] = outcome
    BY DEF AgreedOutcome
  <1>1. /\ ClosingDecisions(d) \subseteq ClosingDecisions(d)'
        /\ ClosingDecisions(d) # {} => docStatus[d] = outcome
    BY CommitCloses DEF DecisionInv, AgreedOutcome
  <1>2. update[s] = IF \/ Decision(s) \notin Closing
                       \/ seen[s] = Outcome(Decision(s))
                    THEN Absent ELSE Outcome(Decision(s))
    BY CommitWrites DEF DecisionInv, UpdateIsOutcome
  <1>3. CASE d = parent[s] /\ Decision(s) \in Closing
    <2>1. /\ DecisionOf(s) \in ClosingDecisions(d)'
          /\ DecisionOf(s).decision = Decision(s)
      BY <1>3, CommitCloses DEF DecisionOf
    <2>2. Outcome(Decision(s)) = outcome
      BY <2>1
    <2>3. CASE seen[s] = outcome
      <3>1. docStatus' = docStatus
        BY <1>2, <2>2, <2>3, CommitWrites
      <3>2. ClosingDecisions(d) = {} => docStatus[d] = outcome
        BY <1>3, <2>3, CommitWrites DEF DecisionInv, SeenIsCurrent
      <3>. QED BY <1>1, <3>1, <3>2
    <2>4. CASE seen[s] # outcome
      <3>1. update[s] = outcome /\ outcome # Absent
        BY <1>2, <1>3, <2>2, <2>4 DEF Absent
      <3>. QED BY <1>3, <3>1, CommitWrites DEF ReviewTypeOK
    <2>. QED BY <2>3, <2>4
  <1>4. CASE ~(d = parent[s] /\ Decision(s) \in Closing)
    <2>1. ClosingDecisions(d)' = ClosingDecisions(d)
      BY <1>4, CommitCloses
    <2>2. docStatus'[d] = docStatus[d]
      BY <1>2, <1>4, CommitWrites DEF ReviewTypeOK
    <2>. QED BY <1>1, <2>1, <2>2
  <1>. QED BY <1>3, <1>4

\* The commit keeps the invariant.
LEMMA CommitDecisionInv ==
    ASSUME ReviewTypeOK, ReviewInv, DecisionInv,
           NEW s \in Sessions, CommitDecision(s)
    PROVE  DecisionInv'
  <1>1. /\ DecisionOf(s).id = s /\ DecisionOf(s).task = request[s].task
        /\ DecisionOf(s).decision = Decision(s)
    BY DEF DecisionOf
  <1>2. DecisionsAreAudited'
    <2>1. /\ Event(s).id = s /\ Event(s).decision = Decision(s)
          /\ Event(s).document = parent[s]
          /\ decisionAudit' = decisionAudit \cup {Event(s)}
      BY CommitWrites DEF Event, DecisionInv, EventIsLogged
    <2>2. \A e, x : Records(e, x) => Records(e, x)'
      BY CommitWrites DEF Records
    <2>3. Records(Event(s), DecisionOf(s))
      BY <1>1, <2>1, CommitWrites DEF Records, ReviewInv, OpenUnderLock
    <2>4. \A x \in decisions' : \E e \in decisionAudit' : Records(e, x)'
      BY <2>1, <2>2, <2>3, CommitWrites DEF DecisionInv, DecisionsAreAudited
    <2>5. \A e \in decisionAudit' : \E x \in decisions' : Records(e, x)'
      BY <2>1, <2>2, <2>3, CommitWrites DEF DecisionInv, DecisionsAreAudited
    <2>6. \A q \in Sessions :
             spc'[q] = "answered" <=> \E e \in decisionAudit' : e.id = q
      BY <2>1, CommitWrites DEF DecisionInv, DecisionsAreAudited
    <2>. QED BY <2>4, <2>5, <2>6 DEF DecisionsAreAudited
  <1>3. RefusalHasReason'
    <2>1. \A k : HasClosing(k) => HasClosing(k)'
      BY CommitWrites DEF HasClosing, Terminal
    <2>2. NewStatus(s) \in TerminalStatuses => HasClosing(request[s].task)'
      BY <1>1, CommitWrites DEF HasClosing, Terminal, NewStatus
    <2>3. \A t \in reviewTasks' :
             t.status \in TerminalStatuses => HasClosing(t.id)'
      BY <2>1, <2>2, CommitWrites DEF DecisionInv, RefusalHasReason
    <2>4. ASSUME NEW q \in Sessions, NEW k, k = request[q].task,
                 spc'[q] \in {"raising", "refused"}, HasTask(k)'
          PROVE  HasClosing(k)'
      BY <2>1, <2>4, CommitWrites DEF DecisionInv, RefusalHasReason
    <2>. QED
      BY <2>3, <2>4, CommitWrites DEF RefusalHasReason, HasTask, HasClosing
  <1>4. ASSUME NEW q \in Sessions
        PROVE  UpdateIsOutcome(q)' /\ SeenIsCurrent(q)'
    <2>1. CASE q = s
      BY <2>1, CommitWrites DEF UpdateIsOutcome, SeenIsCurrent
    <2>2. CASE q # s
      <3>1. /\ UpdateIsOutcome(q) /\ SeenIsCurrent(q) /\ OpenUnderLock(q)
            /\ Decision(q)' = Decision(q)
        BY CommitWrites DEF DecisionInv, ReviewInv, Decision
      <3>2. UpdateIsOutcome(q)'
        BY <2>2, <3>1, CommitWrites DEF UpdateIsOutcome
      <3>3. ASSUME spc[q] \in {"update", "audit", "commit"},
                   Decision(q) \in Closing,
                   NEW d, d = parent[q], ClosingDecisions(d)' = {}
            PROVE  seen[q] = docStatus'[d]
        <4>1. /\ ClosingDecisions(d) = {}
              /\ d = parent[s] => Decision(s) \notin Closing
          BY <3>3, CommitCloses
        <4>2. seen[q] = docStatus[parent[q]] /\ parent[q] \in Documents
          BY <3>1, <3>3, <4>1
             DEF SeenIsCurrent, OpenUnderLock, ReviewTypeOK, ReviewTask
        <4>3. Decision(s) \notin Closing => update[s] = Absent
          BY CommitWrites DEF DecisionInv, UpdateIsOutcome
        <4>. QED BY <3>3, <4>1, <4>2, <4>3, CommitWrites DEF ReviewTypeOK
      <3>4. /\ spc'[q] = spc[q] /\ UNCHANGED <<parent, seen>>
        BY <2>2, CommitWrites
      <3>5. SeenIsCurrent(q)'
        BY <3>1, <3>3, <3>4 DEF SeenIsCurrent, ClosingDecisions
      <3>. QED BY <3>2, <3>5
    <2>. QED BY <2>1, <2>2
  <1>5. ASSUME NEW q \in Sessions PROVE EventIsLogged(q)'
    <2>1. CASE q = s
      BY <2>1, CommitWrites DEF EventIsLogged
    <2>2. CASE q # s
      <3>1. EventIsLogged(q) /\ Event(q)' = Event(q)
        BY CommitWrites DEF DecisionInv, Event, Decision
      <3>. QED BY <2>2, <3>1, CommitWrites DEF EventIsLogged
    <2>. QED BY <2>1, <2>2
  <1>. QED BY <1>2, <1>3, <1>4, <1>5, CommitAgrees DEF DecisionInv

\* Decisions, refusals and outcomes agree, however the requests interleave.
THEOREM DecisionInvariant == Spec => []DecisionInv
  <1>1. Init => DecisionInv
    <2> SUFFICES ASSUME Init PROVE DecisionInv
      OBVIOUS
    <2>1. /\ decisions = {} /\ decisionAudit = {}
          /\ \A s \in Sessions :
                spc[s] = "idle" /\ update[s] = Absent /\ logged[s] = {}
          /\ \A t \in reviewTasks : t.status = "pending"
      BY DEF Init, InitSessions
    <2>. QED
      BY <2>1 DEF DecisionInv, DecisionsAreAudited, RefusalHasReason,
                  AgreedOutcome, ClosingDecisions, TerminalStatuses,
                  UpdateIsOutcome, SeenIsCurrent, EventIsLogged
  <1>2. ReviewTypeOK /\ ReviewInv /\ DecisionInv /\ [Next]_vars => DecisionInv'
    <2> SUFFICES ASSUME ReviewTypeOK, ReviewInv, DecisionInv, [Next]_vars
                 PROVE  DecisionInv'
      OBVIOUS
    <2>1. CASE UNCHANGED vars
      <3> USE <2>1 DEF vars, reviewVars, sessionVars, DecisionInv
      <3>1. DecisionsAreAudited' /\ RefusalHasReason'
        BY DEF DecisionsAreAudited, Records, RefusalHasReason, HasTask,
               HasClosing, Terminal
      <3>2. AgreedOutcome'
        BY DEF AgreedOutcome, ClosingDecisions
      <3>3. ASSUME NEW s \in Sessions
            PROVE  UpdateIsOutcome(s)' /\ SeenIsCurrent(s)' /\ EventIsLogged(s)'
        <4>1. UpdateIsOutcome(s) /\ SeenIsCurrent(s) /\ EventIsLogged(s)
          OBVIOUS
        <4>. QED
          BY <4>1 DEF UpdateIsOutcome, SeenIsCurrent, ClosingDecisions,
                      EventIsLogged, Event, Decision
      <3>. QED BY <3>1, <3>2, <3>3
    <2>. QED BY <2>1, QuietInv, CommitDecisionInv DEF Next
  <1>. QED BY <1>1, <1>2, ReviewInvariant, PTL DEF Spec

\* Whatever fails between them, a decision is on record if and only if its
\* audit event is, and the event says who decided what on which document.
THEOREM DecisionsAudited == Spec => []DecisionsAreAudited
  <1>1. DecisionInv => DecisionsAreAudited
    BY DEF DecisionInv
  <1>. QED BY <1>1, DecisionInvariant, PTL

\* Reviewers who agree get their way.
THEOREM AgreementWins == Spec => []AgreedOutcome
  <1>1. DecisionInv => AgreedOutcome
    BY DEF DecisionInv
  <1>. QED BY <1>1, DecisionInvariant, PTL

\* Nobody is refused but for a task that somebody has closed.
THEOREM RefusedForAReason == Spec => []RefusedWasDecided
  <1>1. DecisionInv => RefusedWasDecided
    BY DEF DecisionInv, RefusalHasReason, RefusedWasDecided, HasTask, HasClosing
  <1>. QED BY <1>1, DecisionInvariant, PTL
=============================================================================

--------------------------- MODULE DeliveryProofs ---------------------------
(***************************************************************************)
(* No document is forgotten, for any number of documents, workers, retries *)
(* and redeliveries, and whatever mishap, unless it destroys the message;  *)
(* and none of them multiplies the messages.                               *)
(***************************************************************************)
EXTENDS Delivery, FiniteSetTheorems, TLAPS

\* The constants of the execution states differ as they should.
LEMMA Distinct ==
    /\ Absent \notin FinalStatus /\ "processing" \notin FinalStatus
    /\ "processing" # Absent
    /\ \A e \in Execution : e # Idle
    /\ Idle.pc = "idle"
  BY DEF Absent, FinalStatus, Execution, Idle

\* An execution that is not idle is one.
LEMMA Executing ==
    ASSUME DeliveryTypeOK, NEW w \in Workers,
           execution[w] # Idle \/ execution[w].pc # "idle"
    PROVE  /\ execution[w] \in Execution
           /\ execution[w].message \in Message
           /\ execution[w].message.document \in Documents
           /\ execution[w].message.retries \in 0 .. MaxRetries
  BY DEF DeliveryTypeOK, Execution, Idle, Message

\* Putting a message into the broker keeps the types and adds a copy of it.
LEMMA PutTypes ==
    ASSUME DeliveryTypeOK, NEW m \in Message
    PROVE  /\ Put(m) \in [Message -> Nat]
           /\ Put(m)[m] > 0
           /\ \A n \in Message : queue[n] > 0 => Put(m)[n] > 0
  BY DEF DeliveryTypeOK, Put

\* A retry carries a message.
LEMMA RetryMessage ==
    ASSUME NEW m \in Message, m.retries < MaxRetries
    PROVE  /\ [m EXCEPT !.retries = @ + 1] \in Message
           /\ [m EXCEPT !.retries = @ + 1].document = m.document
  BY DeliveryAssumption DEF Message

\* The steps of an upload preserve the types.
LEMMA UploadTypes ==
    ASSUME DeliveryTypeOK, NEW d \in Documents, Upload(d)
    PROVE  DeliveryTypeOK'
  <1> DEFINE m == [document |-> d, retries |-> 0]
  <1>1. m \in Message
    BY DeliveryAssumption DEF Message
  <1>2. CASE Publish(d)
    BY <1>1, <1>2, PutTypes
       DEF Publish, Reaches, DeliveryTypeOK, Uploading
  <1>3. CASE Save(d) \/ Insert(d) \/ CommitUpload(d) \/ UploadFails(d)
    BY <1>3 DEF Save, Insert, CommitUpload, UploadFails, Reaches,
                DeliveryTypeOK, Uploading, Settled
  <1>. QED BY <1>2, <1>3 DEF Upload

\* The steps of a worker preserve the types.
LEMMA WorkerTypes ==
    ASSUME DeliveryTypeOK, NEW w \in Workers,
           \/ Receive(w) \/ Work(w) \/ RetryFails(w) \/ HardLimit(w)
           \/ WorkerLost(w) \/ Restore(w)
    PROVE  DeliveryTypeOK'
  <1> USE DEF DeliveryTypeOK
  <1>1. CASE Receive(w)
    <2>1. PICK m \in Message :
            /\ queue[m] > 0
            /\ queue' = [queue EXCEPT ![m] = @ - 1]
            /\ execution' = [execution EXCEPT ![w] =
                   [pc |-> "running", message |-> m, delivered |-> TRUE]]
            /\ UNCHANGED <<phase, docStatus, redeliveries, forsaken>>
      BY <1>1 DEF Receive
    <2>2. queue[m] \in Nat /\ queue[m] - 1 \in Nat
      BY <2>1
    <2>3. [pc |-> "running", message |-> m, delivered |-> TRUE] \in Execution
      BY DEF Execution
    <2>. QED BY <2>1, <2>2, <2>3
  <1>2. ASSUME NEW pc \in {"raised", "returned"}, Becomes(w, pc),
               execution[w].pc # "idle"
        PROVE  execution' \in [Workers -> {Idle} \cup Execution]
    <2>1. [execution[w] EXCEPT !.pc = pc] \in Execution
      BY <1>2, Executing DEF Execution
    <2>. QED BY <1>2, <2>1 DEF Becomes
  <1>3. CASE Process(w)
    <2>1. Running(w) /\ execution[w].message.document \in Documents
      BY <1>3, Executing DEF Process, Running
    <2>2. \/ Becomes(w, "returned") \/ Becomes(w, "raised")
      BY <1>3 DEF Process
    <2>3. execution' \in [Workers -> {Idle} \cup Execution]
      BY <1>2, <2>1, <2>2 DEF Running
    <2>. QED BY <1>3, <2>1, <2>3 DEF Process, MessageOf
  <1>4. CASE PipelineRaises(w)
    <2>1. MessageOf(w).document \in Documents
      BY <1>4, Executing DEF PipelineRaises, Running, MessageOf
    <2>2. execution' \in [Workers -> {Idle} \cup Execution]
      BY <1>2, <1>4 DEF PipelineRaises, Running
    <2>. QED BY <1>4, <2>1, <2>2 DEF PipelineRaises, Forsake
  <1>5. CASE Acknowledge(w) \/ RetryFails(w) \/ HardLimit(w)
    <2>1. MessageOf(w).document \in Documents
      BY <1>5, Executing DEF Acknowledge, RetryFails, HardLimit, Running, MessageOf
    <2>. QED
      BY <1>5, <2>1 DEF Acknowledge, RetryFails, HardLimit, Finish, Forsake
  <1>6. CASE Retry(w)
    <2>1. MessageOf(w) \in Message
      BY <1>6, Executing DEF Retry, MessageOf
    <2>2. queue' \in [Message -> Nat]
      BY <1>6, <2>1, PutTypes, RetryMessage DEF Retry
    <2>. QED BY <1>6, <2>2 DEF Retry, Finish
  <1>7. CASE WorkerLost(w)
    <2>1. MessageOf(w) \in Message
      BY <1>7, Executing DEF WorkerLost, MessageOf
    <2>2. queue' \in [Message -> Nat] /\ redeliveries' \in 0 .. MaxRedeliveries
      BY <1>7, <2>1, PutTypes, DeliveryAssumption DEF WorkerLost, Redelivers
    <2>. QED BY <1>7, <2>2 DEF WorkerLost, Finish
  <1>8. CASE Restore(w)
    <2>1. MessageOf(w) \in Message /\ execution[w] \in Execution
      BY <1>8, Executing DEF Restore, MessageOf
    <2>2. [execution[w] EXCEPT !.delivered = FALSE] \in Execution
      BY <2>1 DEF Execution
    <2>3. queue' \in [Message -> Nat] /\ redeliveries' \in 0 .. MaxRedeliveries
      BY <1>8, <2>1, PutTypes, DeliveryAssumption DEF Restore, Redelivers
    <2>. QED BY <1>8, <2>2, <2>3 DEF Restore
  <1>. QED
    BY <1>1, <1>3, <1>4, <1>5, <1>6, <1>7, <1>8 DEF Work

\* Every variable keeps its type.
THEOREM DeliveryTypeCorrect == Spec => []DeliveryTypeOK
  <1>1. Init => DeliveryTypeOK
    BY DeliveryAssumption DEF Init, DeliveryTypeOK
  <1>2. DeliveryTypeOK /\ [Next]_vars => DeliveryTypeOK'
    <2> SUFFICES ASSUME DeliveryTypeOK, [Next]_vars PROVE DeliveryTypeOK'
      OBVIOUS
    <2>1. CASE UNCHANGED vars
      BY <2>1 DEF vars, DeliveryTypeOK
    <2>2. CASE Evict
      BY <2>2 DEF Evict, DeliveryTypeOK
    <2>3. ASSUME NEW d \in Documents, Decide(d) PROVE DeliveryTypeOK'
      BY <2>3 DEF Decide, DeliveryTypeOK, FinalStatus
    <2>. QED BY <2>1, <2>2, <2>3, UploadTypes, WorkerTypes DEF Next
  <1>. QED BY <1>1, <1>2, PTL DEF Spec
-----------------------------------------------------------------------------
\* Worker w has document d at work.
Has(w, d) ==
    /\ execution[w] # Idle /\ execution[w].delivered
    /\ execution[w].pc # "returned" /\ execution[w].message.document = d

\* The steps of one worker, which change no other.
OnlyWorker(w) ==
    \A v \in Workers \ {w} : execution'[v] = execution[v]

\* A document stays remembered when no message leaves the broker and its
\* worker, if it is the one that moves, keeps it or puts it back.
LEMMA Remembered ==
    ASSUME DeliveryTypeOK, NEW w \in Workers, NEW d \in Documents,
           OnlyWorker(w), InBroker(d) \/ AtWork(d),
           \A m \in Message : queue[m] > 0 => queue'[m] > 0,
           Has(w, d) => Has(w, d)' \/ InBroker(d)'
    PROVE  InBroker(d)' \/ AtWork(d)'
  <1>1. CASE InBroker(d)
    BY <1>1 DEF InBroker
  <1>2. CASE AtWork(d)
    <2>1. PICK v \in Workers : Has(v, d)
      BY <1>2 DEF AtWork, Has
    <2>2. CASE v = w
      BY <2>1, <2>2 DEF AtWork, Has
    <2>3. CASE v # w
      BY <2>1, <2>3 DEF AtWork, Has, OnlyWorker
    <2>. QED BY <2>2, <2>3
  <1>. QED BY <1>1, <1>2

\* What an execution e of the message of a document promises, when the document
\* has status st and its upload phase ph.
Late(e, st, ph, lost) ==
    e # Idle =>
        /\ e.message.retries > 0 => ph[e.message.document] \in Settled
        /\ e.delivered /\ e.pc = "raised" /\ e.message.retries = MaxRetries =>
              \/ st[e.message.document] \in FinalStatus
              \/ ph[e.message.document] = "rolled_back"
              \/ e.message.document \in lost

\* That is what two conjuncts of the invariant say.
LEMMA LateIsInvariant ==
    /\ RetriesComeLate /\ LastAttemptIsLost <=>
          \A w \in Workers : Late(execution[w], docStatus, phase, forsaken)
    /\ (RetriesComeLate /\ LastAttemptIsLost)' <=>
          \A w \in Workers : Late(execution'[w], docStatus', phase', forsaken')
  BY DEF Late, RetriesComeLate, LastAttemptIsLost

\* The retries of the other workers still come late when worker w moves on.
LEMMA OthersComeLate ==
    ASSUME DeliveryTypeOK, DeliveryInv, NEW w \in Workers, OnlyWorker(w),
           phase' = phase, forsaken \subseteq forsaken',
           \A d \in Documents : docStatus[d] \in FinalStatus =>
                                   docStatus'[d] \in FinalStatus,
           Late(execution'[w], docStatus', phase, forsaken')
    PROVE  (RetriesComeLate /\ LastAttemptIsLost)'
  <1> SUFFICES ASSUME NEW v \in Workers
               PROVE  Late(execution'[v], docStatus', phase, forsaken')
    BY LateIsInvariant
  <1>1. CASE v = w
    BY <1>1
  <1>2. CASE v # w
    <2>1. execution'[v] = execution[v]
      BY <1>2 DEF OnlyWorker
    <2>2. execution[v] # Idle => execution[v].message.document \in Documents
      BY Executing
    <2>3. Late(execution[v], docStatus, phase, forsaken)
      BY LateIsInvariant DEF DeliveryInv
    <2>. QED BY <2>1, <2>2, <2>3 DEF Late
  <1>. QED BY <1>1, <1>2

\* An upload: the message is published before the document is visible.
LEMMA UploadInv ==
    ASSUME DeliveryTypeOK, DeliveryInv, NEW u \in Documents, Upload(u)
    PROVE  DeliveryInv'
  <1> DEFINE m == [document |-> u, retries |-> 0]
  <1>1. /\ execution' = execution /\ forsaken' = forsaken
        /\ \A d \in Documents \ {u} : phase'[d] = phase[d]
                                      /\ docStatus'[d] = docStatus[d]
        /\ phase[u] \notin Settled
        /\ \A n \in Message : queue[n] > 0 => queue'[n] > 0
    <2>1. m \in Message
      BY DeliveryAssumption DEF Message
    <2>. QED
      BY <2>1, PutTypes
         DEF Upload, Save, Insert, Publish, CommitUpload, UploadFails, Reaches,
             DeliveryTypeOK, Uploading, Settled
  <1>2. VisibleWhenCommitted'
    BY <1>1, Distinct
       DEF DeliveryInv, VisibleWhenCommitted, DeliveryTypeOK, Upload, Save,
           Insert, Publish, CommitUpload, UploadFails, Reaches, Settled
  <1>3. ASSUME NEW d \in Documents, InBroker(d) \/ AtWork(d)
        PROVE  InBroker(d)' \/ AtWork(d)'
    BY <1>1, <1>3 DEF InBroker, AtWork
  <1>4. NeverForgotten'
    <2>1. ASSUME NEW d \in Documents \ forsaken,
                 phase'[d] \in {"published", "committed"},
                 docStatus'[d] \notin FinalStatus
          PROVE  InBroker(d)' \/ AtWork(d)'
      <3>1. CASE d # u
        BY <1>1, <1>3, <2>1, <3>1 DEF DeliveryInv, NeverForgotten
      <3>2. CASE d = u /\ Publish(u)
        <4>1. m \in Message /\ m.document = u
          BY DeliveryAssumption DEF Message
        <4>2. queue'[m] > 0
          BY <3>2, <4>1, PutTypes DEF Publish
        <4>. QED BY <3>2, <4>1, <4>2 DEF InBroker
      <3>3. CASE d = u /\ CommitUpload(u)
        <4>1. phase[u] = "published" /\ docStatus[u] \notin FinalStatus
          BY <3>3, Distinct
             DEF CommitUpload, Reaches, DeliveryInv, VisibleWhenCommitted
        <4>. QED BY <1>3, <3>3, <4>1 DEF DeliveryInv, NeverForgotten
      <3>4. CASE d = u /\ (Save(u) \/ Insert(u) \/ UploadFails(u))
        BY <2>1, <3>4
           DEF Save, Insert, UploadFails, Reaches, DeliveryTypeOK
      <3>. QED BY <3>1, <3>2, <3>3, <3>4 DEF Upload
    <2>. QED BY <1>1, <2>1 DEF NeverForgotten
  <1>5. (RetriesComeLate /\ LastAttemptIsLost)'
    <2> SUFFICES ASSUME NEW w \in Workers, execution[w] # Idle,
                        execution[w].message.retries > 0
                 PROVE  Late(execution[w], docStatus', phase', forsaken)
      BY <1>1, Executing, LateIsInvariant, DeliveryAssumption DEF Late
    <2>1. Late(execution[w], docStatus, phase, forsaken)
      BY LateIsInvariant DEF DeliveryInv
    <2>2. /\ execution[w].message.document \in Documents
          /\ execution[w].message.document # u
      BY <1>1, <2>1, Executing DEF Late
    <2>. QED BY <1>1, <2>1, <2>2 DEF Late
  <1>. QED BY <1>2, <1>4, <1>5 DEF DeliveryInv

\* A worker takes a message: what was in the broker is at work.
LEMMA ReceiveInv ==
    ASSUME DeliveryTypeOK, DeliveryInv, NEW w \in Workers, Receive(w)
    PROVE  DeliveryInv'
  <1>1. PICK m \in Message :
          /\ execution[w] = Idle /\ queue[m] > 0 /\ Due(m)
          /\ queue' = [queue EXCEPT ![m] = @ - 1]
          /\ execution' = [execution EXCEPT ![w] =
                 [pc |-> "running", message |-> m, delivered |-> TRUE]]
          /\ UNCHANGED <<phase, docStatus, redeliveries, forsaken>>
    BY DEF Receive
  <1>2. /\ execution'[w] = [pc |-> "running", message |-> m, delivered |-> TRUE]
        /\ execution'[w] \in Execution /\ execution'[w] # Idle
        /\ OnlyWorker(w)
    BY <1>1, Distinct DEF DeliveryTypeOK, OnlyWorker, Execution
  <1>3. ASSUME NEW d \in Documents, InBroker(d) \/ AtWork(d)
        PROVE  InBroker(d)' \/ AtWork(d)'
    <2>1. CASE m.document = d
      BY <1>2, <2>1 DEF AtWork
    <2>2. CASE InBroker(d) /\ m.document # d
      BY <1>1, <2>2 DEF InBroker, DeliveryTypeOK
    <2>3. CASE AtWork(d)
      BY <1>1, <1>2, <2>3 DEF AtWork, OnlyWorker
    <2>. QED BY <1>3, <2>1, <2>2, <2>3
  <1>4. NeverForgotten'
    BY <1>1, <1>3 DEF DeliveryInv, NeverForgotten
  <1>5. (RetriesComeLate /\ LastAttemptIsLost)'
    BY <1>1, <1>2, OthersComeLate DEF Due, Late
  <1>. QED
    BY <1>1, <1>4, <1>5 DEF DeliveryInv, VisibleWhenCommitted

\* The pipeline returns, or raises: because it finds no document, because the
\* document has been processed before, or because something else went wrong.
LEMMA ExecuteInv ==
    ASSUME DeliveryTypeOK, DeliveryInv,
           NEW w \in Workers, Process(w) \/ PipelineRaises(w)
    PROVE  DeliveryInv'
  <1> DEFINE e == execution[w]
             c == e.message.document
  <1>1. e \in Execution /\ c \in Documents /\ e.pc = "running"
    BY Executing DEF Process, PipelineRaises, Running
  <1>2. PICK pc \in {"returned", "raised"} :
          /\ execution' = [execution EXCEPT ![w].pc = pc]
          /\ \/ Process(w)
             \/ pc = "raised" /\ PipelineRaises(w)
    BY DEF Process, PipelineRaises, Becomes
  <1>3. /\ execution'[w] = [e EXCEPT !.pc = pc] /\ OnlyWorker(w)
        /\ execution'[w].pc = pc /\ execution'[w].message = e.message
        /\ execution'[w].delivered = e.delivered
        /\ execution'[w] \in Execution
    BY <1>1, <1>2 DEF DeliveryTypeOK, OnlyWorker, Execution
  <1>4. /\ UNCHANGED <<phase, queue>> /\ forsaken \subseteq forsaken'
        /\ \A d \in Documents :
              \/ docStatus'[d] = docStatus[d]
              \/ /\ d = c /\ docStatus[c] # Absent
                 /\ docStatus'[d] \in FinalStatus
    BY <1>1 DEF Process, PipelineRaises, Forsake, MessageOf, DeliveryTypeOK
  <1>5. \/ docStatus'[c] \in FinalStatus
        \/ pc = "raised" /\ docStatus[c] = Absent
        \/ /\ pc = "raised" /\ docStatus'[c] = "processing"
           /\ e.message.retries = MaxRetries /\ e.delivered => c \in forsaken'
    BY <1>1, <1>2
       DEF Process, PipelineRaises, Forsake, MessageOf, DeliveryTypeOK
  <1>6. VisibleWhenCommitted'
    BY <1>4, Distinct DEF DeliveryInv, VisibleWhenCommitted
  <1>7. NeverForgotten'
    <2>1. ASSUME NEW d \in Documents \ forsaken',
                 phase[d] \in {"published", "committed"},
                 docStatus'[d] \notin FinalStatus
          PROVE  InBroker(d)' \/ AtWork(d)'
      <3>1. InBroker(d) \/ AtWork(d)
        BY <1>4, <2>1 DEF DeliveryInv, NeverForgotten
      <3>2. Has(w, d) => Has(w, d)'
        BY <1>3, <1>5, <2>1, Distinct DEF Has
      <3>. QED BY <1>3, <1>4, <3>1, <3>2, Remembered
    <2>. QED BY <1>4, <2>1 DEF NeverForgotten
  <1>8. (RetriesComeLate /\ LastAttemptIsLost)'
    <2>1. Late(execution'[w], docStatus', phase, forsaken')
      <3>1. e.message.retries > 0 => phase[c] \in Settled
        BY <1>1, Distinct DEF DeliveryInv, RetriesComeLate
      <3>2. /\ docStatus[c] = Absent /\ phase[c] \in Settled
            => phase[c] = "rolled_back"
        BY <1>1 DEF DeliveryInv, VisibleWhenCommitted, Settled
      <3>3. e.message.retries = MaxRetries => e.message.retries > 0
        BY DeliveryAssumption
      <3>. QED BY <1>3, <1>5, <3>1, <3>2, <3>3 DEF Late
    <2>. QED BY <1>3, <1>4, <2>1, OthersComeLate
  <1>. QED BY <1>6, <1>7, <1>8 DEF DeliveryInv

\* The execution ends: what it had at work goes back to the broker, has an
\* outcome, is forsaken, or belongs to an upload that was rolled back.
LEMMA FinishInv ==
    ASSUME DeliveryTypeOK, DeliveryInv, NEW w \in Workers,
           \/ Acknowledge(w) \/ Retry(w) \/ WorkerLost(w)
           \/ RetryFails(w) \/ HardLimit(w)
    PROVE  DeliveryInv'
  <1> DEFINE e == execution[w]
             m == e.message
  <1>1. m \in Message /\ e # Idle
    BY Executing, Distinct
       DEF Acknowledge, Retry, WorkerLost, RetryFails, HardLimit, Running
  <1>2. /\ execution'[w] = Idle /\ OnlyWorker(w)
        /\ UNCHANGED <<phase, docStatus>> /\ forsaken \subseteq forsaken'
    BY DEF Acknowledge, Retry, WorkerLost, RetryFails, HardLimit, Forsake,
           Finish, OnlyWorker, DeliveryTypeOK
  <1>3. \A n \in Message : queue[n] > 0 => queue'[n] > 0
    BY <1>1, PutTypes, RetryMessage
       DEF Acknowledge, Retry, WorkerLost, RetryFails, HardLimit, MessageOf
  <1>4. ASSUME NEW d \in Documents \ forsaken',
               phase[d] \in {"published", "committed"},
               docStatus[d] \notin FinalStatus, Has(w, d)
        PROVE  InBroker(d)'
    <2>1. CASE Retry(w)
      <3>1. CASE m.retries < MaxRetries
        <4> DEFINE n == [m EXCEPT !.retries = @ + 1]
        <4>1. n \in Message /\ n.document = d
          BY <1>1, <1>4, <3>1, RetryMessage DEF Has
        <4>2. queue' = Put(n)
          BY <2>1, <3>1 DEF Retry, MessageOf
        <4> HIDE DEF n
        <4>. QED BY <4>1, <4>2, PutTypes DEF InBroker
      <3>2. CASE ~(m.retries < MaxRetries)
        <4>1. m.retries = MaxRetries
          BY <1>1, <3>2, DeliveryAssumption DEF Message
        <4>. QED BY <1>1, <1>2, <1>4, <2>1, <4>1
             DEF DeliveryInv, LastAttemptIsLost, Retry, Has
      <3>. QED BY <3>1, <3>2
    <2>2. CASE WorkerLost(w)
      <3>1. queue' = Put(m) /\ m.document = d
        BY <1>4, <2>2 DEF WorkerLost, MessageOf, Has
      <3>. QED BY <1>1, <3>1, PutTypes DEF InBroker
    <2>3. CASE Acknowledge(w)
      BY <1>4, <2>3 DEF Acknowledge, Has
    <2>4. CASE RetryFails(w) \/ HardLimit(w)
      BY <1>4, <2>4 DEF RetryFails, HardLimit, Forsake, MessageOf, Has
    <2>. QED BY <2>1, <2>2, <2>3, <2>4
  <1>5. NeverForgotten'
    BY <1>2, <1>3, <1>4, Remembered DEF DeliveryInv, NeverForgotten
  <1>6. (RetriesComeLate /\ LastAttemptIsLost)'
    BY <1>2, OthersComeLate DEF Late
  <1>. QED
    BY <1>2, <1>5, <1>6 DEF DeliveryInv, VisibleWhenCommitted

\* The broker gives the message out again: both copies will be executed.
LEMMA RestoreInv ==
    ASSUME DeliveryTypeOK, DeliveryInv, NEW w \in Workers, Restore(w)
    PROVE  DeliveryInv'
  <1> DEFINE e == execution[w]
             m == e.message
  <1>1. m \in Message /\ e \in Execution /\ e # Idle
    BY Executing DEF Restore
  <1>2. /\ execution'[w] = [e EXCEPT !.delivered = FALSE]
        /\ OnlyWorker(w) /\ queue' = Put(m)
        /\ UNCHANGED <<phase, docStatus, forsaken>>
    BY DEF Restore, OnlyWorker, DeliveryTypeOK, MessageOf
  <1>3. execution'[w].message = m /\ execution'[w].pc = e.pc
    BY <1>1, <1>2 DEF Execution
  <1>4. ASSUME NEW d \in Documents, InBroker(d) \/ AtWork(d)
        PROVE  InBroker(d)' \/ AtWork(d)'
    <2>1. Has(w, d) => InBroker(d)'
      BY <1>1, <1>2, PutTypes DEF Has, InBroker
    <2>. QED BY <1>1, <1>2, <1>4, <2>1, PutTypes, Remembered
  <1>5. NeverForgotten'
    BY <1>2, <1>4 DEF DeliveryInv, NeverForgotten
  <1>6. (RetriesComeLate /\ LastAttemptIsLost)'
    <2>1. execution'[w].delivered = FALSE
      BY <1>1, <1>2 DEF Execution
    <2>2. Late(e, docStatus, phase, forsaken)
      BY LateIsInvariant DEF DeliveryInv
    <2>3. Late(execution'[w], docStatus', phase, forsaken')
      BY <1>1, <1>2, <1>3, <2>1, <2>2 DEF Late
    <2>. QED BY <1>2, <2>3, OthersComeLate
  <1>. QED
    BY <1>2, <1>5, <1>6 DEF DeliveryInv, VisibleWhenCommitted

\* The broker loses its messages: their documents are forsaken.
LEMMA EvictInv ==
    ASSUME DeliveryTypeOK, DeliveryInv, Evict
    PROVE  DeliveryInv'
  <1>1. VisibleWhenCommitted' /\ (RetriesComeLate /\ LastAttemptIsLost)'
    BY DEF Evict, DeliveryInv, VisibleWhenCommitted, RetriesComeLate,
           LastAttemptIsLost
  <1>2. NeverForgotten'
    BY DEF Evict, DeliveryInv, NeverForgotten, AtWork
  <1>. QED BY <1>1, <1>2 DEF DeliveryInv

\* A reviewer replaces a final status by another.
LEMMA DecideInv ==
    ASSUME DeliveryTypeOK, DeliveryInv, NEW u \in Documents, Decide(u)
    PROVE  DeliveryInv'
  <1>1. /\ UNCHANGED <<phase, queue, execution, forsaken>>
        /\ \A d \in Documents :
              \/ docStatus'[d] = docStatus[d]
              \/ docStatus[d] \in FinalStatus /\ docStatus'[d] \in FinalStatus
    BY DEF Decide, DeliveryTypeOK, FinalStatus
  <1>2. VisibleWhenCommitted'
    BY <1>1, Distinct DEF DeliveryInv, VisibleWhenCommitted
  <1>3. NeverForgotten'
    BY <1>1 DEF DeliveryInv, NeverForgotten, InBroker, AtWork
  <1>4. (RetriesComeLate /\ LastAttemptIsLost)'
    <2>1. ASSUME NEW w \in Workers
          PROVE  Late(execution[w], docStatus', phase, forsaken)
      BY <1>1, Executing, LateIsInvariant DEF DeliveryInv, Late
    <2>. QED BY <1>1, <2>1, LateIsInvariant
  <1>. QED BY <1>2, <1>3, <1>4 DEF DeliveryInv

\* Whatever happens, every document that is processing and not forsaken has a
\* message that will get it processed.
THEOREM NothingIsForgotten == Spec => []ProcessingHasMessage
  <1>1. Init => DeliveryInv
    BY DEF Init, DeliveryInv, VisibleWhenCommitted, NeverForgotten,
           RetriesComeLate, LastAttemptIsLost
  <1>2. DeliveryTypeOK /\ DeliveryInv /\ [Next]_vars => DeliveryInv'
    <2> SUFFICES ASSUME DeliveryTypeOK, DeliveryInv, [Next]_vars
                 PROVE  DeliveryInv'
      OBVIOUS
    <2>1. CASE UNCHANGED vars
      BY <2>1 DEF vars, DeliveryInv, VisibleWhenCommitted, NeverForgotten,
                  RetriesComeLate, LastAttemptIsLost, InBroker, AtWork
    <2>2. ASSUME NEW w \in Workers,
                 \/ Receive(w) \/ Work(w) \/ RetryFails(w) \/ HardLimit(w)
                 \/ WorkerLost(w) \/ Restore(w)
          PROVE  DeliveryInv'
      BY <2>2, ReceiveInv, ExecuteInv, FinishInv, RestoreInv DEF Work
    <2>. QED BY <2>1, <2>2, EvictInv, DecideInv, UploadInv DEF Next
  <1>3. DeliveryTypeOK /\ DeliveryInv => ProcessingHasMessage
    BY Distinct
       DEF ProcessingHasMessage, DeliveryInv, VisibleWhenCommitted,
           NeverForgotten
  <1>. QED BY <1>1, <1>2, <1>3, DeliveryTypeCorrect, PTL DEF Spec
-----------------------------------------------------------------------------
\* Putting a message into the broker adds one copy.
LEMMA PutCounts ==
    ASSUME DeliveryTypeOK, IsFiniteSet(Queued), NEW m \in Message,
           queue' = Put(m)
    PROVE  /\ IsFiniteSet(Queued')
           /\ Cardinality(Queued') = Cardinality(Queued) + 1
  <1> DEFINE c == <<m, queue[m] + 1>>
  <1>1. /\ queue \in [Message -> Nat]
        /\ queue'[m] = queue[m] + 1
        /\ \A n \in Message \ {m} : queue'[n] = queue[n]
    BY DEF DeliveryTypeOK, Put
  <1>2. 1 .. queue'[m] = (1 .. queue[m]) \cup {queue[m] + 1}
    BY <1>1
  <1>3. Queued' = Queued \cup {c}
    <2>1. ASSUME NEW n \in Message, NEW i
          PROVE  i \in 1 .. queue'[n] <=> i \in 1 .. queue[n] \/ <<n, i>> = c
      BY <1>1, <1>2
    <2>. QED BY <2>1, <1>1 DEF Queued
  <1>4. c \notin Queued
    BY <1>1 DEF Queued
  <1>. QED BY <1>3, <1>4, FS_AddElement

\* Delivering a message takes one copy out of the broker.
LEMMA TakeCounts ==
    ASSUME DeliveryTypeOK, IsFiniteSet(Queued), NEW m \in Message,
           queue[m] > 0, queue' = [queue EXCEPT ![m] = @ - 1]
    PROVE  /\ IsFiniteSet(Queued')
           /\ Cardinality(Queued') = Cardinality(Queued) - 1
  <1> DEFINE c == <<m, queue[m]>>
  <1>1. /\ queue \in [Message -> Nat]
        /\ queue'[m] = queue[m] - 1
        /\ \A n \in Message \ {m} : queue'[n] = queue[n]
    BY DEF DeliveryTypeOK
  <1>2. 1 .. queue'[m] = (1 .. queue[m]) \ {queue[m]}
    BY <1>1
  <1>3. Queued' = Queued \ {c}
    <2>1. ASSUME NEW n \in Message, NEW i
          PROVE  i \in 1 .. queue'[n] <=> i \in 1 .. queue[n] /\ <<n, i>> # c
      BY <1>1, <1>2
    <2>. QED BY <2>1, <1>1 DEF Queued
  <1>4. c \in Queued
    BY <1>1 DEF Queued
  <1>. QED BY <1>3, <1>4, FS_RemoveElement

\* A worker that takes a message is one more at work, and one that finishes is
\* one less.
LEMMA BusyCounts ==
    ASSUME DeliveryTypeOK, IsFiniteSet(Busy), NEW w \in Workers, NEW e,
           execution' = [execution EXCEPT ![w] = e],
           execution[w] = Idle <=> e # Idle
    PROVE  /\ IsFiniteSet(Busy')
           /\ Cardinality(Busy') = IF e = Idle THEN Cardinality(Busy) - 1
                                   ELSE Cardinality(Busy) + 1
  <1>1. /\ execution'[w] = e
        /\ \A v \in Workers \ {w} : execution'[v] = execution[v]
    BY DEF DeliveryTypeOK
  <1>2. CASE e = Idle
    <2>1. Busy' = Busy \ {w} /\ w \in Busy
      BY <1>1, <1>2 DEF Busy
    <2>. QED BY <1>2, <2>1, FS_RemoveElement
  <1>3. CASE e # Idle
    <2>1. Busy' = Busy \cup {w} /\ w \notin Busy
      BY <1>1, <1>3 DEF Busy
    <2>. QED BY <1>3, <2>1, FS_AddElement
  <1>. QED BY <1>2, <1>3

\* An upload publishes one message at most.
LEMMA UploadCounts ==
    ASSUME DeliveryTypeOK, CountInv, NEW d \in Documents, Upload(d)
    PROVE  CountInv'
  <1>1. /\ Cardinality(Queued) \in Nat /\ Cardinality(Busy) \in Nat
        /\ Cardinality(Published) \in Nat /\ redeliveries \in Nat
    BY FS_CardinalityType DEF CountInv, DeliveryTypeOK
  <1>2. UNCHANGED <<execution, redeliveries>> /\ Busy' = Busy
    BY DEF Upload, Save, Insert, Publish, CommitUpload, UploadFails, Busy
  <1>3. \A c \in Documents \ {d} : phase'[c] = phase[c]
    BY DEF Upload, Save, Insert, Publish, CommitUpload, UploadFails, Reaches,
           DeliveryTypeOK
  <1>4. CASE Publish(d)
    <2>1. phase[d] = "inserted" /\ phase'[d] = "published"
      BY <1>4 DEF Publish, Reaches, DeliveryTypeOK
    <2>2. Published' = Published \cup {d} /\ d \notin Published
      BY <1>3, <2>1 DEF Published, Settled
    <2>3. /\ IsFiniteSet(Published')
          /\ Cardinality(Published') = Cardinality(Published) + 1
      BY <2>2, FS_AddElement DEF CountInv
    <2>4. [document |-> d, retries |-> 0] \in Message
      BY DeliveryAssumption DEF Message
    <2>5. /\ IsFiniteSet(Queued')
          /\ Cardinality(Queued') = Cardinality(Queued) + 1
      BY <1>4, <2>4, PutCounts DEF Publish, CountInv
    <2>. QED BY <1>1, <1>2, <2>3, <2>5 DEF CountInv, MessagesDoNotMultiply
  <1>5. CASE Save(d) \/ Insert(d) \/ CommitUpload(d) \/ UploadFails(d)
    <2>1. Queued' = Queued
      BY <1>5 DEF Save, Insert, CommitUpload, UploadFails, Queued
    <2>2. \/ Published' = Published
          \/ Published' = Published \cup {d}
      <3>1. d \in Published => d \in Published'
        BY <1>5 DEF Save, Insert, CommitUpload, UploadFails, Reaches,
                    DeliveryTypeOK, Published, Settled
      <3>2. \A c \in Documents \ {d} : c \in Published' <=> c \in Published
        BY <1>3 DEF Published
      <3>3. Published \subseteq Documents /\ Published' \subseteq Documents
        BY DEF Published
      <3>. QED BY <3>1, <3>2, <3>3
    <2>3. /\ IsFiniteSet(Published')
          /\ Cardinality(Published') \in Nat
          /\ Cardinality(Published') >= Cardinality(Published)
      BY <1>1, <2>2, FS_AddElement DEF CountInv
    <2>. QED BY <1>1, <1>2, <2>1, <2>3 DEF CountInv, MessagesDoNotMultiply
  <1>. QED BY <1>4, <1>5 DEF Upload

\* A worker gives back at most the copy it has taken, unless the broker gives
\* out the message again, which is counted.
LEMMA WorkerCounts ==
    ASSUME DeliveryTypeOK, CountInv, NEW w \in Workers,
           \/ Receive(w) \/ Work(w) \/ RetryFails(w) \/ HardLimit(w)
           \/ WorkerLost(w) \/ Restore(w)
    PROVE  CountInv'
  <1>1. /\ Cardinality(Queued) \in Nat /\ Cardinality(Busy) \in Nat
        /\ Cardinality(Published) \in Nat /\ redeliveries \in Nat
        /\ IsFiniteSet(Queued) /\ IsFiniteSet(Busy) /\ IsFiniteSet(Published)
        /\ MessagesDoNotMultiply
    BY FS_CardinalityType DEF CountInv, DeliveryTypeOK
  <1>2. Published' = Published
    BY DEF Receive, Work, Process, PipelineRaises, Acknowledge, Retry,
           RetryFails, HardLimit, WorkerLost, Restore, Published
  <1>3. ASSUME execution[w] # Idle, Finish(w)
        PROVE  /\ IsFiniteSet(Busy')
               /\ Cardinality(Busy') = Cardinality(Busy) - 1
    BY <1>1, <1>3, BusyCounts DEF Finish
  <1>4. ASSUME UNCHANGED queue
        PROVE  Queued' = Queued
    BY <1>4 DEF Queued
  <1>5. ASSUME NEW m \in Message, queue' = Put(m)
        PROVE  /\ IsFiniteSet(Queued')
               /\ Cardinality(Queued') = Cardinality(Queued) + 1
    BY <1>1, <1>5, PutCounts
  <1>6. CASE Receive(w)
    <2>1. PICK m \in Message :
            /\ execution[w] = Idle /\ queue[m] > 0
            /\ queue' = [queue EXCEPT ![m] = @ - 1]
            /\ execution' = [execution EXCEPT ![w] =
                   [pc |-> "running", message |-> m, delivered |-> TRUE]]
            /\ redeliveries' = redeliveries
      BY <1>6 DEF Receive
    <2>2. [pc |-> "running", message |-> m, delivered |-> TRUE] # Idle
      BY DEF Idle
    <2>3. IsFiniteSet(Busy') /\ Cardinality(Busy') = Cardinality(Busy) + 1
      BY <1>1, <2>1, <2>2, BusyCounts
    <2>4. IsFiniteSet(Queued') /\ Cardinality(Queued') = Cardinality(Queued) - 1
      BY <1>1, <2>1, TakeCounts
    <2>. QED BY <1>1, <1>2, <2>1, <2>3, <2>4 DEF CountInv, MessagesDoNotMultiply
  <1>7. CASE Process(w) \/ PipelineRaises(w)
    <2>1. execution[w] \in Execution
      BY <1>7, Executing DEF Process, PipelineRaises, Running
    <2>2. PICK pc \in {"returned", "raised"} : Becomes(w, pc)
      BY <1>7 DEF Process, PipelineRaises
    <2>3. execution[w] # Idle /\ execution'[w] # Idle
      <3>1. execution'[w] = [execution[w] EXCEPT !.pc = pc]
        BY <2>2 DEF Becomes, DeliveryTypeOK
      <3>2. [execution[w] EXCEPT !.pc = pc] \in Execution
        BY <2>1 DEF Execution
      <3>. QED BY <2>1, <3>1, <3>2, Distinct
    <2>4. Busy' = Busy
      BY <2>2, <2>3 DEF Busy, Becomes, DeliveryTypeOK
    <2>5. UNCHANGED <<queue, redeliveries>>
      BY <1>7 DEF Process, PipelineRaises
    <2>. QED BY <1>1, <1>2, <1>4, <2>4, <2>5 DEF CountInv, MessagesDoNotMultiply
  <1>8. CASE Acknowledge(w) \/ RetryFails(w) \/ HardLimit(w)
    <2>1. execution[w] # Idle /\ Finish(w) /\ UNCHANGED <<queue, redeliveries>>
      BY <1>8, Distinct DEF Acknowledge, RetryFails, HardLimit, Running
    <2>. QED BY <1>1, <1>2, <1>3, <1>4, <2>1 DEF CountInv, MessagesDoNotMultiply
  <1>9. CASE Retry(w)
    <2>1. /\ execution[w] # Idle /\ Finish(w) /\ UNCHANGED redeliveries
          /\ execution[w].pc # "idle"
      BY <1>9, Distinct DEF Retry
    <2>2. MessageOf(w) \in Message
      BY <2>1, Executing DEF MessageOf
    <2>3. /\ IsFiniteSet(Queued')
          /\ Cardinality(Queued') \in Nat
          /\ Cardinality(Queued') <= Cardinality(Queued) + 1
      <3>1. CASE MessageOf(w).retries < MaxRetries
        BY <1>1, <1>5, <1>9, <2>2, <3>1, RetryMessage DEF Retry
      <3>2. CASE ~(MessageOf(w).retries < MaxRetries)
        BY <1>1, <1>4, <1>9, <3>2 DEF Retry
      <3>. QED BY <3>1, <3>2
    <2>. QED BY <1>1, <1>2, <1>3, <2>1, <2>3 DEF CountInv, MessagesDoNotMultiply
  <1>10. CASE WorkerLost(w)
    <2>1. execution[w] # Idle /\ Finish(w) /\ MessageOf(w) \in Message
      BY <1>10, Executing DEF WorkerLost, MessageOf
    <2>2. CASE execution[w].delivered
      <3>1. queue' = Put(MessageOf(w)) /\ redeliveries' = redeliveries + 1
        BY <1>10, <2>2 DEF WorkerLost, Redelivers
      <3>. QED BY <1>1, <1>2, <1>3, <1>5, <2>1, <3>1
           DEF CountInv, MessagesDoNotMultiply
    <2>3. CASE ~execution[w].delivered
      <3>1. UNCHANGED <<queue, redeliveries>>
        BY <1>10, <2>3 DEF WorkerLost
      <3>. QED BY <1>1, <1>2, <1>3, <1>4, <2>1, <3>1
           DEF CountInv, MessagesDoNotMultiply
    <2>. QED BY <2>2, <2>3
  <1>11. CASE Restore(w)
    <2>1. /\ execution[w] # Idle /\ queue' = Put(MessageOf(w))
          /\ redeliveries' = redeliveries + 1
          /\ execution' = [execution EXCEPT ![w].delivered = FALSE]
      BY <1>11 DEF Restore, Redelivers
    <2>2. execution[w] \in Execution /\ MessageOf(w) \in Message
      BY <2>1, Executing DEF MessageOf
    <2>3. Busy' = Busy
      <3>1. [execution[w] EXCEPT !.delivered = FALSE] \in Execution
        BY <2>2 DEF Execution
      <3>2. execution'[w] # Idle
        BY <2>1, <3>1, Distinct DEF DeliveryTypeOK
      <3>. QED BY <2>1, <3>2 DEF Busy, DeliveryTypeOK
    <2>. QED BY <1>1, <1>2, <1>5, <2>1, <2>2, <2>3
         DEF CountInv, MessagesDoNotMultiply
  <1>. QED BY <1>6, <1>7, <1>8, <1>9, <1>10, <1>11 DEF Work

\* Retries and redeliveries never multiply the messages, whatever happens and
\* however many uploads and workers there are.
THEOREM MessagesAreBounded == Spec => []MessagesDoNotMultiply
  <1>1. Init => CountInv
    <2>1. ASSUME Init
          PROVE  Queued = {} /\ Busy = {} /\ Published = {}
      BY <2>1 DEF Init, Queued, Busy, Published, Settled
    <2>2. ASSUME Init
          PROVE  redeliveries = 0
      BY <2>2 DEF Init
    <2>. QED BY <2>1, <2>2, FS_EmptySet DEF CountInv, MessagesDoNotMultiply
  <1>2. DeliveryTypeOK /\ CountInv /\ [Next]_vars => CountInv'
    <2>1. ASSUME DeliveryTypeOK, CountInv, NEW d \in Documents, Decide(d)
          PROVE  CountInv'
      BY <2>1 DEF Decide, CountInv, MessagesDoNotMultiply, Queued, Busy,
                  Published
    <2>2. ASSUME DeliveryTypeOK, CountInv, Evict
          PROVE  CountInv'
      <3>1. Queued' = {}
        BY <2>2 DEF Evict, Queued
      <3>2. /\ Busy' = Busy /\ Published' = Published
            /\ redeliveries' = redeliveries
        BY <2>2 DEF Evict, Busy, Published
      <3>3. /\ Cardinality(Queued) \in Nat /\ Cardinality(Busy) \in Nat
            /\ Cardinality(Published) \in Nat /\ redeliveries \in Nat
        BY <2>2, FS_CardinalityType DEF CountInv, DeliveryTypeOK
      <3>. QED BY <2>2, <3>1, <3>2, <3>3, FS_EmptySet
           DEF CountInv, MessagesDoNotMultiply
    <2>3. ASSUME CountInv, UNCHANGED vars
          PROVE  CountInv'
      BY <2>3 DEF vars, CountInv, MessagesDoNotMultiply, Queued, Busy, Published
    <2>. QED BY <2>1, <2>2, <2>3, UploadCounts, WorkerCounts DEF Next
  <1>3. CountInv => MessagesDoNotMultiply
    BY DEF CountInv
  <1>. QED BY <1>1, <1>2, <1>3, DeliveryTypeCorrect, PTL DEF Spec
=============================================================================

---------------------------- MODULE SystemProofs ----------------------------
(***************************************************************************)
(* Theorems about System: to the database its steps are those of Service,  *)
(* to the broker they are those of Delivery.                               *)
(***************************************************************************)
EXTENDS System, ServiceProofs

\* Both sides have the same statuses.
LEMMA SameStatus ==
    /\ D!Absent = Absent /\ D!FinalStatus = FinalStatus
    /\ Absent \notin FinalStatus /\ "processing" \notin FinalStatus
    /\ Absent # "processing"
  BY DEF D!Absent, Absent, D!FinalStatus, FinalStatus

\* Where a step of a run leads, and that only the commit is seen by others.
LEMMA RunPlaces ==
    ASSUME WholeInv, NEW r \in Runs, Begin(r) \/ Step(r)
    PROVE  /\ pc[r] \in {"idle"} \cup Active
           /\ pc[r] = "raising" <=> Rollback(r)
           /\ Rollback(r) <=> pc'[r] = "aborted"
           /\ Commit(r) <=> pc'[r] = "committed"
           /\ pc'[r] # "idle"
           /\ \A q \in Runs \ {r} : pc'[q] = pc[q]
           /\ doc' = doc
           /\ ~Commit(r) => UNCHANGED tables
  <1>1. pc \in [Runs -> Places]
    BY DEF WholeInv, RunTypeOK, Places
  <1>2. CASE Begin(r)
    BY <1>1, <1>2 DEF Begin, Rollback, Commit, Active, Steps, CriticalSteps
  <1>3. CASE OCR(r) \/ StepPIIMask(r) \/ StepLLMExtract(r)
    BY <1>1, <1>3
       DEF OCR, StepPIIMask, MaskClean, MaskPii, MappingExists, Doomed,
           StepLLMExtract, LLMExtract, LLMFails, LLMResultNotStored,
           StepReturns, StepGoesOn, Goto, Rollback, Commit, Active, Steps,
           CriticalSteps
  <1>4. CASE StepUnmask(r) \/ StepNormalize(r) \/ StepValidate(r)
    BY <1>1, <1>4
       DEF StepUnmask, UnmaskSkipped, Unmask, UnmaskFails, StepNormalize,
           StepValidate, ValidateSkipped, Validate, StepReturns, StepGoesOn,
           Goto, Rollback, Commit, Active, Steps, CriticalSteps
  <1>5. CASE StepRisk(r) \/ Conclude(r) \/ WriteAudit(r)
    BY <1>1, <1>5
       DEF StepRisk, RiskSkipped, DetectRisk, Conclude, WriteAudit,
           StepReturns, StepGoesOn, Goto, Rollback, Commit, Active, Steps,
           CriticalSteps
  <1>6. CASE CriticalStepFails(r) \/ Rollback(r)
    BY <1>1, <1>6
       DEF CriticalStepFails, Discard, StepReturns, Goto, Rollback, Commit,
           Active, Steps, CriticalSteps
  <1>7. CASE Commit(r)
    BY <1>1, <1>7 DEF Rollback, Commit, Active
  <1>. QED BY <1>2, <1>3, <1>4, <1>5, <1>6, <1>7 DEF Step

\* A run gets its key when it begins, an unusable one only by that fault.
LEMMA RunKeys ==
    ASSUME WholeInv, NEW r \in Runs, Begin(r) \/ Step(r),
           ~ctx[r].key_usable => "key" \in Faults
    PROVE  /\ ~ctx'[r].key_usable => "key" \in Faults
           /\ \A q \in Runs \ {r} : ctx'[q] = ctx[q]
  <1>1. ctx \in [Runs -> Context] /\ ctx[r] \in Context
    BY DEF WholeInv, RunTypeOK
  <1>2. CASE Begin(r)
    BY <1>1, <1>2 DEF Begin, Keys, Context
  <1>3. ASSUME NEW next, NEW c, NEW t, Goto(r, next, c, t),
               c.key_usable = ctx[r].key_usable
        PROVE  /\ ctx'[r].key_usable = ctx[r].key_usable
               /\ \A q \in Runs \ {r} : ctx'[q] = ctx[q]
    BY <1>1, <1>3 DEF Goto
  <1>4. CASE OCR(r) \/ MaskClean(r) \/ LLMFails(r) \/ UnmaskSkipped(r)
             \/ StepValidate(r) \/ RiskSkipped(r) \/ WriteAudit(r)
    <2>1. PICK next, t : Goto(r, next, ctx[r], t)
      BY <1>4
         DEF OCR, MaskClean, LLMFails, UnmaskSkipped, StepValidate, Validate,
             ValidateSkipped, RiskSkipped, WriteAudit, StepReturns, StepGoesOn
    <2>. QED BY <1>3, <2>1
  <1>5. CASE MaskPii(r)
    <2>1. PICK t : Goto(r, "llm_extract",
                        [ctx[r] EXCEPT !.pii_mapping_id = TRUE], t)
      BY <1>5 DEF MaskPii, StepReturns
    <2>. QED BY <1>1, <1>3, <2>1 DEF Context
  <1>6. CASE LLMExtract(r) \/ LLMResultNotStored(r)
    <2> DEFINE c == [ctx[r] EXCEPT !.extraction_result = Extracted(r)]
               c2 == [ctx[r] EXCEPT !.extraction_result = Extracted(r),
                                    !.extraction_db_id = TRUE]
    <2>1. /\ c.key_usable = ctx[r].key_usable
          /\ c2.key_usable = ctx[r].key_usable
      BY <1>1 DEF Context
    <2>2. \E next, t : Goto(r, next, c, t) \/ Goto(r, next, c2, t)
      BY <1>6 DEF LLMExtract, LLMResultNotStored, StepReturns, StepGoesOn
    <2> HIDE DEF c, c2
    <2>. QED BY <1>3, <2>1, <2>2
  <1>7. CASE Unmask(r) \/ UnmaskFails(r)
    BY <1>1, <1>3, <1>7 DEF Unmask, UnmaskFails, StepGoesOn, Context
  <1>8. CASE StepNormalize(r)
    BY <1>1, <1>3, <1>8 DEF StepNormalize, StepGoesOn, Context
  <1>9. CASE DetectRisk(r)
    BY <1>1, <1>3, <1>9 DEF DetectRisk, StepReturns, Context
  <1>10. CASE Conclude(r) \/ CriticalStepFails(r)
    BY <1>1, <1>3, <1>10 DEF Conclude, CriticalStepFails, StepReturns, Context
  <1>11. CASE MappingExists(r) \/ Rollback(r)
    BY <1>3, <1>11 DEF MappingExists, Rollback, Doomed, Discard
  <1>12. CASE Commit(r)
    BY <1>1, <1>12 DEF Commit
  <1>. QED
    BY <1>2, <1>4, <1>5, <1>6, <1>11, <1>12, <1>7, <1>8, <1>9, <1>10
       DEF Step, StepPIIMask, StepLLMExtract, StepUnmask, StepRisk

\* A fault that strikes a run changes nothing that others see, nor its key, and
\* either the run raises or it goes on.
LEMMA FaultPlaces ==
    ASSUME WholeInv, NEW r \in Runs, RunRaises(r) \/ SoftLimitInStep(r)
    PROVE  /\ pc[r] \in Active \ {"raising"} /\ pc'[r] \in Active
           /\ RunRaises(r) => pc'[r] = "raising"
           /\ SoftLimitInStep(r) => pc'[r] # "raising"
           /\ \A q \in Runs \ {r} : pc'[q] = pc[q]
           /\ doc' = doc /\ UNCHANGED tables
           /\ \A q \in Runs : ctx'[q].key_usable = ctx[q].key_usable
           /\ RunRaises(r) => Faults \cap {"flush", "soft_limit"} # {}
  <1>1. pc \in [Runs -> Places] /\ ctx \in [Runs -> Context]
    BY DEF WholeInv, RunTypeOK, Places
  <1>2. CASE RunRaises(r)
    BY <1>1, <1>2
       DEF RunRaises, LimitMayStrike, Doomed, Goto, Active, Steps, CriticalSteps,
           SoftLimitInStep, LimitInLLMExtract, LimitInUnmask, LimitInRisk,
           StepGoesOn
  <1>3. CASE SoftLimitInStep(r)
    <2> DEFINE c == [ctx[r] EXCEPT !.limit_spent = TRUE]
           next == {"unmask", "normalize", "validate", "risk_detect", "conclude"}
           Leads == \E p \in next : \E d, t :
                       Goto(r, p, d, t) /\ d.key_usable = ctx[r].key_usable
    <2>1. ASSUME NEW p \in next, NEW d, NEW t, StepGoesOn(r, p, d, t),
                 d.key_usable = ctx[r].key_usable
          PROVE  Leads
      BY <2>1 DEF StepGoesOn
    <2>2. /\ c.key_usable = ctx[r].key_usable
          /\ \A e : [c EXCEPT !.extraction_result = e].key_usable = c.key_usable
          /\ \A e, i : [c EXCEPT !.extraction_result = e,
                                 !.extraction_db_id = i].key_usable
                          = c.key_usable
          /\ [c EXCEPT !.has_errors = TRUE].key_usable = c.key_usable
          /\ \A l : [c EXCEPT !.risk_assessment = l].key_usable = c.key_usable
      BY <1>1 DEF Context
    <2>3. \/ LimitInLLMExtract(r, c) \/ LimitInUnmask(r, c) \/ LimitInRisk(r, c)
          \/ pc[r] = "normalize" /\ StepGoesOn(r, "validate", c, tx[r])
          \/ pc[r] = "validate" /\ StepGoesOn(r, "risk_detect", c, tx[r])
      BY <1>3 DEF SoftLimitInStep
    <2>4. "unmask" \in next /\ "normalize" \in next /\ "validate" \in next
          /\ "risk_detect" \in next /\ "conclude" \in next
      OBVIOUS
    <2>5. \A p \in next : p \in Active \ {"raising"}
      BY DEF Active, Steps, CriticalSteps
    <2> HIDE DEF c, next, Leads
    <2>6. ASSUME LimitInLLMExtract(r, c)
          PROVE  Leads /\ pc[r] \in Active \ {"raising"}
      <3>1. pc[r] \in Active \ {"raising"}
        BY <2>6 DEF LimitInLLMExtract, Active, Steps
      <3>2. \/ \E e : StepGoesOn(r, "unmask",
                                 [c EXCEPT !.extraction_result = e], tx[r])
            \/ \E e, i, t : StepGoesOn(r, "unmask",
                                       [c EXCEPT !.extraction_result = e,
                                                 !.extraction_db_id = i], t)
        BY <2>6 DEF LimitInLLMExtract
      <3>3. Leads
        BY <2>1, <2>2, <2>4, <3>2
      <3>. QED BY <3>1, <3>3
    <2>7. ASSUME LimitInUnmask(r, c)
          PROVE  Leads /\ pc[r] \in Active \ {"raising"}
      <3>1. pc[r] \in Active \ {"raising"}
        BY <2>7 DEF LimitInUnmask, Active, Steps
      <3>2. \E t : \/ StepGoesOn(r, "normalize", c, t)
                   \/ StepGoesOn(r, "normalize", [c EXCEPT !.has_errors = TRUE], t)
                   \/ StepGoesOn(r, "normalize",
                                 [c EXCEPT !.extraction_result = "real"], t)
        BY <2>7 DEF LimitInUnmask
      <3>3. Leads
        BY <2>1, <2>2, <2>4, <3>2
      <3>. QED BY <3>1, <3>3
    <2>8. ASSUME LimitInRisk(r, c)
          PROVE  Leads /\ pc[r] \in Active \ {"raising"}
      <3>1. pc[r] \in Active \ {"raising"}
        BY <2>8 DEF LimitInRisk, Active, Steps
      <3>2. \E t : \/ StepGoesOn(r, "conclude", c, t)
                   \/ \E l : StepGoesOn(r, "conclude",
                                        [c EXCEPT !.risk_assessment = l], t)
        BY <2>8 DEF LimitInRisk
      <3>3. Leads
        BY <2>1, <2>2, <2>4, <3>2
      <3>. QED BY <3>1, <3>3
    <2>9. ASSUME \/ pc[r] = "normalize" /\ StepGoesOn(r, "validate", c, tx[r])
                 \/ pc[r] = "validate" /\ StepGoesOn(r, "risk_detect", c, tx[r])
          PROVE  Leads /\ pc[r] \in Active \ {"raising"}
      <3>1. Leads
        BY <2>1, <2>2, <2>4, <2>9
      <3>2. pc[r] \in Active \ {"raising"}
        BY <2>9 DEF Active, Steps
      <3>. QED BY <3>1, <3>2
    <2>10. Leads /\ pc[r] \in Active \ {"raising"}
      BY <2>3, <2>6, <2>7, <2>8, <2>9
    <2>11. PICK p \in next : \E d, t :
              Goto(r, p, d, t) /\ d.key_usable = ctx[r].key_usable
      BY <2>10 DEF Leads
    <2>12. PICK d, t : Goto(r, p, d, t) /\ d.key_usable = ctx[r].key_usable
      BY <2>11
    <2>13. /\ pc'[r] = p /\ p \in Active \ {"raising"}
           /\ \A q \in Runs \ {r} : pc'[q] = pc[q]
           /\ doc' = doc /\ UNCHANGED tables
           /\ \A q \in Runs : ctx'[q].key_usable = ctx[q].key_usable
      BY <1>1, <2>5, <2>12 DEF Goto
    <2>14. ~RunRaises(r)
      BY <1>1, <2>13 DEF RunRaises, Doomed, Goto
    <2>. QED BY <2>10, <2>13, <2>14
  <1>. QED BY <1>2, <1>3

\* A step of a run raises when there is no document, when it finds the mapping of
\* the document stored, or by a fault.
LEMMA RunRaisesLate ==
    ASSUME WholeInv, SystemInv, NEW r \in Runs, Begin(r) \/ Step(r),
           pc'[r] = "raising",
           Faults \cap {"ocr", "mask", "soft_limit", "key"} = {}
    PROVE  docStatus[doc[r]] # "processing"
  <1>1. pc \in [Runs -> Places] /\ doc[r] \in Documents
    BY DEF WholeInv, RunTypeOK, Places
  <1>2. CASE Begin(r)
    BY <1>1, <1>2, SameStatus DEF Begin
  <1>3. CASE MappingExists(r)
    BY <1>3, SameStatus DEF MappingExists, SystemInv
  <1>4. ~CriticalStepFails(r)
    BY DEF CriticalStepFails, SystemInv
  <1>5. CASE OCR(r) \/ MaskClean(r) \/ MaskPii(r) \/ StepLLMExtract(r)
    BY <1>1, <1>5
       DEF OCR, MaskClean, MaskPii, StepLLMExtract, LLMExtract, LLMFails,
           LLMResultNotStored, StepReturns, StepGoesOn, Goto
  <1>6. CASE StepUnmask(r) \/ StepNormalize(r) \/ StepValidate(r)
    BY <1>1, <1>6
       DEF StepUnmask, UnmaskSkipped, Unmask, UnmaskFails, StepNormalize,
           StepValidate, ValidateSkipped, Validate, StepReturns, StepGoesOn,
           Goto
  <1>7. CASE StepRisk(r) \/ Conclude(r) \/ WriteAudit(r)
    BY <1>1, <1>7
       DEF StepRisk, RiskSkipped, DetectRisk, Conclude, WriteAudit,
           StepReturns, StepGoesOn, Goto
  <1>8. CASE Rollback(r) \/ Commit(r)
    BY <1>8, RunPlaces
  <1>. QED
    BY <1>2, <1>3, <1>4, <1>5, <1>6, <1>7, <1>8 DEF Step, StepPIIMask

-----------------------------------------------------------------------------
(***************************************************************************)
(* To the database the steps of System are those of Service.               *)
(***************************************************************************)

\* The commit of an upload is the only step of its handler the database sees.
LEMMA UploadSeen ==
    ASSUME WholeInv, SystemInv, NEW d \in Documents, Upload(d)
    PROVE  /\ UploadCommits(d) \/ UNCHANGED vars
           /\ UNCHANGED <<reviewVars, pipelineVars, run, execution>>
           /\ phase' = [e \in Documents |-> phase'[e]]
           /\ \A e \in Documents :
                 docStatus'[e] # Absent <=> phase'[e] = "committed"
  <1>1. docStatus = [e \in Documents |-> docStatus[e]]
    BY DEF WholeInv, RunTypeOK
  <1>2. /\ phase = [e \in Documents |-> phase[e]]
        /\ \A e \in Documents : docStatus[e] # Absent <=> phase[e] = "committed"
    BY SameStatus DEF SystemInv, D!VisibleWhenCommitted
  <1>3. /\ UNCHANGED <<reviewTasks, docLock, pipelineVars, reviewVars, run>>
        /\ D!Upload(d)
    BY DEF Upload
  <1>4. CASE D!CommitUpload(d)
    <2>1. /\ docStatus[d] = Absent /\ UNCHANGED execution
          /\ docStatus' = [docStatus EXCEPT ![d] = "processing"]
          /\ phase' = [phase EXCEPT ![d] = "committed"]
      BY <1>2, <1>4 DEF D!CommitUpload, D!Reaches
    <2>2. UploadCommits(d)
      BY <1>3, <2>1 DEF UploadCommits, pipelineVars
    <2>. QED BY <1>1, <1>2, <1>3, <2>1, <2>2, SameStatus
  <1>5. CASE D!Save(d) \/ D!Insert(d) \/ D!Publish(d) \/ D!UploadFails(d)
    <2>1. /\ UNCHANGED <<docStatus, execution>>
          /\ phase[d] # "committed"
          /\ \E to \in {"saved", "inserted", "published", "rolled_back"} :
                phase' = [phase EXCEPT ![d] = to]
      BY <1>5
         DEF D!Save, D!Insert, D!Publish, D!UploadFails, D!Reaches, D!Uploading
    <2>2. UNCHANGED vars
      BY <1>3, <2>1 DEF vars, pipelineVars
    <2>. QED BY <1>2, <1>3, <2>1, <2>2
  <1>. QED BY <1>3, <1>4, <1>5 DEF D!Upload

\* Every step of System is one of Service, or none that the database sees.
LEMMA ServiceStep ==
    ASSUME WholeInv, SystemInv, [SystemNext]_systemVars
    PROVE  [ServiceNext]_serviceVars
  <1>1. ASSUME NEW d \in Documents, Upload(d)
        PROVE  [ServiceNext]_serviceVars
    BY <1>1, UploadSeen DEF ServiceNext, Next, serviceVars
  <1>2. ASSUME NEW w \in Workers,
               StartTask(w) \/ TaskEnds(w) \/ MessageIsRestored(w)
        PROVE  UNCHANGED serviceVars
    <2>1. UNCHANGED <<reviewTasks, docLock, pipelineVars, reviewVars>>
      BY <1>2 DEF StartTask, TaskEnds, MessageIsRestored, databaseVars
    <2>2. UNCHANGED docStatus
      BY <1>2 DEF StartTask, TaskEnds, MessageIsRestored, databaseVars
    <2>. QED BY <2>1, <2>2 DEF serviceVars, vars, pipelineVars
  <1>3. ASSUME NEW w \in Workers, NEW r \in Runs, r = run[w],
               \/ RunGoesOn(w) \/ RunRaisesInTask(w)
               \/ FaultStrikes(w) \/ StepIsCutShort(w)
               \/ RunRollsBack(w) \/ RunCommits(w)
        PROVE  [ServiceNext]_serviceVars
    <2>1. /\ Begin(r) \/ Step(r) \/ RunRaises(r) \/ SoftLimitInStep(r)
          /\ UNCHANGED reviewVars
      BY <1>3
         DEF RunGoesOn, RunRaisesInTask, FaultStrikes, TaskRaises,
             StepIsCutShort, RunRollsBack, RunCommits, Step
    <2>. QED BY <2>1 DEF ServiceNext, Next
  <1>4. ASSUME NEW w \in Workers, TaskIsKilled(w)
        PROVE  [ServiceNext]_serviceVars
    <2>1. CASE pc[run[w]] \in Active
      <3>1. WorkerLost(run[w]) /\ UNCHANGED reviewVars
        BY <1>4, <2>1 DEF TaskIsKilled
      <3>2. run[w] \in Runs
        BY <1>4 DEF SystemInv, TaskAgrees, TaskIsKilled, D!WorkerLost,
           D!HardLimit, D!Running, D!Idle, Executes
      <3>. QED BY <3>1, <3>2 DEF ServiceNext, Next
    <2>2. CASE pc[run[w]] \notin Active
      <3>1. UNCHANGED <<databaseVars, pipelineVars, reviewVars>>
        BY <1>4, <2>2 DEF TaskIsKilled
      <3>. QED BY <3>1 DEF databaseVars, serviceVars, vars, pipelineVars
    <2>. QED BY <2>1, <2>2
  <1>5. ASSUME NEW s \in Sessions, HandleRequest(s)
        PROVE  ServiceNext
    BY <1>5 DEF HandleRequest, ServiceNext
  <1>6. CASE UNCHANGED systemVars
    BY <1>6 DEF systemVars
  <1>7. ASSUME NEW w \in Workers, Executes(w) PROVE run[w] \in Runs
    BY <1>7 DEF SystemInv, Executes
  <1>8. ASSUME NEW w \in Workers, TaskGoesOn(w)
        PROVE  [ServiceNext]_serviceVars
    <2>1. run[w] \in Runs
      BY <1>7, <1>8
         DEF TaskGoesOn, RunGoesOn, RunRaisesInTask, RunRollsBack, RunCommits,
             TaskEnds
    <2>. QED BY <1>2, <1>3, <1>8, <2>1 DEF TaskGoesOn
  <1>9. ASSUME NEW w \in Workers, FaultStrikes(w) \/ StepIsCutShort(w)
        PROVE  [ServiceNext]_serviceVars
    BY <1>3, <1>7, <1>9 DEF FaultStrikes, StepIsCutShort
  <1>. QED BY <1>1, <1>2, <1>4, <1>5, <1>6, <1>8, <1>9 DEF SystemNext

-----------------------------------------------------------------------------
(***************************************************************************)
(* Workers and their runs stay together.                                   *)
(***************************************************************************)

\* What an execution can be.
LEMMA ExecutionFields ==
    ASSUME SystemInv, NEW w \in Workers
    PROVE  /\ Executes(w) <=> run[w] \in Runs
           /\ execution[w] = D!Idle \/ execution[w] \in D!Execution
           /\ D!Idle \notin D!Execution
           /\ D!Idle.pc = "idle"
           /\ execution[w] \in D!Execution <=> Executes(w)
  <1>1. D!Idle.pc = "idle" /\ D!Idle \notin D!Execution
    BY DEF D!Idle, D!Execution
  <1>. QED
    BY <1>1, SystemAssumption DEF SystemInv, TaskAgrees, Executes

\* A step of worker w and its run leaves the other workers with theirs.
LEMMA OtherTasks ==
    ASSUME WholeInv, SystemInv, NEW w \in Workers, NEW v \in Workers \ {w},
           run'[v] = run[v], execution'[v] = execution[v], doc' = doc,
           \A q \in Runs : q # run[w] => pc'[q] = pc[q],
           run'[w] \in {run[w], NoRun} \/ \A u \in Workers : run[u] # run'[w],
           \A u \in Workers \ {w} : run'[u] = run[u]
    PROVE  TaskAgrees(v)'
  <1>1. TaskAgrees(v) /\ TaskAgrees(w)
    BY DEF SystemInv
  <1>2. CASE ~Executes(v)
    BY <1>1, <1>2 DEF TaskAgrees, Executes
  <1>3. CASE Executes(v)
    <2>1. run[v] \in Runs /\ run[v] # run[w]
      BY <1>1, <1>3, ExecutionFields DEF TaskAgrees
    <2>2. pc'[run[v]] = pc[run[v]]
      BY <2>1
    <2>3. \A u \in Workers : run'[u] = run'[v] => u = v
      BY <1>1, <1>3, <2>1 DEF TaskAgrees, Executes
    <2>. QED
      BY <1>1, <1>3, <2>1, <2>2, <2>3 DEF TaskAgrees, Executes, Committed
  <1>. QED BY <1>2, <1>3

\* A worker takes up a run that nobody has executed.
LEMMA StartAgrees ==
    ASSUME WholeInv, SystemInv, NEW w \in Workers, StartTask(w)
    PROVE  /\ UNCHANGED <<phase, databaseVars, pipelineVars>>
           /\ run' \in [Workers -> Runs \cup {NoRun}]
           /\ execution' \in [Workers -> {D!Idle} \cup D!Execution]
           /\ \A v \in Workers : TaskAgrees(v)'
  <1>1. PICK m \in D!Message :
          /\ execution[w] = D!Idle
          /\ execution' = [execution EXCEPT ![w] =
                 [pc |-> "running", message |-> m, delivered |-> TRUE]]
          /\ UNCHANGED phase
    BY DEF StartTask, D!Receive
  <1> DEFINE e == [pc |-> "running", message |-> m, delivered |-> TRUE]
  <1>2. e \in D!Execution /\ e # D!Idle
    BY DEF D!Execution, D!Idle
  <1>3. execution'[w] = e
    BY <1>1 DEF SystemInv
  <1>4. PICK r \in Unused(m.document) : run' = [run EXCEPT ![w] = r]
    <2>1. execution'[w].message.document = m.document
      BY <1>3
    <2>. QED BY <2>1 DEF StartTask, Unused
  <1>5. /\ r \in Runs /\ pc[r] = "idle" /\ doc[r] = m.document
        /\ \A v \in Workers : run[v] # r
    BY <1>4 DEF Unused
  <1>6. UNCHANGED <<databaseVars, pipelineVars>> /\ doc' = doc /\ pc' = pc
    BY DEF StartTask, pipelineVars
  <1>7. /\ run' \in [Workers -> Runs \cup {NoRun}]
        /\ run'[w] = r /\ \A v \in Workers \ {w} : run'[v] = run[v]
    BY <1>4, <1>5 DEF SystemInv
  <1>8. /\ execution' \in [Workers -> {D!Idle} \cup D!Execution]
        /\ \A v \in Workers \ {w} : execution'[v] = execution[v]
    BY <1>1, <1>2 DEF SystemInv
  <1>9. TaskAgrees(w)'
    BY <1>2, <1>3, <1>5, <1>6, <1>7, SystemAssumption
       DEF TaskAgrees, Executes, Ended
  <1>. QED BY <1>1, <1>5, <1>6, <1>7, <1>8, <1>9, OtherTasks

\* A worker whose task has ended, or that was killed, has no run any more.
LEMMA IdleAgrees ==
    ASSUME WholeInv, SystemInv, NEW w \in Workers, doc' = doc,
           \A q \in Runs : q # run[w] => pc'[q] = pc[q],
           D!Finish(w), run' = [run EXCEPT ![w] = NoRun]
    PROVE  /\ run' \in [Workers -> Runs \cup {NoRun}]
           /\ execution' \in [Workers -> {D!Idle} \cup D!Execution]
           /\ \A v \in Workers : TaskAgrees(v)'
  <1>1. /\ run' \in [Workers -> Runs \cup {NoRun}]
        /\ run'[w] = NoRun /\ \A v \in Workers \ {w} : run'[v] = run[v]
    BY DEF SystemInv
  <1>2. /\ execution' \in [Workers -> {D!Idle} \cup D!Execution]
        /\ execution'[w] = D!Idle
        /\ \A v \in Workers \ {w} : execution'[v] = execution[v]
    BY DEF SystemInv, D!Finish
  <1>3. TaskAgrees(w)'
    BY <1>1, <1>2 DEF TaskAgrees, Executes
  <1>. QED BY <1>1, <1>2, <1>3, OtherTasks

\* While the run of a worker goes on so does the task, and it is over when the
\* run is.
LEMMA RunAgreesWithTask ==
    ASSUME WholeInv, SystemInv, NEW w \in Workers,
           \/ RunGoesOn(w) \/ RunRaisesInTask(w)
           \/ FaultStrikes(w) \/ StepIsCutShort(w)
           \/ RunRollsBack(w) \/ RunCommits(w)
    PROVE  /\ UNCHANGED <<phase, run>>
           /\ execution' \in [Workers -> {D!Idle} \cup D!Execution]
           /\ \A v \in Workers : TaskAgrees(v)'
  <1> PICK r : r = run[w]
    OBVIOUS
  <1>1. /\ r \in Runs /\ Executes(w) /\ UNCHANGED <<phase, run>>
        /\ Begin(r) \/ Step(r) \/ RunRaises(r) \/ SoftLimitInStep(r)
    BY ExecutionFields
       DEF RunGoesOn, RunRaisesInTask, FaultStrikes, TaskRaises,
           StepIsCutShort, RunRollsBack, RunCommits, Step, deliveryVars
  <1>2. /\ TaskAgrees(w) /\ execution[w] \in D!Execution
        /\ pc[r] \in {"idle"} \cup Active
        /\ pc[r] = "raising" <=> pc'[r] = "aborted"
        /\ pc'[r] # "idle" /\ doc' = doc
        /\ \A q \in Runs \ {r} : pc'[q] = pc[q]
        /\ pc'[r] \in Places
    <2>1. WholeInv'
      <3>1. [Next]_vars /\ UNCHANGED reviewVars
        BY <1>1
           DEF Next, RunGoesOn, RunRaisesInTask, FaultStrikes, TaskRaises,
               StepIsCutShort, RunRollsBack, RunCommits
      <3>. QED BY <3>1, PipelineService
    <2>2. TaskAgrees(w) /\ execution[w] \in D!Execution /\ pc'[r] \in Places
      BY <1>1, <2>1, ExecutionFields DEF SystemInv, WholeInv, RunTypeOK, Places
    <2>3. CASE Begin(r) \/ Step(r)
      BY <1>1, <2>2, <2>3, RunPlaces DEF WholeInv
    <2>4. CASE RunRaises(r) \/ SoftLimitInStep(r)
      <3>1. pc'[r] # "aborted" /\ pc'[r] # "idle"
        BY <1>1, <2>4, FaultPlaces DEF Active, Steps, CriticalSteps
      <3>. QED BY <1>1, <2>2, <2>4, <3>1, FaultPlaces
    <2>. QED BY <1>1, <2>3, <2>4
  <1>3. CASE RunGoesOn(w) \/ StepIsCutShort(w)
    <2>1. pc'[r] \in Active \ {"raising"} /\ execution' = execution
      BY <1>1, <1>3, FaultPlaces DEF RunGoesOn, StepIsCutShort, deliveryVars
    <2>2. pc[r] # "raising" /\ "aborted" \notin Active /\ Active \cap Ended = {}
      BY <1>2, <2>1 DEF Active, Steps, CriticalSteps, Ended
    <2>3. TaskAgrees(w)'
      BY <1>1, <1>2, <2>1, <2>2 DEF TaskAgrees, Executes, Committed, Ended
    <2>. QED
      BY <1>1, <1>2, <2>1, <2>3, OtherTasks DEF SystemInv
  <1>4. CASE RunRollsBack(w)
    <2>1. pc[r] = "raising" /\ pc'[r] = "aborted" /\ execution' = execution
      BY <1>1, <1>2, <1>4 DEF RunRollsBack, deliveryVars, Rollback
    <2>2. TaskAgrees(w)'
      BY <1>1, <1>2, <2>1 DEF TaskAgrees, Executes, Committed, Ended
    <2>. QED
      BY <1>1, <1>2, <2>1, <2>2, OtherTasks DEF SystemInv
  <1>5. CASE RunRaisesInTask(w) \/ FaultStrikes(w) \/ RunCommits(w)
    <2>1. PICK over \in {"returned", "raised"} :
            /\ D!Becomes(w, over)
            /\ pc'[r] \in {"raising", "committed"}
            /\ over = "returned" => pc'[r] = "committed"
      BY <1>1, <1>5, FaultPlaces
         DEF RunRaisesInTask, FaultStrikes, TaskRaises, RunCommits, Commit,
             WholeInv, RunTypeOK
    <2>2. /\ [execution[w] EXCEPT !.pc = over] \in D!Execution
          /\ [execution[w] EXCEPT !.pc = over].pc = over
          /\ [execution[w] EXCEPT !.pc = over].message = execution[w].message
      BY <1>2 DEF D!Execution
    <2>3. /\ execution' \in [Workers -> {D!Idle} \cup D!Execution]
          /\ execution'[w] \in D!Execution /\ execution'[w].pc = over
          /\ execution'[w].message = execution[w].message
          /\ \A v \in Workers \ {w} : execution'[v] = execution[v]
      BY <2>1, <2>2 DEF D!Becomes, SystemInv
    <2>4. TaskAgrees(w)'
      BY <1>1, <1>2, <2>1, <2>3, ExecutionFields
         DEF TaskAgrees, Executes, Committed, Ended
    <2>. QED BY <1>1, <1>2, <2>3, <2>4, OtherTasks
  <1>. QED BY <1>3, <1>4, <1>5

-----------------------------------------------------------------------------
(***************************************************************************)
(* The database and the uploads.                                           *)
(***************************************************************************)

\* What SystemInv says of the database.
DatabaseAgrees ==
    /\ D!VisibleWhenCommitted
    /\ \A m \in piiMappings : docStatus[m.document] \in FinalStatus
    /\ \A r \in Runs : ~ctx[r].key_usable => "key" \in Faults

\* It is kept by a step that sets final statuses only, and only of documents
\* that are visible, when no upload takes a step.
LEMMA FinalStatusKeeps ==
    ASSUME WholeInv, SystemInv, phase' = phase,
           \A d \in Documents : docStatus'[d] # docStatus[d] =>
              docStatus[d] # Absent /\ docStatus'[d] \in FinalStatus,
           \A m \in piiMappings' :
              m \in piiMappings \/ docStatus'[m.document] \in FinalStatus,
           \A r \in Runs : ~ctx'[r].key_usable => "key" \in Faults
    PROVE  DatabaseAgrees'
  <1>1. \A m \in piiMappings : m.document \in Documents
    BY DEF WholeInv, RunTypeOK, PIIMapping
  <1>. QED
    BY <1>1, SameStatus DEF SystemInv, DatabaseAgrees, D!VisibleWhenCommitted

\* The commit of a run sets a final status, and so may that of a request.
LEMMA FinalStatusSet ==
    ASSUME WholeInv, SystemInv
    PROVE  /\ \A r \in Runs : Commit(r) =>
                 /\ docStatus[doc[r]] # Absent
                 /\ \A d \in Documents : docStatus'[d] # docStatus[d] =>
                       docStatus[d] # Absent /\ docStatus'[d] \in FinalStatus
                 /\ \A m \in piiMappings' : m \in piiMappings
                       \/ docStatus'[m.document] \in FinalStatus
           /\ \A s \in Sessions : R!Handle(s) =>
                 \A d \in Documents : docStatus'[d] # docStatus[d] =>
                    /\ docStatus[d] \in FinalStatus
                    /\ docStatus'[d] \in {"reviewed", "failed"}
  <1>1. ASSUME NEW r \in Runs, Commit(r)
        PROVE  /\ docStatus[doc[r]] # Absent
               /\ \A d \in Documents : docStatus'[d] # docStatus[d] =>
                     docStatus[d] # Absent /\ docStatus'[d] \in FinalStatus
               /\ \A m \in piiMappings' : m \in piiMappings
                     \/ docStatus'[m.document] \in FinalStatus
    <2>1. /\ docStatus'[doc[r]] = tx[r].status /\ pc[r] = "commit"
          /\ \A d \in Documents \ {doc[r]} : docStatus'[d] = docStatus[d]
          /\ piiMappings' = piiMappings \cup tx[r].mapping
      BY <1>1, CommitEffect DEF WholeInv
    <2>2. tx[r].status \in FinalStatus
      BY <1>1, CommitAdds
    <2>3. docStatus[doc[r]] # Absent
      BY <2>1 DEF WholeInv, RunsInv, Underway, Masked
    <2>4. \A m \in tx[r].mapping : m.document = doc[r]
      <3>1. RunTypeOK /\ PiiInv /\ pc[r] \in Masked
        BY <2>1 DEF WholeInv, Masked
      <3>2. tx[r].mapping = MappingsOf(r)
        BY <3>1, PiiMasked
      <3>. QED BY <3>2 DEF MappingsOf
    <2>. QED BY <2>1, <2>2, <2>3, <2>4
  <1>2. ASSUME NEW s \in Sessions, R!Handle(s), NEW d \in Documents,
               docStatus'[d] # docStatus[d]
        PROVE  /\ docStatus[d] \in FinalStatus
               /\ docStatus'[d] \in {"reviewed", "failed"}
    <2>1. R!CommitDecision(s)
      BY <1>2, QuietRequest DEF WholeInv
    <2>. QED BY <1>2, <2>1, CommitDecides, RequestFields DEF WholeInv
  <1>. QED BY <1>1, <1>2

\* No step of the system breaks it.
LEMMA DatabaseStep ==
    ASSUME WholeInv, SystemInv, [SystemNext]_systemVars
    PROVE  DatabaseAgrees'
  <1>1. /\ \A r \in Runs : ~ctx[r].key_usable => "key" \in Faults
        /\ ctx \in [Runs -> Context]
    BY DEF SystemInv, WholeInv, RunTypeOK
  <1>2. ASSUME UNCHANGED <<phase, docStatus, piiMappings, ctx>>
        PROVE  DatabaseAgrees'
    BY <1>1, <1>2, FinalStatusKeeps
  <1>3. ASSUME NEW d \in Documents, Upload(d) PROVE DatabaseAgrees'
    <2>1. /\ UNCHANGED <<piiMappings, ctx>>
          /\ UploadCommits(d) \/ UNCHANGED docStatus
      BY <1>3, UploadSeen DEF pipelineVars, vars
    <2>2. D!VisibleWhenCommitted'
      BY <1>3, UploadSeen, SameStatus DEF D!VisibleWhenCommitted
    <2>3. \A m \in piiMappings : docStatus'[m.document] \in FinalStatus
      BY <2>1, UploadEffect, SameStatus
         DEF SystemInv, WholeInv, RunTypeOK, PIIMapping
    <2>. QED BY <1>1, <2>1, <2>2, <2>3 DEF DatabaseAgrees
  <1>4. ASSUME NEW w \in Workers,
               StartTask(w) \/ TaskEnds(w) \/ MessageIsRestored(w)
        PROVE  DatabaseAgrees'
    <2>1. UNCHANGED <<phase, docStatus, pipelineVars>>
      BY <1>4
         DEF StartTask, TaskEnds, MessageIsRestored, databaseVars, D!Receive,
             D!Acknowledge, D!Retry, D!Restore
    <2>. QED BY <1>2, <2>1 DEF pipelineVars
  <1>5. ASSUME NEW w \in Workers, TaskIsKilled(w) PROVE DatabaseAgrees'
    <2>1. UNCHANGED phase
      BY <1>5 DEF TaskIsKilled, D!WorkerLost, D!HardLimit
    <2>2. UNCHANGED <<docStatus, piiMappings, ctx>>
      BY <1>1, <1>5
         DEF TaskIsKilled, WorkerLost, Discard, Goto, tables, databaseVars,
             pipelineVars
    <2>. QED BY <1>2, <2>1, <2>2
  <1>6. ASSUME NEW w \in Workers,
               \/ RunGoesOn(w) \/ RunRaisesInTask(w)
               \/ RunRollsBack(w) \/ RunCommits(w)
        PROVE  DatabaseAgrees'
    <2> PICK r : r = run[w]
      OBVIOUS
    <2>1. r \in Runs /\ (Begin(r) \/ Step(r)) /\ UNCHANGED phase
      BY <1>6, ExecutionFields
         DEF RunGoesOn, RunRaisesInTask, TaskRaises, RunRollsBack, RunCommits,
             Step, deliveryVars
    <2>2. \A q \in Runs : ~ctx'[q].key_usable => "key" \in Faults
      BY <1>1, <2>1, RunKeys
    <2>3. CASE Commit(r)
      BY <2>1, <2>2, <2>3, FinalStatusSet, FinalStatusKeeps
    <2>4. CASE ~Commit(r)
      <3>1. UNCHANGED <<docStatus, piiMappings>>
        BY <2>1, <2>4, RunPlaces DEF tables
      <3>. QED BY <2>1, <2>2, <3>1, FinalStatusKeeps
    <2>. QED BY <2>3, <2>4
  <1>7. ASSUME NEW w \in Workers, FaultStrikes(w) \/ StepIsCutShort(w)
        PROVE  DatabaseAgrees'
    <2> PICK r : r = run[w]
      OBVIOUS
    <2>1. r \in Runs /\ (RunRaises(r) \/ SoftLimitInStep(r)) /\ UNCHANGED phase
      BY <1>7, ExecutionFields
         DEF FaultStrikes, TaskRaises, StepIsCutShort, deliveryVars
    <2>2. /\ UNCHANGED <<docStatus, piiMappings>>
          /\ \A q \in Runs : ~ctx'[q].key_usable => "key" \in Faults
      BY <1>1, <2>1, FaultPlaces DEF tables
    <2>. QED BY <2>1, <2>2, FinalStatusKeeps
  <1>8. ASSUME NEW s \in Sessions, HandleRequest(s) PROVE DatabaseAgrees'
    <2>1. R!Handle(s) /\ UNCHANGED <<phase, piiMappings, ctx>>
      BY <1>8 DEF HandleRequest, pipelineVars, deliveryVars
    <2>2. \A d \in Documents : docStatus'[d] # docStatus[d] =>
             docStatus[d] # Absent /\ docStatus'[d] \in FinalStatus
      BY <2>1, FinalStatusSet, SameStatus, SameTables
    <2>. QED BY <1>1, <2>1, <2>2, FinalStatusKeeps
  <1>9. CASE UNCHANGED systemVars
    BY <1>2, <1>9 DEF systemVars, serviceVars, vars, deliveryVars
  <1>. QED
    BY <1>3, <1>4, <1>5, <1>6, <1>7, <1>8, <1>9 DEF SystemNext, TaskGoesOn

-----------------------------------------------------------------------------
(***************************************************************************)
(* The theorems.                                                           *)
(***************************************************************************)

\* No step of the system parts a worker from its run.
LEMMA TasksStep ==
    ASSUME WholeInv, SystemInv, [SystemNext]_systemVars
    PROVE  /\ phase' = [d \in Documents |-> phase'[d]]
           /\ run' \in [Workers -> Runs \cup {NoRun}]
           /\ execution' \in [Workers -> {D!Idle} \cup D!Execution]
           /\ \A w \in Workers : TaskAgrees(w)'
  <1> DEFINE Kept == /\ phase' = [d \in Documents |-> phase'[d]]
                     /\ run' \in [Workers -> Runs \cup {NoRun}]
                     /\ execution' \in [Workers -> {D!Idle} \cup D!Execution]
                     /\ \A w \in Workers : TaskAgrees(w)'
  <1>1. /\ phase = [d \in Documents |-> phase[d]]
        /\ run \in [Workers -> Runs \cup {NoRun}]
        /\ execution \in [Workers -> {D!Idle} \cup D!Execution]
        /\ \A w \in Workers : TaskAgrees(w)
    BY DEF SystemInv
  <1>2. ASSUME UNCHANGED <<run, execution, pc, doc>>,
               phase' = [d \in Documents |-> phase'[d]]
        PROVE  Kept
    BY <1>1, <1>2 DEF TaskAgrees, Executes, Committed
  <1>3. ASSUME NEW d \in Documents, Upload(d) PROVE Kept
    BY <1>2, <1>3, UploadSeen DEF pipelineVars
  <1>4. ASSUME NEW w \in Workers, StartTask(w) PROVE Kept
    BY <1>1, <1>4, StartAgrees
  <1>5. ASSUME NEW w \in Workers,
               \/ RunGoesOn(w) \/ RunRaisesInTask(w)
               \/ FaultStrikes(w) \/ StepIsCutShort(w)
               \/ RunRollsBack(w) \/ RunCommits(w)
        PROVE  Kept
    BY <1>1, <1>5, RunAgreesWithTask
  <1>6. ASSUME NEW w \in Workers, TaskEnds(w) PROVE Kept
    <2>1. /\ UNCHANGED <<phase, doc, pc>> /\ D!Finish(w)
          /\ run' = [run EXCEPT ![w] = NoRun]
      BY <1>6 DEF TaskEnds, D!Acknowledge, D!Retry, pipelineVars
    <2>. QED BY <1>1, <2>1, IdleAgrees
  <1>7. ASSUME NEW w \in Workers, TaskIsKilled(w) PROVE Kept
    <2>1. /\ UNCHANGED <<phase, doc>> /\ D!Finish(w)
          /\ run' = [run EXCEPT ![w] = NoRun]
          /\ \A q \in Runs : q # run[w] => pc'[q] = pc[q]
      BY <1>7
         DEF TaskIsKilled, D!WorkerLost, D!HardLimit, WorkerLost, Discard,
             Goto, pipelineVars, WholeInv, RunTypeOK
    <2>. QED BY <1>1, <2>1, IdleAgrees
  <1>8. ASSUME NEW w \in Workers, MessageIsRestored(w) PROVE Kept
    <2>1. /\ UNCHANGED <<phase, run, doc, pc>>
          /\ execution[w] # D!Idle
          /\ execution' = [execution EXCEPT ![w].delivered = FALSE]
      BY <1>8 DEF MessageIsRestored, D!Restore, pipelineVars
    <2>2. execution[w] \in D!Execution
      BY <2>1, ExecutionFields
    <2>3. /\ [execution[w] EXCEPT !.delivered = FALSE] \in D!Execution
          /\ [execution[w] EXCEPT !.delivered = FALSE].pc = execution[w].pc
          /\ [execution[w] EXCEPT !.delivered = FALSE].message
                = execution[w].message
      BY <2>2 DEF D!Execution
    <2>4. /\ execution' \in [Workers -> {D!Idle} \cup D!Execution]
          /\ execution'[w] \in D!Execution /\ execution'[w].pc = execution[w].pc
          /\ execution'[w].message = execution[w].message
          /\ \A v \in Workers \ {w} : execution'[v] = execution[v]
      BY <1>1, <2>1, <2>3
    <2>5. TaskAgrees(w)'
      BY <1>1, <2>1, <2>2, <2>4, ExecutionFields
         DEF TaskAgrees, Executes, Committed
    <2>. QED BY <1>1, <2>1, <2>4, <2>5, OtherTasks
  <1>9. ASSUME NEW s \in Sessions, HandleRequest(s) PROVE Kept
    BY <1>1, <1>2, <1>9 DEF HandleRequest, pipelineVars, deliveryVars
  <1>10. ASSUME UNCHANGED systemVars PROVE Kept
    BY <1>1, <1>2, <1>10 DEF systemVars, serviceVars, vars, deliveryVars
  <1>11. ASSUME NEW w \in Workers, TaskGoesOn(w) PROVE Kept
    BY <1>5, <1>6, <1>11 DEF TaskGoesOn
  <1> HIDE DEF Kept
  <1>12. Kept
    BY <1>3, <1>4, <1>5, <1>7, <1>8, <1>9, <1>10, <1>11 DEF SystemNext
  <1>. QED BY <1>12 DEF Kept

\* Workers, runs, uploads and the database keep together, with every fault and
\* every mishap.
THEOREM SystemInvariant == SystemSpec => []WholeInv /\ []SystemInv
  <1>1. SystemInit => WholeInv /\ SystemInv
    <2> SUFFICES ASSUME SystemInit PROVE WholeInv /\ SystemInv
      OBVIOUS
    <2>1. WholeInv
      BY ServiceInitially DEF SystemInit
    <2>2. /\ phase = [d \in Documents |-> "none"]
          /\ execution = [w \in Workers |-> D!Idle]
          /\ run = [w \in Workers |-> NoRun]
          /\ docStatus = [d \in Documents |-> Absent] /\ piiMappings = {}
          /\ \A r \in Runs : ctx[r].key_usable
      BY DEF SystemInit, D!Init, ServiceInit, Init, NewContext
    <2>. QED
      BY <2>1, <2>2, SameStatus
         DEF SystemInv, TaskAgrees, Executes, D!VisibleWhenCommitted
  <1>2. WholeInv /\ SystemInv /\ [SystemNext]_systemVars
        => WholeInv' /\ SystemInv'
    <2> SUFFICES ASSUME WholeInv, SystemInv, [SystemNext]_systemVars
                 PROVE  WholeInv' /\ SystemInv'
      OBVIOUS
    <2>1. WholeInv'
      BY ServiceStep, ServiceStepKeeps
    <2>2. SystemInv'
      BY TasksStep, DatabaseStep DEF SystemInv, DatabaseAgrees
    <2>. QED BY <2>1, <2>2
  <1>. QED BY <1>1, <1>2, PTL DEF SystemSpec

\* To the database, broker, workers and uploads are nothing but runs that
\* begin, go on and die: all that is proved of Service holds of the system.
THEOREM ServiceImplemented == SystemSpec => ServiceSpec
  <1>1. SystemInit => ServiceInit
    BY DEF SystemInit
  <1>2. WholeInv /\ SystemInv /\ [SystemNext]_systemVars
        => [ServiceNext]_serviceVars
    BY ServiceStep
  <1>. QED BY <1>1, <1>2, SystemInvariant, PTL DEF SystemSpec, ServiceSpec

\* Whatever the broker delivers twice and whichever worker dies, a document with
\* PII is processed once, a decision on it stands, and what is validated without
\* a disturbance can still be decided.
THEOREM DeliveriesDoNoHarm ==
    SystemSpec =>
        [](PiiProcessedOnce /\ PiiDecisionStands /\ ValidatedAwaitsDecision)
  <1>1. WholeInv => PiiProcessedOnce
    BY OneMapping DEF WholeInv
  <1>2. ServiceSpec => []PiiProcessedOnce
    BY <1>1, ServiceInvariant, PTL
  <1>. QED
    BY <1>2, ServiceImplemented, DecisionsStand, ValidatedIsAwaited, PTL

-----------------------------------------------------------------------------
(***************************************************************************)
(* The refinement of Delivery.                                             *)
(***************************************************************************)

\* A run that raises came too early or too late or met a fault, and that is how
\* Delivery lets it raise.
LEMMA RaiseDelivered ==
    ASSUME WholeInv, SystemInv, NEW w \in Workers,
           RunRaisesInTask(w) \/ FaultStrikes(w)
    PROVE  D!PipelineRaises(w)
  <1> PICK r : r = run[w]
    OBVIOUS
  <1>1. r \in Runs /\ Executes(w) /\ TaskRaises(w)
    BY ExecutionFields DEF RunRaisesInTask, FaultStrikes
  <1>2. /\ pc[r] \notin {"raising"} \cup Ended /\ UNCHANGED docStatus
        /\ docStatus[doc[r]] = "processing" => "raise" \in Mishaps
    <2>1. CASE RunRaisesInTask(w)
      <3>1. (Begin(r) \/ Step(r)) /\ pc'[r] = "raising"
        BY <2>1 DEF RunRaisesInTask
      <3>2. pc[r] \notin {"raising"} \cup Ended /\ UNCHANGED docStatus
        BY <1>1, <3>1, RunPlaces DEF tables, Active, Steps, CriticalSteps, Ended
      <3>3. docStatus[doc[r]] = "processing" =>
               Faults \cap {"ocr", "mask", "soft_limit", "key"} # {}
        BY <1>1, <3>1, RunRaisesLate
      <3>. QED BY <3>2, <3>3, SystemAssumption
    <2>2. CASE FaultStrikes(w)
      <3>1. RunRaises(r)
        BY <2>2 DEF FaultStrikes
      <3>2. pc[r] \notin {"raising"} \cup Ended /\ UNCHANGED docStatus
        BY <1>1, <3>1, FaultPlaces DEF tables, Active, Steps, CriticalSteps, Ended
      <3>3. Faults \cap {"flush", "soft_limit"} # {}
        BY <1>1, <3>1, FaultPlaces
      <3>. QED BY <3>2, <3>3, SystemAssumption
    <2>. QED BY <2>1, <2>2
  <1>3. execution[w].pc = "running" /\ doc[r] = execution[w].message.document
    BY <1>1, <1>2 DEF SystemInv, TaskAgrees
  <1>. QED
    BY <1>1, <1>2, <1>3
       DEF TaskRaises, D!PipelineRaises, D!Running, D!MessageOf

\* The commit of a run is the step in which Delivery processes a document.
LEMMA CommitDelivered ==
    ASSUME WholeInv, SystemInv, NEW w \in Workers, RunCommits(w)
    PROVE  D!Process(w)
  <1> PICK r : r = run[w]
    OBVIOUS
  <1>1. /\ r \in Runs /\ Commit(r)
        /\ UNCHANGED <<phase, queue, redeliveries, forsaken>>
        /\ \/ D!Becomes(w, "returned")
           \/ "close" \in Mishaps /\ D!Becomes(w, "raised")
    BY ExecutionFields DEF RunCommits
  <1>2. pc[r] = "commit" /\ docStatus' = [docStatus EXCEPT ![doc[r]] = tx[r].status]
    BY <1>1 DEF Commit
  <1>3. execution[w].pc = "running" /\ doc[r] = execution[w].message.document
    BY <1>2 DEF SystemInv, TaskAgrees, RunCommits, Ended
  <1>4. tx[r].status \in D!FinalStatus
    BY <1>1, CommitAdds, SameStatus
  <1>5. docStatus[doc[r]] # D!Absent
    BY <1>1, FinalStatusSet, SameStatus
  <1>. QED
    BY <1>1, <1>2, <1>3, <1>4, <1>5 DEF D!Process, D!Running, D!MessageOf

\* A request decides on a document that is settled, or does nothing that
\* concerns the broker.
LEMMA RequestDelivered ==
    ASSUME WholeInv, SystemInv, NEW s \in Sessions, HandleRequest(s)
    PROVE  (\E d \in Documents : D!Decide(d)) \/ UNCHANGED D!vars
  <1>1. R!Handle(s) /\ UNCHANGED <<phase, queue, execution, redeliveries, forsaken>>
    BY DEF HandleRequest, deliveryVars
  <1>2. CASE docStatus' = docStatus
    BY <1>1, <1>2 DEF D!vars
  <1>3. CASE docStatus' # docStatus
    <2>1. R!CommitDecision(s)
      BY <1>1, <1>3, QuietRequest DEF WholeInv
    <2>2. /\ docStatus' = [docStatus EXCEPT ![parent[s]] = update[s]]
          /\ parent[s] \in Documents
      BY <1>3, <2>1, CommitRequest, CommitDecides DEF WholeInv
    <2>3. docStatus'[parent[s]] # docStatus[parent[s]]
      BY <1>3, <2>2 DEF WholeInv, RunTypeOK
    <2>4. /\ docStatus[parent[s]] \in D!FinalStatus
          /\ docStatus'[parent[s]] \in {"reviewed", "failed"}
      BY <1>1, <2>2, <2>3, FinalStatusSet, SameStatus
    <2>5. docStatus'[parent[s]] = update[s]
      BY <2>2 DEF WholeInv, RunTypeOK
    <2>. QED BY <1>1, <2>2, <2>4, <2>5 DEF D!Decide
  <1>. QED BY <1>2, <1>3

\* Every step of System is one of Delivery, or none that the broker sees.
LEMMA DeliveryStep ==
    ASSUME WholeInv, SystemInv, [SystemNext]_systemVars
    PROVE  D!Next \/ UNCHANGED D!vars
  <1>1. ASSUME NEW d \in Documents, Upload(d) PROVE D!Next
    BY <1>1 DEF Upload, D!Next
  <1>2. ASSUME NEW w \in Workers, StartTask(w) PROVE D!Next
    BY <1>2 DEF StartTask, D!Next
  <1>3. ASSUME NEW w \in Workers, RunGoesOn(w) \/ RunRollsBack(w)
        PROVE  UNCHANGED D!vars
    <2> PICK r : r = run[w]
      OBVIOUS
    <2>1. r \in Runs /\ (Begin(r) \/ Step(r)) /\ UNCHANGED deliveryVars
      BY <1>3, ExecutionFields DEF RunGoesOn, RunRollsBack, Step
    <2>2. ~Commit(r)
      BY <1>3, <2>1, RunPlaces
         DEF RunGoesOn, RunRollsBack, Active, Steps, CriticalSteps
    <2>. QED BY <2>1, <2>2, RunPlaces DEF tables, deliveryVars, D!vars
  <1>4. ASSUME NEW w \in Workers, RunRaisesInTask(w) \/ FaultStrikes(w)
        PROVE  D!Next
    BY <1>4, RaiseDelivered DEF D!Next, D!Work
  <1>5. ASSUME NEW w \in Workers, StepIsCutShort(w) PROVE UNCHANGED D!vars
    BY <1>5, ExecutionFields, FaultPlaces
       DEF StepIsCutShort, tables, deliveryVars, D!vars
  <1>6. ASSUME NEW w \in Workers, RunCommits(w) PROVE D!Next
    BY <1>6, CommitDelivered DEF D!Next, D!Work
  <1>7. ASSUME NEW w \in Workers, TaskEnds(w) PROVE D!Next
    BY <1>7 DEF TaskEnds, D!Next, D!Work
  <1>8. ASSUME NEW w \in Workers, TaskIsKilled(w) PROVE D!Next
    BY <1>8 DEF TaskIsKilled, D!Next
  <1>9. ASSUME NEW w \in Workers, MessageIsRestored(w) PROVE D!Next
    BY <1>9 DEF MessageIsRestored, D!Next
  <1>10. ASSUME NEW s \in Sessions, HandleRequest(s)
        PROVE  D!Next \/ UNCHANGED D!vars
    BY <1>10, RequestDelivered DEF D!Next
  <1>11. CASE UNCHANGED systemVars
    BY <1>11 DEF systemVars, serviceVars, vars, deliveryVars, D!vars
  <1>. QED
    BY <1>1, <1>2, <1>3, <1>4, <1>5, <1>6, <1>7, <1>8, <1>9, <1>10, <1>11
       DEF SystemNext, TaskGoesOn

\* To the broker, the interleaved steps of runs, requests and uploads are those
\* of Delivery, one for each run, whatever fails.
THEOREM DeliveryImplemented == SystemSpec => D!Spec
  <1>1. SystemInit => D!Init
    BY DEF SystemInit
  <1>2. WholeInv /\ SystemInv /\ [SystemNext]_systemVars
        => [D!Next]_(D!vars)
    BY DeliveryStep
  <1>. QED BY <1>1, <1>2, SystemInvariant, PTL DEF SystemSpec, D!Spec

=============================================================================

--------------------------- MODULE PipelineProofs ---------------------------
(***************************************************************************)
(* Theorems about Pipeline, for every set of documents and runs and every  *)
(* set of faults.                                                          *)
(***************************************************************************)
EXTENDS Pipeline, TLAPS

-----------------------------------------------------------------------------
(***************************************************************************)
(* Types.  Every step of a run is a Goto, so one lemma covers them all once *)
(* the context and the writes it leaves behind have their types.           *)
(***************************************************************************)
Places == {"idle"} \cup Active \cup Ended

\* A Goto with a typed context and typed writes keeps every type.
LEMMA GotoTypes ==
    ASSUME RunTypeOK, NEW r \in Runs, NEW next \in Places,
           NEW c \in Context, NEW t \in Transaction,
           Goto(r, next, c, t), docLock' = [d \in Documents |-> docLock'[d]]
    PROVE  RunTypeOK'
  BY DEF RunTypeOK, Goto, tables, Places

\* What a step of r may do to the row locks.
LocksOf(r) ==
    \/ LockDocument(r)
    \/ docLock' = [docLock EXCEPT ![doc[r]] = @ \ {r}]
    \/ UNCHANGED docLock

\* Taking, keeping and giving back the row lock keep the type of docLock.
LEMMA LockTypes ==
    ASSUME RunTypeOK, NEW r \in Runs
    PROVE  /\ LockDocument(r) => docLock' = [d \in Documents |-> docLock'[d]]
           /\ docLock' = [docLock EXCEPT ![doc[r]] = @ \ {r}]
                => docLock' = [d \in Documents |-> docLock'[d]]
           /\ UNCHANGED docLock => docLock' = [d \in Documents |-> docLock'[d]]
  BY DEF RunTypeOK, LockDocument

\* Both ways a step of the pipeline ends keep every type.
LEMMA StepTypes ==
    ASSUME RunTypeOK, NEW r \in Runs, NEW next \in Places,
           NEW c \in Context, NEW t \in Transaction,
           StepReturns(r, next, c, t) \/ StepGoesOn(r, next, c, t)
    PROVE  RunTypeOK'
  BY GotoTypes, LockTypes DEF StepReturns, StepGoesOn

\* An empty transaction is a transaction.
LEMMA NoWritesType == NoWrites \in Transaction
  BY DEF NoWrites, Transaction

\* What the fields of a typed context and transaction are.
LEMMA FieldTypes ==
    ASSUME RunTypeOK, NEW r \in Runs
    PROVE  /\ ctx[r] \in Context /\ tx[r] \in Transaction
           /\ doc[r] \in Documents /\ pc[r] \in Places
  BY DEF RunTypeOK, Places

\* Losing or discarding the transaction keeps every type.
LEMMA DoomedTypes ==
    ASSUME RunTypeOK, NEW r \in Runs, Doomed(r) \/ Discard(r)
    PROVE  RunTypeOK'
  BY GotoTypes, LockTypes, NoWritesType, FieldTypes
     DEF Doomed, Discard, Places, Active, Ended

\* The rows a run writes have the type of their table.
LEMMA RowTypes ==
    ASSUME RunTypeOK, NEW r \in Runs, NEW level \in RiskLevel
    PROVE  /\ [id |-> r, document |-> doc[r]] \in PIIMapping
           /\ [id |-> r, document |-> doc[r], data |-> Extracted(r),
               validation_status |-> "passed", risk_level |-> "low"]
                \in ExtractionResult
           /\ TaskFor(r, level) \subseteq ReviewTask
           /\ RowWithRisk(r, level) \subseteq ExtractionResult
           /\ RowUnmasked(r) \subseteq ExtractionResult
  <1>1. doc[r] \in Documents /\ tx[r].extraction \subseteq ExtractionResult
    BY FieldTypes DEF Transaction
  <1>2. [id |-> r, document |-> doc[r]] \in PIIMapping
    BY <1>1 DEF PIIMapping
  <1>3. [id |-> r, document |-> doc[r], data |-> Extracted(r),
         validation_status |-> "passed", risk_level |-> "low"]
          \in ExtractionResult
    BY <1>1 DEF ExtractionResult, Extracted, ValidationStatus, RiskLevel
  <1>4. TaskFor(r, level) \subseteq ReviewTask
    BY <1>1 DEF TaskFor, ReviewTask, RiskToPriority, ReviewPriority,
                ReviewTaskStatus, RiskLevel
  <1>5. RowWithRisk(r, level) \subseteq ExtractionResult
    BY <1>1 DEF RowWithRisk, ExtractionResult
  <1>6. RowUnmasked(r) \subseteq ExtractionResult
    BY <1>1 DEF RowUnmasked, ExtractionResult
  <1>. QED BY <1>2, <1>3, <1>4, <1>5, <1>6

\* The OCR step preserves the types.
LEMMA OCRTypes ==
    ASSUME RunTypeOK, NEW r \in Runs, OCR(r)
    PROVE  RunTypeOK'
  <1>1. [tx[r] EXCEPT !.status = "ocr_complete"] \in Transaction
    BY FieldTypes DEF Transaction, DocumentStatus
  <1>. QED
    BY <1>1, StepTypes, FieldTypes DEF OCR, Places, Active, Steps, CriticalSteps

\* The masking step preserves the types, also when a mapping exists.
LEMMA MaskTypes ==
    ASSUME RunTypeOK, NEW r \in Runs, StepPIIMask(r)
    PROVE  RunTypeOK'
  <1> USE DEF Places, Active, Steps, CriticalSteps
  <1>1. CASE MaskClean(r)
    <2>1. [tx[r] EXCEPT !.status = "masked"] \in Transaction
      BY FieldTypes DEF Transaction, DocumentStatus
    <2>. QED BY <1>1, <2>1, StepTypes, FieldTypes DEF MaskClean
  <1>2. CASE MaskPii(r)
    <2>1. [ctx[r] EXCEPT !.pii_mapping_id = TRUE] \in Context
      BY FieldTypes DEF Context
    <2> DEFINE row == [id |-> r, document |-> doc[r]]
    <2>2. row \in PIIMapping
      BY FieldTypes DEF PIIMapping
    <2>3. [tx[r] EXCEPT !.status = "masked", !.mapping = {row}] \in Transaction
      BY <2>2, FieldTypes DEF Transaction, DocumentStatus
    <2>. QED BY <1>2, <2>1, <2>3, StepTypes DEF MaskPii
  <1>3. CASE MappingExists(r)
    BY <1>3, DoomedTypes DEF MappingExists
  <1>. QED BY <1>1, <1>2, <1>3 DEF StepPIIMask

\* The extraction step preserves the types, also when nothing is stored.
LEMMA LLMTypes ==
    ASSUME RunTypeOK, NEW r \in Runs, StepLLMExtract(r)
    PROVE  RunTypeOK'
  <1> USE DEF Places, Active, Steps, CriticalSteps
  <1>0. Extracted(r) \in {"masked", "real"}
    BY DEF Extracted
  <1>1. CASE LLMExtract(r)
    <2> DEFINE row == [id |-> r, document |-> doc[r], data |-> Extracted(r),
                       validation_status |-> "passed", risk_level |-> "low"]
    <2>1. [ctx[r] EXCEPT !.extraction_result = Extracted(r),
                         !.extraction_db_id = TRUE] \in Context
      BY <1>0, FieldTypes DEF Context
    <2>2. row \in ExtractionResult
      BY <1>0, FieldTypes
         DEF ExtractionResult, ValidationStatus, RiskLevel
    <2>3. [tx[r] EXCEPT !.status = "extracted", !.extraction = {row}]
            \in Transaction
      BY <2>2, FieldTypes DEF Transaction, DocumentStatus
    <2>. QED BY <1>1, <2>1, <2>3, StepTypes DEF LLMExtract
  <1>2. CASE LLMFails(r)
    BY <1>2, StepTypes, FieldTypes DEF LLMFails
  <1>3. CASE LLMResultNotStored(r)
    <2>1. [ctx[r] EXCEPT !.extraction_result = Extracted(r)] \in Context
      BY <1>0, FieldTypes DEF Context
    <2>. QED BY <1>3, <2>1, StepTypes, FieldTypes DEF LLMResultNotStored
  <1>. QED BY <1>1, <1>2, <1>3 DEF StepLLMExtract

\* Unmasking and normalisation preserve the types.
LEMMA UnmaskTypes ==
    ASSUME RunTypeOK, NEW r \in Runs, StepUnmask(r) \/ StepNormalize(r)
    PROVE  RunTypeOK'
  <1> USE DEF Places, Active, Steps, CriticalSteps
  <1>1. CASE UnmaskSkipped(r)
    BY <1>1, StepTypes, FieldTypes DEF UnmaskSkipped
  <1>2. CASE Unmask(r)
    <2>1. RowUnmasked(r) \subseteq ExtractionResult
      BY RowTypes DEF RiskLevel
    <2>2. [tx[r] EXCEPT !.extraction = RowUnmasked(r)] \in Transaction
      BY <2>1, FieldTypes DEF Transaction
    <2>3. [ctx[r] EXCEPT !.extraction_result = "real"] \in Context
      BY FieldTypes DEF Context
    <2>. QED BY <1>2, <2>2, <2>3, StepTypes DEF Unmask
  <1>3. CASE UnmaskFails(r)
    <2>1. [ctx[r] EXCEPT !.has_errors = TRUE] \in Context
      BY FieldTypes DEF Context
    <2>. QED BY <1>3, <2>1, StepTypes, FieldTypes DEF UnmaskFails
  <1>4. CASE StepNormalize(r)
    <2>1. ASSUME NEW failed \in BOOLEAN
          PROVE  [ctx[r] EXCEPT !.has_errors = @ \/ failed] \in Context
      BY <2>1, FieldTypes DEF Context
    <2>. QED BY <1>4, <2>1, StepTypes, FieldTypes DEF StepNormalize
  <1>. QED BY <1>1, <1>2, <1>3, <1>4 DEF StepUnmask

\* The validation step preserves the types.
LEMMA ValidateTypes ==
    ASSUME RunTypeOK, NEW r \in Runs, StepValidate(r)
    PROVE  RunTypeOK'
  <1> USE DEF Places, Active, Steps, CriticalSteps
  <1>1. CASE ValidateSkipped(r)
    <2>1. [tx[r] EXCEPT !.status = "validated"] \in Transaction
      BY FieldTypes DEF Transaction, DocumentStatus
    <2>. QED BY <1>1, <2>1, StepTypes, FieldTypes DEF ValidateSkipped
  <1>2. CASE Validate(r)
    BY <1>2, StepTypes, FieldTypes DEF Validate
  <1>. QED BY <1>1, <1>2 DEF StepValidate

\* The risk step preserves the types: its row and its task have theirs.
LEMMA RiskTypes ==
    ASSUME RunTypeOK, NEW r \in Runs, StepRisk(r)
    PROVE  RunTypeOK'
  <1> USE DEF Places, Active, Steps, CriticalSteps
  <1>1. CASE RiskSkipped(r)
    <2>1. [tx[r] EXCEPT !.status = "validated"] \in Transaction
      BY FieldTypes DEF Transaction, DocumentStatus
    <2>. QED BY <1>1, <2>1, StepTypes, FieldTypes DEF RiskSkipped
  <1>2. CASE DetectRisk(r)
    <2>1. PICK level \in RiskLevel :
            StepReturns(r, "conclude", [ctx[r] EXCEPT !.risk_assessment = level],
                        [tx[r] EXCEPT !.status = "validated",
                                      !.extraction = RowWithRisk(r, level),
                                      !.task = TaskFor(r, level)])
      BY <1>2 DEF DetectRisk
    <2>2. [ctx[r] EXCEPT !.risk_assessment = level] \in Context
      BY FieldTypes DEF Context
    <2>3. [tx[r] EXCEPT !.status = "validated",
                        !.extraction = RowWithRisk(r, level),
                        !.task = TaskFor(r, level)] \in Transaction
      BY RowTypes, FieldTypes DEF Transaction, DocumentStatus
    <2>. QED BY <2>1, <2>2, <2>3, StepTypes
  <1>. QED BY <1>1, <1>2 DEF StepRisk

\* A soft limit inside a step preserves the types.
LEMMA SoftLimitTypes ==
    ASSUME RunTypeOK, NEW r \in Runs, SoftLimitInStep(r)
    PROVE  RunTypeOK'
  <1> USE DEF Places, Active, Steps, CriticalSteps
  <1> DEFINE c == [ctx[r] EXCEPT !.limit_spent = TRUE]
  <1>1. c \in Context
    BY FieldTypes DEF Context
  <1> HIDE DEF c
  <1>2. ASSUME NEW e \in {"none", "masked", "real"}
        PROVE  [c EXCEPT !.extraction_result = e] \in Context
    BY <1>1 DEF Context
  <1>3. ASSUME NEW level \in RiskLevel
        PROVE  [c EXCEPT !.risk_assessment = level] \in Context
    BY <1>1 DEF Context
  <1>4. tx[r] \in Transaction
    BY FieldTypes
  <1>5. CASE LimitInLLMExtract(r, c)
    <2> DEFINE row == [id |-> r, document |-> doc[r], data |-> Extracted(r),
                       validation_status |-> "passed", risk_level |-> "low"]
    <2>1. row \in ExtractionResult
      BY RowTypes DEF RiskLevel
    <2> HIDE DEF row
    <2>2. [tx[r] EXCEPT !.extraction = {row}] \in Transaction
      BY <1>4, <2>1 DEF Transaction
    <2>3. Extracted(r) \in {"none", "masked", "real"}
      BY DEF Extracted
    <2>4. \A e \in {"none", Extracted(r)} :
             [c EXCEPT !.extraction_result = e] \in Context
      BY <1>2, <2>3
    <2>5. \A id_read \in BOOLEAN :
             [c EXCEPT !.extraction_result = Extracted(r),
                       !.extraction_db_id = id_read] \in Context
      BY <1>1, <2>3 DEF Context
    <2>6. \/ \E e \in {"none", Extracted(r)} :
                StepGoesOn(r, "unmask", [c EXCEPT !.extraction_result = e], tx[r])
          \/ \E id_read \in BOOLEAN :
                StepGoesOn(r, "unmask", [c EXCEPT !.extraction_result = Extracted(r),
                                                  !.extraction_db_id = id_read],
                           [tx[r] EXCEPT !.extraction = {row}])
      BY <1>5 DEF LimitInLLMExtract, row
    <2>. QED BY <1>4, <2>2, <2>4, <2>5, <2>6, StepTypes
  <1>6. CASE LimitInUnmask(r, c)
    <2>1. \A row_too \in BOOLEAN :
             [tx[r] EXCEPT !.extraction =
                 IF row_too THEN RowUnmasked(r) ELSE @] \in Transaction
      <3>1. RowUnmasked(r) \subseteq ExtractionResult
        BY RowTypes DEF RiskLevel
      <3>. QED BY <1>4, <3>1 DEF Transaction
    <2>2. /\ [c EXCEPT !.has_errors = TRUE] \in Context
          /\ [c EXCEPT !.extraction_result = "real"] \in Context
      BY <1>1 DEF Context
    <2>. QED BY <1>1, <1>4, <1>6, <2>1, <2>2, StepTypes DEF LimitInUnmask
  <1>7. CASE LimitInRisk(r, c)
    <2>1. ASSUME NEW level \in RiskLevel, NEW tasks \in {{}, TaskFor(r, level)}
          PROVE  [tx[r] EXCEPT !.extraction = RowWithRisk(r, level),
                               !.task = tasks] \in Transaction
      <3>1. /\ RowWithRisk(r, level) \subseteq ExtractionResult
            /\ tasks \subseteq ReviewTask
        BY RowTypes
      <3>. QED BY <1>4, <3>1 DEF Transaction
    <2>2. CASE StepGoesOn(r, "conclude", c, tx[r])
      BY <1>1, <1>4, <2>2, StepTypes
    <2>3. ASSUME NEW level \in RiskLevel,
                 StepGoesOn(r, "conclude", [c EXCEPT !.risk_assessment = level],
                            tx[r])
          PROVE  RunTypeOK'
      BY <1>3, <1>4, <2>3, StepTypes
    <2>4. ASSUME NEW level \in RiskLevel, NEW tasks \in {{}, TaskFor(r, level)},
                 StepGoesOn(r, "conclude", [c EXCEPT !.risk_assessment = level],
                            [tx[r] EXCEPT !.extraction = RowWithRisk(r, level),
                                          !.task = tasks])
          PROVE  RunTypeOK'
      BY <1>3, <2>1, <2>4, StepTypes
    <2>. QED BY <1>7, <2>2, <2>3, <2>4 DEF LimitInRisk
  <1>8. CASE \/ StepGoesOn(r, "validate", c, tx[r])
             \/ StepGoesOn(r, "risk_detect", c, tx[r])
    BY <1>1, <1>4, <1>8, StepTypes
  <1>. QED BY <1>5, <1>6, <1>7, <1>8 DEF SoftLimitInStep, c

\* The final status, the audit event and a critical failure have their types.
LEMMA EndTypes ==
    ASSUME RunTypeOK, NEW r \in Runs,
           Conclude(r) \/ WriteAudit(r) \/ CriticalStepFails(r)
    PROVE  RunTypeOK'
  <1> USE DEF Places, Active, Steps, CriticalSteps
  <1>1. CASE Conclude(r)
    <2> DEFINE final == FinalStatusOf(ctx[r])
    <2>1. final \in FinalStatus
      BY DEF FinalStatusOf, FinalStatus
    <2>2. [ctx[r] EXCEPT !.final_status = final] \in Context
      BY <2>1, FieldTypes DEF Context
    <2>3. [tx[r] EXCEPT !.status = final] \in Transaction
      BY <2>1, FieldTypes DEF Transaction, DocumentStatus, FinalStatus
    <2>. QED BY <1>1, <2>2, <2>3, StepTypes DEF Conclude
  <1>2. CASE WriteAudit(r)
    <2> DEFINE event ==
          [run |-> r, step |-> "orchestrator",
           status |-> IF ctx[r].final_status = "failed" THEN "failure"
                                                        ELSE "success"]
    <2>1. event \in AuditEvent
      BY DEF AuditEvent, AuditEventStatus
    <2>2. [tx[r] EXCEPT !.audit = {event}] \in Transaction
      BY <2>1, FieldTypes DEF Transaction
    <2>. QED BY <1>2, <2>2, StepTypes, FieldTypes DEF WriteAudit
  <1>3. CASE CriticalStepFails(r)
    <2> DEFINE event == [run |-> r, step |-> pc[r], status |-> "failure"]
    <2>1. event \in AuditEvent
      BY <1>3 DEF CriticalStepFails, AuditEvent, AuditEventStatus
    <2>2. [tx[r] EXCEPT !.status = "failed", !.audit = {event}] \in Transaction
      BY <2>1, FieldTypes DEF Transaction, DocumentStatus
    <2>3. [ctx[r] EXCEPT !.final_status = "failed"] \in Context
      BY FieldTypes DEF Context, FinalStatus
    <2>. QED BY <1>3, <2>2, <2>3, StepTypes DEF CriticalStepFails
  <1>. QED BY <1>1, <1>2, <1>3

\* What a run commits has the types of the tables.
LEMMA CommitTypes ==
    ASSUME RunTypeOK, NEW r \in Runs, Commit(r)
    PROVE  RunTypeOK'
  <1>1. /\ docLock' = [d \in Documents |-> docLock'[d]]
        /\ NoWrites \in Transaction
    BY LockTypes, NoWritesType DEF Commit
  <1>2. /\ piiMappings' \subseteq PIIMapping
        /\ extractions' \subseteq ExtractionResult
        /\ reviewTasks' \subseteq ReviewTask
        /\ auditLog' \subseteq AuditEvent
        /\ docStatus' \in [Documents -> {Absent} \cup DocumentStatus]
    BY FieldTypes DEF Commit, RunTypeOK, Transaction
  <1>. QED BY <1>1, <1>2 DEF Commit, RunTypeOK, Ended

\* A step of any run keeps the types, whoever holds the locks.
LEMMA NextTypes ==
    ASSUME RunTypeOK, [Next]_vars
    PROVE  RunTypeOK'
  <1>1. ASSUME NEW d \in Documents, UploadCommits(d) PROVE RunTypeOK'
    BY <1>1 DEF UploadCommits, RunTypeOK, DocumentStatus
  <1>2. ASSUME NEW r \in Runs, Begin(r) PROVE RunTypeOK'
    <2>1. PICK key \in Keys : ctx' = [ctx EXCEPT ![r].key_usable = key]
      BY <1>2 DEF Begin
    <2>2. [ctx[r] EXCEPT !.key_usable = key] \in Context
      BY FieldTypes DEF Context, Keys
    <2>3. ctx' \in [Runs -> Context]
      BY <2>1, <2>2 DEF RunTypeOK
    <2>. QED
      BY <1>2, <2>3 DEF Begin, RunTypeOK, tables, Active, Steps, CriticalSteps
  <1>3. ASSUME NEW r \in Runs, Step(r) PROVE RunTypeOK'
    BY <1>3, OCRTypes, MaskTypes, LLMTypes, UnmaskTypes, ValidateTypes,
       RiskTypes, EndTypes, CommitTypes, DoomedTypes DEF Step, Rollback
  <1>4. ASSUME NEW r \in Runs, RunRaises(r) \/ WorkerLost(r) PROVE RunTypeOK'
    BY <1>4, DoomedTypes DEF RunRaises, WorkerLost
  <1>5. ASSUME NEW r \in Runs, SoftLimitInStep(r) PROVE RunTypeOK'
    BY <1>5, SoftLimitTypes
  <1>6. CASE UNCHANGED vars
    BY <1>6 DEF vars, RunTypeOK
  <1>. QED BY <1>1, <1>2, <1>3, <1>4, <1>5, <1>6 DEF Next

\* A step takes one row lock, gives one back, or leaves them alone.
LEMMA NextLocks ==
    ASSUME [Next]_vars
    PROVE  docLock' = docLock \/ \E r \in Runs : LocksOf(r)
  <1>1. ASSUME NEW r \in Runs, Step(r) PROVE LocksOf(r)
    BY <1>1
       DEF LocksOf, Rollback, Discard, Doomed, Goto, StepReturns, StepGoesOn,
           Step, OCR, StepPIIMask, MaskClean, MaskPii, MappingExists,
           StepLLMExtract, LLMExtract, LLMFails, LLMResultNotStored, StepUnmask,
           UnmaskSkipped, Unmask, UnmaskFails, StepNormalize, StepValidate,
           ValidateSkipped, Validate, StepRisk, RiskSkipped, DetectRisk,
           Conclude, WriteAudit, CriticalStepFails, Commit
  <1>2. ASSUME NEW r \in Runs,
               \/ Begin(r) \/ RunRaises(r) \/ SoftLimitInStep(r) \/ WorkerLost(r)
        PROVE  LocksOf(r)
    BY <1>2
       DEF LocksOf, Begin, RunRaises, SoftLimitInStep, LimitInLLMExtract,
           LimitInUnmask, LimitInRisk, WorkerLost, Discard, Doomed, Goto,
           StepGoesOn
  <1>. QED BY <1>1, <1>2 DEF Next, UploadCommits, vars

\* Every variable keeps its type, whatever fails.
THEOREM TypeCorrect == Spec => []TypeOK
  <1>1. Init => TypeOK
    <2>1. NewContext \in Context
      BY DEF NewContext, Context
    <2>. QED BY <2>1, NoWritesType DEF Init, TypeOK, RunTypeOK
  <1>2. TypeOK /\ [Next]_vars => TypeOK'
    <2> SUFFICES ASSUME TypeOK, [Next]_vars PROVE TypeOK'
      OBVIOUS
    <2>1. docLock' \in [Documents -> SUBSET Runs]
      BY NextLocks DEF TypeOK, LocksOf, LockDocument
    <2>. QED BY <2>1, NextTypes DEF TypeOK
  <1>. QED BY <1>1, <1>2, PTL DEF Spec

\* The part of it that the steps rely on.
LEMMA RunTypes == Spec => []RunTypeOK
  <1>1. TypeOK => RunTypeOK
    BY DEF TypeOK
  <1>. QED BY <1>1, TypeCorrect, PTL
-----------------------------------------------------------------------------
(***************************************************************************)
(* Documents with PII.                                                     *)
(***************************************************************************)

\* A step of r that commits nothing leaves the other runs alone.
LEMMA PiiOthers ==
    ASSUME RunTypeOK, PiiInv, NEW r \in Runs, NEW next, NEW c, NEW t,
           Goto(r, next, c, t), LocksOf(r), PiiRun(r)', pc[r] # "committed"
    PROVE  PiiInv'
  <1>1. ASSUME NEW q \in Runs, q # r PROVE PiiRun(q)'
    <2>1. /\ pc'[q] = pc[q] /\ tx'[q] = tx[q] /\ doc'[q] = doc[q]
          /\ piiMappings' = piiMappings
      BY <1>1 DEF Goto, RunTypeOK, tables
    <2>2. PiiRun(q)
      BY DEF PiiInv
    <2>3. docLock[doc[q]] = {q} => docLock'[doc[q]] = {q}
      BY <1>1 DEF LocksOf, LockDocument, RunTypeOK
    <2>. QED
      BY <2>1, <2>2, <2>3 DEF PiiRun, Committed, MappingsOf
  <1>2. PiiTables'
    <2>1. /\ piiMappings' = piiMappings /\ extractions' = extractions
          /\ doc' = doc /\ docStatus' = docStatus
      BY DEF Goto, tables
    <2>2. ASSUME NEW q \in Runs, pc[q] = "committed"
          PROVE  pc'[q] = "committed"
      BY <2>2 DEF Goto, RunTypeOK
    <2>3. \A x \in extractions : x.id \in Runs
      BY DEF RunTypeOK, ExtractionResult
    <2>. QED BY <2>1, <2>2, <2>3 DEF PiiInv, PiiTables, Committed
  <1>. QED BY <1>1, <1>2 DEF PiiInv

\* The two ways a step ends keep the invariant.
LEMMA PiiStep ==
    ASSUME RunTypeOK, PiiInv, NEW r \in Runs, NEW next, NEW c, NEW t,
           \/ StepReturns(r, next, c, t)
           \/ StepGoesOn(r, next, c, t) /\ pc[r] \in Masked,
           pc[r] \in {"ocr", "pii_mask"} \cup Masked,
           next \in Masked \cup {"pii_mask", "raising"},
           next = "pii_mask" => t.mapping = {},
           next \in Masked =>
              /\ t.mapping = MappingsOf(r)
              /\ doc[r] \in PiiDocuments =>
                    \A m \in piiMappings : m.document # doc[r],
           \A x \in t.extraction : x.id = r /\ x.document = doc[r]
    PROVE  PiiInv'
  <1>1. /\ Goto(r, next, c, t) /\ LocksOf(r) /\ pc[r] # "committed"
        /\ pc[r] \in Masked => docLock[doc[r]] = {r}
    BY DEF StepReturns, StepGoesOn, LocksOf, Masked, PiiInv, PiiRun
  <1>2. docLock'[doc[r]] = {r}
    BY <1>1 DEF StepReturns, StepGoesOn, LockDocument, RunTypeOK
  <1>3. /\ pc'[r] = next /\ tx'[r] = t /\ doc'[r] = doc[r]
        /\ piiMappings' = piiMappings
    BY <1>1 DEF Goto, RunTypeOK, tables
  <1>4. PiiRun(r)'
    BY <1>2, <1>3 DEF PiiRun, Committed, MappingsOf, Masked
  <1>. QED BY <1>1, <1>4, PiiOthers

\* What is known of a run that has masked its document.
LEMMA PiiMasked ==
    ASSUME RunTypeOK, PiiInv, NEW r \in Runs, pc[r] \in Masked
    PROVE  /\ tx[r].mapping = MappingsOf(r)
           /\ doc[r] \in PiiDocuments =>
                 \A m \in piiMappings : m.document # doc[r]
           /\ docLock[doc[r]] = {r}
           /\ \A x \in tx[r].extraction : x.id = r /\ x.document = doc[r]
  BY DEF PiiInv, PiiRun

\* A run that loses its transaction gives up its mapping and its lock.
LEMMA PiiDiscard ==
    ASSUME RunTypeOK, PiiInv, NEW r \in Runs, Doomed(r) \/ Discard(r),
           pc[r] # "committed"
    PROVE  PiiInv'
  <1>1. PICK next \in {"raising", "aborted"} :
           /\ Goto(r, next, ctx[r], NoWrites)
           /\ docLock' = [docLock EXCEPT ![doc[r]] = @ \ {r}]
    BY DEF Doomed, Discard
  <1>2. /\ pc'[r] = next /\ tx'[r] = NoWrites
        /\ NoWrites.mapping = {} /\ NoWrites.extraction = {}
    BY <1>1 DEF Goto, RunTypeOK, NoWrites
  <1>3. PiiRun(r)'
    BY <1>2 DEF PiiRun, Committed, Masked
  <1>. QED
    BY <1>1, <1>3, PiiOthers DEF LocksOf

\* A run that masks carries the only mapping of its document.
LEMMA PiiMasking ==
    ASSUME RunTypeOK, PiiInv, NEW r \in Runs, OCR(r) \/ StepPIIMask(r)
    PROVE  PiiInv'
  <1> USE DEF Masked
  <1>1. pc[r] \in {"ocr", "pii_mask"} =>
           /\ tx[r].mapping = {}
           /\ \A x \in tx[r].extraction : x.id = r /\ x.document = doc[r]
    BY DEF PiiInv, PiiRun
  <1>2. tx[r] \in Transaction
    BY FieldTypes
  <1>3. CASE OCR(r)
    <2> DEFINE t == [tx[r] EXCEPT !.status = "ocr_complete"]
    <2>1. t.mapping = tx[r].mapping /\ t.extraction = tx[r].extraction
      BY <1>2 DEF Transaction
    <2>2. StepReturns(r, "pii_mask", ctx[r], t) /\ pc[r] = "ocr"
      BY <1>3 DEF OCR
    <2> HIDE DEF t
    <2>. QED BY <1>1, <2>1, <2>2, PiiStep
  <1>4. CASE MaskClean(r)
    <2> DEFINE t == [tx[r] EXCEPT !.status = "masked"]
    <2>1. t.mapping = tx[r].mapping /\ t.extraction = tx[r].extraction
      BY <1>2 DEF Transaction
    <2>2. StepReturns(r, "llm_extract", ctx[r], t) /\ pc[r] = "pii_mask"
          /\ doc[r] \notin PiiDocuments
      BY <1>4 DEF MaskClean
    <2>3. t.mapping = MappingsOf(r)
      BY <1>1, <2>1, <2>2 DEF MappingsOf
    <2>4. \A x \in t.extraction : x.id = r /\ x.document = doc[r]
      BY <1>1, <2>1, <2>2
    <2> HIDE DEF t
    <2>. QED BY <2>2, <2>3, <2>4, PiiStep
  <1>5. CASE MaskPii(r)
    <2> DEFINE row == [id |-> r, document |-> doc[r]]
               t == [tx[r] EXCEPT !.status = "masked", !.mapping = {row}]
               c == [ctx[r] EXCEPT !.pii_mapping_id = TRUE]
    <2>1. t.mapping = MappingsOf(r) /\ t.extraction = tx[r].extraction
      BY <1>2, <1>5 DEF Transaction, MappingsOf, MaskPii
    <2>2. /\ StepReturns(r, "llm_extract", c, t) /\ pc[r] = "pii_mask"
          /\ \A m \in piiMappings : m.document # doc[r]
      BY <1>5 DEF MaskPii
    <2> HIDE DEF t, c
    <2>. QED BY <1>1, <2>1, <2>2, PiiStep
  <1>6. CASE MappingExists(r)
    BY <1>6, PiiDiscard DEF MappingExists
  <1>. QED BY <1>3, <1>4, <1>5, <1>6 DEF StepPIIMask

\* The rows with their real values or their risk level are still the rows of
\* the run.
LEMMA PiiRows ==
    ASSUME RunTypeOK, PiiInv, NEW r \in Runs, pc[r] \in Masked
    PROVE  /\ \A x \in RowUnmasked(r) : x.id = r /\ x.document = doc[r]
           /\ \A level \in RiskLevel : \A x \in RowWithRisk(r, level) :
                 x.id = r /\ x.document = doc[r]
  <1>1. tx[r].extraction \subseteq ExtractionResult
    BY FieldTypes DEF Transaction
  <1>2. \A x \in RowUnmasked(r) : x.id = r /\ x.document = doc[r]
    BY <1>1, PiiMasked DEF RowUnmasked, ExtractionResult
  <1>3. \A level \in RiskLevel : \A x \in RowWithRisk(r, level) :
           x.id = r /\ x.document = doc[r]
    BY <1>1, PiiMasked DEF RowWithRisk, ExtractionResult
  <1>. QED BY <1>2, <1>3

\* Extraction, unmasking and normalisation keep the mapping and only touch the
\* row of the run.
LEMMA PiiExtracting ==
    ASSUME RunTypeOK, PiiInv, NEW r \in Runs,
           StepLLMExtract(r) \/ StepUnmask(r) \/ StepNormalize(r)
    PROVE  PiiInv'
  <1> USE DEF Masked
  <1>1. tx[r] \in Transaction
    BY FieldTypes
  <1>2. CASE LLMExtract(r)
    <2> DEFINE row == [id |-> r, document |-> doc[r], data |-> Extracted(r),
                       validation_status |-> "passed", risk_level |-> "low"]
               t == [tx[r] EXCEPT !.status = "extracted", !.extraction = {row}]
               c == [ctx[r] EXCEPT !.extraction_result = Extracted(r),
                                   !.extraction_db_id = TRUE]
    <2>1. t.mapping = tx[r].mapping /\ t.extraction = {row}
      BY <1>1 DEF Transaction
    <2>2. StepReturns(r, "unmask", c, t) /\ pc[r] = "llm_extract"
      BY <1>2 DEF LLMExtract
    <2>3. row.id = r /\ row.document = doc[r]
      OBVIOUS
    <2> HIDE DEF row, t, c
    <2>. QED BY <2>1, <2>2, <2>3, PiiStep, PiiMasked
  <1>3. CASE LLMFails(r)
    BY <1>3, PiiStep, PiiMasked DEF LLMFails
  <1>4. CASE LLMResultNotStored(r)
    BY <1>4, PiiStep, PiiMasked DEF LLMResultNotStored
  <1>5. CASE UnmaskSkipped(r)
    BY <1>5, PiiStep, PiiMasked DEF UnmaskSkipped
  <1>6. CASE Unmask(r)
    <2> DEFINE rows == RowUnmasked(r)
               t == [tx[r] EXCEPT !.extraction = rows]
    <2>2. \A x \in rows : x.id = r /\ x.document = doc[r]
      BY <1>6, PiiRows DEF Unmask
    <2>3. t.mapping = tx[r].mapping /\ t.extraction = rows
      BY <1>1 DEF Transaction
    <2>4. StepGoesOn(r, "normalize",
                     [ctx[r] EXCEPT !.extraction_result = "real"], t)
      BY <1>6 DEF Unmask
    <2>5. pc[r] \in Masked
      BY <1>6 DEF Unmask
    <2> HIDE DEF rows, t
    <2>. QED BY <2>2, <2>3, <2>4, <2>5, PiiStep, PiiMasked
  <1>7. CASE UnmaskFails(r)
    BY <1>7, PiiStep, PiiMasked DEF UnmaskFails
  <1>8. CASE StepNormalize(r)
    BY <1>8, PiiStep, PiiMasked DEF StepNormalize
  <1>. QED
    BY <1>2, <1>3, <1>4, <1>5, <1>6, <1>7, <1>8 DEF StepLLMExtract, StepUnmask

\* So do validation, risk detection, the end of a run and the failures in it.
LEMMA PiiAssessing ==
    ASSUME RunTypeOK, PiiInv, NEW r \in Runs,
           \/ StepValidate(r) \/ StepRisk(r) \/ Conclude(r) \/ WriteAudit(r)
           \/ CriticalStepFails(r) \/ SoftLimitInStep(r)
    PROVE  PiiInv'
  <1> USE DEF Masked
  <1>1. tx[r] \in Transaction
    BY FieldTypes
  <1>2. CASE ValidateSkipped(r)
    BY <1>1, <1>2, PiiStep, PiiMasked DEF ValidateSkipped, Transaction
  <1>3. CASE Validate(r)
    BY <1>3, PiiStep, PiiMasked DEF Validate
  <1>4. CASE RiskSkipped(r)
    BY <1>1, <1>4, PiiStep, PiiMasked DEF RiskSkipped, Transaction
  <1>5. CASE DetectRisk(r)
    <2>1. PICK level \in RiskLevel :
            StepReturns(r, "conclude", [ctx[r] EXCEPT !.risk_assessment = level],
                        [tx[r] EXCEPT !.status = "validated",
                                      !.extraction = RowWithRisk(r, level),
                                      !.task = TaskFor(r, level)])
      BY <1>5 DEF DetectRisk
    <2> DEFINE t == [tx[r] EXCEPT !.status = "validated",
                                  !.extraction = RowWithRisk(r, level),
                                  !.task = TaskFor(r, level)]
    <2>2. t.mapping = tx[r].mapping /\ t.extraction = RowWithRisk(r, level)
      BY <1>1 DEF Transaction
    <2>3. pc[r] \in Masked
      BY <1>5 DEF DetectRisk
    <2>4. StepReturns(r, "conclude",
                      [ctx[r] EXCEPT !.risk_assessment = level], t)
      BY <2>1
    <2> HIDE DEF t
    <2>. QED BY <2>2, <2>3, <2>4, PiiStep, PiiMasked, PiiRows
  <1>6. CASE Conclude(r)
    BY <1>1, <1>6, PiiStep, PiiMasked DEF Conclude, Transaction
  <1>7. CASE WriteAudit(r)
    BY <1>1, <1>7, PiiStep, PiiMasked DEF WriteAudit, Transaction
  <1>8. CASE CriticalStepFails(r)
    <2>1. \A x \in tx[r].extraction : x.id = r /\ x.document = doc[r]
      BY DEF PiiInv, PiiRun
    <2> DEFINE event == [run |-> r, step |-> pc[r], status |-> "failure"]
               t == [tx[r] EXCEPT !.status = "failed", !.audit = {event}]
               c == [ctx[r] EXCEPT !.final_status = "failed"]
    <2>2. t.extraction = tx[r].extraction
      BY <1>1 DEF Transaction
    <2>3. StepReturns(r, "raising", c, t) /\ pc[r] \in {"ocr", "pii_mask"}
      BY <1>8 DEF CriticalStepFails
    <2> HIDE DEF t, c
    <2>. QED BY <2>1, <2>2, <2>3, PiiStep
  <1>9. CASE SoftLimitInStep(r)
    <2> DEFINE c == [ctx[r] EXCEPT !.limit_spent = TRUE]
    <2>1. CASE LimitInLLMExtract(r, c)
      <3> DEFINE row == [id |-> r, document |-> doc[r], data |-> Extracted(r),
                         validation_status |-> "passed", risk_level |-> "low"]
                 t == [tx[r] EXCEPT !.extraction = {row}]
      <3>1. t.mapping = tx[r].mapping /\ t.extraction = {row}
        BY <1>1 DEF Transaction
      <3>2. row.id = r /\ row.document = doc[r]
        OBVIOUS
      <3> HIDE DEF c
      <3>3. PICK c2 : StepGoesOn(r, "unmask", c2, tx[r])
                      \/ StepGoesOn(r, "unmask", c2, t)
        BY <2>1 DEF LimitInLLMExtract
      <3>4. pc[r] \in Masked
        BY <2>1 DEF LimitInLLMExtract
      <3> HIDE DEF row, t
      <3>. QED BY <3>1, <3>2, <3>3, <3>4, PiiStep, PiiMasked
    <2>2. CASE LimitInUnmask(r, c)
      <3> DEFINE t == [tx[r] EXCEPT !.extraction = RowUnmasked(r)]
      <3>1. t.mapping = tx[r].mapping /\ t.extraction = RowUnmasked(r)
        BY <1>1 DEF Transaction
      <3>2. \A row_too \in BOOLEAN :
               [tx[r] EXCEPT !.extraction = IF row_too THEN RowUnmasked(r) ELSE @]
                 \in {tx[r], t}
        BY <1>1 DEF Transaction
      <3> DEFINE written(row_too) ==
                   [tx[r] EXCEPT !.extraction =
                       IF row_too THEN RowUnmasked(r) ELSE @]
      <3> HIDE DEF t
      <3>3. PICK c2 : StepGoesOn(r, "normalize", c2, tx[r])
                      \/ StepGoesOn(r, "normalize", c2, t)
        <4> HIDE DEF c
        <4>1. \/ \E c2 : StepGoesOn(r, "normalize", c2, tx[r])
              \/ \E c2 : \E row_too \in BOOLEAN :
                    StepGoesOn(r, "normalize", c2, written(row_too))
          BY <2>2 DEF LimitInUnmask
        <4> HIDE DEF written
        <4>2. \A row_too \in BOOLEAN : written(row_too) \in {tx[r], t}
          BY <3>2 DEF written
        <4>. QED BY <4>1, <4>2
      <3>4. pc[r] \in Masked
        BY <2>2 DEF LimitInUnmask
      <3>. QED BY <3>1, <3>3, <3>4, PiiStep, PiiMasked, PiiRows
    <2>3. CASE LimitInRisk(r, c)
      <3>1. pc[r] \in Masked
        BY <2>3 DEF LimitInRisk
      <3>2. ASSUME NEW c2, StepGoesOn(r, "conclude", c2, tx[r])
            PROVE  PiiInv'
        BY <3>1, <3>2, PiiStep, PiiMasked
      <3>3. ASSUME NEW c2, NEW level \in RiskLevel, NEW tasks,
                   NEW t, t = [tx[r] EXCEPT !.extraction = RowWithRisk(r, level),
                                            !.task = tasks],
                   StepGoesOn(r, "conclude", c2, t)
            PROVE  PiiInv'
        <4>1. t.mapping = tx[r].mapping /\ t.extraction = RowWithRisk(r, level)
          BY <1>1, <3>3 DEF Transaction
        <4>2. \A x \in t.extraction : x.id = r /\ x.document = doc[r]
          BY <3>1, <4>1, PiiRows
        <4>3. StepGoesOn(r, "conclude", c2, t)
          BY <3>3
        <4>. QED BY <3>1, <4>1, <4>2, <4>3, PiiStep, PiiMasked
      <3>. QED BY <2>3, <3>2, <3>3 DEF LimitInRisk
    <2>4. ASSUME NEW next \in {"validate", "risk_detect"},
                 StepGoesOn(r, next, c, tx[r]), pc[r] \in {"normalize", "validate"}
          PROVE  PiiInv'
      BY <2>4, PiiStep, PiiMasked
    <2>. QED BY <1>9, <2>1, <2>2, <2>3, <2>4 DEF SoftLimitInStep
  <1>. QED
    BY <1>2, <1>3, <1>4, <1>5, <1>6, <1>7, <1>8, <1>9
       DEF StepValidate, StepRisk

\* The commit adds the first and only mapping of a document with PII: the row
\* lock keeps out every other run that could have added one.
LEMMA PiiCommit ==
    ASSUME RunTypeOK, PiiInv, NEW r \in Runs, Commit(r)
    PROVE  PiiInv'
  <1>1. /\ pc[r] \in Masked
        /\ piiMappings' = piiMappings \cup tx[r].mapping
        /\ extractions' = extractions \cup tx[r].extraction
        /\ doc' = doc
    BY DEF Commit, Masked
  <1>2. /\ tx[r].mapping = MappingsOf(r)
        /\ doc[r] \in PiiDocuments => \A m \in piiMappings : m.document # doc[r]
        /\ docLock[doc[r]] = {r}
        /\ \A x \in tx[r].extraction : x.id = r /\ x.document = doc[r]
    BY <1>1, PiiMasked
  <1>3. /\ pc'[r] = "committed"
        /\ tx'[r].mapping = {} /\ tx'[r].extraction = {}
        /\ \A q \in Runs \ {r} : pc'[q] = pc[q] /\ tx'[q] = tx[q]
    BY DEF Commit, RunTypeOK, NoWrites
  <1>4. ASSUME NEW q \in Runs PROVE PiiRun(q)'
    <2>1. CASE q = r
      BY <1>1, <1>2, <1>3, <2>1 DEF PiiRun, Committed, MappingsOf, Masked
    <2>2. CASE q # r
      <3>1. PiiRun(q) /\ pc'[q] = pc[q] /\ tx'[q] = tx[q]
        BY <1>3, <2>2 DEF PiiInv
      <3>2. docLock[doc[q]] = {q} => docLock'[doc[q]] = {q}
        BY <2>2 DEF Commit, RunTypeOK
      <3>3. docLock[doc[q]] = {q} =>
               \A m \in tx[r].mapping : m.document # doc[q]
        BY <1>2, <2>2 DEF MappingsOf
      <3>. QED
        BY <1>1, <3>1, <3>2, <3>3 DEF PiiRun, Committed, MappingsOf
    <2>. QED BY <2>1, <2>2
  <1>5. PiiTables'
    <2>1. ASSUME NEW m1 \in piiMappings', NEW m2 \in piiMappings',
                 m1.document = m2.document
          PROVE  m1 = m2
      BY <1>1, <1>2, <2>1 DEF PiiInv, PiiTables, MappingsOf
    <2>2. ASSUME NEW x \in extractions'
          PROVE  x.document = doc[x.id] /\ pc'[x.id] = "committed"
      BY <1>1, <1>2, <1>3, <2>2
         DEF PiiInv, PiiTables, Committed, RunTypeOK, ExtractionResult
    <2>3. ASSUME NEW d \in PiiDocuments, docStatus'[d] \in FinalStatus
          PROVE  \E m \in piiMappings' : m.document = d
      <3>1. CASE d = doc[r]
        <4> DEFINE row == [id |-> r, document |-> doc[r]]
        <4>1. row \in piiMappings'
          BY <1>1, <1>2, <3>1 DEF MappingsOf
        <4>2. row.document = d
          BY <3>1
        <4>. QED BY <4>1, <4>2
      <3>2. CASE d # doc[r]
        <4>1. docStatus'[d] = docStatus[d]
          BY <3>2, PipelineAssumption DEF Commit, RunTypeOK
        <4>. QED BY <1>1, <2>3, <4>1 DEF PiiInv, PiiTables
      <3>. QED BY <3>1, <3>2
    <2>. QED BY <1>1, <2>1, <2>2, <2>3 DEF PiiTables, Committed
  <1>. QED BY <1>4, <1>5 DEF PiiInv

\* A run that begins has written nothing.
LEMMA PiiBegin ==
    ASSUME RunTypeOK, PiiInv, NEW r \in Runs, Begin(r)
    PROVE  PiiInv'
  <1>1. /\ pc[r] = "idle" /\ pc'[r] \in {"raising", "ocr"}
        /\ \A q \in Runs \ {r} : pc'[q] = pc[q]
        /\ UNCHANGED <<tables, docLock, doc, tx>>
    BY DEF Begin, RunTypeOK
  <1>2. ASSUME NEW q \in Runs PROVE PiiRun(q)'
    <2>1. PiiRun(q)
      BY DEF PiiInv
    <2>. QED
      BY <1>1, <2>1 DEF PiiRun, Committed, MappingsOf, Masked, tables
  <1>3. PiiTables'
    BY <1>1 DEF PiiInv, PiiTables, Committed, tables, RunTypeOK, ExtractionResult
  <1>. QED BY <1>2, <1>3 DEF PiiInv

\* No step of any run breaks the invariant, whatever fails.
LEMMA PiiNext ==
    ASSUME RunTypeOK, PiiInv, [Next]_vars
    PROVE  PiiInv'
  <1>1. CASE UNCHANGED vars
    BY <1>1 DEF vars, PiiInv, PiiTables, PiiRun, Committed, MappingsOf
  <1>2. ASSUME NEW d \in Documents, UploadCommits(d) PROVE PiiInv'
    <2>1. ASSUME NEW e \in PiiDocuments, docStatus'[e] \in FinalStatus
          PROVE  docStatus[e] \in FinalStatus
      BY <1>2, <2>1, PipelineAssumption
         DEF UploadCommits, RunTypeOK, FinalStatus
    <2>. QED
      BY <1>2, <2>1
         DEF UploadCommits, PiiInv, PiiTables, PiiRun, Committed, MappingsOf
  <1>3. ASSUME NEW r \in Runs, Step(r) PROVE PiiInv'
    BY <1>3, PiiMasking, PiiExtracting, PiiAssessing, PiiCommit, PiiDiscard
       DEF Step, Rollback
  <1>4. ASSUME NEW r \in Runs,
               RunRaises(r) \/ SoftLimitInStep(r) \/ WorkerLost(r)
        PROVE  PiiInv'
    BY <1>4, PiiDiscard, PiiAssessing
       DEF RunRaises, WorkerLost, Active, Steps, CriticalSteps
  <1>. QED BY <1>1, <1>2, <1>3, <1>4, PiiBegin DEF Next

\* No document with PII is settled, and nothing is stored, at the beginning.
LEMMA PiiInit == Init => PiiInv
  BY PipelineAssumption
     DEF Init, PiiInv, PiiTables, PiiRun, Masked, Committed, NoWrites,
         FinalStatus, Absent

\* The invariant behind the next three theorems is inductive together with the
\* types, whatever fails.
THEOREM PiiInvariant == Spec => []PiiInv
  BY PiiInit, PiiNext, RunTypes, PTL DEF Spec

\* Two runs of a document with PII that have committed have the same mapping.
LEMMA OneMapping == PiiInv => PiiProcessedOnce
  <1> SUFFICES ASSUME PiiInv, NEW r1 \in Runs, NEW r2 \in Runs,
                      Committed(r1), Committed(r2),
                      doc[r1] = doc[r2], doc[r1] \in PiiDocuments
               PROVE  r1 = r2
    BY DEF PiiProcessedOnce
  <1> DEFINE m1 == [id |-> r1, document |-> doc[r1]]
             m2 == [id |-> r2, document |-> doc[r2]]
  <1>1. m1 \in piiMappings /\ m2 \in piiMappings
    BY DEF PiiInv, PiiRun, MappingsOf
  <1>2. m1.document = m2.document
    OBVIOUS
  <1>3. m1 = m2
    BY <1>1, <1>2 DEF PiiInv, PiiTables
  <1>4. m1.id = r1 /\ m2.id = r2
    OBVIOUS
  <1>. QED BY <1>3, <1>4

\* Of all the runs of a document with PII, one at most commits.
THEOREM OneCommit == Spec => []PiiProcessedOnce
  BY OneMapping, PiiInvariant, PTL

\* The stored extraction and the stored mapping come from the same run.
THEOREM Reversible == Spec => []ExtractionIsReversible
  <1>1. RunTypeOK /\ PiiInv => ExtractionIsReversible
    <2> SUFFICES ASSUME RunTypeOK, PiiInv, NEW x \in extractions,
                        x.document \in PiiDocuments
                 PROVE  \E m \in piiMappings :
                           m.document = x.document /\ m.id = x.id
      BY DEF ExtractionIsReversible
    <2>1. x.id \in Runs /\ x.document = doc[x.id] /\ Committed(x.id)
      BY DEF PiiInv, PiiTables, RunTypeOK, ExtractionResult
    <2>2. [id |-> x.id, document |-> x.document] \in piiMappings
      BY <2>1 DEF PiiInv, PiiRun, MappingsOf
    <2>. QED BY <2>2
  <1>. QED BY <1>1, RunTypes, PiiInvariant, PTL

\* No step of a run touches the status of a document with PII once its mapping
\* is there, and a commit is of another document.
LEMMA SettledStep ==
    ASSUME RunTypeOK, PiiInv, Next, NEW d \in PiiDocuments,
           \E m \in piiMappings : m.document = d, docStatus[d] # Absent
    PROVE  /\ docStatus'[d] = docStatus[d]
           /\ \A r \in Runs : Commit(r) => doc[r] # d
  <1>1. ASSUME NEW e \in Documents, UploadCommits(e)
        PROVE  docStatus'[d] = docStatus[d]
    BY <1>1, PipelineAssumption DEF UploadCommits, RunTypeOK
  <1>2. ASSUME NEW r \in Runs, Commit(r)
        PROVE  docStatus'[d] = docStatus[d] /\ doc[r] # d
    <2>1. doc[r] # d
      BY <1>2, PiiMasked DEF Commit, Masked
    <2>. QED BY <1>2, <2>1, PipelineAssumption DEF Commit, RunTypeOK
  <1>3. ASSUME NEW r \in Runs, \/ Begin(r) \/ RunRaises(r)
                               \/ SoftLimitInStep(r) \/ WorkerLost(r)
                               \/ Step(r) /\ ~Commit(r)
        PROVE  docStatus' = docStatus
    BY <1>3
       DEF Begin, tables, RunRaises, SoftLimitInStep, LimitInLLMExtract,
           LimitInUnmask, LimitInRisk, WorkerLost, Discard, Doomed, Rollback, Goto, StepReturns, StepGoesOn, Step, OCR,
           StepPIIMask, MaskClean, MaskPii, MappingExists, StepLLMExtract,
           LLMExtract, LLMFails, LLMResultNotStored, StepUnmask,
           UnmaskSkipped, Unmask, UnmaskFails, StepNormalize, StepValidate,
           ValidateSkipped, Validate, StepRisk, RiskSkipped, DetectRisk,
           Conclude, WriteAudit, CriticalStepFails
  <1>. QED BY <1>1, <1>2, <1>3 DEF Next

\* The settled status of a document with PII outlives every redelivery.
THEOREM SettledStays == Spec => SettledPiiIsFinal
  <1> DEFINE Stays == \A d \in PiiDocuments : docStatus[d] \in FinalStatus =>
                         docStatus'[d] = docStatus[d]
  <1>1. RunTypeOK /\ PiiInv /\ [Next]_vars => [Stays]_vars
    BY SettledStep DEF PiiInv, PiiTables, FinalStatus, Absent
  <1>. QED
    BY <1>1, RunTypes, PiiInvariant, PTL DEF Spec, SettledPiiIsFinal
=============================================================================

---------------------------- MODULE OutcomeProofs ----------------------------
(***************************************************************************)
(* What a run of the pipeline leaves behind agrees with itself: status,    *)
(* audit event, extraction, risk and review task.  From that, the          *)
(* interleaved runs implement the single steps of AtomicProcessing.        *)
(***************************************************************************)
EXTENDS PipelineProofs

-----------------------------------------------------------------------------
(***************************************************************************)
(* What the steps of the runs have in common.                              *)
(***************************************************************************)

\* Agrees is about one run: nothing but what it is given and the document of
\* the run matters.
LEMMA AgreesIsLocal ==
    ASSUME NEW q \in Runs, NEW p, NEW c, NEW t,
           pc'[q] = p, ctx'[q] = c, tx'[q] = t, doc' = doc,
           Agrees(q, p, c, t)
    PROVE  Agrees(q, pc[q], ctx[q], tx[q])'
  <1>1. RowAgrees(q, pc[q], ctx[q], tx[q])'
    BY DEF Agrees, RowAgrees, Abstract!RowOf, LevelOf, DisturbedIn
  <1>2. MaskAgrees(q, pc[q], ctx[q])'
    BY DEF Agrees, MaskAgrees, DisturbedIn
  <1>3. RiskAgrees(q, pc[q], ctx[q], tx[q])'
    BY DEF Agrees, RiskAgrees, TaskFor, LevelOf, DisturbedIn
  <1>4. StatusAgrees(q, pc[q], ctx[q], tx[q])'
    BY DEF Agrees, StatusAgrees, FinalStatusOf, Abstract!EventOf
  <1>. QED BY <1>1, <1>2, <1>3, <1>4 DEF Agrees

\* Whoever committed a row is still there, with its context, after a step of
\* another run.
LEMMA CommittedStays ==
    ASSUME RunTypeOK, NEW r \in Runs, NEW next, NEW c, NEW t,
           Goto(r, next, c, t), pc[r] # "committed", next # "committed"
    PROVE  /\ \A q \in Runs : Committed(q)' <=> Committed(q)
           /\ \A q \in Runs : Committed(q) => ctx'[q] = ctx[q]
           /\ UNCHANGED <<tables, doc>>
  BY DEF Goto, RunTypeOK, Committed

\* A step that commits nothing changes nothing in what the tables tell.
LEMMA TablesStay ==
    ASSUME RunTypeOK, PiiInv, OutcomeInv, NEW r \in Runs, NEW next, NEW c, NEW t,
           Goto(r, next, c, t), pc[r] # "committed", next # "committed"
    PROVE  /\ OutcomeTables'
           /\ OutcomeIsAudited' /\ FlaggedHasTask' /\ MaskedMeansFailed'
           /\ ValidatedAwaitsReview' /\ ClearedWasAssessed'
  <1>1. /\ \A q \in Runs : Committed(q)' <=> Committed(q)
        /\ \A q \in Runs : Committed(q) => ctx'[q] = ctx[q]
        /\ UNCHANGED <<tables, doc>>
    BY CommittedStays
  <1>2. /\ \A m \in piiMappings : m.id \in Runs
        /\ \A x \in extractions : x.id \in Runs /\ Committed(x.id)
        /\ \A e \in auditLog : e.run \in Runs
    BY DEF RunTypeOK, PIIMapping, ExtractionResult, AuditEvent, PiiInv, PiiTables
  <1>3. OutcomeTables'
    BY <1>1, <1>2 DEF OutcomeInv, OutcomeTables, tables
  <1>4. OutcomeIsAudited'
    BY <1>1 DEF OutcomeInv, OutcomeIsAudited, tables
  <1>5. FlaggedHasTask' /\ MaskedMeansFailed'
    BY <1>1, <1>2
       DEF OutcomeInv, FlaggedHasTask, MaskedMeansFailed, Disturbed, tables
  <1>6. \A d \in Documents : Undisturbed(d)' <=> Undisturbed(d)
    BY <1>1 DEF Undisturbed, Disturbed
  <1>7. \A d \in Documents : Assessed(d) => Assessed(d)'
    BY <1>1 DEF Assessed, tables
  <1>8. ValidatedAwaitsReview' /\ ClearedWasAssessed'
    BY <1>1, <1>6, <1>7
       DEF OutcomeInv, ValidatedAwaitsReview, ClearedWasAssessed, tables
  <1>. QED BY <1>3, <1>4, <1>5, <1>8

\* A step of r that commits nothing and leaves the run in agreement.
KeepsAgreement(r) ==
    \E next, c, t :
        /\ Goto(r, next, c, t)
        /\ pc[r] # "committed" /\ next # "committed"
        /\ next \in Underway => docStatus[doc[r]] # Absent
        /\ Agrees(r, next, c, t)

\* Such a step need only look at its own run.
LEMMA RunsStep ==
    ASSUME RunTypeOK, RunsInv, NEW r \in Runs, KeepsAgreement(r)
    PROVE  RunsInv'
  <1>1. PICK next, c, t :
          /\ Goto(r, next, c, t)
          /\ next \in Underway => docStatus[doc[r]] # Absent
          /\ Agrees(r, next, c, t)
    BY DEF KeepsAgreement
  <1>2. doc' = doc /\ docStatus' = docStatus
    BY <1>1 DEF Goto, tables
  <1>3. ASSUME NEW q \in Runs
        PROVE  /\ Agrees(q, pc[q], ctx[q], tx[q])'
               /\ pc'[q] \in Underway => docStatus'[doc'[q]] # Absent
    <2>1. /\ Agrees(q, pc[q], ctx[q], tx[q])
          /\ pc[q] \in Underway => docStatus[doc[q]] # Absent
      BY DEF RunsInv
    <2>2. CASE q = r
      BY <1>1, <1>2, <2>2, AgreesIsLocal DEF Goto, RunTypeOK
    <2>3. CASE q # r
      <3>1. pc'[q] = pc[q] /\ ctx'[q] = ctx[q] /\ tx'[q] = tx[q]
        BY <1>1, <2>3 DEF Goto, RunTypeOK
      <3>. QED BY <1>2, <2>1, <3>1, AgreesIsLocal
    <2>. QED BY <2>2, <2>3
  <1>4. Underway' = Underway
    OBVIOUS
  <1>. QED BY <1>3, <1>4 DEF RunsInv

\* It keeps the whole invariant.
LEMMA OutcomeStep ==
    ASSUME RunTypeOK, PiiInv, OutcomeInv, NEW r \in Runs, KeepsAgreement(r)
    PROVE  OutcomeInv'
  <1>1. PICK next, c, t :
          /\ Goto(r, next, c, t)
          /\ pc[r] # "committed" /\ next # "committed"
    BY DEF KeepsAgreement
  <1>. QED BY <1>1, TablesStay, RunsStep DEF OutcomeInv

\* In particular the steps of the pipeline, whose documents are there.
LEMMA GoesOnAgrees ==
    ASSUME RunTypeOK, RunsInv, NEW r \in Runs, NEW next, NEW c, NEW t,
           StepReturns(r, next, c, t) \/ StepGoesOn(r, next, c, t),
           pc[r] \in Underway, next # "committed",
           Agrees(r, next, c, t)
    PROVE  KeepsAgreement(r)
  <1>1. Goto(r, next, c, t) /\ docStatus[doc[r]] # Absent
    BY DEF StepReturns, StepGoesOn, RunsInv
  <1>2. pc[r] # "committed"
    BY DEF Underway, Masked
  <1>. QED BY <1>1, <1>2 DEF KeepsAgreement

\* A run between two steps has not disturbed the agreement.
LEMMA RunAgrees ==
    ASSUME RunsInv, NEW r \in Runs
    PROVE  Agrees(r, pc[r], ctx[r], tx[r])
  BY DEF RunsInv

\* Nothing is asked of a run that is going to roll back, or has.
LEMMA DiscardAgrees ==
    ASSUME RunTypeOK, RunsInv, NEW r \in Runs,
           Doomed(r) \/ Discard(r), pc[r] # "committed"
    PROVE  KeepsAgreement(r)
  <1>1. PICK next \in {"raising", "aborted"} : Goto(r, next, ctx[r], NoWrites)
    BY DEF Doomed, Discard
  <1>2. Agrees(r, next, ctx[r], NoWrites)
    BY RunAgrees DEF Agrees, RowAgrees, MaskAgrees, RiskAgrees, StatusAgrees, Masked,
           Steps, CriticalSteps
  <1>. QED BY <1>1, <1>2 DEF KeepsAgreement, Underway, Masked
-----------------------------------------------------------------------------
(***************************************************************************)
(* The steps.                                                              *)
(***************************************************************************)

\* The fields of the context and of the transaction have their types.
LEMMA ContextFields ==
    ASSUME RunTypeOK, NEW r \in Runs
    PROVE  /\ ctx[r] \in Context /\ tx[r] \in Transaction
           /\ ctx[r].risk_assessment \in {"none"} \cup RiskLevel
           /\ ctx[r].extraction_result \in {"none", "masked", "real"}
           /\ ctx[r].extraction_db_id \in BOOLEAN
           /\ ctx[r].key_usable \in BOOLEAN /\ ctx[r].limit_spent \in BOOLEAN
  BY FieldTypes DEF Context

\* A run that has no row agrees about it, if it has no result either or was
\* disturbed.
LEMMA WithoutRow ==
    ASSUME NEW r \in Runs, NEW p \in Underway, NEW c, NEW t,
           t.extraction = {}, t.task = {}, ~c.extraction_db_id,
           \/ c.extraction_result = "none"
           \/ DisturbedIn(c) /\ p \in Masked \ {"llm_extract"}
    PROVE  RowAgrees(r, p, c, t)
  <1>1. "low" \in RiskLevel /\ "real" \in {"masked", "real"}
    BY DEF RiskLevel
  <1>2. t.extraction \in {{}, Abstract!RowOf(r, doc[r], "low", "real")}
    OBVIOUS
  <1>. QED BY <1>1, <1>2 DEF RowAgrees, Underway, Masked

\* A run that has a row agrees about it, if the row has the level and the data
\* of the context or the run was disturbed.
LEMMA WithRow ==
    ASSUME NEW r \in Runs, NEW p \in Masked \ {"llm_extract"}, NEW c, NEW t,
           NEW level \in RiskLevel, NEW data \in {"masked", "real"},
           t.extraction = Abstract!RowOf(r, doc[r], level, data),
           c.extraction_result # "none", c.key_usable,
           t.task # {} => level = LevelOf(c),
           ~DisturbedIn(c) => /\ c.extraction_db_id
                              /\ level = LevelOf(c) /\ data = c.extraction_result
    PROVE  RowAgrees(r, p, c, t)
  <1>1. t.extraction # {}
    BY DEF Abstract!RowOf
  <1>2. /\ t.extraction \in {{}, Abstract!RowOf(r, doc[r], level, data)}
        /\ t.task # {} => level = LevelOf(c)
        /\ c.extraction_db_id /\ ~DisturbedIn(c)
              => level = LevelOf(c) /\ data = c.extraction_result
    OBVIOUS
  <1>. QED BY <1>1, <1>2 DEF RowAgrees, Masked

\* The row of a run that has one.
LEMMA RowOfRun ==
    ASSUME RunsInv, NEW r \in Runs, pc[r] \in Masked, tx[r].extraction # {}
    PROVE  \E level \in RiskLevel, data \in {"masked", "real"} :
              /\ tx[r].extraction = Abstract!RowOf(r, doc[r], level, data)
              /\ tx[r].task # {} => level = LevelOf(ctx[r])
              /\ ctx[r].extraction_db_id /\ ~DisturbedIn(ctx[r])
                    => level = LevelOf(ctx[r]) /\ data = ctx[r].extraction_result
  BY RunAgrees DEF Agrees, RowAgrees

\* OCR and masking come before there is anything to agree on but the key.
LEMMA MaskingAgrees ==
    ASSUME RunTypeOK, RunsInv, NEW r \in Runs,
           OCR(r) \/ StepPIIMask(r)
    PROVE  KeepsAgreement(r)
  <1> USE ContextFields, RunAgrees DEF Context, Transaction
  <1>1. CASE OCR(r)
    <2> DEFINE t == [tx[r] EXCEPT !.status = "ocr_complete"]
    <2>1. Agrees(r, "pii_mask", ctx[r], t)
      BY <1>1 DEF OCR, Agrees, RowAgrees, MaskAgrees, RiskAgrees, StatusAgrees,
                  Masked, Underway, Steps, CriticalSteps
    <2>. QED BY <1>1, <2>1, GoesOnAgrees DEF OCR, Underway
  <1>2. CASE MaskClean(r)
    <2> DEFINE t == [tx[r] EXCEPT !.status = "masked"]
    <2>1. RowAgrees(r, "llm_extract", ctx[r], t)
      <3>1. /\ ctx[r].extraction_result = "none" /\ ~ctx[r].extraction_db_id
            /\ t.extraction = {} /\ t.task = {}
        BY <1>2 DEF MaskClean, Agrees, RowAgrees, RiskAgrees, Steps, CriticalSteps
      <3>2. "llm_extract" \in Underway
        BY DEF Underway, Masked
      <3> HIDE ContextFields, RunAgrees DEF t, Context, Transaction
      <3>. QED BY <3>1, <3>2, WithoutRow
    <2>2. /\ pc[r] = "pii_mask" /\ doc[r] \notin PiiDocuments
          /\ ctx[r].extraction_result = "none" /\ t.task = {}
          /\ ctx[r].risk_assessment = "none"
          /\ ctx[r].limit_spent => "soft_limit" \in Faults
      BY <1>2 DEF MaskClean, Agrees, RowAgrees, RiskAgrees, Steps, CriticalSteps
    <2> HIDE DEF t
    <2>3. Agrees(r, "llm_extract", ctx[r], t)
      BY <2>1, <2>2 DEF Agrees, MaskAgrees, RiskAgrees, StatusAgrees, Masked
    <2>. QED BY <1>2, <2>2, <2>3, GoesOnAgrees DEF MaskClean, Underway, t
  <1>3. CASE MaskPii(r)
    <2> DEFINE c == [ctx[r] EXCEPT !.pii_mapping_id = TRUE]
               row == [id |-> r, document |-> doc[r]]
               t == [tx[r] EXCEPT !.status = "masked", !.mapping = {row}]
    <2>1. StepReturns(r, "llm_extract", c, t) /\ pc[r] = "pii_mask"
          /\ ctx[r].key_usable
      BY <1>3 DEF MaskPii
    <2>2. t.extraction = tx[r].extraction /\ t.task = tx[r].task
      OBVIOUS
    <2>3. /\ c.pii_mapping_id /\ c.key_usable = ctx[r].key_usable
          /\ c.limit_spent = ctx[r].limit_spent
          /\ c.extraction_result = ctx[r].extraction_result
          /\ c.extraction_db_id = ctx[r].extraction_db_id
          /\ c.risk_assessment = ctx[r].risk_assessment
      OBVIOUS
    <2> HIDE DEF c, t
    <2>4. RowAgrees(r, "llm_extract", c, t)
      <3>1. /\ c.extraction_result = "none" /\ ~c.extraction_db_id
            /\ t.extraction = {} /\ t.task = {}
        BY <2>1, <2>2, <2>3
           DEF Agrees, RowAgrees, RiskAgrees, Steps, CriticalSteps
      <3>2. "llm_extract" \in Underway
        BY DEF Underway, Masked
      <3> HIDE ContextFields, RunAgrees DEF Context, Transaction
      <3>. QED BY <3>1, <3>2, WithoutRow
    <2>5. Agrees(r, "llm_extract", c, t)
      BY <2>1, <2>2, <2>3, <2>4
         DEF Agrees, RowAgrees, MaskAgrees, RiskAgrees, StatusAgrees, Masked,
             Steps, CriticalSteps, DisturbedIn
    <2>. QED BY <2>1, <2>5, GoesOnAgrees DEF Underway
  <1>4. CASE MappingExists(r)
    BY <1>4, DiscardAgrees DEF MappingExists
  <1>. QED BY <1>1, <1>2, <1>3, <1>4 DEF StepPIIMask

\* Unmasking the row keeps its level; a run that knows no row leaves it alone.
LEMMA UnmaskedRow ==
    ASSUME RunsInv, NEW r \in Runs, pc[r] = "unmask", tx[r].extraction # {}
    PROVE  \E level \in RiskLevel, data \in {"masked", "real"} :
              /\ RowUnmasked(r) = Abstract!RowOf(r, doc[r], level, data)
              /\ ctx[r].extraction_db_id => data = "real"
              /\ ctx[r].extraction_db_id /\ ~DisturbedIn(ctx[r])
                    => level = LevelOf(ctx[r])
  <1>1. PICK level \in RiskLevel, data \in {"masked", "real"} :
          /\ tx[r].extraction = Abstract!RowOf(r, doc[r], level, data)
          /\ ctx[r].extraction_db_id /\ ~DisturbedIn(ctx[r])
                => level = LevelOf(ctx[r])
    BY RowOfRun DEF Masked
  <1> DEFINE row(d) ==
        [id |-> r, document |-> doc[r], data |-> d,
         validation_status |-> "passed", risk_level |-> level]
  <1>2. [row(data) EXCEPT !.data = "real"] = row("real")
    OBVIOUS
  <1>3. tx[r].extraction = {row(data)}
    BY <1>1 DEF Abstract!RowOf
  <1> HIDE DEF row
  <1>4. RowUnmasked(r) = {row(IF ctx[r].extraction_db_id THEN "real" ELSE data)}
    BY <1>2, <1>3 DEF RowUnmasked
  <1>5. PICK d \in {"masked", "real"} :
          d = IF ctx[r].extraction_db_id THEN "real" ELSE data
    OBVIOUS
  <1>6. RowUnmasked(r) = Abstract!RowOf(r, doc[r], level, d)
    BY <1>4, <1>5 DEF Abstract!RowOf, row
  <1>. QED BY <1>1, <1>5, <1>6

\* Once the result is unmasked, with or without its row, the run agrees.
LEMMA UnmaskedAgrees ==
    ASSUME RunTypeOK, RunsInv, NEW r \in Runs, pc[r] = "unmask", NEW c, NEW t,
           ctx[r].extraction_result # "none", c.extraction_result = "real",
           c.extraction_db_id = ctx[r].extraction_db_id,
           c.risk_assessment = ctx[r].risk_assessment,
           c.key_usable = ctx[r].key_usable,
           DisturbedIn(ctx[r]) => DisturbedIn(c),
           \/ t.extraction = RowUnmasked(r)
           \/ t.extraction = tx[r].extraction /\ DisturbedIn(c),
           t.task = tx[r].task
    PROVE  RowAgrees(r, "normalize", c, t)
  <1>1. /\ t.task = {} /\ LevelOf(c) = LevelOf(ctx[r])
        /\ ~DisturbedIn(ctx[r]) => ctx[r].extraction_db_id
        /\ ctx[r].extraction_db_id => tx[r].extraction # {}
        /\ tx[r].extraction # {} => ctx[r].key_usable
    BY RunAgrees DEF Agrees, RowAgrees, RiskAgrees, Masked, Steps, LevelOf
  <1>2. "normalize" \in Underway /\ "normalize" \in Masked \ {"llm_extract"}
    BY DEF Underway, Masked
  <1>3. CASE tx[r].extraction = {}
    <2>1. t.extraction = {} /\ ~c.extraction_db_id /\ DisturbedIn(c)
      BY <1>1, <1>3 DEF RowUnmasked
    <2>. QED BY <1>1, <1>2, <2>1, WithoutRow
  <1>4. CASE tx[r].extraction # {} /\ t.extraction = RowUnmasked(r)
    <2>1. PICK level \in RiskLevel, data \in {"masked", "real"} :
            /\ RowUnmasked(r) = Abstract!RowOf(r, doc[r], level, data)
            /\ ctx[r].extraction_db_id => data = "real"
            /\ ctx[r].extraction_db_id /\ ~DisturbedIn(ctx[r])
                  => level = LevelOf(ctx[r])
      BY <1>4, UnmaskedRow
    <2>. QED BY <1>1, <1>2, <1>4, <2>1, WithRow
  <1>5. CASE tx[r].extraction # {} /\ t.extraction = tx[r].extraction
             /\ DisturbedIn(c)
    <2>1. PICK level \in RiskLevel, data \in {"masked", "real"} :
            tx[r].extraction = Abstract!RowOf(r, doc[r], level, data)
      BY <1>2, <1>5, RowOfRun DEF Masked
    <2>. QED BY <1>1, <1>2, <1>5, <2>1, WithRow
  <1>. QED BY <1>3, <1>4, <1>5

\* Extraction and unmasking: the row has the data of the context, and what is
\* still masked afterwards was reported.
LEMMA ExtractingAgrees ==
    ASSUME RunTypeOK, RunsInv, NEW r \in Runs,
           StepLLMExtract(r) \/ StepUnmask(r) \/ StepNormalize(r)
    PROVE  KeepsAgreement(r)
  <1> USE ContextFields, RunAgrees
      DEF Context, Transaction, Agrees, RowAgrees, MaskAgrees, RiskAgrees,
          StatusAgrees, Masked, Underway, Steps, CriticalSteps,
          DisturbedIn
  <1>1. CASE LLMExtract(r)
    <2> DEFINE c == [ctx[r] EXCEPT !.extraction_result = Extracted(r),
                                   !.extraction_db_id = TRUE]
               row == [id |-> r, document |-> doc[r], data |-> Extracted(r),
                       validation_status |-> "passed", risk_level |-> "low"]
               t == [tx[r] EXCEPT !.status = "extracted", !.extraction = {row}]
    <2>1. /\ Extracted(r) \in {"masked", "real"}
          /\ Extracted(r) = "masked" => doc[r] \in PiiDocuments
      BY DEF Extracted
    <2>2. pc[r] = "llm_extract" /\ ctx[r].key_usable
      BY <1>1 DEF LLMExtract
    <2>3. /\ c.extraction_result = Extracted(r) /\ c.extraction_db_id
          /\ c.risk_assessment = "none" /\ c.key_usable
          /\ c.pii_mapping_id = ctx[r].pii_mapping_id
          /\ c.limit_spent = ctx[r].limit_spent
          /\ t.extraction = {row} /\ t.task = {}
      BY <2>2
    <2>4. /\ {row} = Abstract!RowOf(r, doc[r], "low", Extracted(r))
          /\ LevelOf(c) = "low" /\ "low" \in RiskLevel
      BY <2>3 DEF Abstract!RowOf, LevelOf, RiskLevel
    <2> HIDE DEF row, c, t
    <2>5. RowAgrees(r, "unmask", c, t)
      <3>1. Extracted(r) # "none" /\ "unmask" \in Masked \ {"llm_extract"}
        BY <2>1
      <3> HIDE ContextFields, RunAgrees
          DEF Context, Transaction, Agrees, RowAgrees, MaskAgrees, RiskAgrees,
              StatusAgrees, Masked, Underway, Steps, CriticalSteps, DisturbedIn
      <3>. QED BY <2>1, <2>3, <2>4, <3>1, WithRow
    <2>6. Agrees(r, "unmask", c, t)
      BY <2>1, <2>2, <2>3, <2>5
    <2>. QED BY <1>1, <2>6, GoesOnAgrees DEF LLMExtract, row, c, t
  <1>2. CASE LLMFails(r)
    <2>1. Agrees(r, "unmask", ctx[r], tx[r])
      BY <1>2 DEF LLMFails
    <2>. QED BY <1>2, <2>1, GoesOnAgrees DEF LLMFails
  <1>3. CASE LLMResultNotStored(r)
    <2> DEFINE c == [ctx[r] EXCEPT !.extraction_result = Extracted(r)]
    <2>1. /\ ~c.extraction_db_id /\ DisturbedIn(c)
          /\ tx[r].extraction = {} /\ tx[r].task = {}
          /\ "unmask" \in Underway /\ "unmask" \in Masked \ {"llm_extract"}
      BY <1>3 DEF LLMResultNotStored
    <2>2. RowAgrees(r, "unmask", c, tx[r])
      <3> HIDE ContextFields, RunAgrees
          DEF c, Context, Transaction, Agrees, RowAgrees, MaskAgrees,
              RiskAgrees, StatusAgrees, Masked, Underway, Steps, CriticalSteps,
              DisturbedIn
      <3>. QED BY <2>1, WithoutRow
    <2>3. Agrees(r, "unmask", c, tx[r])
      BY <1>3, <2>2 DEF LLMResultNotStored, Extracted
    <2>. QED BY <1>3, <2>3, GoesOnAgrees DEF LLMResultNotStored
  <1>4. CASE UnmaskSkipped(r)
    <2>1. Agrees(r, "normalize", ctx[r], tx[r])
      BY <1>4 DEF UnmaskSkipped
    <2>. QED BY <1>4, <2>1, GoesOnAgrees DEF UnmaskSkipped
  <1>5. CASE Unmask(r)
    <2> DEFINE c == [ctx[r] EXCEPT !.extraction_result = "real"]
               t == [tx[r] EXCEPT !.extraction = RowUnmasked(r)]
    <2>1. pc[r] = "unmask" /\ ctx[r].extraction_result # "none"
      BY <1>5 DEF Unmask
    <2>2. /\ c.extraction_result = "real"
          /\ c.extraction_db_id = ctx[r].extraction_db_id
          /\ c.risk_assessment = ctx[r].risk_assessment
          /\ c.key_usable = ctx[r].key_usable
          /\ DisturbedIn(ctx[r]) => DisturbedIn(c)
          /\ t.extraction = RowUnmasked(r) /\ t.task = tx[r].task
      OBVIOUS
    <2>3. RowAgrees(r, "normalize", c, t)
      <3> HIDE ContextFields, RunAgrees
          DEF c, t, Context, Transaction, Agrees, RowAgrees, MaskAgrees,
              RiskAgrees, StatusAgrees, Masked, Underway, Steps, CriticalSteps,
              DisturbedIn
      <3>. QED BY <2>1, <2>2, UnmaskedAgrees
    <2>4. Agrees(r, "normalize", c, t)
      BY <2>1, <2>3
    <2>5. StepGoesOn(r, "normalize", c, t)
      BY <1>5 DEF Unmask
    <2> HIDE DEF c, t, Agrees
    <2>. QED BY <2>1, <2>4, <2>5, GoesOnAgrees
  <1>6. CASE UnmaskFails(r)
    <2> DEFINE c == [ctx[r] EXCEPT !.has_errors = TRUE]
    <2>1. Agrees(r, "normalize", c, tx[r])
      BY <1>6 DEF UnmaskFails, LevelOf
    <2>. QED BY <1>6, <2>1, GoesOnAgrees DEF UnmaskFails
  <1>7. CASE StepNormalize(r)
    <2>1. PICK failed \in BOOLEAN :
            StepGoesOn(r, "validate", [ctx[r] EXCEPT !.has_errors = @ \/ failed],
                       tx[r])
      BY <1>7 DEF StepNormalize
    <2> DEFINE c == [ctx[r] EXCEPT !.has_errors = @ \/ failed]
    <2>2. Agrees(r, "validate", c, tx[r])
      BY <1>7 DEF StepNormalize, LevelOf
    <2>. QED BY <1>7, <2>1, <2>2, GoesOnAgrees DEF StepNormalize
  <1>. QED
    BY <1>1, <1>2, <1>3, <1>4, <1>5, <1>6, <1>7 DEF StepLLMExtract, StepUnmask

\* Writing the level to the rows of a run leaves a row of that level.
LEMMA RatedRow ==
    ASSUME RunTypeOK, RunsInv, NEW r \in Runs, NEW level \in RiskLevel,
           pc[r] = "risk_detect", HasRow(r)
    PROVE  \E data \in {"masked", "real"} :
              /\ RowWithRisk(r, level) = Abstract!RowOf(r, doc[r], level, data)
              /\ ~DisturbedIn(ctx[r]) => data = ctx[r].extraction_result
  <1>1. PICK old \in RiskLevel, data \in {"masked", "real"} :
          /\ tx[r].extraction = Abstract!RowOf(r, doc[r], old, data)
          /\ ~DisturbedIn(ctx[r]) => data = ctx[r].extraction_result
    <2>1. pc[r] \in Masked /\ ctx[r].extraction_db_id /\ tx[r].extraction # {}
      BY RunAgrees DEF Agrees, RowAgrees, Masked, HasRow
    <2>. QED BY <2>1, RowOfRun
  <1> DEFINE row(l) ==
        [id |-> r, document |-> doc[r], data |-> data,
         validation_status |-> "passed", risk_level |-> l]
  <1>2. [row(old) EXCEPT !.risk_level = level] = row(level)
    OBVIOUS
  <1>3. tx[r].extraction = {row(old)}
    BY <1>1 DEF Abstract!RowOf
  <1> HIDE DEF row
  <1>4. RowWithRisk(r, level) = {row(level)}
    BY <1>2, <1>3 DEF RowWithRisk
  <1>. QED BY <1>1, <1>4 DEF Abstract!RowOf, row

\* Validation and risk detection: the level, the row and the task are written
\* together.
LEMMA AssessingAgrees ==
    ASSUME RunTypeOK, RunsInv, NEW r \in Runs,
           StepValidate(r) \/ StepRisk(r)
    PROVE  KeepsAgreement(r)
  <1> USE ContextFields, RunAgrees
      DEF Context, Transaction, Agrees, RowAgrees, MaskAgrees, RiskAgrees,
          StatusAgrees, Masked, Underway, Steps, CriticalSteps,
          DisturbedIn
  <1>1. CASE ValidateSkipped(r)
    <2> DEFINE t == [tx[r] EXCEPT !.status = "validated"]
    <2>1. Agrees(r, "risk_detect", ctx[r], t)
      BY <1>1 DEF ValidateSkipped
    <2>. QED BY <1>1, <2>1, GoesOnAgrees DEF ValidateSkipped
  <1>2. CASE Validate(r)
    <2>1. Agrees(r, "risk_detect", ctx[r], tx[r])
      BY <1>2 DEF Validate
    <2>. QED BY <1>2, <2>1, GoesOnAgrees DEF Validate
  <1>3. CASE RiskSkipped(r)
    <2> DEFINE t == [tx[r] EXCEPT !.status = "validated"]
    <2>1. Agrees(r, "conclude", ctx[r], t)
      BY <1>3 DEF RiskSkipped, HasRow
    <2>. QED BY <1>3, <2>1, GoesOnAgrees DEF RiskSkipped
  <1>4. CASE DetectRisk(r)
    <2>1. PICK level \in RiskLevel :
            StepReturns(r, "conclude", [ctx[r] EXCEPT !.risk_assessment = level],
                        [tx[r] EXCEPT !.status = "validated",
                                      !.extraction = RowWithRisk(r, level),
                                      !.task = TaskFor(r, level)])
      BY <1>4 DEF DetectRisk
    <2> DEFINE c == [ctx[r] EXCEPT !.risk_assessment = level]
               t == [tx[r] EXCEPT !.status = "validated",
                                  !.extraction = RowWithRisk(r, level),
                                  !.task = TaskFor(r, level)]
    <2>2. level # "none" /\ LevelOf(c) = level
      BY DEF RiskLevel, LevelOf
    <2>3. pc[r] = "risk_detect" /\ HasRow(r)
      BY <1>4 DEF DetectRisk
    <2>4. PICK data \in {"masked", "real"} :
            /\ RowWithRisk(r, level) = Abstract!RowOf(r, doc[r], level, data)
            /\ ~DisturbedIn(ctx[r]) => data = ctx[r].extraction_result
      BY <2>3, RatedRow
    <2>5. /\ c.extraction_result = ctx[r].extraction_result
          /\ c.extraction_db_id /\ c.key_usable = ctx[r].key_usable
          /\ c.limit_spent = ctx[r].limit_spent
          /\ c.has_errors = ctx[r].has_errors
          /\ c.pii_mapping_id = ctx[r].pii_mapping_id
          /\ c.risk_assessment = level /\ ctx[r].key_usable
          /\ t.extraction = RowWithRisk(r, level) /\ t.task = TaskFor(r, level)
      BY <2>3 DEF HasRow
    <2>6. RowAgrees(r, "conclude", c, t)
      <3>1. /\ c.extraction_result # "none" /\ DisturbedIn(c) = DisturbedIn(ctx[r])
            /\ "conclude" \in Masked \ {"llm_extract"}
        BY <2>3, <2>5 DEF HasRow
      <3> HIDE ContextFields, RunAgrees
          DEF c, t, Context, Transaction, Agrees, RowAgrees, MaskAgrees,
              RiskAgrees, StatusAgrees, Masked, Underway, Steps, CriticalSteps,
              DisturbedIn
      <3>. QED BY <2>2, <2>4, <2>5, <3>1, WithRow
    <2>7. RowWithRisk(r, level) # {}
      BY <2>4 DEF Abstract!RowOf
    <2> HIDE DEF c, t
    <2>8. Agrees(r, "conclude", c, t)
      BY <2>2, <2>3, <2>5, <2>6, <2>7 DEF HasRow
    <2>. QED BY <2>1, <2>3, <2>8, GoesOnAgrees DEF c, t
  <1>. QED BY <1>1, <1>2, <1>3, <1>4 DEF StepValidate, StepRisk

\* The soft limit inside a step: less is asked of the run from then on.
LEMMA SoftLimitAgrees ==
    ASSUME RunTypeOK, RunsInv, NEW r \in Runs, SoftLimitInStep(r)
    PROVE  KeepsAgreement(r)
  <1> USE ContextFields, RunAgrees
      DEF Context, Transaction, Agrees, RowAgrees, MaskAgrees, RiskAgrees,
          StatusAgrees, Masked, Underway, Steps, CriticalSteps,
          DisturbedIn
  <1> DEFINE c == [ctx[r] EXCEPT !.limit_spent = TRUE]
  <1>0. "soft_limit" \in Faults
    BY DEF SoftLimitInStep, LimitMayStrike
  <1> USE <1>0
  <1>1. LevelOf(c) = LevelOf(ctx[r])
    BY DEF LevelOf
  <1>2. CASE LimitInLLMExtract(r, c)
    <2>1. pc[r] = "llm_extract"
      BY <1>2 DEF LimitInLLMExtract
    <2>2. ASSUME NEW e \in {"none", Extracted(r)},
                 StepGoesOn(r, "unmask", [c EXCEPT !.extraction_result = e], tx[r])
          PROVE  KeepsAgreement(r)
      <3> DEFINE c2 == [c EXCEPT !.extraction_result = e]
      <3>1. /\ ~c2.extraction_db_id /\ DisturbedIn(c2)
            /\ tx[r].extraction = {} /\ tx[r].task = {}
            /\ "unmask" \in Underway /\ "unmask" \in Masked \ {"llm_extract"}
        BY <2>1
      <3>2. RowAgrees(r, "unmask", c2, tx[r])
        <4> HIDE ContextFields, RunAgrees
            DEF c2, Context, Transaction, Agrees, RowAgrees, MaskAgrees,
                RiskAgrees, StatusAgrees, Masked, Underway, Steps,
                CriticalSteps, DisturbedIn
        <4>. QED BY <3>1, WithoutRow
      <3>3. Agrees(r, "unmask", c2, tx[r])
        BY <2>1, <3>2 DEF Extracted
      <3>. QED BY <2>1, <2>2, <3>3, GoesOnAgrees
    <2>3. ASSUME NEW id_read \in BOOLEAN, NEW x, ctx[r].key_usable,
                 {x} = Abstract!RowOf(r, doc[r], "low", Extracted(r)),
                 StepGoesOn(r, "unmask",
                            [c EXCEPT !.extraction_result = Extracted(r),
                                      !.extraction_db_id = id_read],
                            [tx[r] EXCEPT !.extraction = {x}])
          PROVE  KeepsAgreement(r)
      <3> DEFINE c2 == [c EXCEPT !.extraction_result = Extracted(r),
                                 !.extraction_db_id = id_read]
                 t == [tx[r] EXCEPT !.extraction = {x}]
      <3>1. /\ c2.extraction_result = Extracted(r) /\ DisturbedIn(c2)
            /\ c2.key_usable /\ t.extraction = {x} /\ t.task = {}
            /\ "unmask" \in Masked \ {"llm_extract"} /\ "low" \in RiskLevel
        BY <2>1, <2>3 DEF RiskLevel
      <3>2. Extracted(r) \in {"masked", "real"}
        BY DEF Extracted
      <3>3. RowAgrees(r, "unmask", c2, t)
        <4> HIDE ContextFields, RunAgrees
            DEF c2, t, Context, Transaction, Agrees, RowAgrees, MaskAgrees,
                RiskAgrees, StatusAgrees, Masked, Underway, Steps,
                CriticalSteps, DisturbedIn
        <4>. QED BY <2>3, <3>1, <3>2, WithRow
      <3>4. Agrees(r, "unmask", c2, t)
        BY <2>1, <2>3, <3>3 DEF Extracted
      <3>. QED BY <2>1, <2>3, <3>4, GoesOnAgrees
    <2> DEFINE row == [id |-> r, document |-> doc[r], data |-> Extracted(r),
                       validation_status |-> "passed", risk_level |-> "low"]
    <2>4. {row} = Abstract!RowOf(r, doc[r], "low", Extracted(r))
      BY DEF Abstract!RowOf
    <2>. QED BY <1>2, <2>2, <2>3, <2>4 DEF LimitInLLMExtract
  <1>3. ASSUME NEW p \in {"unmask", "normalize", "validate", "risk_detect"},
               NEW next \in {"normalize", "validate", "risk_detect", "conclude"},
               pc[r] = p, NEW e \in BOOLEAN,
               StepGoesOn(r, next, [c EXCEPT !.has_errors = e], tx[r])
        PROVE  KeepsAgreement(r)
    <2> DEFINE c2 == [c EXCEPT !.has_errors = e]
    <2>1. LevelOf(c2) = LevelOf(ctx[r])
      BY DEF LevelOf
    <2>2. Agrees(r, next, c2, tx[r])
      BY <1>3, <2>1
    <2>. QED BY <1>3, <2>2, GoesOnAgrees
  <1>4. c = [c EXCEPT !.has_errors = c.has_errors] /\ c.has_errors \in BOOLEAN
    OBVIOUS
  <1>5. CASE LimitInUnmask(r, c)
    <2>1. pc[r] = "unmask"
      BY <1>5 DEF LimitInUnmask
    <2>2. ASSUME ctx[r].extraction_result # "none", NEW row_too \in BOOLEAN,
                 StepGoesOn(r, "normalize", [c EXCEPT !.extraction_result = "real"],
                            [tx[r] EXCEPT !.extraction =
                                IF row_too THEN RowUnmasked(r) ELSE @])
          PROVE  KeepsAgreement(r)
      <3> DEFINE c2 == [c EXCEPT !.extraction_result = "real"]
                 t == [tx[r] EXCEPT !.extraction =
                          IF row_too THEN RowUnmasked(r) ELSE @]
      <3>1. /\ c2.extraction_result = "real"
            /\ c2.extraction_db_id = ctx[r].extraction_db_id
            /\ c2.risk_assessment = ctx[r].risk_assessment
            /\ c2.key_usable = ctx[r].key_usable /\ DisturbedIn(c2)
            /\ t.task = tx[r].task
            /\ \/ t.extraction = RowUnmasked(r)
               \/ t.extraction = tx[r].extraction
        OBVIOUS
      <3>2. RowAgrees(r, "normalize", c2, t)
        <4> HIDE ContextFields, RunAgrees
            DEF c2, t, Context, Transaction, Agrees, RowAgrees, MaskAgrees,
                RiskAgrees, StatusAgrees, Masked, Underway, Steps,
                CriticalSteps, DisturbedIn
        <4>. QED BY <2>1, <2>2, <3>1, UnmaskedAgrees
      <3>3. Agrees(r, "normalize", c2, t)
        BY <2>1, <2>2, <3>1, <3>2
      <3>4. StepGoesOn(r, "normalize", c2, t)
        BY <2>2
      <3> HIDE DEF c2, t, Agrees
      <3>. QED BY <2>1, <3>3, <3>4, GoesOnAgrees
    <2>. QED BY <1>3, <1>4, <1>5, <2>1, <2>2 DEF LimitInUnmask
  <1>6. CASE LimitInRisk(r, c)
    <2>1. pc[r] = "risk_detect"
      BY <1>6 DEF LimitInRisk
    <2>2. ASSUME NEW level \in RiskLevel, HasRow(r),
                 StepGoesOn(r, "conclude", [c EXCEPT !.risk_assessment = level],
                            tx[r])
          PROVE  KeepsAgreement(r)
      <3> DEFINE c2 == [c EXCEPT !.risk_assessment = level]
      <3>1. tx[r].task = {} /\ DisturbedIn(c2)
        BY <2>1
      <3>2. PICK old \in RiskLevel, data \in {"masked", "real"} :
              tx[r].extraction = Abstract!RowOf(r, doc[r], old, data)
        BY <2>1, <2>2, RowOfRun DEF HasRow
      <3>3. RowAgrees(r, "conclude", c2, tx[r])
        <4>1. /\ c2.extraction_result # "none" /\ c2.key_usable
              /\ "conclude" \in Masked \ {"llm_extract"}
          BY <2>1, <2>2 DEF HasRow
        <4> HIDE ContextFields, RunAgrees
            DEF c2, Context, Transaction, Agrees, RowAgrees, MaskAgrees,
                RiskAgrees, StatusAgrees, Masked, Underway, Steps,
                CriticalSteps, DisturbedIn
        <4>. QED BY <3>1, <3>2, <4>1, WithRow
      <3>4. Agrees(r, "conclude", c2, tx[r])
        BY <2>1, <2>2, <3>1, <3>3
      <3>. QED BY <2>1, <2>2, <3>4, GoesOnAgrees
    <2>3. ASSUME NEW level \in RiskLevel, HasRow(r),
                 NEW tasks \in {{}, TaskFor(r, level)},
                 StepGoesOn(r, "conclude", [c EXCEPT !.risk_assessment = level],
                            [tx[r] EXCEPT !.extraction = RowWithRisk(r, level),
                                          !.task = tasks])
          PROVE  KeepsAgreement(r)
      <3> DEFINE c2 == [c EXCEPT !.risk_assessment = level]
                 t == [tx[r] EXCEPT !.extraction = RowWithRisk(r, level),
                                    !.task = tasks]
      <3>1. /\ LevelOf(c2) = level /\ DisturbedIn(c2)
            /\ t.task = tasks /\ t.extraction = RowWithRisk(r, level)
        BY DEF LevelOf, RiskLevel
      <3>2. PICK data \in {"masked", "real"} :
              RowWithRisk(r, level) = Abstract!RowOf(r, doc[r], level, data)
        BY <2>1, <2>3, RatedRow
      <3>3. RowAgrees(r, "conclude", c2, t)
        <4>1. /\ c2.extraction_result # "none" /\ c2.key_usable
              /\ "conclude" \in Masked \ {"llm_extract"}
          BY <2>1, <2>3 DEF HasRow
        <4> HIDE ContextFields, RunAgrees
            DEF c2, t, Context, Transaction, Agrees, RowAgrees, MaskAgrees,
                RiskAgrees, StatusAgrees, Masked, Underway, Steps,
                CriticalSteps, DisturbedIn
        <4>. QED BY <3>1, <3>2, <4>1, WithRow
      <3>4. t.extraction # {}
        BY <3>1, <3>2 DEF Abstract!RowOf
      <3>5. Agrees(r, "conclude", c2, t)
        BY <2>1, <2>3, <3>1, <3>3, <3>4
      <3>. QED BY <2>1, <2>3, <3>5, GoesOnAgrees
    <2>. QED BY <1>3, <1>4, <1>6, <2>1, <2>2, <2>3 DEF LimitInRisk
  <1>. QED
    BY <1>2, <1>3, <1>4, <1>5, <1>6 DEF SoftLimitInStep

\* The final status, its audit event, and a critical failure, which rolls back.
LEMMA ConcludingAgrees ==
    ASSUME RunTypeOK, RunsInv, NEW r \in Runs,
           Conclude(r) \/ WriteAudit(r) \/ CriticalStepFails(r)
    PROVE  KeepsAgreement(r)
  <1> USE ContextFields, RunAgrees
      DEF Context, Transaction, Agrees, RowAgrees, MaskAgrees, RiskAgrees,
          StatusAgrees, Masked, Underway, Steps, CriticalSteps,
          DisturbedIn
  <1>1. CASE Conclude(r)
    <2> DEFINE final == FinalStatusOf(ctx[r])
               c == [ctx[r] EXCEPT !.final_status = final]
               t == [tx[r] EXCEPT !.status = final]
    <2>1. LevelOf(c) = LevelOf(ctx[r]) /\ FinalStatusOf(c) = final
      BY DEF LevelOf, FinalStatusOf
    <2>2. c.final_status = final /\ t.status = final
      OBVIOUS
    <2> HIDE DEF final
    <2>3. Agrees(r, "audit", c, t)
      BY <1>1, <2>1, <2>2 DEF Conclude
    <2>. QED BY <1>1, <2>3, GoesOnAgrees DEF Conclude, final
  <1>2. CASE WriteAudit(r)
    <2> DEFINE event == Abstract!EventOf(r, ctx[r].final_status)
               t == [tx[r] EXCEPT !.audit = {event}]
    <2> HIDE DEF event
    <2>1. Agrees(r, "commit", ctx[r], t)
      BY <1>2 DEF WriteAudit, event
    <2>. QED
      BY <1>2, <2>1, GoesOnAgrees DEF WriteAudit, event, Abstract!EventOf
  <1>3. CASE CriticalStepFails(r)
    <2> DEFINE event == [run |-> r, step |-> pc[r], status |-> "failure"]
               t == [tx[r] EXCEPT !.status = "failed", !.audit = {event}]
               c == [ctx[r] EXCEPT !.final_status = "failed"]
    <2>1. Agrees(r, "raising", c, t)
      OBVIOUS
    <2>2. pc[r] \in {"ocr", "pii_mask"} /\ StepReturns(r, "raising", c, t)
      BY <1>3 DEF CriticalStepFails
    <2>. QED BY <2>1, <2>2, GoesOnAgrees
  <1>. QED BY <1>1, <1>2, <1>3
-----------------------------------------------------------------------------
(***************************************************************************)
(* The commit.                                                             *)
(***************************************************************************)

\* What a run is about to commit: at most one row and one task, both of the
\* level that was assessed, and one audit event, of the status.
LEMMA Writes ==
    ASSUME RunTypeOK, PiiInv, RunsInv, NEW r \in Runs, pc[r] = "commit"
    PROVE  /\ LevelOf(ctx[r]) \in RiskLevel
           /\ tx[r].status \in FinalStatus
           /\ tx[r].status = ctx[r].final_status
           /\ tx[r].mapping = MappingsOf(r)
           /\ tx[r].audit = {Abstract!EventOf(r, tx[r].status)}
           /\ tx[r].task \in {{}, TaskFor(r, LevelOf(ctx[r]))}
           /\ tx[r].task # {} => tx[r].extraction # {}
           /\ tx[r].extraction # {} \/ doc[r] \in PiiDocuments
                 => ctx[r].key_usable
  <1>1. tx[r].status = FinalStatusOf(ctx[r]) /\ tx[r].status = ctx[r].final_status
    BY RunAgrees DEF Agrees, StatusAgrees
  <1>2. tx[r].audit = {Abstract!EventOf(r, tx[r].status)}
    BY <1>1, RunAgrees DEF Agrees, StatusAgrees
  <1>3. LevelOf(ctx[r]) \in RiskLevel
    BY ContextFields DEF LevelOf, RiskLevel
  <1>4. /\ tx[r].task \in {{}, TaskFor(r, LevelOf(ctx[r]))}
        /\ tx[r].task # {} => tx[r].extraction # {}
    BY RunAgrees DEF Agrees, RiskAgrees
  <1>5. tx[r].extraction # {} \/ doc[r] \in PiiDocuments => ctx[r].key_usable
    BY RunAgrees DEF Agrees, RowAgrees, MaskAgrees, Masked
  <1>6. tx[r].mapping = MappingsOf(r)
    BY PiiMasked DEF Masked
  <1>. QED
    BY <1>1, <1>2, <1>3, <1>4, <1>5, <1>6 DEF FinalStatusOf, FinalStatus

\* A row with a task has the level that was assessed.  What an undisturbed run
\* is about to commit agrees with itself: without a row it failed, with one the
\* row has that level and the task it calls for, and mask tokens are left in a
\* failed document only.
LEMMA WrittenRow ==
    ASSUME RunTypeOK, PiiInv, RunsInv, NEW r \in Runs, pc[r] = "commit"
    PROVE  \E level \in RiskLevel, data \in {"masked", "real"} :
              /\ tx[r].extraction \in {{}, Abstract!RowOf(r, doc[r], level, data)}
              /\ tx[r].task \in {{}, TaskFor(r, level)}
              /\ ~Disturbed(r) /\ tx[r].extraction = {} =>
                    tx[r].status = "failed"
              /\ ~Disturbed(r) /\ tx[r].extraction # {} =>
                    /\ level = ctx[r].risk_assessment
                    /\ tx[r].task = TaskFor(r, level)
                    /\ tx[r].status \in
                          {"failed", IF RequiresReview(level)
                                     THEN "validated" ELSE "reviewed"}
                    /\ data = "masked" => tx[r].status = "failed"
  <1>1. PICK level \in RiskLevel, data \in {"masked", "real"} :
          /\ tx[r].extraction \in {{}, Abstract!RowOf(r, doc[r], level, data)}
          /\ tx[r].task # {} => level = LevelOf(ctx[r])
          /\ ctx[r].extraction_db_id /\ ~Disturbed(r)
                => level = LevelOf(ctx[r]) /\ data = ctx[r].extraction_result
    BY RunAgrees DEF Agrees, RowAgrees, Masked, Disturbed, DisturbedIn
  <1>2. /\ ctx[r].extraction_db_id => tx[r].extraction # {}
        /\ tx[r].extraction # {} => ctx[r].extraction_result # "none"
        /\ ctx[r].extraction_result # "none" /\ ~Disturbed(r)
              => ctx[r].extraction_db_id
    BY RunAgrees DEF Agrees, RowAgrees, Masked, Disturbed, DisturbedIn
  <1>3. tx[r].status = FinalStatusOf(ctx[r])
    BY RunAgrees DEF Agrees, StatusAgrees
  <1>4. tx[r].task \in {{}, TaskFor(r, level)}
    BY <1>1, Writes
  <1>5. ASSUME ~Disturbed(r), tx[r].extraction = {}
        PROVE  tx[r].status = "failed"
    BY <1>2, <1>3, <1>5 DEF FinalStatusOf
  <1>6. ASSUME ~Disturbed(r), tx[r].extraction # {}
        PROVE  /\ level = ctx[r].risk_assessment
               /\ tx[r].task = TaskFor(r, level)
    <2>1. ctx[r].extraction_db_id /\ level = LevelOf(ctx[r])
      BY <1>1, <1>2, <1>6
    <2>2. /\ ctx[r].risk_assessment # "none"
          /\ tx[r].task = TaskFor(r, ctx[r].risk_assessment)
      BY <1>6, <2>1, RunAgrees DEF Agrees, RiskAgrees, Disturbed, DisturbedIn
    <2>. QED BY <2>1, <2>2 DEF LevelOf
  <1>7. ASSUME ~Disturbed(r), tx[r].extraction # {}
        PROVE  tx[r].status \in
                 {"failed", IF RequiresReview(level)
                            THEN "validated" ELSE "reviewed"}
    BY <1>3, <1>6, <1>7 DEF FinalStatusOf
  <1>8. ASSUME ~Disturbed(r), tx[r].extraction # {}, data = "masked"
        PROVE  tx[r].status = "failed"
    <2>1. ctx[r].has_errors
      BY <1>1, <1>2, <1>8, RunAgrees
         DEF Agrees, MaskAgrees, Masked, Disturbed, DisturbedIn
    <2>. QED BY <1>3, <2>1 DEF FinalStatusOf
  <1>. QED BY <1>1, <1>4, <1>5, <1>6, <1>7, <1>8

\* The task of a flagged extraction is the one the review flow looks for.
LEMMA FlaggedTask ==
    ASSUME NEW r \in Runs, NEW level, RequiresReview(level)
    PROVE  \E t \in TaskFor(r, level) :
              /\ t.id = r /\ t.document = doc[r] /\ t.status = "pending"
              /\ t.priority = RiskToPriority(level)
  <1> DEFINE t == [id |-> r, document |-> doc[r],
                   priority |-> RiskToPriority(level), status |-> "pending"]
  <1>1. t \in TaskFor(r, level)
    BY DEF TaskFor
  <1>. QED BY <1>1

\* What the commit of r does to the variables, and what it leaves alone.
LEMMA CommitEffect ==
    ASSUME RunTypeOK, NEW r \in Runs, Commit(r)
    PROVE  /\ pc[r] = "commit" /\ pc'[r] = "committed" /\ tx'[r] = NoWrites
           /\ \A q \in Runs \ {r} : pc'[q] = pc[q] /\ tx'[q] = tx[q]
           /\ UNCHANGED <<ctx, doc>>
           /\ doc[r] \in Documents
           /\ docStatus'[doc[r]] = tx[r].status
           /\ \A d \in Documents \ {doc[r]} : docStatus'[d] = docStatus[d]
           /\ piiMappings' = piiMappings \cup tx[r].mapping
           /\ extractions' = extractions \cup tx[r].extraction
           /\ reviewTasks' = reviewTasks \cup tx[r].task
           /\ auditLog' = auditLog \cup tx[r].audit
           /\ \A q \in Runs : Committed(q)' <=> Committed(q) \/ q = r
  BY DEF Commit, RunTypeOK, Committed

\* After the commit every table still has its committers.
LEMMA CommitTables ==
    ASSUME RunTypeOK, PiiInv, OutcomeInv, NEW r \in Runs, Commit(r)
    PROVE  OutcomeTables' /\ OutcomeIsAudited'
  <1> USE CommitEffect
  <1>0. RunsInv
    BY DEF OutcomeInv
  <1>1. PICK level, data :
          tx[r].extraction \in {{}, Abstract!RowOf(r, doc[r], level, data)}
    BY <1>0, WrittenRow
  <1>2. \A m \in piiMappings' : Committed(m.id)' /\ ctx'[m.id].key_usable
    <2>1. ASSUME NEW m \in piiMappings
          PROVE  m.id \in Runs /\ Committed(m.id) /\ ctx[m.id].key_usable
      BY DEF RunTypeOK, PIIMapping, OutcomeInv, OutcomeTables
    <2>2. ASSUME NEW m \in tx[r].mapping
          PROVE  m.id = r /\ ctx[r].key_usable
      <3>1. m \in MappingsOf(r) /\ (doc[r] \in PiiDocuments => ctx[r].key_usable)
        BY <2>2, <1>0, Writes
      <3>2. doc[r] \in PiiDocuments /\ m = [id |-> r, document |-> doc[r]]
        BY <3>1 DEF MappingsOf
      <3>. QED BY <3>1, <3>2
    <2>. QED BY <2>1, <2>2
  <1>3. \A x \in extractions' : ctx'[x.id].key_usable
    <2>1. ASSUME NEW x \in tx[r].extraction
          PROVE  x.id = r /\ ctx[r].key_usable
      BY <1>1, <2>1, <1>0, Writes DEF Abstract!RowOf
    <2>. QED BY <2>1 DEF OutcomeInv, OutcomeTables
  <1>4. \A e \in auditLog' : Committed(e.run)'
    <2>1. \A e \in auditLog : e.run \in Runs /\ Committed(e.run)
      BY DEF RunTypeOK, AuditEvent, OutcomeInv, OutcomeTables
    <2>2. \A e \in tx[r].audit : e.run = r
      BY <1>0, Writes DEF Abstract!EventOf
    <2>. QED BY <2>1, <2>2
  <1>5. OutcomeTables'
    BY <1>2, <1>3, <1>4 DEF OutcomeTables
  <1>6. ASSUME NEW d \in Documents, docStatus'[d] \in FinalStatus
        PROVE  \E e \in auditLog' : /\ doc'[e.run] = d
                  /\ (e.status = "failure" <=> docStatus'[d] = "failed")
    <2>1. CASE d = doc[r]
      <3> DEFINE e == Abstract!EventOf(r, tx[r].status)
      <3>1. /\ e.run = r
            /\ e.status = "failure" <=> tx[r].status = "failed"
        BY DEF Abstract!EventOf
      <3>2. e \in auditLog'
        BY <1>0, Writes
      <3> HIDE DEF e
      <3>. QED BY <2>1, <3>1, <3>2
    <2>2. CASE d # doc[r]
      BY <1>6, <2>2 DEF OutcomeInv, OutcomeIsAudited
    <2>. QED BY <2>1, <2>2
  <1>. QED BY <1>5, <1>6 DEF OutcomeIsAudited

\* A committed row that was flagged has its task, and one that is masked a
\* failed run: those of r by the agreement, the others as before.
LEMMA CommitRows ==
    ASSUME RunTypeOK, PiiInv, OutcomeInv, NEW r \in Runs, Commit(r)
    PROVE  FlaggedHasTask' /\ MaskedMeansFailed'
  <1> USE CommitEffect
  <1>0. RunsInv
    BY DEF OutcomeInv
  <1>1. PICK level \in RiskLevel, data \in {"masked", "real"} :
          /\ tx[r].extraction \in {{}, Abstract!RowOf(r, doc[r], level, data)}
          /\ ~Disturbed(r) /\ tx[r].extraction # {} =>
                /\ tx[r].task = TaskFor(r, level)
                /\ data = "masked" => tx[r].status = "failed"
    BY <1>0, WrittenRow
  <1>2. \A q \in Runs : Disturbed(q)' <=> Disturbed(q)
    BY DEF Disturbed
  <1>3. ASSUME NEW x \in extractions', ~Disturbed(x.id)'
        PROVE  /\ RequiresReview(x.risk_level) =>
                    \E t \in reviewTasks' :
                       /\ t.id = x.id /\ t.document = x.document
                       /\ t.priority = RiskToPriority(x.risk_level)
               /\ x.data = "masked" => ctx'[x.id].final_status = "failed"
    <2>1. CASE x \in extractions
      <3>1. x.id \in Runs
        BY <2>1 DEF RunTypeOK, ExtractionResult
      <3>. QED
        BY <1>2, <1>3, <2>1, <3>1
           DEF OutcomeInv, FlaggedHasTask, MaskedMeansFailed
    <2>2. CASE x \in tx[r].extraction
      <3>1. /\ x.id = r /\ x.document = doc[r] /\ x.data = data
            /\ x.risk_level = level
        BY <1>1, <2>2 DEF Abstract!RowOf
      <3>2. /\ tx[r].task = TaskFor(r, x.risk_level)
            /\ data = "masked" => ctx[r].final_status = "failed"
        BY <1>1, <1>2, <1>3, <2>2, <3>1, <1>0, Writes
      <3>3. ASSUME RequiresReview(x.risk_level)
            PROVE  \E t \in tx[r].task :
                      /\ t.id = x.id /\ t.document = x.document
                      /\ t.priority = RiskToPriority(x.risk_level)
        BY <3>1, <3>2, <3>3, FlaggedTask
      <3>. QED BY <3>1, <3>2, <3>3
    <2>. QED BY <2>1, <2>2
  <1>. QED BY <1>3 DEF FlaggedHasTask, MaskedMeansFailed

\* A document that is validated now has a task, and one that is cleared now an
\* assessment, unless one of its runs was disturbed.
LEMMA CommitStatus ==
    ASSUME RunTypeOK, PiiInv, OutcomeInv, NEW r \in Runs, Commit(r)
    PROVE  ValidatedAwaitsReview' /\ ClearedWasAssessed'
  <1> USE CommitEffect
  <1>0. RunsInv
    BY DEF OutcomeInv
  <1>1. PICK level \in RiskLevel, data \in {"masked", "real"} :
          /\ tx[r].extraction \in {{}, Abstract!RowOf(r, doc[r], level, data)}
          /\ ~Disturbed(r) /\ tx[r].extraction = {} => tx[r].status = "failed"
          /\ ~Disturbed(r) /\ tx[r].extraction # {} =>
                /\ level = ctx[r].risk_assessment
                /\ tx[r].task = TaskFor(r, level)
                /\ tx[r].status \in
                      {"failed", IF RequiresReview(level)
                                 THEN "validated" ELSE "reviewed"}
    BY <1>0, WrittenRow
  <1>2. \A q \in Runs : Disturbed(q)' <=> Disturbed(q)
    BY DEF Disturbed
  <1>3. ASSUME NEW d \in Documents, Undisturbed(d)'
        PROVE  Undisturbed(d) /\ (d = doc[r] => ~Disturbed(r))
    BY <1>2, <1>3 DEF Undisturbed
  <1>4. ASSUME NEW d \in Documents, docStatus'[d] = "validated", Undisturbed(d)'
        PROVE  \E t \in reviewTasks' : t.document = d /\ t.status = "pending"
    <2>1. CASE d = doc[r]
      <3>1. tx[r].task = TaskFor(r, level) /\ RequiresReview(level)
        BY <1>1, <1>3, <1>4, <2>1
      <3>2. \E t \in tx[r].task : t.document = d /\ t.status = "pending"
        BY <2>1, <3>1, FlaggedTask
      <3>. QED BY <3>2
    <2>2. CASE d # doc[r]
      BY <1>3, <1>4, <2>2 DEF OutcomeInv, ValidatedAwaitsReview
    <2>. QED BY <2>1, <2>2
  <1>5. ASSUME NEW d \in Documents, docStatus'[d] = "reviewed", Undisturbed(d)'
        PROVE  Assessed(d)'
    <2>1. CASE d = doc[r]
      <3>1. /\ tx[r].extraction = Abstract!RowOf(r, doc[r], level, data)
            /\ level = ctx[r].risk_assessment
            /\ ~RequiresReview(ctx[r].risk_assessment)
        BY <1>1, <1>3, <1>5, <2>1
      <3>2. ctx[r].risk_assessment = "low"
        BY <3>1 DEF RequiresReview, RiskLevel
      <3>3. \E x \in tx[r].extraction : x.id = r
        BY <3>1 DEF Abstract!RowOf
      <3>. QED BY <2>1, <3>2, <3>3 DEF Assessed
    <2>2. CASE d # doc[r]
      <3>1. Assessed(d)
        BY <1>3, <1>5, <2>2 DEF OutcomeInv, ClearedWasAssessed
      <3>. QED BY <3>1 DEF Assessed
    <2>. QED BY <2>1, <2>2
  <1>. QED BY <1>4, <1>5 DEF ValidatedAwaitsReview, ClearedWasAssessed

\* The commit leaves the other runs as they are, and its own with nothing to
\* agree on.
LEMMA RunsCommit ==
    ASSUME RunTypeOK, PiiInv, RunsInv, NEW r \in Runs, Commit(r)
    PROVE  RunsInv'
  <1> USE CommitEffect
  <1>1. ASSUME NEW q \in Runs
        PROVE  /\ Agrees(q, pc[q], ctx[q], tx[q])'
               /\ pc'[q] \in Underway => docStatus'[doc'[q]] # Absent
    <2>1. CASE q = r
      <3>1. Agrees(r, "committed", ctx[r], NoWrites)
        BY RunAgrees
           DEF Agrees, RowAgrees, MaskAgrees, RiskAgrees, StatusAgrees, Masked,
               Steps, CriticalSteps
      <3>. QED BY <2>1, <3>1, AgreesIsLocal DEF Underway, Masked
    <2>2. CASE q # r
      <3>1. tx[r].status # Absent
        BY Writes DEF FinalStatus, Absent
      <3>2. pc[q] \in Underway => docStatus[doc[q]] # Absent
        BY DEF RunsInv
      <3>3. doc[q] \in Documents
        BY FieldTypes
      <3>. QED BY <2>2, <3>1, <3>2, <3>3, AgreesIsLocal, RunAgrees
    <2>. QED BY <2>1, <2>2
  <1>2. Underway' = Underway
    OBVIOUS
  <1>. QED BY <1>1, <1>2 DEF RunsInv

\* The commit keeps the whole of the invariant.
LEMMA OutcomeCommit ==
    ASSUME RunTypeOK, PiiInv, OutcomeInv, NEW r \in Runs, Commit(r)
    PROVE  OutcomeInv'
  BY RunsCommit, CommitTables, CommitRows, CommitStatus DEF OutcomeInv

\* A run that begins has nothing to agree on; only its key is new.
LEMMA BeginAgrees ==
    ASSUME RunTypeOK, RunsInv, NEW r \in Runs, Begin(r)
    PROVE  KeepsAgreement(r)
  <1>1. PICK key \in BOOLEAN, next \in {"raising", "ocr"} :
          /\ pc[r] = "idle"
          /\ Goto(r, next, [ctx[r] EXCEPT !.key_usable = key], tx[r])
          /\ next = "ocr" => docStatus[doc[r]] # Absent
    BY DEF Begin, Goto, Keys, RunTypeOK
  <1> DEFINE c == [ctx[r] EXCEPT !.key_usable = key]
  <1>2. Agrees(r, next, c, tx[r])
    BY <1>1, RunAgrees, ContextFields
       DEF Agrees, RowAgrees, MaskAgrees, RiskAgrees, StatusAgrees, Masked,
           Steps, CriticalSteps, Context
  <1>. QED BY <1>1, <1>2 DEF KeepsAgreement, Underway, Masked

\* Whatever a run does before it commits leaves it in agreement.
LEMMA PrivateAgrees ==
    ASSUME RunTypeOK, RunsInv, NEW r \in Runs,
           \/ Begin(r) \/ RunRaises(r) \/ SoftLimitInStep(r) \/ WorkerLost(r)
           \/ Step(r) /\ ~Commit(r)
    PROVE  KeepsAgreement(r)
  <1>1. CASE RunRaises(r) \/ WorkerLost(r) \/ Rollback(r)
    BY <1>1, DiscardAgrees
       DEF RunRaises, WorkerLost, Rollback, Active, Steps, CriticalSteps
  <1>. QED
    BY <1>1, BeginAgrees, SoftLimitAgrees, MaskingAgrees, ExtractingAgrees,
       AssessingAgrees, ConcludingAgrees DEF Step

\* An upload adds a document that no run is at work on.
LEMMA UploadEffect ==
    ASSUME RunTypeOK, NEW d \in Documents, UploadCommits(d)
    PROVE  /\ UNCHANGED <<piiMappings, extractions, reviewTasks, auditLog, pc,
                          doc, ctx, tx>>
           /\ docStatus[d] = Absent /\ docStatus'[d] = "processing"
           /\ \A e \in Documents \ {d} : docStatus'[e] = docStatus[e]
  BY DEF UploadCommits, RunTypeOK

\* No step of any run breaks the agreement.
LEMMA RunsNext ==
    ASSUME RunTypeOK, PiiInv, RunsInv, [Next]_vars
    PROVE  RunsInv'
  <1>1. ASSUME UNCHANGED <<pc, doc, ctx, tx>>,
               \A d \in Documents : docStatus[d] # Absent =>
                                       docStatus'[d] # Absent
        PROVE  RunsInv'
    <2>1. \A q \in Runs : Agrees(q, pc[q], ctx[q], tx[q])'
      BY <1>1, AgreesIsLocal, RunAgrees
    <2>2. \A q \in Runs : pc'[q] \in Underway => docStatus'[doc'[q]] # Absent
      BY <1>1, FieldTypes DEF RunsInv
    <2>3. Underway' = Underway
      OBVIOUS
    <2>. QED BY <2>1, <2>2, <2>3 DEF RunsInv
  <1>2. ASSUME NEW d \in Documents, UploadCommits(d) PROVE RunsInv'
    BY <1>1, <1>2, UploadEffect DEF Absent
  <1>3. UNCHANGED vars => RunsInv'
    BY <1>1 DEF vars
  <1>. QED BY <1>2, <1>3, PrivateAgrees, RunsStep, RunsCommit DEF Next

\* An upload adds a document that is neither settled nor begun.
LEMMA OutcomeUpload ==
    ASSUME RunTypeOK, PiiInv, OutcomeInv, NEW d \in Documents, UploadCommits(d)
    PROVE  OutcomeInv'
  <1> USE UploadEffect
  <1>1. RunsInv'
    BY RunsNext DEF OutcomeInv, Next
  <1>2. OutcomeTables'
    BY DEF OutcomeInv, OutcomeTables, Committed
  <1>3. OutcomeIsAudited' /\ FlaggedHasTask' /\ MaskedMeansFailed'
    BY DEF OutcomeInv, OutcomeIsAudited, FlaggedHasTask, MaskedMeansFailed,
           Disturbed, FinalStatus
  <1>4. ValidatedAwaitsReview' /\ ClearedWasAssessed'
    BY DEF OutcomeInv, ValidatedAwaitsReview, ClearedWasAssessed, Undisturbed,
           Disturbed, Assessed, Committed
  <1>. QED BY <1>1, <1>2, <1>3, <1>4 DEF OutcomeInv

\* Runs that have not begun have nothing to agree on.
LEMMA RunsInit == Init => RunsInv
  <1> SUFFICES ASSUME Init, NEW r \in Runs
               PROVE  /\ Agrees(r, pc[r], ctx[r], tx[r])
                      /\ pc[r] \in Underway => docStatus[doc[r]] # Absent
    BY DEF RunsInv
  <1>1. pc[r] = "idle" /\ ctx[r] = NewContext /\ tx[r] = NoWrites
    BY DEF Init
  <1>. QED
    BY <1>1 DEF Agrees, RowAgrees, MaskAgrees, RiskAgrees, StatusAgrees, Masked,
                Underway, Steps, CriticalSteps, NewContext, NoWrites

\* What the runs leave behind agrees with itself, whatever fails.
THEOREM OutcomeInvariant == Spec => []OutcomeInv
  <1>1. Init => OutcomeInv
    <2> SUFFICES ASSUME Init PROVE OutcomeInv
      OBVIOUS
    <2>1. /\ piiMappings = {} /\ extractions = {} /\ auditLog = {}
          /\ \A d \in Documents : docStatus[d] = Absent
      BY DEF Init
    <2>. QED
      BY <2>1, RunsInit
         DEF OutcomeInv, OutcomeTables, OutcomeIsAudited, FlaggedHasTask,
             MaskedMeansFailed, ValidatedAwaitsReview, ClearedWasAssessed,
             FinalStatus, Absent
  <1>2. RunTypeOK /\ PiiInv /\ OutcomeInv /\ [Next]_vars => OutcomeInv'
    <2> SUFFICES ASSUME RunTypeOK, PiiInv, OutcomeInv, [Next]_vars
                 PROVE  OutcomeInv'
      OBVIOUS
    <2>1. CASE UNCHANGED vars
      <3>1. /\ UNCHANGED <<tables, pc, doc, ctx, tx>>
            /\ \A r \in Runs : Committed(r)' <=> Committed(r)
            /\ \A r \in Runs : Disturbed(r)' <=> Disturbed(r)
        BY <2>1 DEF vars, tables, Committed, Disturbed
      <3>2. RunsInv'
        BY RunsNext DEF OutcomeInv
      <3>. QED
        BY <3>1, <3>2
           DEF tables, OutcomeInv, OutcomeTables, OutcomeIsAudited,
               FlaggedHasTask, MaskedMeansFailed, ValidatedAwaitsReview,
               ClearedWasAssessed, Undisturbed, Assessed, Committed, Disturbed
    <2>2. ASSUME NEW r \in Runs, KeepsAgreement(r) \/ Commit(r)
          PROVE  OutcomeInv'
      BY <2>2, OutcomeStep, OutcomeCommit
    <2>3. RunsInv
      BY DEF OutcomeInv
    <2>. QED
      BY <2>1, <2>2, <2>3, PrivateAgrees, OutcomeUpload DEF Next
  <1>. QED BY <1>1, <1>2, RunTypes, PiiInvariant, PTL DEF Spec
-----------------------------------------------------------------------------
(***************************************************************************)
(* What follows for a reader of the tables.                                *)
(***************************************************************************)

\* Every settled status has its audit event.
THEOREM OutcomesAudited == Spec => []OutcomeIsAudited
  <1>1. OutcomeInv => OutcomeIsAudited
    BY DEF OutcomeInv
  <1>. QED BY <1>1, OutcomeInvariant, PTL

\* A flagged extraction of an undisturbed run is in the review queue.
THEOREM FlaggedIsQueued == Spec => []FlaggedHasTask
  <1>1. OutcomeInv => FlaggedHasTask
    BY DEF OutcomeInv
  <1>. QED BY <1>1, OutcomeInvariant, PTL

\* A validated document waits for somebody.
THEOREM ValidatedWaits == Spec => []ValidatedAwaitsReview
  <1>1. OutcomeInv => ValidatedAwaitsReview
    BY DEF OutcomeInv
  <1>. QED BY <1>1, OutcomeInvariant, PTL

\* Nothing is cleared without a human unless the detector has seen it.
THEOREM ClearedAssessed == Spec => []ClearedWasAssessed
  <1>1. OutcomeInv => ClearedWasAssessed
    BY DEF OutcomeInv
  <1>. QED BY <1>1, OutcomeInvariant, PTL

\* Mask tokens stay in failed documents.
THEOREM MaskedFails == Spec => []MaskedMeansFailed
  <1>1. OutcomeInv => MaskedMeansFailed
    BY DEF OutcomeInv
  <1>. QED BY <1>1, OutcomeInvariant, PTL

\* Without a usable key nothing is stored: the mapping and the row are what a
\* run has encrypted, and a run that has masked PII had the key.
THEOREM NothingWithoutKey == Spec => []NothingStoredWithoutKey
  <1>1. RunTypeOK /\ OutcomeInv => NothingStoredWithoutKey
    <2> SUFFICES ASSUME RunTypeOK, OutcomeInv,
                        NEW r \in Runs, ~ctx[r].key_usable
                 PROVE  /\ \A m \in piiMappings : m.id # r
                        /\ \A x \in extractions : x.id # r
                        /\ Committed(r) => doc[r] \notin PiiDocuments
      BY DEF NothingStoredWithoutKey
    <2>1. MaskAgrees(r, pc[r], ctx[r])
      BY RunAgrees DEF Agrees, OutcomeInv
    <2>. QED
      BY <2>1 DEF OutcomeInv, OutcomeTables, MaskAgrees, Committed
  <1>. QED BY <1>1, OutcomeInvariant, RunTypes, PTL
-----------------------------------------------------------------------------
(***************************************************************************)
(* The refinement.                                                         *)
(***************************************************************************)

\* The abstract specification has the same schema.
LEMMA SameSchema ==
    /\ Abstract!Absent = Absent /\ Abstract!FinalStatus = FinalStatus
    /\ Abstract!RiskLevel = RiskLevel
    /\ \A r \in Runs, level \in RiskLevel :
          TaskFor(r, level) = Abstract!TaskOf(r, doc[r], level)
  BY DEF Absent, Abstract!Absent, FinalStatus, Abstract!FinalStatus, RiskLevel,
         Abstract!RiskLevel, TaskFor, Abstract!TaskOf, RequiresReview,
         Abstract!RequiresReview, RiskToPriority, Abstract!RiskToPriority

\* Before its commit a run changes no table, and once disturbed it stays so.
LEMMA PrivateStep ==
    ASSUME RunTypeOK, RunsInv, NEW r \in Runs,
           \/ Begin(r) \/ RunRaises(r) \/ SoftLimitInStep(r) \/ WorkerLost(r)
           \/ Step(r) /\ ~Commit(r)
    PROVE  /\ UNCHANGED tables
           /\ \A q \in Runs : Disturbed(q) => Disturbed(q)'
  <1> USE ContextFields DEF Context
  <1>1. CASE Begin(r)
    <2>1. ~ctx[r].limit_spent => ~Disturbed(r)
      BY <1>1, RunAgrees DEF Begin, Agrees, MaskAgrees, Disturbed
    <2>2. PICK key \in BOOLEAN : ctx' = [ctx EXCEPT ![r].key_usable = key]
      BY <1>1 DEF Begin, Keys
    <2>3. /\ ctx'[r].limit_spent = ctx[r].limit_spent
          /\ \A q \in Runs \ {r} : ctx'[q] = ctx[q]
      BY <2>2 DEF RunTypeOK
    <2>. QED BY <1>1, <2>1, <2>3 DEF Begin, Disturbed
  <1>2. ASSUME NEW next, NEW c, NEW t, Goto(r, next, c, t),
               DisturbedIn(ctx[r]) => DisturbedIn(c)
        PROVE  /\ UNCHANGED tables
               /\ \A q \in Runs : Disturbed(q) => Disturbed(q)'
    BY <1>2 DEF Goto, Disturbed, DisturbedIn, RunTypeOK
  <1>3. CASE RunRaises(r) \/ WorkerLost(r) \/ Rollback(r) \/ MappingExists(r)
    BY <1>2, <1>3
       DEF RunRaises, WorkerLost, Rollback, MappingExists, Doomed, Discard
  <1>4. CASE SoftLimitInStep(r)
    <2> DEFINE c == [ctx[r] EXCEPT !.limit_spent = TRUE]
    <2>1. /\ DisturbedIn(c)
          /\ \A e : DisturbedIn([c EXCEPT !.extraction_result = e])
          /\ \A e, i : DisturbedIn([c EXCEPT !.extraction_result = e,
                                            !.extraction_db_id = i])
          /\ DisturbedIn([c EXCEPT !.has_errors = TRUE])
          /\ \A l : DisturbedIn([c EXCEPT !.risk_assessment = l])
      BY DEF DisturbedIn
    <2>2. /\ \/ LimitInLLMExtract(r, c) \/ LimitInUnmask(r, c) \/ LimitInRisk(r, c)
             \/ \E next : StepGoesOn(r, next, c, tx[r])
      BY <1>4 DEF SoftLimitInStep
    <2> HIDE DEF c
    <2>3. \E next, d, t : Goto(r, next, d, t) /\ DisturbedIn(d)
      <3>1. CASE LimitInLLMExtract(r, c)
        BY <2>1, <3>1 DEF LimitInLLMExtract, StepGoesOn
      <3>2. CASE LimitInUnmask(r, c)
        BY <2>1, <3>2 DEF LimitInUnmask, StepGoesOn
      <3>3. CASE LimitInRisk(r, c)
        BY <2>1, <3>3 DEF LimitInRisk, StepGoesOn
      <3>4. CASE \E next : StepGoesOn(r, next, c, tx[r])
        BY <2>1, <3>4 DEF StepGoesOn
      <3>. QED BY <2>2, <3>1, <3>2, <3>3, <3>4
    <2>. QED BY <1>2, <2>3
  <1>5. CASE OCR(r) \/ MaskClean(r) \/ LLMFails(r) \/ UnmaskSkipped(r)
             \/ StepValidate(r) \/ RiskSkipped(r) \/ WriteAudit(r)
    <2>1. PICK next, t : Goto(r, next, ctx[r], t)
      BY <1>5
         DEF OCR, MaskClean, LLMFails, UnmaskSkipped, StepValidate, Validate,
             ValidateSkipped, RiskSkipped, WriteAudit, StepReturns, StepGoesOn
    <2>. QED BY <1>2, <2>1
  <1>6. CASE MaskPii(r)
    BY <1>2, <1>6 DEF MaskPii, StepReturns, DisturbedIn
  <1>7. CASE LLMExtract(r) \/ LLMResultNotStored(r)
    <2> DEFINE c == [ctx[r] EXCEPT !.extraction_result = Extracted(r)]
               c2 == [ctx[r] EXCEPT !.extraction_result = Extracted(r),
                                    !.extraction_db_id = TRUE]
    <2>1. DisturbedIn(ctx[r]) => DisturbedIn(c) /\ DisturbedIn(c2)
      BY DEF DisturbedIn
    <2>2. \E next, t : Goto(r, next, c, t) \/ Goto(r, next, c2, t)
      BY <1>7 DEF LLMExtract, LLMResultNotStored, StepReturns, StepGoesOn
    <2> HIDE DEF c, c2
    <2>. QED BY <1>2, <2>1, <2>2
  <1>8. CASE Unmask(r) \/ UnmaskFails(r)
    BY <1>2, <1>8 DEF Unmask, UnmaskFails, StepGoesOn, DisturbedIn
  <1>9. CASE StepNormalize(r)
    BY <1>2, <1>9 DEF StepNormalize, StepGoesOn, DisturbedIn
  <1>10. CASE DetectRisk(r)
    BY <1>2, <1>10 DEF DetectRisk, StepReturns, DisturbedIn
  <1>11. CASE Conclude(r) \/ CriticalStepFails(r)
    BY <1>2, <1>11 DEF Conclude, CriticalStepFails, StepReturns, DisturbedIn
  <1>. QED
    BY <1>1, <1>3, <1>4, <1>5, <1>6, <1>7, <1>8, <1>9, <1>10, <1>11
       DEF Step, StepPIIMask, StepLLMExtract, StepUnmask, StepRisk

\* The commit is the step of AtomicProcessing that records the outcome.
LEMMA CommitRecords ==
    ASSUME RunTypeOK, PiiInv, OutcomeInv, NEW r \in Runs, Commit(r)
    PROVE  /\ Abstract!Record(r, doc[r], tx[r].status)
           /\ tx[r].status \in FinalStatus
  <1> USE CommitEffect
  <1>0. RunsInv
    BY DEF OutcomeInv
  <1>1. docStatus[doc[r]] # Absent
    BY <1>0 DEF RunsInv, Underway, Masked
  <1>2. \A e \in auditLog : e.run # r
    BY DEF OutcomeInv, OutcomeTables, Committed
  <1>3. doc[r] \in PiiDocuments => \A m \in piiMappings : m.document # doc[r]
    BY PiiMasked DEF Masked
  <1>4. /\ docStatus' = [docStatus EXCEPT ![doc[r]] = tx[r].status]
        /\ piiMappings' = piiMappings \cup tx[r].mapping
        /\ auditLog' = auditLog \cup tx[r].audit
        /\ {q \in Runs : Disturbed(q)}' = {q \in Runs : Disturbed(q)}
    BY DEF Commit, Disturbed
  <1>5. /\ tx[r].mapping = Abstract!MappingOf(r, doc[r])
        /\ tx[r].audit = {Abstract!EventOf(r, tx[r].status)}
        /\ tx[r].status \in FinalStatus
    BY <1>0, Writes DEF MappingsOf, Abstract!MappingOf
  <1>. QED BY <1>1, <1>2, <1>3, <1>4, <1>5, SameSchema DEF Abstract!Record

\* What it commits besides is what Process, ProcessInVain or, if the run was
\* disturbed, ProcessDisturbed adds.
LEMMA CommitProcesses ==
    ASSUME RunTypeOK, PiiInv, OutcomeInv, NEW r \in Runs, Commit(r)
    PROVE  Abstract!Next
  <1> DEFINE d == doc[r]
             status == tx[r].status
  <1>0. RunsInv
    BY DEF OutcomeInv
  <1>1. PICK level \in RiskLevel, data \in {"masked", "real"} :
          /\ tx[r].extraction \in {{}, Abstract!RowOf(r, d, level, data)}
          /\ tx[r].task \in {{}, TaskFor(r, level)}
          /\ ~Disturbed(r) /\ tx[r].extraction = {} => status = "failed"
          /\ ~Disturbed(r) /\ tx[r].extraction # {} =>
                /\ tx[r].task = TaskFor(r, level)
                /\ status \in {"failed", IF RequiresReview(level)
                                         THEN "validated" ELSE "reviewed"}
                /\ data = "masked" => status = "failed"
    BY <1>0, CommitEffect, WrittenRow
  <1>2. /\ Abstract!Record(r, d, status)
        /\ status \in Abstract!FinalStatus /\ level \in Abstract!RiskLevel
        /\ d \in Documents
        /\ extractions' = extractions \cup tx[r].extraction
        /\ reviewTasks' = reviewTasks \cup tx[r].task
    BY <1>0, CommitRecords, CommitEffect, SameSchema
  <1>3. /\ tx[r].task \in {{}, Abstract!TaskOf(r, d, level)}
        /\ tx[r].task # {} => tx[r].extraction # {}
        /\ TaskFor(r, level) = Abstract!TaskOf(r, d, level)
    BY <1>0, <1>1, CommitEffect, Writes, SameSchema
  <1> HIDE DEF d, status
  <1>4. CASE ~Disturbed(r) /\ tx[r].extraction = {}
    <2>1. Abstract!ProcessInVain(r, d)
      BY <1>1, <1>2, <1>3, <1>4 DEF Abstract!ProcessInVain
    <2>. QED BY <1>2, <2>1 DEF Abstract!Next
  <1>5. CASE ~Disturbed(r) /\ tx[r].extraction # {}
    <2>1. Abstract!Process(r, d, level, status, data)
      BY <1>1, <1>2, <1>3, <1>5
         DEF Abstract!Process, RequiresReview, Abstract!RequiresReview
    <2>. QED BY <1>2, <2>1 DEF Abstract!Next
  <1>6. CASE Disturbed(r)
    <2>1. reviewTasks' # reviewTasks => extractions' # extractions
      <3>1. \A x \in extractions : x.id # r
        BY CommitEffect DEF PiiInv, PiiTables, Committed
      <3>2. \A x \in tx[r].extraction : x.id = r
        BY <1>1 DEF Abstract!RowOf
      <3>. QED BY <1>2, <1>3, <3>1, <3>2
    <2>2. Abstract!ProcessDisturbed(r, d, level, status, data)
      BY <1>1, <1>2, <1>3, <1>6, <2>1 DEF Abstract!ProcessDisturbed
    <2>. QED BY <1>2, <2>2 DEF Abstract!Next
  <1>. QED BY <1>4, <1>5, <1>6

\* Seen through the committed tables, processing a document is one step.
THEOREM Refinement == Spec => ImplementsAtomicProcessing
  <1>1. Init => Abstract!Init
    <2> SUFFICES ASSUME Init PROVE Abstract!Init
      OBVIOUS
    <2>1. {r \in Runs : Disturbed(r)} = {}
      BY DEF Init, Disturbed, NewContext
    <2>. QED BY <2>1, SameSchema DEF Init, Abstract!Init
  <1>2. RunTypeOK /\ PiiInv /\ OutcomeInv /\ [Next]_vars
          => [Abstract!Next]_(Abstract!vars)
    <2> SUFFICES ASSUME RunTypeOK, PiiInv, OutcomeInv, [Next]_vars
                 PROVE  Abstract!Next \/ UNCHANGED Abstract!vars
      OBVIOUS
    <2>1. CASE UNCHANGED vars
      BY <2>1 DEF vars, Abstract!vars, Abstract!tables, Disturbed
    <2>2. ASSUME NEW d \in Documents, UploadCommits(d) PROVE Abstract!Next
      <3>1. Abstract!Upload(d)
        BY <2>2, SameSchema DEF UploadCommits, Abstract!Upload, Disturbed
      <3>. QED BY <3>1 DEF Abstract!Next
    <2>3. ASSUME UNCHANGED tables,
                 \A q \in Runs : Disturbed(q) => Disturbed(q)'
          PROVE  Abstract!Next
      <3>1. Abstract!Disturb
        BY <2>3 DEF Abstract!Disturb, Abstract!tables, tables
      <3>. QED BY <3>1 DEF Abstract!Next
    <2>4. ASSUME NEW r \in Runs, \/ Begin(r) \/ RunRaises(r)
                                 \/ SoftLimitInStep(r) \/ WorkerLost(r)
                                 \/ Step(r) /\ ~Commit(r)
          PROVE  Abstract!Next
      BY <2>3, <2>4, PrivateStep DEF OutcomeInv
    <2>. QED BY <2>1, <2>2, <2>4, CommitProcesses DEF Next
  <1>. QED
    BY <1>1, <1>2, RunTypes, PiiInvariant, OutcomeInvariant, PTL
       DEF Spec, ImplementsAtomicProcessing, Abstract!Spec
=============================================================================

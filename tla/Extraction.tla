----------------------------- MODULE Extraction -----------------------------
(***************************************************************************)
(* What one run of the pipeline does to the content of one document: the   *)
(* engine of the OCR router that reads it, the masking, the call of the    *)
(* LLM with its retries, the restoring of the masked values, the           *)
(* validation and the risk rules.  Pipeline models the same run seen from  *)
(* the database: rows, transactions, failing statements, interruptions.    *)
(***************************************************************************)
EXTENDS Masking, Rules

CONSTANTS
    Texts,        \* what an engine may read: sequences of words
    Figures,      \* the records [type, fields, unsure] the LLM may answer
    Amounts,      \* the amounts of transactions it may answer
    Inventions,   \* descriptions it may make up: words and mask tokens
    MaxLines,     \* bound on the transactions of an answer
    MaxRetries    \* anthropic_max_retries, ollama_max_retries

ASSUME ExtractionAssumption ==
    /\ Texts \subseteq Seq(Words)
    /\ \A d \in Figures :
          /\ d.type \in DocumentType
          /\ \A f \in DateFields[d.type] :
                d.fields[f] \in {Null, Textual} \cup WrittenDate
    /\ Inventions \subseteq Words \cup Token
    /\ MaxLines \in Nat /\ MaxRetries \in Nat

VARIABLES
    step,          \* the step of the orchestrator, or how the run ended
    engine,        \* the position of the OCR engine in use
    text,          \* ocr_result.full_text
    results,       \* what the analyzer reported
    masked,        \* masking_result.masked_text
    reverse_map,   \* the tokens and what they stand for
    attempts,      \* retries of the call of the LLM so far
    data,          \* extraction_result: Null or an answer
    violations,    \* validation_result.violations
    flags,         \* risk_assessment.flags
    has_errors,    \* an error whose message says "failed"
    final_status

vars == <<step, engine, text, results, masked, reverse_map, attempts, data,
          violations, flags, has_errors, final_status>>

(***************************************************************************)
(* The OCR engines in the order the router tries them, and the ways each   *)
(* may end: it cannot handle the file, it finds no text, it raises         *)
(* OCRError, it crashes with another exception, or it returns a text.      *)
(***************************************************************************)
PDFPlumberEnds == {"unsuitable", "empty", "error", "text"}
\* Loading the model may raise what is no OCRError.
DoctrEnds == {"empty", "error", "crash", "text"}
TesseractEnds == {"empty", "error", "text"}
Engines == <<PDFPlumberEnds, DoctrEnds, TesseractEnds>>

Steps == {"ocr", "pii_mask", "llm_extract", "unmask", "validate",
          "risk_detect", "conclude"}
Ended == {"done", "halted"}

\* A transaction with the place it was copied from, which is not in the data,
\* and 0 if it was made up.
TransactionItem == [at : Nat, description : Words \cup Token, amount : Amounts]

ExtractionTypeOK ==
    /\ step \in Steps \cup Ended
    /\ engine \in DOMAIN Engines
    /\ text \in Seq(Words)
    /\ results \subseteq Result
    /\ masked \in Seq(Words \cup Token)
    /\ DOMAIN reverse_map \subseteq Token
    /\ attempts \in 0..MaxRetries
    /\ data # Null =>
          /\ data.type \in DocumentType
          /\ data.transactions \in Seq(TransactionItem)
    /\ \A v \in violations : v.severity \in {"error", "warning"}
    /\ \A f \in flags : f.risk_level \in RiskLevel
    /\ has_errors \in BOOLEAN
    /\ final_status \in FinalStatus \cup {Absent}

Init ==
    /\ step = "ocr" /\ engine = 1 /\ text = <<>>
    /\ results = {} /\ masked = <<>> /\ reverse_map = <<>>
    /\ attempts = 0 /\ data = Null /\ violations = {} /\ flags = {}
    /\ has_errors = FALSE /\ final_status = Absent
-----------------------------------------------------------------------------
\* A critical step failed.
Halt ==
    /\ step' = "halted" /\ final_status' = "failed"
    /\ UNCHANGED <<engine, text, results, masked, reverse_map, attempts, data,
                   violations, flags, has_errors>>

\* The file of the document cannot be read from the storage.
FileIsGone == step = "ocr" /\ engine = 1 /\ Halt

(***************************************************************************)
(* OCRRouter.extract.                                                      *)
(***************************************************************************)
EngineEnds(ways) == step = "ocr" /\ Engines[engine] \cap ways # {}
WithoutText == {"unsuitable", "empty", "error"}

\* Mutant: after the last engine the router starts over.
StartOver ==
    /\ step = "ocr"
    /\ engine' = IF engine = Len(Engines) THEN 1 ELSE engine + 1
    /\ UNCHANGED <<step, text, results, masked, reverse_map, attempts, data,
                   violations, flags, has_errors, final_status>>

NextEngine ==
    /\ EngineEnds(WithoutText) /\ engine < Len(Engines)
    /\ engine' = engine + 1
    /\ UNCHANGED <<step, text, results, masked, reverse_map, attempts, data,
                   violations, flags, has_errors, final_status>>

AllEnginesFail == EngineEnds(WithoutText) /\ engine = Len(Engines) /\ Halt

\* The router does not catch it.
EngineCrashes == EngineEnds({"crash"}) /\ Halt

EngineReads ==
    /\ EngineEnds({"text"})
    /\ step' = "pii_mask" /\ text' \in Texts
    /\ UNCHANGED <<engine, results, masked, reverse_map, attempts, data,
                   violations, flags, has_errors, final_status>>

(***************************************************************************)
(* StepPIIMask.                                                            *)
(***************************************************************************)
AnalyzerFails == step = "pii_mask" /\ Halt

LeakDetected ==
    /\ step = "pii_mask"
    /\ \E found \in ResultsOf(text) : \E winner \in Winners(found) :
          Leaks(Anonymize(text, found, winner))
    /\ Halt

\* Mutant: the masked text is not checked for leaks.
MaskUnchecked ==
    /\ step = "pii_mask"
    /\ step' = "llm_extract"
    /\ \E found \in ResultsOf(text) : \E winner \in Winners(found) :
          /\ results' = found
          /\ masked' = Anonymize(text, found, winner)
          /\ reverse_map' = ReverseMap(text, found)
    /\ UNCHANGED <<engine, text, attempts, data, violations, flags,
                   has_errors, final_status>>

MaskText ==
    /\ step = "pii_mask"
    /\ step' = "llm_extract"
    /\ \E found \in ResultsOf(text) : \E winner \in Winners(found) :
          /\ results' = found
          /\ masked' = Anonymize(text, found, winner)
          /\ ~Leaks(masked')
          /\ reverse_map' = ReverseMap(text, found)
    /\ UNCHANGED <<engine, text, attempts, data, violations, flags,
                   has_errors, final_status>>

(***************************************************************************)
(* StepLLMExtract.  The answer is the model's: any figures, and for a bank *)
(* statement transactions it copies from its prompt or makes up.  The      *)
(* parser asks for the schema and nothing else: a description may be a     *)
(* mask token the prompt does not have, an amount is a number or null.     *)
(***************************************************************************)
\* What the LLM may write for the place i of its prompt, or for none.
Written(i) == IF i = 0 THEN Inventions ELSE {masked[i]}

Items ==
    LET descriptions == Inventions \cup {masked[i] : i \in DOMAIN masked} IN
    {t \in [at : 0..Len(masked), description : descriptions, amount : Amounts] :
        t.description \in Written(t.at)}

\* Mutant: the retries are not bounded.
RetryAlways ==
    /\ step = "llm_extract"
    /\ attempts' = attempts + 1
    /\ UNCHANGED <<step, engine, text, results, masked, reverse_map, data,
                   violations, flags, has_errors, final_status>>

\* A transient error (rate limit, server error, timeout): tenacity retries.
RetryLLM ==
    /\ step = "llm_extract" /\ attempts < MaxRetries
    /\ attempts' = attempts + 1
    /\ UNCHANGED <<step, engine, text, results, masked, reverse_map, data,
                   violations, flags, has_errors, final_status>>

\* The retries are used up, or the error or the answer is none to retry.
LLMFails ==
    /\ step = "llm_extract"
    /\ step' = "unmask"
    /\ has_errors' \in BOOLEAN
    /\ UNCHANGED <<engine, text, results, masked, reverse_map, attempts, data,
                   violations, flags, final_status>>

LLMAnswers ==
    /\ step = "llm_extract"
    /\ step' = "unmask"
    /\ \E d \in Figures :
          \E n \in 0..(IF d.type = "bank_statement" THEN MaxLines ELSE 0) :
          \E lines \in [1..n -> Items] :
              data' = [type |-> d.type, fields |-> d.fields, unsure |-> d.unsure,
                       transactions |-> lines]
    /\ UNCHANGED <<engine, text, results, masked, reverse_map, attempts,
                   violations, flags, has_errors, final_status>>

(***************************************************************************)
(* StepUnmask.                                                             *)
(***************************************************************************)
Unmasked(t) == [t EXCEPT !.description = Restore(@, reverse_map)]

Unmask ==
    /\ step = "unmask" /\ data # Null
    /\ step' = "validate"
    /\ data' = [data EXCEPT !.transactions = [i \in DOMAIN @ |-> Unmasked(@[i])]]
    /\ UNCHANGED <<engine, text, results, masked, reverse_map, attempts,
                   violations, flags, has_errors, final_status>>

\* Mutant: the failure is logged and leaves no error.
UnmaskFailsUnreported ==
    /\ step = "unmask" /\ data # Null /\ reverse_map # <<>>
    /\ step' = "validate"
    /\ UNCHANGED <<engine, text, results, masked, reverse_map, attempts, data,
                   violations, flags, has_errors, final_status>>

\* Decryption or the second validation against the schema fails: the masked
\* values stay.
UnmaskFails ==
    /\ step = "unmask" /\ data # Null /\ reverse_map # <<>>
    /\ step' = "validate" /\ has_errors' = TRUE
    /\ UNCHANGED <<engine, text, results, masked, reverse_map, attempts, data,
                   violations, flags, final_status>>

(***************************************************************************)
(* StepValidate and StepRisk.  StepValidate raises after it has kept the   *)
(* result (ValidationResult has no errored_count); that error says nothing *)
(* of "failed".                                                            *)
(***************************************************************************)
Validate ==
    /\ step = "validate" /\ data # Null
    /\ step' = "risk_detect" /\ violations' \in Violations(data)
    /\ UNCHANGED <<engine, text, results, masked, reverse_map, attempts, data,
                   flags, has_errors, final_status>>

DetectRisk ==
    /\ step = "risk_detect" /\ data # Null
    /\ step' = "conclude" /\ flags' = Flags(data)
    /\ UNCHANGED <<engine, text, results, masked, reverse_map, attempts, data,
                   violations, has_errors, final_status>>

\* Without an extraction the rest of the steps do nothing.
Skip ==
    /\ step = "unmask" /\ data = Null
    /\ step' = "conclude"
    /\ UNCHANGED <<engine, text, results, masked, reverse_map, attempts, data,
                   violations, flags, has_errors, final_status>>

\* The end of PipelineOrchestrator.run.
Conclude ==
    /\ step = "conclude"
    /\ step' = "done"
    /\ final_status' =
          IF has_errors \/ data = Null THEN "failed"
          ELSE IF RequiresReview(OverallLevel(flags)) THEN "validated"
          ELSE "reviewed"
    /\ UNCHANGED <<engine, text, results, masked, reverse_map, attempts, data,
                   violations, flags, has_errors>>
-----------------------------------------------------------------------------
ReadDocument ==
    FileIsGone \/ NextEngine \/ AllEnginesFail \/ EngineCrashes \/ EngineReads
MaskDocument == AnalyzerFails \/ LeakDetected \/ MaskText
CallLLM == RetryLLM \/ LLMFails \/ LLMAnswers
Assess == Unmask \/ UnmaskFails \/ Skip \/ Validate \/ DetectRisk \/ Conclude

Next == ReadDocument \/ MaskDocument \/ CallLLM \/ Assess

Spec == Init /\ [][Next]_vars

\* One coroutine runs the steps: it stops only where the code stops.
FairSpec == Spec /\ WF_vars(Next)
-----------------------------------------------------------------------------
(***************************************************************************)
(* Properties.                                                             *)
(***************************************************************************)
\* The prompt carries nothing the leakage check would find and none of the
\* places the analyzer reported, whatever it missed and whichever of the
\* overlapping results won (StepPIIMask: "Text must NEVER reach the LLM
\* without passing through this step").
NoPiiInPrompt ==
    step = "llm_extract" =>
        /\ \A i \in DOMAIN masked : masked[i] \notin Patterned
        /\ \A r \in results : masked[r.at] \in Token

\* What is restored for a place is its own word or a word that was reported
\* under the same type: never a word of another type, never a token.  What the
\* LLM made up stays, or becomes a word that was reported.
RestoredByType ==
    step \in {"validate", "risk_detect"} /\ data # Null /\ ~has_errors =>
        \A i \in DOMAIN data.transactions :
            LET t == data.transactions[i] IN
            \/ t.at # 0 /\ t.description = text[t.at]
            \/ t.at = 0 /\ t.description \in Inventions
            \/ \E r, q \in results :
                  /\ t.at \in {0, r.at} /\ q.type = r.type
                  /\ t.description = text[q.at]

\* A document that is not failed shows no mask token that the masking gave out
\* or the prompt had: a failed restoration counts as an error, through the word
\* "failed" in its message.  The tokens it may show are those the LLM made up,
\* which unmasker.py:20-26 leaves where they are and reports to nobody.
ClearedIsRestored ==
    final_status \in {"validated", "reviewed"} =>
        \A i \in DOMAIN data.transactions :
            LET x == data.transactions[i].description IN
            \/ x \in Words
            \/ /\ x \in Inventions /\ x \notin DOMAIN reverse_map
               /\ \A j \in DOMAIN masked : x # masked[j]

\* An amount that a sum needs and that is missing or no number never passes
\* validation in silence (engine.py: "don't silently swallow").
UnverifiableIsReported ==
    step = "risk_detect" /\ data # Null =>
        LET needed == CASE data.type = "bank_statement" ->
                             AmountFields.bank_statement
                        [] data.type = "invoice" ->
                             {"subtotal", "tax_amount", "total_amount"}
                        [] data.type = "portfolio" -> {}
        IN (\E f \in needed : data.fields[f] \in {Null, Textual})
               => violations # {}

\* The day a date means in a document that writes the day before the month, or
\* the month before the day.
DayFirst(value) ==
    LET parts == value.parts IN
    IF value.separator = "-" THEN parts ELSE <<parts[3], parts[2], parts[1]>>
MonthFirst(value) ==
    LET parts == value.parts IN
    IF value.separator = "/" THEN <<parts[3], parts[1], parts[2]>> ELSE DayFirst(value)

\* Two written dates are in order, if both are days of the calendar with the day
\* first; or, if neither is, when both are with the month first.
InOrder(start, end) ==
    /\ IsDay(DayFirst(start)) /\ IsDay(DayFirst(end))
       => Before(DayFirst(start), DayFirst(end))
    /\ /\ ~IsDay(DayFirst(start)) /\ ~IsDay(DayFirst(end))
       /\ IsDay(MonthFirst(start)) /\ IsDay(MonthFirst(end))
       => Before(MonthFirst(start), MonthFirst(end))

\* The amounts of the sums whose rule reports an error, and by how much a sum
\* misses its total.
Summed ==
    [bank_statement |-> AmountFields.bank_statement,
     invoice |-> {"subtotal", "tax_amount", "total_amount"}]
Difference(d) ==
    LET f == d.fields IN
    CASE d.type = "bank_statement" ->
            f.opening_balance + f.total_credits - f.total_debits - f.closing_balance
      [] d.type = "invoice" -> f.subtotal + f.tax_amount - f.total_amount

\* An extraction that passes validation is complete and agrees with itself: it
\* has all required fields, the balances of a statement and the totals of an
\* invoice are right to the cent if they can be summed up, and a period ends after
\* its beginning, however ambiguous its dates are (validation/engine.py,
\* rules/financial.py, rules/temporal.py:18).  A wrong sum of line items is only
\* a warning; of a period with a date that is no day with the day first and one
\* that is, nothing is claimed: the rule reads each date on its own.
PassedIsConsistent ==
    step = "risk_detect" /\ data # Null /\ Passed(violations) =>
        /\ \A f \in Required[data.type] : data.fields[f] # Null
        /\ /\ data.type \in DOMAIN Summed
           /\ \A f \in Summed[data.type] : data.fields[f] \notin {Null, Textual}
           => Magnitude(Difference(data)) <= 1
        /\ /\ data.type = "bank_statement"
           /\ \A f \in DateFields.bank_statement : data.fields[f] # Textual
           => InOrder(data.fields.statement_period_start,
                      data.fields.statement_period_end)

\* The level of a statement is at least the level any one of its transactions
\* would give it: a harmless transaction never hides a risky one.
NoTransactionHidesAnother ==
    step = "conclude" /\ data # Null =>
        \A i \in DOMAIN data.transactions :
            LET alone == [data EXCEPT !.transactions = <<@[i]>>] IN
            \A f \in Flags(alone) :
                LevelOrder[f.risk_level] <= LevelOrder[OverallLevel(flags)]

\* What validation and the risk rules see is what the engine read, of all that
\* the LLM copied from its prompt (StepUnmask: "validation rules, risk
\* detection, and the analyst-facing record all see real data").
RealDataIsSeen ==
    step \in {"validate", "risk_detect"} /\ data # Null /\ ~has_errors =>
        \A i \in DOMAIN data.transactions :
            LET t == data.transactions[i] IN
            t.at # 0 => t.description = text[t.at]

\* Every document ends, with a final status.
Finishes == <>(step \in Ended /\ final_status # Absent)
-----------------------------------------------------------------------------
(***************************************************************************)
(* Why they hold: what each step has made of what the step before it left. *)
(***************************************************************************)
\* Between the masking and the end of the run the masked text, the results and
\* the reverse map are of one piece, and the leakage check found nothing.
IsMasked ==
    \E winner \in Winners(results) :
        /\ results \in ResultsOf(text)
        /\ masked = Anonymize(text, results, winner)
        /\ ~Leaks(masked)
        /\ reverse_map = ReverseMap(text, results)

\* data is an answer of the LLM to the masked text,
IsAnswer ==
    /\ data = [type |-> data.type, fields |-> data.fields,
               unsure |-> data.unsure, transactions |-> data.transactions]
    /\ \E d \in Figures : data.type = d.type /\ data.fields = d.fields
    /\ \A i \in DOMAIN data.transactions :
          data.transactions[i].at \in {0} \cup DOMAIN masked

\* as it came,
ShowsMasks ==
    \A i \in DOMAIN data.transactions :
        LET t == data.transactions[i] IN t.description \in Written(t.at)

\* or with the masked values restored.
IsRestored ==
    \A i \in DOMAIN data.transactions :
        LET t == data.transactions[i] IN
        \E x \in Written(t.at) : t.description = Restore(x, reverse_map)

ExtractionInv ==
    /\ step \notin {"ocr", "pii_mask", "halted"} => IsMasked
    /\ step \in {"ocr", "pii_mask", "llm_extract", "halted"} => data = Null
    /\ data # Null => IsAnswer
    /\ step = "unmask" /\ data # Null => ShowsMasks
    /\ step # "unmask" /\ data # Null /\ ~has_errors => IsRestored
    /\ step = "risk_detect" /\ data # Null => violations \in Violations(data)
    /\ step = "conclude" /\ data # Null => flags = Flags(data)
    /\ final_status \in {"validated", "reviewed"} =>
          step = "done" /\ data # Null /\ ~has_errors
=============================================================================

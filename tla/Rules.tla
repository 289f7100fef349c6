------------------------------- MODULE Rules --------------------------------
(***************************************************************************)
(* The rules of the validation engine (app/services/validation) and of the *)
(* risk detector (app/services/risk) on extracted data.  Amounts are in    *)
(* cents.  FieldExtraction.value is Any: an amount may be missing, or text *)
(* on which arithmetic raises TypeError; a date is a text in some style.   *)
(***************************************************************************)
EXTENDS Schema, Integers, Sequences

CONSTANTS
    Null,              \* None
    Textual,           \* a string that is no amount and no date
    ThisYear,          \* date.today().year
    LargeTransfer,     \* risk_large_transfer_threshold
    RoundNumber,       \* risk_round_number_threshold
    MaxTransactions,   \* risk_velocity_max_transactions
    HighRisk,          \* descriptions with a word of _HIGH_RISK_KEYWORDS
    Structuring        \* descriptions with one of _STRUCTURING_PATTERNS

\* A date that has been read: the year, the month and the day.
Day == Nat \X Nat \X Nat

ASSUME RulesAssumption ==
    /\ Null # Textual /\ Null \notin Day /\ ThisYear \in Nat
    /\ LargeTransfer \in Nat /\ RoundNumber \in Nat /\ MaxTransactions \in Nat

\* The amounts of an extraction, line_items being the sum of the lines that
\* have a total, and those that RequiredFieldsRule asks for.
AmountFields ==
    [bank_statement |->
        {"opening_balance", "closing_balance", "total_credits", "total_debits"},
     invoice |-> {"subtotal", "tax_amount", "total_amount", "line_items"},
     portfolio |-> {"total_value"}]
DateFields ==
    [bank_statement |-> {"statement_period_start", "statement_period_end"},
     invoice |-> {"invoice_date"},
     portfolio |-> {"valuation_date"}]

\* parties stands for the names, references and the currency.
Required ==
    [bank_statement |->
        {"parties", "opening_balance", "closing_balance"} \cup DateFields.bank_statement,
     invoice |-> {"parties", "total_amount", "invoice_date"},
     portfolio |-> {"parties", "total_value", "valuation_date"}]

DocumentType == DOMAIN AmountFields
-----------------------------------------------------------------------------
(***************************************************************************)
(* Dates: three numbers in the order they are written in, and what stands  *)
(* between them.                                                           *)
(***************************************************************************)
Date(parts, separator) == [parts |-> parts, separator |-> separator]

\* The texts _parse_date has a format for; any other is Textual.
WrittenDate == [parts : Nat \X Nat \X Nat, separator : {"-", ".", "/"}]

IsLeap(year) == year % 4 = 0 /\ (year % 100 # 0 \/ year % 400 = 0)
DaysIn(year, month) ==
    IF month = 2 THEN IF IsLeap(year) THEN 29 ELSE 28
    ELSE IF month \in {4, 6, 9, 11} THEN 30 ELSE 31
IsDay(date) ==
    /\ date[1] \in 1 .. 9999 /\ date[2] \in 1 .. 12
    /\ date[3] \in 1 .. DaysIn(date[1], date[2])

\* The formats of _parse_date that fit, in the order they are tried.
Readings(parts, separator) ==
    CASE separator = "-" -> <<parts>>
      [] separator = "." -> <<<<parts[3], parts[2], parts[1]>>>>
      [] separator = "/" -> <<<<parts[3], parts[2], parts[1]>>,
                              <<parts[3], parts[1], parts[2]>>>>

\* The first of them that gives a day of the calendar.
ParseDate(value) ==
    IF value \in {Null, Textual} THEN Null
    ELSE LET read == Readings(value.parts, value.separator)
             days == {i \in DOMAIN read : IsDay(read[i])}
         IN IF days = {} THEN Null
            ELSE read[CHOOSE i \in days : \A j \in days : i <= j]

Before(x, y) ==
    \E i \in 1 .. 3 : x[i] < y[i] /\ \A j \in 1 .. (i - 1) : x[j] = y[j]
-----------------------------------------------------------------------------
(***************************************************************************)
(* Validation.  Each rule gives the set of the results it may have.        *)
(***************************************************************************)
RuleViolation(rule, severity) == [rule |-> rule, severity |-> severity]

RequiredFieldsRule(data) ==
    {RuleViolation("required_fields", "error") :
        f \in {f \in Required[data.type] : data.fields[f] = Null}}

\* Mutant: the exception of a rule is swallowed, as the risk detector does.
SumRuleSwallowed(rule, severity, data, fs, difference) ==
    LET values == {data.fields[f] : f \in fs} IN
    IF Null \in values THEN {{RuleViolation(rule, "warning")}}
    ELSE IF Textual \in values THEN {{}}
    ELSE {v \in SUBSET {RuleViolation(rule, severity)} :
             difference \notin {-1, 1} => (v = {} <=> difference = 0)}

\* A sum that should agree with a total.  The rule reports a missing amount as
\* a warning, and the engine the TypeError of a textual one.  The tolerance is
\* 0.01 in binary floating point: a difference of one cent falls on either
\* side of it.
SumRule(rule, severity, data, fs, difference) ==
    LET values == {data.fields[f] : f \in fs} IN
    IF values \cap {Null, Textual} # {} THEN {{RuleViolation(rule, "warning")}}
    ELSE {v \in SUBSET {RuleViolation(rule, severity)} :
             difference \notin {-1, 1} => (v = {} <=> difference = 0)}

BalanceConsistencyRule(data) ==
    LET f == data.fields IN
    SumRule("balance_consistency", "error", data, AmountFields.bank_statement,
            f.opening_balance + f.total_credits - f.total_debits
              - f.closing_balance)

\* Mutant: a warning, as for the lines.
InvoiceTotalsWarned(data) ==
    LET f == data.fields IN
    SumRule("invoice_totals_consistency", "warning", data,
            {"subtotal", "tax_amount", "total_amount"},
            f.subtotal + f.tax_amount - f.total_amount)

InvoiceTotalsRule(data) ==
    LET f == data.fields IN
    SumRule("invoice_totals_consistency", "error", data,
            {"subtotal", "tax_amount", "total_amount"},
            f.subtotal + f.tax_amount - f.total_amount)

LineItemsTotalRule(data) ==
    LET f == data.fields IN
    IF Null \in {f.line_items, f.subtotal} THEN {{}}
    ELSE SumRule("line_items_total", "warning", data,
                 {"line_items", "subtotal"}, f.line_items - f.subtotal)

NegativeAmountRule(data) ==
    {RuleViolation("negative_amount", "warning") :
        f \in {f \in {"subtotal", "tax_amount", "total_amount"} :
                  /\ data.fields[f] # Null
                  /\ data.fields[f] = Textual \/ data.fields[f] < 0}}

\* Two dates that can be read, and not in this order.
StatementPeriodOrderRule(data) ==
    LET start == ParseDate(data.fields.statement_period_start)
        end == ParseDate(data.fields.statement_period_end)
    IN {RuleViolation("statement_period_order", "error") :
           d \in {d \in {start} : Null \notin {d, end} /\ ~Before(d, end)}}

FutureDateRule(data) ==
    {RuleViolation("future_date", "warning") :
        f \in {f \in DateFields[data.type] :
                  LET date == ParseDate(data.fields[f]) IN
                  date # Null /\ date[1] - ThisYear > 2}}

\* unsure: the fields with a confidence below 0.5.
LowConfidenceRule(data) ==
    {RuleViolation("low_confidence_fields", "warning") : f \in data.unsure}

\* The rules the registry names for the type of the document, and the results
\* the engine may collect from them.
Violations(data) ==
    {RequiredFieldsRule(data) \cup LowConfidenceRule(data)
       \cup FutureDateRule(data) \cup v : v \in
        CASE data.type = "bank_statement" ->
                {b \cup StatementPeriodOrderRule(data) :
                    b \in BalanceConsistencyRule(data)}
          [] data.type = "invoice" ->
                {t \cup l \cup NegativeAmountRule(data) :
                    t \in InvoiceTotalsRule(data), l \in LineItemsTotalRule(data)}
          [] data.type = "portfolio" -> {{}}}

\* ValidationResult.from_violations.
Passed(violations) == \A v \in violations : v.severity # "error"
-----------------------------------------------------------------------------
(***************************************************************************)
(* Risk.  Every rule is about bank statements.                             *)
(***************************************************************************)
AnomalyFlag(rule, level) == [rule |-> rule, risk_level |-> level]

Magnitude(x) == IF x < 0 THEN -x ELSE x

IsLarge(t) == t.amount # Null /\ Magnitude(t.amount) >= LargeTransfer
IsRound(t) ==
    /\ t.amount # Null /\ Magnitude(t.amount) >= RoundNumber
    /\ t.amount % 100000 = 0
IsHighRisk(t) == t.description \in HighRisk
IsStructuring(t) == t.description \in Structuring

TooMany(data) == Len(data.transactions) > MaxTransactions

\* A textual closing balance makes NegativeBalanceRule raise: no flag.
IsOverdrawn(data) ==
    /\ data.fields.closing_balance \notin {Null, Textual}
    /\ data.fields.closing_balance < 0

\* The flags a rule raises on the findings of one kind.
FlagsFor(rule, level, findings) ==
    {AnomalyFlag(rule, level) : f \in findings}

Flags(data) ==
    LET lines == {data.transactions[i] : i \in DOMAIN data.transactions}
        statement == {data}
    IN IF data.type # "bank_statement" THEN {}
       ELSE UNION {
         FlagsFor("large_transfer", "high", {t \in lines : IsLarge(t)}),
         FlagsFor("round_number_amounts", "medium", {t \in lines : IsRound(t)}),
         FlagsFor("high_velocity", "medium", {s \in statement : TooMany(s)}),
         FlagsFor("negative_balance", "medium", {s \in statement : IsOverdrawn(s)}),
         FlagsFor("high_risk_jurisdiction", "high", {t \in lines : IsHighRisk(t)}),
         FlagsFor("unusual_counterparty_pattern", "medium",
                {t \in lines : IsStructuring(t)})}

LevelOrder == [low |-> 1, medium |-> 2, high |-> 3, critical |-> 4]

\* Mutant: the least level among the flags.
LeastLevel(flags) ==
    IF flags = {} THEN "low"
    ELSE CHOOSE l \in {f.risk_level : f \in flags} :
            \A f \in flags : LevelOrder[f.risk_level] >= LevelOrder[l]

\* _compute_overall_level: the highest level among the flags.
OverallLevel(flags) ==
    IF flags = {} THEN "low"
    ELSE CHOOSE l \in {f.risk_level : f \in flags} :
            \A f \in flags : LevelOrder[f.risk_level] <= LevelOrder[l]
=============================================================================

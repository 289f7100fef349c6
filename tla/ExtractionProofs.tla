-------------------------- MODULE ExtractionProofs --------------------------
(***************************************************************************)
(* What reaches the LLM, what is restored, and what passes validation and  *)
(* the risk rules, for any text, any answer of the LLM and any number of   *)
(* transactions and retries.  First what the operators of Masking and      *)
(* Rules return, for every text, every set of results and every answer.    *)
(***************************************************************************)
EXTENDS Extraction, FiniteSetTheorems, TLAPS

-----------------------------------------------------------------------------
(***************************************************************************)
(* Masking.                                                                *)
(***************************************************************************)
\* The analyzer reports places of the text, under types they may have.
LEMMA ResultTypes ==
    ASSUME NEW lines \in Seq(Words), NEW found \in ResultsOf(lines)
    PROVE  /\ found \subseteq Result
           /\ \A r \in found :
                 /\ r = [at |-> r.at, type |-> r.type]
                 /\ r.at \in DOMAIN lines /\ r.at \in 1 .. Len(lines)
                 /\ r.type \in EntityTypes
  BY DEF ResultsOf, Result

\* The results of one type are as many as their places: finitely many.
LEMMA FinitelyManyOfType ==
    ASSUME NEW lines \in Seq(Words), NEW found \in ResultsOf(lines), NEW type
    PROVE  IsFiniteSet(OfType(found, type))
  <1> DEFINE S == OfType(found, type)
             at == [q \in S |-> q.at]
  <1>1. \A q \in S : q = [at |-> q.at, type |-> type] /\ q.at \in 1 .. Len(lines)
    BY ResultTypes DEF OfType
  <1>2. at \in Injection(S, 1 .. Len(lines))
    BY <1>1 DEF Injection, IsInjective
  <1>3. IsFiniteSet(1 .. Len(lines))
    BY FS_Interval
  <1>. HIDE DEF at
  <1>. QED BY <1>2, <1>3, FS_Injection

\* A result counts itself: the number of its token, and the number of the
\* operator of its type, are positive.
LEMMA NumbersArePositive ==
    ASSUME NEW lines \in Seq(Words), NEW found \in ResultsOf(lines),
           NEW r \in found
    PROVE  /\ TokenOf(found, r) \in Token
           /\ OperatorOf(found, r.type) \in Token
  <1> DEFINE S == OfType(found, r.type)
             T == {q \in S : q.at <= r.at}
  <1>1. IsFiniteSet(S) /\ T \in SUBSET S
    BY FinitelyManyOfType
  <1>2. IsFiniteSet(T)
    BY <1>1, FS_Subset
  <1>3. r.at \in Nat /\ r.type \in EntityTypes
    BY ResultTypes
  <1>4. r \in S /\ r \in T
    BY <1>3 DEF OfType
  <1>5. Cardinality(S) \in Nat \ {0} /\ Cardinality(T) \in Nat \ {0}
    BY <1>1, <1>2, <1>4, FS_CardinalityType, FS_EmptySet
  <1>. QED BY <1>3, <1>5 DEF TokenOf, OperatorOf, Token

\* A set of places that is not empty has a last one.
LEMMA LastPlace ==
    ASSUME NEW n \in Nat, NEW S \in SUBSET (1 .. n), S # {}
    PROVE  \E i \in S : \A j \in S : j <= i
  <1> DEFINE T == {n - i : i \in S}
  <1>1. T \subseteq Nat /\ T # {}
    <2>1. \A i \in S : i \in 1 .. n /\ n - i \in Nat
      OBVIOUS
    <2>2. PICK i \in S : TRUE
      OBVIOUS
    <2>3. n - i \in T
      BY <2>2
    <2>. QED BY <2>1, <2>3
  <1>2. \E x \in T : \A y \in T : ~(<<y, x>> \in OpToRel(<, Nat))
    <2>. HIDE DEF T
    <2>. DEFINE R == OpToRel(<, Nat)
    <2>1. IsWellFoundedOn(R, Nat)
      BY NatLessThanWellFounded
    <2>. HIDE DEF R
    <2>2. \E x \in T : \A y \in T : ~(<<y, x>> \in R)
      BY <1>1, <2>1, WFMin
    <2>. QED BY <2>2 DEF R
  <1>3. PICK i \in S : \A j \in S : ~(n - j < n - i)
    BY <1>1, <1>2 DEF OpToRel
  <1>. QED BY <1>3

\* The token of the operator of a type, which replaces all results of the type,
\* is the token of one of them, of the last: it is in the reverse map.
LEMMA OperatorIsToken ==
    ASSUME NEW lines \in Seq(Words), NEW found \in ResultsOf(lines),
           NEW r \in found
    PROVE  \E q \in found : /\ q.type = r.type
                              /\ TokenOf(found, q) = OperatorOf(found, r.type)
  <1> DEFINE S == OfType(found, r.type)
             places == {q.at : q \in S}
  <1>1. S \subseteq found /\ r \in S /\ \A q \in S : q.type = r.type
    BY DEF OfType
  <1>2. places \in SUBSET (1 .. Len(lines)) /\ places # {} /\ Len(lines) \in Nat
    BY <1>1, ResultTypes
  <1>3. PICK i \in places : \A j \in places : j <= i
    BY <1>2, LastPlace
  <1>4. PICK q \in S : \A p \in S : p.at <= q.at
    BY <1>3
  <1>5. {p \in S : p.at <= q.at} = S
    BY <1>4
  <1>6. q \in found /\ q.type = r.type
    BY <1>1
  <1>7. TokenOf(found, q) = OperatorOf(found, r.type)
    BY <1>5, <1>6 DEF TokenOf, OperatorOf
  <1>. QED BY <1>6, <1>7

\* The reverse map leads from tokens to words, each to one that was reported
\* under the type of the token.
LEMMA ReverseMapTypes ==
    ASSUME NEW lines \in Seq(Words), NEW found \in ResultsOf(lines)
    PROVE  /\ DOMAIN ReverseMap(lines, found) =
                {TokenOf(found, r) : r \in found}
           /\ DOMAIN ReverseMap(lines, found) \subseteq Token
           /\ \A token \in DOMAIN ReverseMap(lines, found) :
                 /\ ReverseMap(lines, found)[token] \in Words
                 /\ \E q \in found :
                       /\ q.type = token.type
                       /\ ReverseMap(lines, found)[token] = lines[q.at]
  <1> DEFINE Tokens == {TokenOf(found, r) : r \in found}
  <1>1. DOMAIN ReverseMap(lines, found) = Tokens
    BY DEF ReverseMap
  <1>2. Tokens \subseteq Token
    BY NumbersArePositive
  <1>3. ASSUME NEW token \in Tokens
        PROVE  \E q \in found :
                  /\ q.type = token.type
                  /\ ReverseMap(lines, found)[token] = lines[q.at]
    <2> DEFINE q == CHOOSE r \in found : TokenOf(found, r) = token
    <2>1. \E r \in found : TokenOf(found, r) = token
      BY <1>3
    <2>2. q \in found /\ TokenOf(found, q) = token
      BY <2>1
    <2>3. ReverseMap(lines, found)[token] = lines[q.at]
      BY <1>3 DEF ReverseMap
    <2>. HIDE DEF q
    <2>. QED BY <2>2, <2>3 DEF TokenOf
  <1>4. \A r \in found : lines[r.at] \in Words
    BY ResultTypes
  <1>. QED BY <1>1, <1>2, <1>3, <1>4

\* Masking leaves a word where nothing was reported, and puts the operator of
\* one of the reported types where something was.
LEMMA AnonymizedPlace ==
    ASSUME NEW lines \in Seq(Words), NEW found \in ResultsOf(lines),
           NEW winner \in Winners(found), NEW i \in DOMAIN lines
    PROVE  \/ /\ \A r \in found : r.at # i
              /\ Anonymize(lines, found, winner)[i] = lines[i]
           \/ \E r \in found :
                 /\ r.at = i
                 /\ Anonymize(lines, found, winner)[i] = OperatorOf(found, r.type)
  <1>1. DOMAIN winner = {r.at : r \in found}
    BY DEF Winners
  <1>2. CASE i \in DOMAIN winner
    <2> DEFINE r == [at |-> i, type |-> winner[i]]
    <2>1. r \in found
      BY <1>2 DEF Winners
    <2>2. Anonymize(lines, found, winner)[i] = OperatorOf(found, r.type)
      BY <1>2 DEF Anonymize
    <2>. QED BY <2>1, <2>2
  <1>3. CASE i \notin DOMAIN winner
    <2>1. Anonymize(lines, found, winner)[i] = lines[i]
      BY <1>3 DEF Anonymize
    <2>. QED BY <1>1, <1>3, <2>1
  <1>. QED BY <1>2, <1>3

\* The masked text has the words of the text and tokens, one for one.
LEMMA AnonymizeTypes ==
    ASSUME NEW lines \in Seq(Words), NEW found \in ResultsOf(lines),
           NEW winner \in Winners(found)
    PROVE  /\ Anonymize(lines, found, winner) \in Seq(Words \cup Token)
           /\ DOMAIN Anonymize(lines, found, winner) = DOMAIN lines
           /\ \A r \in found : Anonymize(lines, found, winner)[r.at] \in Token
  <1> DEFINE shown == Anonymize(lines, found, winner)
  <1>1. DOMAIN shown = DOMAIN lines
    BY DEF Anonymize
  <1>2. ASSUME NEW i \in DOMAIN lines
        PROVE  shown[i] \in Words \cup Token
    <2>1. lines[i] \in Words
      OBVIOUS
    <2>. HIDE DEF shown
    <2>. QED BY <2>1, AnonymizedPlace, NumbersArePositive DEF shown
  <1>3. ASSUME NEW r \in found
        PROVE  shown[r.at] \in Token
    <2>1. r.at \in DOMAIN lines
      BY ResultTypes
    <2>2. PICK q \in found : shown[r.at] = OperatorOf(found, q.type)
      BY <2>1, AnonymizedPlace
    <2>. QED BY <2>2, NumbersArePositive
  <1>4. shown \in [1 .. Len(lines) -> Words \cup Token]
    BY <1>2 DEF Anonymize
  <1>5. shown \in Seq(Words \cup Token)
    BY <1>4
  <1>. QED BY <1>1, <1>3, <1>5

\* Restoring gives back a word, whatever the analyzer reported and the
\* anonymizer kept; where no word looks like a token, it is the word of the
\* place or one that was reported under a type of the place.
LEMMA RestoredPlace ==
    ASSUME NEW lines \in Seq(Words), NEW found \in ResultsOf(lines),
           NEW winner \in Winners(found), NEW i \in DOMAIN lines
    PROVE  LET word == Restore(Anonymize(lines, found, winner)[i],
                               ReverseMap(lines, found))
           IN  /\ word \in Words
               /\ \/ lines[i] \in Token
                  \/ word = lines[i]
                  \/ \E r, q \in found :
                        /\ r.at = i /\ q.type = r.type
                        /\ word = lines[q.at]
  <1> DEFINE map == ReverseMap(lines, found)
             x == Anonymize(lines, found, winner)[i]
  <1>1. /\ DOMAIN map = {TokenOf(found, r) : r \in found}
        /\ DOMAIN map \subseteq Token
        /\ \A token \in DOMAIN map :
              /\ map[token] \in Words
              /\ \E q \in found : q.type = token.type /\ map[token] = lines[q.at]
    BY ReverseMapTypes
  <1>2. \/ x = lines[i]
        \/ \E r \in found : r.at = i /\ x = OperatorOf(found, r.type)
    BY AnonymizedPlace
  <1>3. lines[i] \in Words
    OBVIOUS
  <1>4. \A r \in found : /\ OperatorOf(found, r.type) \in DOMAIN map
                           /\ OperatorOf(found, r.type).type = r.type
    BY <1>1, OperatorIsToken DEF OperatorOf
  <1>. HIDE DEF map, x
  <1>5. CASE x \notin DOMAIN map
    BY <1>2, <1>3, <1>4, <1>5 DEF Restore, map, x
  <1>6. CASE x \in DOMAIN map
    <2>1. Restore(x, map) = map[x] /\ map[x] \in Words
      BY <1>1, <1>6 DEF Restore
    <2>2. CASE x = lines[i]
      BY <1>1, <1>6, <2>1, <2>2 DEF map, x
    <2>3. CASE \E r \in found : r.at = i /\ x = OperatorOf(found, r.type)
      <3>1. PICK r \in found : r.at = i /\ x = OperatorOf(found, r.type)
        BY <2>3
      <3>2. PICK q \in found : q.type = x.type /\ map[x] = lines[q.at]
        BY <1>1, <1>6
      <3>3. q.type = r.type
        BY <1>4, <3>1, <3>2
      <3>. QED BY <2>1, <3>1, <3>2, <3>3 DEF map, x
    <2>. QED BY <1>2, <2>2, <2>3
  <1>. QED BY <1>5, <1>6
-----------------------------------------------------------------------------
(***************************************************************************)
(* Validation.                                                             *)
(***************************************************************************)
\* A date that the first format of its style can read is read with it.
LEMMA FirstFormatWins ==
    ASSUME NEW value, value \notin {Null, Textual},
           NEW n \in {1, 2}, DOMAIN Readings(value.parts, value.separator) = 1 .. n,
           IsDay(Readings(value.parts, value.separator)[1])
    PROVE  ParseDate(value) = Readings(value.parts, value.separator)[1]
  <1> DEFINE read == Readings(value.parts, value.separator)
             days == {i \in DOMAIN read : IsDay(read[i])}
             first == CHOOSE i \in days : \A j \in days : i <= j
  <1>. HIDE DEF read
  <1>1. days \subseteq {1, 2} /\ 1 \in days
    BY DEF read
  <1>. HIDE DEF days
  <1>2. \E i \in days : \A j \in days : i <= j
    BY <1>1
  <1>3. first \in days /\ \A j \in days : first <= j
    BY <1>2
  <1>. HIDE DEF first
  <1>4. first = 1
    BY <1>1, <1>3
  <1>. QED BY <1>1, <1>4 DEF ParseDate, read, days, first

\* Where it cannot, and the second can, it is read with the second.
LEMMA SecondFormatIsNext ==
    ASSUME NEW value, value \notin {Null, Textual},
           DOMAIN Readings(value.parts, value.separator) = 1 .. 2,
           ~IsDay(Readings(value.parts, value.separator)[1]),
           IsDay(Readings(value.parts, value.separator)[2])
    PROVE  ParseDate(value) = Readings(value.parts, value.separator)[2]
  <1> DEFINE read == Readings(value.parts, value.separator)
             days == {i \in DOMAIN read : IsDay(read[i])}
             first == CHOOSE i \in days : \A j \in days : i <= j
  <1>. HIDE DEF read
  <1>1. days = {2}
    BY DEF read
  <1>. HIDE DEF days
  <1>2. first = 2
    BY <1>1
  <1>. HIDE DEF first
  <1>. QED BY <1>1, <1>2 DEF ParseDate, read, days, first

\* What a sum rule may report: something if an amount is missing or textual,
\* and otherwise nothing only of a difference within a cent.
LEMMA SumRuleResults ==
    ASSUME NEW rule, NEW severity, NEW reply, NEW fs, NEW difference,
           NEW v \in SumRule(rule, severity, reply, fs, difference)
    PROVE  /\ \A x \in v : x.severity \in {severity, "warning"}
           /\ (\E f \in fs : reply.fields[f] \in {Null, Textual}) => v # {}
           /\ {reply.fields[f] : f \in fs} \cap {Null, Textual} = {} =>
                 /\ \A x \in v : x.severity = severity
                 /\ v = {} => difference \in {-1, 0, 1}
  <1> DEFINE values == {reply.fields[f] : f \in fs}
  <1>1. CASE values \cap {Null, Textual} # {}
    <2>1. v = {RuleViolation(rule, "warning")}
      BY <1>1 DEF SumRule
    <2>. QED BY <1>1, <2>1 DEF RuleViolation
  <1>2. CASE values \cap {Null, Textual} = {}
    <2>1. /\ v \subseteq {RuleViolation(rule, severity)}
          /\ difference \notin {-1, 1} => (v = {} <=> difference = 0)
      BY <1>2 DEF SumRule
    <2>2. \A f \in fs : reply.fields[f] \in values
      OBVIOUS
    <2>. QED BY <1>2, <2>1, <2>2 DEF RuleViolation
  <1>. QED BY <1>1, <1>2

\* The engine collects what every rule of the type has to say.
LEMMA CollectedViolations ==
    ASSUME NEW reply, reply.type \in DocumentType, NEW v \in Violations(reply)
    PROVE  /\ RequiredFieldsRule(reply) \subseteq v
           /\ reply.type = "bank_statement" =>
                 \E b \in BalanceConsistencyRule(reply) :
                    b \subseteq v /\ StatementPeriodOrderRule(reply) \subseteq v
           /\ reply.type = "invoice" =>
                 \E t \in InvoiceTotalsRule(reply) : t \subseteq v
           /\ \A x \in v : x.severity \in {"error", "warning"}
  <1> DEFINE common == RequiredFieldsRule(reply) \cup LowConfidenceRule(reply)
                         \cup FutureDateRule(reply)
  <1>1. reply.type \in {"bank_statement", "invoice", "portfolio"}
    BY DEF DocumentType, AmountFields
  <1>2. \A x \in common \cup StatementPeriodOrderRule(reply)
                  \cup NegativeAmountRule(reply) :
           x.severity \in {"error", "warning"}
    BY DEF RequiredFieldsRule, LowConfidenceRule, FutureDateRule,
           StatementPeriodOrderRule, NegativeAmountRule, RuleViolation
  <1>3. \A s \in BalanceConsistencyRule(reply) \cup InvoiceTotalsRule(reply)
                   \cup LineItemsTotalRule(reply) :
           \A x \in s : x.severity \in {"error", "warning"}
    BY SumRuleResults DEF BalanceConsistencyRule, InvoiceTotalsRule,
                          LineItemsTotalRule
  <1>4. RequiredFieldsRule(reply) \subseteq common
    OBVIOUS
  <1> DEFINE Own == CASE reply.type = "bank_statement" ->
                            {b \cup StatementPeriodOrderRule(reply) :
                                b \in BalanceConsistencyRule(reply)}
                      [] reply.type = "invoice" ->
                            {t \cup l \cup NegativeAmountRule(reply) :
                                t \in InvoiceTotalsRule(reply),
                                l \in LineItemsTotalRule(reply)}
                      [] reply.type = "portfolio" -> {{}}
  <1>5. PICK own \in Own : v = common \cup own
    <2>1. Violations(reply) = {common \cup o : o \in Own}
      BY DEF Violations
    <2>. HIDE DEF common, Own
    <2>. QED BY <2>1
  <1>. HIDE DEF common
  <1>6. CASE reply.type = "bank_statement"
    <2>1. PICK b \in BalanceConsistencyRule(reply) :
            own = b \cup StatementPeriodOrderRule(reply)
      BY <1>5, <1>6
    <2>. QED BY <1>2, <1>3, <1>4, <1>5, <1>6, <2>1
  <1>7. CASE reply.type = "invoice"
    <2>1. PICK t \in InvoiceTotalsRule(reply), l \in LineItemsTotalRule(reply) :
            own = t \cup l \cup NegativeAmountRule(reply)
      BY <1>5, <1>7
    <2>. QED BY <1>2, <1>3, <1>4, <1>5, <1>7, <2>1
  <1>8. CASE reply.type = "portfolio"
    <2>1. own = {}
      BY <1>5, <1>8
    <2>. QED BY <1>2, <1>4, <1>5, <1>8, <2>1
  <1>. QED BY <1>1, <1>6, <1>7, <1>8

\* An amount that a sum of the document needs and that is missing or textual
\* leaves a violation.
LEMMA UnverifiableLeavesViolation ==
    ASSUME NEW reply, reply.type \in {"bank_statement", "invoice"},
           NEW v \in Violations(reply),
           NEW f \in IF reply.type = "bank_statement"
                     THEN AmountFields.bank_statement
                     ELSE {"subtotal", "tax_amount", "total_amount"},
           reply.fields[f] \in {Null, Textual}
    PROVE  v # {}
  <1>1. reply.type \in DocumentType
    BY DEF DocumentType, AmountFields
  <1>2. CASE reply.type = "bank_statement"
    <2>1. PICK b \in BalanceConsistencyRule(reply) : b \subseteq v
      BY <1>1, <1>2, CollectedViolations
    <2>2. b # {}
      BY <1>2, SumRuleResults DEF BalanceConsistencyRule
    <2>. QED BY <2>1, <2>2
  <1>3. CASE reply.type = "invoice"
    <2>1. PICK t \in InvoiceTotalsRule(reply) : t \subseteq v
      BY <1>1, <1>3, CollectedViolations
    <2>2. t # {}
      BY <1>3, SumRuleResults DEF InvoiceTotalsRule
    <2>. QED BY <2>1, <2>2
  <1>. QED BY <1>2, <1>3

\* An extraction that passes has its required fields.
LEMMA PassedIsComplete ==
    ASSUME NEW reply, reply.type \in DocumentType,
           NEW v \in Violations(reply), Passed(v)
    PROVE  \A f \in Required[reply.type] : reply.fields[f] # Null
  <1>1. SUFFICES ASSUME NEW f \in Required[reply.type], reply.fields[f] = Null
                 PROVE  FALSE
    OBVIOUS
  <1>2. RuleViolation("required_fields", "error") \in RequiredFieldsRule(reply)
    BY <1>1 DEF RequiredFieldsRule
  <1>3. RuleViolation("required_fields", "error") \in v
    BY <1>2, CollectedViolations
  <1>. QED BY <1>3 DEF Passed, RuleViolation

\* The balances of a statement, and the totals of an invoice, that passes agree
\* to the cent, if they can be summed up.
LEMMA PassedAddsUp ==
    ASSUME NEW reply, reply.type \in DOMAIN Summed,
           NEW v \in Violations(reply), Passed(v),
           \A f \in Summed[reply.type] : reply.fields[f] \notin {Null, Textual}
    PROVE  Magnitude(Difference(reply)) <= 1
  <1> DEFINE amounts == Summed[reply.type]
             difference == Difference(reply)
  <1>1. reply.type \in {"bank_statement", "invoice"}
    BY DEF Summed
  <1>2. reply.type \in DocumentType
    BY <1>1 DEF DocumentType, AmountFields
  <1>3. \E rule : \E sum \in SumRule(rule, "error", reply, amounts, difference) :
           sum \subseteq v
    <2>1. CASE reply.type = "bank_statement"
      <3>1. PICK b \in BalanceConsistencyRule(reply) : b \subseteq v
        BY <1>2, <2>1, CollectedViolations
      <3>2. b \in SumRule("balance_consistency", "error", reply, amounts, difference)
        BY <2>1 DEF BalanceConsistencyRule, Summed, Difference
      <3>. QED BY <3>1, <3>2
    <2>2. CASE reply.type = "invoice"
      <3>1. PICK t \in InvoiceTotalsRule(reply) : t \subseteq v
        BY <1>2, <2>2, CollectedViolations
      <3>2. t \in SumRule("invoice_totals_consistency", "error", reply, amounts,
                          difference)
        BY <2>2 DEF InvoiceTotalsRule, Summed, Difference
      <3>. QED BY <3>1, <3>2
    <2>. QED BY <1>1, <2>1, <2>2
  <1>. HIDE DEF difference, amounts
  <1>4. PICK rule : \E sum \in SumRule(rule, "error", reply, amounts, difference) :
           sum \subseteq v
    BY <1>3
  <1>5. PICK sum \in SumRule(rule, "error", reply, amounts, difference) :
           sum \subseteq v
    BY <1>4
  <1>6. {reply.fields[f] : f \in amounts} \cap {Null, Textual} = {}
    BY DEF amounts
  <1>7. /\ \A x \in sum : x.severity = "error"
        /\ sum = {} => difference \in {-1, 0, 1}
    BY <1>6, SumRuleResults
  <1>8. sum = {}
    BY <1>5, <1>7 DEF Passed
  <1>9. Magnitude(difference) <= 1
    BY <1>7, <1>8 DEF Magnitude
  <1>. QED BY <1>9 DEF difference

\* The dates of a statement that passes, once read, are in order.
LEMMA PassedIsInOrder ==
    ASSUME NEW reply, reply.type = "bank_statement",
           NEW v \in Violations(reply), Passed(v),
           NEW start, start = ParseDate(reply.fields.statement_period_start),
           NEW end, end = ParseDate(reply.fields.statement_period_end),
           start # Null, end # Null
    PROVE  Before(start, end)
  <1>1. SUFFICES ASSUME ~Before(start, end)
                 PROVE  FALSE
    OBVIOUS
  <1>2. RuleViolation("statement_period_order", "error")
           \in StatementPeriodOrderRule(reply)
    BY <1>1 DEF StatementPeriodOrderRule
  <1>3. reply.type \in DocumentType
    BY DEF DocumentType, AmountFields
  <1>4. RuleViolation("statement_period_order", "error") \in v
    BY <1>2, <1>3, CollectedViolations
  <1>. QED BY <1>4 DEF Passed, RuleViolation
-----------------------------------------------------------------------------
(***************************************************************************)
(* Risk.                                                                   *)
(***************************************************************************)
\* The rules raise flags of two levels.
LEMMA FlagLevels ==
    ASSUME NEW reply
    PROVE  \A f \in Flags(reply) : f.risk_level \in {"medium", "high"}
  <1>1. ASSUME NEW rule, NEW level \in {"medium", "high"}, NEW findings
        PROVE  \A f \in FlagsFor(rule, level, findings) :
                   f.risk_level \in {"medium", "high"}
    BY DEF FlagsFor, AnomalyFlag
  <1>. QED BY <1>1 DEF Flags

\* The flags of a statement that had only one of its transactions are flags of
\* the statement.
LEMMA FlagsOfOne ==
    ASSUME NEW reply, NEW alone, NEW S, reply.transactions \in Seq(S),
           NEW i \in DOMAIN reply.transactions,
           alone.type = reply.type, alone.fields = reply.fields,
           alone.transactions = <<reply.transactions[i]>>
    PROVE  Flags(alone) \subseteq Flags(reply)
  <1> DEFINE rows(d) == {d.transactions[j] : j \in DOMAIN d.transactions}
  <1>1. rows(alone) \subseteq rows(reply)
    <2>1. DOMAIN alone.transactions = {1}
          /\ alone.transactions[1] = reply.transactions[i]
      OBVIOUS
    <2>. QED BY <2>1
  <1>2. TooMany(alone) => TooMany(reply)
    <2>1. Len(alone.transactions) = 1 /\ Len(reply.transactions) \in Nat
          /\ i \in 1 .. Len(reply.transactions)
      OBVIOUS
    <2>2. Len(alone.transactions) <= Len(reply.transactions)
      BY <2>1
    <2>. QED BY <2>1, <2>2, RulesAssumption DEF TooMany
  <1>3. IsOverdrawn(alone) <=> IsOverdrawn(reply)
    BY DEF IsOverdrawn
  <1>. HIDE DEF rows
  <1>4. ASSUME NEW rule, NEW level, NEW S1, NEW S2, S1 # {} => S2 # {}
        PROVE  FlagsFor(rule, level, S1) \subseteq FlagsFor(rule, level, S2)
    BY <1>4 DEF FlagsFor
  <1>5. /\ {t \in rows(alone) : IsLarge(t)} \subseteq {t \in rows(reply) : IsLarge(t)}
        /\ {t \in rows(alone) : IsRound(t)} \subseteq {t \in rows(reply) : IsRound(t)}
        /\ {t \in rows(alone) : IsHighRisk(t)} \subseteq {t \in rows(reply) : IsHighRisk(t)}
        /\ {t \in rows(alone) : IsStructuring(t)} \subseteq {t \in rows(reply) : IsStructuring(t)}
    BY <1>1
  <1>6. /\ {s \in {alone} : TooMany(s)} # {} => {s \in {reply} : TooMany(s)} # {}
        /\ {s \in {alone} : IsOverdrawn(s)} # {} => {s \in {reply} : IsOverdrawn(s)} # {}
    <2>1. ASSUME NEW s \in {alone}, TooMany(s)
          PROVE  TooMany(alone)
      BY <2>1
    <2>2. ASSUME NEW s \in {alone}, IsOverdrawn(s)
          PROVE  IsOverdrawn(alone)
      BY <2>2
    <2>3. TooMany(reply) => reply \in {s \in {reply} : TooMany(s)}
      OBVIOUS
    <2>4. IsOverdrawn(reply) => reply \in {s \in {reply} : IsOverdrawn(s)}
      OBVIOUS
    <2>. QED BY <1>2, <1>3, <2>1, <2>2, <2>3, <2>4
  <1>7. /\ FlagsFor("large_transfer", "high", {t \in rows(alone) : IsLarge(t)})
             \subseteq FlagsFor("large_transfer", "high", {t \in rows(reply) : IsLarge(t)})
        /\ FlagsFor("round_number_amounts", "medium", {t \in rows(alone) : IsRound(t)})
             \subseteq FlagsFor("round_number_amounts", "medium", {t \in rows(reply) : IsRound(t)})
        /\ FlagsFor("high_risk_jurisdiction", "high", {t \in rows(alone) : IsHighRisk(t)})
             \subseteq FlagsFor("high_risk_jurisdiction", "high", {t \in rows(reply) : IsHighRisk(t)})
        /\ FlagsFor("unusual_counterparty_pattern", "medium", {t \in rows(alone) : IsStructuring(t)})
             \subseteq FlagsFor("unusual_counterparty_pattern", "medium", {t \in rows(reply) : IsStructuring(t)})
    BY <1>5, <1>4
  <1>8. /\ FlagsFor("high_velocity", "medium", {s \in {alone} : TooMany(s)})
             \subseteq FlagsFor("high_velocity", "medium", {s \in {reply} : TooMany(s)})
        /\ FlagsFor("negative_balance", "medium", {s \in {alone} : IsOverdrawn(s)})
             \subseteq FlagsFor("negative_balance", "medium", {s \in {reply} : IsOverdrawn(s)})
    BY <1>6, <1>4
  <1>. QED BY <1>7, <1>8 DEF Flags, rows

\* The overall level is no lower than the level of any flag.
LEMMA OverallIsHighest ==
    ASSUME NEW raised, \A f \in raised : f.risk_level \in {"medium", "high"},
           NEW f \in raised
    PROVE  /\ LevelOrder[f.risk_level] <= LevelOrder[OverallLevel(raised)]
           /\ OverallLevel(raised) \in RiskLevel
  <1> DEFINE levels == {g.risk_level : g \in raised}
             IsHighest(l) == \A g \in raised : LevelOrder[g.risk_level] <= LevelOrder[l]
  <1>1. LevelOrder["medium"] = 2 /\ LevelOrder["high"] = 3
    BY DEF LevelOrder
  <1>2. \E l \in levels : IsHighest(l)
    <2>1. CASE \E g \in raised : g.risk_level = "high"
      <3>1. "high" \in levels
        BY <2>1
      <3>2. IsHighest("high")
        BY <1>1
      <3>. QED BY <3>1, <3>2
    <2>2. CASE \A g \in raised : g.risk_level = "medium"
      <3>1. "medium" \in levels
        BY <2>2
      <3>2. IsHighest("medium")
        BY <1>1, <2>2
      <3>. QED BY <3>1, <3>2
    <2>. QED BY <2>1, <2>2
  <1>3. OverallLevel(raised) = CHOOSE l \in levels : IsHighest(l)
    BY DEF OverallLevel
  <1>4. OverallLevel(raised) \in levels /\ IsHighest(OverallLevel(raised))
    <2>. HIDE DEF levels, IsHighest
    <2>. QED BY <1>2, <1>3
  <1>. QED BY <1>4 DEF RiskLevel

-----------------------------------------------------------------------------
(***************************************************************************)
(* Extraction.                                                             *)
(***************************************************************************)
\* What the LLM may write into a line: a description of the place it says, and
\* into an answer: any number of lines.
LEMMA LineTypes ==
    ASSUME masked \in Seq(Words \cup Token),
           NEW n \in Nat, NEW lines \in [1..n -> Items]
    PROVE  /\ lines \in Seq(TransactionItem)
           /\ \A i \in DOMAIN lines :
                 /\ lines[i].at \in {0} \cup DOMAIN masked
                 /\ lines[i].description \in Written(lines[i].at)
  <1> DEFINE read == {masked[i] : i \in DOMAIN masked}
  <1>1. read \subseteq Words \cup Token /\ Inventions \subseteq Words \cup Token
    BY ExtractionAssumption
  <1>2. Len(masked) \in Nat /\ DOMAIN masked = 1..Len(masked)
    OBVIOUS
  <1>3. ASSUME NEW t \in Items
        PROVE  /\ t \in TransactionItem
               /\ t.at \in {0} \cup DOMAIN masked
               /\ t.description \in Written(t.at)
    <2>1. /\ t \in [at : 0..Len(masked), description : Inventions \cup read,
                    amount : Amounts]
          /\ t.description \in Written(t.at)
      BY DEF Items
    <2>. HIDE DEF read
    <2>. QED BY <1>1, <1>2, <2>1 DEF TransactionItem
  <1>4. DOMAIN lines = 1..n /\ \A i \in 1..n : lines[i] \in Items
    OBVIOUS
  <1>5. lines \in [1..n -> TransactionItem]
    BY <1>3, <1>4
  <1>. QED BY <1>3, <1>4, <1>5

\* Until the text is masked there is nothing to be true of.
LEMMA ReadingStep ==
    ASSUME ExtractionTypeOK, ExtractionInv,
           ReadDocument \/ AnalyzerFails \/ LeakDetected
    PROVE  ExtractionTypeOK' /\ ExtractionInv'
  <1>1. /\ step \in {"ocr", "pii_mask"} /\ data = Null
        /\ step' \in {"ocr", "pii_mask", "halted"}
        /\ final_status' \in {final_status, "failed"}
        /\ UNCHANGED <<results, masked, reverse_map, attempts, data,
                       violations, flags, has_errors>>
    BY DEF ReadDocument, FileIsGone, NextEngine, AllEnginesFail, EngineCrashes,
           EngineReads, AnalyzerFails, LeakDetected, EngineEnds, Halt,
           ExtractionInv
  <1>2. final_status' \notin {"validated", "reviewed"}
    BY <1>1 DEF ExtractionInv
  <1>3. ExtractionInv'
    BY <1>1, <1>2 DEF ExtractionInv
  <1>4. text' \in Seq(Words)
    BY ExtractionAssumption
       DEF ReadDocument, FileIsGone, NextEngine, AllEnginesFail, EngineCrashes,
           EngineReads, AnalyzerFails, LeakDetected, Halt, ExtractionTypeOK
  <1>5. engine' \in DOMAIN Engines
    <2>1. DOMAIN Engines = 1..3 /\ Len(Engines) = 3
      BY DEF Engines
    <2>. QED BY <2>1
         DEF ReadDocument, FileIsGone, NextEngine, AllEnginesFail,
             EngineCrashes, EngineReads, AnalyzerFails, LeakDetected, Halt,
             ExtractionTypeOK
  <1>6. ExtractionTypeOK'
    BY <1>1, <1>4, <1>5 DEF ExtractionTypeOK, Steps, Ended, FinalStatus
  <1>. QED BY <1>3, <1>6

\* A text that is masked is masked as a whole and without a leak.
LEMMA MaskingStep ==
    ASSUME ExtractionTypeOK, ExtractionInv, MaskText
    PROVE  ExtractionTypeOK' /\ ExtractionInv'
  <1> DEFINE Masks(found, winner) ==
               /\ results' = found
               /\ masked' = Anonymize(text, found, winner)
               /\ ~Leaks(masked')
               /\ reverse_map' = ReverseMap(text, found)
  <1>A. PICK found \in ResultsOf(text) :
          \E winner \in Winners(found) : Masks(found, winner)
    BY DEF MaskText
  <1>1. PICK winner \in Winners(found) :
          /\ results' = found
          /\ masked' = Anonymize(text, found, winner)
          /\ ~Leaks(masked')
          /\ reverse_map' = ReverseMap(text, found)
    BY <1>A
  <1>2. /\ step = "pii_mask" /\ step' = "llm_extract"
        /\ UNCHANGED <<engine, text, attempts, data, violations, flags,
                       has_errors, final_status>>
    BY DEF MaskText
  <1>3. data = Null /\ final_status \notin {"validated", "reviewed"}
    BY <1>2 DEF ExtractionInv
  <1>4. IsMasked'
    BY <1>1, <1>2 DEF IsMasked
  <1>5. ExtractionInv'
    BY <1>2, <1>3, <1>4 DEF ExtractionInv
  <1>6. text \in Seq(Words)
    BY DEF ExtractionTypeOK
  <1>7. /\ results' \subseteq Result
        /\ masked' \in Seq(Words \cup Token)
        /\ DOMAIN reverse_map' \subseteq Token
    BY <1>1, <1>6, ResultTypes, AnonymizeTypes, ReverseMapTypes
  <1>8. ExtractionTypeOK'
    BY <1>2, <1>3, <1>7 DEF ExtractionTypeOK, Steps, Ended
  <1>. QED BY <1>5, <1>8

\* Only the masking touches the masked text.
LEMMA MaskStays ==
    ASSUME IsMasked, UNCHANGED <<text, results, masked, reverse_map>>
    PROVE  IsMasked'
  BY DEF IsMasked

\* An answer that nobody touches stays what it is.
LEMMA AnswerStays ==
    ASSUME UNCHANGED <<text, results, masked, reverse_map, data>>
    PROVE  /\ IsAnswer => IsAnswer'
           /\ ShowsMasks => ShowsMasks'
           /\ IsRestored => IsRestored'
  BY DEF IsAnswer, ShowsMasks, IsRestored, Written

\* The call of the LLM leaves no answer or one to the masked text.
LEMMA CallStep ==
    ASSUME ExtractionTypeOK, ExtractionInv, CallLLM
    PROVE  ExtractionTypeOK' /\ ExtractionInv'
  <1>1. /\ step = "llm_extract" /\ step' \in {"llm_extract", "unmask"}
        /\ UNCHANGED <<engine, text, results, masked, reverse_map, violations,
                       flags, final_status>>
    BY DEF CallLLM, RetryLLM, LLMFails, LLMAnswers
  <1>2. /\ IsMasked /\ data = Null
        /\ final_status \notin {"validated", "reviewed"}
    BY <1>1 DEF ExtractionInv
  <1>3. IsMasked'
    BY <1>1, <1>2, MaskStays
  <1>4. attempts' \in 0..MaxRetries /\ has_errors' \in BOOLEAN
    BY ExtractionAssumption
       DEF CallLLM, RetryLLM, LLMFails, LLMAnswers, ExtractionTypeOK
  <1>5. CASE UNCHANGED data
    <2>1. ExtractionInv'
      BY <1>1, <1>2, <1>3, <1>5 DEF ExtractionInv
    <2>2. ExtractionTypeOK'
      BY <1>1, <1>2, <1>4, <1>5 DEF ExtractionTypeOK, Steps, Ended
    <2>. QED BY <2>1, <2>2
  <1>6. CASE LLMAnswers
    <2>1. masked \in Seq(Words \cup Token) /\ step' = "unmask"
      BY <1>6 DEF ExtractionTypeOK, LLMAnswers
    <2>A. PICK d \in Figures :
            \E n \in 0..(IF d.type = "bank_statement" THEN MaxLines ELSE 0) :
            \E lines \in [1..n -> Items] :
               data' = [type |-> d.type, fields |-> d.fields,
                        unsure |-> d.unsure, transactions |-> lines]
      BY <1>6 DEF LLMAnswers
    <2>B. (IF d.type = "bank_statement" THEN MaxLines ELSE 0) \in Nat
      BY ExtractionAssumption
    <2> DEFINE Writes(n) ==
                 \E lines \in [1..n -> Items] :
                    data' = [type |-> d.type, fields |-> d.fields,
                             unsure |-> d.unsure, transactions |-> lines]
    <2>C. PICK n \in Nat : Writes(n)
      <3>1. PICK n \in 0..(IF d.type = "bank_statement" THEN MaxLines ELSE 0) :
              Writes(n)
        BY <2>A
      <3>. HIDE DEF Writes
      <3>. QED BY <2>B, <3>1
    <2>2. PICK lines \in [1..n -> Items] :
            data' = [type |-> d.type, fields |-> d.fields, unsure |-> d.unsure,
                     transactions |-> lines]
      BY <2>C
    <2>3. /\ lines \in Seq(TransactionItem)
          /\ \A i \in DOMAIN lines :
                /\ lines[i].at \in {0} \cup DOMAIN masked
                /\ lines[i].description \in Written(lines[i].at)
      BY <2>1, LineTypes
    <2>4. d.type \in DocumentType
      BY ExtractionAssumption
    <2>5. /\ data'.type = d.type /\ data'.fields = d.fields
          /\ data'.unsure = d.unsure /\ data'.transactions = lines
      BY <2>2
    <2>6. \A i : Written(i)' = Written(i)
      BY <1>1 DEF Written
    <2>7. IsAnswer'
      BY <1>1, <2>2, <2>3, <2>5 DEF IsAnswer
    <2>8. ShowsMasks'
      BY <2>3, <2>5, <2>6 DEF ShowsMasks
    <2>9. ExtractionInv'
      BY <1>1, <1>2, <1>3, <2>1, <2>7, <2>8 DEF ExtractionInv
    <2>10. ExtractionTypeOK'
      BY <1>1, <1>4, <2>1, <2>3, <2>4, <2>5 DEF ExtractionTypeOK, Steps, Ended
    <2>. QED BY <2>9, <2>10
  <1>. QED BY <1>5, <1>6 DEF CallLLM, RetryLLM, LLMFails

\* The reverse map and the masked text are of one piece: of every place of the
\* prompt it restores a word, its own or one reported under a type of the place.
LEMMA RestoredWord ==
    ASSUME ExtractionTypeOK, IsMasked, NEW i \in DOMAIN masked
    PROVE  /\ i \in DOMAIN text
           /\ Restore(masked[i], reverse_map) \in Words
           /\ \/ text[i] \in Token
              \/ Restore(masked[i], reverse_map) = text[i]
              \/ \E r, q \in results :
                    /\ r.at = i /\ q.type = r.type
                    /\ Restore(masked[i], reverse_map) = text[q.at]
  <1>1. PICK winner \in Winners(results) :
          /\ results \in ResultsOf(text)
          /\ masked = Anonymize(text, results, winner)
          /\ reverse_map = ReverseMap(text, results)
    BY DEF IsMasked
  <1>2. text \in Seq(Words)
    BY DEF ExtractionTypeOK
  <1>3. i \in DOMAIN text
    BY <1>1, <1>2, AnonymizeTypes
  <1>. QED BY <1>1, <1>2, <1>3, RestoredPlace

\* What is restored of what the LLM made up: a word that was reported, or what
\* it was.
LEMMA RestoredInvention ==
    ASSUME ExtractionTypeOK, IsMasked, NEW x \in Inventions,
           NEW y, y = Restore(x, reverse_map)
    PROVE  /\ y \in Words \cup Token
           /\ \/ y \in Inventions /\ y \notin DOMAIN reverse_map
              \/ y \in Words /\ \E q \in results : y = text[q.at]
  <1>1. results \in ResultsOf(text) /\ reverse_map = ReverseMap(text, results)
    BY DEF IsMasked
  <1>2. text \in Seq(Words) /\ x \in Words \cup Token
    BY ExtractionAssumption DEF ExtractionTypeOK
  <1>3. CASE x \in DOMAIN reverse_map
    <2>1. y = ReverseMap(text, results)[x]
      BY <1>1, <1>3 DEF Restore
    <2>2. x \in DOMAIN ReverseMap(text, results)
      BY <1>1, <1>3
    <2>3. /\ ReverseMap(text, results)[x] \in Words
          /\ \E q \in results : ReverseMap(text, results)[x] = text[q.at]
      BY <1>1, <1>2, <2>2, ReverseMapTypes
    <2>. QED BY <2>1, <2>3
  <1>4. CASE x \notin DOMAIN reverse_map
    BY <1>2, <1>4 DEF Restore
  <1>. QED BY <1>3, <1>4

\* What the restoring makes of one transaction.
LEMMA RestoredItem ==
    ASSUME ExtractionTypeOK, IsMasked, NEW t \in TransactionItem,
           t.at \in {0} \cup DOMAIN masked, t.description \in Written(t.at)
    PROVE  /\ Unmasked(t) =
                 [at |-> t.at, description |-> Restore(t.description, reverse_map),
                  amount |-> t.amount]
           /\ Restore(t.description, reverse_map) \in Words \cup Token
  <1>1. CASE t.at = 0
    <2>1. t.description \in Inventions
      BY <1>1 DEF Written
    <2>2. Restore(t.description, reverse_map) \in Words \cup Token
      BY <2>1, RestoredInvention
    <2>. QED BY <2>2 DEF TransactionItem, Unmasked
  <1>2. CASE t.at # 0
    <2>1. t.at \in DOMAIN masked /\ t.description = masked[t.at]
      BY <1>2 DEF Written
    <2>2. Restore(t.description, reverse_map) \in Words
      BY <2>1, RestoredWord
    <2>. QED BY <2>2 DEF TransactionItem, Unmasked
  <1>. QED BY <1>1, <1>2

\* Restoring replaces the descriptions and nothing else.
LEMMA UnmaskStep ==
    ASSUME ExtractionTypeOK, ExtractionInv, Unmask
    PROVE  ExtractionTypeOK' /\ ExtractionInv'
  <1>1. /\ step = "unmask" /\ step' = "validate" /\ data # Null
        /\ UNCHANGED <<engine, text, results, masked, reverse_map, attempts,
                       violations, flags, has_errors, final_status>>
    BY DEF Unmask
  <1>2. /\ IsMasked /\ IsAnswer /\ ShowsMasks
        /\ final_status \notin {"validated", "reviewed"}
    BY <1>1 DEF ExtractionInv
  <1>3. data.type \in DocumentType /\ data.transactions \in Seq(TransactionItem)
    BY <1>1 DEF ExtractionTypeOK
  <1> DEFINE Restored(t) ==
               [at |-> t.at, description |-> Restore(t.description, reverse_map),
                amount |-> t.amount]
             lines == [i \in DOMAIN data.transactions |->
                          Restored(data.transactions[i])]
  <1>4. ASSUME NEW i \in DOMAIN data.transactions
        PROVE  /\ Unmasked(data.transactions[i]) = Restored(data.transactions[i])
               /\ Restored(data.transactions[i]) \in TransactionItem
               /\ data.transactions[i].at \in {0} \cup DOMAIN masked
               /\ data.transactions[i].description
                     \in Written(data.transactions[i].at)
    <2>1. data.transactions[i] \in TransactionItem
      BY <1>3
    <2>2. /\ data.transactions[i].at \in {0} \cup DOMAIN masked
          /\ data.transactions[i].description
                \in Written(data.transactions[i].at)
      BY <1>2 DEF IsAnswer, ShowsMasks
    <2>3. /\ Unmasked(data.transactions[i]) = Restored(data.transactions[i])
          /\ Restore(data.transactions[i].description, reverse_map)
                \in Words \cup Token
      BY <1>2, <2>1, <2>2, RestoredItem
    <2>. QED BY <2>1, <2>2, <2>3 DEF TransactionItem
  <1>5. lines \in Seq(TransactionItem)
    <2>. HIDE DEF Restored
    <2>1. DOMAIN data.transactions = 1 .. Len(data.transactions)
          /\ Len(data.transactions) \in Nat
      BY <1>3
    <2>2. lines \in [1 .. Len(data.transactions) -> TransactionItem]
      BY <1>4, <2>1
    <2>. HIDE DEF lines
    <2>. QED BY <2>1, <2>2
  <1>6. data' = [data EXCEPT !.transactions = lines]
    <2>1. data' = [data EXCEPT !.transactions =
                     [i \in DOMAIN data.transactions |->
                        Unmasked(data.transactions[i])]]
      BY DEF Unmask
    <2>2. [i \in DOMAIN data.transactions |-> Unmasked(data.transactions[i])]
            = lines
      BY <1>4
    <2>. QED BY <2>1, <2>2
  <1>7. data' = [type |-> data.type, fields |-> data.fields,
                 unsure |-> data.unsure, transactions |-> lines]
    <2>. HIDE DEF lines
    <2>. QED BY <1>2, <1>6 DEF IsAnswer
  <1>8. DOMAIN lines = DOMAIN data.transactions
    OBVIOUS
  <1>9. IsAnswer' /\ IsRestored'
    <2>1. data'.transactions = lines /\ data'.type = data.type
          /\ data'.fields = data.fields /\ data'.unsure = data.unsure
      BY <1>7
    <2>2. ASSUME NEW i \in DOMAIN lines
          PROVE  /\ lines[i].at = data.transactions[i].at
                 /\ lines[i].description =
                       Restore(data.transactions[i].description, reverse_map)
      OBVIOUS
    <2>. HIDE DEF lines
    <2>3. IsAnswer'
      BY <1>1, <1>2, <1>4, <1>7, <1>8, <2>1, <2>2 DEF IsAnswer
    <2>4. ASSUME NEW i \in DOMAIN lines
          PROVE  \E x \in (IF lines[i].at = 0 THEN Inventions
                           ELSE {masked[lines[i].at]}) :
                    lines[i].description = Restore(x, reverse_map)
      BY <1>4, <1>8, <2>2 DEF Written
    <2>5. \A x : Restore(x, reverse_map)' = Restore(x, reverse_map)
      BY <1>1
    <2>6. IsRestored'
      BY <1>1, <2>1, <2>4, <2>5 DEF IsRestored, Written
    <2>. QED BY <2>3, <2>6
  <1>10. ExtractionInv'
    BY <1>1, <1>2, <1>9, MaskStays DEF ExtractionInv
  <1>11. ExtractionTypeOK'
    BY <1>1, <1>3, <1>5, <1>7 DEF ExtractionTypeOK, Steps, Ended
  <1>. QED BY <1>10, <1>11

\* The steps after the restoring leave the content alone.
LEMMA AssessStep ==
    ASSUME ExtractionTypeOK, ExtractionInv,
           UnmaskFails \/ Skip \/ Validate \/ DetectRisk \/ Conclude
    PROVE  ExtractionTypeOK' /\ ExtractionInv'
  <1>1. /\ UNCHANGED <<engine, text, results, masked, reverse_map, attempts,
                       data>>
        /\ step \in {"unmask", "validate", "risk_detect", "conclude"}
        /\ step' \in {"validate", "risk_detect", "conclude", "done"}
    BY DEF UnmaskFails, Skip, Validate, DetectRisk, Conclude
  <1>2. IsMasked' /\ final_status \notin {"validated", "reviewed"}
    BY <1>1, MaskStays DEF ExtractionInv
  <1>3. data # Null => IsAnswer'
    BY <1>1, AnswerStays DEF ExtractionInv
  <1>4. data # Null /\ ~has_errors' => IsRestored'
    <2>1. CASE UnmaskFails
      BY <2>1 DEF UnmaskFails
    <2>2. CASE Skip
      BY <2>2 DEF Skip
    <2>3. CASE Validate \/ DetectRisk \/ Conclude
      <3>1. step # "unmask" /\ has_errors' = has_errors
        BY <2>3 DEF Validate, DetectRisk, Conclude
      <3>. QED BY <1>1, <3>1, AnswerStays DEF ExtractionInv
    <2>. QED BY <2>1, <2>2, <2>3
  <1>5. step' = "risk_detect" /\ data # Null => violations' \in Violations(data)
    BY DEF UnmaskFails, Skip, Validate, DetectRisk, Conclude
  <1>6. step' = "conclude" /\ data # Null => flags' = Flags(data)
    BY DEF UnmaskFails, Skip, Validate, DetectRisk, Conclude
  <1>7. final_status' \in {"validated", "reviewed"} =>
           step' = "done" /\ data # Null /\ ~has_errors'
    <2>1. CASE Conclude
      BY <2>1 DEF Conclude
    <2>2. CASE ~Conclude
      BY <1>2, <2>2 DEF UnmaskFails, Skip, Validate, DetectRisk
    <2>. QED BY <2>1, <2>2
  <1>8. ExtractionInv'
    <2>1. Violations(data)' = Violations(data) /\ Flags(data)' = Flags(data)
      BY <1>1
    <2>. QED BY <1>1, <1>2, <1>3, <1>4, <1>5, <1>6, <1>7, <2>1 DEF ExtractionInv
  <1>9. ASSUME data # Null
        PROVE  data.type \in DocumentType
    BY <1>9 DEF ExtractionTypeOK
  <1>10. \A v \in violations' : v.severity \in {"error", "warning"}
    <2>1. CASE Validate
      BY <1>9, <2>1, CollectedViolations DEF Validate
    <2>2. CASE ~Validate
      BY <2>2 DEF UnmaskFails, Skip, DetectRisk, Conclude, ExtractionTypeOK
    <2>. QED BY <2>1, <2>2
  <1>11. \A f \in flags' : f.risk_level \in RiskLevel
    <2>1. CASE DetectRisk
      BY <2>1, FlagLevels DEF DetectRisk, RiskLevel
    <2>2. CASE ~DetectRisk
      BY <2>2 DEF UnmaskFails, Skip, Validate, Conclude, ExtractionTypeOK
    <2>. QED BY <2>1, <2>2
  <1>12. has_errors' \in BOOLEAN /\ final_status' \in FinalStatus \cup {Absent}
    BY DEF UnmaskFails, Skip, Validate, DetectRisk, Conclude, ExtractionTypeOK,
           FinalStatus
  <1>13. ExtractionTypeOK'
    BY <1>1, <1>10, <1>11, <1>12 DEF ExtractionTypeOK, Steps, Ended
  <1>. QED BY <1>8, <1>13

-----------------------------------------------------------------------------
\* Every variable keeps its type, and between two steps every part of the run
\* is what the step before it made of it.
THEOREM ExtractionInvariant == Spec => []ExtractionTypeOK /\ []ExtractionInv
  <1>1. Init => ExtractionTypeOK /\ ExtractionInv
    <2>1. ASSUME Init
          PROVE  ExtractionTypeOK
      <3>1. DOMAIN Engines = 1..3
        BY DEF Engines
      <3>2. /\ text \in Seq(Words) /\ masked \in Seq(Words \cup Token)
            /\ DOMAIN reverse_map \subseteq Token
        BY <2>1 DEF Init
      <3>3. /\ step \in Steps /\ engine \in 1..3 /\ results = {}
            /\ attempts \in 0..MaxRetries /\ data = Null
            /\ violations = {} /\ flags = {} /\ has_errors = FALSE
            /\ final_status = Absent
        BY <2>1, ExtractionAssumption DEF Init, Steps
      <3>. QED BY <3>1, <3>2, <3>3 DEF ExtractionTypeOK
    <2>2. ASSUME Init
          PROVE  ExtractionInv
      BY <2>2 DEF Init, ExtractionInv, Absent
    <2>. QED BY <2>1, <2>2
  <1>2. ExtractionTypeOK /\ ExtractionInv /\ [Next]_vars
           => ExtractionTypeOK' /\ ExtractionInv'
    <2>1. ASSUME ExtractionTypeOK, ExtractionInv, Next
          PROVE  ExtractionTypeOK' /\ ExtractionInv'
      BY <2>1, ReadingStep, MaskingStep, CallStep, UnmaskStep, AssessStep
         DEF Next, MaskDocument, Assess
    <2>2. ASSUME ExtractionTypeOK, ExtractionInv, UNCHANGED vars
          PROVE  ExtractionTypeOK' /\ ExtractionInv'
      <3>1. ExtractionTypeOK'
        BY <2>2 DEF ExtractionTypeOK, vars
      <3>2. /\ IsMasked => IsMasked'
            /\ IsAnswer => IsAnswer'
            /\ ShowsMasks => ShowsMasks'
            /\ IsRestored => IsRestored'
        BY <2>2, MaskStays, AnswerStays DEF vars
      <3>3. UNCHANGED <<step, data, violations, flags, has_errors, final_status>>
        BY <2>2 DEF vars
      <3>4. Violations(data)' = Violations(data) /\ Flags(data)' = Flags(data)
        BY <3>3
      <3>5. ExtractionInv'
        BY <2>2, <3>2, <3>3, <3>4 DEF ExtractionInv
      <3>. QED BY <3>1, <3>5
    <2>. QED BY <2>1, <2>2
  <1>. QED BY <1>1, <1>2, PTL DEF Spec

\* Every variable keeps its type.
THEOREM TypeCorrect == Spec => []ExtractionTypeOK
  BY ExtractionInvariant, PTL

\* While the LLM is called, its prompt has a mask token at every place that was
\* reported and no word the leakage check knows, for any text and any winner of
\* overlapping results.
THEOREM PromptIsClean == Spec => []NoPiiInPrompt
  <1>1. ExtractionTypeOK /\ ExtractionInv => NoPiiInPrompt
    <2>1. SUFFICES ASSUME ExtractionTypeOK, ExtractionInv, step = "llm_extract"
                   PROVE  /\ \A i \in DOMAIN masked : masked[i] \notin Patterned
                          /\ \A r \in results : masked[r.at] \in Token
      BY DEF NoPiiInPrompt
    <2>2. PICK winner \in Winners(results) :
            /\ results \in ResultsOf(text)
            /\ masked = Anonymize(text, results, winner)
            /\ ~Leaks(masked)
      BY <2>1 DEF ExtractionInv, IsMasked
    <2>3. \A r \in results : masked[r.at] \in Token
      BY <2>1, <2>2, AnonymizeTypes DEF ExtractionTypeOK
    <2>. QED BY <2>2, <2>3 DEF Leaks
  <1>. QED BY <1>1, ExtractionInvariant, PTL

\* Where the restoring succeeded, a description is a word, the word of its place
\* or one reported under a type of the place, unless the text itself has a mask
\* token there; or the LLM made it up and it is a word that was reported, or
\* unknown to the reverse map.
LEMMA RestoredDescriptions ==
    ASSUME ExtractionTypeOK, ExtractionInv, step # "unmask", data # Null,
           ~has_errors, NEW i \in DOMAIN data.transactions,
           NEW t, t = data.transactions[i]
    PROVE  \/ /\ t.at # 0 /\ t.at \in DOMAIN text /\ t.description \in Words
              /\ \/ text[t.at] \in Token
                 \/ t.description = text[t.at]
                 \/ \E r, q \in results :
                       /\ r.at = t.at /\ q.type = r.type
                       /\ t.description = text[q.at]
           \/ /\ t.at = 0 /\ t.description \in Words
              /\ \E q \in results : t.description = text[q.at]
           \/ /\ t.at = 0 /\ t.description \in Inventions
              /\ t.description \in Words \cup Token
              /\ t.description \notin DOMAIN reverse_map
  <1>1. IsMasked /\ IsAnswer /\ IsRestored
    BY DEF ExtractionInv
  <1>2. PICK x \in Written(t.at) : t.description = Restore(x, reverse_map)
    BY <1>1 DEF IsRestored
  <1>3. t.at \in {0} \cup DOMAIN masked
    BY <1>1 DEF IsAnswer
  <1>4. CASE t.at = 0
    <2>1. x \in Inventions
      BY <1>2, <1>4 DEF Written
    <2>. QED BY <1>1, <1>2, <1>4, <2>1, RestoredInvention
  <1>5. CASE t.at # 0
    <2>1. t.at \in DOMAIN masked /\ x = masked[t.at]
      BY <1>2, <1>3, <1>5 DEF Written
    <2>. QED BY <1>1, <1>2, <1>5, <2>1, RestoredWord
  <1>. QED BY <1>4, <1>5

\* No document is finished as validated or reviewed that shows a mask token of
\* its masking or its prompt: the anonymizer keeps the last token of a type, and
\* that one is always known.  What else looks like a token, the LLM made up.
THEOREM ClearedShowsNoMask == Spec => []ClearedIsRestored
  <1>1. ExtractionTypeOK /\ ExtractionInv => ClearedIsRestored
    <2>1. ASSUME ExtractionTypeOK, ExtractionInv,
                 final_status \in {"validated", "reviewed"},
                 NEW i \in DOMAIN data.transactions,
                 NEW x, x = data.transactions[i].description
          PROVE  \/ x \in Words
                 \/ /\ x \in Inventions /\ x \notin DOMAIN reverse_map
                    /\ \A j \in DOMAIN masked : x # masked[j]
      <3>1. step = "done" /\ data # Null /\ ~has_errors /\ IsMasked
        BY <2>1 DEF ExtractionInv
      <3>2. \/ x \in Words
            \/ x \in Inventions /\ x \notin DOMAIN reverse_map
        BY <2>1, <3>1, RestoredDescriptions
      <3>3. ASSUME NEW j \in DOMAIN masked, x = masked[j],
                   x \notin DOMAIN reverse_map
            PROVE  x \in Words
        <4>1. Restore(masked[j], reverse_map) \in Words
          BY <2>1, <3>1, RestoredWord
        <4>. QED BY <3>3, <4>1 DEF Restore
      <3>. QED BY <3>2, <3>3
    <2>. QED BY <2>1 DEF ClearedIsRestored
  <1>. QED BY <1>1, ExtractionInvariant, PTL

\* A restored description is the word of its place or a word reported under a
\* type of the place; one the LLM made up stays or is a word that was reported.
\* StepUnmask cannot tell a mask token that stands in the document itself from
\* one of its own: the theorem is about texts without.
THEOREM RestoredOfItsType ==
    ASSUME \A w \in Words : w \notin Token
    PROVE  Spec => []RestoredByType
  <1>1. ExtractionTypeOK /\ ExtractionInv => RestoredByType
    <2>1. ASSUME ExtractionTypeOK, ExtractionInv,
                 step \in {"validate", "risk_detect"}, data # Null, ~has_errors,
                 NEW i \in DOMAIN data.transactions,
                 NEW t, t = data.transactions[i]
          PROVE  \/ t.at # 0 /\ t.description = text[t.at]
                 \/ t.at = 0 /\ t.description \in Inventions
                 \/ \E r, q \in results :
                       /\ t.at \in {0, r.at} /\ q.type = r.type
                       /\ t.description = text[q.at]
      <3>1. \A j \in DOMAIN text : text[j] \in Words
        BY <2>1 DEF ExtractionTypeOK
      <3>2. text[t.at] \in Token => t.at \notin DOMAIN text
        BY <3>1
      <3>. QED BY <2>1, <3>2, RestoredDescriptions
    <2>. QED BY <2>1 DEF RestoredByType
  <1>. QED BY <1>1, ExtractionInvariant, PTL

\* A sum that lacks an amount, or has text for one, never passes validation
\* without a violation.
THEOREM UnverifiableOnRecord == Spec => []UnverifiableIsReported
  <1>1. ExtractionTypeOK /\ ExtractionInv => UnverifiableIsReported
    <2>1. SUFFICES ASSUME ExtractionTypeOK, ExtractionInv,
                          step = "risk_detect", data # Null
                   PROVE  UnverifiableIsReported
      BY DEF UnverifiableIsReported
    <2>2. /\ violations \in Violations(data)
          /\ data.type \in {"bank_statement", "invoice", "portfolio"}
      BY <2>1 DEF ExtractionInv, ExtractionTypeOK, DocumentType, AmountFields
    <2>3. CASE data.type = "bank_statement"
      <3>1. (\E f \in AmountFields.bank_statement :
                data.fields[f] \in {Null, Textual}) => violations # {}
        BY <2>2, <2>3, UnverifiableLeavesViolation
      <3>. QED BY <2>3, <3>1 DEF UnverifiableIsReported
    <2>4. CASE data.type = "invoice"
      <3>1. (\E f \in {"subtotal", "tax_amount", "total_amount"} :
                data.fields[f] \in {Null, Textual}) => violations # {}
        BY <2>2, <2>4, UnverifiableLeavesViolation
      <3>. QED BY <2>4, <3>1 DEF UnverifiableIsReported
    <2>5. CASE data.type = "portfolio"
      BY <2>5 DEF UnverifiableIsReported
    <2>. QED BY <2>2, <2>3, <2>4, <2>5
  <1>. QED BY <1>1, ExtractionInvariant, PTL

\* A date that is a day of the calendar in a style that writes the day first is
\* read as this day; one that is not, and a day with the month first, as that.
LEMMA WrittenDateIsRead ==
    ASSUME NEW value \in WrittenDate, value \notin {Null, Textual}
    PROVE  /\ IsDay(DayFirst(value)) => ParseDate(value) = DayFirst(value)
           /\ ~IsDay(DayFirst(value)) /\ IsDay(MonthFirst(value))
                 => ParseDate(value) = MonthFirst(value)
           /\ DayFirst(value) \in Day /\ MonthFirst(value) \in Day
  <1> DEFINE parts == value.parts
             read == Readings(parts, value.separator)
  <1>1. /\ parts \in Nat \X Nat \X Nat
        /\ value.separator \in {"-", ".", "/"}
    BY DEF WrittenDate
  <1>2. DayFirst(value) \in Day /\ MonthFirst(value) \in Day
    BY <1>1 DEF DayFirst, MonthFirst, Day
  <1>3. CASE value.separator = "-"
    <2>1. DOMAIN read = 1 .. 1 /\ read[1] = DayFirst(value)
      BY <1>3 DEF Readings, DayFirst
    <2>2. MonthFirst(value) = DayFirst(value)
      BY <1>3 DEF MonthFirst
    <2>. QED BY <1>2, <2>1, <2>2, FirstFormatWins
  <1>4. CASE value.separator = "."
    <2>1. DOMAIN read = 1 .. 1 /\ read[1] = DayFirst(value)
      BY <1>4 DEF Readings, DayFirst
    <2>2. MonthFirst(value) = DayFirst(value)
      BY <1>4 DEF MonthFirst
    <2>. QED BY <1>2, <2>1, <2>2, FirstFormatWins
  <1>5. CASE value.separator = "/"
    <2>1. /\ DOMAIN read = 1 .. 2 /\ read[1] = DayFirst(value)
          /\ read[2] = MonthFirst(value)
      BY <1>5 DEF Readings, DayFirst, MonthFirst
    <2>. QED BY <1>2, <2>1, FirstFormatWins, SecondFormatIsNext
  <1>. QED BY <1>1, <1>3, <1>4, <1>5

\* What passes validation is complete, its balances or totals agree to the cent,
\* and its period is in order, with the day first and, where that is no reading,
\* with the month first.
THEOREM PassedAgrees == Spec => []PassedIsConsistent
  <1>1. ExtractionTypeOK /\ ExtractionInv => PassedIsConsistent
    <2>1. SUFFICES ASSUME ExtractionTypeOK, ExtractionInv,
                          step = "risk_detect", data # Null, Passed(violations)
                   PROVE  PassedIsConsistent
      BY DEF PassedIsConsistent
    <2> DEFINE f == data.fields
    <2>2. /\ violations \in Violations(data) /\ data.type \in DocumentType
          /\ IsAnswer
      BY <2>1 DEF ExtractionInv, ExtractionTypeOK
    <2>3. \A g \in Required[data.type] : f[g] # Null
      BY <2>1, <2>2, PassedIsComplete
    <2>4. ASSUME data.type \in DOMAIN Summed,
                 \A g \in Summed[data.type] : f[g] \notin {Null, Textual}
          PROVE  Magnitude(Difference(data)) <= 1
      BY <2>1, <2>2, <2>4, PassedAddsUp
    <2>5. ASSUME data.type = "bank_statement",
                 \A g \in DateFields.bank_statement : f[g] # Textual
          PROVE  InOrder(f.statement_period_start, f.statement_period_end)
      <3>1. \A g \in {"statement_period_start", "statement_period_end"} :
               f[g] \in WrittenDate /\ f[g] \notin {Null, Textual}
        <4>1. \A g \in DateFields["bank_statement"] :
                 f[g] \in {Null, Textual} \cup WrittenDate
          BY <2>2, <2>5, ExtractionAssumption DEF IsAnswer
        <4>2. DateFields["bank_statement"]
                = {"statement_period_start", "statement_period_end"}
          BY DEF DateFields
        <4>3. DateFields["bank_statement"] \subseteq Required[data.type]
          BY <2>5 DEF Required, DateFields
        <4>. QED BY <2>3, <2>5, <4>1, <4>2, <4>3
      <3>2. PICK start, end : start = f.statement_period_start
                              /\ end = f.statement_period_end
        OBVIOUS
      <3>3. /\ start \in WrittenDate /\ start \notin {Null, Textual}
            /\ end \in WrittenDate /\ end \notin {Null, Textual}
        BY <3>1, <3>2
      <3>4. ParseDate(start) # Null /\ ParseDate(end) # Null
               => Before(ParseDate(start), ParseDate(end))
        BY <2>1, <2>2, <2>5, <3>2, PassedIsInOrder
      <3>5. ASSUME IsDay(DayFirst(start)), IsDay(DayFirst(end))
            PROVE  Before(DayFirst(start), DayFirst(end))
        <4>1. /\ ParseDate(start) = DayFirst(start) /\ DayFirst(start) \in Day
              /\ ParseDate(end) = DayFirst(end) /\ DayFirst(end) \in Day
          BY <3>3, <3>5, WrittenDateIsRead
        <4>. QED BY <3>4, <4>1, RulesAssumption
      <3>6. ASSUME ~IsDay(DayFirst(start)), ~IsDay(DayFirst(end)),
                   IsDay(MonthFirst(start)), IsDay(MonthFirst(end))
            PROVE  Before(MonthFirst(start), MonthFirst(end))
        <4>1. /\ ParseDate(start) = MonthFirst(start) /\ MonthFirst(start) \in Day
              /\ ParseDate(end) = MonthFirst(end) /\ MonthFirst(end) \in Day
          BY <3>3, <3>6, WrittenDateIsRead
        <4>. QED BY <3>4, <4>1, RulesAssumption
      <3>. QED BY <3>2, <3>5, <3>6 DEF InOrder
    <2>. QED BY <2>3, <2>4, <2>5 DEF PassedIsConsistent
  <1>. QED BY <1>1, ExtractionInvariant, PTL

\* The overall level of a statement is at least what any of its transactions
\* alone would give it.
THEOREM RiskIsNotHidden == Spec => []NoTransactionHidesAnother
  <1>1. ExtractionTypeOK /\ ExtractionInv => NoTransactionHidesAnother
    <2>1. ASSUME ExtractionTypeOK, ExtractionInv, step = "conclude",
                 data # Null, NEW i \in DOMAIN data.transactions,
                 NEW alone,
                 alone = [data EXCEPT !.transactions = <<data.transactions[i]>>],
                 NEW f \in Flags(alone)
          PROVE  LevelOrder[f.risk_level] <= LevelOrder[OverallLevel(flags)]
      <3>1. /\ flags = Flags(data) /\ IsAnswer
            /\ data.transactions \in Seq(TransactionItem)
        BY <2>1 DEF ExtractionInv, ExtractionTypeOK
      <3>2. /\ alone.type = data.type /\ alone.fields = data.fields
            /\ alone.transactions = <<data.transactions[i]>>
        BY <2>1, <3>1 DEF IsAnswer
      <3>3. f \in flags
        BY <2>1, <3>1, <3>2, FlagsOfOne
      <3>. QED BY <3>1, <3>3, FlagLevels, OverallIsHighest
    <2>. QED BY <2>1 DEF NoTransactionHidesAnother
  <1>. QED BY <1>1, ExtractionInvariant, PTL
=============================================================================

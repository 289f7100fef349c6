------------------------------ MODULE Masking -------------------------------
(***************************************************************************)
(* Masking the personal data in a text and restoring it                    *)
(* (app/services/pii).  A text is a sequence of words, a mask token the    *)
(* pair of an entity type and a number.                                    *)
(***************************************************************************)
EXTENDS Naturals, Sequences, FiniteSets

CONSTANTS
    Words,
    EntityTypes,   \* SUPPORTED_ENTITIES
    TypesOf,       \* the types under which the analyzer may report a word
    Patterned      \* the words that match a pattern of the leakage check

ASSUME MaskingAssumption ==
    /\ TypesOf \in [Words -> SUBSET EntityTypes]
    /\ Patterned \subseteq Words

\* A result of the analyzer, and what replaces it.
Result == [at : Nat \ {0}, type : EntityTypes]
Token == [type : EntityTypes, number : Nat \ {0}]

\* What the analyzer may report: it may miss any entity, and it may report a
\* word under several types.
ResultsOf(text) ==
    SUBSET {r \in [at : DOMAIN text, type : EntityTypes] :
               r.type \in TypesOf[text[r.at]]}

OfType(results, type) == {q \in results : q.type = type}

\* Mutant: the number among all results, as in the list of PIIEntity.
TokenByIndex(results, r) ==
    [type |-> r.type, number |-> Cardinality({q \in results : q.at <= r.at})]

\* type_counters: the results of a type are numbered in reading order.
TokenOf(results, r) ==
    [type |-> r.type,
     number |-> Cardinality({q \in OfType(results, r.type) : q.at <= r.at})]

ReverseMap(text, results) ==
    [token \in {TokenOf(results, r) : r \in results} |->
        text[(CHOOSE r \in results : TokenOf(results, r) = token).at]]

\* operators[entity_type] is overwritten by every result of the type: the
\* token of the last one stays and replaces them all.
OperatorOf(results, type) ==
    [type |-> type, number |-> Cardinality(OfType(results, type))]

\* Of the results at one position the anonymizer keeps one.
Winners(results) ==
    {w \in [{r.at : r \in results} -> EntityTypes] :
        \A i \in DOMAIN w : [at |-> i, type |-> w[i]] \in results}

Anonymize(text, results, winner) ==
    [i \in DOMAIN text |->
        IF i \in DOMAIN winner THEN OperatorOf(results, winner[i]) ELSE text[i]]

\* validate_no_pii_leakage.
Leaks(masked) == \E i \in DOMAIN masked : masked[i] \in Patterned

\* unmask_structured, of one string: tokens it does not know stay.
Restore(x, reverse_map) ==
    IF x \in DOMAIN reverse_map THEN reverse_map[x] ELSE x
=============================================================================

---------------------------- MODULE MCExtraction ----------------------------
(* A small instance of Extraction: two places, an account number that also *)
(* looks like a phone number, and one that is no entity.                   *)
EXTENDS Extraction

CONSTANTS cayman, zurich, account, cash

MCEntityTypes == {"LOCATION", "ACCOUNT_NUMBER", "PHONE_NUMBER"}
MCTypesOf ==
    [w \in Words |->
        CASE w \in {cayman, zurich} -> {"LOCATION"}
          [] w = account -> {"ACCOUNT_NUMBER", "PHONE_NUMBER"}
          [] w = cash -> {}]

\* Documents of one or two lines: nothing to mask, one place, two places, two
\* types, and words that look like two types alone and together.
MCTexts ==
    {<<cash>>, <<cayman>>, <<cayman, zurich>>, <<zurich, account>>,
     <<account, cash>>, <<account, account>>}

Statement(opening, credits, debits, closing, start, end) ==
    [type |-> "bank_statement",
     fields |-> [opening_balance |-> opening, total_credits |-> credits,
                 total_debits |-> debits, closing_balance |-> closing,
                 statement_period_start |-> start, statement_period_end |-> end,
                 parties |-> Textual],
     unsure |-> {}]
Invoice(items, subtotal, tax, total, date) ==
    [type |-> "invoice",
     fields |-> [line_items |-> items, subtotal |-> subtotal,
                 tax_amount |-> tax, total_amount |-> total,
                 invoice_date |-> date, parties |-> Textual],
     unsure |-> {"parties"}]
Portfolio(value, date, parties) ==
    [type |-> "portfolio",
     fields |-> [total_value |-> value, valuation_date |-> date,
                 parties |-> parties],
     unsure |-> {}]

\* 29 February, 5 December and 10 November in European style.
LeapDay == Date(<<2024, 2, 29>>, "-")
Slash(day, month) == Date(<<day, month, 2024>>, "/")

\* Sums that agree, miss by a cent and by more; a negative, a missing and a
\* textual amount.  Periods that are in order, in no order although the day and
\* the month could be exchanged, of one day, in no style the rules read, and
\* with the month first in and out of order; dates that are missing, no day or
\* far away.
MCFigures ==
    {Statement(100, 50, 30, 121, LeapDay, Date(<<1, 3, 2024>>, ".")),
     Statement(100, 0, 130, -30, Slash(5, 12), Slash(10, 11)),
     Statement(100, 50, Null, 120, LeapDay, LeapDay),
     Statement(100, 50, 30, 120, Slash(5, 31), Slash(6, 15)),
     Statement(100, 50, 30, 120, Slash(6, 15), Slash(5, 31)),
     Statement(Textual, 50, 30, 120, Textual, Slash(2, 1)),
     Invoice(100, 100, 20, 120, Slash(1, 31)),
     Invoice(90, 100, 20, 121, Date(<<2023, 2, 29>>, "-")),
     Invoice(100, 100, 20, 150, LeapDay),
     Invoice(Null, 100, 20, Null, Null),
     Invoice(100, -100, Textual, 120, Date(<<2027, 1, 1>>, "-")),
     Portfolio(100, LeapDay, Textual), Portfolio(Null, LeapDay, Textual),
     Portfolio(Textual, Date(<<1, 1, 2026>>, "."), Null)}

\* A token that the masking may have given out and put into the prompt, given
\* out and not put there (two places, where the last one counts), or neither.
MCInventions == {[type |-> "LOCATION", number |-> 1]}

\* In cents: missing, large but not round, round but not large.
MCAmounts == {Null, 5000001, -1000000}
=============================================================================

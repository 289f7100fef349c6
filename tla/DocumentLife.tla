---------------------------- MODULE DocumentLife ----------------------------
(***************************************************************************)
(* What the service promises to a client who polls a document with PII and *)
(* to a reviewer who works on it: the document is uploaded, processed once *)
(* and, if the pipeline asks for it, decided once.  Nothing but these      *)
(* three steps changes the status it shows or the review it is in.         *)
(***************************************************************************)
EXTENDS Schema

CONSTANT Documents

VARIABLES
    docStatus,   \* documents.status
    review       \* the review task of the document, if any

vars == <<docStatus, review>>

Decisions == {"approved", "rejected", "escalated"}

DocumentLifeTypeOK ==
    /\ docStatus \in [Documents -> {Absent, "processing"} \cup FinalStatus]
    /\ review \in [Documents -> {"none", "open"} \cup Decisions]

Init ==
    /\ docStatus = [d \in Documents |-> Absent]
    /\ review = [d \in Documents |-> "none"]

Becomes(d, status, rev) ==
    /\ docStatus' = [docStatus EXCEPT ![d] = status]
    /\ review' = [review EXCEPT ![d] = rev]

Upload(d) == docStatus[d] = Absent /\ Becomes(d, "processing", "none")

\* What is validated awaits a review, and what is cleared has none; of a failed
\* document the extraction may have been flagged before it failed.
Process(d) ==
    /\ docStatus[d] = "processing"
    /\ \/ Becomes(d, "validated", "open")
       \/ Becomes(d, "reviewed", "none")
       \/ \E rev \in {"none", "open"} : Becomes(d, "failed", rev)

\* An approval or a rejection settles the document, an escalation leaves it as
\* it is; a request for a correction changes neither.
Decide(d) ==
    /\ review[d] = "open"
    /\ \/ Becomes(d, "reviewed", "approved")
       \/ Becomes(d, "failed", "rejected")
       \/ Becomes(d, docStatus[d], "escalated")

Next == \E d \in Documents : Upload(d) \/ Process(d) \/ Decide(d)

Spec == Init /\ [][Next]_vars
=============================================================================

------------------------------- MODULE Schema -------------------------------
(***************************************************************************)
(* The enumerations of app/models/ and the two pure maps on risk levels    *)
(* that the pipeline and the review flow share.                            *)
(***************************************************************************)

\* A row that has not been inserted yet.
Absent == "absent"

DocumentStatus ==
    {"uploaded", "processing", "ocr_complete", "masked", "extracted",
     "validated", "reviewed", "failed"}

ValidationStatus == {"passed", "failed", "partial"}

RiskLevel == {"low", "medium", "high", "critical"}

ReviewPriority == {"low", "medium", "high", "urgent"}

ReviewTaskStatus ==
    {"pending", "in_review", "approved", "rejected", "escalated"}

ReviewDecisionType ==
    {"approved", "rejected", "escalated", "needs_correction"}

AuditEventStatus == {"success", "failure", "warning"}

\* The levels the risk detector sends to a human.
RequiresReview(level) == level \in {"medium", "high", "critical"}

\* The priority of the review task that a flagged extraction gets.
RiskToPriority(level) ==
    CASE level = "critical" -> "urgent"
      [] level = "high"     -> "high"
      [] OTHER              -> "medium"

\* The final statuses orchestrator.py computes.
FinalStatus == {"validated", "reviewed", "failed"}
=============================================================================

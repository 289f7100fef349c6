------------------------------ MODULE MCReview ------------------------------
(***************************************************************************)
(* Small instances of Review for TLC.                                      *)
(***************************************************************************)
EXTENDS Review, TLC

\* Requests are interchangeable, and so are the documents and the tasks.
SessionSymmetry == Permutations(Sessions) \cup Permutations(Documents)
                     \cup Permutations(TaskIds)
=============================================================================

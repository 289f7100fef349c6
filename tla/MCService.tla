----------------------------- MODULE MCService ------------------------------
(***************************************************************************)
(* Small instances of Service for TLC.                                     *)
(***************************************************************************)
EXTENDS Service, TLC

\* Executions are interchangeable, and so are requests.
ServiceSymmetry == Permutations(Runs) \cup Permutations(Sessions)
=============================================================================

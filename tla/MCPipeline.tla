----------------------------- MODULE MCPipeline -----------------------------
(***************************************************************************)
(* Small instances of Pipeline for TLC.                                    *)
(***************************************************************************)
EXTENDS Pipeline, TLC

\* Executions are interchangeable: every action treats them alike.
RunSymmetry == Permutations(Runs)
=============================================================================

------------------------------ MODULE MCSystem ------------------------------
(***************************************************************************)
(* Small instances of System for TLC.  Runs has one run for every delivery *)
(* the bounds allow: (1 + MaxRetries) * (1 + MaxRedeliveries) per document.*)
(***************************************************************************)
EXTENDS System

FirstRun == CHOOSE r \in Runs : TRUE

\* Requests that approve what the first execution of a document found, as soon
\* as there is a task: they take every lock a request can take.  Review has
\* the other requests.
ApprovingInit ==
    /\ SystemInit
    /\ \A s \in Sessions : request[s] = [task |-> FirstRun, decision |-> "approved"]

\* Bounds: the detector finds what needs a review (only then there is a task to
\* decide on), and what may strike at any time strikes the first execution,
\* before it has a lock or in the risk step, in which it has them all.  OCR and
\* masking may fail in every execution, and Pipeline has the other places.
BoundedNext ==
    /\ \/ \E d \in Documents : Upload(d)
       \/ \E w \in Workers :
             \/ StartTask(w) \/ TaskGoesOn(w)
             \/ TaskIsKilled(w) \/ MessageIsRestored(w)
             \/ /\ run[w] = FirstRun
                /\ pc[FirstRun] \in {"ocr", "risk_detect"}
                /\ FaultStrikes(w) \/ StepIsCutShort(w)
       \/ \E s \in Sessions : HandleRequest(s)
    /\ \A r \in Runs : ctx'[r].risk_assessment \in {"none", "high"}

FairApprovingSpec ==
    ApprovingInit /\ [][BoundedNext]_systemVars /\ SystemFairness
=============================================================================

SPECIFICATION FairSpec
CONSTANTS
    Documents = {d1, d2}
    TaskIds = {t1, t2}
    Sessions = {s1, s2}
    Failures <- FailureKinds
CHECK_DEADLOCK FALSE
INVARIANTS ReviewTypeOK DecidedOnce AgreedOutcome DecisionsAreAudited RefusedWasDecided
PROPERTIES RequestsEnd

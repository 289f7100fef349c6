SPECIFICATION Spec
CONSTANTS
    Documents = {d1, d2}
    PiiDocuments = {d1}
    Runs = {r1, r2}
    Faults <- FaultKinds
CHECK_DEADLOCK FALSE
SYMMETRY RunSymmetry
INVARIANTS
    TypeOK PiiProcessedOnce ExtractionIsReversible
    OutcomeIsAudited NothingStoredWithoutKey FlaggedHasTask
    ValidatedAwaitsReview ClearedWasAssessed MaskedMeansFailed
PROPERTIES SettledPiiIsFinal ImplementsAtomicProcessing

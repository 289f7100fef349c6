SPECIFICATION ServiceSpec
CONSTANTS
    Documents = {d1, d2}
    PiiDocuments = {d1}
    Runs = {r1, r2}
    Faults = {"unmask"}
    Sessions = {s1, s2}
    Failures = {}
CHECK_DEADLOCK FALSE
SYMMETRY ServiceSymmetry
INVARIANTS PiiDecisionStands ValidatedAwaitsDecision DecisionsAreAboutFlagged
PROPERTIES ImplementsDocumentLife

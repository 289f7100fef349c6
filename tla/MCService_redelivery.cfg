SPECIFICATION ServiceSpec
CONSTANTS
    Documents = {d1}
    PiiDocuments = {}
    Runs = {r1, r2}
    Faults = {}
    Sessions = {s1}
    Failures = {}
CHECK_DEADLOCK FALSE
SYMMETRY ServiceSymmetry
INVARIANTS ApprovedIsTerminal

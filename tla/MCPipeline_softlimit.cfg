SPECIFICATION Spec
CONSTANTS
    Documents = {d1, d2}
    PiiDocuments = {d1}
    Runs = {r1, r2}
    Faults = {"soft_limit"}
CHECK_DEADLOCK FALSE
SYMMETRY RunSymmetry
INVARIANTS ReviewedWasAssessed

SPECIFICATION Spec
CONSTANTS
    Documents = {d1, d2}
    PiiDocuments = {d1}
    Runs = {r1, r2}
    Faults = {"ocr", "mask"}
CHECK_DEADLOCK FALSE
SYMMETRY RunSymmetry
INVARIANTS FailureIsRecorded

SPECIFICATION Spec
CONSTANTS
    Documents = {d1, d2}
    TaskIds = {t1, t2}
    Sessions = {s1, s2}
    Failures = {}
CHECK_DEADLOCK FALSE
SYMMETRY SessionSymmetry
INVARIANTS ValidatedCanMoveOn

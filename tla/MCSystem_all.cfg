SPECIFICATION FairApprovingSpec
CONSTANTS
    Documents = {d1}
    PiiDocuments = {d1}
    Runs = {r1, r2, r3, r4}
    Faults = {"kill", "soft_limit"}
    Sessions = {s1}
    Failures = {}
    Workers = {w1, w2}
    MaxRetries = 1
    MaxRedeliveries = 1
    Mishaps = {"raise", "close", "worker_lost", "restore", "hard_limit"}
CHECK_DEADLOCK FALSE
PROPERTIES ImplementsDelivery EverybodyEnds

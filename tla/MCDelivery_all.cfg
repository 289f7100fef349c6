SPECIFICATION FairSpec
CONSTANTS
    Documents = {d1, d2}
    Workers = {w1, w2}
    MaxRetries = 2
    MaxRedeliveries = 1
    Mishaps <- MishapKinds
CHECK_DEADLOCK FALSE
INVARIANTS DeliveryTypeOK ProcessingHasMessage MessagesDoNotMultiply
PROPERTIES EveryDocumentIsProcessed GhostsDieOut

CONSTANTS
    MaxTransactions = 4
    MaxPayload = 2
    MaxContainer = 1
SPECIFICATION FairSpec
CHECK_DEADLOCK FALSE
INVARIANTS
    IInv
    OwnAnswer
    InStep
PROPERTIES
    TransactionEnds

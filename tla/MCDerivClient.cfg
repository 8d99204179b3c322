SPECIFICATION FairSpec
CONSTANTS
    MAX_ATTEMPTS = 2
    MaxRequests = 5
    Bodies = {"ok", "odd", "error"}
INVARIANTS
    TypeOK
    OncePerOperation
    OutcomeIsHonest
    NothingLeftWaiting
    IInv
PROPERTIES
    OperationEnds
CHECK_DEADLOCK FALSE

CONSTANTS
    BatchLimit = 2
    DropPending = {TRUE, FALSE}
    MaxUpdates = 4
    MaxFaults = 2
    MaxRestarts = 2
SPECIFICATION FairSpec
INVARIANTS
    TypeOK
    DispatchedInOrder
    NothingLost
PROPERTY EveryTextDispatched
CHECK_DEADLOCK FALSE

CONSTANTS
    MaxEvents = 3
    MaxFaults = 3
SPECIFICATION FairSpec
INVARIANTS
    TypeOK
    DispatchedOnceInOrder
    NothingSkipped
PROPERTIES
    EveryMessageDispatched
CHECK_DEADLOCK FALSE

CONSTANTS
    InitialPause = 1
    MaxPause = 3
    MaxCommands = 2
    MaxFaults = 2
    MaxRequests = 1
    Deployments <- MCDeployments
SPECIFICATION Spec
INVARIANT TypeOK
INVARIANT AckedIsDispatched
INVARIANT ClientsOutliveUsers
PROPERTY ShutdownCloses
PROPERTY EveryCommandDispatched
CHECK_DEADLOCK FALSE

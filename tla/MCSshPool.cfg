CONSTANTS
    Handler = {t1, t2}
    Teardown = teardown
    NoTask = NoTask
    PoolTTL = 2
    MaxClock = 4
    MaxCalls = 5
SPECIFICATION PoolFairSpec
INVARIANTS
    PoolTypeOK
    OpenIsCached
PROPERTIES
    CommandsEnd
CHECK_DEADLOCK FALSE

SPECIFICATION FairSpec
CONSTANTS
    Requests = {r1, r2, r3}
    ResponseBuilds = TRUE
    MaxVersion = 3
    MaxFaults = 2
INVARIANTS TypeOK StaleHasCause
PROPERTIES CacheConverges
CHECK_DEADLOCK FALSE

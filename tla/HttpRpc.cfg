SPECIFICATION FairSpec
CONSTANTS
    MaxRequests = 2
    Concurrency = 2
INVARIANTS
    TypeOK
    RunsAccounted
PROPERTIES
    ImplementsMcpRpc
    
    
CHECK_DEADLOCK FALSE

SPECIFICATION FairSpec
CONSTANTS
    MaxRequests = 2
    Concurrency = 2
    Noise <- Notices
    MaxNoise = 1
CHECK_DEADLOCK FALSE
INVARIANT WaitingIsServed
PROPERTIES EveryWaitEnds CloseSettles ImplementsMcpRpc

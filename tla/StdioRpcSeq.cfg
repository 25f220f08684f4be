SPECIFICATION Spec
CONSTANTS
    MaxRequests = 3
    Concurrency = 1
    Noise <- OneWayNoise
    MaxNoise = 1
CHECK_DEADLOCK FALSE
INVARIANTS TypeOK NoLostWakeup FailureHasCause

SPECIFICATION FairSpec
CONSTANTS
    Tasks = {t1}
    Workers = {w1, w2}
    NoJob = NoJob
    MaxRetries = 1
    MaxFaults = 2
INVARIANTS TypeOK AttemptsAccounted RetriesBounded NoParallelAttempts LeakNeedsLimit
PROPERTIES RerunHasCause ImplementsExecutionLog TaskSettles
CHECK_DEADLOCK FALSE

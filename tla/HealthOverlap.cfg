SPECIFICATION Spec
CONSTANTS
    s1 = s1
    s2 = s2
    r1 = r1
    r2 = r2
    q1 = q1
    q2 = q2
    NoServer = NoServer
    Servers <- OneServer
    Runs <- TwoRuns
    Requests <- OneRequest
    Ops <- AllOps
    CheckConnects = TRUE
    MetricFates = {"stored", "invalid"}
    MaxOps = 2
    MaxFaults = 1
CHECK_DEADLOCK FALSE
INVARIANTS TypeOK CountIsEarned
PROPERTY TripIsEarned

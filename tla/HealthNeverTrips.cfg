SPECIFICATION FairSpec
CONSTANTS
    s1 = s1
    s2 = s2
    r1 = r1
    r2 = r2
    q1 = q1
    q2 = q2
    NoServer = NoServer
    Servers <- OneServer
    Runs <- OneRun
    Requests <- OneRequest
    Ops <- Lifecycle
    CheckConnects = FALSE
    MetricFates = {"invalid", "refused"}
    MaxOps = 1
    MaxFaults = 0
CHECK_DEADLOCK FALSE
PROPERTY FailingServerTrips

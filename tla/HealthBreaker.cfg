SPECIFICATION Spec
CONSTANTS
    s1 = s1
    s2 = s2
    r1 = r1
    r2 = r2
    q1 = q1
    q2 = q2
    NoServer = NoServer
    Servers <- TwoServers
    Runs <- OneRun
    Requests <- OneRequest
    Ops <- Lifecycle
    CheckConnects = TRUE
    MetricFates = {"stored", "refused", "invalid"}
    MaxOps = 2
    MaxFaults = 2
CHECK_DEADLOCK FALSE
PROPERTIES ImplementsBreaker TripNeedsStreak TrippedStaysOut

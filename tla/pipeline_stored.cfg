SPECIFICATION FairSpec
CONSTANTS
    w1 = w1
    w2 = w2
    a1 = a1
    a2 = a2
    r1 = r1
    r2 = r2
    None = None
    Workers = {w1}
    Alerts = {a1}
    Requests = {}
    Escalating = {}
    MaxRetries = 1
    BreakerThreshold = 1
    ForceFast = TRUE
    GateReturns = FALSE
    DashboardPolls = TRUE
    Faults = {}
    MaxFaults = 0
PROPERTIES
    StoredAlertTriaged
CHECK_DEADLOCK FALSE

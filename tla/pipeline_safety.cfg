SPECIFICATION Spec
CONSTANTS
    w1 = w1
    w2 = w2
    a1 = a1
    a2 = a2
    r1 = r1
    r2 = r2
    None = None
    Workers = {w1, w2}
    Alerts = {a1, a2}
    Requests = {r1}
    Escalating = {a1}
    MaxRetries = 1
    BreakerThreshold = 1
    ForceFast = TRUE
    GateReturns = FALSE
    DashboardPolls = TRUE
    Faults = {"crash", "redis", "db", "llm"}
    MaxFaults = 1
INVARIANTS
    TypeOK
    JobsAccounted
    OneAnalysisPerRequest
SYMMETRY Symmetry
CHECK_DEADLOCK FALSE

SPECIFICATION MCSpec
CONSTANTS
    r1 = r1
    r2 = r2
    v1 = v1
    v2 = v2
    g1 = g1
    g2 = g2
    g3 = g3
    g4 = g4
    k1 = k1
    k2 = k2
    w1 = w1
    w2 = w2
    a1 = a1
    q1 = q1
    None = None
    Requests = {r1, r2}
    Actions = {k1, k2}
    Reviewers = {v1}
    Runs = {g1, g2, g3, g4}
    Wants <- TwoActions
    Mode <- Mixed
    Workers = {w1, w2}
    Alerts = {a1}
    TriageRows = {q1}
    Escalating = {}
    MaxRetries = 1
    BreakerThreshold = 1
    ForceFast = FALSE
    GateReturns = TRUE
    DashboardPolls = TRUE
    Faults = {"crash", "redis", "db", "llm"}
    MaxFaults = 2
INVARIANTS
    NoActionWithoutReview
PROPERTIES
    PendingSettles
    RequestAnswered
    AlertsSettle
CHECK_DEADLOCK FALSE

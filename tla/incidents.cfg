SPECIFICATION FairSpec
CONSTANTS
    c1 = c1
    c2 = c2
    a1 = a1
    a2 = a2
    a3 = a3
    a4 = a4
    x = x
    y = y
    i1 = i1
    i2 = i2
    i3 = i3
    None = None
    Consumers = {c1, c2}
    Alerts = {a1, a2, a3, a4}
    Entities = {x, y}
    Incidents = {i1, i2, i3}
    EntitiesOf <- Observed
    Risk <- OneEach
    HasCase = {a1, a3}
    SuppressAfter = 2
    Threshold = 2
    Shadow = FALSE
    GateReturns = TRUE
    MaxDeliveries <- Twice
    MaxAged = 1
INVARIANTS
    SuppressionIsEarned
    ExactWhenShared
PROPERTIES
    FreshIncidentIsAlone
    TransactionsEnd
CHECK_DEADLOCK FALSE

SPECIFICATION Spec
CONSTANTS
    r1 = r1
    r2 = r2
    v1 = v1
    v2 = v2
    g1 = g1
    g2 = g2
    g3 = g3
    g4 = g4
    k1 = k1
    k2 = k2
    None = None
    Requests = {r1}
    Actions = {k1}
    Reviewers = {v1, v2}
    Runs = {g1, g2, g3}
    Wants <- OneAction
    Mode <- Mixed
PROPERTIES
    DecisionFinal
CHECK_DEADLOCK FALSE

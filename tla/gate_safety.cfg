SPECIFICATION Spec
CONSTANTS
    None = None
    Truths <- Pairs
    LlmSeverities <- Answers
    StillTriages = TRUE
    AutoCloseEnabled = TRUE
    Incident = TRUE
    L0Threshold = 15
    L1Threshold = 25
    L2UpperThreshold = 60
    L3Threshold = 85
    AutoCloseThreshold = 25
INVARIANTS
    FailOpenNeverRaises
    DeterministicVerdict
    IdentityActionsNeedHuman
    SilenceIsHarmless
CHECK_DEADLOCK FALSE

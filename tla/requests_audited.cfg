CONSTANTS
  a1 = a1 a2 = a2 a3 = a3 u1 = u1
  Requests = {q1, q2} DefaultTenant = TRUE Limit = 2 Window = 1 MaxTime = 1 MaxFaults = 0
  Shapes <- MCShapes
  Handlers = {h1, h2} Workers = {w1, w2}
  Cases = {k1} Statuses = {"open", "closed"} Analysts = {ana} MaxCaseRequests = 1
  Alerts = {a1, a2, a3} EntitiesOf <- MCEntitiesOf StageOfAlert <- MCStageOfAlert OtherStages = {"impact", "unknown"} MaxRuns = 1
  Ratings = {f1, f2, f3} RatingValues = {1, 5} MaxRatingFaults = 1
  MaxTriages = 1
  Vulns = {v1} Scores = {5, 9} Ingesters = {w1, w2} Enrichers = {w1} MaxDocs = 2 MaxPasses = 1 MaxOutages = 1
  Users = {u1} PageRequests = {q1} MaxSeconds = 1 MaxPageFaults = 1
  Calls = {l1} AnalysedAlerts <- MCAlerts Concurrency = 1 MaxRetries = 1 Cloud = {"escalation"}
  BreakerThreshold = 3
  LockAfter = 2 LockTime = 1 TokenLife = 1 Colours = {"blue"} MaxAccountTime = 1
  MaxAccountRequests = 1
SPECIFICATION MCSpec
INVARIANTS EffectsAudited
CHECK_DEADLOCK FALSE

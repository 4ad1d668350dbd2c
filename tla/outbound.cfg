CONSTANTS
  v1 = v1 n1 = n1 email = email o3 = o3
  Syncers = {w1, w2} Notifiers = {w1, w2} Enrichers = {w1, w2} Lookers = {w1, w2}
  Cases = {c1} Providers = {jira, snow} MaxTickets = 3 MaxEdits = 1 MaxTicketFaults = 1
  Schedules = {s1, s2} Period = 2 MaxTime = 6 MaxReportFaults = 2
  Jobs = {j1, j2, j3} Unknown = {j3} MaxNotifyFaults = 2
  Alerts = {a1, a2} Indicators = {v1} IndicatorsOf <- MCIndicatorsOf
  Sources = {"otx", "virustotal"} Feeds = {"otx"} MaxPushes = 1 MaxIntelFaults = 1
  Clustered = TRUE MaxCycles = 2 MaxEvents = 1
  Fleet = 2 PageSize = 1 MaxChanges = 1
  Targets = {o1, o2, o3} Names = {n1} NameOf <- MCNameOf MaxWeb = 2 MaxLookupFaults = 1
  Callers = {b1, b2, b3, b4} BreakerThreshold = 3
SPECIFICATION MCSpec
INVARIANTS TicketsAccounted DeliveriesAccounted HandledOnce MatchesBacked SnapshotsTellTruth OpenOnlyOnStreak
PROPERTIES OutboundSettles
CHECK_DEADLOCK FALSE

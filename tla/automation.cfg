CONSTANTS
  r1 = r1 r2 = r2 t1 = t1 t2 = t2 t3 = t3
  Runs = {r1, r2} Spawners = {w1, w2} Workers = {w1, w2} MaxFaults = 2
  Config <- MCConfig
  Playbooks <- MCPlaybooks
  SoarBooks <- MCBooks Targets = {"user"} FirstSeverity = "high" MaxPasses = 2 MaxSoarFaults = 2 MaxEdits = 2
  Clocks = {t1, t2, t3} AgentOf <- MCAgentOf Expr <- MCExpr
  Replicas = {w1, w2} Hour = 4 MaxMinute = 5 MaxClockFaults = 1
  FlowTriggers = {"absent", "level", "intel"} FlowSteps <- MCSteps Providers = {"vt"}
SPECIFICATION MCSpec
INVARIANTS OnePlace PlaybooksTellTruth FiresAsNamed DryRunForetells
PROPERTIES ImplementsService RunsSettle
CHECK_DEADLOCK FALSE

------------------------------ MODULE Outbound ------------------------------
(***************************************************************************)
(* What talks to the outside: seven workers and services, each with its    *)
(* own state, and the circuit breaker (extended) that connectors share.    *)
(* Names that several components use are told apart here.                  *)
(***************************************************************************)
EXTENDS CircuitBreaker

CONSTANTS
  Syncers,                                        \* worker processes that sync
  Cases, Providers, MaxTickets, MaxEdits, MaxTicketFaults,
  Schedules, Period, MaxTime, MaxReportFaults,
  Jobs, Unknown, Notifiers, MaxNotifyFaults,
  Alerts, Indicators, IndicatorsOf, Sources, Feeds, Enrichers, MaxPushes, MaxIntelFaults,
  Clustered, MaxCycles, MaxEvents,
  Fleet, PageSize, MaxChanges,
  Targets, Names, NameOf, Lookers, MaxWeb, MaxLookupFaults

VARIABLES
  caseStatus, edits, remote, sent, links, cycle, aborted, ticketFaults,
  now, accepted, lastRun, firstRun, check, sending, delivered, logged, reportFaults,
  notifyQueue, hand, failing, reached, notifyDead, lost, notifyFaults,
  known, intelQueue, cache, iocs, matches, job, feed, pushes, done, intelDead, intelFaults,
  env, events, phase, call, client, failures, result, stored, newest, gauges,
  ever, always, disturbed,
  agents, copies, asset, sync, lastSync, cycles, changes,
  place, lookupQueue, lookup, scan, file, found, web, lookupFaults

T == INSTANCE Ticketing WITH MaxFaults <- MaxTicketFaults, faults <- ticketFaults
R == INSTANCE ReportSchedule WITH MaxFaults <- MaxReportFaults, faults <- reportFaults
N == INSTANCE Notifications WITH MaxFaults <- MaxNotifyFaults, queue <- notifyQueue,
       dead <- notifyDead, faults <- notifyFaults
I == INSTANCE ThreatIntel WITH MaxFaults <- MaxIntelFaults, queue <- intelQueue,
       dead <- intelDead, faults <- intelFaults
H == INSTANCE WazuhHealth
S == INSTANCE AssetSync WITH lastRun <- lastSync
O == INSTANCE OsintLookups WITH MaxFaults <- MaxLookupFaults, queue <- lookupQueue,
       hand <- lookup, faults <- lookupFaults

ASSUME OutboundAssumption ==
  /\ T!TicketingAssumption /\ R!ScheduleAssumption /\ N!NotificationAssumption
  /\ I!IntelAssumption /\ H!HealthAssumption /\ S!AssetAssumption /\ O!OsintAssumption

-----------------------------------------------------------------------------
(* The properties the components state. *)
TicketsAccounted == T!TicketsAccounted
DeliveriesAccounted == R!DeliveriesAccounted
HandledOnce == N!HandledOnce
MatchesBacked == I!MatchesBacked /\ O!LookupsBacked
SnapshotsTellTruth == H!SnapshotsTellTruth /\ S!InventoryIsFresh
=============================================================================

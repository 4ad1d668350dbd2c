------------------------------ MODULE Services ------------------------------
(***************************************************************************)
(* The services around the pipeline: the requests to the API (extended),   *)
(* its users and tenants, the pages of the dashboard, cases, kill chains,  *)
(* ratings, baselines, vulnerabilities and the calls of language models.   *)
(* They share no row.  Names that several of them use are told apart here. *)
(***************************************************************************)
EXTENDS RequestPath

CONSTANTS
  Handlers, Workers,                              \* handlers and workers of a process
  Cases, Statuses, Analysts, MaxCaseRequests,
  Alerts, EntitiesOf, StageOfAlert, OtherStages, MaxRuns,
  Ratings, RatingValues, MaxRatingFaults,
  MaxTriages,
  Vulns, Scores, Ingesters, Enrichers, MaxDocs, MaxPasses, MaxOutages,
  Users, PageRequests, MaxSeconds, MaxPageFaults,
  Calls, AnalysedAlerts, Concurrency, MaxRetries, Cloud, BreakerThreshold,
  LockAfter, LockTime, TokenLife, Colours, MaxAccountTime, MaxAccountRequests

VARIABLES
  row, timeline, notes, caseStep, caseRequest, requests,
  incident, linked, elsewhere, chainRun, chainRuns, correlated, guessed,
  ratingAt, rating, triage, seen, average, unwritten, ratingQueue, counted, ratingLost, ratingFaults,
  baselines, session, passes, levels, anomalies,
  vulnRows, pass, vulnPasses, cycle, feedsUp, outages,
  shared, request, page, store, brand, sessions, added, removed, wiped, second, pageFaults,
  user, tenant, accountRequest, tokens, accountNow, accountRequests, loginFailures, granted, saved,
  strategy, escalation, calls, line

C == INSTANCE Cases WITH MaxRequests <- MaxCaseRequests, step <- caseStep, request <- caseRequest
K == INSTANCE KillChain WITH run <- chainRun, runs <- chainRuns
F == INSTANCE Feedback WITH Values <- RatingValues, MaxFaults <- MaxRatingFaults,
       at <- ratingAt, queue <- ratingQueue, lost <- ratingLost, faults <- ratingFaults
U == INSTANCE Baselines WITH MaxPasses <- MaxTriages, rows <- baselines
V == INSTANCE Vulnerabilities WITH rows <- vulnRows, passes <- vulnPasses, up <- feedsUp
D == INSTANCE Dashboard WITH Requests <- PageRequests, MaxFaults <- MaxPageFaults, faults <- pageFaults
L == INSTANCE LlmCalls WITH Alerts <- AnalysedAlerts, Limit <- Concurrency
A == INSTANCE Accounts WITH Values <- Colours, MaxTime <- MaxAccountTime,
       MaxRequests <- MaxAccountRequests, request <- accountRequest, now <- accountNow,
       requests <- accountRequests, failures <- loginFailures

ASSUME ServicesAssumption ==
  /\ C!CaseAssumption /\ K!KillChainAssumption /\ F!FeedbackAssumption /\ U!BaselineAssumption
  /\ V!VulnerabilityAssumption /\ D!DashboardAssumption /\ L!LlmAssumption /\ A!AccountAssumption

-----------------------------------------------------------------------------
(* The properties the components state. *)
CaseRecordsAgree == C!CaseRecordsAgree
StageExplained == K!StageExplained
StageIsOfMembers == K!StageIsOfMembers
AverageIsComplete == F!AverageIsComplete
AnomaliesNeedHistory == U!AnomaliesNeedHistory
RiskIsTraceable == V!RiskIsTraceable
AccountsAgree == A!AccountsAgree
PagesAndFileHold == D!PagesAndFileHold
ModelUseBounded == L!ModelUseBounded
=============================================================================

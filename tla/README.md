# A TLA+ model of the Unified Wazuh Platform

This directory models the platform in TLA+, checks it with TLC on small
instances and proves the most important results with TLAPS. The repository's
Python code is the reference: an action of a model is a stretch of a handler
between two points where somebody else can look (a database commit, a Redis
command, an `await` on a remote service). `PROJECT.json` maps every definition
to the lines it stands for.

## 1. Inventory

The platform is a set of asyncio processes around PostgreSQL and Redis. The
worker process (`services/worker/app/main.py`) runs its workers as tasks of one
event loop and restarts a task that raises (52-68); Kubernetes runs two replicas
(`k8s/worker.yaml:7`). The API process serves webhooks, the dashboard and
analysts. Redis holds plain lists used as queues (`lpush`/`brpop`, so a popped
message exists only in the memory of its consumer), counters, gauges and the
semantic cache. PostgreSQL holds everything else.

| Component | State | Operations | What is hard | What makes it correct |
|---|---|---|---|---|
| Ingestion: `poller.py`, `alerts_ingest.py` | `alerts`, `triage_queue` | poll, webhook | the message is pushed before the alert's commit | every stored alert reaches a consumer, or its loss is known |
| Manual triage: `routers/triage.py` | pending rows of `ai_triage_results`, ratings | run, get (which times rows out), feedback | commit and push are two steps; read-modify-write of the average | every request ends and is analysed once; verdicts stand; the average is that of all ratings |
| Triage worker: `triage_worker.py` | verdicts, `triage_dlq` | consume, reap, mark failed, dead-letter | crashes after the pop, errors after the commit | no job vanishes unaccounted |
| Dead-letter worker: `dlq_worker.py` | retry counts, parked jobs, a breaker | take, count, back off, re-enqueue, park | two workers share counters | the count belongs to one pass |
| Circuit breaker: `circuit_breaker.py` | failures, opened_at, half_open | call | calls that overlap its state changes | refuses only after a streak of failures; recovers |
| Enrichment and score: `enrichment/` | the context of one alert | seven enrichers in one gather, score | any may fail; two write one field | a failure never raises the score |
| Decision gate: `decision.py`, `auto_close.py`, `decision_fusion.py` | level, shadow tag, verdict | decide, route, override, fuse, store | order of rules, bands, schema constraints | L3/L4 verdicts are deterministic; silence is harmless |
| Containment, approvals: `containment_gate.py`, `approvals.py`, `approval_worker.py`, guards of `handlers.py` | `approval_requests` | create, review, expire, guard | check-then-act, expiry races, reuse | nobody acts without a review in time |
| Agent runs: `engine.py`, `agent_worker.py`, `trigger_worker.py` | `agent_runs`, `agent_tasks`, `agent_queue` | spawn, execute, parallel groups, cron | one session for parallel tasks, crash after the pop, cron memory per process | a run is in one place and ends once; a trigger fires in the minutes it names |
| Incidents: `noise_reduction.py`, `correlation/` | incidents, entities, counters, stages | stitch, suppress, advance the stage | find-or-create and read-modify-write by concurrent consumers | one open incident per entity; a stage its history explains |
| Cases: `routers/cases.py` | cases, events, notes, steps | create, update, bulk, note, step | concurrent handlers | row and timeline tell one story |
| SOAR and playbooks: `soar/`, `routers/playbooks.py` | playbooks, their runs | run for an alert, edit, delete, run by hand | commits in the middle of a pass, edits meanwhile | the rows tell what was done |
| Workflows: `workflows/` | context of one run | conditions, providers, actions, dry run | outputs quoted before they exist | a dry run foretells the real one |
| UEBA: `ueba/` | running mean and deviation | update, detect | two updates per alert, concurrent sessions | anomalies need history |
| Notifications, threat intelligence, ticketing, reports, OSINT | queues, caches, links, schedules, results | deliver, enrich, synchronise, look up | a remote effect before the local commit; a file or a cache that calls share | accounted for by what was committed and by the faults |
| Wazuh inventory: `wazuh_health_worker.py`, `asset_sync_worker.py`, `vuln_ingester.py`, `vulnerability_worker.py` | snapshots, gauges, assets, vulnerabilities | ask, list, ingest, enrich | shared connection, paging over a changing fleet, feeds that fail half way | rows tell what held during the cycle |
| Requests: `middleware/`, `routers/auth.py`, `users.py`, `tenants.py` | rate windows, audit, users, tenants, tokens | the chain of a request, login, lock, administration | the commit comes after the handler and before the answer | answer, database and audit agree |
| LLM calls: `llm_router.py`, `llm_provider.py` | semaphore, breaker per provider | choose a tier, generate, retry | retries that keep the one slot | bounded use; every analysis ends |
| Dashboard: `dashboard/app/main.py` | template globals, JSON store | pages, sign-in, forms | globals that concurrent requests share, a file truncated and rewritten in place, whose failures nobody sees | a page shows its own user; the store keeps what was accepted, but what a silent failure or a crash loses |

How they interact: poller and webhook -> `triage_queue` -> triage worker ->
(`triage_dlq` -> dead-letter worker -> `triage_queue`); the triage worker calls
noise reduction, enrichment, the gate, the cache, the LLM (through its breaker),
UEBA and the playbooks in one handler and pushes on `ti_enrich_queue`; playbooks
push on `notification_queue`; playbooks and agent handlers call the guards, which
read and write `approval_requests`; the API reviews them and the approval worker
expires them; the dashboard forwards its forms to the API.

`PROJECT.json` lists every component with its status, and under `hazards` the
places where this code can go wrong in a way tests hardly reach, each with the
properties that would show it.

## 2. Modules

| Module | Models | Run | Proved |
|---|---|---|---|
| `TriagePipeline` | the path of an alert and of an analyst's request: poller, webhook, API, consumers, reaper, dead-letter workers, crashes and faults | `pipeline_*`, `settling` | `TriagePipeline_proofs` |
| `DecisionGate` | what happens to one alert inside `process_message`: enrichment, score, level, routing, verdict, containment | `gate_safety` | `DecisionGate_proofs` |
| `IncidentStitching` | the transaction in which a consumer attaches an alert to an incident: row locks, counter, risk, commit | `incidents` | `IncidentStitching_proofs` |
| `Approvals` | the life of approval requests, the guards and the runs that call them | `settling`, `approvals_final` | `Approvals_proofs` |
| `RunService` | abstract: what the API is promised of a run | refined by `AgentRuns` | - |
| `AgentRuns` | spawn, `agent_queue`, execution by groups, playbook commits half way, crashes | `automation` | `Automation_proofs` |
| `TriggerClock` | cron triggers of two replicas | `automation` | `Automation_proofs` |
| `SoarRuns` | passes over the playbooks of an alert, and the API of playbooks and approvals meanwhile | `automation` | `Automation_proofs` |
| `WorkflowRuns` | one workflow, for real and as a dry run | `automation` | `Automation_proofs` |
| `Breaker` | the transitions of a `CircuitBreaker` as operators, used by `TriagePipeline`, `LlmCalls` and `CircuitBreaker` | - | - |
| `CircuitBreaker` | overlapping calls on one breaker and a service that goes up and down | `outbound` | `Outbound_proofs` |
| `Ticketing`, `ReportSchedule`, `Notifications`, `ThreatIntel` | the workers that call a remote service and commit later | `outbound` | `Outbound_proofs` |
| `OsintLookups` | lookups from the API through the worker to the scans of the maigret service and the file they share | `outbound` | `Outbound_proofs` |
| `WazuhHealth` | a cycle of the health worker: four questions on one client, token and breaker; the snapshot and its gauges | `outbound` | `Outbound_proofs` |
| `AssetSync` | the listing of agents page by page over a changing fleet, and the transaction that stores it | `outbound` | `Outbound_proofs` |
| `RequestPath` | a request through the middlewares, the router, the commit, the answer and the audit | `services`, `requests_audited` | `Services_proofs` |
| `Accounts` | login and its lock, tokens, administration of users and tenants | `services` | `Services_proofs` |
| `KillChain`, `Cases`, `Feedback`, `Baselines`, `Vulnerabilities` | handlers and workers that read rows, decide, and commit over what others wrote | `services`, `stage_of_members` | `Services_proofs` |
| `LlmCalls` | the tier of an analysis, the slot, retries, the breaker of each provider | `services` | `Services_proofs` |
| `Dashboard` | sessions, template globals, forms, the JSON store | `services` | `Services_proofs` |

`Outbound`, `Automation` and `Services` put the components of one run side by
side: they rename the constants and variables that several of them use and state
the properties of all. The proofs are about these modules. The MC modules only give
constants their values and say how the components share a behaviour:
`MCOutbound`, `MCAutomation`, `MCServices` and `MCSettling` host several components
each, which share no row there, so a behaviour explores one of them (`active`, or `part`) while the
others rest. Such a behaviour is one of each component's specification, since
the steps of the others leave its variables alone, so the theorems about the
components cover it.

Conventions. History variables and fields are named as such where they are
declared; no guard reads them. Names with a suffix, each after a comment that
says "Defect form", are ways the code could plausibly be wrong: the mutants of
`PROJECT.json` put them in the place of the definition and the property must
then fail. The tables are taken to have the columns the ORM classes map;
`schema.sql` lacks some of them (`tenant_id` of `osint_results`,
`alert_ioc_matches` and others), and a database created from it alone refuses
those inserts. NOT NULL, CHECK and foreign keys that `schema.sql` does state are
in the models wherever the code runs into them.

### The alert path: TriagePipeline, DecisionGate, IncidentStitching

The three look at one handler, `process_message`, from three sides.
`TriagePipeline` keeps its commits, queues and exceptions and lets the outcome
of a triage be any (`Suppress`, `Proceed`, `StoreVerdict`); `DecisionGate` keeps
what decides that outcome, for any one alert. The two meet in `GateReturns`
(whether a silenced alert ends the handler) and `Escalating` (the alerts whose
escalation case the schema refuses). `IncidentStitching` has the transaction, of
which `TriagePipeline` shows only the outcome, and whose exceptions (`RollBack`)
are its `RaiseBeforeCommit`.

In `TriagePipeline`, `alert`, `row`, `queue`, `dlq`, `retries`, `parked` are
rows and Redis keys. `batch` is the open transaction of a poller; an alert that
is `flushed` and in no batch is in the open transaction of a webhook handler.
`pc`/`hand` and `dlqPc`/`dlqHand` are the frames of `process_message` and
`_handle`; they and `breaker` die with the process (`WorkerCrash`). `lost` is
history: each action in which the code drops a job records why. A consumer step
is `Pop`, then `NotFound`, `Suppress` or `Proceed` (up to the LLM call), then
`StoreVerdict` (434-591) and `Finish` (593-662), with `RaiseBeforeCommit`,
`FailRow` and `DeadLetter` for the `except` block, whose two writes are separate
steps. A dead-letter step is `DlqTake`, then `DlqPark`, or `DlqCount` (count and
backoff), then `DlqRequeue`, `DlqPushFails` or `DlqBreakerOpen`, then `DlqClear`.

In `DecisionGate`, `truth` holds the signals the alert would show if every
enricher succeeded, `got` the enrichers that delivered, `pending` those still
running. `Gather` and `Lose` end an enricher, in any order. `Score` is the
weighted sum of `risk_score.compute` with the default weights, in integers
(hundredths). The semantic cache appears by what it may return: any verdict that
an earlier similar L2 alert can have stored. `Validate` gives the results that the
schema's validation may keep of an answer, the degraded ones among them. `Contain` is a playbook action after
the triage: the policy is asked with a context rebuilt from the rule level, which
is all the code gives it.

In `IncidentStitching`, a session is `pc`, `work`, and what it has in memory:
`n` entities written so far, `sees` whether the SELECT found the next one, `mine`
the incident, `newCount` and `newRisk` the values it read with it. What a session
has locked is derived (`Held`). The steps are those at which another session can
come in between: the SELECT and the write of each entity, the search, the wait
for the incident's row, and the end. Which of several candidates is the most
most recent is left open, and a delivery that fails comes back at once, as
`TriagePipeline` has the queues; one that was suppressed comes back if the
counter after its commit fails. `GateCommit` is the decision gate in enforce mode,
which commits the attachment without the risk. `attached`, `members` and `owed` are history.

### Approvals and runs

A review is `ReviewRead` then `ReviewCommit`, because the endpoint writes back by
primary key what it read. Expiry is one guarded UPDATE. `Guard*` is what a run's
guard answers, `RunCommit` the effect of the run (the action, or the request
becoming visible) at the commit of its session. `Mode` is the autonomy of the
run's agent; `full` also stands for a containment action that the policy allows
and `deny` for one it refuses.

`AgentRuns` has the row of a run (committed before its message is pushed), the
queue, and the session of each worker: groups of tasks in order, single tasks
that end completed or failed, a parallel group that always fails because its
tasks share a session, and playbook tasks whose engine commits the session half
way, which makes "running" visible. A run whose message or commit is lost is
stuck. `Service` is `RunService` under the refinement mapping
status <- committed row, results <- committed tasks.

`SoarRuns` steps through the active playbooks of an alert, which it has loaded at
the start of a pass (`loaded`): trigger, one action at a time, the commit of the
run, the next playbook. `CreateCase` always fails and leaves the session `broken`,
because the case has no tenant: the commit of the playbook then ends the pass and
takes the run and its approval requests (`pending`) with it. A containment action
is refused (shadow mode, a missing id), asks for an approval and answers failure,
or finds one granted and calls the provider; the request is visible to a reviewer
(`open`, `Grant`) only after the commit, and others may have asked for the same
target (`elsewhere`). The API creates, changes, deletes and runs playbooks in
between; a deleted one makes the foreign key refuse its run, which ends the pass.
`TriggerClock` lets two replicas look at the clock; expressions are sets of
minutes the way `_cron_matches` computes them, in hours of four minutes.

### Remote effects and inventories

`Ticketing`, `ReportSchedule`, `Notifications`, `ThreatIntel` and `OsintLookups`
have, for each worker, what its frame holds between two calls, and separate steps
for the remote effect, the commit and the failure of either. `OsintLookups` also
has the service at the other end, because its scans share a file per username.
`WazuhHealth` lets the four questions of a cycle interleave on one client: who
logs in, who meets a closed client, whose failure counts for the breaker; the
environment may change in the middle, and `ever`, `always` and `disturbed` are
what the snapshot is compared with. `AssetSync` does the same for a listing over
pages: `had` are the statuses an agent has had since the cycle began.

### Services

In each of `Cases`, `KillChain`, `Feedback`, `Baselines`, `Vulnerabilities`,
`Accounts` a handler or worker loads rows in one step and commits in a later one,
and the commit writes, as the ORM does, only the columns whose value differs from
what was loaded; other handlers commit in between. `KillChain` keeps the members
of the incident (`linked`) apart from those of others (`elsewhere`), because the
stage is computed from all that share an entity with it (`Visible`).
`Vulnerabilities` has the documents of a pass in order, with a key repeated when
two agents report it, and cycles that a failed commit breaks off. `RequestPath` has one request
per element of `Requests`, with a shape (what the router needs, what the caller
brings, a token that names no tenant included); `Go` moves it on. `LlmCalls` has
the tier an alert gets, the provider of each tier (local or cloud, the default one
too) and the attempts of each analysis under a semaphore. `Dashboard` has requests that set the template
globals, wait, and render; forms; and the JSON store with its entries by id or by
position. Every write of the store is `Write`: made whole (`Written`), or `Spoilt`,
which stands for a read that found no file, a file that could not be opened, or a
dump that broke off after the file was truncated, all answered as successes; pages
that seed defaults write too. What a fault takes is recorded in `wiped`.

## 3. Runs

Passing runs: what holds. A star marks a property that section 4 proves for all
values of the constants, or for all that satisfy the condition named there.

| Run | Instance | Shows |
|---|---|---|
| `pipeline_safety` | 2 workers, 2 alerts (one with the escalation case the schema refuses), 1 request, 1 retry, one fault of any kind, dashboard polls | `TypeOK`\*, `JobsAccounted`\*, `OneAnalysisPerRequest`\* |
| `pipeline_retries` | 2 workers, 2 alerts, 2 retries, one database or LLM fault | `RetryCountIsPerPass`\*, `VerdictStands`\* |
| `settling` | approvals: 2 requests, 2 actions, 1 reviewer, one guarded action in each of the four modes, fairness; pipeline: 2 workers, 1 alert, 1 request, 2 faults, fairness | `NoActionWithoutReview`\*, `PendingSettles`; `RequestAnswered`, `AlertsSettle` |
| `gate_safety` | 126 alerts with at most two enrichers that find something, both modes, default thresholds | `FailOpenNeverRaises`\*, `DeterministicVerdict`\*, `IdentityActionsNeedHuman`\*, `SilenceIsHarmless`\* |
| `incidents` | 2 consumers, 4 alerts (two of them delivered twice), 2 entities named in both orders, suppression after 2, enforce mode, 1 incident may age, fairness | `SuppressionIsEarned`\*, `ExactWhenShared`\*, `FreshIncidentIsAlone`\*, `TransactionsEnd` |
| `outbound` | see below | `TicketsAccounted`\*, `DeliveriesAccounted`\*, `HandledOnce`\*, `MatchesBacked`\*, `SnapshotsTellTruth`\*, `OpenOnlyOnStreak`\*, `OutboundSettles` |
| `automation` | see below | `OnePlace`\*, `ImplementsService`\*, `PlaybooksTellTruth`\*, `FiresAsNamed`\*, `DryRunForetells`\*, `RunsSettle` |
| `services` | see below | `AnswersTellTruth`\*, `CaseRecordsAgree`\*, `StageExplained`\*, `AverageIsComplete`\*, `AnomaliesNeedHistory`\*, `RiskIsTraceable`\*, `AccountsAgree`\*, `PagesAndFileHold`\*, `ModelUseBounded`\*, `ServicesSettle` |

The three runs that host the most components:

- `outbound`: ticketing with 1 case, 2 providers and 2 replicas, 1 fault; 2
  report schedules of period 2 over 6 hours, 2 faults; 3 notifications, one for
  an unknown channel, 2 workers, 2 faults; threat intelligence with 2 alerts, 1
  indicator, 2 sources, 1 feed, 2 enrichers, 1 fault; the breaker with 4 callers
  and threshold 3; the health worker on a cluster, 2 cycles, 1 event in the
  middle; a fleet of 2 agents, pages of 1, 2 cycles, 1 change; 3 OSINT lookups,
  two of one username. `OutboundSettles` is the conjunction of the liveness
  properties of the parts (`TicketCatchesUp`, `DueDelivered`,
  `NotificationSettles`, `EnrichmentSettles`, `RecoversForGood`);
  `SnapshotsTellTruth` is that of health snapshots and of the asset inventory;
  `MatchesBacked` that of indicators and of OSINT results.
- `automation`: 2 agent runs, one of three single tasks with a playbook among
  them and one with a parallel group, 2 spawners, 2 workers, 2 faults; 3
  playbooks, 2 passes, 2 faults, 2 requests to the API (edits, approvals asked or
  granted); 3 cron triggers, 2 replicas, six
  minutes; 1 workflow of 4 steps, with and without a condition of its trigger, for
  real and as a dry run.
- `services`: 1 case, 2 handlers, 4 requests; an incident with 3 alerts, 2
  handlers, 4 runs; 3 ratings, 2 workers; 2 baseline workers, 4 passes; 1
  vulnerability, 2 scores, 2 ingesters, 3 passes of at most 2 documents, 1 outage
  or broken cycle; 2 requests of 7 shapes, limit 1, 1 fault; 3 dashboard requests,
  1 failing read, write or restart; 2 analyses, 1 slot, 1
  retry; 2 account handlers, 4 requests, a lock after 2 failures.
  `ServicesSettle` conjoins `RatingsCounted`, `EveryRowEnriched`, `AnalysesEnd`.

Where code races, the properties do not pretend that it does not. They are
stated as accounts: what was done outside, or what a row says, is explained by
what was committed, up to the named exceptions (a crash after the remote effect,
a second replica that read before the first committed, a concurrent handler that
loaded the old value). Each exception is a clause of the property, named
in its comment.

Violation runs: a sentence of the repository the code does not keep. Each is a
finding in `PROJECT.json` with the quotation.

| Run | Property | The counterexample |
|---|---|---|
| `pipeline_stored` | `StoredAlertTriaged` | a consumer pops the message before the alert's commit and drops it |
| `approvals_final` | `DecisionFinal` | two reviewers (1 request, 3 runs), the second overwrites the first |
| `requests_audited` | `EffectsAudited` | a request with a valid token commits, the audit raises, the client gets an error and no audit row is written |
| `stage_of_members` | `StageIsOfMembers` | an alert of another incident names an entity of this one, and the stage becomes that alert's |

### What else was met while modelling

The models repeat the code in these places; no run is spent on them. They are
observations of how the program behaves, not all of them are wrong.

Alert path:

- A Redis error between the pop of a job and its next push drops it
  (`triage_worker.py:676`, `dlq_worker.py:84-98`); `triage_worker.py:674` says
  that "no job is silently lost". The model records the loss in `lost`.
- The dead letter carries only `alert_id` and `error` (`triage_worker.py:678`),
  so the re-enqueued job is an automatic one, although `dlq_worker.py:111-112`
  means to "preserve any original fields like manual/force_fast". Its retry count
  is cleared by each re-enqueue, so an alert that always fails goes round for ever.
- An error after the verdict's commit, such as the push on `ti_enrich_queue`
  (`triage_worker.py:657-660`), fails the completed row, which
  `_mark_manual_failed` (682) describes as "an API-created pending triage row".
- The escalation case has no `tenant_id` (`triage_worker.py:500-510`), which
  `schema.sql:154` requires: the flush raises and the verdict is rolled back
  (`Escalating`, `Flushes`). Nor has the automatic case (559-567): the failed
  flush is caught (589) but the session cannot commit any more (591), so in
  enforce mode every alert that lifts an incident over the threshold fails.
- Two consumers that join one incident through different entities write the same
  alert count (`stitch.py:141`), which `models/alert_dedup.py:24` calls the
  number of its alerts.
- The fallback of a failed stitch (`alert_dedup.py:82`) calls
  `AsyncSession.rollback` with an argument it does not take, so the alert is
  dead-lettered where the code means to fall back to a standalone incident.
- An enricher that failed counts as one that found nothing (`auto_close.py:42-87`
  against line 7). The live z-score (`pipeline.py:144`) erases a historical boost
  applied first (`Gather`), whereas `pipeline.py:167` means to boost.
- The shadow tag (`triage_worker.py:408-411`) is dropped by the validation of the
  result (`models/triage.py:57`, 165-167). Fusion's severity `suspicious`
  (`decision_fusion.py:59-60`) is refused by the CHECK of `schema.sql:125`. The
  fallback result of a failed analysis enters the semantic cache
  (`triage_worker.py:613-618`).
- A failed trial of the breaker does not renew `opened_at`
  (`circuit_breaker.py:59-60`), so the circuit stays permeable, whereas
  `dlq_worker.py:7-9` has jobs parked until the cooldown window expires. The
  breaker of a provider never opens: it is made anew with each provider and two
  attempts do not reach its threshold of three.

Approvals, runs and playbooks:

- A run that asked for approval completes (`engine.py:117-126`) and nothing
  resumes it; `agents/policy_guard.md:18` says it blocks until a human approves.
  An existing approved request is honoured before the autonomy is looked at
  (`handlers.py:117-127`, `GuardReuse`), although "Read-only agents never perform
  write actions" (`handlers.py:136`). `notify` is not guarded, though
  `_write_actions` lists it.
- A playbook task commits in the middle of a run and makes its row `running`; a
  crash leaves it so. A parallel group always fails, its tasks share a session.
  Two spawns that create one agent definition lose one run to the UNIQUE name.
  `handle_webhook` has no caller. A completed run may consist of failed tasks.
- A cron list that contains a step never matches, and days of the week count from
  Monday = 0 (`trigger_worker.py`). Two replicas fire each trigger twice.
- No playbook with `create_case` leaves a run or a case, whatever else it did: the
  case has no `tenant_id` (`soar/actions.py:55-64`), its refused flush makes the
  playbook's commit fail too (`soar/engine.py:113`), and the playbooks after it are
  not looked at, against line 66, "Find and execute all matching playbooks for an
  alert"; its webhooks and notifications are out. A containment action of a playbook never
  acts on the request it makes: it fails, and only a later pass finds the approval.
- A playbook's policy context has no threat intelligence
  (`soar/actions.py:264-270`), so the override for known-bad addresses
  (`containment_gate.py:93`) never applies to it. A playbook run from an agent has
  no Redis client and its notifications are silently not queued. A playbook
  deleted during a pass makes the foreign key refuse its run, which ends the
  pass. `POST /playbooks/{id}/run` leaves a pending row and a message nobody
  consumes.
- Nothing calls the workflow engine; its built-in actions only log, and step
  conditions see only the alert and the score.

Remote effects:

- `POST /reports` inserts a status the CHECK refuses; scheduled rows of a type or
  format the CHECK refuses end the whole check; a schedule that never ran is
  never due.
- Two ticketing replicas may create two links for one case, and from then on
  `scalar_one_or_none` raises in every cycle. Closed cases are never sent.
- A source that errs is cached as a negative answer for six hours. The
  dead-letter lists of notifications, threat intelligence, vulnerabilities and
  OSINT are read by nobody.
- Every failure of the OSINT connector is stored as an empty success, and scans
  of one username share one file under `/tmp`.
- In the health worker, a cold start logs in four times and three clients are
  never closed; answers 401 count as failures of the breaker, which three of them
  open; a status question that fails is reported as a daemon that is down.
- The asset sync inserts without the `tenant_id` the schema requires, so a new
  agent fails the sync. A page that fails ends the listing as if it were complete,
  and an agent removed between two pages hides another. Removed agents keep their
  last status.

Services:

- The middlewares' HTTP exceptions become 500, since they are raised outside the
  layer that turns them into answers; `DashboardAccess` turns a ValueError into 403; the rate
  limit is per process and anonymous callers share one bucket; metering counts
  everything for "system".
- The login lock is only looked at for a wrong password, a right one clears it;
  concurrent failures count once; the answer of a created user fails its
  validation after the commit; a refreshed token keeps the old data for ever.
- A case's `closed_at` is never cleared. Concurrent kill-chain handlers overwrite
  history and SLA. Without any tactic in sight, the stage is computed from the
  latest tactics of any alerts (`killchain.py:88-98`). Duplicate rows of vulnerabilities or baselines make
  `scalar_one_or_none` raise for ever. The first failing enrichment batch ends its
  cycle, and the risk is not recomputed after a new CVSS.
- `avg_rating` stays unwritten when the new mean equals the value that was loaded.
- The dashboard's globals are shared by concurrent requests; its forms send the
  CSRF token as a field while the middleware reads the header; an entry deleted
  by position from an old page may be another one; the page shows success
  whatever the API answered; `save_store` truncates the file before it writes and
  swallows every exception, and nobody looks at its result; a file that cannot be
  read counts as an empty one, which the next save writes (`main.py:111-118`,
  165-171).

### Bounds, and why they are enough

Two workers, handlers or replicas everywhere, because every race of the code is
between two of them; two alerts, so that one can be lost while another is handled
and batches can mix; one request in the pipeline, because the code never relates
two. `MaxRetries` 1 or 2 (default 3) reaches the limit and the reset. `MaxFaults`
and its kin bound faults so that the state space is finite: one fault is enough
to lose a job, two let a crash follow a failed push. The queues need no bound: an
alert is inserted once and a request is made once. In `DecisionGate` the signals
are a grid around the thresholds of every band (`MCDecisionGate!Domain`); `Pairs`
limits an alert to two enrichers with findings, enough to cross each threshold
with one of them missing. In `incidents` two entities are the least that allow a
deadlock, and two alerts that join one incident without sharing an entity; at
most two disjoint incidents are open and one may age, so three keys suffice;
`MaxDeliveries` stands for the bounded retries and also lets a committed alert
come back. The breaker needs a caller more than its threshold, so that a call may
still be on its way when the circuit opens. Three ratings let two commits
overtake a third; `MaxCycles` 2 and `MaxPasses` 3 let a
cycle meet what the one before left behind; a page of one agent makes every
removal fall between two pages. Hours of four minutes keep the boundary of an
hour within six. The limits (the rate limit of 1, one LLM slot, the lock after
two failures) are set so that the limit is reached by the instance.

Symmetry is used only in `pipeline_safety`, over workers, which nothing
distinguishes. `CHECK_DEADLOCK FALSE` is set everywhere: with bounded inputs and
faults the models end in a state where every worker waits on an empty queue.

### Fairness

Weak fairness of what the processes do by themselves: the loops run for ever and
`main.py:52-68` restarts a task that raised. In `TriagePipeline` that is
`Consume`, `HandleDlq`, `Reap` and `PollCommit`; `WebhookCommit`, `EnqueueTriage`
and `GetFail` end because a handler that started returns; `Expire` is the passing
of time. In `Approvals` it is `CheckExpiredApprovals`, `Lapse`, the end of a
review (commit or abort) and `RunCommit`. Each session of `IncidentStitching`
goes on whenever it can, and `DeadlockAbort` is PostgreSQL's deadlock detection.
`AgentRuns` has the push of each spawner and the work of each worker;
`Ticketing`, `Notifications`, `ThreatIntel`, `Feedback`, `Vulnerabilities` and
`LlmCalls` the work of each worker or call; `ReportSchedule` its loop and the
clock; `CircuitBreaker` `Cool`, `Enter` and the end of a call. Nothing is assumed
of analysts, reviewers, callers, new alerts or faults, with one exception:
`RecoversForGood` assumes that a caller keeps calling, since the model is called
for each alert. Strong fairness is nowhere needed.

## 4. Proofs

The theorems hold for all values of the constants that satisfy the assumptions
named in the modules (sets of any size, any positive threshold, any number of
faults). Where a theorem needs more it says so in an `ASSUME`, and this section
repeats it. Each safety property was first checked by TLC on its run.

The assumptions on constants say what the code fixes: that a marker for "nothing"
(`None`, `Free`, `Never`, `Null`) is no identifier, that the sources of
`ThreatIntel` are the three the code gathers from, that an enricher's finding
lies in the range the code computes, that thresholds are in the order the default
configuration has, that sets whose members are counted are finite.

### The alert path

- `TypeCorrect` (`TriagePipeline_proofs`): `Spec => []TypeOK`, inductive by
  itself; one lemma for each group of actions.
- `JobsAlwaysAccounted`: `Spec => []JobsAccounted`. `JobsAccounted` is not
  inductive: it counts a job in a consumer's hands even after the commit, when
  nobody relies on it. `AccountInv` counts only frames before their commit or
  push (`Popped`), and adds that a finished consumer has stored a verdict and
  that open batches are disjoint sets of flushed alerts.
- `CountsEndWithTheirPass`: `Spec => []RetryCountIsPerPass`, for `Faults` without
  crashes and Redis errors, the condition the property's comment names and the
  run has: either leaves a count behind. `PassInv` adds that the breaker
  of the dead-letter worker is then never touched, so that a job leaves the
  back-off only by its push.
- `RequestsAnalysedOnce`: `Spec => []OneAnalysisPerRequest`, with every fault.
  `CarryInv` says who carries the row of a request: the handler that committed
  it, then one place of the queue, then one consumer, never two; what comes back
  from the dead-letter queue carries none.
- `CompletedRowsStand`: `Spec => VerdictStands` (an action property), for
  installations whose dashboard does not poll and whose Redis answers, as the
  property's comment says: a poll that read the row as pending, and a push that
  fails after the commit, do fail a completed row.
  `StandInv` adds to `CarryInv` that a completed row is carried by nobody but the
  consumer that has just committed it.
- `FailOpenIsOneSided` (`DecisionGate_proofs`): `Spec => []FailOpenNeverRaises`.
  The invariant bounds the z-score by the one of the complete enrichment; the
  lemmas `PointsMonotone`, `RoundMonotone` and `ScoreMonotone` carry it through
  the weighting.
- `LevelDecidesVerdict`, `PlaybooksNeverAct`, `SilenceLosesNothing`: the other
  three properties of the gate. `GateInv` says that the signals are fixed when the
  last enricher has ended and the mode once it is read, so that what was decided
  stays true; `ScoreFloor` bounds the score from below by each signal that counts,
  and the context a playbook rebuilds cannot score enough to be allowed. The
  last theorem needs `L0Threshold <= 25` and `L1Threshold <= 40`, the points of a
  CVE match and of an intelligence hit (the defaults are 15 and 25): with higher
  thresholds the gate does silence alerts with such a signal.
- `StitchInvariant`, `FreshIncidentsAreAlone` and `SuppressionsAreEarned`
  (`IncidentStitching_proofs`): `Spec => []StitchInv`, `Spec =>
  FreshIncidentIsAlone` (an action property) and `Spec => []SuppressionIsEarned`.
  `StitchInv` says that entity locks are exclusive, that a session holds every
  entity of its alert when it searches, and that until its commit nothing
  committed shares an entity with the incident it creates: another commit links
  only what that session held. `EarnedInv` adds to the counters what a session
  has read of them. `CloseStep`, `AttachStep` and `LocalStep` are the three ways
  a step can change the sessions.
- `SharedCountersAreExact`: `Spec => []ExactWhenShared`. `ExactInv` adds to
  `StitchInv` that what a session has read of its incident is still what was
  committed, as long as the incident's alerts and its own share entities: two
  sessions that found their incidents hold different entities, so of two alerts
  that share one the second waits for the first.

### Approvals, runs and requests

- `ActionsAreReviewed` (`Approvals_proofs`): `Spec => []NoActionWithoutReview`
  from `ApprovalInv`: what a guard finds approved and not lapsed was approved in
  time (`UsableInTime`), the request of an uncommitted run is invisible to
  reviewers (`AskedHidden`), so that the crash that removes it removes nothing a
  decision rests on.
- `RunsTyped`, `RunsInOnePlace` and `RunsImplementService` (`Automation_proofs`):
  `Spec => []OnePlace` from `PlaceInv`, which adds that a run held by one worker
  is in no queue and in no other hand (`Alone`); and `Spec =>
  ImplementsService`, the refinement of `RunService`. Its invariant `Progress`
  says that the results a worker holds are those of the groups before the next
  one and extend what it has committed, so that every step either leaves the
  mapped status and results alone or is a step of the service.
- `TriggersFireAsNamed`: `Clock!Spec => []FiresAsNamed`. `ClockInv` follows each
  firing: the runs spawned for this minute and those being spawned are at most
  the replicas whose memory says they fired and the restarts that made one forget,
  and, as long as nothing failed, what a replica has fired is being spawned, has
  been, or went into the definition of its agent. `FieldsMatch` shows that the
  test `_cron_matches` makes of a field (bounds and a remainder) finds the
  minutes the field names.
- `DryRunsForetell`: `Flow!Spec => []DryRunForetells`. The two runs are at
  different steps, so `FlowInv` says that one `Plan` exists which both follow: how
  many actions come before each step, whose each is, and which step was the last
  to store each output. `PlanExtends` draws it up for one more step whenever the
  run that is ahead moves; where both have ended, it tells the same of both.
- `PlaybooksTold`: `Soar!Spec => []PlaybooksTellTruth`. A playbook has in each
  pass a cell: the approval requests and messages that left it, and its row. `SoarInv` tells of every cell
  by where the cursor of the pass is (`CellsTold`): ahead of it nothing has
  happened, at it the messages are those of the actions done so far, behind it
  they are those of its row, unless a fault, a deletion or a case the playbook
  creates took the row. `Approved` adds that a target with a pending or granted
  approval was asked for by others or by a run that is committed, hence before the
  one that is open. Rows come
  in the order of pass and priority, all behind the cursor (`RowsIn`), so a
  cell has one row at most and the counts of the property, which take any row of
  a cell, count that one (`CountCovers`, `HitsGrow`).
- `AnswersAreHonest` (`Services_proofs`): `Spec => []AnswersTellTruth` for any
  number of concurrent requests. The invariant `Honest` has for each request what
  must hold while it is `OnItsWay` and once it `HasLeft`; `OthersStay` shows that
  a step of one request leaves the others alone, though they share the rate
  limit, the counters and the clock.

### Remote effects (`Outbound_proofs`)

- `RefusalsNeedStreak`: `Spec => []OpenOnlyOnStreak` from `BreakerInv`, which ties
  the failure counter to the history `streak`.
- `TicketsStayAccounted`: `T!Spec => []TicketsAccounted`. `TicketInv` counts: the
  links of a pair and the cycles that have one in flight (`InFlight`) are at most
  the workers, because a worker that has a ticket in flight found no link, and
  the remote tickets exceed them only by the cycles rolled back.
- `JobsHandledOnce`: `N!Spec => []HandledOnce`. `NotifyInv` says where a job is
  (`JobPlaced`: once in the queue, or in one hand, never in both) and what has
  become of it there (`JobTold`).
- `DeliveriesStayAccounted`: `R!Spec => []DeliveriesAccounted`. `ReportInv` keeps
  the order of slot, clock and `last_run_at` (`InOrder`) and adds the report that
  is out to what was sent, to what was recorded and to what was logged
  (`SentFor`).
- `IntelMatchesBacked`, `LookupsStayBacked` and both together,
  `MatchesStayBacked`. For threat intelligence, `IntelInv` says that a cached
  answer is an entry some source listed, that what a worker has found is stored,
  and that the messages, jobs and ends of an alert are at most its pushes. That
  none is missed rests on the cache keeping the first source that lists the
  indicator: a model in which it kept any of them has an execution in which one
  alert is matched with one source and the next with another, so that the model
  had to be as exact as `threat_intel_worker.py` is about the order of its gather.
  For OSINT, `LookupInv` follows a username's file through the scans that write
  it: a scan that nobody crossed finds no file, then a half one, then one at least
  as new as itself.
- `SnapshotsStayTrue`: `H!Spec /\ S!Spec => []SnapshotsTellTruth`. `HealthInv`
  says of each answer that it was so at a moment of the cycle, and of a cycle that
  nothing has disturbed that no request is cut, refused or counted (`Calm`), so
  that every question that has ended has an answer. `SyncInv` follows each pass
  over the agents: what it has listed and looked up are statuses the agent has had
  (`ListedTruly`), whoever stays and has a rank below the offset is listed
  (`NoneMissed`), and a row it has read and will not write has what it read until
  another pass commits (`ReadStands`). The lemmas on ranks carry it: every place
  up to the number of registered agents is somebody's (`RanksFill`, by
  a counting argument), and no rank falls while nobody leaves (`RanksStay`).

### Services (`Services_proofs`)

- `RisksStayTraceable`: `V!Spec => []RiskIsTraceable`. `VulnInv` has three parts:
  the rows of a key and the passes that are about to insert one are at most the
  ingesters (`RoomLeft`), a pass updates only rows that are there
  (`UpdatesFound`), and what an enrichment cycle has left to do was found
  in a row and is a score that row has had (`TodoFound`).
- `AccountsStayAgreed`: `A!Spec => []AccountsAgree`. `AccountInv` says of each
  request in flight what the row it loaded still tells (`LoadedUser`,
  `LoadedTenant`): its failures are at most those counted for the user it
  loaded, and its branding is the committed one while nobody has saved since.
- `StagesStayExplained`: `K!Spec => []StageExplained`. The row lock is what
  `ChainInv` rests on: at most one run is computed and uncommitted, and what it
  has found includes every alert an earlier one has correlated, so that the stage
  does not fall although the handler writes over what it did not read. What shares
  an entity with the members only grows (`Visible`), which bounds it from above.
- `AnomaliesStayFounded`: `U!Spec => []AnomaliesNeedHistory`. Passes overwrite
  each other's statistics, so none is the count of its alerts. `BaseInv` bounds
  the observations of every row, committed or in a session, by two for each pass
  less those the passes under way have yet to begin (`Due`); so the six that an
  anomaly needs are of three triages, and a spread means that both levels came.
- `CasesStayTold`: `C!Spec => []CaseRecordsAgree`. `CaseInv` says of each field
  where its last change stands in the timeline (`Tells`), a place that an event
  moves to the end or leaves alone (`EventTells`), and that a handler has loaded
  rows which are there.
- `AverageStaysComplete`: `F!Spec => []AverageIsComplete`. The flush takes the
  triage's row lock before it averages, so at most one rating is flushed and
  uncommitted; its mean is that of the committed ratings and itself, and stays so
  until its commit (`FeedInv`). The sum itself is never computed: the means that
  are compared are means of one set (`MeanOfThese`).
- `PagesAndFileStayHeld`: `D!Spec => []PagesAndFileHold`. `PageInv` says that a
  request which is alone is the only one waiting and finds its own values in the
  template globals. Its part `FileInv` says that the collections of the file name
  the request of each entry once, so that a deletion, by id or by position, takes
  out exactly one name (`KeptNames`); what a silent failure or a restart takes out
  of the file is in `wiped`.
- `ModelUseStaysBounded`: `L!Spec => []ModelUseBounded`. In `LlmInv` an analysis
  that asks has failed once less than it has asked, which bounds what its breaker
  has counted by its retries. A lookup that fails only takes points away, since the one
  signal that lowers the score needs no lookup (`FewerPoints`).

### What the proofs changed in the models

Three assumptions were needed that TLC's instances had hidden (markers for
"nothing" that could have been identifiers). `ThreatIntel!CachedBest` was a choice
and is now the source the code prefers. `Vulnerabilities` had rows in two places,
enough for two ingesters; they now have as many as there are ingesters.
`TriggerAssumption` and `WorkflowAssumption` now say of what shape an expression
and a workflow are, that there is a replica (without one no minute is served), and
that the mark of a step without provider is no provider. `AssetSync!Page` was a
filtered sequence and is now stated by ranks, an agent's rank being the number of
registered agents up to it; the pages are the same.

Lists from which something is taken (`SelectSeq`, `RemoveAt`) are recursive
definitions, of which nothing can be proved for every list. `Kept` of
`Dashboard` and `SoarRuns` says by ranks what such a deletion leaves; `Cases!Told`
takes the last change of a timeline by the greatest index, `Feedback!Mean` sums a
function over its domain, and `LlmCalls!Score` is the sum of its seven points.
`PlaybookAssumption` says of what shape a playbook is, `CaseAssumption` and
`DashboardAssumption` that a marker is neither a status nor a request. Two clauses of
`ModelUseBounded` were only true of the instance: that no analysis meets an open
circuit needs fewer retries than the breaker's threshold (the code has one and
three), and the cloud is forbidden to an escalation, not to every provider.

## 5. Only model-checked

- Liveness under fairness (`RequestAnswered`, `AlertsSettle`, `PendingSettles`,
  `TransactionsEnd`, `OutboundSettles`, `RunsSettle`, `ServicesSettle`), which is
  out of the prover's reach. Every invariant and action property of a passing
  run is proved.
- The four violated properties, of course, for which TLC has the counterexample.

## 6. Not modelled

The status and the reason of each component is in `PROJECT.json`. In short:

- Wording, prompts, rendering, HTTP formats and SQL details are abstracted
  everywhere; endpoints, lists and pages that only read have no action.
- `services/mcp/server.py` raises a NameError on import: its dispatch table (697)
  names functions that are defined below it.
- `playbook_worker.py` and `ueba_worker` import names that do not exist, which
  `main.py:41-48` swallows; the workers of sigma, credential leaks, the meta
  agent and prompt refinement are in no list of `main.py`. The report scheduler
  is in none either, but is a program of its own (`report_scheduler.py:278-291`)
  and is modelled as such.
- The identity worker is started with an empty registry of connectors.
- `approval_execute_queue` has a consumer but no producer.
- The table of `state/machine.py` and the rule-accuracy feedback have no caller
  outside the tests.
- `arq_app.py` is the alternative of a queue backend that is off by default; its
  reaper is `Reap`, its usage rows are not modelled.
- The compliance checks and the configuration APIs (channels, rules, feeds,
  ticketing) are queries and CRUD on rows no modelled code decides by.
- The vector store of RAG, the metrics and the health pages are sinks.

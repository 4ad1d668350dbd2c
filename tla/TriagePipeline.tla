---------------------------- MODULE TriagePipeline ----------------------------
(***************************************************************************)
(* The path of an alert from ingestion to its triage verdict: the poller   *)
(* and the webhook that store alerts and push them on triage_queue, the    *)
(* manual "Analyze" endpoint, the triage consumers, the reaper of stale    *)
(* pending rows, and the dead-letter queue worker.                         *)
(*                                                                         *)
(* Every worker process (services/worker/app/main.py) runs one poller, one *)
(* triage consumer, one reaper and one DLQ worker on a single event loop;  *)
(* several such processes share PostgreSQL and the Redis lists.  A step of *)
(* the model is the code between two points where another process or task  *)
(* can be observed: a database commit or a Redis command.                  *)
(***************************************************************************)
EXTENDS Naturals, Sequences, FiniteSets, Breaker

CONSTANTS
    Workers,          \* worker processes
    Alerts,           \* primary keys of alert rows; each is inserted at most once
    Requests,         \* triage rows created by POST /triage/run
    Escalating,       \* alerts whose verdict asks for an escalation case
    MaxRetries,       \* settings.dlq_max_retries
    ForceFast,        \* settings.triage_manual_force_fast
    GateReturns,      \* TRUE if L0/L1 decisions end the triage (not shadow_still_triages)
    DashboardPolls,   \* TRUE if GET /triage/{alert_id} is called
    Faults,           \* the kinds of fault that may happen
    MaxFaults,        \* how many of them may happen in a behaviour
    None              \* no row, no message

Message == [alert : Alerts, row : Requests \union {None}]

ASSUME TriageAssumption ==
    /\ Escalating \subseteq Alerts
    /\ MaxRetries \in Nat
    /\ ForceFast \in BOOLEAN /\ GateReturns \in BOOLEAN /\ DashboardPolls \in BOOLEAN
    /\ Faults \subseteq {"crash", "redis", "db", "llm"}
    /\ MaxFaults \in Nat
    /\ None \notin Alerts /\ None \notin Requests /\ None \notin Message

VARIABLES
    alert,      \* alert rows: unused, flushed (in an open transaction), stored, rolledback
    batch,      \* the alerts in the open transaction of each poller
    queue,      \* triage_queue, the next message to be popped first
    row,        \* status of the manual triage rows
    rowAlert,   \* the alert_id of a manual triage row
    overdue,    \* pending rows older than the 600 s budget
    latest,     \* the manual row that is the newest triage row of an alert
    enqueuing,  \* rows committed by POST /run whose message is not pushed yet
    timingOut,  \* rows GET /triage read as pending and overdue, not yet committed
    pc,         \* where each triage consumer stands in process_message
    hand,       \* the message it popped
    verdict,    \* how an automatic or manual triage of an alert last ended
    dlq,        \* triage_dlq
    dlqPc,      \* where each DLQ worker stands in _handle
    dlqHand,    \* the job it popped
    dlqCount,   \* the retry count it read
    retries,    \* the hash triage_dlq_retries
    parked,     \* alerts in triage_dlq_parked
    breaker,    \* the in-memory breaker of each DLQ worker
    lost,       \* history: the causes for which a job of the alert vanished
    budget      \* faults left

ingestVars == <<alert, batch>>
rowVars    == <<row, rowAlert, overdue, latest>>
apiVars    == <<enqueuing, timingOut>>
triageVars == <<pc, hand, verdict>>
dlqVars    == <<dlqPc, dlqHand, dlqCount, retries, parked, breaker>>
vars == <<ingestVars, queue, rowVars, apiVars, triageVars, dlq, dlqVars, lost, budget>>

AlertStates == {"unused", "flushed", "stored", "rolledback"}
RowStates   == {"none", "pending", "completed", "failed"}
Verdicts    == {"none", "suppressed", "triaged"}
Causes      == {"early", "crash", "redis"}
\* A dead letter does not name the row of the message that failed.
Job         == [alert : Alerts]

IngestTypeOK ==
    /\ alert \in [Alerts -> AlertStates]
    /\ batch \in [Workers -> SUBSET Alerts]

RowTypeOK ==
    /\ row \in [Requests -> RowStates]
    /\ rowAlert \in [Requests -> Alerts \union {None}]
    /\ overdue \subseteq Requests
    /\ latest \in [Alerts -> Requests \union {None}]

ApiTypeOK ==
    /\ enqueuing \subseteq Requests
    /\ timingOut \subseteq Requests
    /\ \A r \in enqueuing : rowAlert[r] \in Alerts

HandTypeOK ==
    /\ pc \in [Workers -> {"idle", "load", "analyze", "finish", "except", "deadletter"}]
    /\ hand \in [Workers -> Message \union {None}]
    /\ \A w \in Workers : pc[w] # "idle" => hand[w] \in Message

DlqTypeOK ==
    /\ dlqPc \in [Workers -> {"idle", "decide", "backoff", "clear"}]
    /\ dlqHand \in [Workers -> Job \union {None}]
    /\ \A w \in Workers : dlqPc[w] # "idle" => dlqHand[w] \in Job
    /\ dlqCount \in [Workers -> 0 .. MaxRetries]
    /\ retries \in [Alerts -> 0 .. MaxRetries]
    /\ parked \subseteq Alerts
    /\ breaker \in [Workers -> BreakerState]

TypeOK ==
    /\ IngestTypeOK /\ RowTypeOK /\ ApiTypeOK /\ HandTypeOK /\ DlqTypeOK
    /\ queue \in Seq(Message)
    /\ dlq \in Seq(Job)
    /\ verdict \in [Alerts -> Verdicts]
    /\ lost \in [Alerts -> SUBSET Causes]
    /\ budget \in 0 .. MaxFaults

Init ==
    /\ alert = [a \in Alerts |-> "unused"]
    /\ batch = [w \in Workers |-> {}]
    /\ queue = <<>>
    /\ row = [r \in Requests |-> "none"]
    /\ rowAlert = [r \in Requests |-> None]
    /\ overdue = {} /\ enqueuing = {} /\ timingOut = {} /\ parked = {}
    /\ latest = [a \in Alerts |-> None]
    /\ pc = [w \in Workers |-> "idle"]
    /\ hand = [w \in Workers |-> None]
    /\ verdict = [a \in Alerts |-> "none"]
    /\ dlq = <<>>
    /\ dlqPc = [w \in Workers |-> "idle"]
    /\ dlqHand = [w \in Workers |-> None]
    /\ dlqCount = [w \in Workers |-> 0]
    /\ retries = [a \in Alerts |-> 0]
    /\ breaker = [w \in Workers |-> FreshBreaker]
    /\ lost = [a \in Alerts |-> {}]
    /\ budget = MaxFaults
-------------------------------------------------------------------------------
(* Helpers.                                                                *)

Fault(kind) == kind \in Faults /\ budget > 0 /\ budget' = budget - 1

\* A job of alert a vanishes for the given cause.
Lose(a, cause) == lost' = [lost EXCEPT ![a] = @ \union {cause}]

Push(a, r) == queue' = Append(queue, [alert |-> a, row |-> r])

\* The consumer leaves process_message.
Done(w) == pc' = [pc EXCEPT ![w] = "idle"] /\ hand' = [hand EXCEPT ![w] = None]

Goto(w, place) == pc' = [pc EXCEPT ![w] = place] /\ UNCHANGED hand

DlqDone(w) ==
    /\ dlqPc' = [dlqPc EXCEPT ![w] = "idle"]
    /\ dlqHand' = [dlqHand EXCEPT ![w] = None]
    /\ dlqCount' = [dlqCount EXCEPT ![w] = 0]

DlqGoto(w, place) == dlqPc' = [dlqPc EXCEPT ![w] = place] /\ UNCHANGED <<dlqHand, dlqCount>>

\* _mark_manual_failed: unconditional, whatever the status of the row.
MarkManualFailed(r) == row' = IF r = None THEN row ELSE [row EXCEPT ![r] = "failed"]

Webhooks == {a \in Alerts : alert[a] = "flushed" /\ \A w \in Workers : a \notin batch[w]}

SetAlerts(S, s) == alert' = [a \in Alerts |-> IF a \in S THEN s ELSE alert[a]]
-------------------------------------------------------------------------------
(* Ingestion: both sources push the message before the row is committed.   *)

PollAlert(w, a) ==
    /\ alert[a] = "unused"
    /\ SetAlerts({a}, "flushed")
    /\ batch' = [batch EXCEPT ![w] = @ \union {a}]
    /\ Push(a, None)
    /\ UNCHANGED <<rowVars, apiVars, triageVars, dlq, dlqVars, lost, budget>>

PollCommit(w) ==
    /\ batch[w] # {}
    /\ SetAlerts(batch[w], "stored")
    /\ batch' = [batch EXCEPT ![w] = {}]
    /\ UNCHANGED <<queue, rowVars, apiVars, triageVars, dlq, dlqVars, lost, budget>>

PollAbort(w) ==
    /\ batch[w] # {}
    /\ Fault("db")
    /\ SetAlerts(batch[w], "rolledback")
    /\ batch' = [batch EXCEPT ![w] = {}]
    /\ UNCHANGED <<queue, rowVars, apiVars, triageVars, dlq, dlqVars, lost>>

WebhookAlert(a) ==
    /\ alert[a] = "unused"
    /\ SetAlerts({a}, "flushed")
    /\ Push(a, None)
    /\ UNCHANGED <<batch, rowVars, apiVars, triageVars, dlq, dlqVars, lost, budget>>

WebhookCommit(a) ==
    /\ a \in Webhooks
    /\ SetAlerts({a}, "stored")
    /\ UNCHANGED <<batch, queue, rowVars, apiVars, triageVars, dlq, dlqVars, lost, budget>>

WebhookAbort(a) ==
    /\ a \in Webhooks
    /\ Fault("db")
    /\ SetAlerts({a}, "rolledback")
    /\ UNCHANGED <<batch, queue, rowVars, apiVars, triageVars, dlq, dlqVars, lost>>
-------------------------------------------------------------------------------
(* The API: POST /triage/run commits the pending row, then pushes.         *)

RunTriage(r, a) ==
    /\ row[r] = "none" /\ alert[a] = "stored"
    /\ row' = [row EXCEPT ![r] = "pending"]
    /\ rowAlert' = [rowAlert EXCEPT ![r] = a]
    /\ latest' = [latest EXCEPT ![a] = r]
    /\ enqueuing' = enqueuing \union {r}
    /\ UNCHANGED <<ingestVars, queue, overdue, timingOut, triageVars, dlq, dlqVars, lost, budget>>

\* Mutant: the push is repeated, as by a client that retries on a timeout.
EnqueueTriageRetried(r) ==
    /\ r \in enqueuing
    /\ \/ enqueuing' = enqueuing \ {r} \/ UNCHANGED enqueuing
    /\ Push(rowAlert[r], r)
    /\ UNCHANGED <<ingestVars, rowVars, timingOut, triageVars, dlq, dlqVars, lost, budget>>

EnqueueTriage(r) ==
    /\ r \in enqueuing
    /\ enqueuing' = enqueuing \ {r}
    /\ \/ Push(rowAlert[r], r) /\ UNCHANGED budget
       \/ Fault("redis") /\ UNCHANGED queue
    /\ UNCHANGED <<ingestVars, rowVars, timingOut, triageVars, dlq, dlqVars, lost>>

\* GET /triage/{alert_id} looks at the newest row of the alert; the status it
\* read is the one it acts on when it commits.
GetStale(r) ==
    /\ DashboardPolls
    /\ row[r] = "pending" /\ r \in overdue /\ latest[rowAlert[r]] = r
    /\ timingOut' = timingOut \union {r}
    /\ UNCHANGED <<ingestVars, queue, rowVars, enqueuing, triageVars, dlq, dlqVars, lost, budget>>

GetFail(r) ==
    /\ r \in timingOut
    /\ timingOut' = timingOut \ {r}
    /\ row' = [row EXCEPT ![r] = "failed"]
    /\ UNCHANGED <<ingestVars, queue, rowAlert, overdue, latest, enqueuing, triageVars, dlq,
                   dlqVars, lost, budget>>

\* A pending row outlives the budget of 600 seconds.
Expire(r) ==
    /\ row[r] = "pending" /\ r \notin overdue
    /\ overdue' = overdue \union {r}
    /\ UNCHANGED <<ingestVars, queue, row, rowAlert, latest, apiVars, triageVars, dlq, dlqVars,
                   lost, budget>>

\* _execute_reaper_update: one guarded UPDATE.
\* Mutants: the UPDATE without its status condition, and with the wrong one.
StaleAnyStatus == overdue
StaleFailed == {r \in overdue : row[r] = "failed"}

Stale == {r \in overdue : row[r] = "pending"}

Reap ==
    /\ Stale # {}
    /\ row' = [r \in Requests |-> IF r \in Stale THEN "failed" ELSE row[r]]
    /\ UNCHANGED <<ingestVars, queue, rowAlert, overdue, latest, apiVars, triageVars, dlq,
                   dlqVars, lost, budget>>
-------------------------------------------------------------------------------
(* The triage consumer: process_message.                                   *)

Pop(w) ==
    /\ pc[w] = "idle" /\ queue # <<>>
    /\ hand' = [hand EXCEPT ![w] = Head(queue)]
    /\ queue' = Tail(queue)
    /\ pc' = [pc EXCEPT ![w] = "load"]
    /\ UNCHANGED <<ingestVars, rowVars, apiVars, verdict, dlq, dlqVars, lost, budget>>

\* The row of the alert is not visible: the message is dropped, without the DLQ.
NotFound(w) ==
    /\ pc[w] = "load" /\ alert[hand[w].alert] # "stored"
    /\ MarkManualFailed(hand[w].row)
    /\ IF alert[hand[w].alert] = "flushed" THEN Lose(hand[w].alert, "early") ELSE UNCHANGED lost
    /\ Done(w)
    /\ UNCHANGED <<ingestVars, queue, rowAlert, overdue, latest, apiVars, verdict, dlq, dlqVars,
                   budget>>

\* The noise gate drops the alert (automatic messages), or L0/L1 end the triage
\* unless the analyst asked for the fast tier.  The manual row is not touched.
\* After the gate's commit the suppression counter is incremented in Redis.
Suppress(w) ==
    /\ pc[w] = "load" /\ alert[hand[w].alert] = "stored"
    /\ \/ hand[w].row = None
       \/ GateReturns /\ ~ForceFast
    /\ verdict' = [verdict EXCEPT ![hand[w].alert] = IF @ = "none" THEN "suppressed" ELSE @]
    /\ \/ Done(w) /\ UNCHANGED budget
       \/ hand[w].row = None /\ Fault("redis") /\ Goto(w, "except")
    /\ UNCHANGED <<ingestVars, queue, rowVars, apiVars, dlq, dlqVars, lost>>

Proceed(w) ==
    /\ pc[w] = "load" /\ alert[hand[w].alert] = "stored"
    /\ Goto(w, "analyze")
    /\ UNCHANGED <<ingestVars, queue, rowVars, apiVars, verdict, dlq, dlqVars, lost, budget>>

\* The transaction with the verdict commits.  An escalated verdict cannot: the
\* Case it inserts has no tenant_id, a NOT NULL column.
StoreVerdict(w, outcome) ==
    /\ pc[w] = "analyze"
    /\ outcome = "completed" => hand[w].alert \notin Escalating
    /\ verdict' = [verdict EXCEPT ![hand[w].alert] = "triaged"]
    /\ IF hand[w].row = None
         THEN latest' = [latest EXCEPT ![hand[w].alert] = None] /\ UNCHANGED row
         ELSE row' = [row EXCEPT ![hand[w].row] = outcome] /\ UNCHANGED latest
    /\ Goto(w, "finish")
    /\ UNCHANGED <<ingestVars, queue, rowAlert, overdue, apiVars, dlq, dlqVars, lost, budget>>

\* Anything before the commit raises: the LLM call, the database, or the
\* insertion of the escalation case.
RaiseBeforeCommit(w) ==
    /\ \/ pc[w] = "load" /\ Fault("db")
       \/ pc[w] = "analyze" /\ (Fault("db") \/ Fault("llm"))
       \/ pc[w] = "analyze" /\ hand[w].alert \in Escalating /\ UNCHANGED budget
    /\ Goto(w, "except")
    /\ UNCHANGED <<ingestVars, queue, rowVars, apiVars, verdict, dlq, dlqVars, lost>>

\* What follows the commit is caught, except the last push to ti_enrich_queue.
Finish(w) ==
    /\ pc[w] = "finish"
    /\ \/ Done(w) /\ UNCHANGED budget
       \/ Fault("redis") /\ Goto(w, "except")
    /\ UNCHANGED <<ingestVars, queue, rowVars, apiVars, verdict, dlq, dlqVars, lost>>

\* The except clause: first the row, then the dead-letter queue.
FailRow(w) ==
    /\ pc[w] = "except"
    /\ \/ MarkManualFailed(hand[w].row) /\ UNCHANGED budget
       \/ Fault("db") /\ UNCHANGED row
    /\ Goto(w, "deadletter")
    /\ UNCHANGED <<ingestVars, queue, rowAlert, overdue, latest, apiVars, verdict, dlq, dlqVars,
                   lost>>

\* Mutant: only the failures of manual requests reach the dead-letter queue.
DeadLetterManualOnly(w) ==
    /\ pc[w] = "deadletter"
    /\ dlq' = IF hand[w].row = None THEN dlq
              ELSE Append(dlq, [alert |-> hand[w].alert])
    /\ Done(w)
    /\ UNCHANGED <<ingestVars, queue, rowVars, apiVars, verdict, dlqVars, lost, budget>>

DeadLetter(w) ==
    /\ pc[w] = "deadletter"
    /\ \/ /\ dlq' = Append(dlq, [alert |-> hand[w].alert])
          /\ UNCHANGED <<lost, budget>>
       \/ Fault("redis") /\ Lose(hand[w].alert, "redis") /\ UNCHANGED dlq
    /\ Done(w)
    /\ UNCHANGED <<ingestVars, queue, rowVars, apiVars, verdict, dlqVars>>
-------------------------------------------------------------------------------
(* The DLQ worker: _handle.                                                *)

\* brpop, then hget.
DlqTake(w) ==
    /\ dlqPc[w] = "idle" /\ dlq # <<>>
    /\ dlq' = Tail(dlq)
    /\ dlqPc' = [dlqPc EXCEPT ![w] = "decide"]
    /\ dlqHand' = [dlqHand EXCEPT ![w] = Head(dlq)]
    /\ dlqCount' = [dlqCount EXCEPT ![w] = retries[Head(dlq).alert]]
    /\ UNCHANGED <<ingestVars, queue, rowVars, apiVars, triageVars, retries, parked, breaker, lost,
                   budget>>

\* hget, hset or the push on the parked list raises out of _handle.
DlqRedisFails(w) ==
    /\ dlqPc[w] = "decide" \/ (dlqPc[w] = "backoff" /\ ~Admits(breaker[w]))
    /\ Fault("redis")
    /\ Lose(dlqHand[w].alert, "redis")
    /\ DlqDone(w)
    /\ UNCHANGED <<ingestVars, queue, rowVars, apiVars, triageVars, dlq, retries, parked, breaker>>

DlqPark(w) ==
    /\ dlqPc[w] = "decide" /\ dlqCount[w] >= MaxRetries
    /\ parked' = parked \union {dlqHand[w].alert}
    /\ DlqGoto(w, "clear")
    /\ UNCHANGED <<ingestVars, queue, rowVars, apiVars, triageVars, dlq, retries, breaker, lost,
                   budget>>

\* Mutant: the retry limit is not tested.
DlqCountUnlimited(w) ==
    /\ dlqPc[w] = "decide"
    /\ retries' = [retries EXCEPT ![dlqHand[w].alert] = dlqCount[w] + 1]
    /\ DlqGoto(w, "backoff")
    /\ UNCHANGED <<ingestVars, queue, rowVars, apiVars, triageVars, dlq, parked, breaker, lost,
                   budget>>

DlqCount(w) ==
    /\ dlqPc[w] = "decide" /\ dlqCount[w] < MaxRetries
    /\ retries' = [retries EXCEPT ![dlqHand[w].alert] = dlqCount[w] + 1]
    /\ DlqGoto(w, "backoff")
    /\ UNCHANGED <<ingestVars, queue, rowVars, apiVars, triageVars, dlq, parked, breaker, lost,
                   budget>>

DlqRequeue(w) ==
    /\ dlqPc[w] = "backoff" /\ Admits(breaker[w])
    /\ Push(dlqHand[w].alert, None)
    /\ breaker' = [breaker EXCEPT ![w] = FreshBreaker]
    /\ DlqGoto(w, "clear")
    /\ UNCHANGED <<ingestVars, rowVars, apiVars, triageVars, dlq, retries, parked, lost, budget>>

\* The push raises: the job was popped and is in no list any more.
DlqPushFails(w) ==
    /\ dlqPc[w] = "backoff" /\ Admits(breaker[w])
    /\ Fault("redis")
    /\ breaker' = [breaker EXCEPT ![w] = AfterFailure(@)]
    /\ Lose(dlqHand[w].alert, "redis")
    /\ DlqDone(w)
    /\ UNCHANGED <<ingestVars, queue, rowVars, apiVars, triageVars, dlq, retries, parked>>

DlqBreakerOpen(w) ==
    /\ dlqPc[w] = "backoff" /\ ~Admits(breaker[w])
    /\ parked' = parked \union {dlqHand[w].alert}
    /\ DlqDone(w)
    /\ UNCHANGED <<ingestVars, queue, rowVars, apiVars, triageVars, dlq, retries, breaker, lost,
                   budget>>

\* Mutant: the count is not cleared.
DlqClearNothing(w) ==
    /\ dlqPc[w] = "clear"
    /\ DlqDone(w)
    /\ UNCHANGED <<ingestVars, queue, rowVars, apiVars, triageVars, dlq, retries, parked, breaker,
                   lost, budget>>

\* hdel, which may fail after the push or the parking went through.
DlqClear(w) ==
    /\ dlqPc[w] = "clear"
    /\ \/ retries' = [retries EXCEPT ![dlqHand[w].alert] = 0] /\ UNCHANGED budget
       \/ Fault("redis") /\ UNCHANGED retries
    /\ DlqDone(w)
    /\ UNCHANGED <<ingestVars, queue, rowVars, apiVars, triageVars, dlq, parked, breaker, lost>>

DlqCool(w) ==
    /\ CanCool(breaker[w])
    /\ breaker' = [breaker EXCEPT ![w] = AfterCooling(@)]
    /\ UNCHANGED <<ingestVars, queue, rowVars, apiVars, triageVars, dlq, dlqPc, dlqHand, dlqCount,
                   retries, parked, lost, budget>>
-------------------------------------------------------------------------------
(* Crashes.  Redis and PostgreSQL survive; popped messages do not.         *)

Popped(w) ==
    {a \in Alerts : \/ pc[w] \in {"load", "analyze", "except", "deadletter"} /\ hand[w].alert = a
                    \/ dlqPc[w] \in {"decide", "backoff"} /\ dlqHand[w].alert = a}

WorkerCrash(w) ==
    /\ Fault("crash")
    /\ lost' = [a \in Alerts |-> IF a \in Popped(w) THEN lost[a] \union {"crash"} ELSE lost[a]]
    /\ SetAlerts(batch[w], "rolledback")
    /\ batch' = [batch EXCEPT ![w] = {}]
    /\ Done(w) /\ DlqDone(w)
    /\ breaker' = [breaker EXCEPT ![w] = FreshBreaker]
    /\ UNCHANGED <<queue, rowVars, apiVars, verdict, dlq, retries, parked>>

ApiCrash ==
    /\ Fault("crash")
    /\ SetAlerts(Webhooks, "rolledback")
    /\ enqueuing' = {} /\ timingOut' = {}
    /\ UNCHANGED <<batch, queue, rowVars, triageVars, dlq, dlqVars, lost>>
-------------------------------------------------------------------------------
Ingest ==
    \/ \E w \in Workers : PollCommit(w) \/ PollAbort(w) \/ \E a \in Alerts : PollAlert(w, a)
    \/ \E a \in Alerts : WebhookAlert(a) \/ WebhookCommit(a) \/ WebhookAbort(a)

Api ==
    \/ \E r \in Requests, a \in Alerts : RunTriage(r, a)
    \/ \E r \in Requests : EnqueueTriage(r) \/ GetStale(r) \/ GetFail(r) \/ Expire(r)

Consume(w) ==
    \/ Pop(w) \/ NotFound(w) \/ Suppress(w) \/ Proceed(w) \/ RaiseBeforeCommit(w)
    \/ \E outcome \in {"completed", "failed"} : StoreVerdict(w, outcome)
    \/ Finish(w) \/ FailRow(w) \/ DeadLetter(w)

HandleDlq(w) ==
    \/ DlqTake(w) \/ DlqRedisFails(w) \/ DlqPark(w) \/ DlqCount(w) \/ DlqRequeue(w)
    \/ DlqPushFails(w) \/ DlqBreakerOpen(w) \/ DlqClear(w)

Next ==
    \/ Ingest \/ Api \/ Reap \/ ApiCrash
    \/ \E w \in Workers : Consume(w) \/ HandleDlq(w) \/ DlqCool(w) \/ WorkerCrash(w)

Spec == Init /\ [][Next]_vars

\* The loops of every worker run for ever (a crashed one is restarted), open
\* transactions end, time passes, and a handler of the API returns.
Fairness ==
    /\ \A w \in Workers : WF_vars(Consume(w)) /\ WF_vars(HandleDlq(w)) /\ WF_vars(PollCommit(w))
    /\ \A a \in Alerts : WF_vars(WebhookCommit(a))
    /\ \A r \in Requests : WF_vars(Expire(r)) /\ WF_vars(EnqueueTriage(r)) /\ WF_vars(GetFail(r))
    /\ WF_vars(Reap)

FairSpec == Spec /\ Fairness
-------------------------------------------------------------------------------
(* Properties.                                                             *)

InQueue(a)  == \E i \in DOMAIN queue : queue[i].alert = a
InDlq(a)    == \E i \in DOMAIN dlq : dlq[i].alert = a
InHand(a)   == \E w \in Workers : pc[w] # "idle" /\ hand[w].alert = a
InDlqHand(a) == \E w \in Workers : dlqPc[w] # "idle" /\ dlqHand[w].alert = a
Somewhere(a) == InQueue(a) \/ InDlq(a) \/ InHand(a) \/ InDlqHand(a) \/ a \in parked

\* Whatever the interleaving of pollers, consumers, DLQ workers and faults, an
\* alert that is in the database is still in some list or in some worker's
\* hands, or its triage ended, or one of its jobs vanished at one of the three
\* recorded places: popped before the commit of the alert, in a process that
\* crashed, or when a Redis command of the error path failed.
JobsAccounted ==
    \A a \in Alerts : alert[a] \in {"flushed", "stored"} =>
        Somewhere(a) \/ verdict[a] # "none" \/ lost[a] # {}

\* The inductive form of JobsAccounted.  A consumer past its commit, and a DLQ
\* worker past its push, hold nothing that anybody relies on: their alert must
\* be accounted for elsewhere.  An alert in the open transaction of a poller is
\* flushed, and in no other transaction.
Accounted(a) ==
    \/ InQueue(a) \/ InDlq(a) \/ (\E w \in Workers : a \in Popped(w)) \/ a \in parked
    \/ verdict[a] # "none" \/ lost[a] # {}

BatchesDisjoint ==
    \A w \in Workers : \A a \in batch[w] :
        alert[a] = "flushed" /\ \A v \in Workers : a \in batch[v] => v = w

FinishedHaveVerdict == \A w \in Workers : pc[w] = "finish" => verdict[hand[w].alert] # "none"

AccountInv ==
    /\ TypeOK
    /\ BatchesDisjoint
    /\ FinishedHaveVerdict
    /\ \A a \in Alerts : alert[a] \in {"flushed", "stored"} => Accounted(a)

HoldsRow(w, r) == pc[w] # "idle" /\ hand[w].row = r

\* A manual request is analysed at most once: its row is carried by at most one
\* of the API handler, the queue and the consumers, even though several
\* consumers pop concurrently and failed jobs come back through the DLQ.
OneAnalysisPerRequest ==
    \A r \in Requests :
        /\ \A i, j \in DOMAIN queue : queue[i].row = r /\ queue[j].row = r => i = j
        /\ \A v, w \in Workers : HoldsRow(v, r) /\ HoldsRow(w, r) => v = w
        /\ ~ \E i \in DOMAIN queue, w \in Workers : queue[i].row = r /\ HoldsRow(w, r)
        /\ r \in enqueuing => /\ \A i \in DOMAIN queue : queue[i].row # r
                              /\ \A w \in Workers : ~HoldsRow(w, r)

\* While Redis answers and no process crashes, a retry count exists only while
\* some DLQ worker still holds a job of that alert, even when several workers
\* handle jobs of one alert at once: no count survives a pass through the DLQ.
RetryCountIsPerPass ==
    \A a \in Alerts : retries[a] > 0 =>
        \E w \in Workers : dlqPc[w] \in {"backoff", "clear"} /\ dlqHand[w].alert = a

\* With the dashboard closed and Redis available, a stored verdict is final:
\* neither the reaper, nor the failure path, nor a second delivery fails it.
VerdictStands == [][\A r \in Requests : row[r] = "completed" => row'[r] = "completed"]_vars

\* A request for analysis does not stay pending for ever, whatever is lost.
RequestAnswered == \A r \in Requests : row[r] = "pending" ~> row[r] # "pending"

\* The triage of every stored alert ends, or the alert is parked, or the job was
\* lost, when faults are finitely many and no alert fails every time.
AlertsSettle ==
    \A a \in Alerts : alert[a] = "stored" ~> verdict[a] # "none" \/ a \in parked \/ lost[a] # {}

-------------------------------------------------------------------------------
(* What comments and documents of the repository say and the code does not *)
(* do; each is checked by a run that expects a violation.                  *)

\* docs/diagrams/alert-triage-flow.md:15-20: an alert is stored, pushed, popped,
\* fetched and analysed, so every stored alert gets a triage outcome.
StoredAlertTriaged == \A a \in Alerts : alert[a] = "stored" ~> verdict[a] # "none"
===============================================================================

------------------------- MODULE TriagePipeline_proofs -------------------------
(***************************************************************************)
(* Theorems about TriagePipeline, for any number of workers, alerts and    *)
(* requests, any retry limit and any number of faults.                     *)
(***************************************************************************)
EXTENDS TriagePipeline, TLAPS

\* Popping and pushing keep a list well typed.
LEMMA QueueOps ==
    ASSUME NEW S, NEW s \in Seq(S), NEW e \in S
    PROVE  /\ Append(s, e) \in Seq(S)
           /\ s # <<>> => Head(s) \in S /\ Tail(s) \in Seq(S)
OBVIOUS

\* Registering a failure keeps the breaker's state well typed.
LEMMA FailureTyped ==
    ASSUME NEW b \in BreakerState PROVE AfterFailure(b) \in BreakerState
<1> USE BreakerThresholdAssumption
<1>1. b.failures \in 0 .. BreakerThreshold /\ b.opened \in BOOLEAN /\ b.cooled \in BOOLEAN
  BY DEF BreakerState
<1>2. CASE b.failures + 1 >= BreakerThreshold
  <2>1. AfterFailure(b) = [b EXCEPT !.failures = BreakerThreshold, !.opened = TRUE]
    BY <1>2 DEF AfterFailure
  <2>2. BreakerThreshold \in 0 .. BreakerThreshold
    OBVIOUS
  <2> QED
    BY <2>1, <2>2, <1>1 DEF BreakerState
<1>3. CASE ~(b.failures + 1 >= BreakerThreshold)
  <2>1. AfterFailure(b) = [b EXCEPT !.failures = b.failures + 1, !.opened = b.opened]
    BY <1>3 DEF AfterFailure
  <2>2. b.failures + 1 \in 0 .. BreakerThreshold
    BY <1>1, <1>3
  <2> QED
    BY <2>1, <2>2, <1>1 DEF BreakerState
<1> QED
  BY <1>2, <1>3

\* Every step of ingestion, API, consumers, DLQ workers and crashes keeps the
\* type of every variable.
LEMMA TypeStep ==
    ASSUME TypeOK, [Next]_vars PROVE TypeOK'
<1> USE TriageAssumption, BreakerThresholdAssumption
<1> USE DEF ingestVars, rowVars, apiVars, triageVars, dlqVars
<1>1. ASSUME NEW w \in Workers, NEW a \in Alerts, PollAlert(w, a)
      PROVE  TypeOK'
  <2>1. IngestTypeOK'
    BY <1>1
       DEF PollAlert, TypeOK, IngestTypeOK, SetAlerts, AlertStates
  <2>2. [alert |-> a, row |-> None] \in Message
    BY <1>1 DEF PollAlert, TypeOK, Message
  <2>3. (queue \in Seq(Message))'
    BY <1>1, <2>2, QueueOps
       DEF PollAlert, TypeOK, Push
  <2>4. QED
    BY <1>1, <2>1, <2>3
       DEF PollAlert, TypeOK, RowTypeOK, ApiTypeOK, HandTypeOK, DlqTypeOK
<1>2. ASSUME NEW w \in Workers, PollCommit(w)
      PROVE  TypeOK'
  <2>1. IngestTypeOK'
    BY <1>2
       DEF PollCommit, TypeOK, IngestTypeOK, SetAlerts, AlertStates
  <2>2. QED
    BY <1>2, <2>1
       DEF PollCommit, TypeOK, RowTypeOK, ApiTypeOK, HandTypeOK, DlqTypeOK
<1>3. ASSUME NEW w \in Workers, PollAbort(w)
      PROVE  TypeOK'
  <2>1. IngestTypeOK'
    BY <1>3
       DEF PollAbort, TypeOK, IngestTypeOK, SetAlerts, AlertStates
  <2>2. (verdict \in [Alerts -> Verdicts] /\ lost \in [Alerts -> SUBSET Causes] /\ budget \in 0 .. MaxFaults)'
    BY <1>3
       DEF PollAbort, TypeOK, Fault
  <2>3. QED
    BY <1>3, <2>1, <2>2
       DEF PollAbort, TypeOK, RowTypeOK, ApiTypeOK, HandTypeOK, DlqTypeOK
<1>4. ASSUME NEW a \in Alerts, WebhookAlert(a)
      PROVE  TypeOK'
  <2>1. IngestTypeOK'
    BY <1>4
       DEF WebhookAlert, TypeOK, IngestTypeOK, SetAlerts, AlertStates
  <2>2. [alert |-> a, row |-> None] \in Message
    BY <1>4 DEF WebhookAlert, TypeOK, Message
  <2>3. (queue \in Seq(Message))'
    BY <1>4, <2>2, QueueOps
       DEF WebhookAlert, TypeOK, Push
  <2>4. QED
    BY <1>4, <2>1, <2>3
       DEF WebhookAlert, TypeOK, RowTypeOK, ApiTypeOK, HandTypeOK, DlqTypeOK
<1>5. ASSUME NEW a \in Alerts, WebhookCommit(a)
      PROVE  TypeOK'
  <2>1. IngestTypeOK'
    BY <1>5
       DEF WebhookCommit, TypeOK, IngestTypeOK, SetAlerts, AlertStates
  <2>2. QED
    BY <1>5, <2>1
       DEF WebhookCommit, TypeOK, RowTypeOK, ApiTypeOK, HandTypeOK, DlqTypeOK
<1>6. ASSUME NEW a \in Alerts, WebhookAbort(a)
      PROVE  TypeOK'
  <2>1. IngestTypeOK'
    BY <1>6
       DEF WebhookAbort, TypeOK, IngestTypeOK, SetAlerts, AlertStates
  <2>2. (verdict \in [Alerts -> Verdicts] /\ lost \in [Alerts -> SUBSET Causes] /\ budget \in 0 .. MaxFaults)'
    BY <1>6
       DEF WebhookAbort, TypeOK, Fault
  <2>3. QED
    BY <1>6, <2>1, <2>2
       DEF WebhookAbort, TypeOK, RowTypeOK, ApiTypeOK, HandTypeOK, DlqTypeOK
<1>7. ASSUME NEW r \in Requests, NEW a \in Alerts, RunTriage(r, a)
      PROVE  TypeOK'
  <2>1. RowTypeOK'
    BY <1>7
       DEF RunTriage, TypeOK, RowTypeOK, RowStates
  <2>2. ApiTypeOK'
    BY <1>7
       DEF RunTriage, TypeOK, ApiTypeOK, RowTypeOK
  <2>3. QED
    BY <1>7, <2>1, <2>2
       DEF RunTriage, TypeOK, IngestTypeOK, HandTypeOK, DlqTypeOK
<1>8. ASSUME NEW r \in Requests, EnqueueTriage(r)
      PROVE  TypeOK'
  <2>1. ApiTypeOK'
    BY <1>8
       DEF EnqueueTriage, TypeOK, ApiTypeOK
  <2>2. [alert |-> rowAlert[r], row |-> r] \in Message
    BY <1>8 DEF EnqueueTriage, TypeOK, ApiTypeOK, Message
  <2>3. (queue \in Seq(Message))'
    <3>1. queue \in Seq(Message)
      BY DEF TypeOK
    <3>2. queue' = queue \/ queue' = Append(queue, [alert |-> rowAlert[r], row |-> r])
      BY <1>8 DEF EnqueueTriage, Push
    <3> QED
      BY <2>2, <3>1, <3>2, QueueOps
  <2>4. QED
    BY <1>8, <2>1, <2>3
       DEF EnqueueTriage, TypeOK, IngestTypeOK, RowTypeOK, HandTypeOK, DlqTypeOK, Fault
<1>9. ASSUME NEW r \in Requests, GetStale(r)
      PROVE  TypeOK'
  <2>1. ApiTypeOK'
    BY <1>9
       DEF GetStale, TypeOK, ApiTypeOK
  <2>2. QED
    BY <1>9, <2>1
       DEF GetStale, TypeOK, IngestTypeOK, RowTypeOK, HandTypeOK, DlqTypeOK
<1>10. ASSUME NEW r \in Requests, GetFail(r)
      PROVE  TypeOK'
  <2>1. RowTypeOK'
    BY <1>10
       DEF GetFail, TypeOK, RowTypeOK, RowStates
  <2>2. ApiTypeOK'
    BY <1>10
       DEF GetFail, TypeOK, ApiTypeOK
  <2>3. QED
    BY <1>10, <2>1, <2>2
       DEF GetFail, TypeOK, IngestTypeOK, HandTypeOK, DlqTypeOK
<1>11. ASSUME NEW r \in Requests, Expire(r)
      PROVE  TypeOK'
  <2>1. RowTypeOK'
    BY <1>11
       DEF Expire, TypeOK, RowTypeOK
  <2>2. QED
    BY <1>11, <2>1
       DEF Expire, TypeOK, IngestTypeOK, ApiTypeOK, HandTypeOK, DlqTypeOK
<1>12. ASSUME Reap
      PROVE  TypeOK'
  <2>1. RowTypeOK'
    BY <1>12
       DEF Reap, TypeOK, RowTypeOK, RowStates
  <2>2. QED
    BY <1>12, <2>1
       DEF Reap, TypeOK, IngestTypeOK, ApiTypeOK, HandTypeOK, DlqTypeOK
<1>13. ASSUME ApiCrash
      PROVE  TypeOK'
  <2>1. IngestTypeOK'
    BY <1>13
       DEF ApiCrash, TypeOK, IngestTypeOK, SetAlerts, AlertStates
  <2>2. ApiTypeOK'
    BY <1>13
       DEF ApiCrash, TypeOK, ApiTypeOK
  <2>3. (verdict \in [Alerts -> Verdicts] /\ lost \in [Alerts -> SUBSET Causes] /\ budget \in 0 .. MaxFaults)'
    BY <1>13
       DEF ApiCrash, TypeOK, Fault
  <2>4. QED
    BY <1>13, <2>1, <2>2, <2>3
       DEF ApiCrash, TypeOK, RowTypeOK, HandTypeOK, DlqTypeOK
<1>14. ASSUME NEW w \in Workers, Pop(w)
      PROVE  TypeOK'
  <2>1. queue \in Seq(Message) /\ Head(queue) \in Message /\ Tail(queue) \in Seq(Message)
    BY <1>14, QueueOps DEF Pop, TypeOK
  <2>2. HandTypeOK'
    BY <1>14, <2>1
       DEF Pop, TypeOK, HandTypeOK
  <2>3. (queue \in Seq(Message))'
    BY <1>14, <2>1
       DEF Pop
  <2>4. QED
    BY <1>14, <2>2, <2>3
       DEF Pop, TypeOK, IngestTypeOK, RowTypeOK, ApiTypeOK, DlqTypeOK
<1>15. ASSUME NEW w \in Workers, NotFound(w)
      PROVE  TypeOK'
  <2>1. RowTypeOK'
    BY <1>15
       DEF NotFound, TypeOK, RowTypeOK, MarkManualFailed, HandTypeOK, Message, RowStates
  <2>2. HandTypeOK'
    BY <1>15
       DEF NotFound, TypeOK, HandTypeOK, Done
  <2>3. (verdict \in [Alerts -> Verdicts] /\ lost \in [Alerts -> SUBSET Causes] /\ budget \in 0 .. MaxFaults)'
    BY <1>15
       DEF NotFound, TypeOK, Lose, HandTypeOK, Message, Causes
  <2>4. QED
    BY <1>15, <2>1, <2>2, <2>3
       DEF NotFound, TypeOK, IngestTypeOK, ApiTypeOK, DlqTypeOK
<1>16. ASSUME NEW w \in Workers, Suppress(w)
      PROVE  TypeOK'
  <2>1. HandTypeOK'
    BY <1>16
       DEF Suppress, TypeOK, HandTypeOK, Done, Goto
  <2>2. (verdict \in [Alerts -> Verdicts] /\ lost \in [Alerts -> SUBSET Causes] /\ budget \in 0 .. MaxFaults)'
    BY <1>16
       DEF Suppress, TypeOK, Fault, HandTypeOK, Message, Verdicts
  <2>3. QED
    BY <1>16, <2>1, <2>2
       DEF Suppress, TypeOK, IngestTypeOK, RowTypeOK, ApiTypeOK, DlqTypeOK
<1>17. ASSUME NEW w \in Workers, Proceed(w)
      PROVE  TypeOK'
  <2>1. HandTypeOK'
    BY <1>17
       DEF Proceed, TypeOK, HandTypeOK, Goto
  <2>2. QED
    BY <1>17, <2>1
       DEF Proceed, TypeOK, IngestTypeOK, RowTypeOK, ApiTypeOK, DlqTypeOK
<1>18. ASSUME NEW w \in Workers, NEW s \in {"completed", "failed"}, StoreVerdict(w, s)
      PROVE  TypeOK'
  <2>1. RowTypeOK'
    BY <1>18
       DEF StoreVerdict, TypeOK, RowTypeOK, HandTypeOK, Message, RowStates
  <2>2. HandTypeOK'
    BY <1>18
       DEF StoreVerdict, TypeOK, HandTypeOK, Goto
  <2>3. (verdict \in [Alerts -> Verdicts] /\ lost \in [Alerts -> SUBSET Causes] /\ budget \in 0 .. MaxFaults)'
    BY <1>18
       DEF StoreVerdict, TypeOK, HandTypeOK, Message, Verdicts
  <2>4. QED
    BY <1>18, <2>1, <2>2, <2>3
       DEF StoreVerdict, TypeOK, IngestTypeOK, ApiTypeOK, DlqTypeOK
<1>19. ASSUME NEW w \in Workers, RaiseBeforeCommit(w)
      PROVE  TypeOK'
  <2>1. HandTypeOK'
    BY <1>19
       DEF RaiseBeforeCommit, TypeOK, HandTypeOK, Goto
  <2>2. (verdict \in [Alerts -> Verdicts] /\ lost \in [Alerts -> SUBSET Causes] /\ budget \in 0 .. MaxFaults)'
    BY <1>19
       DEF RaiseBeforeCommit, TypeOK, Fault
  <2>3. QED
    BY <1>19, <2>1, <2>2
       DEF RaiseBeforeCommit, TypeOK, IngestTypeOK, RowTypeOK, ApiTypeOK, DlqTypeOK
<1>20. ASSUME NEW w \in Workers, Finish(w)
      PROVE  TypeOK'
  <2>1. HandTypeOK'
    BY <1>20
       DEF Finish, TypeOK, HandTypeOK, Done, Goto
  <2>2. (verdict \in [Alerts -> Verdicts] /\ lost \in [Alerts -> SUBSET Causes] /\ budget \in 0 .. MaxFaults)'
    BY <1>20
       DEF Finish, TypeOK, Fault
  <2>3. QED
    BY <1>20, <2>1, <2>2
       DEF Finish, TypeOK, IngestTypeOK, RowTypeOK, ApiTypeOK, DlqTypeOK
<1>21. ASSUME NEW w \in Workers, FailRow(w)
      PROVE  TypeOK'
  <2>1. RowTypeOK'
    BY <1>21
       DEF FailRow, TypeOK, RowTypeOK, MarkManualFailed, HandTypeOK, Message, RowStates
  <2>2. HandTypeOK'
    BY <1>21
       DEF FailRow, TypeOK, HandTypeOK, Goto
  <2>3. (verdict \in [Alerts -> Verdicts] /\ lost \in [Alerts -> SUBSET Causes] /\ budget \in 0 .. MaxFaults)'
    BY <1>21
       DEF FailRow, TypeOK, Fault
  <2>4. QED
    BY <1>21, <2>1, <2>2, <2>3
       DEF FailRow, TypeOK, IngestTypeOK, ApiTypeOK, DlqTypeOK
<1>22. ASSUME NEW w \in Workers, DeadLetter(w)
      PROVE  TypeOK'
  <2>1. HandTypeOK'
    BY <1>22
       DEF DeadLetter, TypeOK, HandTypeOK, Done
  <2>2. [alert |-> hand[w].alert] \in Job
    BY <1>22 DEF DeadLetter, TypeOK, HandTypeOK, Message, Job
  <2>3. (dlq \in Seq(Job))'
    <3> DEFINE j == [alert |-> hand[w].alert]
    <3>1. dlq' = Append(dlq, j) \/ dlq' = dlq
      BY <1>22 DEF DeadLetter
    <3>2. dlq \in Seq(Job) /\ j \in Job
      BY <2>2 DEF TypeOK
    <3> HIDE DEF j
    <3>3. Append(dlq, j) \in Seq(Job)
      BY <3>2, QueueOps
    <3> QED BY <3>1, <3>2, <3>3
  <2>4. (verdict \in [Alerts -> Verdicts] /\ lost \in [Alerts -> SUBSET Causes] /\ budget \in 0 .. MaxFaults)'
    <3>1. hand[w].alert \in Alerts
      BY <1>22 DEF DeadLetter, TypeOK, HandTypeOK, Message
    <3>2. verdict' = verdict
      BY <1>22 DEF DeadLetter
    <3>3. CASE UNCHANGED <<lost, budget>>
      BY <3>2, <3>3 DEF TypeOK
    <3>4. CASE Fault("redis") /\ Lose(hand[w].alert, "redis")
      BY <3>1, <3>2, <3>4 DEF TypeOK, Fault, Lose, Causes
    <3> QED BY <1>22, <3>3, <3>4 DEF DeadLetter
  <2>5. QED
    BY <1>22, <2>1, <2>3, <2>4
       DEF DeadLetter, TypeOK, IngestTypeOK, RowTypeOK, ApiTypeOK, DlqTypeOK
<1>23. ASSUME NEW w \in Workers, DlqTake(w)
      PROVE  TypeOK'
  <2>1. dlq \in Seq(Job) /\ Head(dlq) \in Job /\ Tail(dlq) \in Seq(Job)
    BY <1>23, QueueOps DEF DlqTake, TypeOK
  <2>2. DlqTypeOK'
    BY <1>23, <2>1
       DEF DlqTake, TypeOK, DlqTypeOK, Job
  <2>3. (dlq \in Seq(Job))'
    BY <1>23, <2>1
       DEF DlqTake
  <2>4. QED
    BY <1>23, <2>2, <2>3
       DEF DlqTake, TypeOK, IngestTypeOK, RowTypeOK, ApiTypeOK, HandTypeOK
<1>24. ASSUME NEW w \in Workers, DlqRedisFails(w)
      PROVE  TypeOK'
  <2>1. DlqTypeOK'
    BY <1>24
       DEF DlqRedisFails, TypeOK, DlqTypeOK, DlqDone
  <2>2. (verdict \in [Alerts -> Verdicts] /\ lost \in [Alerts -> SUBSET Causes] /\ budget \in 0 .. MaxFaults)'
    BY <1>24
       DEF DlqRedisFails, TypeOK, Lose, Fault, DlqTypeOK, Job, Causes
  <2>3. QED
    BY <1>24, <2>1, <2>2
       DEF DlqRedisFails, TypeOK, IngestTypeOK, RowTypeOK, ApiTypeOK, HandTypeOK
<1>25. ASSUME NEW w \in Workers, DlqPark(w)
      PROVE  TypeOK'
  <2>1. DlqTypeOK'
    BY <1>25
       DEF DlqPark, TypeOK, DlqTypeOK, DlqGoto, Job
  <2>2. QED
    BY <1>25, <2>1
       DEF DlqPark, TypeOK, IngestTypeOK, RowTypeOK, ApiTypeOK, HandTypeOK
<1>26. ASSUME NEW w \in Workers, DlqCount(w)
      PROVE  TypeOK'
  <2>1. DlqTypeOK'
    BY <1>26
       DEF DlqCount, TypeOK, DlqTypeOK, DlqGoto, Job
  <2>2. QED
    BY <1>26, <2>1
       DEF DlqCount, TypeOK, IngestTypeOK, RowTypeOK, ApiTypeOK, HandTypeOK
<1>27. ASSUME NEW w \in Workers, DlqRequeue(w)
      PROVE  TypeOK'
  <2>1. DlqTypeOK'
    BY <1>27
       DEF DlqRequeue, TypeOK, DlqTypeOK, DlqGoto, FreshBreaker, BreakerState
  <2>2. [alert |-> dlqHand[w].alert, row |-> None] \in Message
    BY <1>27 DEF DlqRequeue, TypeOK, DlqTypeOK, Job, Message
  <2>3. (queue \in Seq(Message))'
    BY <1>27, <2>2, QueueOps
       DEF DlqRequeue, TypeOK, Push
  <2>4. QED
    BY <1>27, <2>1, <2>3
       DEF DlqRequeue, TypeOK, IngestTypeOK, RowTypeOK, ApiTypeOK, HandTypeOK
<1>28. ASSUME NEW w \in Workers, DlqPushFails(w)
      PROVE  TypeOK'
  <2>1. DlqTypeOK'
    BY <1>28, FailureTyped
       DEF DlqPushFails, TypeOK, DlqTypeOK, DlqDone
  <2>2. (verdict \in [Alerts -> Verdicts] /\ lost \in [Alerts -> SUBSET Causes] /\ budget \in 0 .. MaxFaults)'
    BY <1>28
       DEF DlqPushFails, TypeOK, Lose, Fault, DlqTypeOK, Job, Causes
  <2>3. QED
    BY <1>28, <2>1, <2>2
       DEF DlqPushFails, TypeOK, IngestTypeOK, RowTypeOK, ApiTypeOK, HandTypeOK
<1>29. ASSUME NEW w \in Workers, DlqBreakerOpen(w)
      PROVE  TypeOK'
  <2>1. DlqTypeOK'
    BY <1>29
       DEF DlqBreakerOpen, TypeOK, DlqTypeOK, DlqDone, Job
  <2>2. QED
    BY <1>29, <2>1
       DEF DlqBreakerOpen, TypeOK, IngestTypeOK, RowTypeOK, ApiTypeOK, HandTypeOK
<1>30. ASSUME NEW w \in Workers, DlqClear(w)
      PROVE  TypeOK'
  <2>1. retries' \in [Alerts -> 0 .. MaxRetries]
    <3>1. 0 \in 0 .. MaxRetries
      OBVIOUS
    <3> QED
      BY <1>30, <3>1 DEF DlqClear, TypeOK, DlqTypeOK
  <2>2. /\ dlqPc' \in [Workers -> {"idle", "decide", "backoff", "clear"}]
        /\ dlqHand' \in [Workers -> Job \union {None}]
        /\ \A v \in Workers : dlqPc'[v] # "idle" => dlqHand'[v] \in Job
    BY <1>30 DEF DlqClear, TypeOK, DlqTypeOK, DlqDone
  <2>3. dlqCount' \in [Workers -> 0 .. MaxRetries]
    <3>1. 0 \in 0 .. MaxRetries
      OBVIOUS
    <3> QED
      BY <1>30, <3>1 DEF DlqClear, TypeOK, DlqTypeOK, DlqDone
  <2>4. DlqTypeOK'
    BY <1>30, <2>1, <2>2, <2>3 DEF DlqClear, TypeOK, DlqTypeOK
  <2>5. (verdict \in [Alerts -> Verdicts] /\ lost \in [Alerts -> SUBSET Causes] /\ budget \in 0 .. MaxFaults)'
    BY <1>30
       DEF DlqClear, TypeOK, Fault
  <2>6. QED
    BY <1>30, <2>4, <2>5
       DEF DlqClear, TypeOK, IngestTypeOK, RowTypeOK, ApiTypeOK, HandTypeOK
<1>31. ASSUME NEW w \in Workers, DlqCool(w)
      PROVE  TypeOK'
  <2>1. DlqTypeOK'
    <3>1. DlqTypeOK /\ breaker' = [breaker EXCEPT ![w] = AfterCooling(breaker[w])]
      BY <1>31 DEF DlqCool, TypeOK
    <3>2. UNCHANGED <<dlqPc, dlqHand, dlqCount, retries, parked>>
      BY <1>31 DEF DlqCool
    <3>3. breaker[w] \in BreakerState
      BY <3>1 DEF DlqTypeOK
    <3>4. AfterCooling(breaker[w]) \in BreakerState
      BY <3>3 DEF AfterCooling, BreakerState
    <3>5. breaker' \in [Workers -> BreakerState]
      BY <3>1, <3>4 DEF DlqTypeOK
    <3> QED
      BY <3>1, <3>2, <3>5 DEF DlqTypeOK
  <2>2. QED
    BY <1>31, <2>1
       DEF DlqCool, TypeOK, IngestTypeOK, RowTypeOK, ApiTypeOK, HandTypeOK
<1>32. ASSUME NEW w \in Workers, WorkerCrash(w)
      PROVE  TypeOK'
  <2>1. IngestTypeOK'
    BY <1>32
       DEF WorkerCrash, TypeOK, IngestTypeOK, SetAlerts, AlertStates
  <2>2. HandTypeOK'
    BY <1>32
       DEF WorkerCrash, TypeOK, HandTypeOK, Done
  <2>3. DlqTypeOK'
    BY <1>32
       DEF WorkerCrash, TypeOK, DlqTypeOK, DlqDone, FreshBreaker, BreakerState
  <2>4. (verdict \in [Alerts -> Verdicts] /\ lost \in [Alerts -> SUBSET Causes] /\ budget \in 0 .. MaxFaults)'
    BY <1>32
       DEF WorkerCrash, TypeOK, Fault, Causes
  <2>5. QED
    BY <1>32, <2>1, <2>2, <2>3, <2>4
       DEF WorkerCrash, TypeOK, RowTypeOK, ApiTypeOK
<1>33. CASE UNCHANGED vars
  BY <1>33 DEF TypeOK, vars, IngestTypeOK, RowTypeOK, ApiTypeOK, HandTypeOK, DlqTypeOK
<1> QED
  BY <1>1, <1>2, <1>3, <1>4, <1>5, <1>6, <1>7, <1>8, <1>9, <1>10, <1>11, <1>12, <1>13, <1>14, <1>15, <1>16, <1>17, <1>18, <1>19, <1>20, <1>21, <1>22, <1>23, <1>24, <1>25, <1>26, <1>27, <1>28, <1>29, <1>30, <1>31, <1>32, <1>33
     DEF Next, Ingest, Api, Consume, HandleDlq

LEMMA TypeInit == Init => TypeOK
BY TriageAssumption, BreakerThresholdAssumption
   DEF Init, TypeOK, FreshBreaker, BreakerState, AlertStates, RowStates, Verdicts, Causes,
       IngestTypeOK, RowTypeOK, ApiTypeOK, HandTypeOK, DlqTypeOK

\* The type invariant of the pipeline: a busy worker always holds a message, a
\* row about to be pushed knows its alert, and no retry count ever exceeds
\* dlq_max_retries, for any number of workers, alerts, requests and faults.
THEOREM TypeCorrect == Spec => []TypeOK
<1>1. Init => TypeOK
  BY TypeInit
<1>2. TypeOK /\ [Next]_vars => TypeOK'
  BY TypeStep
<1> QED
  BY <1>1, <1>2, PTL DEF Spec
-------------------------------------------------------------------------------
(* No job of a stored alert vanishes unrecorded: the inductive invariant   *)
(* AccountInv of TriagePipeline, and JobsAccounted as its consequence.     *)

\* A list keeps its elements when one is pushed, and all but the first when one
\* is popped.
LEMMA PushKeeps ==
    ASSUME NEW S, NEW s \in Seq(S), NEW e \in S
    PROVE  /\ \A i \in DOMAIN s : i \in DOMAIN Append(s, e) /\ Append(s, e)[i] = s[i]
           /\ \E i \in DOMAIN Append(s, e) : Append(s, e)[i] = e
<1>1. Len(s) + 1 \in DOMAIN Append(s, e) /\ Append(s, e)[Len(s) + 1] = e
  OBVIOUS
<1> QED
  BY <1>1

LEMMA PopKeeps ==
    ASSUME NEW S, NEW s \in Seq(S), s # <<>>
    PROVE  \A i \in DOMAIN s : s[i] = Head(s) \/ \E j \in DOMAIN Tail(s) : Tail(s)[j] = s[i]
<1> SUFFICES ASSUME NEW i \in DOMAIN s, i # 1
             PROVE  \E j \in DOMAIN Tail(s) : Tail(s)[j] = s[i]
  OBVIOUS
<1>1. i - 1 \in DOMAIN Tail(s) /\ Tail(s)[i - 1] = s[i]
  OBVIOUS
<1> QED
  BY <1>1

LEMMA QueuePush ==
    ASSUME TypeOK, NEW m \in Message, queue' = Append(queue, m)
    PROVE  /\ \A b \in Alerts : InQueue(b) => InQueue(b)'
           /\ InQueue(m.alert)'
<1>1. queue \in Seq(Message)
  BY DEF TypeOK
<1> QED
  BY <1>1, PushKeeps DEF InQueue

LEMMA QueuePop ==
    ASSUME TypeOK, queue # <<>>, queue' = Tail(queue)
    PROVE  \A b \in Alerts : InQueue(b) => InQueue(b)' \/ Head(queue).alert = b
<1>1. queue \in Seq(Message)
  BY DEF TypeOK
<1> QED
  BY <1>1, PopKeeps DEF InQueue

LEMMA DlqPush ==
    ASSUME TypeOK, NEW m \in Job, dlq' = Append(dlq, m)
    PROVE  /\ \A b \in Alerts : InDlq(b) => InDlq(b)'
           /\ InDlq(m.alert)'
<1>1. dlq \in Seq(Job)
  BY DEF TypeOK
<1> QED
  BY <1>1, PushKeeps DEF InDlq

LEMMA DlqPop ==
    ASSUME TypeOK, dlq # <<>>, dlq' = Tail(dlq)
    PROVE  \A b \in Alerts : InDlq(b) => InDlq(b)' \/ Head(dlq).alert = b
<1>1. dlq \in Seq(Job)
  BY DEF TypeOK
<1> QED
  BY <1>1, PopKeeps DEF InDlq

\* A step that moves no message and no job loses none.
LEMMA QuietStep ==
    ASSUME UNCHANGED <<queue, dlq, pc, hand, verdict, dlqPc, dlqHand, parked, lost>>,
           NEW a \in Alerts, Accounted(a)
    PROVE  Accounted(a)'
BY DEF Accounted, InQueue, InDlq, Popped

\* The open transactions of the pollers stay disjoint and flushed.
LEMMA BatchStep ==
    ASSUME TypeOK, BatchesDisjoint, [Next]_vars
    PROVE  BatchesDisjoint'
<1> USE DEF TypeOK, IngestTypeOK, BatchesDisjoint, SetAlerts
<1>1. ASSUME UNCHANGED <<alert, batch>> PROVE BatchesDisjoint'
  BY <1>1
<1>2. ASSUME NEW w \in Workers, NEW a \in Alerts, PollAlert(w, a) PROVE BatchesDisjoint'
  BY <1>2 DEF PollAlert
<1>3. ASSUME NEW w \in Workers, PollCommit(w) PROVE BatchesDisjoint'
  BY <1>3 DEF PollCommit
<1>4. ASSUME NEW w \in Workers, PollAbort(w) PROVE BatchesDisjoint'
  BY <1>4 DEF PollAbort
<1>5. ASSUME NEW a \in Alerts, WebhookAlert(a) PROVE BatchesDisjoint'
  BY <1>5 DEF WebhookAlert
<1>6. ASSUME NEW a \in Alerts, WebhookCommit(a) \/ WebhookAbort(a) PROVE BatchesDisjoint'
  BY <1>6 DEF WebhookCommit, WebhookAbort, Webhooks
<1>7. ASSUME NEW w \in Workers, WorkerCrash(w) PROVE BatchesDisjoint'
  BY <1>7 DEF WorkerCrash
<1>8. CASE ApiCrash
  BY <1>8 DEF ApiCrash, Webhooks
<1>9. CASE Api \/ Reap
  BY <1>1, <1>9 DEF Api, RunTriage, EnqueueTriage, GetStale, GetFail, Expire, Reap, ingestVars
<1>10. ASSUME NEW w \in Workers, Consume(w) PROVE BatchesDisjoint'
  BY <1>1, <1>10 DEF Consume, Pop, NotFound, Suppress, Proceed, RaiseBeforeCommit, StoreVerdict,
                     Finish, FailRow, DeadLetter, ingestVars
<1>11. ASSUME NEW w \in Workers, HandleDlq(w) \/ DlqCool(w) PROVE BatchesDisjoint'
  BY <1>1, <1>11 DEF HandleDlq, DlqTake, DlqRedisFails, DlqPark, DlqCount, DlqRequeue,
                     DlqPushFails, DlqBreakerOpen, DlqClear, DlqCool, ingestVars
<1>12. CASE UNCHANGED vars
  BY <1>1, <1>12 DEF vars, ingestVars
<1> QED
  BY <1>2, <1>3, <1>4, <1>5, <1>6, <1>7, <1>8, <1>9, <1>10, <1>11, <1>12 DEF Next, Ingest

\* A consumer past its commit has a verdict, and verdicts are never withdrawn.
LEMMA FinishStep ==
    ASSUME TypeOK, FinishedHaveVerdict, [Next]_vars
    PROVE  FinishedHaveVerdict'
<1> USE DEF TypeOK, HandTypeOK, FinishedHaveVerdict, Message
<1>1. ASSUME UNCHANGED <<pc, hand, verdict>> PROVE FinishedHaveVerdict'
  BY <1>1
<1>2. CASE Ingest \/ Api \/ Reap \/ ApiCrash \/ UNCHANGED vars
  BY <1>1, <1>2
     DEF Ingest, PollCommit, PollAbort, PollAlert, WebhookAlert, WebhookCommit, WebhookAbort, Api,
         RunTriage, EnqueueTriage, GetStale, GetFail, Expire, Reap, ApiCrash, vars, triageVars
<1>3. ASSUME NEW w \in Workers, HandleDlq(w) \/ DlqCool(w) PROVE FinishedHaveVerdict'
  BY <1>1, <1>3 DEF HandleDlq, DlqTake, DlqRedisFails, DlqPark, DlqCount, DlqRequeue,
                    DlqPushFails, DlqBreakerOpen, DlqClear, DlqCool, triageVars
<1>4. ASSUME NEW w \in Workers, WorkerCrash(w) PROVE FinishedHaveVerdict'
  BY <1>4 DEF WorkerCrash, Done
<1>5. ASSUME NEW w \in Workers, Consume(w) PROVE FinishedHaveVerdict'
  <2>1. CASE Pop(w)
    BY <2>1 DEF Pop
  <2>2. CASE NotFound(w) \/ DeadLetter(w)
    BY <2>2 DEF NotFound, DeadLetter, Done
  <2>3. CASE Suppress(w)
    BY <2>3 DEF Suppress, Done, Goto
  <2>4. CASE Proceed(w) \/ RaiseBeforeCommit(w) \/ FailRow(w)
    BY <2>4 DEF Proceed, RaiseBeforeCommit, FailRow, Goto
  <2>5. CASE Finish(w)
    BY <2>5 DEF Finish, Done, Goto
  <2>6. ASSUME NEW outcome \in {"completed", "failed"}, StoreVerdict(w, outcome)
        PROVE  FinishedHaveVerdict'
    BY <2>6 DEF StoreVerdict, Goto
  <2> QED
    BY <1>5, <2>1, <2>2, <2>3, <2>4, <2>5, <2>6 DEF Consume
<1> QED
  BY <1>2, <1>3, <1>4, <1>5 DEF Next

\* An alert that is accounted for stays accounted for.
LEMMA AccountedStep ==
    ASSUME AccountInv, TypeOK', [Next]_vars, NEW a \in Alerts, Accounted(a),
           alert[a] \in {"flushed", "stored"}
    PROVE  Accounted(a)'
<1>0. TypeOK /\ FinishedHaveVerdict
  BY DEF AccountInv
<1>1. CASE Reap \/ ApiCrash \/ UNCHANGED vars \/ \E w \in Workers : DlqCool(w)
  BY <1>1, QuietStep DEF Reap, ApiCrash, DlqCool, vars, triageVars, dlqVars
<1>2. CASE Ingest
  <2>1. ASSUME NEW b \in Alerts, queue' = Append(queue, [alert |-> b, row |-> None]),
               UNCHANGED <<dlq, pc, hand, verdict, dlqPc, dlqHand, parked, lost>>
        PROVE  Accounted(a)'
    <3>1. [alert |-> b, row |-> None] \in Message
      BY DEF Message
    <3>2. InQueue(a) => InQueue(a)'
      BY <1>0, <2>1, <3>1, QueuePush
    <3> QED
      BY <2>1, <3>2 DEF Accounted, InDlq, Popped
  <2> QED
    BY <1>2, <2>1, QuietStep
       DEF Ingest, PollCommit, PollAbort, PollAlert, WebhookAlert, WebhookCommit, WebhookAbort,
           Push, triageVars, dlqVars
<1>3. CASE Api
  <2>1. ASSUME NEW r \in Requests, EnqueueTriage(r), Push(rowAlert[r], r)
        PROVE  Accounted(a)'
    <3>1. [alert |-> rowAlert[r], row |-> r] \in Message
      BY <1>0, <2>1 DEF EnqueueTriage, TypeOK, ApiTypeOK, Message
    <3>2. InQueue(a) => InQueue(a)'
      BY <1>0, <2>1, <3>1, QueuePush DEF Push
    <3> QED
      BY <2>1, <3>2 DEF EnqueueTriage, Accounted, InDlq, Popped, triageVars, dlqVars
  <2> QED
    BY <1>3, <2>1, QuietStep
       DEF Api, RunTriage, EnqueueTriage, GetStale, GetFail, Expire, triageVars, dlqVars
<1>4. ASSUME NEW w \in Workers, Consume(w) PROVE Accounted(a)'
  <2>0. pc[w] # "idle" => hand[w] \in Message
    BY <1>0 DEF TypeOK, HandTypeOK
  <2>1. CASE Pop(w)
    <3>1. InQueue(a) => InQueue(a)' \/ Head(queue).alert = a
      BY <1>0, <2>1, QueuePop DEF Pop
    <3>2. Head(queue).alert = a => a \in Popped(w)'
      BY <1>0, <2>1 DEF Pop, TypeOK, HandTypeOK, Popped
    <3>3. \A v \in Workers : a \in Popped(v) => a \in Popped(v)'
      BY <1>0, <2>1 DEF Pop, TypeOK, HandTypeOK, Popped, dlqVars
    <3> QED
      BY <2>1, <3>1, <3>2, <3>3 DEF Pop, Accounted, InDlq, dlqVars
  <2>2. CASE NotFound(w)
    <3>1. hand[w].alert = a => "early" \in lost'[a]
      BY <1>0, <2>2 DEF NotFound, Lose, TypeOK
    <3>2. lost[a] \subseteq lost'[a]
      BY <1>0, <2>0, <2>2 DEF NotFound, Lose, TypeOK, Message
    <3>3. \A v \in Workers : a \in Popped(v) => a \in Popped(v)' \/ hand[w].alert = a
      BY <1>0, <2>2 DEF NotFound, Done, TypeOK, HandTypeOK, Popped, dlqVars
    <3> QED
      BY <2>2, <3>1, <3>2, <3>3 DEF NotFound, Accounted, InQueue, InDlq, dlqVars
  <2>3. CASE Suppress(w)
    <3>1. hand[w].alert = a => verdict'[a] # "none"
      BY <1>0, <2>3 DEF Suppress, TypeOK
    <3>2. verdict[a] # "none" => verdict'[a] # "none"
      BY <1>0, <2>3 DEF Suppress, TypeOK
    <3>3. \A v \in Workers : a \in Popped(v) => a \in Popped(v)' \/ hand[w].alert = a
      BY <1>0, <2>3 DEF Suppress, Done, Goto, TypeOK, HandTypeOK, Popped, dlqVars
    <3> QED
      BY <2>3, <3>1, <3>2, <3>3 DEF Suppress, Accounted, InQueue, InDlq, dlqVars
  <2>4. CASE Proceed(w) \/ RaiseBeforeCommit(w) \/ FailRow(w)
    <3>1. \A v \in Workers : a \in Popped(v) => a \in Popped(v)'
      BY <1>0, <2>4 DEF Proceed, RaiseBeforeCommit, FailRow, Goto, TypeOK, HandTypeOK, Popped, dlqVars
    <3> QED
      BY <2>4, <3>1
         DEF Proceed, RaiseBeforeCommit, FailRow, Accounted, InQueue, InDlq, dlqVars
  <2>5. ASSUME NEW outcome \in {"completed", "failed"}, StoreVerdict(w, outcome)
        PROVE  Accounted(a)'
    <3>1. hand[w].alert = a => verdict'[a] # "none"
      BY <1>0, <2>5 DEF StoreVerdict, TypeOK
    <3>2. verdict[a] # "none" => verdict'[a] # "none"
      BY <1>0, <2>5 DEF StoreVerdict, TypeOK
    <3>3. \A v \in Workers : a \in Popped(v) => a \in Popped(v)' \/ hand[w].alert = a
      BY <1>0, <2>5 DEF StoreVerdict, Goto, TypeOK, HandTypeOK, Popped, dlqVars
    <3> QED
      BY <2>5, <3>1, <3>2, <3>3 DEF StoreVerdict, Accounted, InQueue, InDlq, dlqVars
  <2>6. CASE Finish(w)
    <3>1. \A v \in Workers : a \in Popped(v) => a \in Popped(v)'
      BY <1>0, <2>6 DEF Finish, Done, Goto, TypeOK, HandTypeOK, Popped, dlqVars
    <3> QED
      BY <2>6, <3>1 DEF Finish, Accounted, InQueue, InDlq, dlqVars
  <2>7. CASE DeadLetter(w)
    <3>1. \A v \in Workers : a \in Popped(v) => a \in Popped(v)' \/ hand[w].alert = a
      BY <1>0, <2>7 DEF DeadLetter, Done, TypeOK, HandTypeOK, Popped, dlqVars
    <3>2. [alert |-> hand[w].alert] \in Job
      BY <2>0, <2>7 DEF DeadLetter, Message, Job
    <3>3. CASE dlq' = Append(dlq, [alert |-> hand[w].alert]) /\ UNCHANGED lost
      <4>1. (InDlq(a) => InDlq(a)') /\ (hand[w].alert = a => InDlq(a)')
        BY <1>0, <3>2, <3>3, DlqPush
      <4> QED
        BY <2>7, <3>1, <3>3, <4>1 DEF DeadLetter, Accounted, InQueue, dlqVars
    <3>4. CASE Lose(hand[w].alert, "redis") /\ UNCHANGED dlq
      <4>1. lost[a] \subseteq lost'[a] /\ (hand[w].alert = a => "redis" \in lost'[a])
        BY <1>0, <3>4 DEF Lose, TypeOK
      <4> QED
        BY <2>7, <3>1, <3>4, <4>1 DEF DeadLetter, Accounted, InQueue, InDlq, dlqVars
    <3> QED
      BY <2>7, <3>3, <3>4 DEF DeadLetter
  <2> QED
    BY <1>4, <2>1, <2>2, <2>3, <2>4, <2>5, <2>6, <2>7 DEF Consume
<1>5. ASSUME NEW w \in Workers, HandleDlq(w) PROVE Accounted(a)'
  <2>0. dlqPc[w] # "idle" => dlqHand[w] \in Job
    BY <1>0 DEF TypeOK, DlqTypeOK
  <2>1. CASE DlqTake(w)
    <3>1. InDlq(a) => InDlq(a)' \/ Head(dlq).alert = a
      BY <1>0, <2>1, DlqPop DEF DlqTake
    <3>2. Head(dlq).alert = a => a \in Popped(w)'
      BY <1>0, <2>1 DEF DlqTake, TypeOK, DlqTypeOK, Popped
    <3>3. \A v \in Workers : a \in Popped(v) => a \in Popped(v)'
      BY <1>0, <2>1 DEF DlqTake, TypeOK, DlqTypeOK, Popped, triageVars
    <3> QED
      BY <2>1, <3>1, <3>2, <3>3 DEF DlqTake, Accounted, InQueue, triageVars
  <2>2. CASE DlqRedisFails(w) \/ DlqPushFails(w)
    <3>1. lost[a] \subseteq lost'[a] /\ (dlqHand[w].alert = a => "redis" \in lost'[a])
      BY <1>0, <2>2 DEF DlqRedisFails, DlqPushFails, Lose, TypeOK
    <3>2. \A v \in Workers : a \in Popped(v) => a \in Popped(v)' \/ dlqHand[w].alert = a
      BY <1>0, <2>2
         DEF DlqRedisFails, DlqPushFails, DlqDone, TypeOK, DlqTypeOK, Popped, triageVars
    <3> QED
      BY <2>2, <3>1, <3>2
         DEF DlqRedisFails, DlqPushFails, Accounted, InQueue, InDlq, triageVars
  <2>3. CASE DlqPark(w) \/ DlqBreakerOpen(w)
    <3>1. \A v \in Workers : a \in Popped(v) => a \in Popped(v)' \/ dlqHand[w].alert = a
      BY <1>0, <2>3
         DEF DlqPark, DlqBreakerOpen, DlqGoto, DlqDone, TypeOK, DlqTypeOK, Popped, triageVars
    <3> QED
      BY <2>3, <3>1 DEF DlqPark, DlqBreakerOpen, Accounted, InQueue, InDlq, triageVars
  <2>4. CASE DlqCount(w)
    <3>1. \A v \in Workers : a \in Popped(v) => a \in Popped(v)'
      BY <1>0, <2>4 DEF DlqCount, DlqGoto, TypeOK, DlqTypeOK, Popped, triageVars
    <3> QED
      BY <2>4, <3>1 DEF DlqCount, Accounted, InQueue, InDlq, triageVars
  <2>5. CASE DlqRequeue(w)
    <3>1. [alert |-> dlqHand[w].alert, row |-> None] \in Message
      BY <2>0, <2>5 DEF DlqRequeue, Job, Message
    <3>2. (InQueue(a) => InQueue(a)') /\ (dlqHand[w].alert = a => InQueue(a)')
      BY <1>0, <2>5, <3>1, QueuePush DEF DlqRequeue, Push
    <3>3. \A v \in Workers : a \in Popped(v) => a \in Popped(v)' \/ dlqHand[w].alert = a
      BY <1>0, <2>5 DEF DlqRequeue, DlqGoto, TypeOK, DlqTypeOK, Popped, triageVars
    <3> QED
      BY <2>5, <3>2, <3>3 DEF DlqRequeue, Accounted, InDlq, triageVars
  <2>6. CASE DlqClear(w)
    <3>1. \A v \in Workers : a \in Popped(v) => a \in Popped(v)'
      BY <1>0, <2>6 DEF DlqClear, DlqDone, TypeOK, DlqTypeOK, Popped, triageVars
    <3> QED
      BY <2>6, <3>1 DEF DlqClear, Accounted, InQueue, InDlq, triageVars
  <2> QED
    BY <1>5, <2>1, <2>2, <2>3, <2>4, <2>5, <2>6 DEF HandleDlq
<1>6. ASSUME NEW w \in Workers, WorkerCrash(w) PROVE Accounted(a)'
  <2>1. lost[a] \subseteq lost'[a] /\ (a \in Popped(w) => "crash" \in lost'[a])
    BY <1>0, <1>6 DEF WorkerCrash, TypeOK
  <2>2. \A v \in Workers : a \in Popped(v) => a \in Popped(v)' \/ v = w
    BY <1>0, <1>6 DEF WorkerCrash, Done, DlqDone, TypeOK, HandTypeOK, DlqTypeOK, Popped
  <2> QED
    BY <1>6, <2>1, <2>2 DEF WorkerCrash, Accounted, InQueue, InDlq
<1> QED
  BY <1>1, <1>2, <1>3, <1>4, <1>5, <1>6 DEF Next

LEMMA AccountStep ==
    ASSUME AccountInv, [Next]_vars PROVE AccountInv'
<1>1. TypeOK /\ BatchesDisjoint /\ FinishedHaveVerdict
  BY DEF AccountInv
<1>2. TypeOK' /\ BatchesDisjoint' /\ FinishedHaveVerdict'
  BY <1>1, TypeStep, BatchStep, FinishStep
<1>3. ASSUME NEW a \in Alerts, alert'[a] \in {"flushed", "stored"}
      PROVE  Accounted(a)'
  <2>1. CASE alert[a] \in {"flushed", "stored"}
    BY <1>2, <2>1, AccountedStep DEF AccountInv
  <2>2. CASE alert[a] \notin {"flushed", "stored"}
    <3>1. \/ \E w \in Workers : PollAlert(w, a)
          \/ WebhookAlert(a)
      <4>1. CASE UNCHANGED alert
        BY <1>3, <2>2, <4>1
      <4>2. CASE Ingest
        BY <1>1, <1>3, <2>2, <4>2
           DEF Ingest, PollAlert, PollCommit, PollAbort, WebhookAlert, WebhookCommit, WebhookAbort,
               Webhooks, SetAlerts, BatchesDisjoint
      <4>3. CASE ApiCrash \/ \E w \in Workers : WorkerCrash(w)
        BY <1>1, <1>3, <2>2, <4>3 DEF ApiCrash, WorkerCrash, SetAlerts
      <4>4. Ingest \/ ApiCrash \/ (\E w \in Workers : WorkerCrash(w)) \/ UNCHANGED alert
        BY DEF Next, Api, RunTriage, EnqueueTriage, GetStale, GetFail, Expire, Reap, Consume, Pop,
               NotFound, Suppress, Proceed, RaiseBeforeCommit, StoreVerdict, Finish, FailRow,
               DeadLetter, HandleDlq, DlqTake, DlqRedisFails, DlqPark, DlqCount, DlqRequeue,
               DlqPushFails, DlqBreakerOpen, DlqClear, DlqCool, ingestVars, vars
      <4> QED
        BY <4>1, <4>2, <4>3, <4>4
    <3>2. queue' = Append(queue, [alert |-> a, row |-> None])
      BY <3>1 DEF PollAlert, WebhookAlert, Push
    <3>3. [alert |-> a, row |-> None] \in Message
      BY DEF Message
    <3>4. InQueue(a)'
      BY <1>1, <3>2, <3>3, QueuePush
    <3> QED
      BY <3>4 DEF Accounted
  <2> QED
    BY <2>1, <2>2
<1> QED
  BY <1>2, <1>3 DEF AccountInv

\* Whatever the number of workers, alerts, requests and faults, and whatever
\* the interleaving, a stored alert is in a list, in some worker's hands, parked,
\* has its verdict, or is recorded as lost at one of the three known places.
THEOREM JobsAlwaysAccounted == Spec => []JobsAccounted
<1>1. Init => AccountInv
  <2>1. Init => BatchesDisjoint /\ FinishedHaveVerdict
    BY DEF Init, BatchesDisjoint, FinishedHaveVerdict
  <2> QED
    BY <2>1, TypeInit DEF AccountInv, Init
<1>2. AccountInv /\ [Next]_vars => AccountInv'
  BY AccountStep
<1>3. AccountInv => JobsAccounted
  <2> SUFFICES ASSUME NEW a \in Alerts, Accounted(a)
               PROVE  Somewhere(a) \/ verdict[a] # "none" \/ lost[a] # {}
    BY DEF AccountInv, JobsAccounted
  <2>1. (\E w \in Workers : a \in Popped(w)) => InHand(a) \/ InDlqHand(a)
    BY DEF Popped, InHand, InDlqHand
  <2> QED
    BY <2>1 DEF Accounted, Somewhere
<1> QED
  BY <1>1, <1>2, <1>3, PTL DEF Spec
-------------------------------------------------------------------------------
(* The retry counts: while Redis answers and no process crashes, the       *)
(* breaker of a DLQ worker is never touched, so a job leaves the back-off  *)
(* only by its push, and its count is always cleared.                      *)

PassInv ==
    /\ TypeOK
    /\ \A w \in Workers : breaker[w] = FreshBreaker
    /\ RetryCountIsPerPass

LEMMA FreshAdmits == Admits(FreshBreaker) /\ ~CanCool(FreshBreaker)
BY BreakerThresholdAssumption DEF Admits, CanCool, FreshBreaker

LEMMA PassStep ==
    ASSUME "crash" \notin Faults, "redis" \notin Faults, PassInv, [Next]_vars
    PROVE  PassInv'
<1> USE DEF dlqVars
<1>1. TypeOK /\ TypeOK' /\ DlqTypeOK /\ DlqTypeOK'
  BY TypeStep DEF PassInv, TypeOK
<1>2. \A w \in Workers : Admits(breaker[w]) /\ ~CanCool(breaker[w])
  BY FreshAdmits DEF PassInv
<1>3. CASE UNCHANGED dlqVars
  BY <1>1, <1>3 DEF PassInv, RetryCountIsPerPass
<1>4. ASSUME NEW w \in Workers, DlqTake(w)
      PROVE  PassInv'
  BY <1>1, <1>4 DEF PassInv, RetryCountIsPerPass, DlqTake, DlqTypeOK
<1>5. ASSUME NEW w \in Workers, DlqPark(w)
      PROVE  PassInv'
  BY <1>1, <1>5 DEF PassInv, RetryCountIsPerPass, DlqPark, DlqGoto, DlqTypeOK
<1>6. ASSUME NEW w \in Workers, DlqCount(w)
      PROVE  PassInv'
  BY <1>1, <1>6 DEF PassInv, RetryCountIsPerPass, DlqCount, DlqGoto, DlqTypeOK
<1>7. ASSUME NEW w \in Workers, DlqRequeue(w)
      PROVE  PassInv'
  BY <1>1, <1>7 DEF PassInv, RetryCountIsPerPass, DlqRequeue, DlqGoto, DlqTypeOK
<1>8. ASSUME NEW w \in Workers, DlqClear(w)
      PROVE  PassInv'
  <2>1. /\ retries' = [retries EXCEPT ![dlqHand[w].alert] = 0]
        /\ UNCHANGED breaker
        /\ \A v \in Workers : v # w => dlqPc'[v] = dlqPc[v] /\ dlqHand'[v] = dlqHand[v]
    BY <1>1, <1>8 DEF DlqClear, DlqDone, DlqTypeOK, Fault
  <2>2. ASSUME NEW a \in Alerts, retries'[a] > 0
        PROVE  \E v \in Workers : dlqPc'[v] \in {"backoff", "clear"} /\ dlqHand'[v].alert = a
    <3>1. a # dlqHand[w].alert /\ retries[a] > 0
      BY <1>1, <2>1, <2>2 DEF DlqTypeOK
    <3>2. PICK v \in Workers : dlqPc[v] \in {"backoff", "clear"} /\ dlqHand[v].alert = a
      BY <3>1 DEF PassInv, RetryCountIsPerPass
    <3> QED
      BY <2>1, <3>1, <3>2
  <2> QED
    BY <1>1, <2>1, <2>2 DEF PassInv, RetryCountIsPerPass
<1>9. ASSUME NEW w \in Workers
      PROVE  ~DlqRedisFails(w) /\ ~DlqPushFails(w) /\ ~DlqBreakerOpen(w) /\ ~DlqCool(w)
             /\ ~WorkerCrash(w)
  BY <1>2 DEF DlqRedisFails, DlqPushFails, DlqBreakerOpen, DlqCool, WorkerCrash, Fault
<1>10. ASSUME Ingest \/ Api \/ Reap \/ ApiCrash \/ \E w \in Workers : Consume(w)
       PROVE  UNCHANGED dlqVars
  BY <1>10
     DEF Ingest, PollAlert, PollCommit, PollAbort, WebhookAlert, WebhookCommit, WebhookAbort,
         Api, RunTriage, EnqueueTriage, GetStale, GetFail, Expire, Reap, ApiCrash, Consume, Pop,
         NotFound, Suppress, Proceed, RaiseBeforeCommit, StoreVerdict, Finish, FailRow, DeadLetter
<1>11. UNCHANGED vars => UNCHANGED dlqVars
  BY DEF vars
<1> QED
  BY <1>3, <1>4, <1>5, <1>6, <1>7, <1>8, <1>9, <1>10, <1>11 DEF Next, HandleDlq

\* While Redis answers and no process crashes, a retry count exists only while
\* a DLQ worker is between the job's count and its clearing, for any number of
\* workers handling jobs of one alert, any retry limit and any other faults.
THEOREM CountsEndWithTheirPass ==
    ASSUME "crash" \notin Faults, "redis" \notin Faults
    PROVE  Spec => []RetryCountIsPerPass
<1>1. Init => PassInv
  BY TypeInit DEF Init, PassInv, RetryCountIsPerPass
<1>2. PassInv /\ [Next]_vars => PassInv'
  BY PassStep
<1>3. PassInv => RetryCountIsPerPass
  BY DEF PassInv
<1> QED
  BY <1>1, <1>2, <1>3, PTL DEF Spec
-------------------------------------------------------------------------------
(* Who carries the row of a manual request.  A row is carried by the API    *)
(* handler that committed it, then by the queue, then by one consumer; what *)
(* comes back from the dead-letter queue carries no row.                    *)

\* A row nobody created yet is carried by nobody, which is what lets POST
\* /triage/run start a fresh one.
UnusedRowsFree ==
    \A r \in Requests : row[r] = "none" =>
        /\ r \notin enqueuing
        /\ \A i \in DOMAIN queue : queue[i].row # r
        /\ \A w \in Workers : ~HoldsRow(w, r)

CarryInv ==
    /\ TypeOK
    /\ UnusedRowsFree
    /\ OneAnalysisPerRequest

\* What pushing and popping do to the positions of a list.
LEMMA PushPositions ==
    ASSUME NEW S, NEW s \in Seq(S), NEW e \in S, NEW i \in DOMAIN Append(s, e)
    PROVE  \/ i \in DOMAIN s /\ Append(s, e)[i] = s[i]
           \/ i = Len(s) + 1 /\ i \notin DOMAIN s /\ Append(s, e)[i] = e
OBVIOUS

LEMMA PopPositions ==
    ASSUME NEW S, NEW s \in Seq(S), s # <<>>, NEW i \in DOMAIN Tail(s)
    PROVE  /\ i + 1 \in DOMAIN s /\ Tail(s)[i] = s[i + 1] /\ i + 1 # 1
           /\ i \in Nat
           /\ 1 \in DOMAIN s /\ Head(s) = s[1]
OBVIOUS

\* A step that pushes nothing, and after which nobody holds a row he did not
\* hold before, keeps the invariant.
LEMMA CarryShrinks ==
    ASSUME CarryInv, TypeOK', UNCHANGED queue, enqueuing' \subseteq enqueuing,
           \A r \in Requests : row'[r] = "none" => row[r] = "none",
           \A w \in Workers : \A r \in Requests : HoldsRow(w, r)' => HoldsRow(w, r)
    PROVE  CarryInv'
<1>1. UnusedRowsFree'
  BY DEF CarryInv, UnusedRowsFree
<1>2. OneAnalysisPerRequest'
  BY DEF CarryInv, OneAnalysisPerRequest
<1> QED
  BY <1>1, <1>2 DEF CarryInv

\* The push of an automatic message carries no row.
LEMMA CarryPushAutomatic ==
    ASSUME CarryInv, TypeOK', NEW a \in Alerts, Push(a, None),
           UNCHANGED <<enqueuing, row, pc, hand>>
    PROVE  CarryInv'
<1> DEFINE m == [alert |-> a, row |-> None]
<1>1. queue \in Seq(Message) /\ m \in Message /\ queue' = Append(queue, m)
  BY DEF CarryInv, TypeOK, Push, Message
<1>2. \A r \in Requests : m.row # r
  BY TriageAssumption
<1>3. \A i \in DOMAIN queue' : \/ i \in DOMAIN queue /\ queue'[i] = queue[i]
                               \/ queue'[i].row = None
  <2> SUFFICES ASSUME NEW i \in DOMAIN queue'
               PROVE  \/ i \in DOMAIN queue /\ queue'[i] = queue[i]
                      \/ queue'[i] = m
    OBVIOUS
  <2> HIDE DEF m
  <2> QED
    BY <1>1, PushPositions
<1>4. \A w \in Workers : \A r \in Requests : HoldsRow(w, r)' <=> HoldsRow(w, r)
  BY DEF HoldsRow
<1>5. \A r \in Requests : r # None
  BY TriageAssumption
<1> HIDE DEF m
<1>6. UnusedRowsFree'
  BY <1>3, <1>4, <1>5 DEF CarryInv, UnusedRowsFree
<1>7. OneAnalysisPerRequest'
  BY <1>3, <1>4, <1>5 DEF CarryInv, OneAnalysisPerRequest
<1> QED
  BY <1>6, <1>7 DEF CarryInv

\* The push of POST /triage/run hands the row over from the handler to the queue.
LEMMA CarryPushManual ==
    ASSUME CarryInv, TypeOK', NEW r \in enqueuing, Push(rowAlert[r], r),
           enqueuing' = enqueuing \ {r}, UNCHANGED <<row, pc, hand>>
    PROVE  CarryInv'
<1> DEFINE m == [alert |-> rowAlert[r], row |-> r]
<1>1. queue \in Seq(Message) /\ m \in Message /\ queue' = Append(queue, m) /\ r \in Requests
  BY DEF CarryInv, TypeOK, ApiTypeOK, Push, Message
<1>2. m.row = r
  OBVIOUS
<1> HIDE DEF m
<1>3. \A i \in DOMAIN queue' :
        \/ i \in DOMAIN queue /\ queue'[i] = queue[i]
        \/ i = Len(queue) + 1 /\ i \notin DOMAIN queue /\ queue'[i] = m
  BY <1>1, PushPositions
<1>4. \A w \in Workers : \A q \in Requests : HoldsRow(w, q)' <=> HoldsRow(w, q)
  BY DEF HoldsRow
<1>5. row[r] # "none"
  BY <1>1 DEF CarryInv, UnusedRowsFree
<1>6. UnusedRowsFree'
  BY <1>2, <1>3, <1>4, <1>5 DEF CarryInv, UnusedRowsFree
<1>7. OneAnalysisPerRequest'
  <2> SUFFICES ASSUME NEW q \in Requests
               PROVE  /\ \A i, j \in DOMAIN queue' :
                            queue'[i].row = q /\ queue'[j].row = q => i = j
                      /\ \A v, w \in Workers : HoldsRow(v, q)' /\ HoldsRow(w, q)' => v = w
                      /\ ~ \E i \in DOMAIN queue', w \in Workers :
                              queue'[i].row = q /\ HoldsRow(w, q)'
                      /\ q \in enqueuing' => /\ \A i \in DOMAIN queue' : queue'[i].row # q
                                             /\ \A w \in Workers : ~HoldsRow(w, q)'
    BY DEF OneAnalysisPerRequest
  <2>1. CASE q = r
    BY <1>1, <1>2, <1>3, <1>4, <2>1 DEF CarryInv, OneAnalysisPerRequest
  <2>2. CASE q # r
    BY <1>1, <1>2, <1>3, <1>4, <2>2 DEF CarryInv, OneAnalysisPerRequest
  <2> QED
    BY <2>1, <2>2
<1> QED
  BY <1>6, <1>7 DEF CarryInv

\* The pop hands the row over from the queue to the consumer.
LEMMA CarryPop ==
    ASSUME CarryInv, TypeOK', NEW w \in Workers, Pop(w)
    PROVE  CarryInv'
<1>1. queue \in Seq(Message) /\ queue # <<>> /\ queue' = Tail(queue)
  BY DEF CarryInv, TypeOK, Pop
<1>2. \A i \in DOMAIN queue' : i \in Nat /\ i + 1 \in DOMAIN queue /\ queue'[i] = queue[i + 1]
                               /\ i + 1 # 1
  BY <1>1, PopPositions
<1>3. 1 \in DOMAIN queue /\ Head(queue) = queue[1]
  BY <1>1
<1>4. /\ UNCHANGED <<enqueuing, row>>
      /\ pc[w] = "idle"
      /\ \A v \in Workers, q \in Requests :
           HoldsRow(v, q)' <=> IF v = w THEN queue[1].row = q ELSE HoldsRow(v, q)
  BY <1>3 DEF Pop, HoldsRow, CarryInv, TypeOK, HandTypeOK, apiVars, rowVars
<1>5. UnusedRowsFree'
  BY <1>2, <1>3, <1>4 DEF CarryInv, UnusedRowsFree
<1>6. OneAnalysisPerRequest'
  <2> SUFFICES ASSUME NEW q \in Requests
               PROVE  /\ \A i, j \in DOMAIN queue' :
                            queue'[i].row = q /\ queue'[j].row = q => i = j
                      /\ \A u, v \in Workers : HoldsRow(u, q)' /\ HoldsRow(v, q)' => u = v
                      /\ ~ \E i \in DOMAIN queue', v \in Workers :
                              queue'[i].row = q /\ HoldsRow(v, q)'
                      /\ q \in enqueuing' => /\ \A i \in DOMAIN queue' : queue'[i].row # q
                                             /\ \A v \in Workers : ~HoldsRow(v, q)'
    BY DEF OneAnalysisPerRequest
  <2>1. CASE queue[1].row = q
    <3>1. \A i \in DOMAIN queue' : queue'[i].row # q
      BY <1>2, <1>3, <2>1 DEF CarryInv, OneAnalysisPerRequest
    <3> QED
      BY <1>3, <1>4, <2>1, <3>1 DEF CarryInv, OneAnalysisPerRequest
  <2>2. CASE queue[1].row # q
    <3>1. \A i, j \in DOMAIN queue' : queue'[i].row = q /\ queue'[j].row = q => i = j
      <4> SUFFICES ASSUME NEW i \in DOMAIN queue', NEW j \in DOMAIN queue',
                          queue'[i].row = q, queue'[j].row = q
                   PROVE  i = j
        OBVIOUS
      <4>1. i + 1 = j + 1
        BY <1>2 DEF CarryInv, OneAnalysisPerRequest
      <4> QED
        BY <1>2, <4>1
    <3> QED
      BY <1>2, <1>4, <2>2, <3>1 DEF CarryInv, OneAnalysisPerRequest
  <2> QED
    BY <2>1, <2>2
<1> QED
  BY <1>5, <1>6 DEF CarryInv

\* A consumer that goes on, or leaves process_message, holds no other row.
LEMMA CarryConsumer ==
    ASSUME TypeOK, NEW w \in Workers, pc[w] # "idle",
           Done(w) \/ \E place \in {"analyze", "finish", "except", "deadletter"} : Goto(w, place)
    PROVE  \A v \in Workers : \A r \in Requests : HoldsRow(v, r)' => HoldsRow(v, r)
BY DEF TypeOK, HandTypeOK, HoldsRow, Done, Goto

\* The row of a request never becomes unused again.
LEMMA MarkNotNone ==
    ASSUME TypeOK, NEW m, MarkManualFailed(m)
    PROVE  \A r \in Requests : row'[r] = "none" => row[r] = "none"
BY DEF TypeOK, RowTypeOK, MarkManualFailed

LEMMA CarryStep ==
    ASSUME CarryInv, [Next]_vars PROVE CarryInv'
<1> USE DEF rowVars, apiVars, triageVars
<1>1. TypeOK /\ TypeOK' /\ RowTypeOK
  BY TypeStep DEF CarryInv, TypeOK
<1>2. CASE UNCHANGED <<queue, enqueuing, row, pc, hand>>
  BY <1>1, <1>2, CarryShrinks DEF HoldsRow
<1>3. ASSUME NEW r \in Requests, NEW a \in Alerts, RunTriage(r, a)
      PROVE  CarryInv'
  <2>1. /\ row[r] = "none" /\ row' = [row EXCEPT ![r] = "pending"]
        /\ enqueuing' = enqueuing \union {r} /\ UNCHANGED <<queue, pc, hand>>
    BY <1>3 DEF RunTriage
  <2>2. \A w \in Workers : \A q \in Requests : HoldsRow(w, q)' <=> HoldsRow(w, q)
    BY <2>1 DEF HoldsRow
  <2>3. UnusedRowsFree'
    BY <1>1, <2>1, <2>2 DEF CarryInv, UnusedRowsFree, RowTypeOK
  <2>4. OneAnalysisPerRequest'
    BY <2>1, <2>2 DEF CarryInv, UnusedRowsFree, OneAnalysisPerRequest
  <2> QED
    BY <1>1, <2>3, <2>4 DEF CarryInv
<1>4. ASSUME NEW r \in Requests, EnqueueTriage(r)
      PROVE  CarryInv'
  <2>1. /\ r \in enqueuing /\ enqueuing' = enqueuing \ {r} /\ UNCHANGED <<row, pc, hand>>
        /\ Push(rowAlert[r], r) \/ UNCHANGED queue
    BY <1>4 DEF EnqueueTriage
  <2>2. CASE Push(rowAlert[r], r)
    BY <1>1, <2>1, <2>2, CarryPushManual
  <2>3. CASE UNCHANGED queue
    <3>1. \A v \in Workers : \A q \in Requests : HoldsRow(v, q)' => HoldsRow(v, q)
      BY <2>1 DEF HoldsRow
    <3> QED
      BY <1>1, <2>1, <2>3, <3>1, CarryShrinks
  <2> QED
    BY <2>1, <2>2, <2>3
<1>5. ASSUME NEW a \in Alerts, Push(a, None), UNCHANGED <<enqueuing, row, pc, hand>>
      PROVE  CarryInv'
  BY <1>1, <1>5, CarryPushAutomatic
<1>6. ASSUME NEW w \in Workers, DlqRequeue(w)
      PROVE  CarryInv'
  <2>1. dlqHand[w].alert \in Alerts
    BY <1>1, <1>6 DEF DlqRequeue, TypeOK, DlqTypeOK, Job
  <2> QED
    BY <1>5, <1>6, <2>1 DEF DlqRequeue
<1>7. ASSUME NEW w \in Workers, Pop(w)
      PROVE  CarryInv'
  BY <1>1, <1>7, CarryPop
<1>8. ASSUME NEW w \in Workers, pc[w] # "idle", UNCHANGED <<queue, enqueuing>>,
             \A r \in Requests : row'[r] = "none" => row[r] = "none",
             Done(w) \/ \E place \in {"analyze", "finish", "except", "deadletter"} : Goto(w, place)
      PROVE  CarryInv'
  BY <1>1, <1>8, CarryConsumer, CarryShrinks
<1>9. ASSUME NEW w \in Workers, NotFound(w) \/ FailRow(w)
      PROVE  CarryInv'
  <2>1. /\ pc[w] # "idle" /\ UNCHANGED <<queue, enqueuing>>
        /\ MarkManualFailed(hand[w].row) \/ UNCHANGED row
        /\ Done(w) \/ Goto(w, "deadletter")
    BY <1>9 DEF NotFound, FailRow
  <2>2. \A r \in Requests : row'[r] = "none" => row[r] = "none"
    BY <1>1, <2>1, MarkNotNone
  <2> QED
    BY <1>8, <2>1, <2>2
<1>10. ASSUME NEW w \in Workers, NEW outcome \in {"completed", "failed"}, StoreVerdict(w, outcome)
       PROVE  CarryInv'
  <2>1. \A r \in Requests : row'[r] = "none" => row[r] = "none"
    BY <1>1, <1>10 DEF StoreVerdict, RowTypeOK
  <2>2. pc[w] # "idle" /\ UNCHANGED <<queue, enqueuing>> /\ Goto(w, "finish")
    BY <1>10 DEF StoreVerdict
  <2> QED
    BY <1>8, <2>1, <2>2
<1>11. ASSUME NEW w \in Workers,
              Suppress(w) \/ Proceed(w) \/ RaiseBeforeCommit(w) \/ Finish(w) \/ DeadLetter(w)
       PROVE  CarryInv'
  <2>1. /\ pc[w] # "idle" /\ UNCHANGED <<queue, row, enqueuing>>
        /\ Done(w) \/ Goto(w, "except") \/ Goto(w, "analyze")
    BY <1>11 DEF Suppress, Proceed, RaiseBeforeCommit, Finish, DeadLetter
  <2> QED
    BY <1>8, <2>1
<1>12. ASSUME NEW w \in Workers, WorkerCrash(w)
       PROVE  CarryInv'
  <2>1. /\ UNCHANGED <<queue, row, enqueuing>> /\ Done(w)
    BY <1>12 DEF WorkerCrash
  <2>2. \A v \in Workers : \A r \in Requests : HoldsRow(v, r)' => HoldsRow(v, r)
    BY <1>1, <2>1 DEF HoldsRow, Done, TypeOK, HandTypeOK
  <2> QED
    BY <1>1, <2>1, <2>2, CarryShrinks
<1>13. ASSUME Reap \/ ApiCrash \/ \E r \in Requests : GetStale(r) \/ GetFail(r) \/ Expire(r)
       PROVE  CarryInv'
  <2>1. /\ UNCHANGED <<queue, pc, hand>> /\ enqueuing' \subseteq enqueuing
        /\ \A r \in Requests : row'[r] = "none" => row[r] = "none"
    BY <1>1, <1>13 DEF Reap, ApiCrash, GetStale, GetFail, Expire, RowTypeOK
  <2>2. \A v \in Workers : \A r \in Requests : HoldsRow(v, r)' => HoldsRow(v, r)
    BY <2>1 DEF HoldsRow
  <2> QED
    BY <1>1, <2>1, <2>2, CarryShrinks
<1>14. CASE Ingest
  BY <1>2, <1>5, <1>14
     DEF Ingest, PollAlert, PollCommit, PollAbort, WebhookAlert, WebhookCommit, WebhookAbort
<1>15. ASSUME NEW w \in Workers,
              DlqTake(w) \/ DlqRedisFails(w) \/ DlqPark(w) \/ DlqCount(w) \/ DlqPushFails(w)
                \/ DlqBreakerOpen(w) \/ DlqClear(w) \/ DlqCool(w)
       PROVE  CarryInv'
  BY <1>2, <1>15 DEF DlqTake, DlqRedisFails, DlqPark, DlqCount, DlqPushFails, DlqBreakerOpen,
                     DlqClear, DlqCool
<1>16. CASE UNCHANGED vars
  BY <1>2, <1>16 DEF vars
<1> QED
  BY <1>3, <1>4, <1>6, <1>7, <1>9, <1>10, <1>11, <1>12, <1>13, <1>14, <1>15, <1>16
     DEF Next, Api, Consume, HandleDlq

LEMMA CarryInit == Init => CarryInv
BY TypeInit DEF Init, CarryInv, UnusedRowsFree, OneAnalysisPerRequest, HoldsRow

\* The row of a manual request is carried by at most one of the API handler, the
\* queue and the consumers, for any number of them, whatever crashes, fails or
\* comes back through the dead-letter queue: it is never analysed twice.
THEOREM RequestsAnalysedOnce == Spec => []OneAnalysisPerRequest
<1>1. CarryInv /\ [Next]_vars => CarryInv'
  BY CarryStep
<1>2. CarryInv => OneAnalysisPerRequest
  BY DEF CarryInv
<1> QED
  BY CarryInit, <1>1, <1>2, PTL DEF Spec
-------------------------------------------------------------------------------
(* A stored verdict is final, with the dashboard closed and Redis available. *)

\* A completed row is carried by nobody any more, but for the consumer that has
\* just committed it and still has to publish it.
CompletedRowsRest ==
    \A r \in Requests : row[r] = "completed" =>
        /\ r \notin enqueuing
        /\ \A i \in DOMAIN queue : queue[i].row # r
        /\ \A w \in Workers : HoldsRow(w, r) => pc[w] = "finish"

StandInv ==
    /\ CarryInv
    /\ timingOut = {}
    /\ CompletedRowsRest

\* A step that completes no row keeps the completed rows at rest if it pushes
\* none of them and lets nobody but a finished consumer hold one.
LEMMA RestKept ==
    ASSUME StandInv, CarryInv', timingOut' = {},
           \A r \in Requests : row'[r] = "completed" => row[r] = "completed",
           enqueuing' \subseteq enqueuing,
           \A i \in DOMAIN queue' : \/ queue'[i].row = None
                                    \/ queue'[i].row \in enqueuing
                                    \/ \E j \in DOMAIN queue : queue'[i] = queue[j],
           \A w \in Workers, r \in Requests :
               HoldsRow(w, r)' => \/ HoldsRow(w, r) /\ pc[w] # "finish"
                                  \/ HoldsRow(w, r) /\ pc'[w] = "finish"
                                  \/ \E i \in DOMAIN queue : queue[i].row = r
    PROVE  StandInv'
<1>1. ASSUME NEW r \in Requests, row'[r] = "completed"
      PROVE  /\ r \notin enqueuing'
             /\ \A i \in DOMAIN queue' : queue'[i].row # r
             /\ \A w \in Workers : HoldsRow(w, r)' => pc'[w] = "finish"
  <2>1. /\ r \notin enqueuing
        /\ \A i \in DOMAIN queue : queue[i].row # r
        /\ \A w \in Workers : HoldsRow(w, r) => pc[w] = "finish"
    BY <1>1 DEF StandInv, CompletedRowsRest
  <2>2. r # None
    BY TriageAssumption
  <2> QED
    BY <2>1, <2>2
<1>2. CompletedRowsRest'
  BY <1>1 DEF CompletedRowsRest
<1> QED
  BY <1>2 DEF StandInv

\* The same for the steps that leave the queue alone.
LEMMA RestQuiet ==
    ASSUME StandInv, CarryInv', timingOut' = {}, UNCHANGED queue, enqueuing' \subseteq enqueuing,
           \A r \in Requests : row'[r] = "completed" => row[r] = "completed",
           \A w \in Workers, r \in Requests :
               HoldsRow(w, r)' => HoldsRow(w, r) /\ (pc[w] = "finish" => pc'[w] = "finish")
    PROVE  StandInv'
BY RestKept

LEMMA StandStep ==
    ASSUME ~DashboardPolls, "redis" \notin Faults, StandInv, [Next]_vars
    PROVE  /\ StandInv'
           /\ \A r \in Requests : row[r] = "completed" => row'[r] = "completed"
<1> USE DEF rowVars, apiVars, triageVars
<1>1. /\ CarryInv /\ CarryInv' /\ timingOut = {} /\ TypeOK /\ queue \in Seq(Message)
      /\ RowTypeOK /\ HandTypeOK
  BY CarryStep DEF StandInv, CarryInv, TypeOK
<1> DEFINE Kept == \A r \in Requests : row[r] = "completed" => row'[r] = "completed"
<1>2. CASE UNCHANGED <<queue, enqueuing, timingOut, row, pc, hand>>
  BY <1>1, <1>2, RestQuiet DEF HoldsRow
<1>3. ASSUME NEW r \in Requests, NEW a \in Alerts, RunTriage(r, a)
      PROVE  StandInv' /\ Kept
  <2>1. /\ row[r] = "none" /\ row' = [row EXCEPT ![r] = "pending"]
        /\ enqueuing' = enqueuing \union {r} /\ UNCHANGED <<queue, pc, hand, timingOut>>
    BY <1>3 DEF RunTriage
  <2>2. Kept
    BY <1>1, <2>1 DEF RowTypeOK
  <2>3. \A q \in Requests : row'[q] = "completed" => row[q] = "completed" /\ q # r
    BY <1>1, <2>1 DEF RowTypeOK
  <2>4. \A w \in Workers, q \in Requests : HoldsRow(w, q)' => HoldsRow(w, q)
    BY <2>1 DEF HoldsRow
  <2>5. CompletedRowsRest'
    BY <2>1, <2>3, <2>4 DEF StandInv, CompletedRowsRest
  <2> QED
    BY <1>1, <2>1, <2>2, <2>5 DEF StandInv
<1>4. ASSUME NEW m \in Message, queue' = Append(queue, m), UNCHANGED <<row, pc, hand, timingOut>>,
             enqueuing' \subseteq enqueuing, m.row = None \/ m.row \in enqueuing
      PROVE  StandInv' /\ Kept
  <2>1. \A i \in DOMAIN queue' : \/ queue'[i] = m
                                 \/ \E j \in DOMAIN queue : queue'[i] = queue[j]
    BY <1>1, <1>4, PushPositions
  <2>2. \A w \in Workers, q \in Requests :
          HoldsRow(w, q)' => HoldsRow(w, q) /\ pc'[w] = pc[w]
    BY <1>4 DEF HoldsRow
  <2>3. \A i \in DOMAIN queue' : \/ queue'[i].row = None
                                 \/ queue'[i].row \in enqueuing
                                 \/ \E j \in DOMAIN queue : queue'[i] = queue[j]
    BY <1>4, <2>1
  <2>4. StandInv'
    BY <1>1, <1>4, <2>2, <2>3, RestKept
  <2> QED
    BY <1>4, <2>4
<1>5. ASSUME NEW a \in Alerts, Push(a, None), UNCHANGED <<enqueuing, timingOut, row, pc, hand>>
      PROVE  StandInv' /\ Kept
  <2> DEFINE m == [alert |-> a, row |-> None]
  <2>1. m \in Message /\ m.row = None /\ queue' = Append(queue, m)
    BY <1>5 DEF Push, Message
  <2> HIDE DEF m
  <2> QED
    BY <1>4, <1>5, <2>1
<1>6. ASSUME NEW r \in Requests, EnqueueTriage(r)
      PROVE  StandInv' /\ Kept
  <2> DEFINE m == [alert |-> rowAlert[r], row |-> r]
  <2>1. /\ m \in Message /\ m.row = r /\ r \in enqueuing
        /\ queue' = Append(queue, m) /\ enqueuing' \subseteq enqueuing
        /\ UNCHANGED <<timingOut, row, pc, hand>>
    BY <1>1, <1>6 DEF EnqueueTriage, Push, Message, TypeOK, ApiTypeOK, Fault
  <2> HIDE DEF m
  <2> QED
    BY <1>4, <2>1
<1>7. ASSUME NEW w \in Workers, DlqRequeue(w)
      PROVE  StandInv' /\ Kept
  <2>1. dlqHand[w].alert \in Alerts
    BY <1>1, <1>7 DEF DlqRequeue, TypeOK, DlqTypeOK, Job
  <2> QED
    BY <1>5, <1>7, <2>1 DEF DlqRequeue
<1>8. ASSUME NEW w \in Workers, Pop(w)
      PROVE  StandInv' /\ Kept
  <2>1. \A i \in DOMAIN queue' : \E j \in DOMAIN queue : queue'[i] = queue[j]
    BY <1>1, <1>8, PopPositions DEF Pop
  <2>2. 1 \in DOMAIN queue /\ Head(queue) = queue[1]
    BY <1>1, <1>8 DEF Pop
  <2>3. \A v \in Workers, q \in Requests :
          HoldsRow(v, q)' => IF v = w THEN queue[1].row = q ELSE HoldsRow(v, q) /\ pc'[v] = pc[v]
    BY <1>1, <1>8, <2>2 DEF Pop, HoldsRow, HandTypeOK
  <2>4. \A v \in Workers, q \in Requests :
          HoldsRow(v, q)' => \/ HoldsRow(v, q) /\ pc[v] # "finish"
                             \/ HoldsRow(v, q) /\ pc'[v] = "finish"
                             \/ \E i \in DOMAIN queue : queue[i].row = q
    BY <2>2, <2>3
  <2>5. UNCHANGED <<enqueuing, timingOut, row>>
    BY <1>8 DEF Pop
  <2>6. StandInv'
    BY <1>1, <2>1, <2>4, <2>5, RestKept
  <2> QED
    BY <2>5, <2>6
<1>9. ASSUME NEW w \in Workers, pc[w] \notin {"idle", "finish"}, Done(w) \/ Goto(w, "except")
               \/ Goto(w, "analyze") \/ Goto(w, "deadletter"),
             UNCHANGED <<queue, enqueuing, timingOut>>,
             MarkManualFailed(hand[w].row) \/ UNCHANGED row
      PROVE  StandInv' /\ Kept
  <2>1. \A v \in Workers, r \in Requests :
          HoldsRow(v, r)' => HoldsRow(v, r) /\ (pc[v] = "finish" => pc'[v] = "finish")
    BY <1>1, <1>9 DEF HoldsRow, Done, Goto, HandTypeOK
  <2>2. \A r \in Requests : row'[r] = "completed" => row[r] = "completed"
    BY <1>1, <1>9 DEF MarkManualFailed, RowTypeOK
  <2>3. StandInv'
    BY <1>1, <1>9, <2>1, <2>2, RestQuiet
  <2>4. \A r \in Requests : hand[w].row = r => row[r] # "completed"
    BY <1>9 DEF StandInv, CompletedRowsRest, HoldsRow
  <2>5. Kept
    BY <1>1, <1>9, <2>4 DEF MarkManualFailed, RowTypeOK
  <2> QED
    BY <2>3, <2>5
<1>10. ASSUME NEW w \in Workers, NEW outcome \in {"completed", "failed"}, StoreVerdict(w, outcome)
       PROVE  StandInv' /\ Kept
  <2>1. /\ pc[w] = "analyze" /\ Goto(w, "finish") /\ UNCHANGED <<queue, enqueuing, timingOut>>
        /\ IF hand[w].row = None THEN UNCHANGED row
           ELSE row' = [row EXCEPT ![hand[w].row] = outcome]
    BY <1>10 DEF StoreVerdict
  <2>2. \A v \in Workers, r \in Requests :
          HoldsRow(v, r)' => HoldsRow(v, r) /\ (pc[v] = "finish" => pc'[v] = "finish")
    BY <1>1, <2>1 DEF HoldsRow, Goto, HandTypeOK
  <2>3. \A r \in Requests : hand[w].row = r => row[r] # "completed"
    BY <2>1 DEF StandInv, CompletedRowsRest, HoldsRow
  <2>4. Kept
    BY <1>1, <2>1, <2>3 DEF RowTypeOK
  <2>5. \A r \in Requests : row'[r] = "completed" => row[r] = "completed" \/ HoldsRow(w, r)
    BY <1>1, <2>1 DEF RowTypeOK, HoldsRow
  <2>6. \A r \in Requests : HoldsRow(w, r) =>
          /\ r \notin enqueuing
          /\ \A i \in DOMAIN queue : queue[i].row # r
          /\ \A v \in Workers : HoldsRow(v, r) => v = w
    BY <1>1 DEF CarryInv, OneAnalysisPerRequest
  <2>7. pc'[w] = "finish"
    BY <1>1, <2>1 DEF Goto, HandTypeOK
  <2>8. CompletedRowsRest'
    BY <2>1, <2>2, <2>5, <2>6, <2>7 DEF StandInv, CompletedRowsRest
  <2> QED
    BY <1>1, <2>1, <2>4, <2>8 DEF StandInv
<1>11. ASSUME NEW w \in Workers, Finish(w)
       PROVE  StandInv' /\ Kept
  <2>1. Done(w) /\ pc[w] = "finish" /\ UNCHANGED <<queue, enqueuing, timingOut, row>>
    BY <1>11 DEF Finish, Fault
  <2>2. \A v \in Workers, r \in Requests :
          HoldsRow(v, r)' => HoldsRow(v, r) /\ (pc[v] = "finish" => pc'[v] = "finish")
    BY <1>1, <2>1 DEF HoldsRow, Done, HandTypeOK
  <2>3. StandInv'
    BY <1>1, <2>1, <2>2, RestQuiet
  <2> QED
    BY <2>1, <2>3
<1>12. ASSUME NEW w \in Workers, NotFound(w) \/ FailRow(w)
       PROVE  StandInv' /\ Kept
  <2>1. /\ pc[w] \notin {"idle", "finish"} /\ UNCHANGED <<queue, enqueuing, timingOut>>
        /\ MarkManualFailed(hand[w].row) \/ UNCHANGED row
        /\ Done(w) \/ Goto(w, "deadletter")
    BY <1>12 DEF NotFound, FailRow
  <2> QED
    BY <1>9, <2>1
<1>13. ASSUME NEW w \in Workers,
              Suppress(w) \/ Proceed(w) \/ RaiseBeforeCommit(w) \/ DeadLetter(w)
       PROVE  StandInv' /\ Kept
  <2>1. /\ pc[w] \notin {"idle", "finish"} /\ UNCHANGED <<queue, row, enqueuing, timingOut>>
        /\ Done(w) \/ Goto(w, "except") \/ Goto(w, "analyze")
    BY <1>13 DEF Suppress, Proceed, RaiseBeforeCommit, DeadLetter
  <2> QED
    BY <1>9, <2>1
<1>14. ASSUME NEW w \in Workers, WorkerCrash(w)
       PROVE  StandInv' /\ Kept
  <2>1. Done(w) /\ UNCHANGED <<queue, enqueuing, timingOut, row>>
    BY <1>14 DEF WorkerCrash
  <2>2. \A v \in Workers, r \in Requests :
          HoldsRow(v, r)' => HoldsRow(v, r) /\ (pc[v] = "finish" => pc'[v] = "finish")
    BY <1>1, <2>1 DEF HoldsRow, Done, HandTypeOK
  <2>3. StandInv'
    BY <1>1, <2>1, <2>2, RestQuiet
  <2> QED
    BY <2>1, <2>3
<1>15. ASSUME Reap \/ ApiCrash \/ \E r \in Requests : GetStale(r) \/ GetFail(r) \/ Expire(r)
       PROVE  StandInv' /\ Kept
  <2>1. /\ UNCHANGED <<queue, pc, hand>> /\ enqueuing' \subseteq enqueuing /\ timingOut' = {}
        /\ Kept
        /\ \A r \in Requests : row'[r] = "completed" => row[r] = "completed"
    BY <1>1, <1>15 DEF Reap, Stale, ApiCrash, GetStale, GetFail, Expire, RowTypeOK
  <2>2. \A v \in Workers, r \in Requests :
          HoldsRow(v, r)' => HoldsRow(v, r) /\ (pc[v] = "finish" => pc'[v] = "finish")
    BY <2>1 DEF HoldsRow
  <2>3. StandInv'
    BY <1>1, <2>1, <2>2, RestQuiet
  <2> QED
    BY <2>1, <2>3
<1>16. CASE Ingest
  BY <1>2, <1>5, <1>16
     DEF Ingest, PollAlert, PollCommit, PollAbort, WebhookAlert, WebhookCommit, WebhookAbort
<1>17. ASSUME NEW w \in Workers,
              DlqTake(w) \/ DlqRedisFails(w) \/ DlqPark(w) \/ DlqCount(w) \/ DlqPushFails(w)
                \/ DlqBreakerOpen(w) \/ DlqClear(w) \/ DlqCool(w)
       PROVE  StandInv' /\ Kept
  BY <1>2, <1>17 DEF DlqTake, DlqRedisFails, DlqPark, DlqCount, DlqPushFails, DlqBreakerOpen,
                     DlqClear, DlqCool
<1>18. CASE UNCHANGED vars
  BY <1>2, <1>18 DEF vars
<1> QED
  BY <1>3, <1>6, <1>7, <1>8, <1>10, <1>11, <1>12, <1>13, <1>14, <1>15, <1>16, <1>17, <1>18
     DEF Next, Api, Consume, HandleDlq

\* With the dashboard closed and Redis available, a completed row is never
\* failed afterwards: neither by the reaper, nor by the failure path of a
\* consumer, nor by a second delivery, whatever crashes or errs in the database
\* and the LLM.
THEOREM CompletedRowsStand ==
    ASSUME ~DashboardPolls, "redis" \notin Faults
    PROVE  Spec => VerdictStands
<1>1. Init => StandInv
  BY CarryInit DEF Init, StandInv, CompletedRowsRest
<1>2. StandInv /\ [Next]_vars => StandInv'
  BY StandStep
<1>3. StandInv /\ [Next]_vars =>
        [\A r \in Requests : row[r] = "completed" => row'[r] = "completed"]_vars
  BY StandStep
<1> QED
  BY <1>1, <1>2, <1>3, PTL DEF Spec, VerdictStands
================================================================================

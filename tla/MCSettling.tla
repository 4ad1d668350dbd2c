------------------------------ MODULE MCSettling ------------------------------
(***************************************************************************)
(* What must settle, for TLC: the approval requests of MCApprovals         *)
(* (extended), and the manual requests and alerts of TriagePipeline.  A    *)
(* behaviour runs the part that part names; the other rests.               *)
(***************************************************************************)
EXTENDS MCApprovals, Sequences

CONSTANTS
    w1, w2, a1, q1,
    Workers, Alerts, TriageRows, Escalating, MaxRetries, BreakerThreshold,
    ForceFast, GateReturns, DashboardPolls, Faults, MaxFaults      \* TriagePipeline

VARIABLES
    part, alert, batch, queue, row, rowAlert, overdue, latest, enqueuing, timingOut,
    pc, hand, verdict, dlq, dlqPc, dlqHand, dlqCount, retries, parked, breaker, lost, budget

Pipeline == INSTANCE TriagePipeline WITH Requests <- TriageRows

pipelineVars ==
    <<alert, batch, queue, row, rowAlert, overdue, latest, enqueuing, timingOut, pc, hand,
      verdict, dlq, dlqPc, dlqHand, dlqCount, retries, parked, breaker, lost, budget>>

MCInit == part \in {"approvals", "pipeline"} /\ Init /\ Pipeline!Init

MCNext ==
    /\ UNCHANGED part
    /\ \/ part = "approvals" /\ Next /\ UNCHANGED pipelineVars
       \/ part = "pipeline" /\ Pipeline!Next /\ UNCHANGED vars

\* The fairness of the two specifications, each for the behaviours of its part.
Approving(A) == part = "approvals" /\ A
Triaging(A)  == part = "pipeline" /\ A

MCSpec ==
    /\ MCInit /\ [][MCNext]_<<part, vars, pipelineVars>>
    /\ WF_vars(Approving(CheckExpiredApprovals))
    /\ \A r \in Requests : WF_vars(Approving(Lapse(r)))
    /\ \A v \in Reviewers : WF_vars(Approving(ReviewCommit(v) \/ ReviewAbort(v)))
    /\ \A g \in Runs : WF_vars(Approving(RunCommit(g)))
    /\ \A w \in Workers :
          /\ WF_pipelineVars(Triaging(Pipeline!Consume(w)))
          /\ WF_pipelineVars(Triaging(Pipeline!HandleDlq(w)))
          /\ WF_pipelineVars(Triaging(Pipeline!PollCommit(w)))
    /\ \A a \in Alerts : WF_pipelineVars(Triaging(Pipeline!WebhookCommit(a)))
    /\ \A r \in TriageRows :
          /\ WF_pipelineVars(Triaging(Pipeline!Expire(r)))
          /\ WF_pipelineVars(Triaging(Pipeline!EnqueueTriage(r)))
          /\ WF_pipelineVars(Triaging(Pipeline!GetFail(r)))
    /\ WF_pipelineVars(Triaging(Pipeline!Reap))
-------------------------------------------------------------------------------
(* The properties the pipeline states. *)
RequestAnswered == Pipeline!RequestAnswered
AlertsSettle    == Pipeline!AlertsSettle
===============================================================================

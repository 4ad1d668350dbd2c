------------------------------- MODULE Approvals -------------------------------
(***************************************************************************)
(* Human approval of agent actions: the approval_requests table, the two   *)
(* guards that agent runs and SOAR playbooks call before a write           *)
(* (policy_guard and containment_guard), the review endpoint of the API,   *)
(* and the approval worker that expires pending requests.                  *)
(*                                                                         *)
(* The review endpoint reads the row and writes it back by primary key, so *)
(* a review is two steps; the expiry is one guarded UPDATE.  A run reads   *)
(* the approved requests, and what it then writes (the effect of the       *)
(* action, or a new pending request) is visible when its session commits.  *)
(***************************************************************************)
EXTENDS Naturals, FiniteSets

CONSTANTS
    Requests,    \* primary keys of approval requests
    Actions,     \* pairs (action_type, target_ref) of one tenant
    Reviewers,   \* concurrent PUT /approvals/{id}/review handlers
    Runs,        \* guarded actions, of agent runs or of playbooks
    Wants,       \* the action a run asks for
    Mode,        \* what its guard falls back to: read-only, approval, full or deny
    None

Modes == {"read-only", "approval", "full", "deny"}

ASSUME ApprovalsAssumption ==
    /\ Wants \in [Runs -> Actions]
    /\ Mode \in [Runs -> Modes]
    /\ None \notin Requests

VARIABLES
    status,      \* of each request; flushed: inserted by a run that has not committed
    about,       \* the action a request is about
    past,        \* requests whose expires_at lies in the past
    reading,     \* the request a reviewer has read as pending
    decision,    \* what it will write
    run,         \* where each guarded action stands
    basis,       \* the approved request the guard found
    asked,       \* the request the guard inserted
    approvedInTime   \* history: requests a reviewer approved before their expires_at

vars == <<status, about, past, reading, decision, run, basis, asked, approvedInTime>>

requestVars == <<status, about, past>>
reviewVars  == <<reading, decision, approvedInTime>>
runVars     == <<run, basis, asked>>

Statuses == {"none", "flushed", "pending", "approved", "rejected", "expired"}

TypeOK ==
    /\ status \in [Requests -> Statuses]
    /\ about \in [Requests -> Actions \union {None}]
    /\ past \subseteq Requests
    /\ reading \in [Reviewers -> Requests \union {None}]
    /\ decision \in [Reviewers -> {"none", "approved", "rejected", "expired"}]
    /\ run \in [Runs -> {"ready", "allowed", "asking", "refusing", "done", "blocked", "crashed"}]
    /\ basis \in [Runs -> Requests \union {None}]
    /\ asked \in [Runs -> Requests \union {None}]
    /\ approvedInTime \subseteq Requests

Init ==
    /\ status = [r \in Requests |-> "none"]
    /\ about = [r \in Requests |-> None]
    /\ past = {} /\ approvedInTime = {}
    /\ reading = [v \in Reviewers |-> None]
    /\ decision = [v \in Reviewers |-> "none"]
    /\ run = [g \in Runs |-> "ready"]
    /\ basis = [g \in Runs |-> None]
    /\ asked = [g \in Runs |-> None]
-------------------------------------------------------------------------------
(* Requests: POST /approvals, time, and the worker's expiry.               *)

CreateApproval(r, a) ==
    /\ status[r] = "none"
    /\ status' = [status EXCEPT ![r] = "pending"]
    /\ about' = [about EXCEPT ![r] = a]
    /\ UNCHANGED <<past, reviewVars, runVars>>

\* expires_at passes.
Lapse(r) ==
    /\ status[r] # "none" /\ r \notin past
    /\ past' = past \union {r}
    /\ UNCHANGED <<status, about, reviewVars, runVars>>

\* Mutant: the comparison with now is the wrong way round.
LapsedInFuture == {r \in Requests : status[r] = "pending" /\ r \notin past}

Lapsed == {r \in Requests : status[r] = "pending" /\ r \in past}

CheckExpiredApprovals ==
    /\ Lapsed # {}
    /\ status' = [r \in Requests |-> IF r \in Lapsed THEN "expired" ELSE status[r]]
    /\ UNCHANGED <<about, past, reviewVars, runVars>>
-------------------------------------------------------------------------------
(* The review endpoint.  Other statuses than pending get a 400 and change   *)
(* nothing.                                                                 *)

ReviewRead(v, r) ==
    /\ reading[v] = None /\ status[r] = "pending"
    /\ reading' = [reading EXCEPT ![v] = r]
    /\ \E d \in IF r \in past THEN {"expired"} ELSE {"approved", "rejected"} :
          decision' = [decision EXCEPT ![v] = d]
    /\ UNCHANGED <<requestVars, runVars, approvedInTime>>

ReviewCommit(v) ==
    /\ reading[v] # None
    /\ status' = [status EXCEPT ![reading[v]] = decision[v]]
    /\ approvedInTime' = IF decision[v] = "approved" THEN approvedInTime \union ({reading[v]} \ past)
                                                   ELSE approvedInTime
    /\ reading' = [reading EXCEPT ![v] = None]
    /\ decision' = [decision EXCEPT ![v] = "none"]
    /\ UNCHANGED <<about, past, runVars>>

\* The connection is lost before the commit.
ReviewAbort(v) ==
    /\ reading[v] # None
    /\ reading' = [reading EXCEPT ![v] = None]
    /\ decision' = [decision EXCEPT ![v] = "none"]
    /\ UNCHANGED <<requestVars, runVars, approvedInTime>>
-------------------------------------------------------------------------------
(* The guards.                                                             *)

\* Mutant: the lookup takes a pending request for an approved one.
ExistingApprovalAnyStatus(a) == {r \in Requests : status[r] = "pending" /\ about[r] = a /\ r \notin past}

\* _check_existing_approval
ExistingApproval(a) == {r \in Requests : status[r] = "approved" /\ about[r] = a /\ r \notin past}

\* containment_guard decides by policy before it looks at any request; the
\* lookup of policy_guard comes before the autonomy level of the agent.
GuardReuse(g) ==
    /\ run[g] = "ready" /\ Mode[g] # "deny"
    /\ \E r \in ExistingApproval(Wants[g]) : basis' = [basis EXCEPT ![g] = r]
    /\ run' = [run EXCEPT ![g] = "allowed"]
    /\ UNCHANGED <<requestVars, reviewVars, asked>>

GuardFull(g) ==
    /\ run[g] = "ready" /\ Mode[g] = "full"
    /\ ExistingApproval(Wants[g]) = {}
    /\ run' = [run EXCEPT ![g] = "allowed"]
    /\ UNCHANGED <<requestVars, reviewVars, basis, asked>>

GuardRefuse(g) ==
    /\ run[g] = "ready"
    /\ \/ Mode[g] = "deny"
       \/ Mode[g] = "read-only" /\ ExistingApproval(Wants[g]) = {}
    /\ run' = [run EXCEPT ![g] = "refusing"]
    /\ UNCHANGED <<requestVars, reviewVars, basis, asked>>

GuardAsk(g, r) ==
    /\ run[g] = "ready" /\ Mode[g] = "approval"
    /\ ExistingApproval(Wants[g]) = {}
    /\ status[r] = "none"
    /\ status' = [status EXCEPT ![r] = "flushed"]
    /\ about' = [about EXCEPT ![r] = Wants[g]]
    /\ asked' = [asked EXCEPT ![g] = r]
    /\ run' = [run EXCEPT ![g] = "asking"]
    /\ UNCHANGED <<past, reviewVars, basis>>

\* The session of the run commits: the action is done, or the run ends with
\* status blocked, its request now pending.
RunCommit(g) ==
    /\ \/ /\ run[g] = "allowed"
          /\ run' = [run EXCEPT ![g] = "done"] /\ UNCHANGED status
       \/ /\ run[g] = "asking"
          /\ run' = [run EXCEPT ![g] = "blocked"]
          /\ status' = [status EXCEPT ![asked[g]] = "pending"]
       \/ /\ run[g] = "refusing"
          /\ run' = [run EXCEPT ![g] = "blocked"] /\ UNCHANGED status
    /\ UNCHANGED <<about, past, reviewVars, basis, asked>>

\* The worker dies, or the transaction is rolled back.
RunCrash(g) ==
    /\ run[g] \in {"ready", "allowed", "asking", "refusing"}
    /\ run' = [run EXCEPT ![g] = "crashed"]
    /\ status' = IF run[g] = "asking" THEN [status EXCEPT ![asked[g]] = "none"] ELSE status
    /\ past' = IF run[g] = "asking" THEN past \ {asked[g]} ELSE past
    /\ about' = IF run[g] = "asking" THEN [about EXCEPT ![asked[g]] = None] ELSE about
    /\ basis' = [basis EXCEPT ![g] = None]
    /\ asked' = [asked EXCEPT ![g] = None]
    /\ UNCHANGED reviewVars
-------------------------------------------------------------------------------
Review(v) == (\E r \in Requests : ReviewRead(v, r)) \/ ReviewCommit(v) \/ ReviewAbort(v)

Guard(g) ==
    \/ GuardReuse(g) \/ GuardFull(g) \/ GuardRefuse(g) \/ \E r \in Requests : GuardAsk(g, r)
    \/ RunCommit(g) \/ RunCrash(g)

Next ==
    \/ \E r \in Requests : Lapse(r) \/ \E a \in Actions : CreateApproval(r, a)
    \/ CheckExpiredApprovals
    \/ \E v \in Reviewers : Review(v)
    \/ \E g \in Runs : Guard(g)

Spec == Init /\ [][Next]_vars

\* Time passes, the worker's loop runs every minute, handlers return.
Fairness ==
    /\ WF_vars(CheckExpiredApprovals)
    /\ \A r \in Requests : WF_vars(Lapse(r))
    /\ \A v \in Reviewers : WF_vars(ReviewCommit(v) \/ ReviewAbort(v))
    /\ \A g \in Runs : WF_vars(RunCommit(g))

FairSpec == Spec /\ Fairness
-------------------------------------------------------------------------------
(* Properties.                                                             *)

Acted(g) == run[g] \in {"allowed", "done"}

\* Only an agent with full autonomy, or a containment action the policy allows,
\* acts without a human: behind every other action stands a request about that
\* very action which a reviewer approved before it expired, however reviews,
\* expiries, crashes and other runs interleave.  In particular an approval that
\* races with the expiry and overwrites it authorizes nothing.
NoActionWithoutReview ==
    \A g \in Runs : Acted(g) /\ Mode[g] # "full" =>
        basis[g] \in approvedInTime /\ about[basis[g]] = Wants[g]

Visible(r) == status[r] \notin {"none", "flushed"}

\* An approval that can still be used was given in time.
UsableInTime ==
    /\ \A r \in Requests : status[r] = "approved" => r \in approvedInTime \union past
    /\ \A r \in approvedInTime : Visible(r)

ReviewedVisible ==
    \A v \in Reviewers : reading[v] # None => Visible(reading[v]) /\ decision[v] # "none"

\* The request of an uncommitted run is its own, and nobody else sees it.
AskedHidden ==
    /\ \A g \in Runs : run[g] = "asking" => asked[g] # None /\ ~Visible(asked[g])
    /\ \A g, h \in Runs : run[g] = "asking" /\ run[h] = "asking" /\ asked[g] = asked[h] => g = h
    /\ \A g \in Runs : run[g] = "asking" => status[asked[g]] # "none"

BasisInTime ==
    \A g \in Runs : basis[g] # None => basis[g] \in approvedInTime /\ about[basis[g]] = Wants[g]

\* What NoActionWithoutReview rests on: requests under review, or already used,
\* are never withdrawn by the crash of the run that asked for them.
ApprovalInv ==
    /\ TypeOK /\ UsableInTime /\ ReviewedVisible /\ AskedHidden /\ BasisInTime
    /\ NoActionWithoutReview

\* A pending request does not stay pending: somebody reviews it or it expires.
PendingSettles == \A r \in Requests : status[r] = "pending" ~> status[r] # "pending"
-------------------------------------------------------------------------------
(* What the repository says and the code does not do.                      *)

\* approvals.py:132-133: only a pending request is reviewed, so a decision is
\* never replaced by another one.
DecisionFinal ==
    [][\A r \in Requests : status[r] \in {"approved", "rejected"} => status'[r] = status[r]]_vars
===============================================================================

---------------------------- MODULE RequestPath ----------------------------
(***************************************************************************)
(* The way of a request through one API process                            *)
(* (services/api/app/main.py and middleware/): metering, tenant, address,  *)
(* rate limit, audit, the router's dependencies, the handler, the commit   *)
(* of its session, and the answer on its way back.  An HTTPException is an *)
(* answer only inside the router: raised by a middleware, like any other   *)
(* exception, it leaves the application and the client sees a 500.         *)
(***************************************************************************)
EXTENDS Naturals, FiniteSets

CONSTANTS Requests,
          Shapes,         \* what requests may look like, see Shape
          DefaultTenant,  \* is api_key_default_tenant set?
          Limit,          \* api_rate_limit
          Window,         \* steps of the clock in the 60 seconds of the limit
          MaxTime,        \* bound on the clock
          MaxFaults       \* bound on database errors and restarts

(* What the router requires, the headers, and whether the address is inside one of    *)
(* the (disjoint) networks of dashboard_allowed_cidrs; whether the handler commits by *)
(* itself before it ends, as most that change something do.  The token of a user      *)
(* without a tenant is valid, but names none.                                         *)
Shape == [needs : {"key", "token", "nothing"}, token : {"none", "valid", "untenanted", "invalid"},
          key : {"none", "valid", "invalid"}, inside : BOOLEAN, login : BOOLEAN,
          commits : BOOLEAN]

RequestAssumption ==
  /\ Shapes \subseteq Shape /\ DefaultTenant \in BOOLEAN
  /\ {Limit, Window, MaxTime, MaxFaults} \subseteq Nat

VARIABLES shape,          \* of each request that has arrived
          at,             \* how far it is
          answer,         \* the response on its way back, then what the client got
          admitted,       \* RateLimitMiddleware.requests: key and time of the requests let through
          metered,        \* the counter of each tenant
          committed,      \* requests whose session has committed
          tasks,          \* audit rows still to be written
          audited,        \* audit rows written
          lost,           \* audit rows lost to a fault (history)
          clock, faults

vars == <<shape, at, answer, admitted, metered, committed, tasks, audited, lost, clock, faults>>

Empty == [needs |-> "nothing", token |-> "none", key |-> "none", inside |-> FALSE, login |-> FALSE,
          commits |-> FALSE]
Codes == {"none", "ok", "refused", "error"}

TypeOK ==
  /\ shape \in [Requests -> Shapes \cup {Empty}]
  /\ at \in [Requests -> {"new", "limit", "router", "flushed", "returning", "done"}]
  /\ answer \in [Requests -> Codes]
  /\ admitted \subseteq [by : Requests, key : {"none", "valid", "invalid"}, time : 0..MaxTime]
  /\ metered \subseteq Requests
  /\ committed \subseteq Requests
  /\ tasks \in [Requests -> Codes] /\ audited \in [Requests -> Codes]
  /\ lost \subseteq Requests /\ clock \in 0..MaxTime /\ faults \in 0..MaxFaults

Init ==
  /\ shape = [q \in Requests |-> Empty]
  /\ at = [q \in Requests |-> "new"]
  /\ answer = [q \in Requests |-> "none"]
  /\ admitted = {} /\ metered = {} /\ committed = {}
  /\ tasks = [q \in Requests |-> "none"]
  /\ audited = [q \in Requests |-> "none"]
  /\ lost = {} /\ clock = 0 /\ faults = 0

Fault == faults < MaxFaults /\ faults' = faults + 1
Go(q, stage, code) ==
  /\ at' = [at EXCEPT ![q] = stage]
  /\ answer' = [answer EXCEPT ![q] = code]

-----------------------------------------------------------------------------
(* TenantEnforcement sets request.state.user for a valid token; the login path is exempt. *)
UserSet(s) == s.token \in {"valid", "untenanted"} /\ ~s.login

(* A tenant is found in the token or is the default of the API keys; without one a request *)
(* with a key or a token raises, one without credentials goes on.                          *)
TenantPasses(s) ==
  \/ s.login \/ s.token = "valid"
  \/ IF s.key # "none" THEN DefaultTenant ELSE s.token = "none"

(* The request is counted, for the tenant "system" as nobody has set one yet, and passes *)
(* the checks that depend on nothing but itself.                                         *)
Arrive(q, s) ==
  /\ at[q] = "new"
  /\ shape' = [shape EXCEPT ![q] = s]
  /\ metered' = metered \cup {q}
  /\ \/ ~TenantPasses(s) /\ Go(q, "done", "error")
     \/ TenantPasses(s) /\ ~s.inside /\ Go(q, "done", "refused")
     \/ TenantPasses(s) /\ s.inside /\ Go(q, "limit", "none")
  /\ UNCHANGED <<admitted, committed, tasks, audited, lost, clock, faults>>

(* RateLimit: one list per value of X-API-Key, "anonymous" without one. *)
Recent(k) == {e \in admitted : e.key = k /\ clock - e.time < Window}

RateLimit(q) ==
  LET k == shape[q].key IN
  /\ at[q] = "limit"
  /\ IF Cardinality(Recent(k)) >= Limit
       THEN Go(q, "done", "error") /\ admitted' = {e \in admitted : e.key # k} \cup Recent(k)
       ELSE /\ Go(q, "router", "none")
            /\ admitted' = {e \in admitted : e.key # k} \cup Recent(k)
                           \cup {[by |-> q, key |-> k, time |-> clock]}
  /\ UNCHANGED <<shape, metered, committed, tasks, audited, lost, clock, faults>>

(* validate_api_key or get_current_user. *)
Authenticated(s) ==
  CASE s.needs = "key" -> s.key = "valid"
    [] s.needs = "token" -> s.token \in {"valid", "untenanted"}
    [] OTHER -> TRUE

(* 401 inside the router is an ordinary answer. *)
Refuse(q) ==
  /\ at[q] = "router" /\ ~Authenticated(shape[q])
  /\ Go(q, "returning", "refused")
  /\ UNCHANGED <<shape, admitted, metered, committed, tasks, audited, lost, clock, faults>>

(* The handler returns, or raises: get_db rolls back.  HTTPException is an answer; a      *)
(* ValueError passes the audit unseen and ends as the 403 of the address check, which     *)
(* catches it around call_next; any other exception is a 500.                             *)
Handle(q) ==
  /\ at[q] = "router" /\ Authenticated(shape[q])
  /\ \/ Go(q, "flushed", "none")
     \/ Go(q, "returning", "refused")
     \/ Go(q, "done", "refused")
     \/ Go(q, "done", "error")
  /\ UNCHANGED <<shape, admitted, metered, committed, tasks, audited, lost, clock, faults>>

(* The handler commits what it has done so far; what follows may still fail. *)
CommitEarly(q) ==
  /\ at[q] = "router" /\ Authenticated(shape[q]) /\ shape[q].commits
  /\ committed' = committed \cup {q}
  /\ UNCHANGED <<shape, at, answer, admitted, metered, tasks, audited, lost, clock, faults>>

(* get_db commits before the response is sent. *)
Commit(q) ==
  /\ at[q] = "flushed"
  /\ committed' = committed \cup {q}
  /\ Go(q, "returning", "ok")
  /\ UNCHANGED <<shape, admitted, metered, tasks, audited, lost, clock, faults>>

(* Defect form: the session ends after the response has been sent. *)
CommitFailsUnseen(q) ==
  /\ at[q] = "flushed" /\ Fault
  /\ Go(q, "returning", "ok")
  /\ UNCHANGED <<shape, admitted, metered, committed, tasks, audited, lost, clock>>
CommitFails(q) ==
  /\ at[q] = "flushed" /\ Fault
  /\ Go(q, "done", "error")
  /\ UNCHANGED <<shape, admitted, metered, committed, tasks, audited, lost, clock>>

(* AuditMiddleware, on the way back.  The user it finds has no get(): the exception takes *)
(* the place of the response, whatever has been committed.  Otherwise the row is left to  *)
(* a background task.                                                                     *)
Audit(q) ==
  /\ at[q] = "returning"
  /\ IF UserSet(shape[q])
       THEN Go(q, "done", "error") /\ UNCHANGED tasks
       ELSE /\ Go(q, "done", answer[q])
            /\ tasks' = [tasks EXCEPT ![q] = answer[q]]
  /\ UNCHANGED <<shape, admitted, metered, committed, audited, lost, clock, faults>>

(* request.state.tenant_id: the login path and a request without credentials have none. *)
Tenanted(s) == ~s.login /\ (s.token = "valid" \/ s.key # "none")

(* _write_audit_log; its failure is only logged, and a row without a tenant always fails. *)
WriteAudit(q) ==
  /\ tasks[q] # "none"
  /\ tasks' = [tasks EXCEPT ![q] = "none"]
  /\ \/ /\ audited' = IF Tenanted(shape[q]) THEN [audited EXCEPT ![q] = tasks[q]] ELSE audited
        /\ UNCHANGED <<lost, faults>>
     \/ Fault /\ lost' = lost \cup {q} /\ UNCHANGED audited
  /\ UNCHANGED <<shape, at, answer, admitted, metered, committed, clock>>

(* The process restarts: what it was doing, its limits, its counters and its tasks go. *)
Restart ==
  /\ Fault
  /\ at' = [q \in Requests |-> IF at[q] = "new" THEN "new" ELSE "done"]
  /\ answer' = [q \in Requests |-> IF at[q] = "done" THEN answer[q] ELSE "none"]
  /\ admitted' = {} /\ metered' = {}
  /\ lost' = lost \cup {q \in Requests : tasks[q] # "none" \/ at[q] = "returning"}
  /\ tasks' = [q \in Requests |-> "none"]
  /\ UNCHANGED <<shape, committed, audited, clock>>

Tick == clock < MaxTime /\ clock' = clock + 1
        /\ UNCHANGED <<shape, at, answer, admitted, metered, committed, tasks, audited, lost, faults>>

Next ==
  \/ \E q \in Requests :
       \/ \E s \in Shapes : Arrive(q, s)
       \/ RateLimit(q) \/ Refuse(q) \/ Handle(q) \/ CommitEarly(q)
       \/ Commit(q) \/ CommitFails(q)
       \/ Audit(q) \/ WriteAudit(q)
  \/ Restart \/ Tick

Spec == Init /\ [][Next]_vars

-----------------------------------------------------------------------------
(* What the client, the database and the audit say of a request agree.  An answer of       *)
(* success stands for a committed session and, when the request has a tenant, an audit row *)
(* that is written, due or lost to a fault; any other answer stands for a session that     *)
(* left nothing, unless the handler commits by itself or the caller has a token, who gets  *)
(* an error for what was committed; an audit row tells the answer the client got, whatever *)
(* restarts and database errors come in between (db.py:21-31, audit.py:88-133,             *)
(* dashboard_access.py:36-47).                                                             *)
AnswersTellTruth ==
  \A q \in Requests :
    /\ at[q] = "done" /\ answer[q] = "ok" =>
         /\ q \in committed
         /\ Tenanted(shape[q]) => q \in lost \/ tasks[q] = "ok" \/ audited[q] = "ok"
    /\ at[q] = "done" /\ answer[q] \in {"refused", "error"} /\ ~UserSet(shape[q]) =>
         q \notin committed \/ shape[q].commits
    /\ audited[q] # "none" => audited[q] = answer[q]

(* Every request that changed something and got its answer has an audit row, written or    *)
(* due, unless a fault took it: docs/SECURITY-HARDENING.md:45.                             *)
EffectsAudited ==
  \A q \in committed :
    at[q] = "done" => q \in lost \/ tasks[q] # "none" \/ audited[q] # "none"
=============================================================================

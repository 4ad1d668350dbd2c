---------------------------- MODULE WazuhHealth ----------------------------
(***************************************************************************)
(* The health worker (services/worker/app/wazuh_health_worker.py): each    *)
(* cycle asks the manager four questions at once through one               *)
(* WazuhAPIConnector, whose client, token and circuit breaker the four     *)
(* share, asks the indexer two, stores a row and publishes gauges.         *)
(*                                                                         *)
(* A request remembers whether the client it uses is still the connector's *)
(* own; token and client are set and dropped together.  Credentials are    *)
(* right.  The breaker's cooling time is longer than a cycle, and each     *)
(* cycle has a fresh one.                                                  *)
(***************************************************************************)
EXTENDS Naturals, Sequences, FiniteSets

CONSTANTS Clustered,    \* does the manager run in a cluster?
          MaxCycles,    \* bound on cycles
          MaxEvents     \* bound on events of the environment

HealthAssumption == Clustered \in BOOLEAN /\ MaxCycles \in Nat /\ MaxEvents \in Nat

VARIABLES env,          \* the manager, its tokens, daemons and counts; the indexer
          events,       \* events so far
          phase,        \* where the worker is
          call,         \* the four questions
          client,       \* the connector's client
          failures,     \* failures in a row its breaker counts
          result,       \* what has been answered
          stored,       \* how many snapshots are committed
          newest,       \* the last of them
          gauges,       \* the cycle whose value each gauge shows
          ever, always, disturbed   \* history of the environment in this cycle

asking == <<call, client, failures>>
vars == <<env, events, phase, asking, result, stored, newest, gauges, ever, always, disturbed>>

Questions == {"agents", "cluster", "stats", "status"}
Gauges == 1..2          \* an earlier and a later one of the six
Threshold == 3
Error == "error"
NoClient == [set |-> FALSE, epoch |-> 0, closed |-> FALSE]
Off == [at |-> "done", path |-> 1, own |-> FALSE, epoch |-> 0, cut |-> FALSE]
Issues == {"agents_disconnected", "manager_daemon_down", "cluster_unreachable", "indexer_red",
           "indexer_yellow", "ingestion_lag", "events_dropped"}

Snapshot == [overall : {"healthy", "degraded", "unhealthy"}, issues : SUBSET Issues,
             unfounded : SUBSET Issues, missed : SUBSET Issues, disturbed : BOOLEAN]
TypeOK ==
  /\ env.up \in BOOLEAN /\ env.running \in BOOLEAN /\ env.epoch \in 0..MaxEvents
  /\ env.indexer \in {"green", "yellow", "red", Error}
  /\ events \in 0..MaxEvents
  /\ phase \in {"rest", "manager", "indexer", "store", "publish"}
  /\ \A q \in Questions : call[q].at \in {"login", "sent", "closing", "relogin", "resent", "done"}
  /\ failures \in 0..5 /\ client.closed \in BOOLEAN
  /\ stored \in 0..MaxCycles
  /\ stored > 0 => newest \in Snapshot
  /\ gauges \in [Gauges -> 0..MaxCycles]

(* What an operator would call an issue now. *)
Facts(e) ==
  { i \in Issues :
      \/ i = "agents_disconnected" /\ e.disconnected
      \/ i = "events_dropped" /\ e.dropped
      \/ i = "manager_daemon_down" /\ ~e.running
      \/ i = "cluster_unreachable" /\ ~e.up
      \/ i = "indexer_red" /\ e.indexer = "red"
      \/ i = "indexer_yellow" /\ e.indexer = "yellow"
      \/ i = "ingestion_lag" /\ e.late /\ e.indexer # Error }

Init ==
  /\ env = [up |-> TRUE, epoch |-> 0, running |-> TRUE, disconnected |-> FALSE,
            dropped |-> FALSE, indexer |-> "green", late |-> FALSE]
  /\ events = 0 /\ phase = "rest"
  /\ call = [q \in Questions |-> Off]
  /\ client = NoClient /\ failures = 0
  /\ result = <<>>
  /\ stored = 0 /\ newest = <<>> /\ gauges = [g \in Gauges |-> 0]
  /\ ever = {} /\ always = {} /\ disturbed = FALSE

-----------------------------------------------------------------------------
(* One cycle.  gather runs each question up to its first await, the login. *)
Start ==
  /\ phase = "rest" /\ stored < MaxCycles
  /\ phase' = "manager"
  /\ call' = [q \in Questions |-> [Off EXCEPT !.at = "login"]]
  /\ client' = NoClient /\ failures' = 0
  /\ result' = [q \in Questions \cup {"indexer", "lag"} |-> Error]
  /\ ever' = Facts(env) /\ always' = Facts(env) /\ disturbed' = ~env.up
  /\ UNCHANGED <<env, events, stored, newest, gauges>>

(* What an exception leaves: the breaker counts it unless it is the retry that fails. *)
Counted(q) == IF call[q].at \in {"login", "sent"} THEN failures + 1 ELSE failures
Raise(q) ==
  /\ failures' = Counted(q)
  /\ call' = [call EXCEPT ![q] = Off]
  /\ UNCHANGED <<client, result>>

(* The question goes out on the client a login has just made. *)
Send(c) == [c EXCEPT !.at = IF @ = "login" THEN "sent" ELSE "resent", !.own = TRUE,
                     !.epoch = env.epoch, !.cut = FALSE]
(* The other requests, when the connector lets go of its client; when it closes it. *)
Left(c) == [c EXCEPT !.own = FALSE]
Cut(c) == [c EXCEPT !.own = FALSE, !.cut = @ \/ c.own]

(* Defect form: a login closes the client that it replaces. *)
LogInAlone(q) ==
  /\ call[q].at \in {"login", "relogin"} /\ env.up
  /\ client' = [set |-> TRUE, epoch |-> env.epoch, closed |-> FALSE]
  /\ call' = [p \in Questions |-> IF p = q THEN Send(call[q]) ELSE Cut(call[p])]
  /\ UNCHANGED <<env, events, phase, failures, result, stored, newest, gauges>>
  /\ UNCHANGED <<ever, always, disturbed>>

(* _get_client: the last login to be answered leaves its client with the connector. *)
LogIn(q) ==
  /\ call[q].at \in {"login", "relogin"} /\ env.up
  /\ client' = [set |-> TRUE, epoch |-> env.epoch, closed |-> FALSE]
  /\ call' = [p \in Questions |-> IF p = q THEN Send(call[q]) ELSE Left(call[p])]
  /\ UNCHANGED <<env, events, phase, failures, result, stored, newest, gauges>>
  /\ UNCHANGED <<ever, always, disturbed>>

(* What an answered question tells. *)
Reading(q) ==
  CASE q = "agents"  -> IF env.disconnected THEN "many" ELSE "few"
    [] q = "stats"   -> IF env.dropped THEN "dropped" ELSE "fine"
    [] q = "status"  -> IF env.running THEN "running" ELSE "stopped"
    [] q = "cluster" -> "ok"
    [] q = "indexer" -> env.indexer
    [] q = "lag"     -> IF env.indexer = Error THEN Error ELSE IF env.late THEN "late" ELSE "fine"

InFlight(q) == call[q].at \in {"sent", "resent"}
Reached(q) == phase = "manager" /\ InFlight(q) /\ ~call[q].cut /\ env.up

(* The answer, and for a cluster the second question, on the client that is there by then. *)
Answer(q) ==
  LET again == q = "cluster" /\ Clustered /\ call[q].path = 1
      left == IF call[q].at = "sent" THEN 0 ELSE failures
      next == IF left >= Threshold THEN Off
              ELSE IF ~client.set THEN [Off EXCEPT !.at = "login", !.path = 2]
              ELSE [at |-> "sent", path |-> 2, own |-> TRUE, epoch |-> client.epoch,
                    cut |-> client.closed]
  IN  /\ Reached(q) /\ call[q].epoch = env.epoch
      /\ failures' = left
      /\ call' = [call EXCEPT ![q] = IF again THEN next ELSE Off]
      /\ result' = IF again THEN result ELSE [result EXCEPT ![q] = Reading(q)]
      /\ UNCHANGED <<env, events, phase, client, stored, newest, gauges, ever, always, disturbed>>

(* 401: _reauthenticate begins to close the client, and with it every request on it. *)
Unauthorized(q) ==
  /\ Reached(q) /\ call[q].epoch # env.epoch
  /\ IF call[q].at = "resent" THEN Raise(q)
     ELSE /\ failures' = failures + 1
          /\ client' = [client EXCEPT !.closed = client.set]
          /\ call' = [p \in Questions |->
               IF p = q THEN [Off EXCEPT !.at = IF client.set THEN "closing" ELSE "relogin",
                                         !.path = call[q].path]
               ELSE Cut(call[p])]
          /\ UNCHANGED result
  /\ UNCHANGED <<env, events, phase, stored, newest, gauges, ever, always, disturbed>>

(* close returns, and drops whatever client the connector has by then. *)
Closed(q) ==
  /\ call[q].at = "closing"
  /\ client' = NoClient
  /\ call' = [p \in Questions |->
       IF p = q THEN [call[q] EXCEPT !.at = "relogin"] ELSE Left(call[p])]
  /\ UNCHANGED <<env, events, phase, failures, result, stored, newest, gauges>>
  /\ UNCHANGED <<ever, always, disturbed>>

(* The manager is down, or the client was closed under the request. *)
Fails(q) ==
  /\ \/ call[q].at \in {"login", "relogin"} /\ ~env.up
     \/ InFlight(q) /\ (call[q].cut \/ ~env.up)
  /\ Raise(q)
  /\ UNCHANGED <<env, events, phase, stored, newest, gauges, ever, always, disturbed>>

(* All four have returned; the connector is closed. *)
Gathered ==
  /\ phase = "manager" /\ \A q \in Questions : call[q].at = "done"
  /\ phase' = "indexer" /\ client' = NoClient
  /\ UNCHANGED <<env, events, call, failures, result, stored, newest, gauges, ever, always,
                 disturbed>>

(* cluster_health and ingestion_lag_seconds; the client is made without waiting. *)
AskIndexer ==
  /\ phase = "indexer" /\ phase' = "store"
  /\ result' = [result EXCEPT !["indexer"] = Reading("indexer"), !["lag"] = Reading("lag")]
  /\ UNCHANGED <<env, events, asking, stored, newest, gauges, ever, always, disturbed>>

-----------------------------------------------------------------------------
(* _evaluate: a question about daemons that failed counts as a stopped daemon, one about *)
(* the cluster as unreachable, the others as nothing to report.                          *)
_evaluate(r) ==
  { i \in Issues :
      \/ i = "agents_disconnected" /\ r["agents"] = "many"
      \/ i = "manager_daemon_down" /\ r["status"] # "running"
      \/ i = "cluster_unreachable" /\ r["cluster"] = Error
      \/ i = "indexer_red" /\ r["indexer"] = "red"
      \/ i = "indexer_yellow" /\ r["indexer"] = "yellow"
      \/ i = "ingestion_lag" /\ r["lag"] = "late"
      \/ i = "events_dropped" /\ r["stats"] = "dropped" }

Overall(issues) ==
  IF issues \cap {"manager_daemon_down", "indexer_red"} # {} THEN "unhealthy"
  ELSE IF issues # {} THEN "degraded" ELSE "healthy"

(* The connector and the answers of a cycle end with it. *)
Forget ==
  /\ call' = [q \in Questions |-> Off] /\ client' = NoClient /\ failures' = 0
  /\ result' = <<>>
  /\ ever' = {} /\ always' = {} /\ disturbed' = FALSE

Store ==
  /\ phase = "store" /\ phase' = "publish"
  /\ stored' = stored + 1
  /\ newest' = LET issues == _evaluate(result) IN
       [overall |-> Overall(issues), issues |-> issues, unfounded |-> issues \ ever,
        missed |-> always \ issues, disturbed |-> disturbed]
  /\ Forget
  /\ UNCHANGED <<env, events, gauges>>

(* The first gauge that is not yet this cycle's; Redis may fail, which ends the publishing. *)
Behind == {g \in Gauges : gauges[g] # stored}
Publish ==
  /\ phase = "publish" /\ Behind # {}
  /\ gauges' = [gauges EXCEPT ![CHOOSE g \in Behind : \A h \in Behind : g <= h] = stored]
  /\ UNCHANGED <<env, events, phase, asking, result, stored, newest, ever, always, disturbed>>
EndPublishing ==
  /\ phase = "publish" /\ phase' = "rest"
  /\ UNCHANGED <<env, events, asking, result, stored, newest, gauges, ever, always, disturbed>>

(* The database fails, or the worker restarts: the cycle is lost. *)
Lose ==
  /\ phase # "rest" /\ events < MaxEvents /\ events' = events + 1
  /\ phase' = "rest"
  /\ Forget
  /\ UNCHANGED <<env, stored, newest, gauges>>

(* GET /wazuh/environment: the newest row. *)
Environment == IF stored = 0 THEN <<>> ELSE <<newest>>

-----------------------------------------------------------------------------
(* The environment changes; a token is revoked; a request is lost. *)
Happens(e) ==
  /\ events < MaxEvents /\ events' = events + 1
  /\ env' = e /\ e # env
  /\ IF result = <<>> THEN UNCHANGED <<ever, always, disturbed>>
     ELSE /\ ever' = ever \cup Facts(e) /\ always' = always \cap Facts(e)
          /\ disturbed' = (disturbed \/ ~e.up \/ e.epoch # env.epoch)
  /\ UNCHANGED <<phase, asking, result, stored, newest, gauges>>

Change ==
  \/ Happens([env EXCEPT !.up = ~@]) \/ Happens([env EXCEPT !.epoch = @ + 1])
  \/ Happens([env EXCEPT !.running = ~@]) \/ Happens([env EXCEPT !.disconnected = ~@])
  \/ Happens([env EXCEPT !.dropped = ~@]) \/ Happens([env EXCEPT !.late = ~@])
  \/ \E s \in {"green", "yellow", "red", Error} : Happens([env EXCEPT !.indexer = s])

TimesOut(q) ==
  /\ InFlight(q) \/ call[q].at \in {"login", "relogin"}
  /\ events < MaxEvents /\ events' = events + 1
  /\ disturbed' = TRUE
  /\ Raise(q)
  /\ UNCHANGED <<env, phase, stored, newest, gauges, ever, always>>

Next ==
  \/ Start \/ Gathered \/ AskIndexer \/ Store \/ Publish \/ EndPublishing \/ Lose \/ Change
  \/ \E q \in Questions :
       phase = "manager" /\ (LogIn(q) \/ Answer(q) \/ Unauthorized(q) \/ Closed(q) \/ Fails(q)
                             \/ TimesOut(q))

Spec == Init /\ [][Next]_vars

-----------------------------------------------------------------------------
(* The row explains the cycle: an issue in it held at some moment of the cycle, unless a  *)
(* request was disturbed and the issue is that the manager cannot be asked; an issue that *)
(* held all the time is in it, a stopped daemon in any case, counts of agents and events  *)
(* unless a request was disturbed.  So four questions that share a client and a breaker   *)
(* do not disturb each other of themselves.  And no gauge is ahead of the rows or of the  *)
(* gauges published before it (wazuh_health_worker.py:80-90, 146-188; wazuh_api.py:31-65).*)
SnapshotsTellTruth ==
  /\ Environment # <<>> =>
       LET r == Environment[1] IN
       /\ r.unfounded \subseteq
            IF r.disturbed THEN {"manager_daemon_down", "cluster_unreachable"} ELSE {}
       /\ r.missed \subseteq
            IF r.disturbed THEN {"agents_disconnected", "events_dropped", "cluster_unreachable"}
            ELSE {}
  /\ \A g \in Gauges : gauges[g] <= stored /\ \A h \in 1..g : gauges[g] <= gauges[h]
=============================================================================

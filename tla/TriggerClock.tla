---------------------------- MODULE TriggerClock ----------------------------
(***************************************************************************)
(* The cron triggers (services/worker/app/trigger_worker.py): each trigger *)
(* worker checks every 30 seconds which triggers match the minute, fires   *)
(* each at most once per minute, and spawns an agent run for it, creating  *)
(* the agent's definition if it is the first.  The workers share nothing   *)
(* but the database.                                                       *)
(*                                                                         *)
(* A minute is one step of the clock, an hour is Hour of them; a cron      *)
(* expression has a minute and an hour field, the others being "*".        *)
(***************************************************************************)
EXTENDS Naturals, FiniteSets

CONSTANTS Triggers,     \* the entries of triggers_cron
          AgentOf,      \* agent type of each
          Expr,         \* cron expression of each: [minute |-> field, hour |-> field]
          Replicas,     \* trigger workers
          Hour,         \* minutes of an hour
          MaxMinute,    \* bound on the clock
          MaxFaults     \* bound on slow checks, database errors and crashes

(* A field of an expression: "*", a step over a range, a list of values and ranges, or *)
(* a list that holds a step.                                                           *)
Range == Nat \X Nat
Stepped == [over : Range, by : Nat]
Field == [kind : {"any"}] \cup [kind : {"step"}, over : Range, by : Nat]
           \cup [kind : {"list"}, of : SUBSET Range] \cup [kind : {"mixed"}, items : SUBSET Stepped]

TriggerAssumption ==
  /\ Hour \in Nat \ {0} /\ MaxMinute \in Nat /\ MaxFaults \in Nat
  /\ DOMAIN AgentOf = Triggers
  /\ DOMAIN Expr = Triggers /\ \A t \in Triggers : Expr[t].minute \in Field /\ Expr[t].hour \in Field
  /\ IsFiniteSet(Replicas) /\ Replicas # {}

VARIABLES minute,       \* the current minute
          checks,       \* checks of each replica in this minute
          todo,         \* triggers its check has still to fire
          lastFired,    \* _last_fired of each replica
          firing,       \* the trigger being spawned: looked up, or none
          definedAt,    \* minute in which an agent's definition was committed
          spawned,      \* committed runs per trigger and minute
          restarts,     \* restarts of replicas (history)
          faults        \* faults so far

vars == <<minute, checks, todo, lastFired, firing, definedAt, spawned, restarts, faults>>

Never == MaxMinute + 1
Minutes == 0..MaxMinute
Agents == {AgentOf[t] : t \in Triggers}
Slots == Triggers \X Minutes
NoTrigger == [on |-> FALSE, trigger |-> CHOOSE t \in Triggers : TRUE, found |-> FALSE]

TypeOK ==
  /\ minute \in Minutes
  /\ checks \in [Replicas -> 0..2]
  /\ todo \in [Replicas -> SUBSET Triggers]
  /\ lastFired \in [Replicas -> [Triggers -> Minutes \cup {Never}]]
  /\ firing \in [Replicas -> [on : BOOLEAN, trigger : Triggers, found : BOOLEAN]]
  /\ definedAt \in [Agents -> Minutes \cup {Never}]
  /\ spawned \in [Slots -> Nat]
  /\ restarts \in Nat /\ faults \in 0..MaxFaults

Init ==
  /\ minute = 0
  /\ checks = [p \in Replicas |-> 0]
  /\ todo = [p \in Replicas |-> {}]
  /\ lastFired = [p \in Replicas |-> [t \in Triggers |-> Never]]
  /\ firing = [p \in Replicas |-> NoTrigger]
  /\ definedAt = [a \in Agents |-> Never]
  /\ spawned = [r \in Slots |-> 0]
  /\ restarts = 0 /\ faults = 0

Fault == faults < MaxFaults /\ faults' = faults + 1

-----------------------------------------------------------------------------
InRange(v, range) == range[1] <= v /\ v <= range[2]

(* Defect form: a step over a range counts from zero. *)
MatchFromZero(field, v) ==
  CASE field.kind = "any"   -> TRUE
    [] field.kind = "step"  -> InRange(v, field.over) /\ v % field.by = 0
    [] field.kind = "list"  -> \E range \in field.of : InRange(v, range)
    [] field.kind = "mixed" -> FALSE
(* _cron_matches: a list that holds a step fails to parse, and so matches nothing. *)
Match(field, v) ==
  CASE field.kind = "any"   -> TRUE
    [] field.kind = "step"  -> field.by # 0 /\ InRange(v, field.over)
                                 /\ (v - field.over[1]) % field.by = 0
    [] field.kind = "list"  -> \E range \in field.of : InRange(v, range)
    [] field.kind = "mixed" -> FALSE

Matches(t, m) == Match(Expr[t].minute, m % Hour) /\ Match(Expr[t].hour, m \div Hour)

(* Defect form: a trigger fires at each of the checks of a minute. *)
DueEachCheck(p, t) == Matches(t, minute)
(* Not yet fired by this replica in this minute. *)
Due(p, t) == Matches(t, minute) /\ lastFired[p][t] # minute

Idle(p) == todo[p] = {} /\ ~firing[p].on

(* A check: every 30 seconds, so at least once and at most twice in a minute. *)
Check(p) ==
  /\ Idle(p) /\ checks[p] < 2
  /\ checks' = [checks EXCEPT ![p] = @ + 1]
  /\ todo' = [todo EXCEPT ![p] = {t \in Triggers : Due(p, t)}]
  /\ UNCHANGED <<minute, lastFired, firing, definedAt, spawned, restarts, faults>>

(* The trigger is marked as fired before anything is stored, and its definition is *)
(* looked up.                                                                      *)
Fire(p, t) ==
  /\ t \in todo[p] /\ ~firing[p].on
  /\ todo' = [todo EXCEPT ![p] = @ \ {t}]
  /\ lastFired' = [lastFired EXCEPT ![p][t] = minute]
  /\ firing' = [firing EXCEPT ![p] =
       [on |-> TRUE, trigger |-> t, found |-> definedAt[AgentOf[t]] # Never]]
  /\ UNCHANGED <<minute, checks, definedAt, spawned, restarts, faults>>

Store(p) ==
  LET t == firing[p].trigger
  IN /\ spawned' = [spawned EXCEPT ![<<t, minute>>] = @ + 1]
     /\ definedAt' = [definedAt EXCEPT ![AgentOf[t]] = IF @ = Never THEN minute ELSE @]

(* The run is committed; a definition that another replica committed meanwhile     *)
(* violates the unique name, and the run of this minute is given up.               *)
SpawnRun(p) ==
  /\ firing[p].on
  /\ IF firing[p].found \/ definedAt[AgentOf[firing[p].trigger]] = Never
     THEN Store(p)
     ELSE UNCHANGED <<spawned, definedAt>>
  /\ firing' = [firing EXCEPT ![p] = NoTrigger]
  /\ UNCHANGED <<minute, checks, todo, lastFired, restarts, faults>>

(* A database error is logged; the trigger stays marked. *)
SpawnFails(p) ==
  /\ firing[p].on /\ Fault
  /\ firing' = [firing EXCEPT ![p] = NoTrigger]
  /\ UNCHANGED <<minute, checks, todo, lastFired, definedAt, spawned, restarts>>

(* A replica restarts and has forgotten what it fired. *)
Restart(p) ==
  /\ Fault
  /\ restarts' = restarts + 1
  /\ todo' = [todo EXCEPT ![p] = {}]
  /\ firing' = [firing EXCEPT ![p] = NoTrigger]
  /\ lastFired' = [lastFired EXCEPT ![p] = [t \in Triggers |-> Never]]
  /\ checks' = [checks EXCEPT ![p] = 0]
  /\ UNCHANGED <<minute, definedAt, spawned>>

(* The minute ends after a check of every replica, unless one is held up. *)
Tick ==
  /\ minute < MaxMinute
  /\ \A p \in Replicas : Idle(p)
  /\ IF \A p \in Replicas : checks[p] > 0 THEN UNCHANGED faults ELSE Fault
  /\ minute' = minute + 1
  /\ checks' = [p \in Replicas |-> 0]
  /\ UNCHANGED <<todo, lastFired, firing, definedAt, spawned, restarts>>

Next ==
  \/ Tick
  \/ \E p \in Replicas : \/ Check(p) \/ SpawnRun(p) \/ SpawnFails(p) \/ Restart(p)
                         \/ \E t \in Triggers : Fire(p, t)

Spec == Init /\ [][Next]_vars

-----------------------------------------------------------------------------
(* What a cron expression names, by the parser's own docstring: "*", values, ranges *)
(* and steps, here also in lists (trigger_worker.py:46-48).                         *)
Named(field) ==
  LET all == 0..MaxMinute
      stepped(range, by) == {v \in all : \E k \in 0..MaxMinute : v = range[1] + k * by
                                                                   /\ v <= range[2]}
  IN CASE field.kind = "any"   -> all
       [] field.kind = "step"  -> IF field.by = 0 THEN {} ELSE stepped(field.over, field.by)
       [] field.kind = "list"  -> UNION {r[1]..r[2] : r \in field.of}
       [] field.kind = "mixed" -> UNION {stepped(i.over, i.by) : i \in field.items}
NamedMinute(t, m) == m % Hour \in Named(Expr[t].minute) /\ m \div Hour \in Named(Expr[t].hour)
Parses(t) == Expr[t].minute.kind # "mixed" /\ Expr[t].hour.kind # "mixed"

(* A trigger fires only in the minutes its expression names, and at most once per   *)
(* replica and minute, but for a restart, which forgets (trigger_worker.py:297-302).*)
(* And every minute it names has a run, unless a fault took it, or the minute is    *)
(* the one in which the definition of its agent was created: two triggers of one    *)
(* agent race for it and the loser's run is given up (173-192).                     *)
FiresAsNamed ==
  \A t \in Triggers : \A m \in Minutes :
    /\ spawned[<<t, m>>] > 0 => NamedMinute(t, m)
    /\ spawned[<<t, m>>] <= Cardinality(Replicas) + restarts
    /\ (m < minute /\ Parses(t) /\ NamedMinute(t, m) /\ faults = 0)
         => spawned[<<t, m>>] > 0 \/ definedAt[AgentOf[t]] = m
=============================================================================

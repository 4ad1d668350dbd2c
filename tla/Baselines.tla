----------------------------- MODULE Baselines -----------------------------
(***************************************************************************)
(* The running statistics of one subject and metric                        *)
(* (shared/ueba/baseline.py, detector.py) under concurrent triage workers. *)
(* A triaged alert is observed twice: by the enrichment, in the            *)
(* transaction of the verdict, and again after its commit, in one that is  *)
(* committed only if an anomaly or a playbook needs it.                    *)
(*                                                                         *)
(* The rule level is "low" or "high"; a mean is one of them or "between",  *)
(* and m2 is zero or positive.  z is compared after the observation joined *)
(* the statistics, so z*z <= (n-1)*(n-1)/n whatever m2 was, and z >= 2.0   *)
(* needs n >= 6.  The metric alert_count always observes 1.0 and deviates  *)
(* never, so it is left out.                                               *)
(***************************************************************************)
EXTENDS Naturals, Sequences, FiniteSets

CONSTANTS Workers,      \* triage consumers
          MaxPasses     \* bound on the triages of alerts about the subject

BaselineAssumption == MaxPasses \in Nat /\ IsFiniteSet(Workers)

VARIABLES rows,         \* ueba_baselines: no unique key keeps it to one
          session,      \* what each worker is doing
          passes,       \* triages so far
          levels,       \* levels seen so far (history)
          anomalies     \* ueba_anomalies: what was behind each (history)

vars == <<rows, session, passes, levels, anomalies>>

Levels == {"low", "high"}
Baseline == [n : Nat, mean : Levels \cup {"between", "zero"}, spread : BOOLEAN]
Anomaly == [passes : 0..MaxPasses, levels : SUBSET Levels]
NoBaseline == [n |-> 0, mean |-> "zero", spread |-> FALSE]
Idle == [at |-> "idle"]

TypeOK ==
  /\ rows \in Seq(Baseline)
  /\ \A w \in Workers : session[w].at \in {"idle", "observing", "pending", "held"}
  /\ passes \in 0..MaxPasses /\ levels \subseteq Levels
  /\ anomalies \subseteq Anomaly

Init ==
  /\ rows = <<>>
  /\ session = [w \in Workers |-> Idle]
  /\ passes = 0 /\ levels = {}
  /\ anomalies = {}

(* update_baseline: n grows; mean and m2 change unless the mean was observed. *)
Updated(b, x) ==
  [n |-> b.n + 1,
   mean |-> IF b.n = 0 \/ b.mean = x THEN x ELSE "between",
   spread |-> b.spread \/ (b.n > 0 /\ b.mean # x)]

(* Defect form: the deviation from the mean before the observation, which no n bounds. *)
DeviatesBefore(b, x) == b.n >= 3 /\ b.spread /\ x = "high" /\ b.mean # x
(* compute_z_score >= 2.0 is possible: never with a deviation of zero. *)
Deviates(b, x) == b.n >= 6 /\ b.spread /\ x = "high" /\ b.mean # x

-----------------------------------------------------------------------------
(* A worker takes an alert about the subject. *)
Take(w, x) ==
  /\ session[w] = Idle /\ passes < MaxPasses
  /\ passes' = passes + 1
  /\ levels' = levels \cup {x}
  /\ session' = [session EXCEPT ![w] = [at |-> "observing", x |-> x, second |-> FALSE]]
  /\ UNCHANGED <<rows, anomalies>>

(* What follows an observation that left nothing to commit: the verdict commits and  *)
(* the second observation begins, or the pass is over.                               *)
Onwards(s) == IF s.second THEN Idle ELSE [at |-> "observing", x |-> s.x, second |-> TRUE]

(* The SELECT and the update in memory.  The enrichment may time out between them   *)
(* and the anomaly: the update stays in the session.                                *)
Observe(w) ==
  LET s == session[w]
      old == IF rows = <<>> THEN NoBaseline ELSE rows[1]
      new == Updated(old, s.x)
  IN  /\ s.at = "observing" /\ Len(rows) <= 1
      /\ \E z \in {FALSE, Deviates(new, s.x)} :
           session' = [session EXCEPT ![w] =
             [at |-> "pending", x |-> s.x, second |-> s.second, target |-> Len(rows),
              old |-> old, new |-> new, anomaly |-> z]]
      /\ UNCHANGED <<rows, passes, levels, anomalies>>

(* Two rows: scalar_one_or_none raises, the error is caught and nothing is observed. *)
ObserveRaises(w) ==
  /\ session[w].at = "observing" /\ Len(rows) > 1
  /\ session' = [session EXCEPT ![w] = Onwards(session[w])]
  /\ UNCHANGED <<rows, passes, levels, anomalies>>

(* The flush: an INSERT, or an UPDATE that takes the row lock until the commit. *)
Flush(w) ==
  /\ session[w].at = "pending"
  /\ session[w].target > 0 =>
       \A v \in Workers : session[v].at = "held" => session[v].target = 0
  /\ session' = [session EXCEPT ![w].at = "held"]
  /\ UNCHANGED <<rows, passes, levels, anomalies>>

(* The columns that differ from what was read are written over the row. *)
Over(row, s) ==
  [n |-> s.new.n,
   mean |-> IF s.new.mean # s.old.mean THEN s.new.mean ELSE row.mean,
   spread |-> row.spread \/ s.new.spread]

(* The verdict commits; or, the second time, an anomaly or a playbook does. *)
Commit(w) ==
  LET s == session[w] IN
  /\ s.at = "held"
  /\ rows' = IF s.target = 0 THEN Append(rows, s.new)
                             ELSE [rows EXCEPT ![s.target] = Over(@, s)]
  /\ anomalies' = anomalies \cup
       (IF s.anomaly THEN {[passes |-> passes, levels |-> levels]} ELSE {})
  /\ session' = [session EXCEPT ![w] = Onwards(s)]
  /\ UNCHANGED <<passes, levels>>

(* The triage fails, the worker dies, or the second session ends without a commit. *)
Rollback(w) ==
  /\ session[w].at \in {"pending", "held"}
  /\ session' = [session EXCEPT ![w] = Idle]
  /\ UNCHANGED <<rows, passes, levels, anomalies>>

Next ==
  \E w \in Workers :
    \/ \E x \in Levels : Take(w, x)
    \/ Observe(w) \/ ObserveRaises(w) \/ Flush(w) \/ Commit(w) \/ Rollback(w)

Spec == Init /\ [][Next]_vars

-----------------------------------------------------------------------------
(* An anomaly is never drawn from thin air: whatever passes overlap, overwrite each    *)
(* other, roll back or observe an alert twice, at least three triages of the subject   *)
(* with both levels lie behind it, a baseline never counts more than two observations  *)
(* per triage, and there are never more rows than workers that began together          *)
(* (baseline.py:24-51, detector.py:37-99).                                             *)
AnomaliesNeedHistory ==
  /\ \A a \in anomalies : a.passes >= 3 /\ a.levels = Levels
  /\ \A i \in 1..Len(rows) : rows[i].n <= 2 * passes
  /\ Len(rows) <= Cardinality(Workers)
=============================================================================

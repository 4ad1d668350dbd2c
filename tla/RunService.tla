----------------------------- MODULE RunService -----------------------------
(***************************************************************************)
(* What an agent run promises to the API: a run is asked for, stays        *)
(* pending, may be shown running, and ends at most once.  The results of   *)
(* its tasks only grow, and a result that was shown stands.  A run that is *)
(* completed has a result for each task of its definition, each of them on *)
(* its own; one that failed met a group of parallel tasks.                 *)
(***************************************************************************)
EXTENDS Naturals, Sequences

CONSTANTS Runs,      \* runs that may be asked for
          Config     \* sizes of the task groups of each run's definition

VARIABLES status,    \* of each run
          results    \* of its tasks

Ended == {"completed", "failed"}

(* The results of the groups before g, if each of them is a single task. *)
Reached(r, g) == {t \in [1..g - 1 -> Ended] : \A k \in 1..g - 1 : Config[r][k] = 1}

(* t followed by n tasks that were begun and have no result. *)
Begun(t, n) == t \o [i \in 1..n |-> "running"]

(* The results in old stand in new. *)
Stand(old, new) == \A i \in 1..Len(old) : old[i] \in Ended => i <= Len(new) /\ new[i] = old[i]

Init ==
  /\ status = [r \in Runs |-> "none"]
  /\ results = [r \in Runs |-> <<>>]

Ask(r) ==
  /\ status[r] = "none"
  /\ status' = [status EXCEPT ![r] = "pending"]
  /\ UNCHANGED results

Open(r) == status[r] \in {"pending", "running"}

Become(r, s, t) ==
  /\ Stand(results[r], t)
  /\ status' = [status EXCEPT ![r] = s]
  /\ results' = [results EXCEPT ![r] = t]

Show(r) ==
  /\ Open(r)
  /\ \E g \in 1..Len(Config[r]) : \E t \in Reached(r, g) : Become(r, "running", Begun(t, 1))

Complete(r) ==
  /\ Open(r)
  /\ \E t \in Reached(r, Len(Config[r]) + 1) : Become(r, "completed", t)

Fail(r) ==
  /\ Open(r)
  /\ \E g \in 1..Len(Config[r]) : \E t \in Reached(r, g) : \E n \in 0..Config[r][g] :
       Config[r][g] > 1 /\ Become(r, "failed", Begun(t, n))

Next == \E r \in Runs : Ask(r) \/ Show(r) \/ Complete(r) \/ Fail(r)

Spec == Init /\ [][Next]_<<status, results>>
=============================================================================

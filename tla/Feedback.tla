------------------------------ MODULE Feedback ------------------------------
(***************************************************************************)
(* The ratings of one triage result: POST /triage/{id}/feedback            *)
(* (services/api/app/routers/triage.py) by concurrent analysts, and the    *)
(* feedback workers that count them per model                              *)
(* (services/worker/app/feedback_worker.py).                               *)
(*                                                                         *)
(* The SELECT of the average first flushes the new row and the new count,  *)
(* and the UPDATE of the count locks the triage row until the commit: from *)
(* then on no other handler can add a row.                                 *)
(***************************************************************************)
EXTENDS Naturals, Sequences, FiniteSets, Functions

CONSTANTS Ratings,      \* feedback requests
          Values,       \* ratings, 1..5 at most
          Workers,      \* feedback workers, one per worker process
          MaxFaults     \* bound on failed requests, failed pushes and crashes

FeedbackAssumption == Values \subseteq 1..5 /\ MaxFaults \in Nat

VARIABLES at,           \* how far each request is
          rating,       \* its rating, 0 before it is sent
          triage,       \* the committed row: feedback_count and avg_rating
          seen,         \* the row each request has read
          average,      \* the average each request has selected
          unwritten,    \* the last commit left avg_rating as it had read it (history)
          queue,        \* feedback_queue
          counted,      \* the ratings each worker has in memory
          lost,         \* ratings that were pushed or due and no worker counts (history)
          faults        \* faults so far

vars == <<at, rating, triage, seen, average, unwritten, queue, counted, lost, faults>>

(* A mean is a sum and a number; without rows it is the NULL of the column. *)
Null == [sum |-> 0, of |-> 0]
Mean(R) == [sum |-> SumFunction([f \in R |-> rating[f]]), of |-> Cardinality(R)]
SameMean(a, b) == a.of > 0 /\ b.of > 0 /\ a.sum * b.of = b.sum * a.of

NothingRead == [count |-> 0, avg |-> Null]

Stored == {f \in Ratings : at[f] \in {"committed", "done"}}
Fault == faults < MaxFaults /\ faults' = faults + 1

MeanType == [sum : Nat, of : Nat]
Triage == [count : 0..Cardinality(Ratings), avg : MeanType]
TypeOK ==
  /\ at \in [Ratings -> {"new", "read", "flushed", "committed", "done", "failed"}]
  /\ rating \in [Ratings -> Values \cup {0}]
  /\ triage \in Triage
  /\ \A f \in Ratings : seen[f].count \in Nat /\ average[f] \in MeanType
  /\ unwritten \in BOOLEAN
  /\ queue \in Seq(Ratings) /\ counted \in [Workers -> SUBSET Ratings]
  /\ lost \subseteq Ratings /\ faults \in 0..MaxFaults

Init ==
  /\ at = [f \in Ratings |-> "new"]
  /\ rating = [f \in Ratings |-> 0]
  /\ triage = [count |-> 0, avg |-> Null]
  /\ seen = [f \in Ratings |-> NothingRead]
  /\ average = [f \in Ratings |-> Null]
  /\ unwritten = FALSE
  /\ queue = <<>>
  /\ counted = [w \in Workers |-> {}]
  /\ lost = {} /\ faults = 0

-----------------------------------------------------------------------------
(* The request, past the rate limit of its analyst, reads the triage row. *)
Submit(f) ==
  /\ at[f] = "new"
  /\ \E v \in Values : rating' = [rating EXCEPT ![f] = v]
  /\ seen' = [seen EXCEPT ![f] = triage]
  /\ at' = [at EXCEPT ![f] = "read"]
  /\ UNCHANGED <<triage, average, unwritten, queue, counted, lost, faults>>

(* The session of a request ends. *)
Forget(f) ==
  /\ seen' = [seen EXCEPT ![f] = NothingRead]
  /\ average' = [average EXCEPT ![f] = Null]

Unlocked == \A f \in Ratings : at[f] # "flushed"

(* Defect form: the average is selected before the flush and its lock. *)
FlushUnlocked(f) ==
  /\ at[f] = "read"
  /\ average' = [average EXCEPT ![f] = Mean(Stored \cup {f})]
  /\ at' = [at EXCEPT ![f] = "flushed"]
  /\ UNCHANGED <<rating, triage, seen, unwritten, queue, counted, lost, faults>>
(* The flush locks the triage row; the average is over the committed rows and the own one. *)
Flush(f) ==
  /\ at[f] = "read" /\ Unlocked
  /\ average' = [average EXCEPT ![f] = Mean(Stored \cup {f})]
  /\ at' = [at EXCEPT ![f] = "flushed"]
  /\ UNCHANGED <<rating, triage, seen, unwritten, queue, counted, lost, faults>>

(* avg_rating, a DECIMAL(3,2), equals the rounded float it is compared with only when *)
(* the mean is a quarter; then the ORM sees no change against what it has read, and   *)
(* leaves the column out of the UPDATE.                                               *)
NotDirty(old, new) == SameMean(old, new) /\ (4 * new.sum) % new.of = 0

Commit(f) ==
  /\ at[f] = "flushed"
  /\ LET same == NotDirty(seen[f].avg, average[f])
     IN  /\ triage' = [count |-> seen[f].count + 1,
                       avg |-> IF same THEN triage.avg ELSE average[f]]
         /\ unwritten' = same
  /\ at' = [at EXCEPT ![f] = "committed"]
  /\ Forget(f)
  /\ UNCHANGED <<rating, queue, counted, lost, faults>>

(* The request fails before its commit and rolls back. *)
Fail(f) ==
  /\ at[f] \in {"read", "flushed"} /\ Fault
  /\ at' = [at EXCEPT ![f] = "failed"]
  /\ rating' = [rating EXCEPT ![f] = 0]
  /\ Forget(f)
  /\ UNCHANGED <<triage, unwritten, queue, counted, lost>>

(* The push after the commit; its failure, or a crash before it, is only logged. *)
Push(f) ==
  /\ at[f] = "committed"
  /\ at' = [at EXCEPT ![f] = "done"]
  /\ \/ queue' = <<f>> \o queue /\ UNCHANGED <<lost, faults>>
     \/ Fault /\ lost' = lost \cup {f} /\ UNCHANGED queue
  /\ UNCHANGED <<rating, triage, seen, average, unwritten, counted>>

(* process_message: the rating joins the list of its model, in this process only. *)
Count(w) ==
  /\ queue # <<>>
  /\ LET f == queue[Len(queue)] IN
       \/ counted' = [counted EXCEPT ![w] = @ \cup {f}] /\ UNCHANGED <<lost, faults>>
       \/ Fault /\ lost' = lost \cup {f} /\ UNCHANGED counted
  /\ queue' = SubSeq(queue, 1, Len(queue) - 1)
  /\ UNCHANGED <<at, rating, triage, seen, average, unwritten>>

(* A worker process restarts with empty lists. *)
Restart(w) ==
  /\ counted[w] # {} /\ Fault
  /\ lost' = lost \cup counted[w]
  /\ counted' = [counted EXCEPT ![w] = {}]
  /\ UNCHANGED <<at, rating, triage, seen, average, unwritten, queue>>

Work == (\E f \in Ratings : Flush(f) \/ Commit(f) \/ Push(f)) \/ (\E w \in Workers : Count(w))

Next ==
  \/ \E f \in Ratings : Submit(f) \/ Flush(f) \/ Commit(f) \/ Fail(f) \/ Push(f)
  \/ \E w \in Workers : Count(w) \/ Restart(w)

Spec == Init /\ [][Next]_vars /\ WF_vars(Work)

-----------------------------------------------------------------------------
(* avg_rating is the mean of all committed ratings, whatever analysts overlap, unless   *)
(* the last commit found its mean equal to the one it had read and left the column to   *)
(* an earlier commit; feedback_count, written over what was read, may only lag; and a   *)
(* rating is counted by one worker at most (triage.py:183-220, feedback_worker.py:34-70).*)
AverageIsComplete ==
  /\ Stored # {} /\ ~unwritten => SameMean(triage.avg, Mean(Stored))
  /\ triage.count <= Cardinality(Stored)
  /\ \A v, w \in Workers : v # w => counted[v] \cap counted[w] = {}

(* Every rating that was committed is counted by a worker, or lost to a fault. *)
RatingsCounted ==
  \A f \in Ratings : at[f] = "committed" ~> (f \in lost \/ \E w \in Workers : f \in counted[w])
=============================================================================

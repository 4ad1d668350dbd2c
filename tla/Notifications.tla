--------------------------- MODULE Notifications ---------------------------
(***************************************************************************)
(* The notification worker (services/worker/app/notification_worker.py)    *)
(* and its four connectors: jobs that playbooks push on notification_queue *)
(* are popped, sent once, and put on notification_dlq when that fails.     *)
(* Nothing reads that list again.  Message layout is left out.             *)
(***************************************************************************)
EXTENDS Naturals, Sequences

CONSTANTS Jobs,         \* notification jobs
          Unknown,      \* those whose channel no connector serves
          Notifiers,    \* notification workers, one per worker process
          MaxFaults     \* bound on failed sends, Redis errors and crashes

Free == "free"          \* in the hand of a worker that has popped nothing

NotificationAssumption == Unknown \subseteq Jobs /\ Free \notin Jobs /\ MaxFaults \in Nat

VARIABLES queue,        \* notification_queue: pushed at the head, popped at the end
          hand,         \* the job each worker has popped
          failing,      \* whether its send has failed and the dead letter is due
          reached,      \* how often each job reached its recipients (history)
          dead,         \* how often it was put on notification_dlq
          lost,         \* jobs that left the queue and have no trace (history)
          faults        \* faults so far

vars == <<queue, hand, failing, reached, dead, lost, faults>>

TypeOK ==
  /\ queue \in Seq(Jobs)
  /\ hand \in [Notifiers -> Jobs \cup {Free}]
  /\ failing \in [Notifiers -> BOOLEAN]
  /\ reached \in [Jobs -> Nat] /\ dead \in [Jobs -> Nat]
  /\ lost \subseteq Jobs
  /\ faults \in 0..MaxFaults

Init ==
  /\ queue = <<>>
  /\ hand = [n \in Notifiers |-> Free]
  /\ failing = [n \in Notifiers |-> FALSE]
  /\ reached = [j \in Jobs |-> 0]
  /\ dead = [j \in Jobs |-> 0]
  /\ lost = {}
  /\ faults = 0

Fault == faults < MaxFaults /\ faults' = faults + 1
Queued(j) == \E i \in 1..Len(queue) : queue[i] = j
Held(j) == \E n \in Notifiers : hand[n] = j
Release(n) ==
  /\ hand' = [hand EXCEPT ![n] = Free]
  /\ failing' = [failing EXCEPT ![n] = FALSE]

-----------------------------------------------------------------------------
(* soar/actions.py _notify: one push per job. *)
Notify(j) ==
  /\ ~Queued(j) /\ ~Held(j) /\ reached[j] + dead[j] = 0 /\ j \notin lost
  /\ queue' = <<j>> \o queue
  /\ UNCHANGED <<hand, failing, reached, dead, lost, faults>>

(* brpop: the job leaves Redis when it is popped. *)
Pop(n) ==
  /\ hand[n] = Free /\ queue # <<>>
  /\ hand' = [hand EXCEPT ![n] = queue[Len(queue)]]
  /\ queue' = SubSeq(queue, 1, Len(queue) - 1)
  /\ UNCHANGED <<failing, reached, dead, lost, faults>>

(* The connector answers success. *)
Deliver(n) ==
  /\ hand[n] \in Jobs \ Unknown /\ ~failing[n]
  /\ reached' = [reached EXCEPT ![hand[n]] = @ + 1]
  /\ Release(n)
  /\ UNCHANGED <<queue, dead, lost, faults>>

(* It answers failure or raises (an unknown channel, a missing address, HTTP or SMTP), *)
(* perhaps after the message went through.                                             *)
SendFails(n) ==
  /\ hand[n] \in Jobs /\ ~failing[n]
  /\ \/ hand[n] \in Unknown /\ UNCHANGED <<reached, faults>>
     \/ /\ hand[n] \notin Unknown /\ Fault
        /\ reached' \in {reached, [reached EXCEPT ![hand[n]] = @ + 1]}
  /\ failing' = [failing EXCEPT ![n] = TRUE]
  /\ UNCHANGED <<queue, hand, dead, lost>>

(* Defect form: the failed job goes back on the queue as well. *)
DeadLetterRequeued(n) ==
  /\ failing[n]
  /\ dead' = [dead EXCEPT ![hand[n]] = @ + 1]
  /\ queue' = <<hand[n]>> \o queue
  /\ Release(n)
  /\ UNCHANGED <<reached, lost, faults>>
(* _send_to_dlq. *)
DeadLetter(n) ==
  /\ failing[n]
  /\ dead' = [dead EXCEPT ![hand[n]] = @ + 1]
  /\ Release(n)
  /\ UNCHANGED <<queue, reached, lost, faults>>

(* The push on the list fails, or the process dies, with the job in hand. *)
Drop(n) ==
  /\ hand[n] \in Jobs
  /\ Fault
  /\ lost' = lost \cup {hand[n]}
  /\ Release(n)
  /\ UNCHANGED <<queue, reached, dead>>

Work(n) == Pop(n) \/ Deliver(n) \/ (hand[n] \in Unknown /\ SendFails(n)) \/ DeadLetter(n)

Next ==
  \/ \E j \in Jobs : Notify(j)
  \/ \E n \in Notifiers : Pop(n) \/ Deliver(n) \/ SendFails(n) \/ DeadLetter(n) \/ Drop(n)

Fairness == \A n \in Notifiers : WF_vars(Work(n))
Spec == Init /\ [][Next]_vars /\ Fairness

-----------------------------------------------------------------------------
(* A job is handled at most once: it is in one place, it reaches its recipients and *)
(* the dead-letter list at most once each, both only if the connector misreported.  *)
HandledOnce ==
  \A j \in Jobs :
    /\ reached[j] <= 1 /\ dead[j] <= 1
    /\ Queued(j) => ~Held(j) /\ reached[j] + dead[j] = 0
    /\ reached[j] + dead[j] = 2 => faults > 0

(* A queued job is sent, dead-lettered or, by a fault, lost: none stays behind. *)
NotificationSettles ==
  \A j \in Jobs : Queued(j) ~> (reached[j] + dead[j] > 0 \/ j \in lost)
=============================================================================

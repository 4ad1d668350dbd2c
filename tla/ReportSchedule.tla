--------------------------- MODULE ReportSchedule ---------------------------
(***************************************************************************)
(* The report scheduler (services/worker/app/report_scheduler.py): every   *)
(* check reads the active schedules and, one after the other, generates,   *)
(* sends and records the report of those that are due.  The report goes    *)
(* out before the commit that advances last_run_at.                        *)
(*                                                                         *)
(* A cron expression is abstracted to a period; rendering is left out.     *)
(***************************************************************************)
EXTENDS Naturals

CONSTANTS Schedules,    \* active rows of report_schedules
          Period,       \* time between two slots of a cron expression
          MaxTime,      \* bound on the clock
          MaxFaults     \* bound on failed sends, failed commits and crashes

None == "none"          \* no report is out

ScheduleAssumption ==
  Period \in Nat \ {0} /\ MaxTime \in Nat /\ MaxFaults \in Nat /\ None \notin Schedules

VARIABLES now,          \* the clock
          accepted,     \* schedules whose report the CHECKs of table reports admit
          lastRun,      \* report_schedules.last_run_at, committed
          firstRun,     \* its initial value (history)
          check,        \* the check in progress: its time, what it read, what is left
          sending,      \* the schedule whose report is out and not yet committed
          delivered,    \* reports that reached the recipients, per schedule (history)
          logged,       \* committed report_deliveries rows with status delivered
          faults        \* faults so far

vars == <<now, accepted, lastRun, firstRun, check, sending, delivered, logged, faults>>

Never == MaxTime + 1
NoCheck == [on |-> FALSE, at |-> 0, todo |-> {}]

TypeOK ==
  /\ now \in 0..MaxTime
  /\ accepted \subseteq Schedules
  /\ lastRun \in [Schedules -> 0..MaxTime \cup {Never}]
  /\ firstRun \in [Schedules -> 0..MaxTime \cup {Never}]
  /\ check \in [on : BOOLEAN, at : 0..MaxTime, todo : SUBSET Schedules]
  /\ sending \in Schedules \cup {None}
  /\ delivered \in [Schedules -> Nat] /\ logged \in [Schedules -> Nat]
  /\ faults \in 0..MaxFaults

(* A row comes from outside this code, with last_run_at NULL or set. *)
Init ==
  /\ now = 0
  /\ accepted \in SUBSET Schedules
  /\ lastRun \in [Schedules -> {0, Never}]
  /\ firstRun = lastRun
  /\ check = NoCheck
  /\ sending = None
  /\ delivered = [s \in Schedules |-> 0]
  /\ logged = [s \in Schedules |-> 0]
  /\ faults = 0

(* The first slot of the cron expression after time t: croniter.get_next. *)
NextSlot(t) == (t \div Period + 1) * Period

(* Defect form: the slot itself is not due yet. *)
IsDueStrict(last, t) == NextSlot(IF last = Never THEN t ELSE last) < t
(* _is_due: a schedule that never ran counts from the check itself. *)
IsDue(last, t) == NextSlot(IF last = Never THEN t ELSE last) <= t

Fault == faults < MaxFaults /\ faults' = faults + 1

-----------------------------------------------------------------------------
Tick ==
  /\ now < MaxTime
  /\ now' = now + 1
  /\ UNCHANGED <<accepted, lastRun, firstRun, check, sending, delivered, logged, faults>>

StartCheck ==
  /\ ~check.on
  /\ check' = [on |-> TRUE, at |-> now, todo |-> {s \in Schedules : IsDue(lastRun[s], now)}]
  /\ UNCHANGED <<now, accepted, lastRun, firstRun, sending, delivered, logged, faults>>

EndCheck ==
  /\ check.on /\ check.todo = {} /\ sending = None
  /\ check' = NoCheck
  /\ UNCHANGED <<now, accepted, lastRun, firstRun, sending, delivered, logged, faults>>

(* The report row violates a CHECK: the flush fails, then the commit of the failure *)
(* fails on the same session, and the exception ends the check for every schedule.  *)
Reject(s) ==
  /\ s \in check.todo \ accepted /\ sending = None
  /\ check' = NoCheck
  /\ UNCHANGED <<now, accepted, lastRun, firstRun, sending, delivered, logged, faults>>

(* _deliver_report returns: the recipients have the report. *)
Send(s) ==
  /\ s \in check.todo \cap accepted /\ sending = None
  /\ sending' = s
  /\ delivered' = [delivered EXCEPT ![s] = @ + 1]
  /\ UNCHANGED <<now, accepted, lastRun, firstRun, check, logged, faults>>

(* Defect form: the delivery is logged before the report is sent. *)
SendFailsLogged(s) ==
  /\ s \in check.todo \cap accepted /\ sending = None
  /\ Fault
  /\ logged' = [logged EXCEPT ![s] = @ + 1]
  /\ check' = [check EXCEPT !.todo = @ \ {s}]
  /\ UNCHANGED <<now, accepted, lastRun, firstRun, sending, delivered>>
(* Generating or sending raises, perhaps after the recipients got it (a timeout): *)
(* the delivery is committed as failed and last_run_at stays.                     *)
SendFails(s) ==
  /\ s \in check.todo \cap accepted /\ sending = None
  /\ Fault
  /\ delivered' \in {delivered, [delivered EXCEPT ![s] = @ + 1]}
  /\ check' = [check EXCEPT !.todo = @ \ {s}]
  /\ UNCHANGED <<now, accepted, lastRun, firstRun, sending, logged>>

(* The commit after a delivery. *)
Record ==
  /\ sending # None
  /\ lastRun' = [lastRun EXCEPT ![sending] = check.at]
  /\ logged' = [logged EXCEPT ![sending] = @ + 1]
  /\ check' = [check EXCEPT !.todo = @ \ {sending}]
  /\ sending' = None
  /\ UNCHANGED <<now, accepted, firstRun, delivered, faults>>

(* A failed statement or commit, or a crash: the open transaction is lost. *)
Abort ==
  /\ check.on /\ Fault
  /\ check' = NoCheck
  /\ sending' = None
  /\ UNCHANGED <<now, accepted, lastRun, firstRun, delivered, logged>>

Next ==
  \/ Tick \/ StartCheck \/ EndCheck \/ Record \/ Abort
  \/ \E s \in Schedules : Reject(s) \/ Send(s) \/ SendFails(s)

(* The loop checks for ever; the clock advances. *)
Loop == StartCheck \/ EndCheck \/ Record \/ \E s \in Schedules : Reject(s) \/ Send(s)
Fairness == WF_vars(Loop) /\ WF_vars(Tick)

Spec == Init /\ [][Next]_vars /\ Fairness

-----------------------------------------------------------------------------
(* The slots of a schedule that have passed since its row was written. *)
SlotsPassed(s) == IF firstRun[s] = Never THEN 0 ELSE now \div Period - firstRun[s] \div Period

(* A report goes out at most once per slot, and once more per fault: the send comes *)
(* before the commit that says so (report_scheduler.py:140-152).                    *)
(* The delivery log never claims what was not sent, and what it misses a fault took. *)
DeliveriesAccounted ==
  \A s \in Schedules :
    /\ delivered[s] <= SlotsPassed(s) + faults
    /\ logged[s] <= delivered[s]
    /\ delivered[s] <= logged[s] + faults + (IF sending = s THEN 1 ELSE 0)

(* A slot has begun since the last run. *)
Overdue(s) == lastRun[s] # Never /\ now \div Period > lastRun[s] \div Period

(* A due report is delivered, provided its schedule has run before (a NULL         *)
(* last_run_at is never due) and no schedule of the table yields a rejected row    *)
(* (one that does ends every check it is reached in).                              *)
DueDelivered ==
  \A s \in Schedules :
    (accepted = Schedules /\ Overdue(s)) ~> ~Overdue(s)
=============================================================================

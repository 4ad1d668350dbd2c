------------------------------ MODULE SoarRuns ------------------------------
(***************************************************************************)
(* Playbook runs (shared/soar/engine.py, actions.py) after the triage of   *)
(* an alert: the active playbooks in order of priority, each triggered by  *)
(* the alert as the earlier ones left it, each committed at its end.  What *)
(* an action sends or queues is out before that commit.  A job that comes  *)
(* back from the dead-letter queue runs every playbook again.  Meanwhile   *)
(* the API adds, switches and deletes playbooks (routers/playbooks.py) and *)
(* grants what containment actions ask for (routers/approvals.py).         *)
(*                                                                         *)
(* The fields of the alert are abstracted to its severity; an action is    *)
(* its type, its argument and whether its failure stops the playbook.      *)
(***************************************************************************)
EXTENDS Naturals, Sequences, FiniteSets

CONSTANTS Playbooks,    \* sequence of [on: severities, actions: sequence of actions]
          Targets,      \* users and addresses that actions contain
          Severity,     \* severity of the alert after its triage
          MaxPasses,    \* bound on the triage passes of the alert
          MaxFaults,    \* bound on database errors and crashes
          MaxEdits      \* bound on requests to the API

Severities == {"low", "medium", "high", "critical"}

(* An action: its type, the severity it sets or the target it contains (a user or an   *)
(* address; disable_user, revoke_sessions, block_ip), and continue_on_error = false.   *)
Action ==
  [type : {"create_case", "webhook", "notify"}, arg : {""}, stop : BOOLEAN]
    \cup [type : {"set_severity"}, arg : Severities, stop : BOOLEAN]
    \cup [type : {"contain"}, arg : Targets, stop : BOOLEAN]

PlaybookAssumption ==
  /\ MaxPasses \in Nat /\ MaxFaults \in Nat /\ MaxEdits \in Nat
  /\ Playbooks \in Seq([on : SUBSET Severities, actions : Seq(Action)])

VARIABLES there,        \* the rows of playbooks
          active,       \* those with is_active
          asked,        \* pending playbook_runs that nothing executes
          gone,         \* the last pass before a playbook was deleted (history)
          edits,        \* requests so far
          loaded,       \* the playbooks the pass has loaded
          pass,         \* triage passes so far; the last may be running
          book,         \* the playbook being looked at, 0 when no pass runs
          step,         \* its next action, 0 before its trigger is evaluated
          severity,     \* alert["severity"], a dict that the actions share
          broken,       \* the session needs a rollback
          status,       \* of the open run
          pending,      \* targets of the approval requests of the open transaction
          runs,         \* committed playbook_runs
          requests,     \* targets of the approval requests each run has committed (history)
          elsewhere,    \* targets that others have asked an approval for (history)
          open,         \* targets with a pending approval request
          granted,      \* targets with an approved one that has not expired
          out,          \* webhooks, notifications and containments sent (history)
          acted,        \* the targets contained (history)
          faults        \* faults so far

table == <<there, active, asked, gone, edits>>
approvals == <<requests, elsewhere, open, granted>>
vars == <<table, loaded, pass, book, step, severity, broken, status, pending, runs, approvals,
          out, acted, faults>>

Books == 1..Len(Playbooks)
Actions(b) == Playbooks[b].actions
Passes == Books \X (1..MaxPasses)     \* a playbook in a pass
Records == [book : Books, pass : 1..MaxPasses, done : Nat, status : {"completed", "failed"}]

Stays == MaxPasses + 1   \* not deleted

TypeOK ==
  /\ there \subseteq Books /\ active \subseteq there /\ asked \subseteq there
  /\ gone \in [Books -> 0..Stays] /\ edits \in 0..MaxEdits
  /\ loaded \subseteq Books
  /\ pass \in 0..MaxPasses
  /\ book \in 0..Len(Playbooks) /\ step \in Nat
  /\ severity \in Severities
  /\ broken \in BOOLEAN
  /\ status \in {"running", "failed"}
  /\ pending \subseteq Targets
  /\ runs \in Seq(Records)
  /\ requests \in [Passes -> SUBSET Targets]
  /\ elsewhere \subseteq Targets /\ open \subseteq Targets /\ granted \subseteq Targets
  /\ out \in [Passes -> Nat] /\ acted \in [Passes -> SUBSET Targets]
  /\ faults \in 0..MaxFaults

Init ==
  /\ \E b \in Books : there \in {Books, Books \ {b}}
  /\ active = there /\ asked = {} /\ gone = [b \in Books |-> Stays] /\ edits = 0
  /\ loaded = {}
  /\ pass = 0 /\ book = 0 /\ step = 0
  /\ severity = Severity
  /\ broken = FALSE /\ status = "running" /\ pending = {}
  /\ runs = <<>>
  /\ requests = [r \in Passes |-> {}]
  /\ elsewhere = {} /\ open = {} /\ granted = {}
  /\ out = [r \in Passes |-> 0] /\ acted = [r \in Passes |-> {}]
  /\ faults = 0

Fault == faults < MaxFaults /\ faults' = faults + 1
EndPass ==
  loaded' = {} /\ book' = 0 /\ step' = 0 /\ pending' = {} /\ broken' = FALSE /\ status' = "running"

(* The next playbook of the pass, or its end. *)
NextBook == IF book < Len(Playbooks) THEN book' = book + 1 /\ UNCHANGED loaded
            ELSE book' = 0 /\ loaded' = {}

-----------------------------------------------------------------------------
(* run_for_alert: a first triage, or one the dead-letter queue brought back. *)
StartPass ==
  /\ book = 0 /\ pass < MaxPasses
  /\ pass' = pass + 1
  /\ book' = 1 /\ step' = 0 /\ loaded' = active
  /\ severity' = Severity
  /\ UNCHANGED <<table, broken, status, pending, runs, approvals, out, acted, faults>>

Triggered == severity \in Playbooks[book].on

(* It was not active when the pass began, or _evaluate_condition is false. *)
Skip ==
  /\ book # 0 /\ step = 0 /\ ~(book \in loaded /\ Triggered)
  /\ NextBook
  /\ UNCHANGED <<table, pass, step, severity, broken, status, pending, runs, approvals, out, acted,
                 faults>>

(* The run row is flushed with status running. *)
Begin ==
  /\ book # 0 /\ step = 0 /\ book \in loaded \cap there /\ Triggered
  /\ step' = 1 /\ status' = "running"
  /\ UNCHANGED <<table, loaded, pass, book, severity, broken, pending, runs, approvals, out, acted,
                 faults>>

(* It has been deleted meanwhile: the foreign key refuses the run, and the pass ends. *)
BeginFails ==
  /\ book # 0 /\ step = 0 /\ book \in loaded \ there /\ Triggered
  /\ EndPass
  /\ UNCHANGED <<table, pass, severity, runs, approvals, out, acted, faults>>

Act == Actions(book)[step]
Acting == step > 0 /\ step <= Len(Actions(book)) /\ status = "running"

Acts(types) == Acting /\ Act.type \in types /\ UNCHANGED <<table, loaded, pass, book, runs, approvals>>

(* execute_action turns an exception into a failure; a failure may stop the playbook. *)
Result(ok) == IF ok \/ ~Act.stop THEN step' = step + 1 /\ UNCHANGED status
                                 ELSE status' = "failed" /\ UNCHANGED step

(* The case has no tenant: its flush is always refused, and leaves the session in need of a *)
(* rollback that nobody issues.                                                             *)
CreateCase ==
  /\ Acts({"create_case"})
  /\ broken' = TRUE /\ Result(FALSE)
  /\ UNCHANGED <<severity, pending, out, acted, faults>>

(* A call or a push that fails may have arrived. *)
Send ==
  /\ Acts({"webhook", "notify"})
  /\ \E ok, sent \in BOOLEAN :
       /\ ok => sent
       /\ out' = IF sent THEN [out EXCEPT ![<<book, pass>>] = @ + 1] ELSE out
       /\ Result(ok)
  /\ UNCHANGED <<severity, broken, pending, acted, faults>>

SetSeverity ==
  /\ Acts({"set_severity"})
  /\ severity' = Act.arg /\ Result(TRUE)
  /\ UNCHANGED <<broken, pending, out, acted, faults>>

(* containment_guard is denied in shadow mode; or the session is broken, or an id missing. *)
Refuse ==
  /\ Acts({"contain"})
  /\ Result(FALSE)
  /\ UNCHANGED <<severity, broken, pending, out, acted, faults>>

(* Nobody has approved: a request is flushed, and the action answers failure. *)
AskApproval ==
  /\ Acts({"contain"}) /\ ~broken /\ Act.arg \notin granted
  /\ pending' = pending \cup {Act.arg} /\ Result(FALSE)
  /\ UNCHANGED <<severity, broken, out, acted, faults>>

(* An approved request for the target is found: the provider is called, or not, without a *)
(* token, and may fail.                                                                   *)
Contain ==
  /\ Acts({"contain"}) /\ ~broken /\ Act.arg \in granted
  /\ \E ok, sent \in BOOLEAN :
       /\ ok => sent
       /\ out' = IF sent THEN [out EXCEPT ![<<book, pass>>] = @ + 1] ELSE out
       /\ acted' = IF sent THEN [acted EXCEPT ![<<book, pass>>] = @ \cup {Act.arg}] ELSE acted
       /\ Result(ok)
  /\ UNCHANGED <<severity, broken, pending, faults>>

(* A query of the guard fails, and the session with it. *)
GuardFails ==
  /\ Acts({"contain"}) /\ Fault
  /\ broken' = TRUE /\ Result(FALSE)
  /\ UNCHANGED <<severity, pending, out, acted>>

AtEnd == step > 0 /\ (status = "failed" \/ step > Len(Actions(book)))
Record == [book |-> book, pass |-> pass, done |-> IF status = "failed" THEN step ELSE step - 1,
           status |-> IF status = "failed" THEN "failed" ELSE "completed"]

Requested == /\ requests' = [requests EXCEPT ![<<book, pass>>] = @ \cup pending]
             /\ open' = open \cup pending

(* Defect form: an approval request was committed when it was made. *)
CommitRunOnly ==
  /\ AtEnd /\ Requested
  /\ IF broken
     THEN EndPass /\ UNCHANGED runs
     ELSE /\ runs' = Append(runs, Record)
          /\ NextBook /\ step' = 0 /\ pending' = {} /\ status' = "running"
          /\ UNCHANGED broken
  /\ UNCHANGED <<table, pass, severity, elsewhere, granted, out, acted, faults>>
(* The commit at the end of a playbook; on a broken session it raises and the pass  *)
(* ends: triage_worker.py only logs it.                                             *)
CommitRun ==
  /\ AtEnd
  /\ IF broken
     THEN EndPass /\ UNCHANGED <<runs, requests, open>>
     ELSE /\ runs' = Append(runs, Record) /\ Requested
          /\ NextBook /\ step' = 0 /\ pending' = {} /\ status' = "running"
          /\ UNCHANGED broken
  /\ UNCHANGED <<table, pass, severity, elsewhere, granted, out, acted, faults>>

(* The load, the flush of the run row or a commit fails, or the process dies. *)
Abort ==
  /\ book # 0 /\ Fault
  /\ EndPass
  /\ UNCHANGED <<table, pass, severity, runs, approvals, out, acted>>

-----------------------------------------------------------------------------
(* The API.  The row of an open run keeps its playbook from being deleted. *)
running == <<loaded, pass, book, step, severity, broken, status, pending, requests, out, acted, faults>>
reviews == <<elsewhere, open, granted>>
Edit == edits < MaxEdits /\ edits' = edits + 1

CreatePlaybook(b) ==
  /\ Edit /\ b \notin there /\ gone[b] = Stays
  /\ there' = there \cup {b} /\ active' = active \cup {b}
  /\ UNCHANGED <<asked, gone, runs, running, reviews>>

UpdatePlaybook(b) ==
  /\ Edit /\ b \in there
  /\ active' = IF b \in active THEN active \ {b} ELSE active \cup {b}
  /\ UNCHANGED <<there, asked, gone, runs, running, reviews>>

(* What is at these places of a list, in its order. *)
Kept(list, places) ==
  [k \in 1..Cardinality(places) |->
     list[CHOOSE i \in places : Cardinality({j \in places : j <= i}) = k]]

(* With its runs, by the foreign key. *)
DeletePlaybook(b) ==
  /\ Edit /\ b \in there /\ ~(book = b /\ step > 0)
  /\ there' = there \ {b} /\ active' = active \ {b} /\ asked' = asked \ {b}
  /\ gone' = [gone EXCEPT ![b] = pass]
  /\ runs' = Kept(runs, {i \in DOMAIN runs : runs[i].book # b})
  /\ UNCHANGED <<running, reviews>>

(* A row and a message for a worker that does not start. *)
RunPlaybook(b) ==
  /\ Edit /\ b \in there
  /\ asked' = asked \cup {b}
  /\ UNCHANGED <<there, active, gone, runs, running, reviews>>

(* An agent, another alert or a user asks for the same containment. *)
AskElsewhere(t) ==
  /\ Edit
  /\ elsewhere' = elsewhere \cup {t} /\ open' = open \cup {t}
  /\ UNCHANGED <<there, active, asked, gone, runs, running, granted>>

(* review_approval: a reviewer approves a committed request; another one for the target *)
(* may be left.                                                                         *)
Grant(t) ==
  /\ Edit /\ t \in open
  /\ granted' = granted \cup {t} /\ open' \in {open, open \ {t}}
  /\ UNCHANGED <<there, active, asked, gone, runs, running, elsewhere>>

(* The requests for a target are rejected or expire. *)
Lapse(t) ==
  /\ t \in open \cup granted
  /\ open' = open \ {t} /\ granted' \in {granted, granted \ {t}}
  /\ UNCHANGED <<table, runs, running, elsewhere>>

Next ==
  \/ StartPass \/ Skip \/ Begin \/ BeginFails \/ CommitRun \/ Abort
  \/ CreateCase \/ Send \/ SetSeverity \/ Refuse \/ AskApproval \/ Contain \/ GuardFails
  \/ \E b \in Books :
       CreatePlaybook(b) \/ UpdatePlaybook(b) \/ DeletePlaybook(b) \/ RunPlaybook(b)
  \/ \E t \in Targets : AskElsewhere(t) \/ Grant(t) \/ Lapse(t)

Spec == Init /\ [][Next]_vars

-----------------------------------------------------------------------------
Hits(b, n, types) == Cardinality({i \in 1..n : Actions(b)[i].type \in types})
Contains(b, n) == {Actions(b)[i].arg : i \in {j \in 1..n : Actions(b)[j].type = "contain"}}

(* The actions that the committed run of a playbook in a pass executed, 0 without a run. *)
Executed(b, p) ==
  LET done == {i \in 1..Len(runs) : runs[i].book = b /\ runs[i].pass = p}
  IN IF done = {} THEN 0 ELSE runs[CHOOSE i \in done : TRUE].done

Creates(b) == \E i \in 1..Len(Actions(b)) : Actions(b)[i].type = "create_case"

(* An approval request of a playbook is committed with the run that made it, never  *)
(* alone and never beyond the run's executed actions, as long as the playbook is    *)
(* there; a playbook that was deleted does nothing in a later pass; and no run      *)
(* contains a target that no earlier committed run, nor anyone else, has asked for: *)
(* not on its own request (engine.py:71-122, handlers.py:183-262,                   *)
(* playbooks.py:147-163).                                                           *)
Before(q, r) == q[2] < r[2] \/ (q[2] = r[2] /\ q[1] < r[1])
RequestsHaveRuns ==
  /\ \A b \in Books : \A p \in 1..MaxPasses :
       /\ gone[b] = Stays => requests[<<b, p>>] \subseteq Contains(b, Executed(b, p))
       /\ p > gone[b] => requests[<<b, p>>] = {} /\ out[<<b, p>>] = 0
  /\ \A r \in Passes : \A t \in acted[r] :
       t \in elsewhere \/ \E q \in Passes : Before(q, r) /\ t \in requests[q]

(* A committed run tells the truth: completed means every action was executed, and  *)
(* a failed one ended at an action that may stop it; it has tried to create no case *)
(* (actions.py:55-66), for its commit would have failed.                            *)
RunsTellTruth ==
  \A i \in 1..Len(runs) :
    LET r == runs[i]
    IN /\ IF r.status = "completed" THEN r.done = Len(Actions(r.book))
                                    ELSE r.done > 0 /\ Actions(r.book)[r.done].stop
       /\ \A k \in 1..r.done : Actions(r.book)[k].type # "create_case"

(* One pass runs a playbook at most once, in order of priority, and what reached    *)
(* the outside without a committed run was sent by a playbook that creates a case   *)
(* or a pass that a fault ended.                                                    *)
OncePerPass ==
  /\ \A i, j \in 1..Len(runs) :
       i < j => \/ runs[i].pass < runs[j].pass
                \/ runs[i].pass = runs[j].pass /\ runs[i].book < runs[j].book
  /\ \A b \in Books : \A p \in 1..MaxPasses :
       out[<<b, p>>] > Hits(b, Executed(b, p), {"webhook", "notify", "contain"})
         => faults > 0 \/ Creates(b) \/ gone[b] # Stays \/ (b = book /\ p = pass)

(* What the committed rows say of the playbooks is what they did: the requests, the *)
(* outcome of each run, and what went out.                                          *)
PlaybooksTellTruth == RequestsHaveRuns /\ RunsTellTruth /\ OncePerPass
=============================================================================

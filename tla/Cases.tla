------------------------------- MODULE Cases -------------------------------
(***************************************************************************)
(* The case endpoints (services/api/app/routers/cases.py) under concurrent *)
(* handlers.  A handler reads the rows it changes without a lock, decides  *)
(* on what it read, and commits: the ORM writes only the columns it has    *)
(* changed, and the events of the timeline in the same transaction.  The   *)
(* UPDATE takes the row lock before the events get their time, so rows and *)
(* events of two commits come in the same order.                           *)
(***************************************************************************)
EXTENDS Naturals, Sequences, FiniteSets, FiniteSetsExt

CONSTANTS Cases,        \* case ids
          Handlers,     \* requests in progress at the same time
          Statuses,     \* values a request may give, "open" and a terminal one among them
          Analysts,     \* values of assigned_to
          MaxRequests   \* bound on requests

CaseAssumption ==
  /\ "open" \in Statuses /\ Statuses \subseteq STRING /\ MaxRequests \in Nat
  /\ {"keep", "absent"} \cap Statuses = {}      \* these two mark a field and a row

VARIABLES row,          \* cases: status, assignee, whether closed_at is set
          timeline,     \* case_events of each case, in the order of their time
          notes,        \* analyst_notes of each case
          step,         \* one investigation step per case: completed, completed_at set
          request,      \* what each handler has read and is about to commit
          requests      \* requests so far

vars == <<row, timeline, notes, step, request, requests>>

Keep == "keep"          \* a field the request does not give
Nobody == "nobody"
Idle == [kind |-> "idle"]
Absent == [status |-> "absent", owner |-> Nobody, closed |-> FALSE]

Terminal == {"resolved", "closed"}
Row == [status : Statuses, owner : Analysts \cup {Nobody}, closed : BOOLEAN]
Notes == [Cases -> Nat]
Step == [done : BOOLEAN, stamped : BOOLEAN]
Fresh == [status |-> "open", owner |-> Nobody, closed |-> FALSE]
Present == {c \in Cases : row[c] # Absent}

TypeOK ==
  /\ row \in [Cases -> Row \cup {Absent}]
  /\ \A c \in Cases : \A i \in 1..Len(timeline[c]) :
       timeline[c][i].kind \in {"created", "status", "assigned", "note"}
  /\ notes \in Notes
  /\ step \in [Cases -> Step]
  /\ \A h \in Handlers : request[h].kind \in {"idle", "update", "bulk", "step"}
  /\ requests \in 0..MaxRequests

Init ==
  /\ row = [c \in Cases |-> Absent]
  /\ timeline = [c \in Cases |-> <<>>]
  /\ notes = [c \in Cases |-> 0]
  /\ step = [c \in Cases |-> [done |-> FALSE, stamped |-> FALSE]]
  /\ request = [h \in Handlers |-> Idle]
  /\ requests = 0

Event(kind, old, new) == [kind |-> kind, old |-> old, new |-> new]
Counted == requests < MaxRequests /\ requests' = requests + 1
Answer(h) == request' = [request EXCEPT ![h] = Idle]

-----------------------------------------------------------------------------
(* create_case writes the row and its event; the triage worker and the case_create *)
(* handler of the agents write the row alone.                                      *)
Create(c) ==
  /\ row[c] = Absent /\ Counted
  /\ row' = [row EXCEPT ![c] = Fresh]
  /\ timeline' \in {timeline, [timeline EXCEPT ![c] = Append(@, Event("created", "", ""))]}
  /\ UNCHANGED <<notes, step, request>>

(* update_case loads the row: 404 without one. *)
ReadCase(h, c, status, owner) ==
  /\ request[h] = Idle /\ c \in Present /\ Counted
  /\ request' = [request EXCEPT ![h] =
       [kind |-> "update", cases |-> {c}, read |-> row, status |-> status, owner |-> owner]]
  /\ UNCHANGED <<row, timeline, notes, step>>

(* bulk_update_status loads those of the named cases that exist. *)
ReadCases(h, named, status) ==
  /\ request[h] = Idle /\ named # {} /\ Counted
  /\ request' = [request EXCEPT ![h] =
       [kind |-> "bulk", cases |-> named \cap Present, read |-> row,
        status |-> status, owner |-> Keep]]
  /\ UNCHANGED <<row, timeline, notes, step>>

Given(new, old) == new \notin {Keep, old}

(* Defect form: every column of the row that was read is written back. *)
WrittenWhole(old, read, q) ==
  [status |-> IF Given(q.status, read.status) THEN q.status ELSE read.status,
   owner |-> IF Given(q.owner, read.owner) THEN q.owner ELSE read.owner,
   closed |-> read.closed \/ q.status \in Terminal]
(* The row after the UPDATE, which sets the columns that differ from what was read; *)
(* closed_at is set anew by every closing request and never cleared.                *)
Written(old, read, q) ==
  [status |-> IF Given(q.status, read.status) THEN q.status ELSE old.status,
   owner |-> IF Given(q.owner, read.owner) THEN q.owner ELSE old.owner,
   closed |-> old.closed \/ (/\ q.status \in Terminal
                             /\ q.kind = "bulk" \/ q.status # read.status)]

(* update_case reports what it changes; bulk_update_status reports every case. *)
Events(read, q) ==
  (IF q.kind = "bulk" \/ Given(q.status, read.status)
     THEN <<Event("status", read.status, q.status)>> ELSE <<>>)
  \o (IF Given(q.owner, read.owner)
        THEN <<Event("assigned", read.owner, q.owner)>> ELSE <<>>)

CommitCases(h) ==
  LET q == request[h] IN
  /\ q.kind \in {"update", "bulk"}
  /\ row' = [c \in Cases |-> IF c \in q.cases THEN Written(row[c], q.read[c], q) ELSE row[c]]
  /\ timeline' = [c \in Cases |-> IF c \in q.cases THEN timeline[c] \o Events(q.read[c], q)
                                                   ELSE timeline[c]]
  /\ Answer(h)
  /\ UNCHANGED <<notes, step, requests>>

(* add_note: the note and its event; the foreign key refuses an unknown case. *)
AddNote(c) ==
  /\ c \in Present /\ Counted
  /\ notes' = [notes EXCEPT ![c] = @ + 1]
  /\ timeline' = [timeline EXCEPT ![c] = Append(@, Event("note", "", ""))]
  /\ UNCHANGED <<row, step, request>>

(* update_step flips the flag it has read. *)
ReadStep(h, c) ==
  /\ request[h] = Idle /\ c \in Present /\ Counted
  /\ request' = [request EXCEPT ![h] = [kind |-> "step", case |-> c, done |-> step[c].done]]
  /\ UNCHANGED <<row, timeline, notes, step>>

CommitStep(h) ==
  LET q == request[h] IN
  /\ q.kind = "step"
  /\ step' = [step EXCEPT ![q.case] = [done |-> ~q.done, stamped |-> ~q.done]]
  /\ Answer(h)
  /\ UNCHANGED <<row, timeline, notes, requests>>

(* The handler raises, or its commit fails: the transaction leaves nothing. *)
Fail(h) ==
  /\ request[h] # Idle
  /\ Answer(h)
  /\ UNCHANGED <<row, timeline, notes, step, requests>>

Next ==
  \/ \E c \in Cases : Create(c) \/ AddNote(c)
  \/ \E h \in Handlers, c \in Cases :
       \/ \E s \in Statuses \cup {Keep}, o \in Analysts \cup {Keep} : ReadCase(h, c, s, o)
       \/ ReadStep(h, c)
  \/ \E h \in Handlers, named \in SUBSET Cases, s \in Statuses : ReadCases(h, named, s)
  \/ \E h \in Handlers : CommitCases(h) \/ CommitStep(h) \/ Fail(h)

Spec == Init /\ [][Next]_vars

-----------------------------------------------------------------------------
(* The last value the timeline says a field was changed to, or what it began with. *)
Told(c, kind, first) ==
  LET changes == {i \in 1..Len(timeline[c]) :
                    /\ timeline[c][i].kind = kind
                    /\ timeline[c][i].old # timeline[c][i].new}
  IN  IF changes = {} THEN first ELSE timeline[c][Max(changes)].new

(* A case and its timeline tell the same story, whatever requests overlap: the last *)
(* change of the status and of the assignee in the timeline names the value of the  *)
(* row, no note lacks its event, a case that is resolved or closed has a closing    *)
(* time, and a step has a completion time exactly when it is completed              *)
(* (cases.py:345-386, 398-428, 474-481, 662-683).                                   *)
CaseRecordsAgree ==
  \A c \in Present :
    /\ row[c].status = Told(c, "status", "open")
    /\ row[c].owner = Told(c, "assigned", Nobody)
    /\ row[c].status \in Terminal => row[c].closed
    /\ notes[c] = Cardinality({i \in 1..Len(timeline[c]) : timeline[c][i].kind = "note"})
    /\ step[c].done = step[c].stamped
=============================================================================

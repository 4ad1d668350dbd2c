---------------------------- MODULE OsintLookups ----------------------------
(***************************************************************************)
(* OSINT lookups: the API stores a target and queues it (routers/          *)
(* osint.py), workers ask the maigret service (osint_worker.py,            *)
(* connectors/osint_maigret.py), and the service runs the command line     *)
(* tool in a thread per request, over one output file per username         *)
(* (services/maigret/app/main.py).                                         *)
(*                                                                         *)
(* The profiles of a username are abstracted to a version that grows; 0    *)
(* stands for none.  Targets that are not usernames reach the service      *)
(* under a key it does not accept.                                         *)
(***************************************************************************)
EXTENDS Integers, Sequences

CONSTANTS Targets,      \* POST /osint/lookup, each stores a row of its own
          Names,        \* usernames
          NameOf,       \* the username of a target, or another value for an email or a domain
          Lookers,      \* worker processes
          MaxWeb,       \* bound on the versions of the profiles
          MaxFaults     \* bound on faults

OsintAssumption ==
  MaxWeb \in Nat \ {0} /\ MaxFaults \in Nat /\ DOMAIN NameOf = Targets

VARIABLES place,        \* where each lookup is
          queue,        \* osint_queue
          hand,         \* the lookup each worker has popped
          scan,         \* the request each lookup has at the service
          file,         \* the output file of each username
          found,        \* what the committed osint_results of each target show
          web,          \* the newest version of everybody's profiles, outside the system
          faults

vars == <<place, queue, hand, scan, file, found, web, faults>>

NoFile == 0
Half == -1              \* opened by the tool and not yet complete
Free == [at |-> "free"]
Off == [at |-> "off"]

TypeOK ==
  /\ place \in [Targets -> {"new", "stored", "queued", "taken", "done", "dead", "lost"}]
  /\ queue \in Seq(Targets)
  /\ \A w \in Lookers : hand[w].at \in {"free", "read", "asked", "answered"}
  /\ \A t \in Targets : scan[t].at \in {"off", "starting", "running", "writing", "reading"}
  /\ file \in [Names -> Half..MaxWeb]
  /\ \A t \in Targets : found[t].version \in 0..MaxWeb
  /\ web \in 1..MaxWeb /\ faults \in 0..MaxFaults

(* found keeps, as history, how the lookup went. *)
NotYet == [version |-> 0, from |-> 0, failed |-> FALSE, crossed |-> FALSE]

Init ==
  /\ place = [t \in Targets |-> "new"] /\ queue = <<>>
  /\ hand = [w \in Lookers |-> Free]
  /\ scan = [t \in Targets |-> Off] /\ file = [n \in Names |-> NoFile]
  /\ found = [t \in Targets |-> NotYet]
  /\ web = 1 /\ faults = 0

Fault == faults < MaxFaults /\ faults' = faults + 1

-----------------------------------------------------------------------------
(* create_lookup: the row, then the message; in between Redis or the process may fail. *)
Store(t) ==
  /\ place[t] = "new" /\ place' = [place EXCEPT ![t] = "stored"]
  /\ UNCHANGED <<queue, hand, scan, file, found, web, faults>>
Push(t) ==
  /\ place[t] = "stored" /\ place' = [place EXCEPT ![t] = "queued"]
  /\ queue' = <<t>> \o queue
  /\ UNCHANGED <<hand, scan, file, found, web, faults>>
PushFails(t) ==
  /\ place[t] = "stored" /\ place' = [place EXCEPT ![t] = "lost"]
  /\ Fault
  /\ UNCHANGED <<queue, hand, scan, file, found, web>>

(* The worker. *)
Pop(w) ==
  /\ hand[w] = Free /\ queue # <<>>
  /\ LET t == queue[Len(queue)] IN
     /\ hand' = [hand EXCEPT ![w] = [at |-> "read", target |-> t]]
     /\ place' = [place EXCEPT ![t] = "taken"]
  /\ queue' = SubSeq(queue, 1, Len(queue) - 1)
  /\ UNCHANGED <<scan, file, found, web, faults>>

(* A request without a username is refused, which the connector answers as no results. *)
Ask(w) ==
  LET t == hand[w].target IN
  /\ hand[w].at = "read"
  /\ IF NameOf[t] \in Names
     THEN /\ scan' = [scan EXCEPT ![t].at = "starting"]
          /\ hand' = [hand EXCEPT ![w].at = "asked"]
     ELSE /\ hand' = [hand EXCEPT ![w] = [at |-> "answered", target |-> t, version |-> 0]]
          /\ UNCHANGED scan
  /\ UNCHANGED <<place, queue, file, found, web, faults>>

(* Whoever still waits for the scan of a target is answered. *)
AnswerWith(t, version) ==
  hand' = [w \in Lookers |->
    IF hand[w].at = "asked" /\ hand[w].target = t
    THEN [at |-> "answered", target |-> t, version |-> version] ELSE hand[w]]

(* _run_maigret: the old file goes, the tool runs, its file is read if it is there. *)
Unlink(t) == file' = [file EXCEPT ![NameOf[t]] = NoFile]
(* Defect form: the old file stays. *)
UnlinkNothing(t) == UNCHANGED file

Others(t) ==
  {u \in Targets \ {t} : scan[u].at \notin {"off", "starting"} /\ NameOf[u] = NameOf[t]}

Begin(t) ==
  /\ scan[t].at = "starting"
  /\ scan' = [scan EXCEPT ![t] = [at |-> "running", saw |-> 0]]
  /\ Unlink(t)
  /\ found' = [u \in Targets |->
       IF u = t THEN [found[u] EXCEPT !.from = web, !.crossed = Others(t) # {}]
       ELSE IF u \in Others(t) THEN [found[u] EXCEPT !.crossed = TRUE] ELSE found[u]]
  /\ UNCHANGED <<place, queue, hand, web, faults>>

Write(t) ==
  /\ scan[t].at = "running"
  /\ scan' = [scan EXCEPT ![t] = [at |-> "writing", saw |-> web]]
  /\ file' = [file EXCEPT ![NameOf[t]] = Half]
  /\ UNCHANGED <<place, queue, hand, found, web, faults>>
Wrote(t) ==
  /\ scan[t].at = "writing"
  /\ scan' = [scan EXCEPT ![t].at = "reading"]
  /\ file' = [file EXCEPT ![NameOf[t]] = scan[t].saw]
  /\ UNCHANGED <<place, queue, hand, found, web, faults>>

(* The exit status of the tool is not looked at. *)
ToolFails(t) ==
  /\ scan[t].at \in {"running", "writing"} /\ Fault
  /\ scan' = [scan EXCEPT ![t].at = "reading"]
  /\ found' = [found EXCEPT ![t].failed = TRUE]
  /\ UNCHANGED <<place, queue, hand, file, web>>
(* The tool is killed after its time: 503, which the connector answers as no results. *)
ToolTimesOut(t) ==
  /\ scan[t].at \in {"running", "writing"} /\ Fault
  /\ scan' = [scan EXCEPT ![t] = Off]
  /\ found' = [found EXCEPT ![t].failed = TRUE]
  /\ AnswerWith(t, 0)
  /\ UNCHANGED <<place, queue, file, web>>

(* No file, or one that is not complete, is an empty answer. *)
Readable(content) == IF content \in {NoFile, Half} THEN 0 ELSE content
Read(t) ==
  /\ scan[t].at = "reading"
  /\ scan' = [scan EXCEPT ![t] = Off]
  /\ AnswerWith(t, Readable(file[NameOf[t]]))
  /\ UNCHANGED <<place, queue, file, found, web, faults>>

(* The service restarts: its scans and its requests end, the files stay. *)
ServiceRestarts ==
  /\ Fault
  /\ scan' = [t \in Targets |-> Off]
  /\ hand' = [w \in Lookers |->
       IF hand[w].at = "asked" THEN [at |-> "answered", target |-> hand[w].target, version |-> 0]
       ELSE hand[w]]
  /\ found' = [t \in Targets |->
       IF \E w \in Lookers : hand[w].at = "asked" /\ hand[w].target = t
       THEN [found[t] EXCEPT !.failed = TRUE] ELSE found[t]]
  /\ UNCHANGED <<place, queue, file, web>>

(* The connector waits no longer and answers no results; the scan goes on. *)
GiveUp(w) ==
  /\ hand[w].at = "asked" /\ Fault
  /\ hand' = [hand EXCEPT ![w] = [at |-> "answered", target |-> hand[w].target, version |-> 0]]
  /\ found' = [found EXCEPT ![hand[w].target].failed = TRUE]
  /\ UNCHANGED <<place, queue, scan, file, web>>

Commit(w) ==
  /\ hand[w].at = "answered"
  /\ LET t == hand[w].target IN
     /\ found' = [found EXCEPT ![t].version = hand[w].version]
     /\ place' = [place EXCEPT ![t] = "done"]
  /\ hand' = [hand EXCEPT ![w] = Free]
  /\ UNCHANGED <<queue, scan, file, web, faults>>

(* A question to the database fails, or wait_for's own time is over first: the list of dead *)
(* lookups, which nothing reads.  A crash just loses it.                                     *)
Drop(w, there) ==
  /\ hand[w] # Free /\ Fault
  /\ place' = [place EXCEPT ![hand[w].target] = there]
  /\ hand' = [hand EXCEPT ![w] = Free]
  /\ UNCHANGED <<queue, scan, file, found, web>>
LookupFails(w) == Drop(w, "dead")
Crash(w) == Drop(w, "lost")

NewProfiles ==
  /\ web < MaxWeb /\ web' = web + 1
  /\ UNCHANGED <<place, queue, hand, scan, file, found, faults>>

Next ==
  \/ \E t \in Targets :
       Store(t) \/ Push(t) \/ PushFails(t) \/ Begin(t) \/ Write(t) \/ Wrote(t) \/ ToolFails(t)
       \/ ToolTimesOut(t) \/ Read(t)
  \/ \E w \in Lookers : Pop(w) \/ Ask(w) \/ GiveUp(w) \/ Commit(w) \/ LookupFails(w) \/ Crash(w)
  \/ ServiceRestarts \/ NewProfiles

Spec == Init /\ [][Next]_vars

-----------------------------------------------------------------------------
(* A lookup is never answered with profiles older than its own scan, and the profiles of a  *)
(* username are only missed by a scan that failed or was waited for no longer; except that  *)
(* scans of one username at a time share the file, where one can miss or misread what the   *)
(* other removes, opens or leaves.  Only a finished lookup has results                      *)
(* (osint_worker.py:34-89, osint_maigret.py:15-27, maigret main.py:46-82).                  *)
LookupsBacked ==
  \A t \in Targets :
    IF place[t] # "done" THEN found[t].version = 0
    ELSE NameOf[t] \in Names /\ ~found[t].crossed =>
           IF found[t].version = 0 THEN found[t].failed
           ELSE found[t].version >= found[t].from
=============================================================================

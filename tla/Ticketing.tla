----------------------------- MODULE Ticketing -----------------------------
(***************************************************************************)
(* The ticketing worker (services/worker/app/ticketing_worker.py): a cycle *)
(* reads the open cases once, creates or updates one remote ticket per     *)
(* case and provider over HTTP, and commits the links of all of them in    *)
(* one transaction at its end.  The case API changes the cases meanwhile.  *)
(*                                                                         *)
(* A ticket is the number of its creation at the remote, per case and      *)
(* provider; the fields a request sends are abstracted to the case status. *)
(* The list ticketing:pending is drained and never read, so it is left out.*)
(***************************************************************************)
EXTENDS Naturals, FiniteSets

CONSTANTS Cases,        \* cases of the API
          Providers,    \* providers with an active configuration
          Syncers,      \* ticketing workers, one per worker process
          MaxFaults,    \* bound on failed calls, failed commits and crashes
          MaxTickets,   \* bound on the tickets of a pair at the remote
          MaxEdits      \* bound on the changes of case statuses

TicketingAssumption ==
  MaxFaults \in Nat /\ MaxTickets \in Nat /\ MaxEdits \in Nat /\ IsFiniteSet(Syncers)

VARIABLES caseStatus,   \* cases.status, committed
          edits,        \* changes of them so far
          remote,       \* tickets created at the remote, per pair
          sent,         \* the case status the remote was last given, per pair
          links,        \* committed ticket_links rows, per pair
          cycle,        \* what each worker's cycle has read and still has to do
          aborted,      \* cycles that ended in a rollback, for whatever reason
          faults        \* faults so far

vars == <<caseStatus, edits, remote, sent, links, cycle, aborted, faults>>

Statuses == {"open", "resolved", "closed"}
Synced == {"open", "resolved"}
Pairs == Cases \X Providers
Tickets == 1..MaxTickets
Links == [Pairs -> SUBSET Tickets]      \* no unique key keeps a pair to one

Idle == [on |-> FALSE, read |-> [c \in Cases |-> "closed"], todo |-> {}, added |-> {}]

TypeOK ==
  /\ caseStatus \in [Cases -> Statuses]
  /\ edits \in 0..MaxEdits
  /\ remote \in [Pairs -> 0..MaxTickets]
  /\ sent \in [Pairs -> Statuses \cup {"nothing"}]
  /\ links \in Links
  /\ cycle \in [Syncers -> [on : BOOLEAN, read : [Cases -> Statuses],
                            todo : SUBSET Pairs, added : SUBSET (Pairs \X Tickets)]]
  /\ aborted \in Nat
  /\ faults \in 0..MaxFaults

Init ==
  /\ caseStatus = [c \in Cases |-> "open"]
  /\ edits = 0
  /\ remote = [p \in Pairs |-> 0]
  /\ sent = [p \in Pairs |-> "nothing"]
  /\ links = [p \in Pairs |-> {}]
  /\ cycle = [w \in Syncers |-> Idle]
  /\ aborted = 0
  /\ faults = 0

(* The tickets of p that cycle w has added and not yet committed. *)
Added(w, p) == {t \in Tickets : <<p, t>> \in cycle[w].added}

(* Defect form: the rows of other sessions are not looked up. *)
VisibleOwn(w, p) == Added(w, p)
(* The rows a SELECT of the cycle's session returns: committed ones and its own. *)
Visible(w, p) == links[p] \cup Added(w, p)

Fault == faults < MaxFaults /\ faults' = faults + 1

(* The exception leaves _sync_cycle and the session rolls back. *)
Rollback(w) == cycle' = [cycle EXCEPT ![w] = Idle] /\ aborted' = aborted + 1

-----------------------------------------------------------------------------
(* PATCH /cases sets any status of the list. *)
SetStatus(c, s) ==
  /\ edits < MaxEdits /\ s # caseStatus[c]
  /\ edits' = edits + 1
  /\ caseStatus' = [caseStatus EXCEPT ![c] = s]
  /\ UNCHANGED <<remote, sent, links, cycle, aborted, faults>>

(* _sync_cycle starts: the cases to sync are read once for the whole cycle. *)
StartCycle(w) ==
  /\ ~cycle[w].on
  /\ cycle' = [cycle EXCEPT ![w] =
       [on |-> TRUE, read |-> caseStatus, added |-> {},
        todo |-> {p \in Pairs : caseStatus[p[1]] \in Synced}]]
  /\ UNCHANGED <<caseStatus, edits, remote, sent, links, aborted, faults>>

(* update_ticket answers with success or with an error; the row stays either way. *)
Update(w, p) ==
  /\ p \in cycle[w].todo /\ Cardinality(Visible(w, p)) = 1
  /\ cycle' = [cycle EXCEPT ![w].todo = @ \ {p}]
  /\ \/ sent' = [sent EXCEPT ![p] = cycle[w].read[p[1]]] /\ UNCHANGED faults
     \/ Fault /\ UNCHANGED sent
  /\ UNCHANGED <<caseStatus, edits, remote, links, aborted>>

(* create_ticket answers: a link joins the transaction, or nothing does. *)
Create(w, p) ==
  /\ p \in cycle[w].todo /\ Visible(w, p) = {} /\ remote[p] < MaxTickets
  /\ \/ /\ remote' = [remote EXCEPT ![p] = @ + 1]
        /\ sent' = [sent EXCEPT ![p] = cycle[w].read[p[1]]]
        /\ cycle' = [cycle EXCEPT ![w].todo = @ \ {p},
                                  ![w].added = @ \cup {<<p, remote[p] + 1>>}]
        /\ UNCHANGED faults
     \/ /\ Fault
        /\ cycle' = [cycle EXCEPT ![w].todo = @ \ {p}]
        /\ UNCHANGED <<remote, sent>>
  /\ UNCHANGED <<caseStatus, edits, links, aborted>>

(* create_ticket raises (a timeout, a lost connection), perhaps after the remote *)
(* has created the ticket.                                                       *)
CreateRaises(w, p) ==
  /\ p \in cycle[w].todo /\ Visible(w, p) = {} /\ remote[p] < MaxTickets
  /\ Fault
  /\ Rollback(w)
  /\ remote' \in {remote, [remote EXCEPT ![p] = @ + 1]}
  /\ UNCHANGED <<caseStatus, edits, sent, links>>

(* scalar_one_or_none raises on two rows: no fault is needed for it. *)
DuplicateRaises(w, p) ==
  /\ p \in cycle[w].todo /\ Cardinality(Visible(w, p)) > 1
  /\ aborted <= MaxTickets
  /\ Rollback(w)
  /\ UNCHANGED <<caseStatus, edits, remote, sent, links, faults>>

(* The commit at the end of the cycle. *)
Commit(w) ==
  /\ cycle[w].on /\ cycle[w].todo = {}
  /\ links' = [p \in Pairs |-> links[p] \cup Added(w, p)]
  /\ cycle' = [cycle EXCEPT ![w] = Idle]
  /\ UNCHANGED <<caseStatus, edits, remote, sent, aborted, faults>>

(* A failed statement or commit, an update that raises, a crash of the process. *)
Abort(w) ==
  /\ cycle[w].on
  /\ Fault
  /\ Rollback(w)
  /\ UNCHANGED <<caseStatus, edits, remote, sent, links>>

Work(w) == StartCycle(w) \/ Commit(w) \/ \E p \in Pairs : Update(w, p) \/ Create(w, p)

Next ==
  \/ \E c \in Cases, s \in Statuses : SetStatus(c, s)
  \/ \E w \in Syncers : StartCycle(w) \/ Commit(w) \/ Abort(w)
  \/ \E w \in Syncers, p \in Pairs :
       Update(w, p) \/ Create(w, p) \/ CreateRaises(w, p) \/ DuplicateRaises(w, p)

(* The loop of start() runs a cycle after the other. *)
Fairness == \A w \in Syncers : WF_vars(Work(w))

Spec == Init /\ [][Next]_vars /\ Fairness

-----------------------------------------------------------------------------
(* Every remote ticket beyond one per worker process was created by a cycle that *)
(* was rolled back after the call: the select before create_ticket sees whatever  *)
(* an earlier cycle committed (ticketing_worker.py:76-105, 111).                  *)
(* And a case never has more links to one provider than there are processes: no   *)
(* unique constraint holds them together, only the select of each cycle.          *)
TicketsAccounted ==
  \A p \in Pairs : /\ remote[p] <= Cardinality(Syncers) + aborted
                    /\ Cardinality(links[p]) <= Cardinality(Syncers)

(* Once the cases settle, every ticket of a case that is synced settles on its status, *)
(* unless two links of one case and provider stop every later cycle.                   *)
TicketCatchesUp ==
  \/ <>(\E q \in Pairs : Cardinality(links[q]) > 1)
  \/ <>[](\A p \in Pairs : caseStatus[p[1]] \in Synced => sent[p] = caseStatus[p[1]])
=============================================================================

--------------------------- MODULE IncidentStitching ---------------------------
(***************************************************************************)
(* Noise reduction before triage: the transaction in which a triage        *)
(* consumer stitches an alert to an incident through the entities they     *)
(* share, counts it, adds its risk and commits.  The transaction stays     *)
(* open during the analysis, minutes when the LLM is asked.                *)
(*                                                                         *)
(* PostgreSQL runs it at READ COMMITTED.  A statement sees what was        *)
(* committed before it began.  The update of entities.last_seen locks the  *)
(* row until the transaction ends, and an insert waits for a transaction   *)
(* that has inserted the same (tenant, type, value).  Alerts dropped by    *)
(* level or by a drop list, and manual requests, touch no incident and     *)
(* are left out.  So is the correlation handler of agent runs, the     *)
(* other caller of stitch_incident.                                        *)
(***************************************************************************)
EXTENDS Naturals, Sequences, FiniteSets

CONSTANTS
    Consumers,       \* triage consumers, each with its own session
    Alerts,          \* alerts of one tenant
    Entities,        \* values that extract_entities may find
    Incidents,       \* primary keys of incidents
    EntitiesOf,      \* the entities of an alert, in the order of extraction, without repeats
    Risk,            \* the risk score of an alert
    HasCase,         \* alerts that already have a case
    SuppressAfter,   \* settings.noise_dedup_suppress_after
    Threshold,       \* settings.incident_auto_case_threshold
    Shadow,          \* TRUE in shadow mode
    GateReturns,     \* TRUE if L0/L1 decisions end the triage (not shadow_still_triages)
    MaxDeliveries,   \* bound: how often each alert is delivered
    MaxAged,         \* bound: how many incidents leave the look-back window
    None

ASSUME StitchAssumption ==
    /\ EntitiesOf \in [Alerts -> Seq(Entities)]
    /\ Risk \in [Alerts -> Nat]
    /\ HasCase \subseteq Alerts
    /\ SuppressAfter \in Nat /\ Threshold \in Nat /\ MaxDeliveries \in [Alerts -> Nat] /\ MaxAged \in Nat
    /\ Shadow \in BOOLEAN /\ GateReturns \in BOOLEAN
    /\ None \notin Incidents /\ None \notin Alerts

VARIABLES
    entities,    \* committed rows of entities
    made,        \* committed incidents; all have status open
    aged,        \* those whose first_alert_at is more than six hours ago
    links,       \* incident_entities
    count,       \* alert_count
    risk,        \* cumulative_risk_score
    due,         \* alerts with a message on triage_queue
    deliveries,  \* messages of an alert taken so far
    pc,          \* where each consumer stands
    work,        \* the alert it works on
    n,           \* how many of its entities it has touched
    sees,        \* whether it found the next entity's row
    mine,        \* the incident it joins or creates
    newCount,    \* the alert_count it writes
    newRisk,     \* the cumulative_risk_score it read
    attached,    \* history: committed attachments of deliveries to an incident
    members,     \* history: the alerts so attached
    owed         \* history: the risk of the committed triages of an incident

tables   == <<entities, made, aged, links, count, risk>>
session  == <<n, sees, mine, newCount, newRisk>>
history  == <<attached, members, owed>>
vars     == <<tables, due, deliveries, pc, work, session, history>>

Places == {"idle", "select", "touch", "find", "join", "attached", "committed"}

TypeOK ==
    /\ entities \subseteq Entities
    /\ made \subseteq Incidents /\ aged \subseteq made
    /\ links \in [Incidents -> SUBSET Entities]
    /\ count \in [Incidents -> Nat] /\ risk \in [Incidents -> Nat]
    /\ due \subseteq Alerts /\ deliveries \in [Alerts -> Nat]
    /\ pc \in [Consumers -> Places]
    /\ work \in [Consumers -> Alerts \union {None}]
    /\ n \in [Consumers -> Nat] /\ sees \in [Consumers -> BOOLEAN]
    /\ mine \in [Consumers -> Incidents \union {None}]
    /\ newCount \in [Consumers -> Nat] /\ newRisk \in [Consumers -> Nat]
    /\ attached \in [Incidents -> Nat] /\ owed \in [Incidents -> Nat]
    /\ members \in [Incidents -> SUBSET Alerts]

Init ==
    /\ entities = {} /\ made = {} /\ aged = {}
    /\ links = [i \in Incidents |-> {}]
    /\ count = [i \in Incidents |-> 0] /\ risk = [i \in Incidents |-> 0]
    /\ due = Alerts /\ deliveries = [a \in Alerts |-> 0]
    /\ pc = [c \in Consumers |-> "idle"] /\ work = [c \in Consumers |-> None]
    /\ n = [c \in Consumers |-> 0] /\ sees = [c \in Consumers |-> FALSE]
    /\ mine = [c \in Consumers |-> None]
    /\ newCount = [c \in Consumers |-> 0] /\ newRisk = [c \in Consumers |-> 0]
    /\ attached = [i \in Incidents |-> 0] /\ owed = [i \in Incidents |-> 0]
    /\ members = [i \in Incidents |-> {}]
-------------------------------------------------------------------------------
(* Sessions and row locks.                                                 *)

InTransaction(c) == pc[c] \notin {"idle", "committed"}

\* Rows of entities that c has updated or inserted and not committed.
Held(c) == IF InTransaction(c) THEN {EntitiesOf[work[c]][k] : k \in 1 .. n[c]} ELSE {}

NextEntity(c) == EntitiesOf[work[c]][n[c] + 1]

\* The end of a session: everything it has in memory and every lock is gone.
Close(c) ==
    /\ pc' = [pc EXCEPT ![c] = "idle"]
    /\ work' = [work EXCEPT ![c] = None]
    /\ n' = [n EXCEPT ![c] = 0]
    /\ sees' = [sees EXCEPT ![c] = FALSE]
    /\ mine' = [mine EXCEPT ![c] = None]
    /\ newCount' = [newCount EXCEPT ![c] = 0]
    /\ newRisk' = [newRisk EXCEPT ![c] = 0]

\* The job is pushed on triage_dlq and comes back, until its retries are used up.
Redeliver(c) ==
    due' = IF deliveries[work[c]] < MaxDeliveries[work[c]] THEN due \union {work[c]} ELSE due

\* An exception before the commit: the session rolls back, the job is dead-lettered.
RollBack(c) ==
    /\ Close(c) /\ Redeliver(c)
    /\ UNCHANGED <<tables, deliveries, history>>
-------------------------------------------------------------------------------
(* process_message up to the incident.                                     *)

Take(c, a) ==
    /\ pc[c] = "idle" /\ a \in due
    /\ due' = due \ {a}
    /\ deliveries' = [deliveries EXCEPT ![a] = @ + 1]
    /\ work' = [work EXCEPT ![c] = a]
    /\ pc' = [pc EXCEPT ![c] = IF EntitiesOf[a] = <<>> THEN "find" ELSE "select"]
    /\ UNCHANGED <<tables, session, history>>

SelectEntity(c) ==
    /\ pc[c] = "select"
    /\ sees' = [sees EXCEPT ![c] = NextEntity(c) \in entities]
    /\ pc' = [pc EXCEPT ![c] = "touch"]
    /\ UNCHANGED <<tables, due, deliveries, work, n, mine, newCount, newRisk, history>>

\* Mutant: an entity is found without being written, so that nothing is locked.
NeverLocked(c) == TRUE

\* The update of last_seen, or the insert, waits for the session that holds the row.
Unlocked(c) == \A d \in Consumers \ {c} : NextEntity(c) \notin Held(d)

TouchEntity(c) ==
    /\ pc[c] = "touch" /\ Unlocked(c)
    /\ sees[c] \/ NextEntity(c) \notin entities
    /\ n' = [n EXCEPT ![c] = @ + 1]
    /\ pc' = [pc EXCEPT ![c] = IF n[c] + 1 = Len(EntitiesOf[work[c]]) THEN "find" ELSE "select"]
    /\ UNCHANGED <<tables, due, deliveries, work, sees, mine, newCount, newRisk, history>>

\* Another session has committed the row in the meantime: the insert violates
\* UNIQUE (tenant_id, entity_type, value), and the handler's rollback call raises.
DuplicateEntity(c) ==
    /\ pc[c] = "touch" /\ ~sees[c] /\ NextEntity(c) \in entities
    /\ RollBack(c)

\* Mutant: an incident must have every entity of the alert.
CandidatesWithAll(c) ==
    {i \in made \ aged : Held(c) # {} /\ Held(c) \subseteq links[i]}

\* Which of several is the most recent is left open.
Candidates(c) == {i \in made \ aged : Held(c) \intersect links[i] # {}}

FindIncident(c, i) ==
    /\ pc[c] = "find" /\ i \in Candidates(c)
    /\ mine' = [mine EXCEPT ![c] = i]
    /\ newCount' = [newCount EXCEPT ![c] = count[i] + 1]
    /\ newRisk' = [newRisk EXCEPT ![c] = risk[i]]
    /\ pc' = [pc EXCEPT ![c] = "join"]
    /\ UNCHANGED <<tables, due, deliveries, work, n, sees, history>>

\* The update of the incident waits for the session that has written it.
JoinIncident(c) ==
    /\ pc[c] = "join"
    /\ \A d \in Consumers \ {c} : ~(pc[d] = "attached" /\ mine[d] = mine[c])
    /\ pc' = [pc EXCEPT ![c] = "attached"]
    /\ UNCHANGED <<tables, due, deliveries, work, session, history>>

\* A fresh key: of no committed row and of no open transaction.
Unused(i) == i \notin made /\ \A d \in Consumers : mine[d] # i

CreateIncident(c) ==
    /\ pc[c] = "find" /\ Candidates(c) = {}
    /\ \E i \in Incidents : Unused(i)
    /\ mine' = [mine EXCEPT ![c] = CHOOSE i \in Incidents : Unused(i)]
    /\ newCount' = [newCount EXCEPT ![c] = 1]
    /\ pc' = [pc EXCEPT ![c] = "attached"]
    /\ UNCHANGED <<tables, due, deliveries, work, n, sees, newRisk, history>>
-------------------------------------------------------------------------------
(* The noise decision, the analysis and the commit.                        *)

\* What every commit writes of an attachment.
Attach(c) ==
    LET i == mine[c] IN
    /\ entities' = entities \union Held(c)
    /\ made' = made \union {i}
    /\ links' = [links EXCEPT ![i] = @ \union Held(c)]
    /\ count' = [count EXCEPT ![i] = newCount[c]]
    /\ attached' = [attached EXCEPT ![i] = @ + 1]
    /\ members' = [members EXCEPT ![i] = @ \union {work[c]}]
    /\ UNCHANGED aged

Noise(c) == newCount[c] > SuppressAfter

\* should_triage is false: the attachment is committed and the job is done, unless
\* the increment of triage_suppressed_total raises after the commit.
Suppress(c) ==
    /\ pc[c] = "attached" /\ Noise(c)
    /\ Attach(c) /\ Close(c)
    /\ UNCHANGED due \/ Redeliver(c)
    /\ UNCHANGED <<risk, deliveries, owed>>

\* An L0 decision that is enforced commits the attachment too.
GateCommit(c) ==
    /\ pc[c] = "attached" /\ ~Noise(c) /\ GateReturns /\ ~Shadow
    /\ Attach(c) /\ Close(c)
    /\ UNCHANGED <<risk, due, deliveries, owed>>

\* L0 in shadow mode, and L1 in either mode, return without a commit.
GateReturn(c) ==
    /\ pc[c] = "attached" /\ ~Noise(c) /\ GateReturns
    /\ Close(c)
    /\ UNCHANGED <<tables, due, deliveries, history>>

RiskWithAlert(c) == newRisk[c] + Risk[work[c]]

NeedsAutoCase(c) ==
    ~Shadow /\ RiskWithAlert(c) >= Threshold /\ work[c] \notin HasCase

\* The analysis ends, and the verdict is committed with the attachment.
CommitVerdict(c) ==
    /\ pc[c] = "attached" /\ ~Noise(c) /\ ~NeedsAutoCase(c)
    /\ Attach(c)
    /\ risk' = [risk EXCEPT ![mine[c]] = RiskWithAlert(c)]
    /\ owed' = [owed EXCEPT ![mine[c]] = @ + Risk[work[c]]]
    /\ pc' = [pc EXCEPT ![c] = "committed"]
    /\ UNCHANGED <<due, deliveries, work, session>>

\* The automatic case is inserted without a tenant_id, which is NOT NULL.  The
\* failed flush is caught, but the commit then raises.
AutoCaseFails(c) ==
    /\ pc[c] = "attached" /\ ~Noise(c) /\ NeedsAutoCase(c)
    /\ RollBack(c)

\* Caches, UEBA, playbooks and the push on ti_enrich_queue.
Finish(c) ==
    /\ pc[c] = "committed"
    /\ Close(c)
    /\ UNCHANGED <<tables, due, deliveries, history>>

\* The push raises after the commit: the alert is triaged again.
FinishFails(c) ==
    /\ pc[c] = "committed"
    /\ Close(c) /\ Redeliver(c)
    /\ UNCHANGED <<tables, deliveries, history>>

\* Mutant: the increment was committed on its own before the failure.
FailsCounted(c) ==
    /\ InTransaction(c) /\ Close(c) /\ Redeliver(c)
    /\ count' = IF pc[c] = "attached" /\ mine[c] \in made
                THEN [count EXCEPT ![mine[c]] = newCount[c]] ELSE count
    /\ UNCHANGED <<entities, made, aged, links, risk, deliveries, history>>

\* Any other exception inside the transaction.
Fails(c) == InTransaction(c) /\ RollBack(c)

\* The popped job dies with the process.
Crash(c) ==
    /\ pc[c] # "idle"
    /\ Close(c)
    /\ UNCHANGED <<tables, due, deliveries, history>>

WaitsFor(c, d) ==
    \/ pc[c] = "touch" /\ NextEntity(c) \in Held(d)
    \/ pc[c] = "join" /\ pc[d] = "attached" /\ mine[d] = mine[c]

\* Mutant: the rows are locked by something that does not look for cycles.
NoDeadlockAbort(c) == FALSE

\* PostgreSQL aborts a transaction of a cycle of waits.
DeadlockAbort(c) ==
    /\ \E S \in SUBSET Consumers :
          c \in S /\ \A d \in S : \E e \in S \ {d} : WaitsFor(d, e)
    /\ RollBack(c)

Age(i) ==
    /\ i \in made \ aged /\ Cardinality(aged) < MaxAged
    /\ aged' = aged \union {i}
    /\ UNCHANGED <<entities, made, links, count, risk, due, deliveries, pc, work, session, history>>
-------------------------------------------------------------------------------
Next ==
    \/ \E c \in Consumers :
          \/ \E a \in Alerts : Take(c, a)
          \/ SelectEntity(c) \/ TouchEntity(c) \/ DuplicateEntity(c)
          \/ \E i \in Incidents : FindIncident(c, i)
          \/ JoinIncident(c) \/ CreateIncident(c)
          \/ Suppress(c) \/ GateCommit(c) \/ GateReturn(c)
          \/ CommitVerdict(c) \/ AutoCaseFails(c)
          \/ Finish(c) \/ FinishFails(c) \/ Fails(c) \/ Crash(c) \/ DeadlockAbort(c)
    \/ \E i \in Incidents : Age(i)

Spec == Init /\ [][Next]_vars

\* A consumer goes on whenever it can; PostgreSQL looks for deadlocks.  Nothing
\* is assumed of failures, of crashes, of time or of new messages.
Fairness ==
    \A c \in Consumers :
       /\ WF_vars(SelectEntity(c))
       /\ WF_vars(TouchEntity(c) \/ DuplicateEntity(c))
       /\ WF_vars((\E i \in Incidents : FindIncident(c, i)) \/ CreateIncident(c))
       /\ WF_vars(JoinIncident(c))
       /\ WF_vars(Suppress(c) \/ CommitVerdict(c) \/ AutoCaseFails(c))
       /\ WF_vars(DeadlockAbort(c))

FairSpec == Spec /\ Fairness
-------------------------------------------------------------------------------
(* Properties.                                                             *)

\* Two sessions never hold the same entity.
LocksExclusive ==
    \A c, d \in Consumers : c # d => Held(c) \intersect Held(d) = {}

\* What a session knows where it stands; from the search on it holds every entity
\* of its alert.
SessionShape ==
    \A c \in Consumers :
       /\ pc[c] = "idle" => n[c] = 0
       /\ pc[c] # "idle" => work[c] \in Alerts
       /\ pc[c] \in {"select", "touch"} => n[c] < Len(EntitiesOf[work[c]])
       /\ pc[c] \in {"find", "join", "attached"} => n[c] = Len(EntitiesOf[work[c]])
       /\ pc[c] \in {"join", "attached", "committed"} => mine[c] \in Incidents
       /\ pc[c] \in {"join", "committed"} => mine[c] \in made

Fresh(c) == pc[c] = "attached" /\ mine[c] \notin made

\* No committed incident in the window shares an entity with one being created.
FreshAlone ==
    \A c \in Consumers :
       Fresh(c) => \A j \in made \ aged : links[j] \intersect Held(c) = {}

OneCreator ==
    \A c, d \in Consumers : c # d /\ Fresh(c) /\ Fresh(d) => mine[c] # mine[d]

UnmadeUnlinked ==
    \A i \in Incidents \ made : links[i] = {}

\* Inductive: what the row locks of entities give to the search for an incident
\* (correlation/stitch.py).
StitchInv ==
    TypeOK /\ LocksExclusive /\ SessionShape /\ FreshAlone /\ OneCreator /\ UnmadeUnlinked

\* An incident is created only if no open incident of the last six hours shares an
\* entity with it, however many consumers stitch at the same time and in whatever
\* order they touch the entities (stitch_incident).
FreshIncidentIsAlone ==
    [][\A i \in made' \ made : \A j \in (made' \ aged') \ {i} : links'[i] \intersect links'[j] = {}]_vars

\* An alert is suppressed as noise only if its incident has at least SuppressAfter
\* deliveries before it: failures, crashes and repeated deliveries never inflate
\* alert_count or cumulative_risk_score beyond what was committed (noise_reduction.py).
SuppressionIsEarned ==
    /\ \A i \in Incidents : count[i] <= attached[i] /\ risk[i] <= owed[i]
    /\ \A c \in Consumers :
          pc[c] \in {"join", "attached"} =>
             newCount[c] <= attached[mine[c]] + 1 /\ newRisk[c] <= owed[mine[c]]

\* Inductive with StitchInv: nothing is read of an incident before it is found.
EarnedInv ==
    /\ SuppressionIsEarned
    /\ \A c \in Consumers : pc[c] \in {"idle", "select", "touch", "find"} => newRisk[c] = 0

Share(a, b) == \E j \in DOMAIN EntitiesOf[a], k \in DOMAIN EntitiesOf[b] : EntitiesOf[a][j] = EntitiesOf[b][k]

\* Counter and risk are exact for an incident any two alerts of which share an
\* entity: the locks on entities serialise their read-modify-writes (stitch.py:141,
\* triage_worker.py:535).
ExactWhenShared ==
    \A i \in Incidents :
       (\A a, b \in members[i] : Share(a, b)) => count[i] = attached[i] /\ risk[i] = owed[i]

\* Every transaction ends, though two consumers may wait for each other's entities.
TransactionsEnd ==
    \A c \in Consumers : InTransaction(c) ~> ~InTransaction(c)
================================================================================

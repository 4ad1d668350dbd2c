----------------------------- MODULE KillChain -----------------------------
(***************************************************************************)
(* The kill-chain stage of one open incident                               *)
(* (shared/correlation/killchain.py, the correlation handler of the agents *)
(* in shared/orchestrator/handlers.py).  A handler reads the incident when *)
(* it looks for one (stitch.py), takes the row lock with its first UPDATE, *)
(* computes the stage from the tactics it then sees and writes it back     *)
(* over whatever another handler has committed since the read.  It sees    *)
(* every alert that shares an entity with the incident, members of other   *)
(* incidents and of older ones included.                                   *)
(***************************************************************************)
EXTENDS Integers, Sequences, FiniteSets, FiniteSetsExt, SequencesExt

CONSTANTS Alerts,       \* alerts of the tenant
          EntitiesOf,   \* the entities of each one (an alert without any has an incident
                        \* of its own, which no other alert finds)
          StageOfAlert, \* the stage of each one's tactic, "none" without a tactic
          OtherStages,  \* stages of alerts that share no entity with these
          Handlers,     \* correlation handlers at work
          MaxRuns       \* bound on their runs

STAGE_ORDER ==
  <<"initial_access", "execution", "persistence", "privilege_escalation", "defense_evasion",
    "credential_access", "discovery", "lateral_movement", "collection",
    "command_and_control", "exfiltration", "impact">>

(* A tactic outside the table counts as "unknown". *)
Stages == ToSet(STAGE_ORDER) \cup {"unknown"}
ADVANCING_STAGES == {"lateral_movement", "exfiltration", "impact"}
NoTactic == "none"

KillChainAssumption ==
  /\ DOMAIN EntitiesOf = Alerts /\ \A a \in Alerts : EntitiesOf[a] # {}
  /\ StageOfAlert \in [Alerts -> Stages \cup {NoTactic}]
  /\ OtherStages \subseteq Stages /\ MaxRuns \in Nat

VARIABLES incident,     \* the committed row: stage, history, whether an SLA is set
          linked,       \* alerts committed as members
          elsewhere,    \* alerts committed as members of other incidents
          run,          \* what each handler has read and computed
          runs,         \* runs so far
          correlated,   \* alerts seen by the computation of a committed run (history)
          guessed       \* whether a committed run fell back on other alerts (history)

vars == <<incident, linked, elsewhere, run, runs, correlated, guessed>>

_stage_index(s) == IF s = "unknown" THEN 0 ELSE CHOOSE i \in 1..Len(STAGE_ORDER) : STAGE_ORDER[i] = s

(* Defect form: the same stage counts as an advance. *)
_is_advancementOrEqual(current, candidate) == _stage_index(candidate) >= _stage_index(current)
_is_advancement(current, candidate) == _stage_index(candidate) > _stage_index(current)

Furthest(S) == CHOOSE s \in S : \A t \in S : _stage_index(t) <= _stage_index(s)
Tactics(A) == {StageOfAlert[a] : a \in A} \ {NoTactic}

Shares(a, members) == EntitiesOf[a] \cap UNION {EntitiesOf[m] : m \in members} # {}

(* The alerts that share an entity with an incident of these members. *)
Visible(members) == {a \in members \cup elsewhere : Shares(a, members)}

Idle == [at |-> "idle"]

(* The rows of an alert's entities are updated, and locked, before an incident is looked for. *)
Unheld(a) == \A h \in Handlers : run[h] # Idle => EntitiesOf[run[h].alert] \cap EntitiesOf[a] = {}
Incident == [stage : Stages, history : Seq(Stages \X Stages), sla : BOOLEAN]
TypeOK ==
  /\ incident \in Incident
  /\ linked \subseteq Alerts /\ elsewhere \subseteq Alerts /\ correlated \subseteq Alerts
  /\ \A h \in Handlers : run[h].at \in {"idle", "read", "computed"}
  /\ runs \in 0..MaxRuns /\ guessed \in BOOLEAN

Init ==
  /\ incident = [stage |-> "unknown", history |-> <<>>, sla |-> FALSE]
  /\ \E a \in Alerts : linked = {a} /\ elsewhere \in SUBSET (Alerts \ {a})
  /\ run = [h \in Handlers |-> Idle]
  /\ runs = 0
  /\ correlated = {}
  /\ guessed = FALSE

-----------------------------------------------------------------------------
Unlocked == \A h \in Handlers : run[h].at # "computed"

(* A triage worker stitches an alert, also one of another incident, and computes no stage. *)
Stitch(a) ==
  /\ a \notin linked /\ Shares(a, linked) /\ Unheld(a) /\ Unlocked
  /\ linked' = linked \cup {a}
  /\ UNCHANGED <<incident, elsewhere, run, runs, correlated, guessed>>

(* The alert has another incident: none was found that is open and recent and shares an *)
(* entity with it, or one that had an alert later than this one.                        *)
StitchElsewhere(a) ==
  /\ a \notin linked \cup elsewhere /\ Unheld(a)
  /\ elsewhere' = elsewhere \cup {a}
  /\ UNCHANGED <<incident, linked, run, runs, correlated, guessed>>

(* stitch_incident finds the incident for the first alert of the run. *)
Find(h, a) ==
  /\ run[h] = Idle /\ Shares(a, linked) /\ Unheld(a) /\ runs < MaxRuns
  /\ runs' = runs + 1
  /\ run' = [run EXCEPT ![h] = [at |-> "read", alert |-> a, read |-> incident]]
  /\ UNCHANGED <<incident, linked, elsewhere, correlated, guessed>>

(* compute_killchain_stage on the incident that was read, from the tactics it found. *)
Advanced(read, found) ==
  IF found # {} /\ _is_advancement(read.stage, Furthest(found))
    THEN [read EXCEPT !.stage = Furthest(found),
                      !.history = Append(@, <<read.stage, Furthest(found)>>)]
    ELSE read

(* The handler's SLA: set when the stage is an advancing one and none was read. *)
WithSla(read, i) == [i EXCEPT !.sla = read.sla \/ i.stage \in ADVANCING_STAGES]

(* The UPDATE of the counters takes the row lock; the tactics that the entities of the *)
(* incident lead to are selected under it.  When there is none, a second query takes   *)
(* the latest tactics of any alerts with entities, as it forgets to name the incident. *)
Compute(h) ==
  /\ run[h].at = "read" /\ Unlocked
  /\ LET found == Visible(linked \cup {run[h].alert})
         read == run[h].read
         other == IF Tactics(found) = {} THEN SUBSET (OtherStages \cup Tactics(elsewhere)) ELSE {{}}
     IN  \E extra \in other :
           LET new == WithSla(read, Advanced(read, Tactics(found) \cup extra))
           IN  run' = [run EXCEPT ![h] = [at |-> "computed", alert |-> run[h].alert,
                                          read |-> read, new |-> new, found |-> found,
                                          guess |-> extra # {}]]
  /\ UNCHANGED <<incident, linked, elsewhere, runs, correlated, guessed>>

(* The engine commits: the columns that differ from what was read are written. *)
Commit(h) ==
  /\ run[h].at = "computed"
  /\ LET r == run[h] IN
       /\ incident' = [stage |-> IF r.new.stage # r.read.stage THEN r.new.stage ELSE incident.stage,
                       history |-> IF r.new.history # r.read.history THEN r.new.history
                                                                     ELSE incident.history,
                       sla |-> incident.sla \/ r.new.sla]
       /\ linked' = linked \cup {r.alert}
       /\ correlated' = correlated \cup r.found
       /\ guessed' = (guessed \/ r.guess)
  /\ run' = [run EXCEPT ![h] = Idle]
  /\ UNCHANGED <<runs, elsewhere>>

(* A database error or a crash: the lock goes and nothing is written.  (Any other error *)
(* of the handler only fails its task: the engine goes on and commits.)                  *)
Abort(h) ==
  /\ run[h] # Idle
  /\ run' = [run EXCEPT ![h] = Idle]
  /\ UNCHANGED <<incident, linked, elsewhere, runs, correlated, guessed>>

Next ==
  \/ \E a \in Alerts : Stitch(a) \/ StitchElsewhere(a)
  \/ \E h \in Handlers, a \in Alerts : Find(h, a)
  \/ \E h \in Handlers : Compute(h) \/ Commit(h) \/ Abort(h)

Spec == Init /\ [][Next]_vars

-----------------------------------------------------------------------------
(* The stage is explained by the history, a chain of strict advances from "unknown" to *)
(* it, although handlers overwrite each other's; an incident in an advancing stage has *)
(* an SLA; and unless a run guessed from unrelated alerts, the stage lies between what *)
(* the runs have seen and what the alerts that share an entity with the incident show  *)
(* (killchain.py:66-117, handlers.py:682-687).                                         *)
StageExplained ==
  LET H == incident.history IN
  /\ \A i \in 1..Len(H) :
       /\ _stage_index(H[i][2]) > _stage_index(H[i][1])
       /\ H[i][1] = IF i = 1 THEN "unknown" ELSE H[i - 1][2]
  /\ incident.stage = IF H = <<>> THEN "unknown" ELSE Last(H)[2]
  /\ incident.stage \in ADVANCING_STAGES => incident.sla
  /\ ~guessed =>
       /\ _stage_index(incident.stage) >= _stage_index(Furthest(Tactics(correlated) \cup {"unknown"}))
       /\ _stage_index(incident.stage) <= _stage_index(Furthest(Tactics(Visible(linked)) \cup {"unknown"}))

(* The stage is determined from the tactics of the member alerts (killchain.py:3-4, "from *)
(* its member alerts' MITRE tactics"), unless a run guessed.                              *)
StageIsOfMembers ==
  ~guessed => _stage_index(incident.stage) <= _stage_index(Furthest(Tactics(linked) \cup {"unknown"}))
=============================================================================

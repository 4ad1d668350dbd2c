----------------------------- MODULE AssetSync -----------------------------
(***************************************************************************)
(* The asset table (services/worker/app/asset_sync_worker.py): every       *)
(* cycle lists the manager's agents page by page while the fleet changes,  *)
(* then writes what it listed to the rows in one transaction.  Worker      *)
(* processes run their cycles side by side.                                *)
(*                                                                         *)
(* Agents are numbered as the manager lists them; an agent is abstracted   *)
(* to its status.  Rows are put there from outside: the worker inserts     *)
(* without the tenant that the schema requires.                            *)
(***************************************************************************)
EXTENDS Naturals, Sequences, FiniteSets

CONSTANTS Fleet,        \* agents are 1..Fleet
          PageSize,     \* agents on a page
          Syncers,      \* worker processes
          MaxCycles,    \* bound on cycles
          MaxChanges    \* bound on changes of the fleet and failures

AssetAssumption ==
  Fleet \in Nat \ {0} /\ PageSize \in Nat \ {0} /\ MaxCycles \in Nat /\ MaxChanges \in Nat

VARIABLES agents,       \* what the manager knows of each agent
          copies,       \* rows per agent: none, one, or one in each of two tenants
          asset,        \* the status in the row of each agent
          sync,         \* the cycle of each syncer
          lastRun,      \* asset_sync:last_run: what the cycle that set it has stored
          cycles, changes

vars == <<agents, copies, asset, sync, lastRun, cycles, changes>>

Agents == 1..Fleet
Statuses == {"active", "disconnected"}
Assets == [Agents -> Statuses]
Absent == "absent"      \* not registered
Rest == [at |-> "rest"]
Unread == [a \in Agents |-> "unread"]

TypeOK ==
  /\ agents \in [Agents -> Statuses \cup {Absent}] /\ asset \in Assets
  /\ copies \in [Agents -> 0..2]
  /\ \A s \in Syncers : sync[s].at \in {"rest", "listing", "storing", "stored"}
  /\ cycles \in 0..MaxCycles /\ changes \in 0..MaxChanges

Init ==
  /\ agents \in [Agents -> Statuses \cup {Absent}]
  /\ \E a \in Agents, n \in 0..2 : copies = [b \in Agents |-> IF b = a THEN n ELSE 1]
  /\ asset = [a \in Agents |-> "active"]     \* the default of the column
  /\ sync = [s \in Syncers |-> Rest]
  /\ lastRun = [set |-> FALSE]
  /\ cycles = 0 /\ changes = 0

-----------------------------------------------------------------------------
(* A cycle begins to list.  As history it keeps the agents that stay registered, the statuses *)
(* each has had, and whether an agent left, a page failed or another cycle committed.         *)
Start(s) ==
  /\ sync[s].at = "rest" /\ cycles < MaxCycles
  /\ cycles' = cycles + 1
  /\ sync' = [sync EXCEPT ![s] =
       [at |-> "listing", offset |-> 0, listed |-> <<>>, todo |-> <<>>, row |-> Unread,
        dirty |-> {},
        stay |-> {a \in Agents : agents[a] # Absent}, had |-> [a \in Agents |-> {agents[a]}],
        cut |-> FALSE, crossed |-> FALSE]]
  /\ UNCHANGED <<agents, copies, asset, lastRun, changes>>

(* The agents from an offset on: an agent's rank is its place in the manager's list. *)
Registered == {a \in Agents : agents[a] # Absent}
Rank(a) == Cardinality({b \in Registered : b <= a})
Page(offset) ==
  LET last == Cardinality(Registered)
      size == IF last <= offset THEN 0
              ELSE IF last - offset < PageSize THEN last - offset ELSE PageSize
      At(i) == CHOOSE a \in Registered : Rank(a) = offset + i
  IN [i \in 1..size |-> [agent |-> At(i), status |-> agents[At(i)]]]

(* Pages until one is empty. *)
Fetch(s) ==
  LET page == Page(sync[s].offset) IN
  /\ sync[s].at = "listing"
  /\ sync' = IF page = <<>>
             THEN [sync EXCEPT ![s].at = "storing", ![s].todo = sync[s].listed]
             ELSE [sync EXCEPT ![s].listed = @ \o page, ![s].offset = @ + PageSize]
  /\ UNCHANGED <<agents, copies, asset, lastRun, cycles, changes>>

(* get_agents answers any error with an empty page. *)
FetchFails(s) ==
  /\ sync[s].at = "listing"
  /\ changes < MaxChanges /\ changes' = changes + 1
  /\ sync' = [sync EXCEPT ![s].at = "storing", ![s].todo = sync[s].listed, ![s].cut = TRUE]
  /\ UNCHANGED <<agents, copies, asset, lastRun, cycles>>

(* An agent with one row, which the session reads the first time: the status is written if *)
(* it differs from what the session has.                                                    *)
Look(s) ==
  LET next == Head(sync[s].todo)
      has == IF sync[s].row[next.agent] = "unread" THEN asset[next.agent]
             ELSE sync[s].row[next.agent]
  IN
  /\ sync[s].at = "storing" /\ sync[s].todo # <<>> /\ copies[next.agent] = 1
  /\ sync' = [sync EXCEPT ![s].todo = Tail(@), ![s].row[next.agent] = next.status,
       ![s].dirty = IF has = next.status THEN @ ELSE @ \cup {next.agent}]
  /\ UNCHANGED <<agents, copies, asset, lastRun, cycles, changes>>

(* No row: the insert has no tenant.  Two: scalar_one_or_none raises.  The cycle is lost. *)
LookFails(s) ==
  /\ sync[s].at = "storing" /\ sync[s].todo # <<>> /\ copies[Head(sync[s].todo).agent] # 1
  /\ sync' = [sync EXCEPT ![s] = Rest]
  /\ UNCHANGED <<agents, copies, asset, lastRun, cycles, changes>>

Commit(s) ==
  LET after == [a \in Agents |-> IF a \in sync[s].dirty THEN sync[s].row[a] ELSE asset[a]] IN
  /\ sync[s].at = "storing" /\ sync[s].todo = <<>>
  /\ asset' = after
  /\ sync' = [t \in Syncers |->
       IF t = s THEN [at |-> "stored", cut |-> sync[s].cut, crossed |-> sync[s].crossed,
                      wrong |-> {a \in sync[s].stay : after[a] \notin sync[s].had[a]}]
       ELSE IF sync[t].at \in {"listing", "storing"} THEN [sync[t] EXCEPT !.crossed = TRUE]
       ELSE sync[t]]
  /\ UNCHANGED <<agents, copies, lastRun, cycles, changes>>

Finish(s) ==
  /\ sync[s].at = "stored"
  /\ lastRun' = [set |-> TRUE, by |-> sync[s]]
  /\ sync' = [sync EXCEPT ![s] = Rest]
  /\ UNCHANGED <<agents, copies, asset, cycles, changes>>

(* The database or Redis fails, or the process restarts. *)
Abort(s) ==
  /\ sync[s].at # "rest"
  /\ changes < MaxChanges /\ changes' = changes + 1
  /\ sync' = [sync EXCEPT ![s] = Rest]
  /\ UNCHANGED <<agents, copies, asset, lastRun, cycles>>

-----------------------------------------------------------------------------
(* An agent registers, connects, disconnects or is removed. *)
Change(a, status) ==
  /\ changes < MaxChanges /\ changes' = changes + 1
  /\ agents[a] # status /\ agents' = [agents EXCEPT ![a] = status]
  /\ sync' = [s \in Syncers |->
       IF sync[s].at \notin {"listing", "storing"} THEN sync[s]
       ELSE [sync[s] EXCEPT !.stay = IF status = Absent THEN @ \ {a} ELSE @,
                            !.had[a] = @ \cup {status},
                            !.cut = @ \/ status = Absent]]
  /\ UNCHANGED <<copies, asset, lastRun, cycles>>

Next ==
  \/ \E s \in Syncers :
       Start(s) \/ Fetch(s) \/ FetchFails(s) \/ Look(s) \/ LookFails(s) \/ Commit(s) \/ Finish(s)
       \/ Abort(s)
  \/ \E a \in Agents, status \in Statuses \cup {Absent} : Change(a, status)

Spec == Init /\ [][Next]_vars

-----------------------------------------------------------------------------
(* A cycle that committed has the rows of the agents that stayed registered as the manager *)
(* knew them at some moment of the cycle, however many pages it took and whatever agents   *)
(* joined or changed meanwhile; unless an agent left between two pages, a page failed, or  *)
(* another process committed in between.  The mark of the last run is only ever set by     *)
(* such a cycle (asset_sync_worker.py:67-127, wazuh_api.py:91-121).                        *)
Honest(c) == ~c.cut /\ ~c.crossed => c.wrong = {}
InventoryIsFresh ==
  /\ \A s \in Syncers : sync[s].at = "stored" => Honest(sync[s])
  /\ lastRun.set => Honest(lastRun.by)
=============================================================================

----------------------------- MODULE AgentRuns -----------------------------
(***************************************************************************)
(* Agent runs (shared/orchestrator/engine.py) from POST /agents/runs and   *)
(* the triggers through agent_queue to the agent workers.  The row of a    *)
(* run is committed before its message is pushed; the worker pops the      *)
(* message, executes the tasks of the run's definition in one transaction  *)
(* and commits the run and its task rows together.  What a handler sends   *)
(* (a push, an HTTP call) is out before that commit.                       *)
(*                                                                         *)
(* The definition of a run is abstracted to the sizes of its task groups   *)
(* (a task and the tasks after it that are marked parallel) and to which   *)
(* tasks are soar_run; a task to how it ends.                              *)
(***************************************************************************)
EXTENDS Naturals, Sequences

CONSTANTS Runs, Config,
          Playbooks,    \* <<run, group>>: the group is a soar_run task
          Spawners,     \* API handlers and trigger workers
          Workers,      \* agent workers
          MaxFaults     \* bound on database and Redis errors and crashes

ASSUME ConfigAssumption ==
  /\ Config \in [Runs -> Seq(Nat \ {0})]
  /\ Playbooks \subseteq Runs \X Nat
  /\ MaxFaults \in Nat

VARIABLES row,          \* agent_runs.status, committed
          tasks,        \* committed agent_tasks rows of each run, by status
          queue,        \* agent_queue
          spawn,        \* the runs a spawner has committed and not yet pushed
          exec,         \* what each worker executes
          stuck,        \* pending runs that no message and no worker stands for (history)
          faults        \* faults so far

vars == <<row, tasks, queue, spawn, exec, stuck, faults>>

Ended == {"completed", "failed"}
(* A worker's execution: its runs (one at most), the next group, the results so far *)
(* and whether its session needs a rollback.                                        *)
Idle == [run |-> {}, group |-> 1, results |-> <<>>, broken |-> FALSE]

TypeOK ==
  /\ row \in [Runs -> {"none", "pending", "running"} \cup Ended]
  /\ tasks \in [Runs -> Seq(Ended \cup {"running"})]
  /\ queue \in Seq(Runs)
  /\ spawn \in [Spawners -> SUBSET Runs]
  /\ exec \in [Workers -> [run : SUBSET Runs, group : Nat \ {0}, results : Seq(Ended),
                           broken : BOOLEAN]]
  /\ stuck \subseteq Runs
  /\ faults \in 0..MaxFaults

Init ==
  /\ row = [r \in Runs |-> "none"]
  /\ tasks = [r \in Runs |-> <<>>]
  /\ queue = <<>>
  /\ spawn = [s \in Spawners |-> {}]
  /\ exec = [w \in Workers |-> Idle]
  /\ stuck = {}
  /\ faults = 0

Fault == faults < MaxFaults /\ faults' = faults + 1

-----------------------------------------------------------------------------
(* create_run, _spawn_agent_run: the row is committed as pending ... *)
Spawn(s, r) ==
  /\ row[r] = "none" /\ spawn[s] = {}
  /\ row' = [row EXCEPT ![r] = "pending"]
  /\ spawn' = [spawn EXCEPT ![s] = {r}]
  /\ UNCHANGED <<tasks, queue, exec, stuck, faults>>

(* ... and its message is pushed. *)
Push(s, r) ==
  /\ r \in spawn[s]
  /\ queue' = <<r>> \o queue
  /\ spawn' = [spawn EXCEPT ![s] = {}]
  /\ UNCHANGED <<row, tasks, exec, stuck, faults>>

(* A failed push is only logged; a crash skips it. *)
PushFails(s, r) ==
  /\ r \in spawn[s]
  /\ Fault
  /\ spawn' = [spawn EXCEPT ![s] = {}]
  /\ stuck' = stuck \cup {r}
  /\ UNCHANGED <<row, tasks, queue, exec>>

(* Defect form: the message stays on the list until the run is done. *)
PopKeeps(w) ==
  /\ exec[w].run = {} /\ queue # <<>>
  /\ exec' = [exec EXCEPT ![w] = [Idle EXCEPT !.run = {queue[Len(queue)]}]]
  /\ UNCHANGED <<row, tasks, queue, spawn, stuck, faults>>
(* brpop; execute_run sets the row to running, which no other session sees. *)
Pop(w) ==
  /\ exec[w].run = {} /\ queue # <<>>
  /\ exec' = [exec EXCEPT ![w] = [Idle EXCEPT !.run = {queue[Len(queue)]}]]
  /\ queue' = SubSeq(queue, 1, Len(queue) - 1)
  /\ UNCHANGED <<row, tasks, spawn, stuck, faults>>

More(w, r) == r \in exec[w].run /\ exec[w].group <= Len(Config[r])

(* A group of one task: the handler returns or raises, and the run goes on either  *)
(* way.  A database error in it leaves the session in need of a rollback.          *)
RunTask(w, r) ==
  /\ More(w, r) /\ ~exec[w].broken /\ Config[r][exec[w].group] = 1
  /\ \E end \in Ended, broken \in BOOLEAN :
       /\ broken => end = "failed"
       /\ IF broken THEN Fault ELSE UNCHANGED faults
       /\ exec' = [exec EXCEPT ![w].group = @ + 1, ![w].broken = broken,
                               ![w].results = Append(@, end)]
  /\ UNCHANGED <<row, tasks, queue, spawn, stuck>>

(* Defect form: the newest task comes first. *)
PlaybookCommitNewestFirst(w, r) ==
  /\ More(w, r) /\ ~exec[w].broken /\ <<r, exec[w].group>> \in Playbooks
  /\ Config[r][exec[w].group] = 1
  /\ row' = [row EXCEPT ![r] = "running"]
  /\ tasks' = [tasks EXCEPT ![r] = <<"running">> \o exec[w].results]
  /\ UNCHANGED <<queue, spawn, exec, stuck, faults>>
(* soar_run: a playbook commits the session of the run (soar/engine.py:122), and so *)
(* the run as running with the results so far.                                      *)
PlaybookCommit(w, r) ==
  /\ More(w, r) /\ ~exec[w].broken /\ <<r, exec[w].group>> \in Playbooks
  /\ Config[r][exec[w].group] = 1
  /\ row' = [row EXCEPT ![r] = "running"]
  /\ tasks' = [tasks EXCEPT ![r] = exec[w].results \o <<"running">>]
  /\ UNCHANGED <<queue, spawn, exec, stuck, faults>>

(* The execution of r leaves the worker. *)
Leave(w) == exec' = [exec EXCEPT ![w] = Idle]

(* A group of several tasks: they flush on one session at once, the second flush   *)
(* raises out of gather, and the commit of the failure meets the statement of the  *)
(* first task, which nobody cancelled: it is refused or it goes through.           *)
RunGroup(w, r) ==
  /\ More(w, r) /\ ~exec[w].broken /\ Config[r][exec[w].group] > 1
  /\ Leave(w)
  /\ \/ /\ row' = [row EXCEPT ![r] = "failed"]
        /\ \E n \in 0..Config[r][exec[w].group] :
             tasks' = [tasks EXCEPT ![r] = exec[w].results \o [i \in 1..n |-> "running"]]
        /\ UNCHANGED stuck
     \/ stuck' = stuck \cup {r} /\ UNCHANGED <<row, tasks>>
  /\ UNCHANGED <<queue, spawn, faults>>

(* Defect form: the session is closed without a commit. *)
CompleteUncommitted(w, r) ==
  /\ r \in exec[w].run /\ exec[w].group = Len(Config[r]) + 1 /\ ~exec[w].broken
  /\ Leave(w)
  /\ UNCHANGED <<row, tasks, queue, spawn, stuck, faults>>
(* The commit of the run and of its tasks. *)
Complete(w, r) ==
  /\ r \in exec[w].run /\ exec[w].group = Len(Config[r]) + 1 /\ ~exec[w].broken
  /\ row' = [row EXCEPT ![r] = "completed"]
  /\ tasks' = [tasks EXCEPT ![r] = exec[w].results]
  /\ Leave(w)
  /\ UNCHANGED <<queue, spawn, stuck, faults>>

(* On a broken session the next flush raises, and so does the commit of the failure. *)
GiveUp(w, r) ==
  /\ r \in exec[w].run /\ exec[w].broken
  /\ Leave(w)
  /\ stuck' = stuck \cup {r}
  /\ UNCHANGED <<row, tasks, queue, spawn, faults>>

(* A failed statement outside the handlers, a failed commit, or a crash. *)
Abort(w, r) ==
  /\ r \in exec[w].run
  /\ Fault
  /\ Leave(w)
  /\ stuck' = stuck \cup {r}
  /\ UNCHANGED <<row, tasks, queue, spawn>>

Work(w) ==
  \/ Pop(w)
  \/ \E r \in Runs : RunTask(w, r) \/ RunGroup(w, r) \/ Complete(w, r) \/ GiveUp(w, r)

Next ==
  \/ \E s \in Spawners, r \in Runs : Spawn(s, r) \/ Push(s, r) \/ PushFails(s, r)
  \/ \E w \in Workers :
       \/ Pop(w)
       \/ \E r \in Runs : \/ RunTask(w, r) \/ PlaybookCommit(w, r) \/ RunGroup(w, r)
                          \/ Complete(w, r) \/ GiveUp(w, r) \/ Abort(w, r)

Spec == Init /\ [][Next]_vars

(* A handler returns after its commit; the loop of a worker goes on. *)
Fairness ==
  /\ \A s \in Spawners : WF_vars(\E r \in Runs : Push(s, r))
  /\ \A w \in Workers : WF_vars(Work(w))

FairSpec == Spec /\ Fairness

-----------------------------------------------------------------------------
Queued(r) == \E i \in 1..Len(queue) : queue[i] = r
Spawned(r) == \E s \in Spawners : r \in spawn[s]
Executed(r) == \E w \in Workers : r \in exec[w].run

(* One worker at most executes a run, and a run is in one place: being pushed, on  *)
(* the queue, executed, ended or stuck (engine.py:69-122, agent_worker.py:43-56).  *)
OnePlace ==
  /\ \A r \in Runs :
       /\ \A v, w \in Workers : r \in exec[v].run /\ r \in exec[w].run => v = w
       /\ \A i, j \in 1..Len(queue) : queue[i] = r /\ queue[j] = r => i = j
       /\ Spawned(r) => ~Queued(r) /\ ~Executed(r)
       /\ Queued(r) => ~Executed(r)
       /\ Spawned(r) \/ Queued(r) => row[r] = "pending"
       /\ Executed(r) => row[r] \in {"pending", "running"}
       /\ r \in stuck => row[r] \in {"pending", "running"}
       /\ row[r] \in {"pending", "running"}
            => (r \in stuck) # (Spawned(r) \/ Queued(r) \/ Executed(r))

(* The runs implement the service: a run ends once, with all its results, and what *)
(* a playbook's commit made visible before stands.                                 *)
Service == INSTANCE RunService WITH status <- row, results <- tasks
ImplementsService == Service!Spec

(* A run that was asked for ends, or it is one of those that stay pending or running *)
(* for ever (a lost message, a refused commit): nothing takes those up again.          *)
RunsSettle == \A r \in Runs : row[r] = "pending" ~> row[r] \in Ended \/ r \in stuck
=============================================================================

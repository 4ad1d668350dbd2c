-------------------------- MODULE Automation_proofs -------------------------
(****************************************************************************)
(* Theorems about AgentRuns, SoarRuns, TriggerClock and WorkflowRuns.  For  *)
(* any number of runs, spawners and workers a run is in one place, and the  *)
(* runs implement RunService.  The rows of the playbooks tell what they did.*)
(* Triggers fire in the minutes they name.  A dry run of a workflow         *)
(* foretells the real one.                                                  *)
(****************************************************************************)
EXTENDS Automation, FiniteSetTheorems, SequenceTheorems, TLAPS

(* What OnePlace rests on: a spawner pushes and a worker executes one run at a time, *)
(* and no two spawners push the same run.                                            *)
Alone ==
  /\ \A s \in Spawners : \A p, q \in spawn[s] : p = q
  /\ \A w \in Workers : \A p, q \in exec[w].run : p = q
  /\ \A s, t \in Spawners : \A r \in spawn[s] : r \in spawn[t] => s = t

(* What the refinement rests on: the results of a worker are those of the groups before *)
(* the next one, single tasks all of them, and extend the ones that were committed; no  *)
(* task is committed of a run that has not been popped.                                 *)
Progress ==
  /\ \A w \in Workers : \A r \in exec[w].run :
       /\ Len(exec[w].results) = exec[w].group - 1
       /\ exec[w].group <= Len(Config[r]) + 1
       /\ \A k \in 1..exec[w].group - 1 : Config[r][k] = 1
       /\ Service!Stand(tasks[r], exec[w].results)
  /\ \A r \in Runs : row[r] = "none" \/ Spawned(r) \/ Queued(r) => tasks[r] = <<>>

PlaceInv == TypeOK /\ OnePlace /\ Alone

-----------------------------------------------------------------------------
(* Sequences: the push at the head, the pop at the end, and results before others. *)
LEMMA PushedAtHead ==
  ASSUME NEW S, NEW q \in Seq(S), NEW r \in S
  PROVE  /\ <<r>> \o q \in Seq(S) /\ Len(<<r>> \o q) = Len(q) + 1
         /\ (<<r>> \o q)[1] = r
         /\ \A i \in 2..Len(q) + 1 : (<<r>> \o q)[i] = q[i - 1]
OBVIOUS

LEMMA PoppedAtEnd ==
  ASSUME NEW S, NEW q \in Seq(S), q # <<>>
  PROVE  /\ Len(q) \in Nat \ {0} /\ q[Len(q)] \in S
         /\ SubSeq(q, 1, Len(q) - 1) \in Seq(S)
         /\ Len(SubSeq(q, 1, Len(q) - 1)) = Len(q) - 1
         /\ \A i \in 1..Len(q) - 1 : SubSeq(q, 1, Len(q) - 1)[i] = q[i]
<1>1. Len(q) \in Nat \ {0} /\ q[Len(q)] \in S
  OBVIOUS
<1>2. \A i \in 1..Len(q) - 1 : q[i] \in S
  BY <1>1
<1>3. Len(q) - 1 \in Int /\ 1 \in Int /\ (1 <= Len(q) - 1 \/ Len(q) - 1 = 0)
  <2>1. \A n \in Nat \ {0} : n - 1 \in Int /\ 1 \in Int /\ (1 <= n - 1 \/ n - 1 = 0)
    OBVIOUS
  <2> QED
    BY <2>1, <1>1
<1>4. /\ SubSeq(q, 1, Len(q) - 1) \in Seq(S)
      /\ Len(SubSeq(q, 1, Len(q) - 1)) = IF 1 <= Len(q) - 1 THEN Len(q) - 1 - 1 + 1 ELSE 0
      /\ \A i \in 1..Len(q) - 1 - 1 + 1 : SubSeq(q, 1, Len(q) - 1)[i] = q[1 + i - 1]
  BY <1>2, <1>3, SubSeqProperties
<1>5. ASSUME NEW i \in 1..Len(q) - 1 PROVE SubSeq(q, 1, Len(q) - 1)[i] = q[i]
  <2>1. i \in 1..Len(q) - 1 - 1 + 1 /\ 1 + i - 1 = i
    BY <1>1
  <2> QED
    BY <2>1, <1>4
<1>6. Len(SubSeq(q, 1, Len(q) - 1)) = Len(q) - 1
  BY <1>1, <1>3, <1>4
<1> QED
  BY <1>1, <1>4, <1>5, <1>6

LEMMA Joined ==
  ASSUME NEW S, NEW p \in Seq(S), NEW q \in Seq(S)
  PROVE  /\ p \o q \in Seq(S) /\ Len(p \o q) = Len(p) + Len(q)
         /\ \A i \in 1..Len(p) : (p \o q)[i] = p[i]
OBVIOUS

-----------------------------------------------------------------------------
(* Whose message is on the queue after a push at its head and a pop at its end. *)
LEMMA QueuedAfterPush ==
  ASSUME TypeOK, NEW r \in Runs, queue' = <<r>> \o queue
  PROVE  \A x \in Runs : Queued(x)' <=> Queued(x) \/ x = r
<1>1. queue \in Seq(Runs)
  BY DEF TypeOK
<1>2. /\ Len(queue') = Len(queue) + 1 /\ queue'[1] = r /\ Len(queue) \in Nat
      /\ \A i \in 2..Len(queue) + 1 : queue'[i] = queue[i - 1]
  BY <1>1, PushedAtHead
<1>3. ASSUME NEW x \in Runs, Queued(x)' PROVE Queued(x) \/ x = r
  <2>1. PICK i \in 1..Len(queue') : queue'[i] = x
    BY <1>3 DEF Queued
  <2>2. CASE i = 1
    BY <2>1, <2>2, <1>2
  <2>3. CASE i # 1
    <3>1. i - 1 \in 1..Len(queue) /\ queue[i - 1] = x
      BY <2>1, <2>3, <1>2
    <3> QED
      BY <3>1 DEF Queued
  <2> QED
    BY <2>2, <2>3
<1>4. ASSUME NEW x \in Runs, Queued(x) PROVE Queued(x)'
  <2>1. PICK i \in 1..Len(queue) : queue[i] = x
    BY <1>4 DEF Queued
  <2>2. i + 1 \in 1..Len(queue') /\ queue'[i + 1] = x
    BY <2>1, <1>2
  <2> QED
    BY <2>2 DEF Queued
<1>5. Queued(r)'
  BY <1>2 DEF Queued
<1> QED
  BY <1>3, <1>4, <1>5

LEMMA QueuedAfterPop ==
  ASSUME TypeOK, queue # <<>>, queue' = SubSeq(queue, 1, Len(queue) - 1),
         \A i, j \in 1..Len(queue) : queue[i] = queue[j] => i = j
  PROVE  /\ queue[Len(queue)] \in Runs
         /\ \A x \in Runs : Queued(x)' <=> Queued(x) /\ x # queue[Len(queue)]
<1>1. queue \in Seq(Runs)
  BY DEF TypeOK
<1>2. /\ Len(queue') = Len(queue) - 1 /\ Len(queue) \in Nat \ {0} /\ queue[Len(queue)] \in Runs
      /\ \A i \in 1..Len(queue) - 1 : queue'[i] = queue[i]
  BY <1>1, PoppedAtEnd
<1>3. ASSUME NEW x \in Runs, Queued(x)' PROVE Queued(x) /\ x # queue[Len(queue)]
  <2>1. PICK i \in 1..Len(queue') : queue'[i] = x
    BY <1>3 DEF Queued
  <2>2. i \in 1..Len(queue) /\ queue[i] = x /\ i # Len(queue)
    BY <2>1, <1>2
  <2> QED
    BY <2>2, <1>2 DEF Queued
<1>4. ASSUME NEW x \in Runs, Queued(x), x # queue[Len(queue)] PROVE Queued(x)'
  <2>1. PICK i \in 1..Len(queue) : queue[i] = x
    BY <1>4 DEF Queued
  <2>2. i \in 1..Len(queue') /\ queue'[i] = x
    BY <2>1, <1>2, <1>4
  <2> QED
    BY <2>2 DEF Queued
<1> QED
  BY <1>2, <1>3, <1>4

(* Where runs are after a spawner has let one go and after a worker has. *)
LEMMA SpawnedAfter ==
  ASSUME TypeOK, Alone, NEW s \in Spawners, NEW r \in spawn[s],
         spawn' = [spawn EXCEPT ![s] = {}]
  PROVE  \A x \in Runs : Spawned(x)' <=> Spawned(x) /\ x # r
<1>1. /\ spawn'[s] = {}
      /\ \A t \in Spawners : t # s => spawn'[t] = spawn[t]
  BY DEF TypeOK
<1>2. ASSUME NEW x \in Runs, Spawned(x)' PROVE Spawned(x) /\ x # r
  <2>1. PICK t \in Spawners : x \in spawn'[t]
    BY <1>2 DEF Spawned
  <2>2. t # s /\ x \in spawn[t]
    BY <1>1, <2>1
  <2>3. r \in spawn[t] => FALSE
    BY <2>2 DEF Alone
  <2> QED
    BY <2>2, <2>3 DEF Spawned
<1>3. ASSUME NEW x \in Runs, Spawned(x), x # r PROVE Spawned(x)'
  <2>1. PICK t \in Spawners : x \in spawn[t]
    BY <1>3 DEF Spawned
  <2>2. t # s
    BY <2>1, <1>3 DEF Alone
  <2> QED
    BY <2>1, <2>2, <1>1 DEF Spawned
<1> QED
  BY <1>2, <1>3

LEMMA ExecutedAfterLeave ==
  ASSUME PlaceInv, NEW w \in Workers, NEW r \in Runs, r \in exec[w].run, Leave(w)
  PROVE  /\ exec' \in [Workers -> [run : SUBSET Runs, group : Nat \ {0}, results : Seq(Ended),
                                   broken : BOOLEAN]]
         /\ exec'[w].run = {} /\ \A v \in Workers : v # w => exec'[v] = exec[v]
         /\ \A x \in Runs : Executed(x)' <=> Executed(x) /\ x # r
<1>1. exec \in [Workers -> [run : SUBSET Runs, group : Nat \ {0}, results : Seq(Ended),
                            broken : BOOLEAN]]
  BY DEF PlaceInv, TypeOK
<1>2. Idle \in [run : SUBSET Runs, group : Nat \ {0}, results : Seq(Ended), broken : BOOLEAN]
      /\ Idle.run = {}
  BY DEF Idle
<1>3. exec'[w] = Idle /\ \A v \in Workers : v # w => exec'[v] = exec[v]
  BY <1>1 DEF Leave
<1>4. exec' \in [Workers -> [run : SUBSET Runs, group : Nat \ {0}, results : Seq(Ended),
                             broken : BOOLEAN]]
  BY <1>1, <1>2 DEF Leave
<1>5. ASSUME NEW x \in Runs, Executed(x)' PROVE Executed(x) /\ x # r
  <2>1. PICK v \in Workers : x \in exec'[v].run
    BY <1>5 DEF Executed
  <2>2. v # w /\ x \in exec[v].run
    BY <1>2, <1>3, <2>1
  <2> QED
    BY <2>2 DEF Executed, PlaceInv, OnePlace
<1>6. ASSUME NEW x \in Runs, Executed(x), x # r PROVE Executed(x)'
  <2>1. PICK v \in Workers : x \in exec[v].run
    BY <1>6 DEF Executed
  <2>2. v # w
    BY <2>1, <1>6 DEF PlaceInv, Alone
  <2> QED
    BY <2>1, <2>2, <1>3 DEF Executed
<1> QED
  BY <1>2, <1>3, <1>4, <1>5, <1>6

-----------------------------------------------------------------------------
(* Every step keeps the types. *)
LEMMA TypePreserved ==
  ASSUME TypeOK, [Next]_vars
  PROVE  TypeOK'
<1> DEFINE Execs == [run : SUBSET Runs, group : Nat \ {0}, results : Seq(Ended), broken : BOOLEAN]
<1>1. Idle \in Execs
  BY DEF Idle
<1>2. exec \in [Workers -> Execs]
  BY DEF TypeOK
<1>3. ASSUME NEW w \in Workers, Leave(w) PROVE exec' \in [Workers -> Execs]
  BY <1>1, <1>2, <1>3 DEF Leave
<1>4. Fault => faults' \in 0..MaxFaults
  BY ConfigAssumption DEF Fault, TypeOK
<1>5. ASSUME NEW w \in Workers, NEW r \in Runs, r \in exec[w].run
      PROVE  /\ exec[w].results \in Seq(Ended)
             /\ exec[w].results \in Seq(Ended \cup {"running"})
  BY <1>2, <1>5
<1>6. CASE UNCHANGED vars
  BY <1>6 DEF vars, TypeOK
<1>7. ASSUME NEW s \in Spawners, NEW r \in Runs, Spawn(s, r) \/ PushFails(s, r) PROVE TypeOK'
  <2>1. CASE Spawn(s, r)
    <3>1. row' \in [Runs -> {"none", "pending", "running"} \cup Ended]
      BY <2>1 DEF Spawn, TypeOK
    <3>2. spawn' \in [Spawners -> SUBSET Runs]
      BY <2>1 DEF Spawn, TypeOK
    <3> QED
      BY <2>1, <3>1, <3>2 DEF Spawn, TypeOK
  <2>2. CASE PushFails(s, r)
    <3>1. spawn' \in [Spawners -> SUBSET Runs] /\ stuck' \subseteq Runs
      BY <2>2 DEF PushFails, TypeOK
    <3> QED
      BY <2>2, <3>1, <1>4 DEF PushFails, TypeOK
  <2> QED
    BY <1>7, <2>1, <2>2
<1>8. ASSUME NEW s \in Spawners, NEW r \in Runs, Push(s, r) PROVE TypeOK'
  <2>1. queue' \in Seq(Runs)
    BY <1>8, PushedAtHead DEF Push, TypeOK
  <2> QED
    BY <2>1, <1>8 DEF Push, TypeOK
<1>9. ASSUME NEW w \in Workers, Pop(w) PROVE TypeOK'
  <2>1. queue' \in Seq(Runs) /\ queue[Len(queue)] \in Runs
    BY <1>9, PoppedAtEnd DEF Pop, TypeOK
  <2>2. [Idle EXCEPT !.run = {queue[Len(queue)]}] \in Execs
    BY <1>1, <2>1
  <2>3. exec' \in [Workers -> Execs]
    BY <1>2, <2>2, <1>9 DEF Pop
  <2> QED
    BY <2>1, <2>3, <1>9 DEF Pop, TypeOK
<1>10. ASSUME NEW w \in Workers, NEW r \in Runs, RunTask(w, r) PROVE TypeOK'
  <2>1. PICK e \in Ended, b \in BOOLEAN :
          /\ IF b THEN Fault ELSE UNCHANGED faults
          /\ exec' = [exec EXCEPT ![w].group = @ + 1, ![w].broken = b,
                                  ![w].results = Append(@, e)]
    BY <1>10 DEF RunTask
  <2>2. exec[w] \in Execs /\ exec[w].group + 1 \in Nat \ {0}
    BY <1>2
  <2>3. Append(exec[w].results, e) \in Seq(Ended)
    BY <2>2
  <2>4. exec' \in [Workers -> Execs]
    BY <1>2, <2>1, <2>2, <2>3
  <2>5. faults' \in 0..MaxFaults
    BY <2>1, <1>4 DEF TypeOK
  <2> QED
    BY <2>4, <2>5, <1>10 DEF RunTask, TypeOK
<1>11. ASSUME NEW w \in Workers, NEW r \in Runs, PlaybookCommit(w, r) PROVE TypeOK'
  <2>1. exec[w].results \in Seq(Ended \cup {"running"})
    BY <1>5, <1>11 DEF PlaybookCommit, More
  <2>2. exec[w].results \o <<"running">> \in Seq(Ended \cup {"running"})
    BY <2>1
  <2> QED
    BY <2>2, <1>11 DEF PlaybookCommit, TypeOK
<1>12. ASSUME NEW w \in Workers, NEW r \in Runs, RunGroup(w, r) PROVE TypeOK'
  <2>1. exec[w].results \in Seq(Ended \cup {"running"}) /\ exec' \in [Workers -> Execs]
    BY <1>3, <1>5, <1>12 DEF RunGroup, More
  <2>2. tasks' \in [Runs -> Seq(Ended \cup {"running"})]
    <3>1. CASE UNCHANGED tasks
      BY <3>1 DEF TypeOK
    <3>2. ASSUME NEW n \in Nat,
                 tasks' = [tasks EXCEPT ![r] = exec[w].results \o [i \in 1..n |-> "running"]]
          PROVE  tasks' \in [Runs -> Seq(Ended \cup {"running"})]
      <4>1. [i \in 1..n |-> "running"] \in Seq(Ended \cup {"running"})
        OBVIOUS
      <4>2. exec[w].results \o [i \in 1..n |-> "running"] \in Seq(Ended \cup {"running"})
        BY <2>1, <4>1, Joined
      <4> QED
        BY <4>2, <3>2 DEF TypeOK
    <3>3. Config[r][exec[w].group] \in Nat
      BY <1>2, <1>12, ConfigAssumption DEF RunGroup, More
    <3>4. 0..Config[r][exec[w].group] \subseteq Nat
      BY <3>3
    <3> QED
      BY <3>1, <3>2, <3>4, <1>12 DEF RunGroup
  <2>3. row' \in [Runs -> {"none", "pending", "running"} \cup Ended] /\ stuck' \subseteq Runs
    BY <1>12 DEF RunGroup, TypeOK, Ended
  <2> QED
    BY <2>1, <2>2, <2>3, <1>12 DEF RunGroup, TypeOK
<1>13. ASSUME NEW w \in Workers, NEW r \in Runs, Complete(w, r) PROVE TypeOK'
  <2>1. exec[w].results \in Seq(Ended \cup {"running"}) /\ exec' \in [Workers -> Execs]
    BY <1>3, <1>5, <1>13 DEF Complete
  <2> QED
    BY <2>1, <1>13 DEF Complete, TypeOK, Ended
<1>14. ASSUME NEW w \in Workers, NEW r \in Runs, GiveUp(w, r) \/ Abort(w, r) PROVE TypeOK'
  <2>1. exec' \in [Workers -> Execs]
    BY <1>3, <1>14 DEF GiveUp, Abort
  <2> QED
    BY <2>1, <1>4, <1>14 DEF GiveUp, Abort, TypeOK
<1> QED
  BY <1>6, <1>7, <1>8, <1>9, <1>10, <1>11, <1>12, <1>13, <1>14 DEF Next

LEMMA TypeInit == Init => TypeOK
<1>1. <<>> \in Seq(Runs) /\ <<>> \in Seq(Ended \cup {"running"}) /\ <<>> \in Seq(Ended)
  OBVIOUS
<1>2. Idle \in [run : SUBSET Runs, group : Nat \ {0}, results : Seq(Ended), broken : BOOLEAN]
  BY <1>1 DEF Idle
<1> QED
  BY <1>1, <1>2, ConfigAssumption DEF Init, TypeOK

-----------------------------------------------------------------------------
(* OnePlace: no two workers have a run, no two messages are of one run, and where it is. *)
OneWorker == \A r \in Runs : \A v, w \in Workers : r \in exec[v].run /\ r \in exec[w].run => v = w
OneMessage == \A r \in Runs : \A i, j \in 1..Len(queue) : queue[i] = r /\ queue[j] = r => i = j
Where(r) ==
  /\ Spawned(r) => ~Queued(r) /\ ~Executed(r)
  /\ Queued(r) => ~Executed(r)
  /\ Spawned(r) \/ Queued(r) => row[r] = "pending"
  /\ Executed(r) => row[r] \in {"pending", "running"}
  /\ r \in stuck => row[r] \in {"pending", "running"}
  /\ row[r] \in {"pending", "running"}
       => (r \in stuck) # (Spawned(r) \/ Queued(r) \/ Executed(r))

LEMMA Parts == OnePlace <=> OneWorker /\ OneMessage /\ \A r \in Runs : Where(r)
BY DEF OnePlace, OneWorker, OneMessage, Where

LEMMA PartsNext == OnePlace' <=> OneWorker' /\ OneMessage' /\ (\A r \in Runs : Where(r)')
BY DEF OnePlace, OneWorker, OneMessage, Where

(* Spawn: the run was nowhere. *)
LEMMA SpawnPlaced ==
  ASSUME PlaceInv, NEW s \in Spawners, NEW r \in Runs, Spawn(s, r)
  PROVE  OnePlace' /\ Alone'
<1>0. row \in [Runs -> {"none", "pending", "running"} \cup Ended] /\ spawn \in [Spawners -> SUBSET Runs]
  BY DEF PlaceInv, TypeOK
<1>1. /\ row'[r] = "pending" /\ row[r] = "none" /\ \A x \in Runs : x # r => row'[x] = row[x]
      /\ spawn'[s] = {r} /\ spawn[s] = {} /\ \A t \in Spawners : t # s => spawn'[t] = spawn[t]
      /\ UNCHANGED <<queue, exec, stuck>>
  BY <1>0 DEF Spawn
<1>2. /\ OneWorker /\ OneMessage /\ \A x \in Runs : Where(x)
      /\ Alone
  BY Parts DEF PlaceInv
<1>3. ~Spawned(r) /\ ~Queued(r) /\ ~Executed(r) /\ r \notin stuck
  BY <1>1, <1>2 DEF Where
<1>4. \A x \in Runs : (Queued(x)' <=> Queued(x)) /\ (Executed(x)' <=> Executed(x))
  BY <1>1 DEF Queued, Executed
<1>5. \A x \in Runs : Spawned(x)' <=> Spawned(x) \/ x = r
  BY <1>1 DEF Spawned
<1>6. \A x \in Runs : Where(x)'
  BY <1>1, <1>2, <1>3, <1>4, <1>5 DEF Where
<1>7. OneWorker' /\ OneMessage'
  BY <1>1, <1>2 DEF OneWorker, OneMessage
<1>8. Alone'
  <2>1. \A t \in Spawners : t # s => r \notin spawn[t]
    BY <1>3 DEF Spawned
  <2> QED
    BY <1>1, <1>2, <2>1 DEF Alone
<1> QED
  BY <1>6, <1>7, <1>8, PartsNext

(* Push: it leaves the spawner for the queue; if it fails, it is stuck. *)
LEMMA PushPlaced ==
  ASSUME PlaceInv, NEW s \in Spawners, NEW r \in Runs, Push(s, r) \/ PushFails(s, r)
  PROVE  OnePlace' /\ Alone'
<1>0. spawn \in [Spawners -> SUBSET Runs] /\ TypeOK
  BY DEF PlaceInv, TypeOK
<1>1. /\ r \in spawn[s] /\ spawn' = [spawn EXCEPT ![s] = {}] /\ UNCHANGED <<row, exec>>
      /\ spawn'[s] = {} /\ \A t \in Spawners : t # s => spawn'[t] = spawn[t]
  BY <1>0 DEF Push, PushFails
<1>2. /\ OneWorker /\ OneMessage /\ \A x \in Runs : Where(x)
      /\ Alone
  BY Parts DEF PlaceInv
<1>3. Spawned(r)
  BY <1>1 DEF Spawned
<1>4. ~Queued(r) /\ ~Executed(r) /\ r \notin stuck /\ row[r] = "pending"
  BY <1>2, <1>3 DEF Where
<1>5. \A x \in Runs : Spawned(x)' <=> Spawned(x) /\ x # r
  BY <1>0, <1>1, <1>2, SpawnedAfter
<1>6. \A x \in Runs : Executed(x)' <=> Executed(x)
  BY <1>1 DEF Executed
<1>7. OneWorker'
  BY <1>1, <1>2 DEF OneWorker
<1>8. Alone'
  BY <1>1, <1>2 DEF Alone
<1>9. CASE Push(s, r)
  <2>1. queue' = <<r>> \o queue /\ UNCHANGED stuck /\ queue \in Seq(Runs)
    BY <1>0, <1>9 DEF Push, TypeOK
  <2>2. \A x \in Runs : Queued(x)' <=> Queued(x) \/ x = r
    BY <1>0, <2>1, QueuedAfterPush
  <2>3. \A x \in Runs : Where(x)'
    BY <1>1, <1>2, <1>4, <1>5, <1>6, <2>1, <2>2 DEF Where
  <2>4. /\ Len(queue') = Len(queue) + 1 /\ queue'[1] = r /\ Len(queue) \in Nat
        /\ \A i \in 2..Len(queue) + 1 : queue'[i] = queue[i - 1]
    BY <2>1, PushedAtHead
  <2>5. ASSUME NEW x \in Runs, NEW i \in 1..Len(queue'), NEW j \in 1..Len(queue'),
               queue'[i] = x, queue'[j] = x
        PROVE  i = j
    <3>1. \A k \in 1..Len(queue') : k = 1 \/ (k - 1 \in 1..Len(queue) /\ queue'[k] = queue[k - 1])
      BY <2>4
    <3>2. \A k \in 1..Len(queue') : k # 1 => queue'[k] # r
      BY <3>1, <1>4 DEF Queued
    <3>3. CASE i = 1 \/ j = 1
      BY <3>2, <3>3, <2>4, <2>5
    <3>4. CASE i # 1 /\ j # 1
      <4>1. i - 1 = j - 1
        BY <3>1, <3>4, <2>5, <1>2 DEF OneMessage
      <4> QED
        BY <4>1, <2>4
    <3> QED
      BY <3>3, <3>4
  <2> QED
    BY <1>7, <1>8, <2>3, <2>5, PartsNext DEF OneMessage
<1>10. CASE PushFails(s, r)
  <2>1. stuck' = stuck \cup {r} /\ UNCHANGED queue
    BY <1>10 DEF PushFails
  <2>2. \A x \in Runs : Queued(x)' <=> Queued(x)
    BY <2>1 DEF Queued
  <2>3. \A x \in Runs : Where(x)'
    BY <1>1, <1>2, <1>4, <1>5, <1>6, <2>1, <2>2 DEF Where
  <2>4. OneMessage'
    BY <2>1, <1>2 DEF OneMessage
  <2> QED
    BY <1>7, <1>8, <2>3, <2>4, PartsNext
<1> QED
  BY <1>9, <1>10

(* Pop: the last message becomes the run of an idle worker. *)
LEMMA PopPlaced ==
  ASSUME PlaceInv, NEW w \in Workers, Pop(w)
  PROVE  OnePlace' /\ Alone'
<1>0. TypeOK /\ queue # <<>> /\ queue' = SubSeq(queue, 1, Len(queue) - 1) /\ exec[w].run = {}
      /\ UNCHANGED <<row, spawn, stuck>>
  BY DEF PlaceInv, Pop
<1>1. /\ OneWorker /\ OneMessage /\ \A x \in Runs : Where(x)
      /\ Alone
  BY Parts DEF PlaceInv
<1>2. queue \in Seq(Runs)
  BY <1>0 DEF TypeOK
<1>3. /\ Len(queue) \in Nat \ {0} /\ queue[Len(queue)] \in Runs /\ Len(queue') = Len(queue) - 1
      /\ \A i \in 1..Len(queue) - 1 : queue'[i] = queue[i]
  BY <1>0, <1>2, PoppedAtEnd
<1> PICK r \in Runs : r = queue[Len(queue)]
  BY <1>3
<1>4. \A i, j \in 1..Len(queue) : queue[i] = queue[j] => i = j
  <2>1. \A i \in 1..Len(queue) : queue[i] \in Runs
    BY <1>2
  <2> QED
    BY <1>1, <2>1 DEF OneMessage
<1>5. \A x \in Runs : Queued(x)' <=> Queued(x) /\ x # r
  BY <1>0, <1>4, QueuedAfterPop
<1>6. Len(queue) \in 1..Len(queue)
  BY <1>3
<1>7. Queued(r)
  BY <1>6 DEF Queued
<1>8. /\ exec'[w].run = {r} /\ \A v \in Workers : v # w => exec'[v] = exec[v]
  BY <1>0 DEF Pop, TypeOK, Idle
<1>9. ~Spawned(r) /\ ~Executed(r) /\ row[r] = "pending" /\ r \notin stuck
  BY <1>1, <1>3, <1>7 DEF Where
<1>10. \A x \in Runs : Executed(x)' <=> Executed(x) \/ x = r
  <2>1. ASSUME NEW x \in Runs, Executed(x)' PROVE Executed(x) \/ x = r
    BY <2>1, <1>8 DEF Executed
  <2>2. ASSUME NEW x \in Runs, Executed(x) PROVE Executed(x)'
    <3>1. PICK v \in Workers : x \in exec[v].run
      BY <2>2 DEF Executed
    <3>2. v # w
      BY <3>1, <1>0
    <3> QED
      BY <3>1, <3>2, <1>8 DEF Executed
  <2>3. Executed(r)'
    BY <1>8 DEF Executed
  <2> QED
    BY <2>1, <2>2, <2>3
<1>11. \A x \in Runs : Spawned(x)' <=> Spawned(x)
  BY <1>0 DEF Spawned
<1>12. \A x \in Runs : Where(x)'
  BY <1>0, <1>1, <1>3, <1>5, <1>7, <1>9, <1>10, <1>11 DEF Where
<1>13. OneWorker'
  <2>1. \A v \in Workers : r \notin exec[v].run
    BY <1>9 DEF Executed
  <2> QED
    BY <1>1, <1>8, <2>1 DEF OneWorker
<1>14. OneMessage'
  <2>1. \A i \in 1..Len(queue') : i \in 1..Len(queue) /\ queue'[i] = queue[i]
    BY <1>3
  <2> QED
    BY <1>1, <2>1 DEF OneMessage
<1>15. Alone'
  BY <1>0, <1>1, <1>8 DEF Alone
<1> QED
  BY <1>12, <1>13, <1>14, <1>15, PartsNext

(* The steps of a worker on its run: it keeps it ... *)
LEMMA KeptPlaced ==
  ASSUME PlaceInv, NEW w \in Workers, NEW r \in Runs, RunTask(w, r) \/ PlaybookCommit(w, r)
  PROVE  OnePlace' /\ Alone'
<1>0. TypeOK /\ r \in exec[w].run /\ UNCHANGED <<queue, spawn, stuck>>
  BY DEF PlaceInv, RunTask, PlaybookCommit, More
<1>1. /\ OneWorker /\ OneMessage /\ \A x \in Runs : Where(x)
      /\ Alone
  BY Parts DEF PlaceInv
<1>2. \A v \in Workers : exec'[v].run = exec[v].run
  <2>1. exec \in [Workers -> [run : SUBSET Runs, group : Nat \ {0}, results : Seq(Ended),
                              broken : BOOLEAN]]
    BY <1>0 DEF TypeOK
  <2>2. CASE RunTask(w, r)
    <3>1. PICK e \in Ended, b \in BOOLEAN :
            exec' = [exec EXCEPT ![w].group = @ + 1, ![w].broken = b,
                                 ![w].results = Append(@, e)]
      BY <2>2 DEF RunTask
    <3> QED
      BY <2>1, <3>1
  <2>3. CASE PlaybookCommit(w, r)
    BY <2>3 DEF PlaybookCommit
  <2> QED
    BY <2>2, <2>3
<1>3. Executed(r)
  BY <1>0 DEF Executed
<1>4. \A x \in Runs : row'[x] = row[x] \/ (x = r /\ row'[x] = "running")
  BY <1>0 DEF RunTask, PlaybookCommit, TypeOK
<1>5. \A x \in Runs : /\ Queued(x)' <=> Queued(x)
                      /\ Spawned(x)' <=> Spawned(x)
                      /\ Executed(x)' <=> Executed(x)
  BY <1>0, <1>2 DEF Queued, Spawned, Executed
<1>6. \A x \in Runs : Where(x)'
  <2>1. ASSUME NEW x \in Runs, x # r PROVE Where(x)'
    BY <1>0, <1>1, <1>4, <1>5, <2>1 DEF Where
  <2>2. row[r] \in {"pending", "running"} /\ row'[r] \in {"pending", "running"} /\ ~Spawned(r) /\ ~Queued(r)
    BY <1>1, <1>3, <1>4 DEF Where
  <2>3. Where(r)'
    BY <1>0, <1>1, <1>3, <1>5, <2>2 DEF Where
  <2> QED
    BY <2>1, <2>3
<1>7. OneWorker' /\ OneMessage' /\ Alone'
  BY <1>0, <1>1, <1>2 DEF OneWorker, OneMessage, Alone
<1> QED
  BY <1>6, <1>7, PartsNext

(* ... or it leaves it, ended or stuck. *)
LEMMA LeftPlaced ==
  ASSUME PlaceInv, NEW w \in Workers, NEW r \in Runs,
         RunGroup(w, r) \/ Complete(w, r) \/ GiveUp(w, r) \/ Abort(w, r)
  PROVE  OnePlace' /\ Alone'
<1>0. TypeOK /\ r \in exec[w].run /\ Leave(w) /\ UNCHANGED <<queue, spawn>>
  BY DEF PlaceInv, RunGroup, Complete, GiveUp, Abort, More
<1>1. /\ OneWorker /\ OneMessage /\ \A x \in Runs : Where(x)
      /\ Alone
  BY Parts DEF PlaceInv
<1>2. /\ exec'[w].run = {} /\ \A v \in Workers : v # w => exec'[v] = exec[v]
      /\ \A x \in Runs : Executed(x)' <=> Executed(x) /\ x # r
  BY <1>0, ExecutedAfterLeave
<1>3. \/ UNCHANGED stuck /\ row'[r] \in Ended /\ \A x \in Runs : x # r => row'[x] = row[x]
      \/ stuck' = stuck \cup {r} /\ UNCHANGED row
  BY <1>0 DEF RunGroup, Complete, GiveUp, Abort, TypeOK, Ended
<1>4. \A x \in Runs : (Queued(x)' <=> Queued(x)) /\ (Spawned(x)' <=> Spawned(x))
  BY <1>0 DEF Queued, Spawned
<1>5. Executed(r)
  BY <1>0 DEF Executed
<1>6. \A x \in Runs : Where(x)'
  <2>1. ASSUME NEW x \in Runs, x # r PROVE Where(x)'
    <3>1. row'[x] = row[x] /\ (x \in stuck' <=> x \in stuck)
      BY <1>3, <2>1
    <3> QED
      BY <1>1, <1>2, <1>4, <2>1, <3>1 DEF Where
  <2>2. Where(r)'
    <3>1. ~Spawned(r) /\ ~Queued(r) /\ r \notin stuck /\ row[r] \in {"pending", "running"}
      BY <1>1, <1>5 DEF Where
    <3>2. ~Spawned(r)' /\ ~Queued(r)' /\ ~Executed(r)'
      BY <3>1, <1>2, <1>4
    <3>3. \/ r \notin stuck' /\ row'[r] \in Ended
          \/ r \in stuck' /\ row'[r] \in {"pending", "running"}
      BY <3>1, <1>3
    <3> QED
      BY <3>2, <3>3 DEF Where, Ended
  <2> QED
    BY <2>1, <2>2
<1>7. OneWorker' /\ OneMessage' /\ Alone'
  BY <1>0, <1>1, <1>2 DEF OneWorker, OneMessage, Alone
<1> QED
  BY <1>6, <1>7, PartsNext

LEMMA PlaceInit == Init => PlaceInv
<1> SUFFICES ASSUME Init PROVE PlaceInv
  OBVIOUS
<1>1. TypeOK
  BY TypeInit
<1>2. \A r \in Runs : row[r] = "none" /\ r \notin stuck
  BY DEF Init
<1>3. \A r \in Runs : ~Queued(r) /\ ~Spawned(r) /\ ~Executed(r)
  <2>1. 1..Len(queue) = {}
    BY DEF Init
  <2>2. (\A s \in Spawners : spawn[s] = {}) /\ \A w \in Workers : exec[w].run = {}
    BY DEF Init, Idle
  <2> QED
    BY <2>1, <2>2 DEF Queued, Spawned, Executed
<1>4. OneWorker /\ OneMessage /\ Alone
  <2>1. 1..Len(queue) = {}
    BY DEF Init
  <2>2. (\A s \in Spawners : spawn[s] = {}) /\ \A w \in Workers : exec[w].run = {}
    BY DEF Init, Idle
  <2> QED
    BY <2>1, <2>2 DEF OneWorker, OneMessage, Alone
<1>5. \A r \in Runs : Where(r)
  BY <1>2, <1>3 DEF Where
<1> QED
  BY <1>1, <1>4, <1>5, Parts DEF PlaceInv

LEMMA PlacePreserved ==
  ASSUME PlaceInv, [Next]_vars
  PROVE  PlaceInv'
<1>1. TypeOK'
  BY TypePreserved DEF PlaceInv
<1>2. CASE UNCHANGED vars
  <2>1. Alone'
    BY <1>2 DEF vars, PlaceInv, Alone
  <2>2. OnePlace'
    BY <1>2 DEF vars, PlaceInv, OnePlace, Queued, Spawned, Executed
  <2> QED
    BY <1>1, <2>1, <2>2 DEF PlaceInv
<1>3. CASE Next
  BY <1>1, <1>3, SpawnPlaced, PushPlaced, PopPlaced, KeptPlaced, LeftPlaced DEF Next, PlaceInv
<1> QED
  BY <1>2, <1>3

(* Every reachable state is of the types AgentRuns declares (AgentRuns, TypeOK). *)
THEOREM RunsTyped == Spec => []TypeOK
<1>1. PlaceInv => TypeOK
  BY DEF PlaceInv
<1> QED
  BY <1>1, PlaceInit, PlacePreserved, PTL DEF Spec

(* A run is in one place (engine.py:69-122, agent_worker.py:43-56): with any number of  *)
(* spawners and workers, two workers never execute one run, and a run that is not ended *)
(* is being pushed, on the queue, executed or stuck, one of them only.                  *)
THEOREM RunsInOnePlace == Spec => []OnePlace
<1>1. PlaceInv => OnePlace
  BY DEF PlaceInv
<1> QED
  BY <1>1, PlaceInit, PlacePreserved, PTL DEF Spec

-----------------------------------------------------------------------------
(* What stands in t stands in t followed by more, and t stands where it leads. *)
LEMMA StandsLonger ==
  ASSUME NEW old \in Seq(Ended \cup {"running"}), NEW t \in Seq(Ended),
         NEW u \in Seq(Ended \cup {"running"}), Service!Stand(old, t)
  PROVE  Service!Stand(old, t \o u)
<1>1. t \in Seq(Ended \cup {"running"})
  OBVIOUS
<1>2. /\ Len(t \o u) = Len(t) + Len(u) /\ Len(t) \in Nat /\ Len(u) \in Nat
      /\ \A i \in 1..Len(t) : (t \o u)[i] = t[i]
  BY <1>1, Joined
<1>3. ASSUME NEW i \in 1..Len(old), old[i] \in Service!Ended
      PROVE  i <= Len(t \o u) /\ (t \o u)[i] = old[i]
  <2>1. i <= Len(t) /\ t[i] = old[i]
    BY <1>3 DEF Service!Stand
  <2>2. i \in 1..Len(t)
    BY <2>1, <1>2
  <2> QED
    BY <1>2, <2>1, <2>2
<1> QED
  BY <1>3 DEF Service!Stand

LEMMA StandsAfterCommit ==
  ASSUME NEW t \in Seq(Ended)
  PROVE  Service!Stand(t \o <<"running">>, t)
<1>1. /\ Len(t \o <<"running">>) = Len(t) + 1 /\ Len(t) \in Nat
      /\ \A i \in 1..Len(t) : (t \o <<"running">>)[i] = t[i]
      /\ (t \o <<"running">>)[Len(t) + 1] = "running"
  OBVIOUS
<1>2. \A i \in 1..Len(t) + 1 : i \in 1..Len(t) \/ i = Len(t) + 1
  BY <1>1
<1> QED
  BY <1>1, <1>2 DEF Service!Stand, Service!Ended

(* Progress of the runs that no step touches. *)
ProgressOf(w, r) ==
  /\ Len(exec[w].results) = exec[w].group - 1
  /\ exec[w].group <= Len(Config[r]) + 1
  /\ \A k \in 1..exec[w].group - 1 : Config[r][k] = 1
  /\ Service!Stand(tasks[r], exec[w].results)
Unmet(r) == row[r] = "none" \/ Spawned(r) \/ Queued(r) => tasks[r] = <<>>

LEMMA ProgressParts ==
  /\ Progress <=> /\ \A w \in Workers : \A r \in exec[w].run : ProgressOf(w, r)
                  /\ \A r \in Runs : Unmet(r)
  /\ Progress' <=> /\ \A w \in Workers : \A r \in exec'[w].run : ProgressOf(w, r)'
                   /\ \A r \in Runs : Unmet(r)'
BY DEF Progress, ProgressOf, Unmet

ServiceInv == PlaceInv /\ Progress

LEMMA ServiceInvInit == Init => ServiceInv
<1> SUFFICES ASSUME Init PROVE Progress
  BY PlaceInit DEF ServiceInv
<1>1. \A w \in Workers : exec[w].run = {}
  BY DEF Init, Idle
<1>2. \A r \in Runs : Unmet(r)
  BY DEF Init, Unmet
<1> QED
  BY <1>1, <1>2, ProgressParts

(* A worker other than w keeps its execution, and its runs keep their rows. *)
LEMMA OthersProgress ==
  ASSUME ServiceInv, NEW w \in Workers, NEW r \in Runs, r \in exec[w].run,
         \A v \in Workers : v # w => exec'[v] = exec[v],
         \A x \in Runs : x # r => tasks'[x] = tasks[x]
  PROVE  \A v \in Workers : v # w => \A x \in exec'[v].run : ProgressOf(v, x)'
<1> SUFFICES ASSUME NEW v \in Workers, v # w, NEW x \in exec'[v].run PROVE ProgressOf(v, x)'
  OBVIOUS
<1>1. exec'[v] = exec[v] /\ x \in exec[v].run /\ x \in Runs
  BY DEF ServiceInv, PlaceInv, TypeOK
<1>2. x # r
  BY <1>1 DEF ServiceInv, PlaceInv, OnePlace
<1>3. tasks'[x] = tasks[x] /\ ProgressOf(v, x)
  BY <1>1, <1>2, ProgressParts DEF ServiceInv
<1> QED
  BY <1>1, <1>3 DEF ProgressOf

(* The tasks of a run change only while a worker has it. *)
LEMMA UnmetPreserved ==
  ASSUME ServiceInv, [Next]_vars
  PROVE  \A r \in Runs : Unmet(r)'
<1>1. PlaceInv' /\ PlaceInv /\ TypeOK
  BY PlacePreserved DEF ServiceInv, PlaceInv
<1>2. \A x \in Runs : Where(x)'
  BY <1>1, PartsNext DEF PlaceInv
<1>3. \A x \in Runs : Where(x) /\ Unmet(x)
  BY <1>1, Parts, ProgressParts DEF PlaceInv, ServiceInv
<1>4. CASE UNCHANGED vars
  BY <1>3, <1>4 DEF vars, Unmet, Spawned, Queued
<1>5. ASSUME NEW s \in Spawners, NEW r \in Runs, Spawn(s, r) PROVE \A x \in Runs : Unmet(x)'
  <2>1. /\ tasks' = tasks /\ row[r] = "none" /\ \A x \in Runs : x # r => row'[x] = row[x]
        /\ spawn[s] = {} /\ spawn'[s] = {r} /\ \A t \in Spawners : t # s => spawn'[t] = spawn[t]
        /\ queue' = queue
    BY <1>1, <1>5 DEF Spawn, TypeOK
  <2>2. \A x \in Runs : x # r => (Spawned(x)' <=> Spawned(x)) /\ (Queued(x)' <=> Queued(x))
    BY <2>1 DEF Spawned, Queued
  <2> QED
    BY <1>3, <2>1, <2>2 DEF Unmet
<1>6. ASSUME NEW s \in Spawners, NEW r \in Runs, Push(s, r) \/ PushFails(s, r)
      PROVE  \A x \in Runs : Unmet(x)'
  <2>1. tasks' = tasks /\ row' = row /\ r \in spawn[s] /\ spawn' = [spawn EXCEPT ![s] = {}]
    BY <1>6 DEF Push, PushFails
  <2>2. \A x \in Runs : Spawned(x)' <=> Spawned(x) /\ x # r
    BY <1>1, <2>1, SpawnedAfter DEF PlaceInv
  <2>3. Spawned(r)
    BY <2>1 DEF Spawned
  <2>4. \A x \in Runs : Queued(x)' => Queued(x) \/ x = r
    <3>1. CASE Push(s, r)
      BY <3>1, <1>1, QueuedAfterPush DEF Push
    <3>2. CASE PushFails(s, r)
      BY <3>2 DEF PushFails, Queued
    <3> QED
      BY <1>6, <3>1, <3>2
  <2> QED
    BY <1>3, <2>1, <2>2, <2>3, <2>4 DEF Unmet
<1>7. ASSUME NEW w \in Workers, Pop(w) PROVE \A x \in Runs : Unmet(x)'
  <2>1. /\ tasks' = tasks /\ row' = row /\ spawn' = spawn
        /\ queue # <<>> /\ queue' = SubSeq(queue, 1, Len(queue) - 1)
    BY <1>7 DEF Pop
  <2>2. \A i, j \in 1..Len(queue) : queue[i] = queue[j] => i = j
    <3>1. \A i \in 1..Len(queue) : queue[i] \in Runs
      BY <1>1 DEF TypeOK
    <3> QED
      BY <1>1, <3>1 DEF PlaceInv, OnePlace
  <2>3. \A x \in Runs : Queued(x)' => Queued(x)
    BY <1>1, <2>1, <2>2, QueuedAfterPop
  <2>4. \A x \in Runs : Spawned(x)' <=> Spawned(x)
    BY <2>1 DEF Spawned
  <2> QED
    BY <1>3, <2>1, <2>3, <2>4 DEF Unmet
<1>8. ASSUME NEW w \in Workers, NEW r \in Runs,
             \/ RunTask(w, r) \/ PlaybookCommit(w, r) \/ RunGroup(w, r)
             \/ Complete(w, r) \/ GiveUp(w, r) \/ Abort(w, r)
      PROVE  \A x \in Runs : Unmet(x)'
  <2>1. r \in exec[w].run /\ UNCHANGED <<queue, spawn>>
    BY <1>8 DEF RunTask, PlaybookCommit, RunGroup, Complete, GiveUp, Abort, More
  <2>2. \A x \in Runs : x # r => tasks'[x] = tasks[x] /\ row'[x] = row[x]
    BY <1>1, <1>8 DEF RunTask, PlaybookCommit, RunGroup, Complete, GiveUp, Abort, TypeOK
  <2>3. \A x \in Runs : (Spawned(x)' <=> Spawned(x)) /\ (Queued(x)' <=> Queued(x))
    BY <2>1 DEF Spawned, Queued
  <2>4. Executed(r)
    BY <2>1 DEF Executed
  <2>5. ~Spawned(r) /\ ~Queued(r) /\ row[r] \in {"pending", "running"}
    BY <1>3, <2>4 DEF Where
  <2>6. row'[r] # "none"
    BY <2>5, <1>1, <1>8 DEF RunTask, PlaybookCommit, RunGroup, Complete, GiveUp, Abort, TypeOK
  <2> QED
    BY <1>3, <2>2, <2>3, <2>5, <2>6 DEF Unmet
<1> QED
  BY <1>4, <1>5, <1>6, <1>7, <1>8 DEF Next

LEMMA ProgressPreserved ==
  ASSUME ServiceInv, [Next]_vars
  PROVE  Progress'
<1>1. PlaceInv /\ TypeOK /\ \A x \in Runs : Unmet(x)
  BY ProgressParts DEF ServiceInv, PlaceInv
<1>2. \A r \in Runs : Unmet(r)'
  BY UnmetPreserved
<1>3. exec \in [Workers -> [run : SUBSET Runs, group : Nat \ {0}, results : Seq(Ended),
                            broken : BOOLEAN]]
  BY <1>1 DEF TypeOK
<1>4. \A w \in Workers : \A r \in exec[w].run : r \in Runs /\ ProgressOf(w, r)
  BY <1>3, ProgressParts DEF ServiceInv
<1> SUFFICES \A w \in Workers : \A r \in exec'[w].run : ProgressOf(w, r)'
  BY <1>2, ProgressParts
<1>5. CASE UNCHANGED <<exec, tasks>>
  BY <1>4, <1>5 DEF ProgressOf
<1>6. ASSUME NEW w \in Workers, Pop(w)
      PROVE  \A v \in Workers : \A x \in exec'[v].run : ProgressOf(v, x)'
  <2>1. PICK r \in Runs : r = queue[Len(queue)] /\ Queued(r)
    <3>1. Len(queue) \in 1..Len(queue) /\ queue[Len(queue)] \in Runs
      BY <1>1, <1>6, PoppedAtEnd DEF Pop, TypeOK
    <3> QED
      BY <3>1 DEF Queued
  <2>2. /\ exec'[w] = [run |-> {r}, group |-> 1, results |-> <<>>, broken |-> FALSE]
        /\ tasks' = tasks /\ \A v \in Workers : v # w => exec'[v] = exec[v]
    BY <1>3, <1>6, <2>1 DEF Pop, Idle
  <2>3. tasks[r] = <<>> /\ Len(Config[r]) \in Nat
    BY <1>1, <2>1, ConfigAssumption DEF Unmet
  <2>4. ProgressOf(w, r)'
    <3>1. Service!Stand(<<>>, <<>>)
      BY DEF Service!Stand
    <3> QED
      BY <2>2, <2>3, <3>1 DEF ProgressOf
  <2>5. ASSUME NEW v \in Workers, v # w, NEW x \in exec'[v].run PROVE ProgressOf(v, x)'
    <3>1. exec'[v] = exec[v] /\ ProgressOf(v, x)
      BY <1>4, <2>2, <2>5
    <3> QED
      BY <2>2, <3>1 DEF ProgressOf
  <2> QED
    BY <2>2, <2>4, <2>5
<1>7. ASSUME NEW w \in Workers, NEW r \in Runs, RunTask(w, r)
      PROVE  \A v \in Workers : \A x \in exec'[v].run : ProgressOf(v, x)'
  <2>1. PICK e \in Ended, b \in BOOLEAN :
          exec' = [exec EXCEPT ![w].group = @ + 1, ![w].broken = b,
                               ![w].results = Append(@, e)]
    BY <1>7 DEF RunTask
  <2>2. /\ exec'[w].run = exec[w].run /\ exec'[w].group = exec[w].group + 1
        /\ exec'[w].results = Append(exec[w].results, e)
        /\ \A v \in Workers : v # w => exec'[v] = exec[v]
    BY <1>3, <2>1
  <2>3. /\ r \in exec[w].run /\ exec[w].group <= Len(Config[r])
        /\ Config[r][exec[w].group] = 1 /\ tasks' = tasks
    BY <1>7 DEF RunTask, More
  <2>4. exec[w].group \in Nat \ {0} /\ exec[w].results \in Seq(Ended) /\ Len(Config[r]) \in Nat
        /\ tasks[r] \in Seq(Ended \cup {"running"})
    BY <1>1, <1>3, ConfigAssumption DEF TypeOK
  <2>5. exec[w].run = {r}
    BY <1>1, <2>3 DEF PlaceInv, Alone
  <2>6. ProgressOf(w, r)
    BY <1>4, <2>3
  <2>7. ProgressOf(w, r)'
    <3>1. Len(exec'[w].results) = exec'[w].group - 1 /\ exec'[w].group <= Len(Config[r]) + 1
      <4>1. PICK g, l, res : g = exec[w].group /\ l = Len(Config[r]) /\ res = exec[w].results
        OBVIOUS
      <4>2. /\ g \in Nat \ {0} /\ l \in Nat /\ g <= l /\ res \in Seq(Ended) /\ Len(res) = g - 1
        BY <2>3, <2>4, <2>6, <4>1 DEF ProgressOf
      <4>3. Len(Append(res, e)) = (g + 1) - 1 /\ g + 1 <= l + 1
        BY <4>2
      <4> QED
        BY <2>2, <4>1, <4>3
    <3>2. \A k \in 1..exec'[w].group - 1 : Config[r][k] = 1
      <4>1. \A k \in 1..exec'[w].group - 1 : k \in 1..exec[w].group - 1 \/ k = exec[w].group
        BY <2>2, <2>4
      <4> QED
        BY <4>1, <2>3, <2>6 DEF ProgressOf
    <3>3. Append(exec[w].results, e) = exec[w].results \o <<e>> /\ <<e>> \in Seq(Ended \cup {"running"})
      <4>1. exec[w].results \in Seq(Ended) /\ e \in Ended
        BY <2>4
      <4>2. Append(exec[w].results, e) = exec[w].results \o <<e>>
        BY <4>1, AppendIsConcat
      <4>3. <<e>> \in Seq(Ended \cup {"running"})
        BY <4>1
      <4> QED
        BY <4>2, <4>3
    <3>4. Service!Stand(tasks[r], exec[w].results \o <<e>>)
      BY <2>4, <2>6, <3>3, StandsLonger DEF ProgressOf
    <3>5. Service!Stand(tasks'[r], exec'[w].results)
      BY <2>2, <2>3, <3>3, <3>4
    <3> QED
      BY <3>1, <3>2, <3>5 DEF ProgressOf
  <2>8. \A v \in Workers : v # w => \A x \in exec'[v].run : ProgressOf(v, x)'
    BY <2>2, <2>3, OthersProgress
  <2> QED
    BY <2>2, <2>5, <2>7, <2>8
<1>8. ASSUME NEW w \in Workers, NEW r \in Runs, PlaybookCommit(w, r)
      PROVE  \A v \in Workers : \A x \in exec'[v].run : ProgressOf(v, x)'
  <2>1. /\ r \in exec[w].run /\ exec' = exec
        /\ tasks'[r] = exec[w].results \o <<"running">> /\ \A x \in Runs : x # r => tasks'[x] = tasks[x]
    BY <1>1, <1>8 DEF PlaybookCommit, More, TypeOK
  <2>2. exec[w].run = {r} /\ exec[w].results \in Seq(Ended) /\ ProgressOf(w, r)
    BY <1>1, <1>3, <1>4, <2>1 DEF PlaceInv, Alone
  <2>3. Service!Stand(tasks'[r], exec[w].results)
    BY <2>1, <2>2, StandsAfterCommit
  <2>4. ProgressOf(w, r)'
    BY <2>1, <2>2, <2>3 DEF ProgressOf
  <2>5. \A v \in Workers : v # w => \A x \in exec'[v].run : ProgressOf(v, x)'
    BY <2>1, OthersProgress
  <2> QED
    BY <2>1, <2>2, <2>4, <2>5
<1>9. ASSUME NEW w \in Workers, NEW r \in Runs,
             RunGroup(w, r) \/ Complete(w, r) \/ GiveUp(w, r) \/ Abort(w, r)
      PROVE  \A v \in Workers : \A x \in exec'[v].run : ProgressOf(v, x)'
  <2>1. r \in exec[w].run /\ Leave(w)
    BY <1>9 DEF RunGroup, Complete, GiveUp, Abort, More
  <2>2. exec'[w].run = {} /\ \A v \in Workers : v # w => exec'[v] = exec[v]
    BY <1>1, <2>1, ExecutedAfterLeave
  <2>3. \A x \in Runs : x # r => tasks'[x] = tasks[x]
    BY <1>1, <1>9 DEF RunGroup, Complete, GiveUp, Abort, TypeOK
  <2>4. \A v \in Workers : v # w => \A x \in exec'[v].run : ProgressOf(v, x)'
    BY <2>1, <2>2, <2>3, OthersProgress
  <2> QED
    BY <2>2, <2>4
<1>10. \A s \in Spawners, r \in Runs : Spawn(s, r) \/ Push(s, r) \/ PushFails(s, r)
          => UNCHANGED <<exec, tasks>>
  BY DEF Spawn, Push, PushFails
<1> QED
  BY <1>5, <1>6, <1>7, <1>8, <1>9, <1>10 DEF Next, vars

LEMMA ServiceInvPreserved == ServiceInv /\ [Next]_vars => ServiceInv'
BY PlacePreserved, ProgressPreserved DEF ServiceInv

-----------------------------------------------------------------------------
(* The results of a worker are those of groups the service has reached. *)
LEMMA ResultsReached ==
  ASSUME ServiceInv, NEW w \in Workers, NEW r \in Runs, r \in exec[w].run
  PROVE  /\ exec[w].results \in Service!Reached(r, exec[w].group)
         /\ exec[w].results \in Seq(Ended) /\ tasks[r] \in Seq(Ended \cup {"running"})
         /\ Service!Stand(tasks[r], exec[w].results)
         /\ exec[w].group \in Nat \ {0} /\ Len(Config[r]) \in Nat
         /\ Service!Open(r)
<1>1. /\ exec[w].results \in Seq(Ended) /\ exec[w].group \in Nat \ {0}
      /\ tasks[r] \in Seq(Ended \cup {"running"}) /\ Len(Config[r]) \in Nat
  BY ConfigAssumption DEF ServiceInv, PlaceInv, TypeOK
<1>2. ProgressOf(w, r)
  BY ProgressParts DEF ServiceInv
<1>3. exec[w].results \in [1..exec[w].group - 1 -> Ended]
  BY <1>1, <1>2 DEF ProgressOf
<1>4. exec[w].results \in Service!Reached(r, exec[w].group)
  BY <1>2, <1>3 DEF Service!Reached, Service!Ended, Ended, ProgressOf
<1>5. Executed(r)
  BY DEF Executed
<1>6. Service!Open(r)
  BY <1>5 DEF ServiceInv, PlaceInv, OnePlace, Service!Open
<1> QED
  BY <1>1, <1>2, <1>4, <1>6 DEF ProgressOf

LEMMA BegunStands ==
  ASSUME NEW old \in Seq(Ended \cup {"running"}), NEW t \in Seq(Ended), NEW n \in Nat,
         Service!Stand(old, t)
  PROVE  Service!Stand(old, Service!Begun(t, n))
<1>1. [i \in 1..n |-> "running"] \in Seq(Ended \cup {"running"})
  OBVIOUS
<1> QED
  BY <1>1, StandsLonger DEF Service!Begun

(* The initial state and every step of the runs are ones of the service. *)
LEMMA ServiceInit == Init => Service!Init
BY DEF Init, Service!Init

LEMMA ServiceStep ==
  ASSUME ServiceInv, [Next]_vars
  PROVE  [Service!Next]_<<row, tasks>>
<1>1. ASSUME NEW s \in Spawners, NEW r \in Runs, Spawn(s, r) PROVE Service!Next
  BY <1>1 DEF Spawn, Service!Next, Service!Ask
<1>2. ASSUME NEW w \in Workers, NEW r \in Runs, PlaybookCommit(w, r) PROVE Service!Next
  <2>1. /\ r \in exec[w].run /\ exec[w].group <= Len(Config[r])
        /\ row' = [row EXCEPT ![r] = "running"]
        /\ tasks' = [tasks EXCEPT ![r] = exec[w].results \o <<"running">>]
    BY <1>2 DEF PlaybookCommit, More
  <2>2. exec[w].group \in 1..Len(Config[r])
    BY <2>1, ResultsReached
  <2>3. exec[w].results \o <<"running">> = Service!Begun(exec[w].results, 1)
    <3>1. [i \in 1..1 |-> "running"] = <<"running">>
      <4>1. [i \in 1..1 |-> "running"] \in Seq({"running"}) /\ <<"running">> \in Seq({"running"})
        OBVIOUS
      <4>2. Len([i \in 1..1 |-> "running"]) = Len(<<"running">>)
        OBVIOUS
      <4>3. \A i \in 1..Len([j \in 1..1 |-> "running"]) : [j \in 1..1 |-> "running"][i] = <<"running">>[i]
        OBVIOUS
      <4> QED
        BY <4>1, <4>2, <4>3, SeqEqual
    <3> QED
      BY <3>1 DEF Service!Begun
  <2>4. Service!Become(r, "running", Service!Begun(exec[w].results, 1))
    BY <2>1, <2>3, ResultsReached, BegunStands DEF Service!Become
  <2>5. exec[w].results \in Service!Reached(r, exec[w].group) /\ Service!Open(r)
    BY <2>1, ResultsReached
  <2> QED
    BY <2>2, <2>4, <2>5 DEF Service!Next, Service!Show
<1>3. ASSUME NEW w \in Workers, NEW r \in Runs, RunGroup(w, r) PROVE [Service!Next]_<<row, tasks>>
  <2>1. CASE UNCHANGED <<row, tasks>>
    BY <2>1
  <2>2. ASSUME NEW n \in 0..Config[r][exec[w].group], row' = [row EXCEPT ![r] = "failed"],
               tasks' = [tasks EXCEPT ![r] = exec[w].results \o [i \in 1..n |-> "running"]]
        PROVE  Service!Next
    <3>1. r \in exec[w].run /\ exec[w].group <= Len(Config[r]) /\ Config[r][exec[w].group] > 1
      BY <1>3 DEF RunGroup, More
    <3>2. exec[w].group \in 1..Len(Config[r])
      BY <3>1, ResultsReached
    <3>3. n \in Nat
      BY <3>2, ConfigAssumption
    <3>4. Service!Become(r, "failed", Service!Begun(exec[w].results, n))
      BY <2>2, <3>1, <3>3, ResultsReached, BegunStands DEF Service!Become, Service!Begun
    <3>5. exec[w].results \in Service!Reached(r, exec[w].group) /\ Service!Open(r)
      BY <3>1, ResultsReached
    <3> QED
      BY <3>1, <3>2, <3>4, <3>5 DEF Service!Next, Service!Fail
  <2> QED
    BY <1>3, <2>1, <2>2 DEF RunGroup
<1>4. ASSUME NEW w \in Workers, NEW r \in Runs, Complete(w, r) PROVE Service!Next
  <2>1. /\ r \in exec[w].run /\ exec[w].group = Len(Config[r]) + 1
        /\ row' = [row EXCEPT ![r] = "completed"]
        /\ tasks' = [tasks EXCEPT ![r] = exec[w].results]
    BY <1>4 DEF Complete
  <2>2. Service!Become(r, "completed", exec[w].results)
    BY <2>1, ResultsReached DEF Service!Become
  <2>3. exec[w].results \in Service!Reached(r, Len(Config[r]) + 1) /\ Service!Open(r)
    BY <2>1, ResultsReached
  <2> QED
    BY <2>2, <2>3 DEF Service!Next, Service!Complete
<1>5. ASSUME NEW s \in Spawners, NEW r \in Runs, Push(s, r) \/ PushFails(s, r)
      PROVE  UNCHANGED <<row, tasks>>
  BY <1>5 DEF Push, PushFails
<1>6. ASSUME NEW w \in Workers, NEW r \in Runs,
             Pop(w) \/ RunTask(w, r) \/ GiveUp(w, r) \/ Abort(w, r)
      PROVE  UNCHANGED <<row, tasks>>
  BY <1>6 DEF Pop, RunTask, GiveUp, Abort
<1>7. CASE UNCHANGED vars
  BY <1>7 DEF vars
<1>8. ASSUME NEW w \in Workers, Pop(w) PROVE UNCHANGED <<row, tasks>>
  BY <1>8 DEF Pop
<1> QED
  BY <1>1, <1>2, <1>3, <1>4, <1>5, <1>6, <1>7, <1>8 DEF Next

(* The runs implement the service (engine.py:69-122, soar/engine.py:122): of any number of *)
(* runs with definitions of any shape, each ends at most once, one that is completed has a *)
(* result for each of its tasks, and a result that was committed is never taken back.      *)
THEOREM RunsImplementService == Spec => ImplementsService
<1>1. Init => ServiceInv
  BY ServiceInvInit
<1>2. ServiceInv /\ [Next]_vars => ServiceInv'
  BY ServiceInvPreserved
<1>3. ServiceInv /\ [Next]_vars => [Service!Next]_<<row, tasks>>
  BY ServiceStep
<1> QED
  BY <1>1, <1>2, <1>3, ServiceInit, PTL DEF Spec, ImplementsService, Service!Spec

-----------------------------------------------------------------------------
(***************************************************************************)
(* The clock.  A replica that has fired a trigger in this minute has it in *)
(* hand or has spawned its run or given it up, and each run that was       *)
(* spawned is of a replica that fired, or that has forgotten it did.       *)
(***************************************************************************)
ClockTypes ==
  /\ minute \in Clock!Minutes
  /\ checks \in [Replicas -> 0..2]
  /\ todo \in [Replicas -> SUBSET Clocks]
  /\ lastFired \in [Replicas -> [Clocks -> Clock!Minutes \cup {Clock!Never}]]
  /\ firing \in [Replicas -> [on : BOOLEAN, trigger : Clocks \cup {Clock!NoTrigger.trigger}, found : BOOLEAN]]
  /\ definedAt \in [Clock!Agents -> Clock!Minutes \cup {Clock!Never}]
  /\ spawned \in [Clock!Slots -> Nat]
  /\ restarts \in Nat /\ clockFaults \in Nat

FiredNow(t) == {p \in Replicas : lastFired[p][t] = minute}
Spawning(t) == {p \in Replicas : firing[p].on /\ firing[p].trigger = t}

\* What a replica has still to fire, and what it is firing, is of this minute.
FiredInTime ==
  /\ \A p \in Replicas : \A t \in Clocks : lastFired[p][t] <= minute \/ lastFired[p][t] = Clock!Never
  /\ \A p \in Replicas : \A t \in todo[p] : Clock!Matches(t, minute) /\ lastFired[p][t] # minute
  /\ \A p \in Replicas : firing[p].on =>
       LET t == firing[p].trigger IN
       /\ t \in Clocks /\ Clock!Matches(t, minute) /\ lastFired[p][t] = minute
       /\ firing[p].found \/ definedAt[AgentOf[t]] \in {Clock!Never, minute}

SpawnedByReplica ==
  \A t \in Clocks :
    /\ spawned[<<t, minute>>] + Cardinality(Spawning(t)) <= Cardinality(FiredNow(t)) + restarts
    /\ \A m \in Clock!Minutes :
         /\ m > minute => spawned[<<t, m>>] = 0
         /\ spawned[<<t, m>>] <= Cardinality(Replicas) + restarts
         /\ spawned[<<t, m>>] > 0 => Clock!Matches(t, m)

\* Without a fault no minute is missed, but for the one that defines the agent.
Served(t, m) == spawned[<<t, m>>] > 0 \/ definedAt[AgentOf[t]] = m
NoMinuteMissed ==
  clockFaults = 0 =>
    \A t \in Clocks :
      /\ \A m \in Clock!Minutes : m < minute /\ Clock!Matches(t, m) => Served(t, m)
      /\ \A p \in Replicas :
           /\ checks[p] > 0 /\ Clock!Matches(t, minute) => t \in todo[p] \/ lastFired[p][t] = minute
           /\ lastFired[p][t] = minute => p \in Spawning(t) \/ Served(t, minute)

ClockInv == ClockTypes /\ FiredInTime /\ SpawnedByReplica /\ NoMinuteMissed

\* The component counts as this module does.
LEMMA ClockCardinality ==
    ASSUME NEW Els
    PROVE  Clock!Cardinality(Els) = Cardinality(Els) /\ (Clock!IsFiniteSet(Els) <=> IsFiniteSet(Els))
BY Zenon DEF Clock!Cardinality, Cardinality, Clock!IsFiniteSet, IsFiniteSet

\* Division as the cron parser needs it.
LEMMA StepsDivide ==
    ASSUME NEW d \in Nat, NEW by \in Nat \ {0}
    PROVE  /\ d % by = 0 => \E k \in 0..d : d = k * by
           /\ \A k \in Nat : d = k * by => d % by = 0
<1>1. /\ d = by * (d \div by) + (d % by) /\ d \div by \in Nat /\ d % by \in 0..by - 1
  OBVIOUS
<1> DEFINE q == d \div by
<1>2. ASSUME d % by = 0 PROVE q \in 0..d /\ d = q * by
  <2>1. d = q * by
    BY <1>1, <1>2
  <2>2. q * by >= q * 1
    BY <1>1
  <2> QED
    BY <1>1, <2>1, <2>2
<1>3. ASSUME NEW k \in Nat, d = k * by PROVE d % by = 0
  <2>1. d % by = (k - q) * by
    BY <1>1, <1>3
  <2>2. k - q <= 0
    <3> SUFFICES ASSUME k - q >= 1 PROVE FALSE
      BY <1>1
    <3>1. (k - q) * by >= by
      BY <1>1
    <3> QED
      BY <1>1, <2>1, <3>1
  <2>3. k - q >= 0
    <3> SUFFICES ASSUME k - q <= -1 PROVE FALSE
      BY <1>1
    <3>1. (k - q) * by <= -by
      BY <1>1
    <3> QED
      BY <1>1, <2>1, <3>1
  <2>4. k - q = 0
    BY <1>1, <2>2, <2>3
  <2> QED
    BY <2>1, <2>4
<1> HIDE DEF q
<1> QED
  BY <1>2, <1>3

\* A field that parses matches what it names.
LEMMA FieldsMatch ==
    ASSUME NEW field \in Clock!Field, NEW v \in Clock!Minutes, MaxMinute \in Nat
    PROVE  /\ Clock!Match(field, v) => v \in Clock!Named(field)
           /\ field.kind # "mixed" /\ v \in Clock!Named(field) => Clock!Match(field, v)
<1>0. v \in Nat /\ v \in 0..MaxMinute
  BY DEF Clock!Minutes
<1>1. CASE field.kind = "any"
  BY <1>0, <1>1 DEF Clock!Match, Clock!Named
<1>2. CASE field.kind = "list"
  <2>1. field.of \in SUBSET (Nat \X Nat)
    BY <1>2 DEF Clock!Field, Clock!Range
  <2>2. Clock!Named(field) = UNION {r[1]..r[2] : r \in field.of}
    BY <1>2 DEF Clock!Named
  <2>3. Clock!Match(field, v) <=> \E r \in field.of : r[1] <= v /\ v <= r[2]
    BY <1>2 DEF Clock!Match, Clock!InRange
  <2>4. \A r \in field.of : v \in r[1]..r[2] <=> r[1] <= v /\ v <= r[2]
    BY <1>0, <2>1
  <2> QED
    BY <2>2, <2>3, <2>4
<1>3. CASE field.kind = "step"
  <2> DEFINE lo == field.over[1]  hi == field.over[2]  by == field.by
  <2>1. lo \in Nat /\ hi \in Nat /\ by \in Nat
    BY <1>3 DEF Clock!Field, Clock!Range
  <2>2. Clock!Match(field, v) <=> by # 0 /\ lo <= v /\ v <= hi /\ (v - lo) % by = 0
    BY <1>3 DEF Clock!Match, Clock!InRange
  <2>3. v \in Clock!Named(field) <=>
          by # 0 /\ \E k \in 0..MaxMinute : v = lo + k * by /\ v <= hi
    <3>1. Clock!Named(field) = IF by = 0 THEN {}
            ELSE {u \in 0..MaxMinute : \E k \in 0..MaxMinute : u = lo + k * by /\ u <= hi}
      BY <1>3 DEF Clock!Named
    <3> QED
      BY <1>0, <3>1
  <2>4. ASSUME by # 0, lo <= v
        PROVE  /\ (v - lo) % by = 0 => \E k \in 0..(v - lo) : v - lo = k * by
               /\ \A k \in Nat : v - lo = k * by => (v - lo) % by = 0
    <3>1. v - lo \in Nat /\ by \in Nat \ {0}
      BY <1>0, <2>1, <2>4
    <3> HIDE DEF lo, by
    <3> QED
      BY <3>1, StepsDivide
  <2>5. Clock!Match(field, v) => v \in Clock!Named(field)
    <3> HIDE DEF lo, hi, by
    <3> SUFFICES ASSUME by # 0, lo <= v, v <= hi, (v - lo) % by = 0
                 PROVE  \E k \in 0..MaxMinute : v = lo + k * by /\ v <= hi
      BY <2>2, <2>3
    <3>1. PICK k \in 0..(v - lo) : v - lo = k * by
      BY <2>4
    <3>2. k \in 0..MaxMinute /\ k * by \in Nat
      BY <1>0, <2>1, <3>1
    <3> QED
      BY <1>0, <2>1, <3>1, <3>2
  <2>6. v \in Clock!Named(field) => Clock!Match(field, v)
    <3> HIDE DEF lo, hi, by
    <3> SUFFICES ASSUME by # 0, NEW k \in 0..MaxMinute, v = lo + k * by, v <= hi
                 PROVE  lo <= v /\ (v - lo) % by = 0
      BY <2>2, <2>3
    <3>1. k * by \in Nat /\ k \in Nat
      BY <2>1
    <3>2. lo <= v /\ v - lo = k * by
      BY <1>0, <2>1, <3>1
    <3> QED
      BY <2>4, <3>1, <3>2
  <2> QED
    BY <2>5, <2>6
<1>4. CASE field.kind = "mixed"
  BY <1>4 DEF Clock!Match
<1> QED
  BY <1>1, <1>2, <1>3, <1>4 DEF Clock!Field

LEMMA MinutesMatch ==
    ASSUME Clock!TriggerAssumption, NEW t \in Clocks, NEW m \in Clock!Minutes
    PROVE  /\ Clock!Matches(t, m) => Clock!NamedMinute(t, m)
           /\ Clock!Parses(t) /\ Clock!NamedMinute(t, m) => Clock!Matches(t, m)
<1>1. Hour \in Nat \ {0} /\ MaxMinute \in Nat /\ m \in 0..MaxMinute
  BY DEF Clock!TriggerAssumption, Clock!Minutes
<1>2. m % Hour \in 0..MaxMinute /\ m \div Hour \in 0..MaxMinute
  <2>1. m = Hour * (m \div Hour) + (m % Hour) /\ m \div Hour \in Nat /\ m % Hour \in Nat
    BY <1>1
  <2>2. Hour * (m \div Hour) >= m \div Hour
    BY <1>1, <2>1
  <2> QED
    BY <1>1, <2>1, <2>2
<1>3. Expr[t].minute \in Clock!Field /\ Expr[t].hour \in Clock!Field
  BY DEF Clock!TriggerAssumption
<1> QED
  BY <1>1, <1>2, <1>3, FieldsMatch DEF Clock!Matches, Clock!NamedMinute, Clock!Parses, Clock!Minutes

\* The replicas that spawn or have fired a trigger are some of all.
LEMMA ClockCounts ==
    ASSUME Clock!TriggerAssumption, NEW t, NEW p \in Replicas
    PROVE  LET spawning == Spawning(t)  fired == FiredNow(t) IN
           /\ IsFiniteSet(Replicas) /\ Cardinality(Replicas) \in Nat
           /\ IsFiniteSet(spawning) /\ Cardinality(spawning) \in Nat
           /\ IsFiniteSet(fired) /\ Cardinality(fired) \in Nat
           /\ Cardinality(fired) <= Cardinality(Replicas)
<1>1. IsFiniteSet(Replicas)
  BY ClockCardinality DEF Clock!TriggerAssumption
<1>2. FiredNow(t) \subseteq Replicas /\ Spawning(t) \subseteq Replicas
  BY DEF FiredNow, Spawning
<1> QED
  BY <1>1, <1>2, FS_Subset, FS_CardinalityType

LEMMA ClockChecks ==
    ASSUME Clock!TriggerAssumption, ClockInv, NEW p \in Replicas, Clock!Check(p)
    PROVE  ClockInv'
<1>1. ClockTypes'
  <2>1. /\ ClockTypes /\ checks[p] < 2 /\ checks' = [checks EXCEPT ![p] = @ + 1]
        /\ UNCHANGED <<minute, lastFired, firing, definedAt, spawned, restarts, clockFaults>>
    BY DEF ClockInv, Clock!Check
  <2>2. PICK due \in SUBSET Clocks : todo' = [todo EXCEPT ![p] = due]
    BY DEF Clock!Check
  <2>3. todo' \in [Replicas -> SUBSET Clocks]
    BY <2>1, <2>2 DEF ClockTypes
  <2>4. checks' \in [Replicas -> 0..2]
    <3>1. checks[p] \in 0..2 /\ checks[p] + 1 \in 0..2
      BY <2>1 DEF ClockTypes
    <3> QED
      BY <2>1, <3>1 DEF ClockTypes
  <2> QED
    BY <2>1, <2>3, <2>4 DEF ClockTypes
<1>2. \A t \in Clocks : FiredNow(t)' = FiredNow(t) /\ Spawning(t)' = Spawning(t)
  BY DEF Clock!Check, FiredNow, Spawning
<1>3. FiredInTime'
  BY DEF ClockInv, ClockTypes, FiredInTime, Clock!Check, Clock!Due
<1>4. SpawnedByReplica'
  BY <1>2 DEF ClockInv, SpawnedByReplica, Clock!Check
<1>5. NoMinuteMissed'
  <2> SUFFICES ASSUME clockFaults = 0, NEW t \in Clocks
               PROVE  /\ \A m \in Clock!Minutes : m < minute /\ Clock!Matches(t, m) => Served(t, m)
                      /\ \A q \in Replicas :
                           /\ checks'[q] > 0 /\ Clock!Matches(t, minute)
                                => t \in todo'[q] \/ lastFired[q][t] = minute
                           /\ lastFired[q][t] = minute => q \in Spawning(t) \/ Served(t, minute)
    BY <1>2 DEF NoMinuteMissed, Served, Clock!Check
  <2>1. \A q \in Replicas : q # p => checks'[q] = checks[q] /\ todo'[q] = todo[q]
    BY DEF ClockInv, ClockTypes, Clock!Check
  <2>2. todo'[p] = {u \in Clocks : Clock!Matches(u, minute) /\ lastFired[p][u] # minute}
    BY DEF ClockInv, ClockTypes, Clock!Check, Clock!Due
  <2> QED
    BY <2>1, <2>2 DEF ClockInv, NoMinuteMissed
<1> QED
  BY <1>1, <1>3, <1>4, <1>5 DEF ClockInv

LEMMA ClockFires ==
    ASSUME Clock!TriggerAssumption, ClockInv, NEW p \in Replicas, NEW t \in Clocks, Clock!Fire(p, t)
    PROVE  ClockInv'
<1>0. /\ t \in todo[p] /\ ~firing[p].on /\ lastFired[p][t] # minute /\ Clock!Matches(t, minute)
      /\ minute \in Clock!Minutes /\ minute \in Nat /\ MaxMinute \in Nat
      /\ AgentOf[t] \in Clock!Agents
  BY DEF ClockInv, ClockTypes, FiredInTime, Clock!Fire, Clock!Minutes, Clock!TriggerAssumption, Clock!Agents
<1>1. ClockTypes'
  BY <1>0 DEF ClockInv, ClockTypes, Clock!Fire
<1>2. /\ \A q \in Replicas \ {p} : /\ todo'[q] = todo[q] /\ lastFired'[q] = lastFired[q]
                                   /\ firing'[q] = firing[q]
      /\ \A u \in Clocks \ {t} : lastFired'[p][u] = lastFired[p][u]
      /\ lastFired'[p][t] = minute /\ todo'[p] = todo[p] \ {t}
      /\ firing'[p].on /\ firing'[p].trigger = t
      /\ firing'[p].found \/ definedAt[AgentOf[t]] = Clock!Never
      /\ UNCHANGED <<minute, checks, definedAt, spawned, restarts, clockFaults>>
  BY DEF ClockInv, ClockTypes, Clock!Fire
<1>3. /\ FiredNow(t)' = FiredNow(t) \cup {p} /\ p \notin FiredNow(t)
      /\ Spawning(t)' = Spawning(t) \cup {p} /\ p \notin Spawning(t)
  BY <1>0, <1>2 DEF FiredNow, Spawning
<1>4. \A u \in Clocks \ {t} : FiredNow(u)' = FiredNow(u) /\ Spawning(u)' = Spawning(u)
  BY <1>0, <1>2 DEF FiredNow, Spawning
<1>5. FiredInTime'
  <2>1. \A q \in Replicas : \A u \in Clocks : lastFired'[q][u] <= minute \/ lastFired'[q][u] = Clock!Never
    BY <1>0, <1>2 DEF ClockInv, FiredInTime
  <2>2. \A q \in Replicas : \A u \in todo'[q] : Clock!Matches(u, minute) /\ lastFired'[q][u] # minute
    BY <1>2 DEF ClockInv, ClockTypes, FiredInTime
  <2>3. ASSUME NEW q \in Replicas, firing'[q].on
        PROVE  LET u == firing'[q].trigger IN
               /\ u \in Clocks /\ Clock!Matches(u, minute) /\ lastFired'[q][u] = minute
               /\ firing'[q].found \/ definedAt[AgentOf[u]] \in {Clock!Never, minute}
    <3>1. CASE q = p
      BY <1>0, <1>2, <3>1
    <3>2. CASE q # p
      BY <1>2, <2>3, <3>2 DEF ClockInv, FiredInTime
    <3> QED
      BY <3>1, <3>2
  <2> QED
    BY <1>2, <2>1, <2>2, <2>3 DEF FiredInTime, Clock!Matches
<1>6. SpawnedByReplica'
  <2>1. /\ Cardinality(FiredNow(t)') = Cardinality(FiredNow(t)) + 1
        /\ Cardinality(Spawning(t)') = Cardinality(Spawning(t)) + 1
    BY <1>3, ClockCounts, FS_AddElement
  <2>2. /\ Cardinality(FiredNow(t)) \in Nat /\ Cardinality(Spawning(t)) \in Nat
        /\ spawned[<<t, minute>>] \in Nat /\ restarts \in Nat
    BY <1>0, ClockCounts DEF ClockInv, ClockTypes, Clock!Slots
  <2>3. \A u \in Clocks : spawned[<<u, minute>>] + Cardinality(Spawning(u)')
                            <= Cardinality(FiredNow(u)') + restarts
    BY <1>4, <2>1, <2>2 DEF ClockInv, SpawnedByReplica
  <2> QED
    BY <1>2, <2>3 DEF ClockInv, SpawnedByReplica
<1>7. NoMinuteMissed'
  <2> SUFFICES ASSUME clockFaults = 0, NEW u \in Clocks
               PROVE  /\ \A m \in Clock!Minutes : m < minute /\ Clock!Matches(u, m) => Served(u, m)
                      /\ \A q \in Replicas :
                           /\ checks[q] > 0 /\ Clock!Matches(u, minute)
                                => u \in todo'[q] \/ lastFired'[q][u] = minute
                           /\ lastFired'[q][u] = minute => q \in Spawning(u)' \/ Served(u, minute)
    BY <1>2 DEF NoMinuteMissed, Served
  <2>1. /\ \A m \in Clock!Minutes : m < minute /\ Clock!Matches(u, m) => Served(u, m)
        /\ \A q \in Replicas :
             /\ checks[q] > 0 /\ Clock!Matches(u, minute) => u \in todo[q] \/ lastFired[q][u] = minute
             /\ lastFired[q][u] = minute => q \in Spawning(u) \/ Served(u, minute)
    BY DEF ClockInv, NoMinuteMissed
  <2>2. \A q \in Replicas : \/ (q = p /\ u = t)
                           \/ (lastFired'[q][u] = lastFired[q][u] /\ (u \in todo[q] => u \in todo'[q]))
    BY <1>2
  <2>3. Spawning(u) \subseteq Spawning(u)'
    BY <1>3, <1>4
  <2> QED
    BY <1>2, <1>3, <2>1, <2>2, <2>3
<1> QED
  BY <1>1, <1>5, <1>6, <1>7 DEF ClockInv

LEMMA NoTriggerIsOff ==
    /\ Clock!NoTrigger \in [on : BOOLEAN, trigger : Clocks \cup {Clock!NoTrigger.trigger}, found : BOOLEAN]
    /\ ~Clock!NoTrigger.on
<1> DEFINE first == CHOOSE t \in Clocks : TRUE
<1>1. Clock!NoTrigger = [on |-> FALSE, trigger |-> first, found |-> FALSE]
  BY DEF Clock!NoTrigger
<1> HIDE DEF first
<1> QED
  BY <1>1

\* The end of a spawning: its run is stored, or given up to one that defined the agent
\* in this minute, or lost to a fault.
LEMMA ClockSpawns ==
    ASSUME Clock!TriggerAssumption, ClockInv, NEW p \in Replicas,
           Clock!SpawnRun(p) \/ Clock!SpawnFails(p)
    PROVE  ClockInv'
<1>a. firing[p].on /\ firing[p].trigger \in Clocks /\ minute \in Clock!Minutes
  BY DEF ClockInv, ClockTypes, FiredInTime, Clock!SpawnRun, Clock!SpawnFails
<1>b. PICK t \in Clocks : t = firing[p].trigger
  BY <1>a
<1>c. PICK now \in Clock!Minutes : now = minute
  BY <1>a
<1> DEFINE slot == <<t, now>>  a == AgentOf[t]
<1>0. /\ firing[p].on /\ Clock!Matches(t, now) /\ lastFired[p][t] = now
      /\ firing[p].found \/ definedAt[a] \in {Clock!Never, now}
      /\ now \in Nat /\ MaxMinute \in Nat /\ a \in Clock!Agents
      /\ now # Clock!Never /\ slot \in Clock!Slots
  BY <1>a, <1>b, <1>c DEF ClockInv, FiredInTime, Clock!Minutes,
         Clock!TriggerAssumption, Clock!Agents, Clock!Never, Clock!Slots
<1>1. /\ \A q \in Replicas \ {p} : firing'[q] = firing[q]
      /\ firing'[p] = Clock!NoTrigger /\ ~firing'[p].on
      /\ UNCHANGED <<minute, checks, todo, lastFired, restarts>>
  BY NoTriggerIsOff DEF ClockInv, ClockTypes, Clock!SpawnRun, Clock!SpawnFails
<1>2. \/ /\ spawned' = [spawned EXCEPT ![slot] = @ + 1]
         /\ definedAt' = [definedAt EXCEPT ![a] = IF @ = Clock!Never THEN now ELSE @]
         /\ UNCHANGED clockFaults
      \/ /\ UNCHANGED <<spawned, definedAt, clockFaults>>
         /\ definedAt[a] = now
      \/ UNCHANGED <<spawned, definedAt>> /\ clockFaults' > 0
  BY <1>0, <1>b, <1>c DEF ClockInv, ClockTypes, Clock!SpawnRun, Clock!SpawnFails, Clock!Store, Clock!Fault
<1> HIDE DEF slot, a
<1>3. ClockTypes'
  <2>1. spawned' \in [Clock!Slots -> Nat] /\ definedAt' \in [Clock!Agents -> Clock!Minutes \cup {Clock!Never}]
    <3>1. spawned \in [Clock!Slots -> Nat] /\ definedAt \in [Clock!Agents -> Clock!Minutes \cup {Clock!Never}]
      BY DEF ClockInv, ClockTypes
    <3>2. /\ [spawned EXCEPT ![slot] = @ + 1] \in [Clock!Slots -> Nat]
          /\ [definedAt EXCEPT ![a] = IF @ = Clock!Never THEN now ELSE @]
               \in [Clock!Agents -> Clock!Minutes \cup {Clock!Never}]
      BY <1>0, <3>1
    <3> QED
      BY <1>2, <3>1, <3>2
  <2>2. clockFaults' \in Nat
    BY DEF ClockInv, ClockTypes, Clock!SpawnRun, Clock!SpawnFails, Clock!Fault
  <2>3. firing' \in [Replicas -> [on : BOOLEAN, trigger : Clocks \cup {Clock!NoTrigger.trigger}, found : BOOLEAN]]
    BY NoTriggerIsOff DEF ClockInv, ClockTypes, Clock!SpawnRun, Clock!SpawnFails
  <2> QED
    BY <1>1, <2>1, <2>2, <2>3 DEF ClockInv, ClockTypes
<1>4. /\ \A b \in Clock!Agents : definedAt[b] # Clock!Never => definedAt'[b] = definedAt[b]
      /\ \A b \in Clock!Agents : definedAt'[b] \in {definedAt[b], now}
  BY <1>0, <1>2 DEF ClockInv, ClockTypes
<1>5. /\ \A r \in Clock!Slots \ {slot} : spawned'[r] = spawned[r]
      /\ spawned'[slot] \in {spawned[slot], spawned[slot] + 1} /\ spawned[slot] \in Nat
  BY <1>0, <1>2 DEF ClockInv, ClockTypes
<1>6. /\ \A u \in Clocks : FiredNow(u)' = FiredNow(u)
      /\ Spawning(t)' = Spawning(t) \ {p} /\ p \in Spawning(t)
      /\ \A u \in Clocks \ {t} : Spawning(u)' = Spawning(u)
  BY <1>0, <1>1, <1>b DEF FiredNow, Spawning
<1>7. FiredInTime'
  <2>1. ASSUME NEW q \in Replicas, firing'[q].on
        PROVE  LET u == firing'[q].trigger IN
               /\ u \in Clocks /\ Clock!Matches(u, now) /\ lastFired[q][u] = now
               /\ firing'[q].found \/ definedAt'[AgentOf[u]] \in {Clock!Never, now}
    <3>1. q # p /\ firing'[q] = firing[q]
      BY <1>1, <2>1
    <3>2. LET u == firing[q].trigger IN
          /\ u \in Clocks /\ Clock!Matches(u, now) /\ lastFired[q][u] = now
          /\ firing[q].found \/ definedAt[AgentOf[u]] \in {Clock!Never, now}
      BY <1>c, <2>1, <3>1 DEF ClockInv, FiredInTime
    <3>3. AgentOf[firing[q].trigger] \in Clock!Agents
      BY <3>2 DEF Clock!Agents
    <3> QED
      BY <1>4, <3>1, <3>2, <3>3
  <2> QED
    BY <1>1, <1>c, <2>1 DEF ClockInv, FiredInTime, Clock!Matches
<1>8. SpawnedByReplica'
  <2>1. /\ Cardinality(Spawning(t)') = Cardinality(Spawning(t)) - 1 /\ Cardinality(Spawning(t)) \in Nat
        /\ Cardinality(Spawning(t)') \in Nat
        /\ Cardinality(FiredNow(t)) \in Nat /\ Cardinality(FiredNow(t)) <= Cardinality(Replicas)
        /\ Cardinality(Replicas) \in Nat /\ restarts \in Nat
    <3>1. IsFiniteSet(Spawning(t)) /\ Cardinality(Spawning(t)) \in Nat
      BY ClockCounts
    <3>2. IsFiniteSet(Spawning(t)') /\ Cardinality(Spawning(t)') \in Nat
      BY <1>6, <3>1, FS_Subset, FS_CardinalityType
    <3> QED
      BY <1>6, <3>1, <3>2, ClockCounts, FS_RemoveElement DEF ClockInv, ClockTypes
  <2>2. spawned[slot] + Cardinality(Spawning(t)) <= Cardinality(FiredNow(t)) + restarts
    BY <1>c DEF ClockInv, SpawnedByReplica, slot
  <2>3. spawned'[slot] + Cardinality(Spawning(t)') <= Cardinality(FiredNow(t)) + restarts
    BY <1>5, <2>1, <2>2
  <2>4. spawned'[slot] <= Cardinality(Replicas) + restarts
    BY <1>5, <2>1, <2>3
  <2>5. \A u \in Clocks : \A m \in Clock!Minutes :
          <<u, m>> \in Clock!Slots /\ (<<u, m>> = slot <=> u = t /\ m = now)
    BY DEF Clock!Slots, slot
  <2>6. \A u \in Clocks :
          spawned'[<<u, now>>] + Cardinality(Spawning(u)') <= Cardinality(FiredNow(u)) + restarts
    <3> SUFFICES ASSUME NEW u \in Clocks
                 PROVE  spawned'[<<u, now>>] + Cardinality(Spawning(u)') <= Cardinality(FiredNow(u)) + restarts
      OBVIOUS
    <3>1. CASE u = t
      BY <2>3, <3>1 DEF slot
    <3>2. CASE u # t
      BY <1>0, <1>c, <1>5, <1>6, <2>5, <3>2 DEF ClockInv, SpawnedByReplica
    <3> QED
      BY <3>1, <3>2
  <2>7. ASSUME NEW u \in Clocks, NEW m \in Clock!Minutes
        PROVE  /\ m > now => spawned'[<<u, m>>] = 0
               /\ spawned'[<<u, m>>] <= Cardinality(Replicas) + restarts
               /\ spawned'[<<u, m>>] > 0 => Clock!Matches(u, m)
    <3>1. CASE <<u, m>> = slot
      BY <1>0, <2>4, <2>5, <3>1
    <3>2. CASE <<u, m>> # slot
      BY <1>5, <1>c, <2>5, <3>2 DEF ClockInv, SpawnedByReplica
    <3> QED
      BY <3>1, <3>2
  <2> QED
    BY <1>1, <1>c, <1>6, <2>6, <2>7 DEF SpawnedByReplica, Clock!Matches
<1>9. NoMinuteMissed'
  <2> SUFFICES ASSUME clockFaults' = 0, NEW u \in Clocks
               PROVE  /\ \A m \in Clock!Minutes : m < now /\ Clock!Matches(u, m) => Served(u, m)'
                      /\ \A q \in Replicas :
                           /\ checks[q] > 0 /\ Clock!Matches(u, now)
                                => u \in todo[q] \/ lastFired[q][u] = now
                           /\ lastFired[q][u] = now => q \in Spawning(u)' \/ Served(u, now)'
    BY <1>1, <1>c DEF NoMinuteMissed, Served, Clock!Matches
  <2>1. clockFaults = 0
    BY DEF ClockInv, ClockTypes, Clock!SpawnRun, Clock!SpawnFails, Clock!Fault
  <2>2. /\ \A m \in Clock!Minutes : m < now /\ Clock!Matches(u, m) => Served(u, m)
        /\ \A q \in Replicas :
             /\ checks[q] > 0 /\ Clock!Matches(u, now) => u \in todo[q] \/ lastFired[q][u] = now
             /\ lastFired[q][u] = now => q \in Spawning(u) \/ Served(u, now)
    BY <1>c, <2>1 DEF ClockInv, NoMinuteMissed
  <2>3. \A m \in Clock!Minutes : Served(u, m) => Served(u, m)'
    <3> SUFFICES ASSUME NEW m \in Clock!Minutes, Served(u, m)
                 PROVE  spawned'[<<u, m>>] > 0 \/ definedAt'[AgentOf[u]] = m
      BY DEF Served
    <3>1. AgentOf[u] \in Clock!Agents /\ <<u, m>> \in Clock!Slots /\ m # Clock!Never
      BY <1>0 DEF Clock!Agents, Clock!Slots, Clock!Minutes, Clock!Never
    <3>2. spawned'[<<u, m>>] \in {spawned[<<u, m>>], spawned[<<u, m>>] + 1} /\ spawned[<<u, m>>] \in Nat
      BY <1>5, <3>1 DEF ClockInv, ClockTypes
    <3> QED
      BY <1>4, <3>1, <3>2 DEF Served
  <2>4. Served(t, now)'
    <3>1. CASE spawned'[slot] = spawned[slot] + 1
      BY <1>5, <3>1 DEF Served, slot
    <3>2. CASE UNCHANGED <<spawned, definedAt>> /\ definedAt[a] = now
      BY <3>2 DEF Served, a
    <3>3. clockFaults' = 0 /\ (spawned' = [spawned EXCEPT ![slot] = @ + 1] => spawned'[slot] = spawned[slot] + 1)
      BY <1>0 DEF ClockInv, ClockTypes
    <3> QED
      BY <1>2, <3>1, <3>2, <3>3
  <2>5. \A q \in Replicas : q \in Spawning(u) => q \in Spawning(u)' \/ u = t
    BY <1>6
  <2>6. now \in Clock!Minutes
    BY <1>0
  <2> QED
    BY <1>1, <2>2, <2>3, <2>4, <2>5, <2>6
<1> QED
  BY <1>3, <1>7, <1>8, <1>9 DEF ClockInv

\* A restart forgets at most one firing of a trigger, and counts for one.
LEMMA ClockRestarts ==
    ASSUME Clock!TriggerAssumption, ClockInv, NEW p \in Replicas, Clock!Restart(p)
    PROVE  ClockInv'
<1>0. /\ minute \in Clock!Minutes /\ minute # Clock!Never /\ restarts \in Nat
      /\ clockFaults \in Nat /\ clockFaults' = clockFaults + 1
  BY DEF ClockInv, ClockTypes, Clock!Restart, Clock!Fault, Clock!Minutes, Clock!Never, Clock!TriggerAssumption
<1>1. /\ \A q \in Replicas \ {p} : todo'[q] = todo[q] /\ lastFired'[q] = lastFired[q] /\ firing'[q] = firing[q]
      /\ \A t \in Clocks : lastFired'[p][t] = Clock!Never
      /\ todo'[p] = {} /\ ~firing'[p].on
      /\ restarts' = restarts + 1
      /\ UNCHANGED <<minute, definedAt, spawned>>
  BY NoTriggerIsOff DEF ClockInv, ClockTypes, Clock!Restart
<1>2. ClockTypes'
  BY <1>0, NoTriggerIsOff DEF ClockInv, ClockTypes, Clock!Restart
<1>3. \A t \in Clocks : FiredNow(t)' = FiredNow(t) \ {p} /\ Spawning(t)' = Spawning(t) \ {p}
  BY <1>0, <1>1 DEF FiredNow, Spawning
<1>4. FiredInTime'
  <2>1. ASSUME NEW q \in Replicas, firing'[q].on
        PROVE  LET t == firing'[q].trigger IN
               /\ t \in Clocks /\ Clock!Matches(t, minute) /\ lastFired'[q][t] = minute
               /\ firing'[q].found \/ definedAt[AgentOf[t]] \in {Clock!Never, minute}
    BY <1>1, <2>1 DEF ClockInv, FiredInTime
  <2>2. \A q \in Replicas : \A t \in todo'[q] : Clock!Matches(t, minute) /\ lastFired'[q][t] # minute
    BY <1>1 DEF ClockInv, FiredInTime
  <2>3. \A q \in Replicas : \A t \in Clocks : lastFired'[q][t] <= minute \/ lastFired'[q][t] = Clock!Never
    BY <1>1 DEF ClockInv, FiredInTime
  <2> QED
    BY <1>1, <2>1, <2>2, <2>3 DEF FiredInTime, Clock!Matches
<1>5. SpawnedByReplica'
  <2> SUFFICES ASSUME NEW t \in Clocks
               PROVE  /\ spawned[<<t, minute>>] + Cardinality(Spawning(t)')
                           <= Cardinality(FiredNow(t)') + restarts'
                      /\ \A m \in Clock!Minutes :
                           /\ m > minute => spawned[<<t, m>>] = 0
                           /\ spawned[<<t, m>>] <= Cardinality(Replicas) + restarts'
                           /\ spawned[<<t, m>>] > 0 => Clock!Matches(t, m)
    BY <1>1 DEF SpawnedByReplica, Clock!Matches
  <2>1. /\ IsFiniteSet(Spawning(t)) /\ Cardinality(Spawning(t)) \in Nat
        /\ IsFiniteSet(FiredNow(t)) /\ Cardinality(FiredNow(t)) \in Nat
        /\ Cardinality(Replicas) \in Nat
    BY ClockCounts
  <2>2. Cardinality(Spawning(t)') <= Cardinality(Spawning(t)) /\ Cardinality(Spawning(t)') \in Nat
    BY <1>3, <2>1, FS_Subset, FS_CardinalityType
  <2>3. Cardinality(FiredNow(t)') >= Cardinality(FiredNow(t)) - 1 /\ Cardinality(FiredNow(t)') \in Nat
    <3>1. Cardinality(FiredNow(t) \ {p}) \in {Cardinality(FiredNow(t)) - 1, Cardinality(FiredNow(t))}
      BY <2>1, FS_RemoveElement
    <3>2. Cardinality(FiredNow(t) \ {p}) \in Nat
      BY <2>1, FS_Subset, FS_CardinalityType
    <3> QED
      BY <1>3, <2>1, <3>1, <3>2
  <2>4. \A m \in Clock!Minutes : spawned[<<t, m>>] \in Nat
    BY DEF ClockInv, ClockTypes, Clock!Slots
  <2> QED
    BY <1>0, <1>1, <2>1, <2>2, <2>3, <2>4 DEF ClockInv, SpawnedByReplica
<1>6. NoMinuteMissed'
  BY <1>0 DEF NoMinuteMissed
<1> QED
  BY <1>2, <1>4, <1>5, <1>6 DEF ClockInv

\* A minute ends when nothing is left to fire or being fired.
LEMMA ClockTicks ==
    ASSUME Clock!TriggerAssumption, ClockInv, Clock!Tick
    PROVE  ClockInv'
<1>0. /\ minute \in Nat /\ minute + 1 \in Clock!Minutes /\ minute + 1 # Clock!Never /\ minute' = minute + 1
      /\ minute \in Clock!Minutes /\ clockFaults \in Nat /\ clockFaults' \in Nat /\ clockFaults' >= clockFaults
      /\ \A m \in Clock!Minutes : m \in Nat
      /\ UNCHANGED <<todo, lastFired, firing, definedAt, spawned, restarts>>
  BY DEF ClockInv, ClockTypes, Clock!Tick, Clock!Fault, Clock!Minutes, Clock!Never, Clock!TriggerAssumption
<1>1. \A p \in Replicas : todo[p] = {} /\ ~firing[p].on /\ checks'[p] = 0
  BY DEF ClockInv, ClockTypes, Clock!Tick, Clock!Idle
<1>2. ClockTypes'
  BY <1>0 DEF ClockInv, ClockTypes, Clock!Tick
<1>3. \A t \in Clocks : FiredNow(t)' = {} /\ Spawning(t)' = {}
  BY <1>0, <1>1 DEF ClockInv, ClockTypes, FiredInTime, FiredNow, Spawning
<1>4. FiredInTime'
  <2>1. \A p \in Replicas : \A t \in Clocks : lastFired[p][t] \in Clock!Minutes \cup {Clock!Never}
    BY DEF ClockInv, ClockTypes
  <2>2. \A p \in Replicas : \A t \in Clocks : lastFired[p][t] <= minute + 1 \/ lastFired[p][t] = Clock!Never
    <3> SUFFICES ASSUME NEW p \in Replicas, NEW t \in Clocks, lastFired[p][t] # Clock!Never
                 PROVE  lastFired[p][t] <= minute + 1
      OBVIOUS
    <3>1. lastFired[p][t] \in Nat /\ lastFired[p][t] <= minute
      BY <1>0, <2>1 DEF ClockInv, FiredInTime
    <3> QED
      BY <1>0, <3>1
  <2> QED
    BY <1>0, <1>1, <2>2 DEF FiredInTime
<1>5. SpawnedByReplica'
  <2> SUFFICES ASSUME NEW t \in Clocks
               PROVE  /\ spawned[<<t, minute + 1>>] + Cardinality({}) <= Cardinality({}) + restarts
                      /\ \A m \in Clock!Minutes :
                           /\ m > minute + 1 => spawned[<<t, m>>] = 0
                           /\ spawned[<<t, m>>] <= Cardinality(Replicas) + restarts
                           /\ spawned[<<t, m>>] > 0 => Clock!Matches(t, m)
    BY <1>0, <1>3 DEF SpawnedByReplica, Clock!Matches
  <2>1. Cardinality({}) = 0 /\ restarts \in Nat
    BY <1>0, FS_EmptySet DEF ClockInv, ClockTypes
  <2>2. ASSUME NEW m \in Clock!Minutes
        PROVE  /\ m > minute => spawned[<<t, m>>] = 0
               /\ spawned[<<t, m>>] <= Cardinality(Replicas) + restarts
               /\ spawned[<<t, m>>] > 0 => Clock!Matches(t, m)
    BY DEF ClockInv, SpawnedByReplica
  <2>3. spawned[<<t, minute + 1>>] + Cardinality({}) <= Cardinality({}) + restarts
    <3> DEFINE next == minute + 1
    <3>1. next \in Clock!Minutes /\ next > minute
      BY <1>0
    <3> HIDE DEF next
    <3>2. spawned[<<t, next>>] = 0
      BY <2>2, <3>1
    <3> QED
      BY <2>1, <3>2 DEF next
  <2>4. ASSUME NEW m \in Clock!Minutes, m > minute + 1 PROVE spawned[<<t, m>>] = 0
    <3>1. m > minute
      BY <1>0, <2>4
    <3> QED
      BY <2>2, <3>1
  <2> QED
    BY <2>2, <2>3, <2>4
<1>6. NoMinuteMissed'
  <2> SUFFICES ASSUME clockFaults' = 0, NEW t \in Clocks, NEW m \in Clock!Minutes, m < minute + 1,
                      Clock!Matches(t, m)
               PROVE  Served(t, m)
    <3>1. \A p \in Replicas : ~(checks'[p] > 0) /\ \A t \in Clocks : lastFired[p][t] # minute + 1
      BY <1>0, <1>1, <1>3 DEF FiredNow
    <3> QED
      BY <1>0, <3>1 DEF NoMinuteMissed, Served, Clock!Matches
  <2>1. clockFaults = 0 /\ \A p \in Replicas : checks[p] > 0
    BY <1>0 DEF Clock!Tick, Clock!Fault
  <2>2. CASE m < minute
    BY <2>1, <2>2 DEF ClockInv, NoMinuteMissed
  <2>3. CASE m = minute
    <3>1. PICK p \in Replicas : TRUE
      BY DEF Clock!TriggerAssumption
    <3>2. lastFired[p][t] = minute
      BY <1>1, <2>1, <2>3 DEF ClockInv, NoMinuteMissed
    <3>3. p \notin Spawning(t)
      BY <1>1 DEF Spawning
    <3> QED
      BY <2>1, <2>3, <3>2, <3>3 DEF ClockInv, NoMinuteMissed
  <2> QED
    BY <1>0, <2>2, <2>3
<1> QED
  BY <1>2, <1>4, <1>5, <1>6 DEF ClockInv

LEMMA ClockInvHolds == Clock!Spec => []ClockInv
<1>0. Clock!TriggerAssumption
  BY AutomationAssumption
<1>1. ASSUME Clock!Init PROVE ClockInv
  <2>0. /\ 0 \in Clock!Minutes /\ 0 # Clock!Never /\ \A m \in Clock!Minutes : m \in Nat
        /\ \A t \in Clocks : \A m \in Clock!Minutes : <<t, m>> \in Clock!Slots
    BY <1>0 DEF Clock!Minutes, Clock!Never, Clock!TriggerAssumption, Clock!Slots
  <2>1. ClockTypes
    BY <1>1, <2>0, NoTriggerIsOff DEF Clock!Init, ClockTypes
  <2>2. \A p \in Replicas : todo[p] = {} /\ ~firing[p].on /\ checks[p] = 0
    BY <1>1, NoTriggerIsOff DEF Clock!Init
  <2>3. \A p \in Replicas : \A t \in Clocks : lastFired[p][t] = Clock!Never
    BY <1>1 DEF Clock!Init
  <2>4. FiredInTime
    BY <1>1, <2>0, <2>2, <2>3 DEF FiredInTime, Clock!Init
  <2>5. SpawnedByReplica
    <3>1. \A t \in Clocks : FiredNow(t) = {} /\ Spawning(t) = {}
      BY <1>1, <2>0, <2>2, <2>3 DEF FiredNow, Spawning, Clock!Init
    <3>2. \A t \in Clocks : \A m \in Clock!Minutes : spawned[<<t, m>>] = 0
      BY <1>1, <2>0 DEF Clock!Init
    <3>3. Cardinality({}) = 0 /\ restarts = 0 /\ minute = 0 /\ Cardinality(Replicas) \in Nat
      BY <1>0, <1>1, FS_EmptySet, ClockCounts DEF Clock!Init, Clock!TriggerAssumption
    <3> QED
      BY <2>0, <3>1, <3>2, <3>3 DEF SpawnedByReplica
  <2>6. NoMinuteMissed
    BY <1>1, <2>0, <2>2, <2>3 DEF NoMinuteMissed, Clock!Init
  <2> QED
    BY <2>1, <2>4, <2>5, <2>6 DEF ClockInv
<1>2. ASSUME ClockInv, [Clock!Next]_(Clock!vars) PROVE ClockInv'
  <2>1. ASSUME NEW p \in Replicas, Clock!Check(p) PROVE ClockInv'
    BY <1>0, <1>2, <2>1, ClockChecks
  <2>2. ASSUME NEW p \in Replicas, NEW t \in Clocks, Clock!Fire(p, t) PROVE ClockInv'
    BY <1>0, <1>2, <2>2, ClockFires
  <2>3. ASSUME NEW p \in Replicas, Clock!SpawnRun(p) \/ Clock!SpawnFails(p) PROVE ClockInv'
    BY <1>0, <1>2, <2>3, ClockSpawns
  <2>4. ASSUME NEW p \in Replicas, Clock!Restart(p) PROVE ClockInv'
    BY <1>0, <1>2, <2>4, ClockRestarts
  <2>5. CASE Clock!Tick
    BY <1>0, <1>2, <2>5, ClockTicks
  <2>6. CASE UNCHANGED Clock!vars
    <3>1. \A t : FiredNow(t)' = FiredNow(t) /\ Spawning(t)' = Spawning(t)
      BY <2>6 DEF Clock!vars, FiredNow, Spawning
    <3> QED
      BY <1>2, <2>6, <3>1
      DEF Clock!vars, ClockInv, ClockTypes, FiredInTime, SpawnedByReplica, NoMinuteMissed, Served,
          Clock!Matches
  <2> QED
    BY <1>2, <2>1, <2>2, <2>3, <2>4, <2>5, <2>6 DEF Clock!Next
<1> QED
  BY <1>1, <1>2, PTL DEF Clock!Spec

(***************************************************************************)
(* A trigger fires in the minutes its expression names, once for each      *)
(* replica but for restarts, and without a fault in each of them but the   *)
(* one that defines its agent, for any expressions and any number of       *)
(* replicas (trigger_worker.py).                                           *)
(***************************************************************************)
THEOREM TriggersFireAsNamed == Clock!Spec => []FiresAsNamed
<1>0. Clock!TriggerAssumption
  BY AutomationAssumption
<1>1. ClockInv => FiresAsNamed
  <2> SUFFICES ASSUME ClockInv, NEW t \in Clocks, NEW m \in Clock!Minutes
               PROVE  /\ spawned[<<t, m>>] > 0 => Clock!NamedMinute(t, m)
                      /\ spawned[<<t, m>>] <= Cardinality(Replicas) + restarts
                      /\ (m < minute /\ Clock!Parses(t) /\ Clock!NamedMinute(t, m) /\ clockFaults = 0)
                           => Served(t, m)
    BY ClockCardinality DEF FiresAsNamed, Clock!FiresAsNamed, Served
  <2> QED
    BY <1>0, MinutesMatch DEF ClockInv, SpawnedByReplica, NoMinuteMissed
<1> QED
  BY <1>1, ClockInvHolds, PTL

-----------------------------------------------------------------------------
(***************************************************************************)
(* Workflows.  The two runs of a workflow take its steps at different      *)
(* times, but both follow one plan, which depends on the alert alone: how  *)
(* many actions are listed before each step, which step was the last to    *)
(* store each output, and whose action each entry of the list is.  The     *)
(* plan is drawn up as far as the run that is ahead has come.              *)
(***************************************************************************)
Does(a, i) ==
  LET expr == FlowSteps[i].if IN expr = "always" \/ (expr = "level" /\ expr \in a)
Lists(a, i) == IF Does(a, i) THEN Len(FlowSteps[i].actions) ELSE 0
Tells(a, i, n) == Does(a, i) /\ FlowSteps[i].name = n /\ FlowSteps[i].provider # "none"

Plan(a, k, before, last, source) ==
  /\ k \in 1..Len(FlowSteps) + 1
  /\ before \in [1..k -> Nat] /\ before[1] = 0
  /\ last \in [1..k -> [Flow!Names -> 0..Len(FlowSteps)]]
  /\ \A n \in Flow!Names : last[1][n] = 0
  /\ \A i \in 1..k : before[i] <= before[k]
  /\ \A i \in 1..k - 1 :
       /\ before[i + 1] = before[i] + Lists(a, i)
       /\ \A n \in Flow!Names : last[i + 1][n] = IF Tells(a, i, n) THEN i ELSE last[i][n]
       /\ \A j \in 1..Lists(a, i) : source[before[i] + j] = <<i, j>>

\* What a run may have as the output that step l stored.
Allowed(m, l) ==
  IF l = 0 THEN {"absent"}
  ELSE IF FlowSteps[l].provider \notin Providers THEN {"error"}
  ELSE IF m = "dry" THEN {"dry"} ELSE {"data", "error"}

\* An entry of the list is the action it stands for, quoting what was stored before it.
AsPlanned(m, item, s, last) ==
  LET action == FlowSteps[s[1]].actions[s[2]]
  IN  /\ s[1] \in 1..Len(FlowSteps) /\ s[2] \in 1..Len(FlowSteps[s[1]].actions)
      /\ item[1] = action.type
      /\ item[2] \in IF action.quotes = "none" THEN {"absent"}
                     ELSE Allowed(m, last[s[1]][action.quotes])

Follows(m, r, a, k, before, last, source) ==
  /\ r.at \in 1..k
  /\ r.skipped = {i \in 1..r.at - 1 : ~Does(a, i)}
  /\ Len(r.intended) = before[r.at]
  /\ \A n \in Flow!Names : r.output[n] \in Allowed(m, last[r.at][n])
  /\ \A p \in 1..Len(r.intended) :
       source[p][1] < r.at /\ AsPlanned(m, r.intended[p], source[p], last)

FlowRun == [at : 0..Flow!Ended, skipped : SUBSET (1..Len(FlowSteps)),
            intended : Seq(Flow!Types \X Flow!Outputs), output : [Flow!Names -> Flow!Outputs]]

Starts(a) == \E t \in FlowTriggers : t = "called" \/ t \in a
Fresh(r) == r.skipped = {} /\ r.intended = <<>> /\ \A n \in Flow!Names : r.output[n] = "absent"
OnePlan(f, a) ==
  \E k, before, last, source :
    /\ Plan(a, k, before, last, source)
    /\ \A m \in Flow!Modes : f[m].at # 0 => Follows(m, f[m], a, k, before, last, source)

FlowInv ==
  /\ alert \subseteq {"level", "intel"}
  /\ flow \in [Flow!Modes -> FlowRun]
  /\ calls \in [Flow!Modes -> Nat] /\ executed \in [Flow!Modes -> Nat]
  /\ calls["dry"] = 0 /\ executed["dry"] = 0 /\ executed["real"] = Len(flow["real"].intended)
  /\ \A m \in Flow!Modes : flow[m].at = 0 => Fresh(flow[m])
  /\ Starts(alert) => OnePlan(flow, alert)
  /\ ~Starts(alert) => \A m \in Flow!Modes : flow[m].at \in {0, Flow!Ended} /\ Fresh(flow[m])

\* What is planned comes of a step, whatever else the plan knows.
LEMMA PlannedStep ==
    ASSUME Flow!WorkflowAssumption, NEW m, NEW item, NEW s, NEW last, AsPlanned(m, item, s, last)
    PROVE  s[1] \in Nat /\ s[1] > 0
<1>1. PICK at : at = s[1]
  OBVIOUS
<1>2. at \in 1..Len(FlowSteps)
  BY <1>1 DEF AsPlanned
<1>3. Len(FlowSteps) \in Nat
  BY DEF Flow!WorkflowAssumption
<1>4. at \in Nat /\ at > 0
  BY ONLY <1>2, <1>3
<1> QED
  BY ONLY <1>1, <1>4

LEMMA PlannedAlike ==
    ASSUME NEW m, NEW item, NEW s, NEW last, NEW other, AsPlanned(m, item, s, last),
           other[s[1]] = last[s[1]]
    PROVE  AsPlanned(m, item, s, other)
BY DEF AsPlanned

\* A step of the workflow.
LEMMA FlowStepShape ==
    ASSUME Flow!WorkflowAssumption, NEW i \in 1..Len(FlowSteps), NEW a
    PROVE  LET s == FlowSteps[i] IN
           /\ s.name \in Flow!Names /\ Len(s.actions) \in Nat /\ Lists(a, i) \in Nat
           /\ \A j \in 1..Len(s.actions) : /\ s.actions[j].type \in Flow!Types
                                           /\ s.actions[j].quotes \in Flow!Names \cup {"none"}
           /\ s.if \in Flow!Expressions
<1> DEFINE Action == [type : Flow!Types, quotes : Flow!Names \cup {"none"}]
           Shape == [name : STRING, if : Flow!Expressions, provider : STRING, actions : Seq(Action)]
<1>1. FlowSteps \in Seq(Shape)
  BY DEF Flow!WorkflowAssumption
<1>2. FlowSteps[i] \in Shape
  <2> HIDE DEF Shape
  <2> QED
    BY <1>1
<1>3. FlowSteps[i].name \in Flow!Names
  BY DEF Flow!Names
<1>4. FlowSteps[i].actions \in Seq(Action) /\ FlowSteps[i].if \in Flow!Expressions
  <2> HIDE DEF Action
  <2> QED
    BY <1>2
<1>5. /\ Len(FlowSteps[i].actions) \in Nat
      /\ \A j \in 1..Len(FlowSteps[i].actions) : FlowSteps[i].actions[j] \in Action
  <2> HIDE DEF Action
  <2> QED
    BY <1>4
<1> QED
  BY <1>3, <1>4, <1>5 DEF Lists

\* The plan can be drawn up one step further, and who followed it still does.
LEMMA PlanExtends ==
    ASSUME Flow!WorkflowAssumption, NEW a, NEW k, NEW before, NEW last, NEW source,
           Plan(a, k, before, last, source), k <= Len(FlowSteps)
    PROVE  \E before2, last2, source2 :
             /\ Plan(a, k + 1, before2, last2, source2)
             /\ \A m : \A r \in FlowRun : Follows(m, r, a, k, before, last, source)
                         => Follows(m, r, a, k + 1, before2, last2, source2)
<1> DEFINE l == Len(FlowSteps)
           before2 == [i \in 1..k + 1 |-> IF i = k + 1 THEN before[k] + Lists(a, k) ELSE before[i]]
           last2 == [i \in 1..k + 1 |-> IF i = k + 1
                       THEN [n \in Flow!Names |-> IF Tells(a, k, n) THEN k ELSE last[k][n]] ELSE last[i]]
           source2 == [p \in Nat |-> IF p > before[k] THEN <<k, p - before[k]>> ELSE source[p]]
<1>0. l \in Nat /\ k \in 1..l /\ k \in Nat /\ k # 0 /\ Lists(a, k) \in Nat /\ before[k] \in Nat
      /\ k \in 1..k /\ k + 1 \in 1..k + 1
  BY FlowStepShape DEF Plan, Flow!WorkflowAssumption
<1>1. /\ before \in [1..k -> Nat] /\ last \in [1..k -> [Flow!Names -> 0..l]]
      /\ before[1] = 0 /\ (\A n \in Flow!Names : last[1][n] = 0)
      /\ \A i \in 1..k : before[i] <= before[k] /\ before[i] \in Nat
  BY DEF Plan
<1>2. /\ \A i \in 1..k : before2[i] = before[i] /\ last2[i] = last[i] /\ i \in 1..k + 1 /\ i # k + 1
      /\ before2[k + 1] = before[k] + Lists(a, k)
      /\ \A n \in Flow!Names : last2[k + 1][n] = IF Tells(a, k, n) THEN k ELSE last[k][n]
      /\ \A p \in 1..before[k] : source2[p] = source[p]
      /\ \A j \in 1..Lists(a, k) : source2[before[k] + j] = <<k, j>>
  BY <1>0
<1>3. before2 \in [1..k + 1 -> Nat]
  BY <1>0, <1>1
<1>4. last2 \in [1..k + 1 -> [Flow!Names -> 0..l]]
  <2>1. \A n \in Flow!Names : (IF Tells(a, k, n) THEN k ELSE last[k][n]) \in 0..l
    BY <1>0, <1>1
  <2>2. \A i \in 1..k + 1 : i # k + 1 => i \in 1..k
    BY <1>0
  <2> QED
    BY <1>1, <2>1, <2>2
<1> HIDE DEF before2, last2, source2
<1>5. Plan(a, k + 1, before2, last2, source2)
  <2>1. \A i \in 1..k + 1 : before2[i] <= before2[k + 1]
    <3>1. \A i \in 1..k + 1 : i \in 1..k \/ i = k + 1
      BY <1>0
    <3>2. before2[k + 1] \in Nat /\ before[k] <= before2[k + 1]
      BY <1>0, <1>2
    <3>3. \A i \in 1..k : before2[i] <= before2[k + 1]
      <4> TAKE i \in 1..k
      <4>1. before2[i] = before[i] /\ before[i] <= before[k] /\ before[i] \in Nat
        BY <1>1, <1>2
      <4> QED
        BY <1>0, <3>2, <4>1
    <3> QED
      BY <3>1, <3>2, <3>3
  <2>2. ASSUME NEW i \in 1..(k + 1) - 1
        PROVE  /\ before2[i + 1] = before2[i] + Lists(a, i)
               /\ \A n \in Flow!Names : last2[i + 1][n] = IF Tells(a, i, n) THEN i ELSE last2[i][n]
               /\ \A j \in 1..Lists(a, i) : source2[before2[i] + j] = <<i, j>>
    <3>1. i \in 1..k
      BY <1>0
    <3>2. CASE i = k
      BY <1>2, <3>1, <3>2
    <3>3. CASE i # k
      <4>1. i \in 1..k - 1 /\ i + 1 \in 1..k /\ Lists(a, i) \in Nat
        BY <1>0, <3>1, <3>3, FlowStepShape
      <4>2. /\ before[i + 1] = before[i] + Lists(a, i)
            /\ \A n \in Flow!Names : last[i + 1][n] = IF Tells(a, i, n) THEN i ELSE last[i][n]
            /\ \A j \in 1..Lists(a, i) : source[before[i] + j] = <<i, j>>
        BY <4>1 DEF Plan
      <4>3. \A j \in 1..Lists(a, i) : before[i] + j \in 1..before[k]
        <5>1. PICK x, y, z : x = before[i] /\ y = Lists(a, i) /\ z = before[k]
          OBVIOUS
        <5>2. x \in Nat /\ y \in Nat /\ z \in Nat /\ x + y <= z
          BY ONLY <1>1, <3>1, <4>1, <4>2, <5>1
        <5>3. \A j \in 1..y : x + j \in 1..z
          BY ONLY <5>2
        <5> QED
          BY ONLY <5>1, <5>3
      <4> QED
        BY <1>2, <3>1, <4>1, <4>2, <4>3
    <3> QED
      BY <3>2, <3>3
  <2>3. 1 \in 1..k /\ k + 1 \in 1..l + 1
    BY <1>0
  <2> QED
    BY <1>1, <1>2, <1>3, <1>4, <2>1, <2>2, <2>3 DEF Plan
<1>6. ASSUME NEW m, NEW r \in FlowRun, Follows(m, r, a, k, before, last, source)
      PROVE  Follows(m, r, a, k + 1, before2, last2, source2)
  <2>1. r.at \in 1..k /\ r.at \in 1..k + 1 /\ before2[r.at] = before[r.at] /\ last2[r.at] = last[r.at]
    BY <1>0, <1>2, <1>6 DEF Follows
  <2>2. ASSUME NEW p \in 1..Len(r.intended)
        PROVE  source2[p][1] < r.at /\ AsPlanned(m, r.intended[p], source2[p], last2)
    <3>1. source[p][1] < r.at /\ AsPlanned(m, r.intended[p], source[p], last)
      BY <1>6 DEF Follows
    <3>2. Len(r.intended) = before[r.at] /\ before[r.at] \in Nat /\ before[r.at] <= before[k]
      BY <1>1, <1>6, <2>1 DEF Follows
    <3>3. p \in 1..before[k]
      BY <1>0, <3>2
    <3>4. source2[p] = source[p]
      BY <1>2, <3>3
    <3>5. source[p][1] \in 1..k
      <4>1. PICK at, i : at = r.at /\ i = source[p][1]
        OBVIOUS
      <4>2. /\ i \in Nat /\ i > 0 /\ i < at /\ at \in 1..k /\ k \in Nat
        BY <1>0, <2>1, <3>1, <4>1, PlannedStep
      <4>3. i \in 1..k
        BY ONLY <4>2
      <4> QED
        BY ONLY <4>1, <4>3
    <3>6. last2[source[p][1]] = last[source[p][1]]
      BY <1>2, <3>5
    <3>7. AsPlanned(m, r.intended[p], source[p], last2)
      BY <3>1, <3>6, PlannedAlike
    <3> QED
      BY <3>1, <3>4, <3>7
  <2> QED
    BY <1>6, <2>1, <2>2 DEF Follows
<1> QED
  BY <1>5, <1>6

\* A run that skips its step, and one that takes it, still follow the plan.
LEMMA SkipFollows ==
    ASSUME Flow!WorkflowAssumption, NEW a, NEW k, NEW before, NEW last, NEW source,
           Plan(a, k, before, last, source), NEW m, NEW r \in FlowRun, NEW r2 \in FlowRun,
           Follows(m, r, a, k, before, last, source), r.at < k, ~Does(a, r.at),
           r2.at = r.at + 1, r2.skipped = r.skipped \cup {r.at},
           r2.intended = r.intended, r2.output = r.output
    PROVE  Follows(m, r2, a, k, before, last, source)
<1>1. /\ r.at \in Nat /\ r.at \in 1..k - 1 /\ k \in Nat /\ r2.at \in 1..k
      /\ before[r.at] \in Nat /\ r.at \in 1..k
  BY DEF Follows, Plan
<1>2. before[r2.at] = before[r.at] /\ \A n \in Flow!Names : last[r2.at][n] = last[r.at][n]
  BY <1>1 DEF Plan, Lists, Tells
<1>3. r2.skipped = {i \in 1..r2.at - 1 : ~Does(a, i)}
  <2>1. \A i : i \in 1..r2.at - 1 <=> (i \in 1..r.at - 1 \/ i = r.at)
    BY <1>1
  <2> QED
    BY <2>1 DEF Follows
<1>4. \A p \in 1..Len(r2.intended) : source[p][1] < r2.at /\ AsPlanned(m, r2.intended[p], source[p], last)
  <2> TAKE p \in 1..Len(r2.intended)
  <2>1. source[p][1] < r.at /\ AsPlanned(m, r2.intended[p], source[p], last)
    BY DEF Follows
  <2>2. source[p][1] \in Nat
    BY <2>1, PlannedStep
  <2> QED
    BY <1>1, <2>1, <2>2
<1> QED
  BY <1>1, <1>2, <1>3, <1>4 DEF Follows

\* What taking its step does to a run.
Took(m, a, r, r2) ==
  LET s == FlowSteps[r.at] IN
  /\ r2.at = r.at + 1 /\ r2.skipped = r.skipped
  /\ \A n \in Flow!Names : IF Tells(a, r.at, n) THEN r2.output[n] \in Allowed(m, r.at)
                           ELSE r2.output[n] = r.output[n]
  /\ Len(r2.intended) = Len(r.intended) + Len(s.actions)
  /\ \A p \in 1..Len(r.intended) : r2.intended[p] = r.intended[p]
  /\ \A j \in 1..Len(s.actions) :
       LET item == r2.intended[Len(r.intended) + j]
           action == s.actions[j]
       IN  /\ item[1] = action.type
           /\ item[2] = IF action.quotes = "none" THEN "absent" ELSE r.output[action.quotes]

LEMMA StepFollows ==
    ASSUME Flow!WorkflowAssumption, NEW a, NEW k, NEW before, NEW last, NEW source,
           Plan(a, k, before, last, source), NEW m, NEW r \in FlowRun, NEW r2 \in FlowRun,
           Follows(m, r, a, k, before, last, source), r.at < k, Does(a, r.at), Took(m, a, r, r2)
    PROVE  Follows(m, r2, a, k, before, last, source)
<1> DEFINE at == r.at
           st == FlowSteps[at]
<1>0. r2.at = at + 1 /\ r2.skipped = r.skipped /\ Len(r2.intended) = Len(r.intended) + Len(st.actions)
  BY DEF Took
<1>1. /\ at \in Nat /\ at \in 1..k - 1 /\ k \in Nat /\ r2.at \in 1..k
      /\ before[at] \in Nat /\ at \in 1..k /\ at \in 1..Len(FlowSteps)
  <2>1. at \in 1..k /\ at < k /\ k \in 1..Len(FlowSteps) + 1 /\ before \in [1..k -> Nat]
    BY DEF Follows, Plan
  <2>2. Len(FlowSteps) \in Nat
    BY DEF Flow!WorkflowAssumption
  <2>3. PICK x, l : x = at /\ l = Len(FlowSteps)
    OBVIOUS
  <2>4. x \in 1..k /\ x < k /\ k \in 1..l + 1 /\ l \in Nat
    BY ONLY <2>1, <2>2, <2>3
  <2>5. k \in Nat
    BY ONLY <2>4
  <2>6. x \in Nat /\ x \in 1..k - 1 /\ x + 1 \in 1..k /\ x \in 1..l
    BY ONLY <2>4, <2>5
  <2>7. before[at] \in Nat
    BY ONLY <2>1
  <2> QED
    BY ONLY <1>0, <2>3, <2>4, <2>5, <2>6, <2>7
<1>2. /\ before[at + 1] = before[at] + Len(st.actions) /\ Len(st.actions) \in Nat
      /\ \A n \in Flow!Names : last[at + 1][n] = IF Tells(a, at, n) THEN at ELSE last[at][n]
      /\ \A j \in 1..Len(st.actions) : source[before[at] + j] = <<at, j>>
      /\ \A n \in Flow!Names : Tells(a, at, n) => n = st.name
  BY <1>1, FlowStepShape DEF Plan, Lists, Tells
<1>3. r2.skipped = {i \in 1..r2.at - 1 : ~Does(a, i)}
  <2>1. \A i : i \in 1..r2.at - 1 <=> (i \in 1..at - 1 \/ i = at)
    BY <1>0, <1>1
  <2> QED
    BY <1>0, <2>1 DEF Follows
<1>4. \A n \in Flow!Names : r2.output[n] \in Allowed(m, last[r2.at][n])
  <2> TAKE n \in Flow!Names
  <2> QED
    BY <1>0, <1>1, <1>2 DEF Follows, Took
<1>5. \A p \in 1..Len(r2.intended) : source[p][1] < r2.at /\ AsPlanned(m, r2.intended[p], source[p], last)
  <2> TAKE p \in 1..Len(r2.intended)
  <2>1. Len(r.intended) = before[at]
    BY DEF Follows
  <2>2. CASE p <= before[at]
    <3>1. p \in 1..Len(r.intended)
      BY <1>1, <2>1, <2>2
    <3>2. source[p][1] < at /\ AsPlanned(m, r.intended[p], source[p], last)
      BY <3>1 DEF Follows
    <3>3. r2.intended[p] = r.intended[p]
      BY <3>1 DEF Took
    <3>4. source[p][1] \in Nat
      BY <3>2, PlannedStep
    <3>5. AsPlanned(m, r2.intended[p], source[p], last)
      BY ONLY <3>2, <3>3
    <3>6. source[p][1] < r2.at
      <4>1. PICK i, x : i = source[p][1] /\ x = at
        OBVIOUS
      <4>2. i \in Nat /\ x \in Nat /\ i < x
        BY ONLY <1>1, <3>2, <3>4, <4>1
      <4>3. i < x + 1
        BY ONLY <4>2
      <4> QED
        BY ONLY <1>0, <4>1, <4>3
    <3> QED
      BY <3>5, <3>6
  <2>3. CASE p > before[at]
    <3>1. PICK j \in 1..Len(st.actions) : p = before[at] + j
      <4>1. Len(r2.intended) = before[at] + Len(st.actions) /\ p \in 1..Len(r2.intended)
        BY <1>0, <2>1
      <4>2. p - before[at] \in 1..Len(st.actions) /\ p = before[at] + (p - before[at])
        <5>1. PICK x, y : x = before[at] /\ y = Len(st.actions)
          OBVIOUS
        <5>2. x \in Nat /\ y \in Nat /\ p \in 1..x + y /\ p > x
          BY <1>1, <1>2, <2>3, <4>1, <5>1
        <5>3. p - x \in 1..y /\ p = x + (p - x)
          BY ONLY <5>2
        <5> QED
          BY ONLY <5>1, <5>3
      <4> QED
        BY <4>2
    <3> DEFINE action == st.actions[j]
    <3>2. source[p] = <<at, j>> /\ action.quotes \in Flow!Names \cup {"none"}
      BY <1>1, <1>2, <3>1, FlowStepShape
    <3>3. /\ r2.intended[p][1] = action.type
          /\ r2.intended[p][2] = IF action.quotes = "none" THEN "absent" ELSE r.output[action.quotes]
      BY <2>1, <3>1 DEF Took
    <3>4. action.quotes # "none" => r.output[action.quotes] \in Allowed(m, last[at][action.quotes])
      BY <3>2 DEF Follows
    <3>5. source[p][1] = at /\ source[p][2] = j
      BY <3>2
    <3>6. AsPlanned(m, r2.intended[p], source[p], last)
      BY <1>1, <3>3, <3>4, <3>5 DEF AsPlanned
    <3> QED
      BY <1>0, <1>1, <3>5, <3>6
  <2> QED
    BY <1>1, <1>2, <2>1, <2>2, <2>3
<1>6. Len(r2.intended) = before[r2.at]
  BY <1>0, <1>1, <1>2 DEF Follows
<1> QED
  BY <1>1, <1>3, <1>4, <1>5, <1>6 DEF Follows

\* Whichever run steps, there is one plan that both follow.
LEMMA OnePlanSteps ==
    ASSUME Flow!WorkflowAssumption, NEW a, NEW f \in [Flow!Modes -> FlowRun], OnePlan(f, a),
           NEW m \in Flow!Modes, NEW r2 \in FlowRun, f[m].at \in 1..Len(FlowSteps),
           \/ /\ ~Does(a, f[m].at) /\ r2.at = f[m].at + 1 /\ r2.skipped = f[m].skipped \cup {f[m].at}
              /\ r2.intended = f[m].intended /\ r2.output = f[m].output
           \/ Does(a, f[m].at) /\ Took(m, a, f[m], r2)
    PROVE  OnePlan([f EXCEPT ![m] = r2], a)
<1>0. Len(FlowSteps) \in Nat /\ f[m].at # 0 /\ f[m] \in FlowRun
  BY DEF Flow!WorkflowAssumption
<1>1. PICK k, before, last, source :
        /\ Plan(a, k, before, last, source)
        /\ \A mode \in Flow!Modes : f[mode].at # 0 => Follows(mode, f[mode], a, k, before, last, source)
  BY DEF OnePlan
<1>2. f[m].at \in 1..k /\ k \in 1..Len(FlowSteps) + 1
  BY <1>0, <1>1 DEF Follows, Plan
<1>3. \E k2, before2, last2, source2 :
        /\ Plan(a, k2, before2, last2, source2) /\ f[m].at < k2
        /\ \A mode \in Flow!Modes :
             f[mode].at # 0 => Follows(mode, f[mode], a, k2, before2, last2, source2)
  <2>1. CASE f[m].at < k
    BY <1>1, <2>1
  <2>2. CASE ~(f[m].at < k)
    <3>1. f[m].at = k /\ k <= Len(FlowSteps) /\ k < k + 1
      BY <1>0, <1>2, <2>2
    <3>2. PICK before2, last2, source2 :
            /\ Plan(a, k + 1, before2, last2, source2)
            /\ \A mode : \A r \in FlowRun : Follows(mode, r, a, k, before, last, source)
                            => Follows(mode, r, a, k + 1, before2, last2, source2)
      BY <1>1, <3>1, PlanExtends
    <3>3. \A mode \in Flow!Modes : f[mode] \in FlowRun
      OBVIOUS
    <3> QED
      BY <1>1, <3>1, <3>2, <3>3
  <2> QED
    BY <2>1, <2>2
<1>4. PICK k2, before2, last2, source2 :
        /\ Plan(a, k2, before2, last2, source2) /\ f[m].at < k2
        /\ \A mode \in Flow!Modes :
             f[mode].at # 0 => Follows(mode, f[mode], a, k2, before2, last2, source2)
  BY <1>3
<1>5. Follows(m, f[m], a, k2, before2, last2, source2)
  BY <1>0, <1>4
<1>6. Follows(m, r2, a, k2, before2, last2, source2)
  <2>1. CASE Does(a, f[m].at) /\ Took(m, a, f[m], r2)
    BY <1>0, <1>4, <1>5, <2>1, StepFollows
  <2>2. CASE ~(Does(a, f[m].at) /\ Took(m, a, f[m], r2))
    <3>1. /\ ~Does(a, f[m].at) /\ r2.at = f[m].at + 1 /\ r2.skipped = f[m].skipped \cup {f[m].at}
          /\ r2.intended = f[m].intended /\ r2.output = f[m].output
      BY <2>2
    <3> QED
      BY <1>0, <1>4, <1>5, <3>1, SkipFollows
  <2> QED
    BY <2>1, <2>2
<1>7. \A mode \in Flow!Modes :
        [f EXCEPT ![m] = r2][mode].at # 0 =>
          Follows(mode, [f EXCEPT ![m] = r2][mode], a, k2, before2, last2, source2)
  <2> TAKE mode \in Flow!Modes
  <2>1. [f EXCEPT ![m] = r2][mode] = IF mode = m THEN r2 ELSE f[mode]
    OBVIOUS
  <2> QED
    BY <1>4, <1>6, <2>1
<1> QED
  BY <1>4, <1>7 DEF OnePlan

\* A run that has just been triggered.
LEMMA OnePlanStarts ==
    ASSUME Flow!WorkflowAssumption, NEW a, NEW f \in [Flow!Modes -> FlowRun], OnePlan(f, a),
           NEW m \in Flow!Modes, NEW r2 \in FlowRun, r2.at = 1, Fresh(r2)
    PROVE  OnePlan([f EXCEPT ![m] = r2], a)
<1>1. PICK k, before, last, source :
        /\ Plan(a, k, before, last, source)
        /\ \A mode \in Flow!Modes : f[mode].at # 0 => Follows(mode, f[mode], a, k, before, last, source)
  BY DEF OnePlan
<1>2. Follows(m, r2, a, k, before, last, source)
  <2>1. 1 \in 1..k /\ before[1] = 0 /\ \A n \in Flow!Names : last[1][n] = 0
    BY <1>1 DEF Plan
  <2>2. Len(r2.intended) = 0 /\ r2.skipped = {} /\ \A n \in Flow!Names : r2.output[n] \in Allowed(m, 0)
    BY DEF Fresh, Allowed
  <2>3. {i \in 1..1 - 1 : ~Does(a, i)} = {} /\ 1..0 = {}
    OBVIOUS
  <2> QED
    BY <2>1, <2>2, <2>3 DEF Follows
<1>3. \A mode \in Flow!Modes :
        [f EXCEPT ![m] = r2][mode].at # 0 =>
          Follows(mode, [f EXCEPT ![m] = r2][mode], a, k, before, last, source)
  <2> TAKE mode \in Flow!Modes
  <2>1. [f EXCEPT ![m] = r2][mode] = IF mode = m THEN r2 ELSE f[mode]
    OBVIOUS
  <2> QED
    BY <1>1, <1>2, <2>1
<1> QED
  BY <1>1, <1>3 DEF OnePlan

LEMMA FlowInvInit == ASSUME Flow!WorkflowAssumption, Flow!Init PROVE FlowInv
<1>0. Len(FlowSteps) \in Nat /\ Flow!Ended = Len(FlowSteps) + 1
  BY DEF Flow!WorkflowAssumption, Flow!Ended
<1>1. flow \in [Flow!Modes -> FlowRun]
  BY <1>0 DEF Flow!Init, FlowRun, Flow!Modes, Flow!Outputs
<1>2. \A m \in Flow!Modes : flow[m].at = 0 /\ Fresh(flow[m])
  BY DEF Flow!Init, Fresh
<1>3. OnePlan(flow, alert)
  <2> DEFINE before == [i \in 1..1 |-> 0]
             last == [i \in 1..1 |-> [n \in Flow!Names |-> 0]]
  <2>1. Plan(alert, 1, before, last, <<>>)
    BY <1>0 DEF Plan
  <2> QED
    BY <1>2, <2>1 DEF OnePlan
<1>4. Len(flow["real"].intended) = 0
  BY <1>2 DEF Fresh, Flow!Modes
<1> QED
  BY <1>1, <1>2, <1>3, <1>4 DEF FlowInv, Flow!Init, Flow!Modes

\* One run's step, told of its record alone.
LEMMA FlowRunSteps ==
    ASSUME Flow!WorkflowAssumption, FlowInv, NEW m \in Flow!Modes, NEW r2 \in FlowRun,
           flow[m].at \in 1..Len(FlowSteps), r2.at = flow[m].at + 1, flow' = [flow EXCEPT ![m] = r2], alert' = alert,
           calls' \in [Flow!Modes -> Nat], executed' \in [Flow!Modes -> Nat],
           calls'["dry"] = 0, executed'["dry"] = 0,
           executed'["real"] = Len(flow'["real"].intended),
           \/ /\ ~Does(alert, flow[m].at) /\ r2.at = flow[m].at + 1
              /\ r2.skipped = flow[m].skipped \cup {flow[m].at}
              /\ r2.intended = flow[m].intended /\ r2.output = flow[m].output
           \/ Does(alert, flow[m].at) /\ Took(m, alert, flow[m], r2)
    PROVE  FlowInv'
<1>0. Len(FlowSteps) \in Nat /\ Flow!Ended = Len(FlowSteps) + 1 /\ flow[m].at # 0
      /\ flow[m].at # Flow!Ended /\ flow \in [Flow!Modes -> FlowRun]
  BY DEF Flow!WorkflowAssumption, Flow!Ended, FlowInv
<1>1. Starts(alert) /\ OnePlan(flow, alert)
  BY <1>0 DEF FlowInv
<1>2. r2.at # 0
  BY <1>0
<1>3. OnePlan(flow', alert)
  BY <1>0, <1>1, OnePlanSteps
<1>4. \A mode \in Flow!Modes : flow'[mode].at = 0 => Fresh(flow'[mode])
  <2> TAKE mode \in Flow!Modes
  <2>1. flow'[mode] = IF mode = m THEN r2 ELSE flow[mode]
    BY <1>0
  <2> QED
    BY <1>2, <2>1 DEF FlowInv
<1>5. flow' \in [Flow!Modes -> FlowRun]
  BY <1>0
<1> QED
  BY <1>1, <1>3, <1>4, <1>5 DEF FlowInv

LEMMA FlowInvTrigger ==
    ASSUME Flow!WorkflowAssumption, FlowInv, NEW m \in Flow!Modes, Flow!Trigger(m)
    PROVE  FlowInv'
<1> DEFINE at2 == IF \E t \in FlowTriggers : Flow!TriggerHolds(t) THEN 1 ELSE Flow!Ended
           r2 == [flow[m] EXCEPT !.at = at2]
<1>0. /\ Len(FlowSteps) \in Nat /\ Flow!Ended = Len(FlowSteps) + 1
      /\ flow \in [Flow!Modes -> FlowRun] /\ flow[m] \in FlowRun /\ flow[m].at = 0
      /\ flow' = [flow EXCEPT ![m] = r2] /\ alert' = alert /\ calls' = calls /\ executed' = executed
  BY DEF Flow!WorkflowAssumption, Flow!Ended, FlowInv, Flow!Trigger
<1>1. Starts(alert) <=> \E t \in FlowTriggers : Flow!TriggerHolds(t)
  BY DEF Starts, Flow!TriggerHolds
<1>2. at2 = (IF Starts(alert) THEN 1 ELSE Flow!Ended) /\ at2 \in 0..Flow!Ended /\ at2 # 0
  BY <1>0, <1>1
<1> HIDE DEF at2
<1>3. /\ r2 \in FlowRun /\ r2.at = at2 /\ r2.skipped = flow[m].skipped
      /\ r2.intended = flow[m].intended /\ r2.output = flow[m].output
  BY <1>0, <1>2 DEF FlowRun
<1> HIDE DEF r2
<1>4. Fresh(r2)
  BY <1>0, <1>3 DEF FlowInv, Fresh
<1>5. \A mode \in Flow!Modes : flow'[mode] = IF mode = m THEN r2 ELSE flow[mode]
  BY <1>0
<1>6. flow' \in [Flow!Modes -> FlowRun]
  BY <1>0, <1>3
<1>7. \A mode \in Flow!Modes : flow'[mode].at = 0 => Fresh(flow'[mode])
  BY <1>4, <1>5 DEF FlowInv
<1>8. Starts(alert) => OnePlan(flow', alert)
  BY <1>0, <1>2, <1>3, <1>4, OnePlanStarts DEF FlowInv
<1>9. ~Starts(alert) => \A mode \in Flow!Modes : flow'[mode].at \in {0, Flow!Ended} /\ Fresh(flow'[mode])
  BY <1>2, <1>3, <1>4, <1>5 DEF FlowInv
<1>10. Len(flow'["real"].intended) = Len(flow["real"].intended)
  BY <1>3, <1>5 DEF Flow!Modes
<1> QED
  BY <1>0, <1>6, <1>7, <1>8, <1>9, <1>10 DEF FlowInv

LEMMA FlowInvSkip ==
    ASSUME Flow!WorkflowAssumption, FlowInv, NEW m \in Flow!Modes, Flow!Skip(m)
    PROVE  FlowInv'
<1> DEFINE r == flow[m]
           r2 == [at |-> r.at + 1, skipped |-> r.skipped \cup {r.at},
                  intended |-> r.intended, output |-> r.output]
<1>0. /\ Len(FlowSteps) \in Nat /\ Flow!Ended = Len(FlowSteps) + 1
      /\ flow \in [Flow!Modes -> FlowRun] /\ r \in FlowRun /\ r.at \in 1..Len(FlowSteps)
      /\ alert' = alert /\ calls' = calls /\ executed' = executed
  BY DEF Flow!WorkflowAssumption, Flow!Ended, FlowInv, Flow!Skip, Flow!Running
<1>1. flow' = [flow EXCEPT ![m] = r2]
  BY <1>0 DEF Flow!Skip, FlowRun
<1>2. ~Does(alert, r.at)
  BY DEF Flow!Skip, Flow!Holds, Flow!StepHolds, Flow!Step, Does
<1>3. r2 \in FlowRun
  BY <1>0 DEF FlowRun
<1>4. flow'["real"].intended = flow["real"].intended
  BY <1>0, <1>1 DEF Flow!Modes
<1> QED
  BY <1>0, <1>1, <1>2, <1>3, <1>4, FlowRunSteps DEF FlowInv

LEMMA Appending ==
    ASSUME NEW S, NEW x \in Seq(S), NEW y \in Seq(S)
    PROVE  /\ Len(x \o y) = Len(x) + Len(y)
           /\ \A p \in 1..Len(x) : (x \o y)[p] = x[p]
           /\ \A j \in 1..Len(y) : (x \o y)[Len(x) + j] = y[j]
OBVIOUS

LEMMA FlowInvRunStep ==
    ASSUME Flow!WorkflowAssumption, FlowInv, NEW m \in Flow!Modes, Flow!RunStep(m)
    PROVE  FlowInv'
<1> DEFINE r == flow[m]
           s == FlowSteps[r.at]
           items == [i \in 1..Len(s.actions) |-> <<s.actions[i].type, Flow!Quoted(m, s.actions[i])>>]
<1>0. /\ Len(FlowSteps) \in Nat /\ Flow!Ended = Len(FlowSteps) + 1 /\ Flow!Step(m) = s
      /\ flow \in [Flow!Modes -> FlowRun] /\ r \in FlowRun /\ r.at \in 1..Len(FlowSteps)
      /\ alert' = alert /\ m \in {"real", "dry"}
  <2>1. Len(FlowSteps) \in Nat
    BY DEF Flow!WorkflowAssumption
  <2>2. Flow!Running(m) /\ alert' = alert
    BY DEF Flow!RunStep
  <2>3. flow \in [Flow!Modes -> FlowRun]
    BY DEF FlowInv
  <2> QED
    BY <2>1, <2>2, <2>3 DEF Flow!Ended, Flow!Running, Flow!Step, Flow!Modes
<1>1. Does(alert, r.at)
  BY DEF Flow!RunStep, Flow!Holds, Flow!StepHolds, Flow!Step, Does
<1>2. /\ s.name \in Flow!Names /\ Len(s.actions) \in Nat
      /\ \A j \in 1..Len(s.actions) : /\ s.actions[j].type \in Flow!Types
                                      /\ s.actions[j].quotes \in Flow!Names \cup {"none"}
  BY <1>0, FlowStepShape
<1> DEFINE Next2(answer) ==
             [at |-> r.at + 1, skipped |-> r.skipped, intended |-> r.intended \o items,
              output |-> IF answer = "absent" THEN r.output ELSE [r.output EXCEPT ![s.name] = answer]]
<1>3. PICK answer \in Flow!Answers(m) :
        /\ flow' = [flow EXCEPT ![m] = Next2(answer)]
        /\ calls' = [calls EXCEPT ![m] = @ +
             (IF s.provider \in Providers /\ answer # "dry" THEN 1 ELSE 0)]
  BY <1>0 DEF Flow!RunStep
<1>4. /\ IF s.provider = "none" THEN answer = "absent" ELSE answer \in Allowed(m, r.at)
      /\ answer \in Flow!Outputs /\ (s.provider # "none" => answer # "absent")
      /\ m = "dry" /\ s.provider \in Providers => answer = "dry"
  BY <1>0 DEF Flow!Answers, Allowed, Flow!Outputs, Flow!WorkflowAssumption
<1> DEFINE r2 == Next2(answer)
<1>5. /\ flow' = [flow EXCEPT ![m] = r2] /\ r2.at = r.at + 1 /\ r2.skipped = r.skipped
      /\ r2.intended = r.intended \o items
      /\ r2.output = IF answer = "absent" THEN r.output ELSE [r.output EXCEPT ![s.name] = answer]
  BY <1>3
<1>6. items \in Seq(Flow!Types \X Flow!Outputs) /\ Len(items) = Len(s.actions)
  <2>1. \A i \in 1..Len(s.actions) : Flow!Quoted(m, s.actions[i]) \in Flow!Outputs
    BY <1>0, <1>2 DEF Flow!Quoted, FlowRun, Flow!Outputs
  <2> QED
    BY <1>2, <2>1
<1>7. \A j \in 1..Len(s.actions) :
        /\ items[j][1] = s.actions[j].type
        /\ items[j][2] = IF s.actions[j].quotes = "none" THEN "absent" ELSE r.output[s.actions[j].quotes]
  BY DEF Flow!Quoted
<1> HIDE DEF items
<1>8. r2 \in FlowRun
  BY <1>0, <1>2, <1>4, <1>6 DEF FlowRun
<1> HIDE DEF r2
<1>9. Took(m, alert, r, r2)
  <2>1. r.intended \in Seq(Flow!Types \X Flow!Outputs) /\ r.output \in [Flow!Names -> Flow!Outputs]
    BY <1>0 DEF FlowRun
  <2>2. /\ Len(r2.intended) = Len(r.intended) + Len(s.actions)
        /\ \A p \in 1..Len(r.intended) : r2.intended[p] = r.intended[p]
        /\ \A j \in 1..Len(s.actions) : r2.intended[Len(r.intended) + j] = items[j]
    <3> DEFINE x == r.intended
               Item == Flow!Types \X Flow!Outputs
    <3>1. x \in Seq(Item) /\ items \in Seq(Item)
      BY <1>6, <2>1
    <3>2. Len(items) = Len(s.actions) /\ r2.intended = x \o items
      BY <1>5, <1>6
    <3> HIDE DEF x, Item
    <3>3. /\ Len(x \o items) = Len(x) + Len(items)
          /\ \A p \in 1..Len(x) : (x \o items)[p] = x[p]
          /\ \A j \in 1..Len(items) : (x \o items)[Len(x) + j] = items[j]
      BY <3>1, Appending
    <3>4. /\ Len(r2.intended) = Len(x) + Len(s.actions)
          /\ \A p \in 1..Len(x) : r2.intended[p] = x[p]
          /\ \A j \in 1..Len(s.actions) : r2.intended[Len(x) + j] = items[j]
      BY <3>2, <3>3
    <3> QED
      BY <3>4 DEF x
  <2>3. \A n \in Flow!Names : IF Tells(alert, r.at, n) THEN r2.output[n] \in Allowed(m, r.at)
                              ELSE r2.output[n] = r.output[n]
    BY <1>1, <1>2, <1>4, <1>5, <2>1 DEF Tells
  <2> QED
    BY <1>5, <1>7, <2>2, <2>3 DEF Took
<1>10. calls' \in [Flow!Modes -> Nat] /\ calls'["dry"] = 0
  BY <1>0, <1>3, <1>4 DEF FlowInv, Flow!Modes
<1>11. executed' = [executed EXCEPT ![m] = IF m = "dry" THEN @ ELSE @ + Len(s.actions)]
  BY <1>0 DEF Flow!RunStep
<1>12. executed' \in [Flow!Modes -> Nat] /\ executed'["dry"] = 0
  BY <1>0, <1>2, <1>11 DEF FlowInv, Flow!Modes
<1>13. executed'["real"] = Len(flow'["real"].intended)
  <2>1. Len(r2.intended) = Len(r.intended) + Len(s.actions)
    BY <1>9 DEF Took
  <2> QED
    BY <1>0, <1>5, <1>11, <2>1 DEF FlowInv, Flow!Modes
<1> QED
  BY <1>0, <1>1, <1>5, <1>8, <1>9, <1>10, <1>12, <1>13, FlowRunSteps

LEMMA FlowInvNext == ASSUME Flow!WorkflowAssumption, FlowInv, [Flow!Next]_Flow!vars PROVE FlowInv'
<1>1. CASE UNCHANGED Flow!vars
  BY <1>1 DEF FlowInv, Flow!vars
<1>2. CASE Flow!Next
  BY <1>2, FlowInvTrigger, FlowInvSkip, FlowInvRunStep DEF Flow!Next
<1> QED
  BY <1>1, <1>2

\* Where both runs have ended, the plan tells the same of both.
LEMMA FlowInvForetells == ASSUME Flow!WorkflowAssumption, FlowInv PROVE DryRunForetells
<1> DEFINE real == flow["real"]
           dry == flow["dry"]
<1>0. "real" \in Flow!Modes /\ "dry" \in Flow!Modes /\ Flow!Ended # 0
  BY DEF Flow!Modes, Flow!Ended, Flow!WorkflowAssumption
<1>1. ASSUME \A m \in Flow!Modes : flow[m].at = Flow!Ended
      PROVE  /\ real.skipped = dry.skipped /\ Len(real.intended) = Len(dry.intended)
             /\ \A i \in 1..Len(real.intended) :
                  /\ real.intended[i][1] = dry.intended[i][1]
                  /\ real.intended[i][2] # dry.intended[i][2] =>
                       dry.intended[i][2] = "dry" /\ real.intended[i][2] \in {"data", "error"}
  <2>1. CASE ~Starts(alert)
    <3>1. real.intended = <<>> /\ dry.intended = <<>> /\ real.skipped = {} /\ dry.skipped = {}
      BY <1>0, <2>1 DEF FlowInv, Fresh
    <3>2. Len(real.intended) = 0
      BY <3>1
    <3> QED
      BY <3>1, <3>2
  <2>2. CASE Starts(alert)
    <3>1. PICK k, before, last, source :
            /\ Plan(alert, k, before, last, source)
            /\ \A m \in Flow!Modes : flow[m].at # 0 => Follows(m, flow[m], alert, k, before, last, source)
      BY <2>2 DEF FlowInv, OnePlan
    <3>2. /\ Follows("real", real, alert, k, before, last, source)
          /\ Follows("dry", dry, alert, k, before, last, source) /\ real.at = dry.at
      BY <1>0, <1>1, <3>1
    <3>3. real.skipped = dry.skipped /\ Len(real.intended) = Len(dry.intended)
      BY <3>2 DEF Follows
    <3>4. ASSUME NEW i \in 1..Len(real.intended)
          PROVE  /\ real.intended[i][1] = dry.intended[i][1]
                 /\ real.intended[i][2] # dry.intended[i][2] =>
                      dry.intended[i][2] = "dry" /\ real.intended[i][2] \in {"data", "error"}
      <4>1. /\ AsPlanned("real", real.intended[i], source[i], last)
            /\ AsPlanned("dry", dry.intended[i], source[i], last)
        BY <3>2, <3>3 DEF Follows
      <4> QED
        BY <4>1 DEF AsPlanned, Allowed
    <3> QED
      BY <3>3, <3>4
  <2> QED
    BY <2>1, <2>2
<1> QED
  BY <1>1 DEF DryRunForetells, Flow!DryRunForetells, FlowInv

\* A dry run asks no provider and executes nothing, a real run executes exactly what it
\* lists, and both skip the same steps and list the same actions, texts apart that quote
\* a provider's answer (WorkflowEngine.run, _run_step).
THEOREM DryRunsForetell == Flow!Spec => []DryRunForetells
<1>1. Flow!Init => FlowInv
  BY AutomationAssumption, FlowInvInit
<1>2. FlowInv /\ [Flow!Next]_Flow!vars => FlowInv'
  BY AutomationAssumption, FlowInvNext
<1>3. FlowInv => DryRunForetells
  BY AutomationAssumption, FlowInvForetells
<1> QED
  BY <1>1, <1>2, <1>3, PTL DEF Flow!Spec

-----------------------------------------------------------------------------
(***************************************************************************)
(* The playbooks.  Every playbook of every pass has a cell: what it        *)
(* committed and what it sent.  The cells ahead of the pass are empty, the *)
(* one of the open run holds no case and sent no more than its actions so  *)
(* far, and what a cell that is past holds has its row, unless a fault     *)
(* ended a pass or the playbook has been deleted.  The rows follow each    *)
(* other in the order of passes and priorities, which is why there is one  *)
(* for a cell.                                                             *)
(***************************************************************************)

\* The rows that are kept are those at the places, in their order.
InOrder(kept, list, places) ==
  \E m \in Nat : \E place \in [1..m -> places] :
    /\ kept = [k \in 1..m |-> list[place[k]]]
    /\ \A i \in places : \E k \in 1..m : place[k] = i
    /\ \A k, l \in 1..m : place[k] <= place[l] => k <= l

LEMMA KeptPlaces ==
    ASSUME NEW list, NEW n \in Nat, NEW places \in SUBSET (1..n)
    PROVE  InOrder(Soar!Kept(list, places), list, places)
<1> DEFINE upto(i) == {j \in places : j <= i}
           m == Cardinality(places)
           rank == [i \in places |-> Cardinality(upto(i))]
           place == [k \in 1..m |-> CHOOSE i \in places : Cardinality(upto(i)) = k]
<1>1. IsFiniteSet(places) /\ m \in Nat
  <2>1. IsFiniteSet(1..n)
    BY FS_Interval
  <2>2. IsFiniteSet(places)
    BY <2>1, FS_Subset
  <2> QED
    BY <2>2, FS_CardinalityType
<1>2. ASSUME NEW i \in places, NEW j \in places
      PROVE  /\ IsFiniteSet(upto(i)) /\ Cardinality(upto(i)) \in Nat /\ Cardinality(upto(i)) <= m
             /\ i <= j => Cardinality(upto(i)) <= Cardinality(upto(j))
             /\ Cardinality(upto(i)) = Cardinality(upto(j)) /\ i <= j => i = j
  <2>1. \A k \in places : IsFiniteSet(upto(k)) /\ Cardinality(upto(k)) <= m
    BY <1>1, FS_Subset
  <2>2. \A k \in places : Cardinality(upto(k)) \in Nat
    BY <2>1, FS_CardinalityType
  <2>3. ASSUME i <= j
        PROVE  /\ Cardinality(upto(i)) <= Cardinality(upto(j))
               /\ Cardinality(upto(i)) = Cardinality(upto(j)) => upto(i) = upto(j)
    <3>1. upto(i) \in SUBSET upto(j)
      <4>1. \A k \in places : k \in Int
        OBVIOUS
      <4>2. \A k \in places : k <= i => k <= j
        BY <2>3, <4>1
      <4> QED
        BY <4>2
    <3> HIDE DEF upto
    <3> QED
      BY <2>1, <3>1, FS_Subset
  <2>4. upto(i) = upto(j) /\ i <= j => i = j
    OBVIOUS
  <2> HIDE DEF upto
  <2> QED
    BY <2>1, <2>2, <2>3, <2>4
<1>3. \A i \in places : upto(i) # {}
  OBVIOUS
<1> HIDE DEF upto, m
<1>4. \A i, j \in places : Cardinality(upto(i)) = Cardinality(upto(j)) => i = j
  <2>1. \A i, j \in places : i <= j \/ j <= i
    OBVIOUS
  <2> QED
    BY <1>2, <2>1
<1>5. ASSUME NEW i \in places PROVE Cardinality(upto(i)) \in 1..m
  <2>1. IsFiniteSet(upto(i)) /\ upto(i) # {}
    BY <1>2, <1>3
  <2>2. Cardinality(upto(i)) # 0
    BY <2>1, FS_EmptySet
  <2> QED
    BY <1>1, <1>2, <2>2
<1>6. rank \in Injection(places, 1..m)
  BY <1>4, <1>5 DEF Injection, IsInjective
<1>7. IsFiniteSet(1..m) /\ Cardinality(1..m) = m
  BY <1>1, FS_Interval
<1>8. Cardinality(places) = Cardinality(1..m)
  BY <1>7 DEF m
<1>9. rank \in Surjection(places, 1..m)
  BY <1>6, <1>7, <1>8, FS_Injection
<1>10. \A k \in 1..m : place[k] \in places /\ Cardinality(upto(place[k])) = k
  <2>1. \A k \in 1..m : \E i \in places : Cardinality(upto(i)) = k
    BY <1>9 DEF Surjection
  <2> QED
    BY <2>1
<1>11. Soar!Kept(list, places) = [k \in 1..m |-> list[place[k]]]
  <2>1. Soar!Kept(list, places) =
          [k \in 1..Cardinality(places) |->
             list[CHOOSE i \in places : Cardinality({j \in places : j <= i}) = k]]
    BY Zenon DEF Soar!Kept, Soar!Cardinality, Cardinality, Soar!IsFiniteSet, IsFiniteSet
  <2>2. \A k \in 1..m : place[k] = CHOOSE i \in places : Cardinality({j \in places : j <= i}) = k
    BY Zenon DEF upto
  <2> HIDE DEF place
  <2> QED
    BY <2>1, <2>2 DEF m
<1> HIDE DEF place
<1>12. \A i \in places : \E k \in 1..m : place[k] = i
  BY <1>4, <1>5, <1>10
<1>13. ASSUME NEW k \in 1..m, NEW l \in 1..m, place[k] <= place[l] PROVE k <= l
  <2>1. PICK i \in places : i = place[k] /\ Cardinality(upto(i)) = k
    BY <1>10
  <2>2. PICK j \in places : j = place[l] /\ Cardinality(upto(j)) = l
    BY <1>10
  <2>3. i <= j
    BY <1>13, <2>1, <2>2
  <2>4. Cardinality(upto(i)) <= Cardinality(upto(j))
    BY <1>2, <2>3
  <2> QED
    BY <2>1, <2>2, <2>4
<1>14. place \in [1..m -> places]
  BY <1>10 DEF place
<1> QED
  BY <1>1, <1>11, <1>12, <1>13, <1>14 DEF InOrder

Sends == {"webhook", "notify", "contain"}
Cells == Soar!Books \X (1..MaxPasses)
SoarTypes ==
  /\ there \subseteq Soar!Books /\ active \subseteq there
  /\ gone \in [Soar!Books -> 0..Soar!Stays]
  /\ pass \in 0..MaxPasses /\ book \in Nat /\ step \in Nat
  /\ broken \in BOOLEAN /\ status \in {"running", "failed"} /\ pending \subseteq Targets
  /\ runs \in Seq(Soar!Records)
  /\ requests \in [Cells -> SUBSET Targets] /\ out \in [Cells -> Nat]
  /\ soarFaults \in Nat

\* The open run: where it stands, and that it did no more than its actions so far.
Done(n, end) == IF end = "failed" THEN n ELSE n - 1
Spared(b, n) == \A k \in 1..n : Soar!Actions(b)[k].type # "create_case"
OpenTold(b, n, end, asks, sent, whole) ==
  /\ n <= Len(Soar!Actions(b)) + 1
  /\ end = "failed" => n <= Len(Soar!Actions(b)) /\ Soar!Actions(b)[n].stop
  /\ asks \subseteq Soar!Contains(b, Done(n, end))
  /\ sent <= Soar!Hits(b, Done(n, end), Sends)
  /\ whole => Spared(b, Done(n, end))
Excused(b) == soarFaults > 0 \/ Soar!Creates(b)
OpenRun ==
  /\ book # 0 => pass >= 1
  /\ step = 0 => pending = {} /\ status = "running" /\ broken = FALSE
  /\ step > 0 => /\ book # 0 /\ book \in there
                 /\ OpenTold(book, step, status, pending, out[<<book, pass>>], broken = FALSE)
  /\ broken = FALSE \/ Excused(book)
  /\ \A b \in there : gone[b] = Soar!Stays

\* The rows: one before the other, all before the playbook being looked at, and each true.
Precedes(q, r) == q.pass < r.pass \/ (q.pass = r.pass /\ q.book < r.book)
Behind(r, b, p) == r.pass < p \/ (r.pass = p /\ (b = 0 \/ r.book < b))
Truthful(r) ==
  /\ IF r.status = "completed" THEN r.done = Len(Soar!Actions(r.book))
                               ELSE r.done > 0 /\ Soar!Actions(r.book)[r.done].stop
  /\ Spared(r.book, r.done)
RowsIn(list, b, p) ==
  /\ \A i \in 1..Len(list) : Behind(list[i], b, p) /\ Truthful(list[i])
  /\ \A i, j \in 1..Len(list) : i < j => Precedes(list[i], list[j])

\* A cell: the requests and what was sent of a playbook in a pass.
Ran(list, b, p, n, types) ==
  \E i \in 1..Len(list) :
    list[i].book = b /\ list[i].pass = p /\ n <= Soar!Hits(b, list[i].done, types)
Asked(list, b, p, asks) ==
  \E i \in 1..Len(list) :
    list[i].book = b /\ list[i].pass = p /\ asks \subseteq Soar!Contains(b, list[i].done)
CellTold(list, b, p, asks, sent, deleted, excused, where) ==
  /\ where # "past" => asks = {}
  /\ where = "ahead" => sent = 0
  /\ p > deleted => asks = {} /\ sent = 0
  /\ deleted = Soar!Stays /\ asks # {} => Asked(list, b, p, asks)
  /\ deleted = Soar!Stays /\ sent > 0 /\ ~excused => where = "current" \/ Ran(list, b, p, sent, Sends)
CellIs(b, p) ==
  IF p > pass \/ (p = pass /\ book # 0 /\ (b > book \/ (b = book /\ step = 0))) THEN "ahead"
  ELSE IF p = pass /\ b = book /\ step > 0 THEN "current" ELSE "past"
CellsTold ==
  \A b \in Soar!Books : \A p \in 1..MaxPasses :
    CellTold(runs, b, p, requests[<<b, p>>], out[<<b, p>>], gone[b], Excused(b), CellIs(b, p))

SoarInv == SoarTypes /\ OpenRun /\ RowsIn(runs, book, pass) /\ CellsTold

LEMMA SoarConstants ==
    /\ MaxPasses \in Nat /\ Soar!Stays = MaxPasses + 1 /\ Len(SoarBooks) \in Nat
    /\ Soar!Books = 1..Len(SoarBooks)
    /\ \A b \in Soar!Books : Len(Soar!Actions(b)) \in Nat
<1>1. MaxPasses \in Nat /\ Soar!Stays = MaxPasses + 1
  BY AutomationAssumption DEF Soar!PlaybookAssumption, Soar!Stays
<1>2. PICK Books, ActionLists : /\ ActionLists = Seq(Soar!Action)
                          /\ Books = [on : SUBSET Soar!Severities, actions : ActionLists]
  OBVIOUS
<1>3. SoarBooks \in Seq(Books)
  BY <1>2, AutomationAssumption DEF Soar!PlaybookAssumption
<1>4. Len(SoarBooks) \in Nat /\ \A b \in 1..Len(SoarBooks) : SoarBooks[b] \in Books
  BY <1>3
<1>5. \A b \in 1..Len(SoarBooks) : SoarBooks[b].actions \in Seq(Soar!Action)
  BY <1>2, <1>4
<1>6. \A q \in Seq(Soar!Action) : Len(q) \in Nat
  OBVIOUS
<1> QED
  BY <1>1, <1>4, <1>5, <1>6 DEF Soar!Books, Soar!Actions

LEMMA ArgsTyped ==
    ASSUME NEW b \in Soar!Books, NEW k \in 1..Len(Soar!Actions(b)), Soar!Actions(b)[k].type = "contain"
    PROVE  Soar!Actions(b)[k].arg \in Targets
<1>1. PICK Books, ActionLists : /\ ActionLists = Seq(Soar!Action)
                          /\ Books = [on : SUBSET Soar!Severities, actions : ActionLists]
  OBVIOUS
<1>2. SoarBooks \in Seq(Books) /\ b \in 1..Len(SoarBooks)
  BY <1>1, AutomationAssumption DEF Soar!PlaybookAssumption, Soar!Books
<1>3. SoarBooks[b] \in Books
  BY <1>2
<1>4. PICK list : list = Soar!Actions(b)
  OBVIOUS
<1>5. list \in Seq(Soar!Action)
  BY <1>1, <1>3, <1>4 DEF Soar!Actions
<1>6. list[k] \in Soar!Action
  BY <1>4, <1>5
<1> QED
  BY <1>4, <1>6 DEF Soar!Action

\* The component counts as this module does.
LEMMA SoarCardinality == ASSUME NEW S PROVE Soar!Cardinality(S) = Cardinality(S)
BY Zenon DEF Soar!Cardinality, Cardinality, Soar!IsFiniteSet, IsFiniteSet

\* The more actions, the more of them are of a kind.
LEMMA HitsGrow ==
    ASSUME NEW b, NEW types
    PROVE  /\ \A n \in Nat : Soar!Hits(b, n, types) \in Nat
           /\ \A n, m \in Nat : n <= m => Soar!Hits(b, n, types) <= Soar!Hits(b, m, types)
           /\ \A n \in Nat : Soar!Actions(b)[n + 1].type \in types =>
                Soar!Hits(b, n + 1, types) = Soar!Hits(b, n, types) + 1
<1> DEFINE hits(n) == {i \in 1..n : Soar!Actions(b)[i].type \in types}
<1>1. \A n : Soar!Hits(b, n, types) = Cardinality(hits(n))
  BY SoarCardinality DEF Soar!Hits
<1>2. ASSUME NEW n \in Nat PROVE IsFiniteSet(hits(n)) /\ Cardinality(hits(n)) \in Nat
  <2>1. IsFiniteSet(1..n)
    BY FS_Interval
  <2>2. IsFiniteSet(hits(n))
    BY <2>1, FS_Subset
  <2> HIDE DEF hits
  <2> QED
    BY <2>2, FS_CardinalityType
<1>3. ASSUME NEW n \in Nat, NEW m \in Nat, n <= m
      PROVE  Cardinality(hits(n)) <= Cardinality(hits(m))
  <2>1. hits(n) \in SUBSET hits(m)
    BY <1>3
  <2> HIDE DEF hits
  <2> QED
    BY <1>2, <2>1, FS_Subset
<1>4. ASSUME NEW n \in Nat, Soar!Actions(b)[n + 1].type \in types
      PROVE  Cardinality(hits(n + 1)) = Cardinality(hits(n)) + 1
  <2>1. n + 1 \notin hits(n)
    OBVIOUS
  <2>2. hits(n + 1) = hits(n) \cup {n + 1}
    <3>1. 1..(n + 1) = (1..n) \cup {n + 1}
      OBVIOUS
    <3> QED
      BY <1>4, <3>1
  <2> HIDE DEF hits
  <2> QED
    BY <1>2, <2>1, <2>2, FS_AddElement
<1> HIDE DEF hits
<1> QED
  BY <1>1, <1>2, <1>3, <1>4

LEMMA ContainsGrow ==
    ASSUME NEW b
    PROVE  /\ \A n, m \in Nat : n <= m => Soar!Contains(b, n) \subseteq Soar!Contains(b, m)
           /\ \A n \in Nat : n > 0 /\ Soar!Actions(b)[n].type = "contain" =>
                Soar!Actions(b)[n].arg \in Soar!Contains(b, n)
<1>1. ASSUME NEW n \in Nat, NEW m \in Nat, n <= m
      PROVE  Soar!Contains(b, n) \subseteq Soar!Contains(b, m)
  <2>1. \A i \in 1..n : i \in 1..m
    BY <1>1
  <2> QED
    BY <2>1 DEF Soar!Contains
<1>2. ASSUME NEW n \in Nat, n > 0, Soar!Actions(b)[n].type = "contain"
      PROVE  Soar!Actions(b)[n].arg \in Soar!Contains(b, n)
  <2>1. n \in 1..n
    BY <1>2
  <2> QED
    BY <1>2, <2>1 DEF Soar!Contains
<1> QED
  BY <1>1, <1>2

\* A cell moves into the past or is begun, and an excuse tells no more of it.
LEMMA CellMoves ==
    ASSUME NEW list, NEW b, NEW p, NEW asks, NEW sent, NEW deleted, NEW excused, NEW where,
           CellTold(list, b, p, asks, sent, deleted, excused, where),
           NEW excusedNow, excused => excusedNow,
           NEW now, now = where \/ where = "ahead" \/ (excusedNow /\ now = "past")
    PROVE  CellTold(list, b, p, asks, sent, deleted, excusedNow, now)
BY DEF CellTold

\* The rows of the other playbooks.
Others(list, c) == Soar!Kept(list, {i \in DOMAIN list : list[i].book # c})
Holds(rows, list, c) ==
  \A i \in 1..Len(list) : list[i].book # c => \E j \in 1..Len(rows) : rows[j] = list[i]

\* Rows are added, or those of other playbooks are deleted.
LEMMA CellStays ==
    ASSUME NEW list, NEW b, NEW p, NEW asks, NEW sent, NEW deleted, NEW excused, NEW where,
           CellTold(list, b, p, asks, sent, deleted, excused, where),
           NEW rows, NEW c, Holds(rows, list, c), b # c
    PROVE  CellTold(rows, b, p, asks, sent, deleted, excused, where)
<1>1. \A i \in 1..Len(list) : list[i].book = b => \E j \in 1..Len(rows) : rows[j] = list[i]
  BY DEF Holds
<1>2. \A n, types : Ran(list, b, p, n, types) => Ran(rows, b, p, n, types)
  BY <1>1 DEF Ran
<1>3. Asked(list, b, p, asks) => Asked(rows, b, p, asks)
  BY <1>1 DEF Asked
<1> QED
  BY <1>2, <1>3 DEF CellTold

\* The rows when the pass goes on or ends.
LEMMA RowsGoOn ==
    ASSUME NEW list \in Seq(Soar!Records), NEW b \in Nat, NEW p \in Nat, RowsIn(list, b, p),
           NEW c \in Nat, NEW q \in Nat, q > p \/ (q = p /\ b # 0 /\ (c = 0 \/ c > b)) \/ (q = p /\ b = c)
    PROVE  RowsIn(list, c, q)
<1>1. \A i \in 1..Len(list) : list[i] \in Soar!Records
  OBVIOUS
<1>2. \A r \in Soar!Records : r.pass \in Nat /\ r.book \in Nat
  BY SoarConstants DEF Soar!Records
<1>3. ASSUME NEW i \in 1..Len(list) PROVE Behind(list[i], c, q)
  <2>1. list[i].pass \in Nat /\ list[i].book \in Nat /\ Behind(list[i], b, p)
    BY <1>1, <1>2 DEF RowsIn
  <2> QED
    BY <2>1 DEF Behind
<1> QED
  BY <1>3 DEF RowsIn

LEMMA RowsTaken ==
    ASSUME NEW list \in Seq(Soar!Records), NEW b, NEW p, RowsIn(list, b, p), NEW c
    PROVE  /\ Others(list, c) \in Seq(Soar!Records) /\ RowsIn(Others(list, c), b, p)
           /\ Holds(Others(list, c), list, c)
<1> DEFINE rows == Others(list, c)
<1>1. PICK places, n : places = {i \in DOMAIN list : list[i].book # c} /\ n = Len(list)
  OBVIOUS
<1>2. /\ n \in Nat /\ DOMAIN list = 1..n /\ places \in SUBSET (1..n)
      /\ \A i \in 1..n : list[i] \in Soar!Records /\ (list[i].book # c => i \in places)
  BY <1>1
<1>3. InOrder(rows, list, places)
  <2>1. InOrder(Soar!Kept(list, places), list, places)
    BY <1>2, KeptPlaces
  <2> QED
    BY <1>1, <2>1 DEF Others
<1> HIDE DEF rows
<1>4. PICK m \in Nat : \E place \in [1..m -> places] :
        /\ rows = [k \in 1..m |-> list[place[k]]]
        /\ \A i \in places : \E k \in 1..m : place[k] = i
        /\ \A k, l \in 1..m : place[k] <= place[l] => k <= l
  BY <1>3 DEF InOrder
<1>5. PICK place \in [1..m -> places] :
        /\ rows = [k \in 1..m |-> list[place[k]]]
        /\ \A i \in places : \E k \in 1..m : place[k] = i
        /\ \A k, l \in 1..m : place[k] <= place[l] => k <= l
  BY <1>4
<1>6. \A k \in 1..m : place[k] \in 1..n /\ rows[k] = list[place[k]]
  BY <1>2, <1>5
<1>7. rows \in [1..m -> Soar!Records]
  BY <1>2, <1>5, <1>6
<1>8. rows \in Seq(Soar!Records) /\ Len(rows) = m
  <2>1. rows \in Seq(Soar!Records) /\ DOMAIN rows = 1..m
    BY ONLY <1>7, m \in Nat
  <2>2. Len(rows) \in Nat /\ DOMAIN rows = 1..Len(rows)
    BY ONLY <2>1
  <2>3. \A k \in Nat : 1..k = 1..m => k = m
    OBVIOUS
  <2> QED
    BY <2>1, <2>2, <2>3
<1>9. RowsIn(rows, b, p)
  <2>1. \A k \in 1..m : Behind(rows[k], b, p) /\ Truthful(rows[k])
    BY <1>1, <1>6 DEF RowsIn
  <2>2. ASSUME NEW k \in 1..m, NEW l \in 1..m, k < l PROVE Precedes(rows[k], rows[l])
    <3>1. place[k] \in 1..n /\ place[l] \in 1..n
      BY <1>6
    <3>2. ~(place[l] <= place[k])
      <4>1. ~(l <= k)
        BY <2>2
      <4> QED
        BY <1>5, <4>1
    <3>3. place[k] < place[l]
      BY <1>2, <3>1, <3>2
    <3> QED
      BY <1>1, <1>6, <3>1, <3>3 DEF RowsIn
  <2> QED
    BY <1>8, <2>1, <2>2 DEF RowsIn
<1>10. ASSUME NEW i \in 1..Len(list), list[i].book # c
       PROVE  \E j \in 1..Len(rows) : rows[j] = list[i]
  <2>1. i \in places
    BY <1>1, <1>2, <1>10
  <2>2. PICK k \in 1..m : place[k] = i
    BY <1>5, <2>1
  <2> QED
    BY <1>6, <1>8, <2>2
<1> QED
  BY <1>8, <1>9, <1>10 DEF Holds, rows

\* A run is committed: the row is the last one and tells the truth.
LEMMA RowsAdded ==
    ASSUME NEW list \in Seq(Soar!Records), NEW r \in Soar!Records, RowsIn(list, r.book, r.pass),
           Truthful(r), NEW c \in Nat, c = 0 \/ c > r.book
    PROVE  /\ Append(list, r) \in Seq(Soar!Records) /\ RowsIn(Append(list, r), c, r.pass)
           /\ Holds(Append(list, r), list, 0)
           /\ \E j \in 1..Len(Append(list, r)) : Append(list, r)[j] = r
<1>1. PICK n, rows, b, p : n = Len(list) /\ rows = Append(list, r) /\ b = r.book /\ p = r.pass
  OBVIOUS
<1>2. /\ n \in Nat /\ rows \in Seq(Soar!Records) /\ Len(rows) = n + 1 /\ rows[n + 1] = r
      /\ \A i \in 1..n : rows[i] = list[i]
  BY <1>1
<1>3. /\ \A i \in 1..Len(rows) : i \in 1..n \/ i = n + 1
      /\ \A i \in 1..n : i \in 1..Len(rows)
      /\ n + 1 \in 1..Len(rows)
  BY <1>2
<1>4. b \in Nat /\ b # 0 /\ p \in Nat /\ RowsIn(list, b, p) /\ (c = 0 \/ c > b)
  BY <1>1, SoarConstants DEF Soar!Records
<1>5. RowsIn(list, c, p) /\ Behind(r, c, p)
  BY <1>1, <1>4, RowsGoOn DEF Behind
<1>6. ASSUME NEW i \in 1..n PROVE Precedes(list[i], r)
  BY <1>1, <1>4 DEF Precedes, RowsIn, Behind
<1>7. \A i \in 1..Len(rows) : Behind(rows[i], c, p) /\ Truthful(rows[i])
  BY <1>1, <1>2, <1>3, <1>5 DEF RowsIn
<1>8. ASSUME NEW i \in 1..Len(rows), NEW j \in 1..Len(rows), i < j PROVE Precedes(rows[i], rows[j])
  <2>1. i \in 1..n /\ (j \in 1..n \/ j = n + 1)
    BY <1>2, <1>3, <1>8
  <2> QED
    BY <1>1, <1>2, <1>6, <1>8, <2>1 DEF RowsIn
<1>9. RowsIn(rows, c, p)
  BY <1>7, <1>8 DEF RowsIn
<1>10. Holds(rows, list, 0) /\ \E j \in 1..Len(rows) : rows[j] = r
  BY <1>1, <1>2, <1>3 DEF Holds
<1> QED
  BY <1>1, <1>2, <1>9, <1>10

LEMMA SoarInvInit == Soar!Init => SoarInv
<1> SUFFICES ASSUME Soar!Init PROVE SoarInv
  OBVIOUS
<1>1. PICK none : none = <<>>
  OBVIOUS
<1>2. none \in Seq(Soar!Records) /\ Len(none) = 0
  BY <1>1
<1>3. /\ runs = none /\ pass = 0 /\ book = 0 /\ step = 0 /\ broken = FALSE /\ status = "running"
      /\ pending = {} /\ soarFaults = 0 /\ there \subseteq Soar!Books /\ active = there
      /\ gone = [b \in Soar!Books |-> Soar!Stays]
      /\ requests = [c \in Cells |-> {}] /\ out = [c \in Cells |-> 0]
  BY <1>1 DEF Soar!Init, Cells, Soar!Passes
<1>4. SoarTypes
  <2>1. Soar!Stays \in 0..Soar!Stays /\ 0 \in 0..MaxPasses
    BY SoarConstants
  <2>2. gone \in [Soar!Books -> 0..Soar!Stays]
    BY <1>3, <2>1
  <2> QED
    BY <1>2, <1>3, <2>1, <2>2 DEF SoarTypes
<1>5. OpenRun /\ RowsIn(runs, book, pass)
  <2>1. RowsIn(none, 0, 0)
    BY <1>2 DEF RowsIn
  <2> QED
    BY <1>3, <2>1 DEF OpenRun
<1>6. CellsTold
  <2> SUFFICES ASSUME NEW b \in Soar!Books, NEW p \in 1..MaxPasses
               PROVE  CellTold(runs, b, p, requests[<<b, p>>], out[<<b, p>>], gone[b], Excused(b), CellIs(b, p))
    BY DEF CellsTold
  <2>1. requests[<<b, p>>] = {} /\ out[<<b, p>>] = 0
    BY <1>3 DEF Cells
  <2> QED
    BY <2>1 DEF CellTold
<1> QED
  BY <1>4, <1>5, <1>6 DEF SoarInv

\* What the cells of the other playbooks and passes are when one step is over.
LEMMA CellsMove ==
    ASSUME CellsTold, runs' = runs, requests' = requests, out' = out, gone' = gone,
           soarFaults > 0 => (soarFaults > 0)',
           \A b \in Soar!Books : \A p \in 1..MaxPasses :
             \/ CellIs(b, p)' = CellIs(b, p) \/ CellIs(b, p) = "ahead"
             \/ Excused(b)' /\ CellIs(b, p)' = "past"
    PROVE  CellsTold'
<1> SUFFICES ASSUME NEW b \in Soar!Books, NEW p \in 1..MaxPasses
             PROVE  CellTold(runs, b, p, requests[<<b, p>>], out[<<b, p>>], gone[b], Excused(b), CellIs(b, p))'
  BY DEF CellsTold
<1>1. PICK list, asks, sent, deleted, excused, where, excusedNow, now :
        /\ list = runs /\ asks = requests[<<b, p>>] /\ sent = out[<<b, p>>] /\ deleted = gone[b]
        /\ excused = Excused(b) /\ where = CellIs(b, p)
        /\ excusedNow = Excused(b)' /\ now = CellIs(b, p)'
  OBVIOUS
<1>2. CellTold(list, b, p, asks, sent, deleted, excused, where)
  BY <1>1 DEF CellsTold
<1>3. (excused => excusedNow) /\ (now = where \/ where = "ahead" \/ (excusedNow /\ now = "past"))
  <2>1. Excused(b) => Excused(b)'
    BY DEF Excused
  <2> QED
    BY <1>1, <2>1
<1>4. CellTold(list, b, p, asks, sent, deleted, excusedNow, now)
  BY ONLY <1>2, <1>3, CellMoves
<1> QED
  BY <1>1, <1>4

\* The playbooks are looked at one after the other; a pass begins or ends.
LEMMA PassMoves ==
    ASSUME SoarInv, Soar!StartPass \/ Soar!Skip \/ Soar!Begin \/ Soar!BeginFails
    PROVE  SoarInv'
<1>1. /\ there' = there /\ active' = active /\ gone' = gone /\ runs' = runs /\ requests' = requests
      /\ out' = out /\ soarFaults' = soarFaults
  BY DEF Soar!StartPass, Soar!Skip, Soar!Begin, Soar!BeginFails, Soar!table, Soar!approvals
<1>2. /\ MaxPasses \in Nat /\ Soar!Books = 1..Len(SoarBooks) /\ Len(SoarBooks) \in Nat
      /\ pass \in 0..MaxPasses /\ book \in Nat /\ step \in Nat
      /\ OpenRun /\ CellsTold
  BY SoarConstants DEF SoarInv, SoarTypes
<1>3. step = 0
  BY <1>2 DEF Soar!StartPass, Soar!Skip, Soar!Begin, Soar!BeginFails, OpenRun
<1>4. pending' = {} /\ status' = "running" /\ broken' = FALSE
  <2>1. pending = {} /\ status = "running" /\ broken = FALSE
    BY <1>2, <1>3 DEF OpenRun
  <2> QED
    BY <2>1 DEF Soar!StartPass, Soar!Skip, Soar!Begin, Soar!BeginFails, Soar!EndPass
<1>5. \/ book = 0 /\ pass < MaxPasses /\ pass' = pass + 1 /\ book' = 1 /\ step' = 0
      \/ book # 0 /\ pass' = pass /\ step' = 0 /\ (book' = 0 \/ book' = book + 1)
      \/ book # 0 /\ pass' = pass /\ book' = book /\ step' = 1 /\ book \in there
  BY <1>3 DEF Soar!StartPass, Soar!Skip, Soar!Begin, Soar!BeginFails, Soar!EndPass, Soar!NextBook
<1>6. /\ pass' \in 0..MaxPasses /\ step' \in Nat /\ book' \in Nat
      /\ book' # 0 => pass' >= 1
  <2>1. book # 0 => pass >= 1
    BY <1>2 DEF OpenRun
  <2> QED
    BY <1>2, <1>5, <2>1
<1>7. SoarTypes'
  BY <1>1, <1>4, <1>6 DEF SoarInv, SoarTypes
<1>8. RowsIn(runs, book, pass)'
  <2>1. runs \in Seq(Soar!Records) /\ RowsIn(runs, book, pass) /\ pass \in Nat
    BY <1>2 DEF SoarInv, SoarTypes
  <2>2. PICK list, b, p, c, q : list = runs /\ b = book /\ p = pass /\ c = book' /\ q = pass'
    OBVIOUS
  <2>3. c \in Nat /\ q \in Nat /\ (q > p \/ (q = p /\ b # 0 /\ (c = 0 \/ c > b)) \/ (q = p /\ b = c))
    BY <1>2, <1>5, <1>6, <2>2
  <2>4. list \in Seq(Soar!Records) /\ RowsIn(list, b, p) /\ b \in Nat /\ p \in Nat
    BY <1>2, <2>1, <2>2
  <2>5. RowsIn(list, c, q)
    BY ONLY <2>3, <2>4, RowsGoOn
  <2> QED
    BY <1>1, <2>2, <2>5
<1>9. ASSUME NEW b \in Soar!Books, NEW p \in 1..MaxPasses
      PROVE  CellIs(b, p)' = CellIs(b, p) \/ CellIs(b, p) = "ahead"
  <2>1. b \in Nat /\ b >= 1 /\ p \in Nat
    BY <1>2
  <2> QED
    BY <1>2, <1>3, <1>5, <2>1 DEF CellIs
<1>10. CellsTold'
  BY <1>1, <1>2, <1>9, CellsMove
<1>11. OpenRun'
  <2>1. step' > 0 => OpenTold(book, step, status, pending, out[<<book, pass>>], broken = FALSE)'
    <3> SUFFICES ASSUME step' > 0
                 PROVE  OpenTold(book, step, status, pending, out[<<book, pass>>], broken = FALSE)'
      OBVIOUS
    <3>1. book' = book /\ pass' = pass /\ step' = 1 /\ book \in there /\ book # 0
      BY <1>5
    <3>2. book \in Soar!Books /\ pass \in 1..MaxPasses
      BY <1>2, <3>1 DEF SoarInv, SoarTypes, OpenRun
    <3>3. CellIs(book, pass) = "ahead"
      BY <1>3, <3>1 DEF CellIs
    <3>4. out[<<book, pass>>] = 0
      BY <1>2, <3>2, <3>3 DEF CellsTold, CellTold
    <3>5. Len(Soar!Actions(book)) \in Nat
      BY <3>2, SoarConstants
    <3>6. Soar!Hits(book, 0, Sends) \in Nat
      BY HitsGrow
    <3>7. Done(1, "running") = 0
      BY DEF Done
    <3>8. Spared(book, 0)
      BY DEF Spared
    <3>9. OpenTold(book, 1, "running", {}, 0, TRUE)
      BY <3>5, <3>6, <3>7, <3>8 DEF OpenTold
    <3>10. (broken = FALSE)' = TRUE
      BY <1>4
    <3> QED
      BY <1>1, <1>4, <3>1, <3>4, <3>9, <3>10
  <2>2. step' > 0 => book' # 0 /\ book' \in there'
    BY <1>1, <1>5
  <2>3. \A b \in there' : gone'[b] = Soar!Stays
    BY <1>1, <1>2 DEF OpenRun
  <2> QED
    BY <1>4, <1>6, <2>1, <2>2, <2>3 DEF OpenRun
<1> QED
  BY <1>7, <1>8, <1>10, <1>11 DEF SoarInv

\* The cells of a run that is open: its own may have sent something.
LEMMA OpenCells ==
    ASSUME SoarInv, step > 0, runs' = runs, requests' = requests, gone' = gone, there' = there,
           pass' = pass, book' = book, step' > 0, soarFaults > 0 => (soarFaults > 0)',
           NEW sent \in Nat, out' \in {out, [out EXCEPT ![<<book, pass>>] = sent]}
    PROVE  /\ CellsTold' /\ out' \in [Cells -> Nat] /\ book \in Soar!Books /\ pass \in 1..MaxPasses
           /\ out' # out => out'[<<book, pass>>] = sent
<1>1. /\ book \in Soar!Books /\ book \in there /\ pass \in 1..MaxPasses /\ gone[book] = Soar!Stays
  BY SoarConstants DEF SoarInv, SoarTypes, OpenRun
<1>2. <<book, pass>> \in Cells /\ out \in [Cells -> Nat]
  BY <1>1 DEF Cells, SoarInv, SoarTypes
<1>3. /\ out' \in [Cells -> Nat] /\ (out' # out => out'[<<book, pass>>] = sent)
      /\ \A c \in Cells : c # <<book, pass>> => out'[c] = out[c]
  BY <1>2
<1>4. ASSUME NEW b \in Soar!Books, NEW p \in 1..MaxPasses
      PROVE  CellTold(runs, b, p, requests[<<b, p>>], out[<<b, p>>], gone[b], Excused(b), CellIs(b, p))'
  <2>1. PICK list, asks, before, deleted, excused, where, excusedNow, after :
          /\ list = runs /\ asks = requests[<<b, p>>] /\ before = out[<<b, p>>] /\ deleted = gone[b]
          /\ excused = Excused(b) /\ where = CellIs(b, p)
          /\ excusedNow = Excused(b)' /\ after = out'[<<b, p>>]
    OBVIOUS
  <2>2. CellTold(list, b, p, asks, before, deleted, excused, where)
    BY <2>1 DEF SoarInv, CellsTold
  <2>3. CellIs(b, p)' = where /\ (excused => excusedNow)
    <3>1. step # 0 /\ step' # 0
      OBVIOUS
    <3>2. CellIs(b, p)' = CellIs(b, p)
      BY <3>1 DEF CellIs
    <3>3. Excused(b) => Excused(b)'
      BY DEF Excused
    <3> QED
      BY <2>1, <3>2, <3>3
  <2>4. CellTold(list, b, p, asks, before, deleted, excusedNow, where)
    BY ONLY <2>2, <2>3, CellMoves
  <2>5. CASE b = book /\ p = pass
    <3>1. where = "current" /\ deleted = Soar!Stays /\ ~(p > deleted)
      BY <1>1, <2>1, <2>5, SoarConstants DEF CellIs, SoarInv, SoarTypes
    <3>2. CellTold(list, b, p, asks, after, deleted, excusedNow, where)
      BY <2>4, <3>1 DEF CellTold
    <3> QED
      BY <2>1, <2>3, <3>2
  <2>6. CASE ~(b = book /\ p = pass)
    <3>1. <<b, p>> \in Cells /\ <<b, p>> # <<book, pass>>
      BY <2>6 DEF Cells
    <3>2. after = before
      BY <1>3, <2>1, <3>1
    <3> QED
      BY <2>1, <2>3, <2>4, <3>2
  <2> QED
    BY <2>5, <2>6
<1> QED
  BY <1>1, <1>3, <1>4 DEF CellsTold

\* What an action of the open run does, whichever it is.
Acted ==
  \/ Soar!CreateCase \/ Soar!Send \/ Soar!SetSeverity \/ Soar!Refuse \/ Soar!AskApproval
  \/ Soar!Contain \/ Soar!GuardFails
Effect(b, k, type, arg) ==
  /\ out' = out \/ (type \in Sends /\ out' = [out EXCEPT ![<<book, pass>>] = out[<<book, pass>>] + 1])
  /\ pending' = pending \/ (type = "contain" /\ pending' = pending \cup {arg})
  /\ \/ broken' = broken /\ soarFaults' = soarFaults /\ type # "create_case"
     \/ broken' = TRUE /\ soarFaults' = soarFaults /\ type = "create_case"
     \/ broken' = TRUE /\ soarFaults' = soarFaults + 1
  /\ \/ step' = k + 1 /\ status' = "running"
     \/ step' = k /\ status' = "failed" /\ Soar!Actions(b)[k].stop
LEMMA ActEffect ==
    ASSUME Acted
    PROVE  /\ there' = there /\ active' = active /\ gone' = gone /\ runs' = runs
           /\ requests' = requests /\ elsewhere' = elsewhere /\ open' = open /\ granted' = granted
           /\ book' = book /\ pass' = pass
           /\ step > 0 /\ step <= Len(Soar!Actions(book)) /\ status = "running"
           /\ Effect(book, step, Soar!Actions(book)[step].type, Soar!Actions(book)[step].arg)
<1>1. PICK types : Soar!Acts(types)
  BY DEF Acted, Soar!CreateCase, Soar!Send, Soar!SetSeverity, Soar!Refuse, Soar!AskApproval,
         Soar!Contain, Soar!GuardFails
<1>2. /\ there' = there /\ active' = active /\ gone' = gone /\ runs' = runs
      /\ requests' = requests /\ elsewhere' = elsewhere /\ open' = open /\ granted' = granted
      /\ book' = book /\ pass' = pass
      /\ step > 0 /\ step <= Len(Soar!Actions(book)) /\ status = "running"
  BY <1>1 DEF Soar!Acts, Soar!Acting, Soar!table, Soar!approvals
<1>3. PICK type, arg : type = Soar!Actions(book)[step].type /\ arg = Soar!Actions(book)[step].arg
  OBVIOUS
<1>4. ASSUME NEW ok, Soar!Result(ok)
      PROVE  \/ step' = step + 1 /\ status' = "running"
             \/ step' = step /\ status' = "failed" /\ Soar!Actions(book)[step].stop
  BY <1>2, <1>4 DEF Soar!Result, Soar!Act
<1>5. CASE Soar!CreateCase
  <2>1. /\ type = "create_case" /\ broken' = TRUE /\ soarFaults' = soarFaults /\ out' = out
        /\ pending' = pending /\ Soar!Result(FALSE)
    BY <1>3, <1>5 DEF Soar!CreateCase, Soar!Acts, Soar!Act
  <2> QED
    BY <1>2, <1>3, <1>4, <2>1 DEF Effect
<1>6. CASE Soar!Send
  <2>1. PICK ok \in BOOLEAN, sent \in BOOLEAN :
          /\ out' = IF sent THEN [out EXCEPT ![<<book, pass>>] = out[<<book, pass>>] + 1] ELSE out
          /\ Soar!Result(ok)
    BY <1>6 DEF Soar!Send
  <2>2. /\ type \in {"webhook", "notify"} /\ broken' = broken /\ soarFaults' = soarFaults
        /\ pending' = pending
    BY <1>3, <1>6 DEF Soar!Send, Soar!Acts, Soar!Act
  <2>3. type \in Sends /\ type # "create_case"
    BY <2>2 DEF Sends
  <2> QED
    BY <1>2, <1>3, <1>4, <2>1, <2>2, <2>3 DEF Effect
<1>7. CASE Soar!SetSeverity
  <2>1. /\ type = "set_severity" /\ broken' = broken /\ soarFaults' = soarFaults /\ out' = out
        /\ pending' = pending /\ Soar!Result(TRUE)
    BY <1>3, <1>7 DEF Soar!SetSeverity, Soar!Acts, Soar!Act
  <2> QED
    BY <1>2, <1>3, <1>4, <2>1 DEF Effect
<1>8. CASE Soar!Refuse
  <2>1. /\ type = "contain" /\ broken' = broken /\ soarFaults' = soarFaults /\ out' = out
        /\ pending' = pending /\ Soar!Result(FALSE)
    BY <1>3, <1>8 DEF Soar!Refuse, Soar!Acts, Soar!Act
  <2> QED
    BY <1>2, <1>3, <1>4, <2>1 DEF Effect
<1>9. CASE Soar!AskApproval
  <2>1. /\ type = "contain" /\ broken' = broken /\ soarFaults' = soarFaults /\ out' = out
        /\ pending' = pending \cup {arg} /\ Soar!Result(FALSE)
    BY <1>3, <1>9 DEF Soar!AskApproval, Soar!Acts, Soar!Act
  <2> QED
    BY <1>2, <1>3, <1>4, <2>1 DEF Effect
<1>10. CASE Soar!Contain
  <2>1. PICK ok \in BOOLEAN, sent \in BOOLEAN :
          /\ out' = IF sent THEN [out EXCEPT ![<<book, pass>>] = out[<<book, pass>>] + 1] ELSE out
          /\ Soar!Result(ok)
    BY <1>10 DEF Soar!Contain
  <2>2. /\ type = "contain" /\ broken' = broken /\ soarFaults' = soarFaults /\ pending' = pending
    BY <1>3, <1>10 DEF Soar!Contain, Soar!Acts, Soar!Act
  <2>3. type \in Sends /\ type # "create_case"
    BY <2>2 DEF Sends
  <2> QED
    BY <1>2, <1>3, <1>4, <2>1, <2>2, <2>3 DEF Effect
<1>11. CASE Soar!GuardFails
  <2>1. /\ type = "contain" /\ broken' = TRUE /\ soarFaults' = soarFaults + 1 /\ out' = out
        /\ pending' = pending /\ Soar!Result(FALSE)
    BY <1>3, <1>11 DEF Soar!GuardFails, Soar!Acts, Soar!Act, Soar!Fault
  <2> QED
    BY <1>2, <1>3, <1>4, <2>1 DEF Effect
<1> QED
  BY <1>2, <1>5, <1>6, <1>7, <1>8, <1>9, <1>10, <1>11 DEF Acted

LEMMA ActKeeps == ASSUME SoarInv, Acted PROVE SoarInv'
<1>1. PICK b, k, len, sent, type, arg :
        /\ b = book /\ k = step /\ len = Len(Soar!Actions(b)) /\ sent = out[<<book, pass>>] + 1
        /\ type = Soar!Actions(b)[k].type /\ arg = Soar!Actions(b)[k].arg
  OBVIOUS
<1>2. /\ there' = there /\ active' = active /\ gone' = gone /\ runs' = runs /\ requests' = requests
      /\ book' = book /\ pass' = pass
      /\ k > 0 /\ k <= len /\ status = "running"
      /\ Effect(b, k, type, arg)
  BY <1>1, ActEffect
<1>3. /\ k \in Nat /\ b \in there /\ b # 0 /\ b \in Soar!Books /\ len \in Nat /\ pass >= 1
      /\ OpenTold(b, k, "running", pending, out[<<book, pass>>], broken = FALSE)
      /\ soarFaults \in Nat /\ pending \subseteq Targets /\ out[<<book, pass>>] \in Nat
      /\ broken \in BOOLEAN
  <2>1. /\ k \in Nat /\ b \in there /\ b # 0 /\ b \in Soar!Books /\ pass \in 1..MaxPasses
        /\ OpenTold(b, k, "running", pending, out[<<book, pass>>], broken = FALSE)
        /\ soarFaults \in Nat /\ pending \subseteq Targets /\ out \in [Cells -> Nat]
        /\ broken \in BOOLEAN
    BY <1>1, <1>2, SoarConstants DEF SoarInv, SoarTypes, OpenRun
  <2>2. <<book, pass>> \in Cells
    BY <1>1, <2>1 DEF Cells
  <2> QED
    BY <1>1, <2>1, <2>2, SoarConstants
<1>4. /\ k - 1 \in Nat /\ k \in Nat /\ k - 1 <= k /\ (k - 1) + 1 = k /\ Done(k, "running") = k - 1
      /\ step' \in Nat /\ step' > 0 /\ status' \in {"running", "failed"} /\ Done(step', status') = k
      /\ step' <= len + 1
      /\ status' = "failed" => step' <= len /\ Soar!Actions(b)[step'].stop
  BY <1>2, <1>3 DEF Effect, Done
<1>5. /\ soarFaults' \in Nat /\ (soarFaults > 0 => (soarFaults > 0)')
      /\ broken' \in BOOLEAN /\ (broken' = FALSE \/ Excused(book)')
      /\ broken' = FALSE => Spared(b, k)
  <2>1. k \in 1..Len(Soar!Actions(b))
    BY <1>1, <1>2, <1>3
  <2>2. type = "create_case" => Soar!Creates(b)
    BY <1>1, <2>1 DEF Soar!Creates
  <2>3. broken = FALSE \/ Excused(book)
    BY DEF SoarInv, OpenRun
  <2>4. broken = FALSE => Spared(b, k - 1)
    BY <1>3, <1>4 DEF OpenTold
  <2>5. /\ soarFaults' \in Nat /\ (soarFaults > 0 => (soarFaults > 0)') /\ broken' \in BOOLEAN
        /\ broken' = FALSE => broken = FALSE /\ type # "create_case"
        /\ broken' = FALSE \/ (broken = broken' /\ soarFaults' = soarFaults)
                          \/ type = "create_case" \/ soarFaults' > 0
    <3>1. PICK f, g : f = soarFaults /\ g = soarFaults'
      OBVIOUS
    <3>2. \/ broken' = broken /\ g = f /\ type # "create_case"
          \/ broken' = TRUE /\ g = f /\ type = "create_case"
          \/ broken' = TRUE /\ g = f + 1
      BY <1>2, <3>1 DEF Effect
    <3>3. f \in Nat /\ g \in Nat /\ (f > 0 => g > 0) /\ (g = f + 1 => g > 0)
      BY <1>3, <3>1, <3>2
    <3>4. /\ broken' \in BOOLEAN
          /\ broken' = FALSE => broken = FALSE /\ type # "create_case"
          /\ broken' = FALSE \/ (broken = broken' /\ g = f) \/ type = "create_case" \/ g = f + 1
      BY <1>3, <3>2, Zenon
    <3> QED
      BY <3>1, <3>3, <3>4
  <2>6. Spared(b, k - 1) /\ type # "create_case" => Spared(b, k)
    BY <1>1, <1>4 DEF Spared
  <2>7. broken' = FALSE \/ Excused(book)'
    BY <1>1, <1>2, <2>2, <2>3, <2>5 DEF Excused, Soar!Creates
  <2> QED
    BY <2>4, <2>5, <2>6, <2>7
<1>6. pending' \subseteq Soar!Contains(b, k) /\ pending' \subseteq Targets
  <2>1. pending \subseteq Soar!Contains(b, k - 1)
    BY <1>3, <1>4 DEF OpenTold
  <2>2. /\ Soar!Contains(b, k - 1) \subseteq Soar!Contains(b, k)
        /\ type = "contain" => arg \in Soar!Contains(b, k)
    BY <1>1, <1>2, <1>4, ContainsGrow
  <2>3. pending' \subseteq Soar!Contains(b, k)
    BY <1>2, <2>1, <2>2 DEF Effect
  <2>4. type = "contain" => arg \in Targets
    <3>1. k \in 1..Len(Soar!Actions(b))
      BY <1>1, <1>2, <1>3
    <3> QED
      BY <1>1, <1>3, <3>1, ArgsTyped
  <2> QED
    BY <1>2, <1>3, <2>3, <2>4 DEF Effect
<1>7. /\ CellsTold' /\ out' \in [Cells -> Nat] /\ (out' # out => out'[<<book, pass>>] = sent)
  <2>1. step > 0 /\ step' > 0 /\ sent \in Nat
    BY <1>1, <1>2, <1>3, <1>4
  <2>2. out' \in {out, [out EXCEPT ![<<book, pass>>] = sent]}
    BY <1>1, <1>2 DEF Effect
  <2> QED
    BY <1>2, <1>5, <2>1, <2>2, OpenCells
<1>8. out'[<<book, pass>>] <= Soar!Hits(b, k, Sends)
  <2>1. out[<<book, pass>>] <= Soar!Hits(b, k - 1, Sends)
    BY <1>3, <1>4 DEF OpenTold
  <2>2. PICK h, g, o : h = Soar!Hits(b, k - 1, Sends) /\ g = Soar!Hits(b, k, Sends) /\ o = out[<<book, pass>>]
    OBVIOUS
  <2>3. h \in Nat /\ g \in Nat /\ h <= g /\ o \in Nat /\ sent = o + 1
    BY <1>1, <1>3, <1>4, <2>2, HitsGrow
  <2>4. type \in Sends => g = h + 1
    BY <1>1, <1>4, <2>2, HitsGrow
  <2>5. out' = out \/ type \in Sends
    BY <1>2 DEF Effect
  <2> QED
    BY <1>7, <2>1, <2>2, <2>3, <2>4, <2>5
<1>9. OpenRun'
  <2>1. OpenTold(b, step', status', pending', out'[<<book, pass>>], broken' = FALSE)
    BY <1>1, <1>4, <1>5, <1>6, <1>8 DEF OpenTold
  <2>2. \A d \in there' : gone'[d] = Soar!Stays
    BY <1>2 DEF SoarInv, OpenRun
  <2> QED
    BY <1>1, <1>2, <1>3, <1>4, <1>5, <2>1, <2>2 DEF OpenRun
<1>10. SoarTypes'
  BY <1>2, <1>4, <1>5, <1>6, <1>7 DEF SoarInv, SoarTypes
<1>11. RowsIn(runs, book, pass)'
  BY <1>2 DEF SoarInv
<1> QED
  BY <1>7, <1>9, <1>10, <1>11 DEF SoarInv

\* A pass ends before its playbooks do: a fault is why, or a case that was to be created.
LEMMA PassEnds == ASSUME SoarInv, Soar!Abort \/ (Soar!CommitRun /\ broken) PROVE SoarInv'
<1>1. /\ there' = there /\ active' = active /\ gone' = gone /\ runs' = runs /\ requests' = requests
      /\ out' = out /\ pass' = pass /\ book' = 0 /\ step' = 0 /\ pending' = {} /\ broken' = FALSE
      /\ status' = "running" /\ book # 0
  <2>1. CASE Soar!Abort
    BY <2>1 DEF Soar!Abort, Soar!EndPass, Soar!table, Soar!approvals
  <2>2. CASE Soar!CommitRun /\ broken
    <3>1. step > 0
      BY <2>2 DEF Soar!CommitRun, Soar!AtEnd
    <3>2. book # 0
      BY <3>1 DEF SoarInv, OpenRun
    <3> QED
      BY <2>2, <3>2 DEF Soar!CommitRun, Soar!EndPass, Soar!table
  <2> QED
    BY <2>1, <2>2
<1>2. /\ soarFaults' \in Nat /\ (soarFaults > 0 => (soarFaults > 0)')
      /\ \A b : b = book => Excused(b)'
  <2>1. CASE Soar!Abort
    <3>1. soarFaults \in Nat /\ soarFaults' = soarFaults + 1
      BY <2>1 DEF Soar!Abort, Soar!Fault, SoarInv, SoarTypes
    <3>2. soarFaults' > 0 /\ soarFaults' \in Nat
      BY <3>1
    <3> QED
      BY <3>2 DEF Excused
  <2>2. CASE Soar!CommitRun /\ broken
    <3>1. soarFaults' = soarFaults /\ soarFaults \in Nat
      BY <2>2 DEF Soar!CommitRun, SoarInv, SoarTypes
    <3>2. soarFaults > 0 \/ Soar!Creates(book)
      <4>1. broken = FALSE \/ Excused(book)
        BY DEF SoarInv, OpenRun
      <4>2. ~(broken = FALSE)
        BY <2>2, Zenon
      <4> QED
        BY <4>1, <4>2 DEF Excused
    <3> QED
      BY <3>1, <3>2 DEF Excused, Soar!Creates
  <2> QED
    BY <2>1, <2>2
<1>3. ASSUME NEW b \in Soar!Books, NEW p \in 1..MaxPasses
      PROVE  \/ CellIs(b, p)' = CellIs(b, p) \/ CellIs(b, p) = "ahead"
             \/ Excused(b)' /\ CellIs(b, p)' = "past"
  <2>1. b \in Nat /\ b # 0 /\ book \in Nat /\ pass \in Nat /\ p \in Nat
    BY SoarConstants DEF SoarInv, SoarTypes
  <2>2. CASE b = book
    <3>1. CellIs(b, p)' \in {"ahead", "past"} /\ (CellIs(b, p)' = "ahead" => p > pass)
      BY <1>1 DEF CellIs
    <3>2. p > pass => CellIs(b, p) = "ahead"
      BY DEF CellIs
    <3> QED
      BY <1>2, <2>2, <3>1, <3>2
  <2>3. CASE b # book
    BY <1>1, <2>1, <2>3 DEF CellIs
  <2> QED
    BY <2>2, <2>3
<1>4. CellsTold'
  <2>1. CellsTold
    BY DEF SoarInv
  <2> QED
    BY ONLY <1>1, <1>2, <1>3, <2>1, CellsMove
<1>5. OpenRun'
  BY <1>1 DEF SoarInv, OpenRun
<1>6. RowsIn(runs, book, pass)'
  <2>1. PICK list, b, p, c : list = runs /\ b = book /\ p = pass /\ c = 0
    OBVIOUS
  <2>2. list \in Seq(Soar!Records) /\ RowsIn(list, b, p) /\ b \in Nat /\ p \in Nat /\ c \in Nat
    BY <2>1, SoarConstants DEF SoarInv, SoarTypes
  <2>3. p = p /\ b # 0 /\ c = 0
    BY <1>1, <2>1
  <2>4. RowsIn(list, c, p)
    BY ONLY <2>2, <2>3, RowsGoOn
  <2> QED
    BY <1>1, <2>1, <2>4
<1>7. SoarTypes'
  BY <1>1, <1>2 DEF SoarInv, SoarTypes
<1> QED
  BY <1>4, <1>5, <1>6, <1>7 DEF SoarInv

\* The row of a run that is committed, and that it covers what the run did.
LEMMA RecordTold ==
    ASSUME SoarInv, Soar!CommitRun, ~broken
    PROVE  /\ book \in Soar!Books /\ book # 0 /\ pass \in 1..MaxPasses /\ step > 0 /\ gone[book] = Soar!Stays
           /\ Soar!Record \in Soar!Records /\ Soar!Record.book = book /\ Soar!Record.pass = pass
           /\ Truthful(Soar!Record)
           /\ pending \subseteq Soar!Contains(book, Soar!Record.done)
           /\ out[<<book, pass>>] <= Soar!Hits(book, Soar!Record.done, Sends)
<1>1. PICK b, k, p, end, r, len, whole :
        /\ b = book /\ k = step /\ p = pass /\ end = status /\ r = Soar!Record
        /\ len = Len(Soar!Actions(book)) /\ whole = (broken = FALSE)
  OBVIOUS
<1>2. k > 0 /\ (end = "failed" \/ k > len)
  BY <1>1 DEF Soar!CommitRun, Soar!AtEnd
<1>3. /\ k \in Nat /\ b \in there /\ b \in Soar!Books /\ b # 0 /\ p \in 1..MaxPasses
      /\ end \in {"running", "failed"} /\ OpenTold(b, k, end, pending, out[<<b, p>>], whole)
      /\ gone[b] = Soar!Stays
  BY <1>1, <1>2, SoarConstants DEF SoarInv, SoarTypes, OpenRun
<1>4. len \in Nat /\ whole
  <2>1. broken \in BOOLEAN
    BY DEF SoarInv, SoarTypes
  <2>2. broken = FALSE
    BY <2>1, Zenon
  <2> QED
    BY <1>1, <1>3, <2>2, SoarConstants
<1>5. r = [book |-> b, pass |-> p, done |-> Done(k, end),
           status |-> IF end = "failed" THEN "failed" ELSE "completed"]
  BY <1>1 DEF Soar!Record, Done
<1>6. r.done = Done(k, end) /\ r.done \in Nat
  BY <1>2, <1>3, <1>5 DEF Done
<1>7. r \in Soar!Records /\ r.book = b /\ r.pass = p
  BY <1>3, <1>5, <1>6 DEF Soar!Records
<1>8. Truthful(r)
  <2>1. Spared(b, r.done)
    BY <1>3, <1>4, <1>6 DEF OpenTold
  <2>2. CASE end = "failed"
    BY <1>2, <1>3, <1>5, <2>1, <2>2 DEF Truthful, OpenTold, Done
  <2>3. CASE end = "running"
    <3>1. k > len /\ k <= len + 1
      BY <1>1, <1>2, <1>3, <2>3 DEF OpenTold
    <3>2. k - 1 = len
      BY <1>3, <1>4, <3>1
    <3> QED
      BY <1>1, <1>5, <2>1, <2>3, <3>2 DEF Truthful, Done
  <2> QED
    BY <1>3, <2>2, <2>3
<1>9. /\ pending \subseteq Soar!Contains(b, r.done)
      /\ out[<<b, p>>] <= Soar!Hits(b, r.done, Sends)
  BY <1>3, <1>6 DEF OpenTold
<1> QED
  BY <1>1, <1>2, <1>3, <1>7, <1>8, <1>9

LEMMA CommitKeeps == ASSUME SoarInv, Soar!CommitRun, ~broken PROVE SoarInv'
<1>1. PICK b, p, r, c, list, rows :
        b = book /\ p = pass /\ r = Soar!Record /\ c = book' /\ list = runs /\ rows = runs'
  OBVIOUS
<1>2. /\ there' = there /\ active' = active /\ gone' = gone /\ out' = out /\ pass' = pass
      /\ step' = 0 /\ pending' = {} /\ status' = "running" /\ broken' = broken
      /\ soarFaults' = soarFaults
      /\ rows = Append(list, r) /\ (c = b + 1 \/ c = 0)
      /\ requests' = [requests EXCEPT ![<<b, p>>] = requests[<<b, p>>] \cup pending]
  BY <1>1 DEF Soar!CommitRun, Soar!NextBook, Soar!Requested, Soar!table
<1>3. /\ b \in Soar!Books /\ b # 0 /\ p \in 1..MaxPasses /\ step > 0 /\ gone[b] = Soar!Stays
      /\ r \in Soar!Records /\ r.book = b /\ r.pass = p /\ Truthful(r)
      /\ pending \subseteq Soar!Contains(b, r.done)
      /\ out[<<b, p>>] <= Soar!Hits(b, r.done, Sends)
  BY <1>1, RecordTold
<1>4. /\ list \in Seq(Soar!Records) /\ RowsIn(list, b, p) /\ MaxPasses \in Nat
      /\ b \in Nat \ {0} /\ p \in Nat /\ c \in Nat /\ (c = 0 \/ c > b)
      /\ step \in Nat /\ pending \subseteq Targets /\ requests \in [Cells -> SUBSET Targets]
  BY <1>1, <1>2, <1>3, SoarConstants DEF SoarInv, SoarTypes
<1>5. /\ rows \in Seq(Soar!Records) /\ RowsIn(rows, c, p)
      /\ Holds(rows, list, 0) /\ \E j \in 1..Len(rows) : rows[j] = r
  <2>1. RowsIn(list, r.book, r.pass) /\ (c = 0 \/ c > r.book)
    BY <1>3, <1>4
  <2>2. /\ Append(list, r) \in Seq(Soar!Records) /\ RowsIn(Append(list, r), c, r.pass)
        /\ Holds(Append(list, r), list, 0)
        /\ \E j \in 1..Len(Append(list, r)) : Append(list, r)[j] = r
    BY ONLY <1>3, <1>4, <2>1, RowsAdded
  <2> QED
    BY <1>2, <1>3, <2>2
<1>6. <<b, p>> \in Cells /\ CellIs(b, p) = "current" /\ requests[<<b, p>>] = {}
  <2>1. <<b, p>> \in Cells
    BY <1>3 DEF Cells
  <2>2. CellIs(b, p) = "current"
    BY <1>1, <1>3, <1>4 DEF CellIs
  <2> QED
    BY <1>3, <2>1, <2>2 DEF SoarInv, CellsTold, CellTold
<1>7. /\ requests' \in [Cells -> SUBSET Targets] /\ requests'[<<b, p>>] = pending
      /\ \A cell \in Cells : cell # <<b, p>> => requests'[cell] = requests[cell]
  BY <1>2, <1>4, <1>6
<1>8. ASSUME NEW d \in Soar!Books, NEW q \in 1..MaxPasses
      PROVE  CellTold(runs, d, q, requests[<<d, q>>], out[<<d, q>>], gone[d], Excused(d), CellIs(d, q))'
  <2>1. PICK asks, now, sent, deleted, excused, where, after :
          /\ asks = requests[<<d, q>>] /\ now = requests'[<<d, q>>] /\ sent = out[<<d, q>>]
          /\ deleted = gone[d] /\ excused = Excused(d)
          /\ where = CellIs(d, q) /\ after = CellIs(d, q)'
    OBVIOUS
  <2>2. CellTold(list, d, q, asks, sent, deleted, excused, where) /\ Excused(d)' = excused
    BY <1>1, <1>2, <2>1 DEF SoarInv, CellsTold, Excused, Soar!Creates
  <2>3. d \in Nat /\ d # 0 /\ q \in Nat
    BY SoarConstants, <1>4
  <2>4. CASE d = b /\ q = p
    <3>1. Asked(rows, b, p, pending) /\ Ran(rows, b, p, sent, Sends)
      BY <1>3, <1>5, <2>1, <2>4 DEF Ran, Asked
    <3>2. now = pending /\ deleted = Soar!Stays /\ ~(q > deleted)
      BY <1>3, <1>4, <1>7, <2>1, <2>4, SoarConstants
    <3>3. after = "past"
      BY <1>1, <1>2, <1>3, <1>4, <2>1, <2>3, <2>4 DEF CellIs
    <3>4. CellTold(rows, d, q, now, sent, deleted, excused, after)
      BY <2>4, <3>1, <3>2, <3>3 DEF CellTold
    <3> QED
      BY <1>1, <1>2, <2>1, <2>2, <3>4
  <2>5. CASE ~(d = b /\ q = p)
    <3>1. now = asks
      <4>1. <<d, q>> \in Cells /\ <<d, q>> # <<b, p>>
        BY <2>5 DEF Cells
      <4> QED
        BY <1>7, <2>1, <4>1
    <3>2. after = where \/ where = "ahead"
      BY <1>1, <1>2, <1>3, <1>4, <2>1, <2>3, <2>5 DEF CellIs
    <3>3. CellTold(list, d, q, asks, sent, deleted, excused, after)
      BY ONLY <2>2, <3>2, CellMoves
    <3>4. CellTold(rows, d, q, asks, sent, deleted, excused, after)
      BY ONLY <1>5, <2>3, <3>3, CellStays
    <3> QED
      BY <1>1, <1>2, <2>1, <2>2, <3>1, <3>4
  <2> QED
    BY <2>4, <2>5
<1>9. CellsTold'
  BY <1>8 DEF CellsTold
<1>10. OpenRun'
  <2>1. pass >= 1 /\ step' = 0
    BY <1>1, <1>2, <1>3
  <2>2. broken' = FALSE
    <3>1. broken \in BOOLEAN
      BY DEF SoarInv, SoarTypes
    <3> QED
      BY <1>2, <3>1, Zenon
  <2>3. \A d \in there' : gone'[d] = Soar!Stays
    BY <1>2 DEF SoarInv, OpenRun
  <2> QED
    BY <1>2, <2>1, <2>2, <2>3 DEF OpenRun
<1>11. SoarTypes'
  BY <1>1, <1>2, <1>4, <1>5, <1>7 DEF SoarInv, SoarTypes
<1> QED
  BY <1>1, <1>2, <1>5, <1>9, <1>10, <1>11 DEF SoarInv

\* The API adds, switches or asks for a playbook, or decides an approval: nothing that has
\* run changes.
LEMMA EditKeeps ==
    ASSUME SoarInv,
           \/ \E b \in Soar!Books :
                Soar!CreatePlaybook(b) \/ Soar!UpdatePlaybook(b) \/ Soar!RunPlaybook(b)
           \/ \E t \in Targets : Soar!AskElsewhere(t) \/ Soar!Grant(t) \/ Soar!Lapse(t)
           \/ UNCHANGED Soar!vars
    PROVE  SoarInv'
<1> USE DEF Soar!CreatePlaybook, Soar!UpdatePlaybook, Soar!RunPlaybook, Soar!AskElsewhere,
            Soar!Grant, Soar!Lapse, Soar!vars, Soar!table
<1>1. /\ gone' = gone /\ runs' = runs /\ pass' = pass /\ book' = book /\ step' = step
      /\ broken' = broken /\ status' = status /\ pending' = pending /\ requests' = requests
      /\ out' = out /\ soarFaults' = soarFaults
  BY DEF Soar!running, Soar!approvals
<1>2. /\ there \subseteq there' /\ there' \subseteq Soar!Books /\ active' \subseteq there'
      /\ \A d \in there' : gone[d] = Soar!Stays
  BY DEF SoarInv, SoarTypes, OpenRun
<1>3. \A d : Excused(d)' = Excused(d)
  BY <1>1 DEF Excused, Soar!Creates
<1>4. OpenRun'
  BY <1>1, <1>2, <1>3 DEF SoarInv, OpenRun
<1>5. CellsTold' /\ RowsIn(runs, book, pass)'
  <2>1. \A d, p : CellIs(d, p)' = CellIs(d, p)
    BY <1>1 DEF CellIs
  <2> QED
    BY <1>1, <1>3, <2>1 DEF SoarInv, CellsTold
<1>6. SoarTypes'
  BY <1>1, <1>2 DEF SoarInv, SoarTypes
<1> QED
  BY <1>4, <1>5, <1>6 DEF SoarInv

\* A playbook goes with its rows; what is ahead of the pass is empty.
LEMMA DeleteKeeps == ASSUME SoarInv, NEW c \in Soar!Books, Soar!DeletePlaybook(c) PROVE SoarInv'
<1>1. /\ pass' = pass /\ book' = book /\ step' = step
      /\ broken' = broken /\ status' = status /\ pending' = pending /\ requests' = requests
      /\ out' = out /\ soarFaults' = soarFaults
      /\ there' = there \ {c} /\ active' = active \ {c} /\ ~(book = c /\ step > 0)
      /\ gone' = [gone EXCEPT ![c] = pass]
      /\ runs' = Soar!Kept(runs, {i \in DOMAIN runs : runs[i].book # c})
  BY DEF Soar!DeletePlaybook, Soar!running
<1>2. PICK list, rows, b, p : list = runs /\ rows = runs' /\ b = book /\ p = pass
  OBVIOUS
<1>3. list \in Seq(Soar!Records) /\ RowsIn(list, b, p)
  BY <1>2 DEF SoarInv, SoarTypes
<1>4. /\ rows \in Seq(Soar!Records) /\ RowsIn(rows, b, p)
      /\ Holds(rows, list, c)
  <2>1. rows = Others(list, c)
    BY <1>1, <1>2 DEF Others
  <2> QED
    BY ONLY <1>3, <2>1, RowsTaken
<1>5. /\ MaxPasses \in Nat /\ Soar!Stays = MaxPasses + 1 /\ p \in 0..MaxPasses
      /\ gone \in [Soar!Books -> 0..Soar!Stays]
  BY <1>2, SoarConstants DEF SoarInv, SoarTypes
<1>6. /\ gone' \in [Soar!Books -> 0..Soar!Stays] /\ gone'[c] = p
      /\ \A d \in Soar!Books : d # c => gone'[d] = gone[d]
  BY <1>1, <1>2, <1>5
<1>7. \A d : Excused(d)' = Excused(d)
  BY <1>1 DEF Excused, Soar!Creates
<1>8. ASSUME NEW d \in Soar!Books, NEW q \in 1..MaxPasses
      PROVE  CellTold(runs, d, q, requests[<<d, q>>], out[<<d, q>>], gone[d], Excused(d), CellIs(d, q))'
  <2>1. PICK asks, sent, deleted, excused, where :
          /\ asks = requests[<<d, q>>] /\ sent = out[<<d, q>>]
          /\ deleted = gone[d] /\ excused = Excused(d) /\ where = CellIs(d, q)
    OBVIOUS
  <2>2. CellTold(list, d, q, asks, sent, deleted, excused, where)
    BY <1>2, <2>1 DEF SoarInv, CellsTold
  <2>3. CellIs(d, q)' = where /\ Excused(d)' = excused
    <3>1. CellIs(d, q)' = CellIs(d, q)
      BY <1>1 DEF CellIs
    <3> QED
      BY <1>7, <2>1, <3>1
  <2>4. CASE d = c
    <3>1. q > p => where = "ahead"
      BY <1>2, <2>1 DEF CellIs
    <3>2. p # Soar!Stays
      BY <1>5
    <3>3. CellTold(rows, d, q, asks, sent, p, excused, where)
      BY <2>2, <3>1, <3>2 DEF CellTold
    <3> QED
      BY <1>1, <1>2, <1>6, <2>1, <2>3, <2>4, <3>3
  <2>5. CASE d # c
    <3>1. CellTold(rows, d, q, asks, sent, deleted, excused, where)
      BY ONLY <1>4, <2>2, <2>5, CellStays
    <3> QED
      BY <1>1, <1>2, <1>6, <2>1, <2>3, <2>5, <3>1
  <2> QED
    BY <2>4, <2>5
<1>9. CellsTold'
  BY <1>8 DEF CellsTold
<1>10. OpenRun'
  <2>1. \A d \in there' : gone'[d] = Soar!Stays
    BY <1>1, <1>6 DEF SoarInv, SoarTypes, OpenRun
  <2>2. step > 0 => book \in there'
    BY <1>1 DEF SoarInv, OpenRun
  <2> QED
    BY <1>1, <1>7, <2>1, <2>2 DEF SoarInv, OpenRun
<1>11. SoarTypes'
  BY <1>1, <1>2, <1>4, <1>6 DEF SoarInv, SoarTypes
<1> QED
  BY <1>1, <1>2, <1>4, <1>9, <1>10, <1>11 DEF SoarInv

LEMMA SoarInvStep == SoarInv /\ [Soar!Next]_(Soar!vars) => SoarInv'
<1> SUFFICES ASSUME SoarInv, [Soar!Next]_(Soar!vars) PROVE SoarInv'
  OBVIOUS
<1>1. CASE Soar!StartPass \/ Soar!Skip \/ Soar!Begin \/ Soar!BeginFails
  BY <1>1, PassMoves
<1>2. CASE Acted
  BY <1>2, ActKeeps
<1>3. CASE Soar!CommitRun
  BY <1>3, CommitKeeps, PassEnds, Zenon
<1>4. CASE Soar!Abort
  BY <1>4, PassEnds
<1>5. ASSUME NEW b \in Soar!Books,
             \/ Soar!CreatePlaybook(b) \/ Soar!UpdatePlaybook(b) \/ Soar!DeletePlaybook(b)
             \/ Soar!RunPlaybook(b)
      PROVE  SoarInv'
  BY <1>5, EditKeeps, DeleteKeeps
<1>6. ASSUME NEW t \in Targets, Soar!AskElsewhere(t) \/ Soar!Grant(t) \/ Soar!Lapse(t)
      PROVE  SoarInv'
  BY <1>6, EditKeeps
<1>7. CASE UNCHANGED Soar!vars
  BY <1>7, EditKeeps
<1> QED
  BY <1>1, <1>2, <1>3, <1>4, <1>5, <1>6, <1>7 DEF Soar!Next, Acted

THEOREM SoarInvHolds == Soar!Spec => []SoarInv
BY SoarInvInit, SoarInvStep, PTL DEF Soar!Spec

\* An approval that is open or granted was asked for, by others or by a run that is
\* committed, and so was each containment.
AskedFor(t) == t \in elsewhere \/ \E c \in Cells : t \in requests[c]
Approved ==
  /\ \A t \in granted \cup open : AskedFor(t)
  /\ acted \in [Cells -> SUBSET Targets]
  /\ \A r \in Cells : \A t \in acted[r] :
       t \in elsewhere \/ \E q \in Cells : Soar!Before(q, r) /\ t \in requests[q]

\* More requests are committed, and with them more is open or granted.
LEMMA ApprovedGrows ==
    ASSUME Approved, acted' = acted, elsewhere \subseteq elsewhere',
           \A c \in Cells : requests[c] \subseteq requests'[c],
           \A t \in granted' \cup open' : t \in granted \cup open \/ AskedFor(t)'
    PROVE  Approved'
<1>1. \A t : AskedFor(t) => AskedFor(t)'
  BY DEF AskedFor
<1>2. \A r \in Cells : \A t \in acted[r] :
        t \in elsewhere' \/ \E q \in Cells : Soar!Before(q, r) /\ t \in requests'[q]
  BY DEF Approved
<1>3. \A t \in granted' \cup open' : AskedFor(t)'
  BY <1>1 DEF Approved
<1>4. \A r \in Cells : \A t \in acted[r] :
        (t \in elsewhere \/ \E q \in Cells : Soar!Before(q, r) /\ t \in requests[q])'
  BY <1>2 DEF Soar!Before
<1> QED
  BY <1>3, <1>4 DEF Approved

\* A target is contained when an approval is found, and the runs that asked are past.
LEMMA ApprovedContain == ASSUME SoarInv, Approved, Soar!Contain PROVE Approved'
<1>1. /\ requests' = requests /\ elsewhere' = elsewhere /\ open' = open /\ granted' = granted
      /\ step > 0 /\ step <= Len(Soar!Actions(book))
  BY ActEffect DEF Acted
<1>2. PICK b, p, arg : b = book /\ p = pass /\ arg = Soar!Actions(book)[step].arg
  OBVIOUS
<1>3. /\ b \in Soar!Books /\ p \in 1..MaxPasses /\ <<b, p>> \in Cells /\ step \in Nat /\ b # 0
      /\ b \in Nat /\ p \in Nat
  BY <1>1, <1>2, SoarConstants DEF SoarInv, SoarTypes, OpenRun, Cells
<1>4. arg \in Targets
  <2>1. Soar!Actions(b)[step].type = "contain" /\ step \in 1..Len(Soar!Actions(b))
    BY <1>1, <1>2, <1>3, SoarConstants DEF Soar!Contain, Soar!Acts, Soar!Act
  <2> QED
    BY <1>2, <1>3, <2>1, ArgsTyped
<1>5. arg \in granted /\ acted' \in {acted, [acted EXCEPT ![<<b, p>>] = acted[<<b, p>>] \cup {arg}]}
  BY <1>2 DEF Soar!Contain, Soar!Act
<1>6. arg \in elsewhere \/ \E q \in Cells : Soar!Before(q, <<b, p>>) /\ arg \in requests[q]
  <2>1. AskedFor(arg)
    BY <1>5 DEF Approved
  <2>2. ASSUME NEW c \in Cells, arg \in requests[c] PROVE Soar!Before(c, <<b, p>>)
    <3>1. PICK d \in Soar!Books, q \in 1..MaxPasses : c = <<d, q>>
      BY DEF Cells
    <3>2. CellIs(d, q) = "past"
      <4>1. CellTold(runs, d, q, requests[<<d, q>>], out[<<d, q>>], gone[d], Excused(d), CellIs(d, q))
        BY DEF SoarInv, CellsTold
      <4> QED
        BY <2>2, <3>1, <4>1 DEF CellTold
    <3>3. d \in Nat /\ q \in Nat
      BY SoarConstants
    <3>4. q < p \/ (q = p /\ d < b)
      BY <1>1, <1>2, <1>3, <3>2, <3>3 DEF CellIs
    <3> QED
      BY <3>1, <3>4 DEF Soar!Before
  <2> QED
    BY <2>1, <2>2 DEF AskedFor
<1>7. acted' \in [Cells -> SUBSET Targets]
  BY <1>3, <1>4, <1>5 DEF Approved
<1>8. ASSUME NEW r \in Cells, NEW t \in acted'[r]
      PROVE  t \in elsewhere \/ \E q \in Cells : Soar!Before(q, r) /\ t \in requests[q]
  <2>1. t \in acted[r] \/ (r = <<b, p>> /\ t = arg)
    BY <1>3, <1>5 DEF Approved
  <2> QED
    BY <1>6, <2>1 DEF Approved
<1>9. \A t \in granted' \cup open' : AskedFor(t)'
  BY <1>1 DEF Approved, AskedFor
<1>10. \A r \in Cells : \A t \in acted'[r] :
         (t \in elsewhere \/ \E q \in Cells : Soar!Before(q, r) /\ t \in requests[q])'
  BY <1>1, <1>8 DEF Soar!Before
<1> QED
  BY <1>7, <1>9, <1>10 DEF Approved

LEMMA ApprovedInit == Soar!Init => Approved
<1> SUFFICES ASSUME Soar!Init PROVE Approved
  OBVIOUS
<1>1. granted = {} /\ open = {} /\ acted = [c \in Cells |-> {}]
  BY DEF Soar!Init, Soar!Passes, Cells
<1> QED
  BY <1>1 DEF Approved

LEMMA ApprovedStep == SoarInv /\ Approved /\ [Soar!Next]_(Soar!vars) => Approved'
<1> SUFFICES ASSUME SoarInv, Approved, [Soar!Next]_(Soar!vars) PROVE Approved'
  OBVIOUS
<1>1. CASE Soar!Contain
  BY <1>1, ApprovedContain
<1>2. CASE UNCHANGED <<acted, requests, elsewhere, open, granted>>
  BY <1>2, ApprovedGrows
<1>3. CASE Soar!CommitRun
  <2>1. CASE broken
    BY <1>2, <1>3, <2>1 DEF Soar!CommitRun
  <2>2. CASE ~broken
    <3>1. PICK c : c = <<book, pass>>
      OBVIOUS
    <3>2. /\ acted' = acted /\ elsewhere' = elsewhere /\ granted' = granted
          /\ open' = open \cup pending
          /\ requests' = [requests EXCEPT ![c] = requests[c] \cup pending]
      BY <1>3, <2>2, <3>1 DEF Soar!CommitRun, Soar!Requested
    <3>3. c \in Cells /\ requests \in [Cells -> SUBSET Targets]
      BY <1>3, <2>2, <3>1, RecordTold DEF Cells, SoarInv, SoarTypes
    <3>4. requests'[c] = requests[c] \cup pending /\ \A d \in Cells : requests[d] \subseteq requests'[d]
      BY <3>2, <3>3
    <3>5. \A t \in pending : AskedFor(t)'
      BY <3>3, <3>4 DEF AskedFor
    <3> QED
      BY <3>2, <3>4, <3>5, ApprovedGrows
  <2> QED
    BY <2>1, <2>2
<1>4. ASSUME NEW t \in Targets, Soar!AskElsewhere(t) \/ Soar!Grant(t) \/ Soar!Lapse(t)
      PROVE  Approved'
  <2>1. acted' = acted /\ requests' = requests /\ elsewhere \subseteq elsewhere'
    BY <1>4 DEF Soar!AskElsewhere, Soar!Grant, Soar!Lapse, Soar!running
  <2>2. \A s \in granted' \cup open' : s \in granted \cup open \/ s \in elsewhere'
    BY <1>4 DEF Soar!AskElsewhere, Soar!Grant, Soar!Lapse
  <2>3. \A s \in granted' \cup open' : s \in granted \cup open \/ AskedFor(s)'
    BY <2>2 DEF AskedFor
  <2> QED
    BY <2>1, <2>3, ApprovedGrows
<1>5. ASSUME NEW b \in Soar!Books,
             \/ Soar!CreatePlaybook(b) \/ Soar!UpdatePlaybook(b) \/ Soar!DeletePlaybook(b)
             \/ Soar!RunPlaybook(b)
      PROVE  Approved'
  BY <1>2, <1>5 DEF Soar!CreatePlaybook, Soar!UpdatePlaybook, Soar!DeletePlaybook, Soar!RunPlaybook,
                    Soar!running, Soar!reviews
<1>6. CASE Soar!StartPass \/ Soar!Skip \/ Soar!Begin \/ Soar!BeginFails \/ Soar!Abort
  BY <1>2, <1>6 DEF Soar!StartPass, Soar!Skip, Soar!Begin, Soar!BeginFails, Soar!Abort, Soar!approvals
<1>7. CASE Acted /\ ~Soar!Contain
  BY <1>2, <1>7, ActEffect DEF Acted, Soar!CreateCase, Soar!Send, Soar!SetSeverity, Soar!Refuse,
                           Soar!AskApproval, Soar!GuardFails
<1>8. CASE UNCHANGED Soar!vars
  BY <1>2, <1>8 DEF Soar!vars, Soar!approvals
<1> QED
  BY <1>1, <1>3, <1>4, <1>5, <1>6, <1>7, <1>8 DEF Soar!Next, Acted

THEOREM ApprovedHolds == Soar!Spec => []Approved
BY SoarInvHolds, ApprovedInit, ApprovedStep, PTL DEF Soar!Spec

\* A cell has one row, so that what it executed is what that row says.
LEMMA RowExecuted ==
    ASSUME SoarInv, NEW b, NEW p, NEW i \in 1..Len(runs), runs[i].book = b, runs[i].pass = p
    PROVE  Soar!Executed(b, p) = runs[i].done
<1>1. PICK list : list = runs
  OBVIOUS
<1>2. /\ list \in Seq(Soar!Records) /\ Len(list) \in Nat
      /\ \A k, j \in 1..Len(list) : k < j => Precedes(list[k], list[j])
      /\ i \in 1..Len(list) /\ list[i].book = b /\ list[i].pass = p
  BY <1>1 DEF SoarInv, SoarTypes, RowsIn
<1>3. \A r \in Soar!Records : r.book \in Nat /\ r.pass \in Nat
  BY SoarConstants DEF Soar!Records
<1>4. b \in Nat /\ p \in Nat
  BY <1>2, <1>3
<1>5. ASSUME NEW j \in 1..Len(list), list[j].book = b, list[j].pass = p PROVE j = i
  <2>1. ASSUME NEW k \in 1..Len(list), NEW l \in 1..Len(list), k < l,
               list[k].book = b, list[k].pass = p, list[l].book = b, list[l].pass = p
        PROVE  FALSE
    <3>1. Precedes(list[k], list[l])
      BY <1>2, <2>1
    <3>2. p < p \/ b < b
      BY <2>1, <3>1 DEF Precedes
    <3> QED
      BY <1>4, <3>2
  <2>2. ~(i < j) /\ ~(j < i)
    BY <1>2, <1>5, <2>1
  <2> QED
    BY <2>2
<1>6. PICK done : done = {j \in 1..Len(list) : list[j].book = b /\ list[j].pass = p}
  OBVIOUS
<1>7. done = {i}
  BY <1>2, <1>5, <1>6
<1>8. (CHOOSE j \in done : TRUE) = i
  BY <1>7
<1> QED
  BY <1>1, <1>6, <1>7, <1>8 DEF Soar!Executed

LEMMA ExecutedIsNat == ASSUME SoarInv, NEW b, NEW p PROVE Soar!Executed(b, p) \in Nat
<1>1. CASE \E i \in 1..Len(runs) : runs[i].book = b /\ runs[i].pass = p
  <2>1. PICK i \in 1..Len(runs) : runs[i].book = b /\ runs[i].pass = p
    BY <1>1
  <2>2. runs[i] \in Soar!Records
    BY DEF SoarInv, SoarTypes
  <2> QED
    BY <2>1, <2>2, RowExecuted DEF Soar!Records
<1>2. CASE ~\E i \in 1..Len(runs) : runs[i].book = b /\ runs[i].pass = p
  <2>1. {j \in 1..Len(runs) : runs[j].book = b /\ runs[j].pass = p} = {}
    BY <1>2
  <2> QED
    BY <2>1 DEF Soar!Executed
<1> QED
  BY <1>1, <1>2

\* What the committed rows say of the playbooks is what they did, for any playbooks and any
\* number of passes, faults and requests (engine.py:71-122, handlers.py:183-262,
\* playbooks.py:147-163).
THEOREM PlaybooksTold == Soar!Spec => []PlaybooksTellTruth
<1>1. SoarInv /\ Approved => Soar!PlaybooksTellTruth
  <2> SUFFICES ASSUME SoarInv, Approved PROVE Soar!PlaybooksTellTruth
    OBVIOUS
  <2>1. ASSUME NEW b \in Soar!Books, NEW p \in 1..MaxPasses
        PROVE  /\ gone[b] = Soar!Stays => requests[<<b, p>>] \subseteq Soar!Contains(b, Soar!Executed(b, p))
               /\ p > gone[b] => requests[<<b, p>>] = {} /\ out[<<b, p>>] = 0
               /\ out[<<b, p>>] > Soar!Hits(b, Soar!Executed(b, p), Sends)
                    => Excused(b) \/ gone[b] # Soar!Stays \/ (b = book /\ p = pass)
    <3>1. out[<<b, p>>] \in Nat
      <4>1. <<b, p>> \in Cells
        BY DEF Cells
      <4> QED
        BY <4>1 DEF SoarInv, SoarTypes
    <3>2. CellTold(runs, b, p, requests[<<b, p>>], out[<<b, p>>], gone[b], Excused(b), CellIs(b, p))
      BY DEF SoarInv, CellsTold
    <3>3. PICK n, h, sent : n = Soar!Executed(b, p) /\ h = Soar!Hits(b, n, Sends) /\ sent = out[<<b, p>>]
      OBVIOUS
    <3>4. n \in Nat /\ h \in Nat /\ sent \in Nat
      BY <3>1, <3>3, ExecutedIsNat, HitsGrow
    <3>5. gone[b] = Soar!Stays => requests[<<b, p>>] \subseteq Soar!Contains(b, n)
      BY <3>2, <3>3, RowExecuted DEF CellTold, Asked
    <3>6. p > gone[b] => requests[<<b, p>>] = {} /\ out[<<b, p>>] = 0
      BY <3>2 DEF CellTold
    <3>7. CellIs(b, p) = "current" => b = book /\ p = pass
      BY DEF CellIs
    <3>8. Ran(runs, b, p, sent, Sends) => sent <= h
      BY <3>3, RowExecuted DEF Ran
    <3>9. ASSUME sent > h, ~Excused(b), gone[b] = Soar!Stays PROVE b = book /\ p = pass
      <4>1. sent > 0 /\ ~Ran(runs, b, p, sent, Sends)
        BY <3>4, <3>8, <3>9
      <4> QED
        BY <3>2, <3>3, <3>7, <3>9, <4>1 DEF CellTold
    <3> QED
      BY <3>3, <3>5, <3>6, <3>9
  <2>2. Soar!RequestsHaveRuns
    BY <2>1 DEF Soar!RequestsHaveRuns, Approved, Soar!Passes, Cells
  <2>3. Soar!RunsTellTruth
    BY DEF SoarInv, RowsIn, Truthful, Spared, Soar!RunsTellTruth
  <2>4. Soar!OncePerPass
    <3>1. \A i, j \in 1..Len(runs) : i < j => Precedes(runs[i], runs[j])
      BY DEF SoarInv, RowsIn
    <3> QED
      BY <2>1, <3>1 DEF Soar!OncePerPass, Sends, Precedes, Excused
  <2> QED
    BY <2>2, <2>3, <2>4 DEF Soar!PlaybooksTellTruth
<1> QED
  BY <1>1, SoarInvHolds, ApprovedHolds, PTL DEF PlaybooksTellTruth
=============================================================================

---------------------------- MODULE Outbound_proofs ----------------------------
(***************************************************************************)
(* Theorems about the components of Outbound, each about the specification *)
(* of one component, for every value of its constants.                     *)
(***************************************************************************)
EXTENDS Outbound, FiniteSetTheorems, SequenceTheorems, TLAPS

-----------------------------------------------------------------------------
(***************************************************************************)
(* The circuit breaker: for any threshold and any number of overlapping    *)
(* calls, only an unbroken streak of failures refuses calls.               *)
(***************************************************************************)
\* _register_failure: the count goes up to the threshold and no further, and
\* reaching the threshold stamps opened_at.
LEMMA FailureCounts ==
    ASSUME NEW b \in BreakerState, b.opened <=> b.failures = BreakerThreshold
    PROVE  /\ AfterFailure(b) \in BreakerState
           /\ AfterFailure(b).failures = IF b.failures < BreakerThreshold THEN b.failures + 1
                                                                          ELSE b.failures
           /\ AfterFailure(b).opened <=> AfterFailure(b).failures = BreakerThreshold
           /\ AfterFailure(b).cooled = b.cooled
           /\ b.opened => AfterFailure(b).opened
<1> USE BreakerThresholdAssumption
<1>1. b.failures \in 0 .. BreakerThreshold /\ b.opened \in BOOLEAN /\ b.cooled \in BOOLEAN
  BY DEF BreakerState
<1>2. BreakerThreshold \in 0 .. BreakerThreshold
  OBVIOUS
<1>3. CASE b.failures + 1 >= BreakerThreshold
  <2>1. AfterFailure(b) = [b EXCEPT !.failures = BreakerThreshold, !.opened = TRUE]
    BY <1>3 DEF AfterFailure
  <2>2. AfterFailure(b) = [failures |-> BreakerThreshold, opened |-> TRUE, cooled |-> b.cooled]
    BY <2>1 DEF BreakerState
  <2>3. BreakerThreshold = IF b.failures < BreakerThreshold THEN b.failures + 1 ELSE b.failures
    BY <1>1, <1>3
  <2> QED
    BY <2>2, <2>3, <1>1, <1>2 DEF BreakerState
<1>4. CASE ~(b.failures + 1 >= BreakerThreshold)
  <2>1. AfterFailure(b) = [b EXCEPT !.failures = b.failures + 1, !.opened = b.opened]
    BY <1>4 DEF AfterFailure
  <2>2. AfterFailure(b) = [failures |-> b.failures + 1, opened |-> b.opened, cooled |-> b.cooled]
    BY <2>1 DEF BreakerState
  <2>3. b.failures + 1 \in 0 .. BreakerThreshold /\ b.failures + 1 # BreakerThreshold
        /\ b.failures # BreakerThreshold
    BY <1>1, <1>4
  <2>4. ~b.opened
    BY <2>3
  <2>5. b.failures < BreakerThreshold
    BY <1>1, <1>4
  <2> QED
    BY <2>2, <2>3, <2>4, <2>5, <1>1 DEF BreakerState
<1> QED
  BY <1>3, <1>4

LEMMA BreakerStep ==
    ASSUME BreakerInv, [Next]_vars PROVE BreakerInv'
<1> USE BreakerThresholdAssumption DEF BreakerInv, TypeOK
<1>1. ASSUME NEW c \in Callers, Enter(c) PROVE BreakerInv'
  BY <1>1 DEF Enter
<1>2. ASSUME NEW c \in Callers, Succeed(c) PROVE BreakerInv'
  BY <1>2 DEF Succeed, FreshBreaker, BreakerState
<1>3. ASSUME NEW c \in Callers, Fail(c) PROVE BreakerInv'
  <2>1. streak' \in 0 .. BreakerThreshold
    BY <1>3 DEF Fail
  <2>2. breaker'.failures = streak'
    BY <1>3, FailureCounts DEF Fail
  <2>3. /\ breaker' \in BreakerState
        /\ breaker'.opened <=> breaker'.failures = BreakerThreshold
        /\ breaker'.cooled => breaker'.opened
    BY <1>3, FailureCounts DEF Fail
  <2> QED
    BY <1>3, <2>1, <2>2, <2>3 DEF Fail
<1>4. CASE Cool
  <2>1. breaker' = [failures |-> breaker.failures, opened |-> breaker.opened, cooled |-> TRUE]
    BY <1>4 DEF Cool, AfterCooling, BreakerState
  <2>2. breaker.opened
    BY <1>4 DEF Cool, CanCool
  <2>3. breaker' \in BreakerState
    BY <2>1 DEF BreakerState
  <2> QED
    BY <1>4, <2>1, <2>2, <2>3 DEF Cool
<1>5. CASE Flip
  BY <1>5 DEF Flip
<1>6. CASE UNCHANGED vars
  BY <1>6 DEF vars
<1> QED
  BY <1>1, <1>2, <1>3, <1>4, <1>5, <1>6 DEF Next

\* For any threshold, any number of overlapping calls and any order of their
\* returns, calls are refused only after failure_threshold failures with no
\* success in between, and then opened_at is set.
THEOREM RefusalsNeedStreak == Spec => []OpenOnlyOnStreak
<1> USE BreakerThresholdAssumption
<1>1. Init => BreakerInv
  BY DEF Init, BreakerInv, TypeOK, FreshBreaker, BreakerState
<1>2. BreakerInv /\ [Next]_vars => BreakerInv'
  BY BreakerStep
<1>3. BreakerInv => OpenOnlyOnStreak
  <2> SUFFICES ASSUME BreakerInv, ~Admits(breaker) PROVE OpenOnlyOnStreak
    BY DEF OpenOnlyOnStreak
  <2>1. breaker.failures \in 0 .. BreakerThreshold /\ ~(breaker.failures < BreakerThreshold)
    BY DEF BreakerInv, TypeOK, Admits, BreakerState
  <2>2. breaker.failures = BreakerThreshold
    BY <2>1
  <2> QED
    BY <2>2 DEF BreakerInv, OpenOnlyOnStreak
<1> QED
  BY <1>1, <1>2, <1>3, PTL DEF Spec
-----------------------------------------------------------------------------
(***************************************************************************)
(* Tickets.  A pair's remote tickets are the links it has, the tickets of  *)
(* cycles in flight, and what rolled back cycles left behind.              *)
(***************************************************************************)
(* The workers whose cycle has created a ticket of p and not committed its link. *)
InFlight(p) == {w \in Syncers : T!Added(w, p) # {}}

(* A link is a ticket the remote has; a cycle adds one per pair, of its own. *)
TicketRows(p) ==
  /\ \A t \in links[p] : t <= remote[p]
  /\ \A w \in Syncers : \A t \in T!Added(w, p) : t <= remote[p] /\ t \notin links[p]
  /\ \A w, v \in Syncers : \A t \in T!Added(w, p), u \in T!Added(v, p) : w = v <=> t = u

TicketCounts(p) ==
  /\ Cardinality(links[p]) + Cardinality(InFlight(p)) <= Cardinality(Syncers)
  /\ remote[p] <= Cardinality(links[p]) + Cardinality(InFlight(p)) + aborted

TicketInv ==
  /\ T!TypeOK
  /\ \A w \in Syncers : ~cycle[w].on => cycle[w].todo = {} /\ cycle[w].added = {}
  /\ \A p \in T!Pairs : TicketRows(p) /\ TicketCounts(p)

\* The counts of the instance are those of the library theorems.
LEMMA TicketCardinality ==
    ASSUME NEW Els
    PROVE  T!Cardinality(Els) = Cardinality(Els) /\ (T!IsFiniteSet(Els) <=> IsFiniteSet(Els))
BY Zenon DEF T!Cardinality, Cardinality, T!IsFiniteSet, IsFiniteSet

\* What is counted is finite, and there is no more in flight than workers.
LEMMA TicketSetsFinite ==
    ASSUME T!TicketingAssumption, T!TypeOK, NEW p \in T!Pairs
    PROVE  /\ IsFiniteSet(links[p]) /\ IsFiniteSet(InFlight(p)) /\ IsFiniteSet(Syncers)
           /\ Cardinality(links[p]) \in Nat /\ Cardinality(InFlight(p)) \in Nat
           /\ Cardinality(Syncers) \in Nat
           /\ Cardinality(InFlight(p)) <= Cardinality(Syncers)
           /\ remote[p] \in Nat /\ aborted \in Nat
<1>1. IsFiniteSet(Syncers)
  BY TicketCardinality DEF T!TicketingAssumption
<1>2. IsFiniteSet(InFlight(p)) /\ Cardinality(InFlight(p)) <= Cardinality(Syncers)
  BY <1>1, FS_Subset DEF InFlight
<1>3. IsFiniteSet(1 .. MaxTickets)
  BY FS_Interval DEF T!TicketingAssumption
<1>4. links[p] \subseteq 1 .. MaxTickets
  BY DEF T!TypeOK, T!Links, T!Tickets
<1>5. IsFiniteSet(links[p])
  BY <1>3, <1>4, FS_Subset
<1>6. remote[p] \in Nat /\ aborted \in Nat
  BY DEF T!TypeOK, T!TicketingAssumption
<1> QED
  BY <1>1, <1>2, <1>5, <1>6, FS_CardinalityType

\* A pair that the step leaves alone.
LEMMA PairKept ==
    ASSUME NEW p \in T!Pairs, TicketRows(p), TicketCounts(p),
           links'[p] = links[p], remote'[p] = remote[p], aborted' = aborted,
           \A w \in Syncers : T!Added(w, p)' = T!Added(w, p)
    PROVE  TicketRows(p)' /\ TicketCounts(p)'
<1>1. InFlight(p)' = InFlight(p)
  BY DEF InFlight
<1>2. TicketRows(p)'
  BY DEF TicketRows
<1>3. TicketCounts(p)'
  BY <1>1 DEF TicketCounts
<1> QED
  BY <1>2, <1>3

\* A rollback takes one worker out of flight and is counted; it may leave one more
\* ticket at the remote when that worker had none of its own there.
LEMMA PairRolledBack ==
    ASSUME T!TicketingAssumption, T!TypeOK, NEW p \in T!Pairs, TicketRows(p), TicketCounts(p),
           NEW w \in Syncers, T!Added(w, p)' = {},
           \A v \in Syncers \ {w} : T!Added(v, p)' = T!Added(v, p),
           links'[p] = links[p], aborted' = aborted + 1,
           \/ remote'[p] = remote[p]
           \/ remote'[p] = remote[p] + 1 /\ T!Added(w, p) = {}
    PROVE  TicketRows(p)' /\ TicketCounts(p)'
<1>0. /\ IsFiniteSet(InFlight(p)) /\ Cardinality(InFlight(p)) \in Nat
      /\ Cardinality(links[p]) \in Nat /\ Cardinality(Syncers) \in Nat
      /\ remote[p] \in Nat /\ aborted \in Nat
  BY TicketSetsFinite
<1>1. InFlight(p)' = InFlight(p) \ {w}
  BY DEF InFlight
<1>2. /\ Cardinality(InFlight(p)') \in Nat
      /\ Cardinality(InFlight(p)') = IF w \in InFlight(p) THEN Cardinality(InFlight(p)) - 1
                                                          ELSE Cardinality(InFlight(p))
  BY <1>0, <1>1, FS_RemoveElement, FS_CardinalityType
<1>3. TicketRows(p)'
  <2>1. remote[p] <= remote'[p] /\ remote'[p] \in Nat
    BY <1>0
  <2>2. \A t \in links[p] \cup UNION {T!Added(v, p) : v \in Syncers} : t <= remote[p]
    BY DEF TicketRows
  <2>3. \A t \in links[p] \cup UNION {T!Added(v, p) : v \in Syncers} : t \in Nat
    BY DEF T!TypeOK, T!Links, T!Tickets, T!Added, T!TicketingAssumption
  <2>4. \A t \in links[p] \cup UNION {T!Added(v, p) : v \in Syncers} : t <= remote'[p]
    BY <1>0, <2>1, <2>2, <2>3
  <2> QED
    BY <2>4 DEF TicketRows
<1>4. w \in InFlight(p) => T!Added(w, p) # {}
  BY DEF InFlight
<1>5. TicketCounts(p)'
  BY <1>0, <1>2, <1>4 DEF TicketCounts
<1> QED
  BY <1>3, <1>5

\* A commit turns the tickets in flight of one worker into links.
LEMMA PairCommitted ==
    ASSUME T!TicketingAssumption, T!TypeOK, NEW p \in T!Pairs, TicketRows(p), TicketCounts(p),
           NEW w \in Syncers, T!Added(w, p)' = {},
           \A v \in Syncers \ {w} : T!Added(v, p)' = T!Added(v, p),
           links'[p] = links[p] \cup T!Added(w, p), aborted' = aborted, remote' = remote
    PROVE  TicketRows(p)' /\ TicketCounts(p)'
<1>0. /\ IsFiniteSet(InFlight(p)) /\ Cardinality(InFlight(p)) \in Nat /\ IsFiniteSet(links[p])
      /\ Cardinality(links[p]) \in Nat /\ Cardinality(Syncers) \in Nat
      /\ remote[p] \in Nat /\ aborted \in Nat
  BY TicketSetsFinite
<1>1. InFlight(p)' = InFlight(p) \ {w}
  BY DEF InFlight
<1>2. TicketRows(p)'
  <2>1. \A v \in Syncers \ {w} : \A t \in T!Added(v, p) : t \notin T!Added(w, p)
    BY DEF TicketRows
  <2> QED
    BY <2>1 DEF TicketRows
<1>3. CASE w \in InFlight(p)
  <2>1. PICK t : t \in T!Added(w, p)
    BY <1>3 DEF InFlight
  <2>2. T!Added(w, p) = {t} /\ t \notin links[p]
    BY <2>1 DEF TicketRows
  <2>3. Cardinality(links'[p]) = Cardinality(links[p]) + 1
    <3>1. links'[p] = links[p] \cup {t}
      BY <2>2
    <3> QED
      BY <1>0, <2>2, <3>1, FS_AddElement
  <2>4. Cardinality(InFlight(p)') = Cardinality(InFlight(p)) - 1
    BY <1>0, <1>1, <1>3, FS_RemoveElement
  <2>5. TicketCounts(p)'
    BY <1>0, <2>3, <2>4 DEF TicketCounts
  <2> QED
    BY <1>2, <2>5
<1>4. CASE w \notin InFlight(p)
  <2>1. InFlight(p)' = InFlight(p) /\ links'[p] = links[p]
    BY <1>1, <1>4 DEF InFlight
  <2>2. TicketCounts(p)'
    BY <2>1 DEF TicketCounts
  <2> QED
    BY <1>2, <2>2
<1> QED
  BY <1>3, <1>4

\* A ticket is created for a pair without links, by a worker that has none there.
LEMMA PairCreated ==
    ASSUME T!TicketingAssumption, T!TypeOK, T!TypeOK', NEW p \in T!Pairs,
           TicketRows(p), TicketCounts(p),
           NEW w \in Syncers, links[p] = {}, T!Added(w, p) = {},
           T!Added(w, p)' = {remote[p] + 1},
           \A v \in Syncers \ {w} : T!Added(v, p)' = T!Added(v, p),
           links' = links, aborted' = aborted, remote'[p] = remote[p] + 1
    PROVE  TicketRows(p)' /\ TicketCounts(p)'
<1>0. /\ IsFiniteSet(InFlight(p)) /\ Cardinality(InFlight(p)) \in Nat
      /\ Cardinality(links[p]) \in Nat /\ Cardinality(Syncers) \in Nat
      /\ remote[p] \in Nat /\ aborted \in Nat
  BY TicketSetsFinite
<1>1. InFlight(p)' = InFlight(p) \cup {w} /\ w \notin InFlight(p)
  BY DEF InFlight
<1>2. Cardinality(InFlight(p)') = Cardinality(InFlight(p)) + 1
  BY <1>0, <1>1, FS_AddElement
<1>3. Cardinality(InFlight(p)') <= Cardinality(Syncers) /\ Cardinality(links'[p]) = 0
  <2>1. InFlight(p)' \subseteq Syncers /\ IsFiniteSet(Syncers)
    BY TicketSetsFinite DEF InFlight
  <2> QED
    BY <2>1, FS_Subset, FS_EmptySet
<1>4. TicketRows(p)'
  <2>1. \A v \in Syncers : \A t \in T!Added(v, p) : t \in Nat /\ t <= remote[p]
    BY DEF TicketRows, T!TypeOK, T!Tickets, T!Added, T!TicketingAssumption
  <2>2. \A v \in Syncers \ {w} : \A t \in T!Added(v, p) : t # remote[p] + 1 /\ t <= remote[p] + 1
    BY <1>0, <2>1
  <2> QED
    BY <1>0, <2>2 DEF TicketRows
<1>5. TicketCounts(p)'
  BY <1>0, <1>2, <1>3, FS_EmptySet DEF TicketCounts
<1> QED
  BY <1>4, <1>5

LEMMA TicketTypes ==
    ASSUME T!TicketingAssumption, T!TypeOK, [T!Next]_T!vars
    PROVE  T!TypeOK'
<1> USE DEF T!TypeOK, T!Statuses, T!Pairs, T!Links, T!Tickets, T!TicketingAssumption
<1> DEFINE Rows == [on : BOOLEAN, read : [Cases -> T!Statuses],
                    todo : SUBSET T!Pairs, added : SUBSET (T!Pairs \X T!Tickets)]
<1>0. ASSUME NEW w \in Syncers, NEW row \in Rows, cycle' = [cycle EXCEPT ![w] = row]
      PROVE  cycle' \in [Syncers -> Rows]
  <2>1. cycle \in [Syncers -> Rows]
    OBVIOUS
  <2> HIDE DEF Rows
  <2> QED
    BY <1>0, <2>1
<1>1. CASE \E c \in Cases, s \in T!Statuses : T!SetStatus(c, s)
  BY <1>1 DEF T!SetStatus
<1>2. ASSUME NEW w \in Syncers, T!StartCycle(w) PROVE T!TypeOK'
  BY <1>2 DEF T!StartCycle
<1>3. ASSUME NEW w \in Syncers, T!Commit(w) PROVE T!TypeOK'
  BY <1>3 DEF T!Commit, T!Added, T!Idle
<1>4. ASSUME NEW w \in Syncers, T!Abort(w) PROVE T!TypeOK'
  BY <1>4 DEF T!Abort, T!Idle, T!Rollback, T!Fault
<1>5. ASSUME NEW w \in Syncers, NEW p \in T!Pairs, T!Update(w, p) PROVE T!TypeOK'
  <2>1. cycle[w] \in Rows /\ cycle[w].read[p[1]] \in T!Statuses
    OBVIOUS
  <2>2. [cycle[w] EXCEPT !.todo = @ \ {p}] \in Rows
    BY <2>1
  <2>3. cycle' \in [Syncers -> Rows]
    BY <1>0, <1>5, <2>2 DEF T!Update
  <2>4. sent' \in [T!Pairs -> T!Statuses \cup {"nothing"}]
    BY <1>5, <2>1 DEF T!Update
  <2>5. ticketFaults' \in 0 .. MaxTicketFaults
    BY <1>5 DEF T!Update, T!Fault
  <2> QED
    BY <1>5, <2>3, <2>4, <2>5 DEF T!Update
<1>6. ASSUME NEW w \in Syncers, NEW p \in T!Pairs, T!Create(w, p) PROVE T!TypeOK'
  <2>1. remote[p] \in 0 .. MaxTickets /\ remote[p] < MaxTickets
    BY <1>6 DEF T!Create
  <2>2. remote[p] + 1 \in 0 .. MaxTickets /\ remote[p] + 1 \in 1 .. MaxTickets
    BY <2>1
  <2>3. remote' \in [T!Pairs -> 0 .. MaxTickets]
    BY <1>6, <2>2 DEF T!Create
  <2>4. ticketFaults' \in 0 .. MaxTicketFaults
    BY <1>6 DEF T!Create, T!Fault
  <2>5. <<p, remote[p] + 1>> \in T!Pairs \X T!Tickets
    BY <2>2
  <2>6. cycle[w] \in Rows /\ cycle[w].read[p[1]] \in T!Statuses
    OBVIOUS
  <2>7. /\ [cycle[w] EXCEPT !.todo = @ \ {p}] \in Rows
        /\ [cycle[w] EXCEPT !.todo = @ \ {p}, !.added = @ \cup {<<p, remote[p] + 1>>}] \in Rows
    BY <2>5, <2>6
  <2>8. cycle' \in [Syncers -> Rows]
    <3>1. CASE cycle' = [cycle EXCEPT ![w].todo = @ \ {p},
                                      ![w].added = @ \cup {<<p, remote[p] + 1>>}]
      <4>1. cycle' = [cycle EXCEPT ![w] = [cycle[w] EXCEPT !.todo = @ \ {p},
                                             !.added = @ \cup {<<p, remote[p] + 1>>}]]
        BY <3>1
      <4> QED
        BY <1>0, <2>7, <4>1
    <3>2. CASE cycle' = [cycle EXCEPT ![w].todo = @ \ {p}]
      BY <1>0, <2>7, <3>2
    <3> QED
      BY <1>6, <3>1, <3>2 DEF T!Create
  <2>9. sent' \in [T!Pairs -> T!Statuses \cup {"nothing"}]
    BY <1>6, <2>6 DEF T!Create
  <2> QED
    BY <1>6, <2>3, <2>4, <2>8, <2>9 DEF T!Create
<1>7. ASSUME NEW w \in Syncers, NEW p \in T!Pairs, T!CreateRaises(w, p) PROVE T!TypeOK'
  <2>1. remote[p] \in 0 .. MaxTickets /\ remote[p] < MaxTickets
    BY <1>7 DEF T!CreateRaises
  <2>2. remote[p] + 1 \in 0 .. MaxTickets
    BY <2>1
  <2>3. remote' \in [T!Pairs -> 0 .. MaxTickets]
    BY <1>7, <2>2 DEF T!CreateRaises
  <2>4. cycle' \in [Syncers -> Rows]
    BY <1>7 DEF T!CreateRaises, T!Rollback, T!Idle
  <2> QED
    BY <1>7, <2>3, <2>4 DEF T!CreateRaises, T!Fault, T!Rollback
<1>8. ASSUME NEW w \in Syncers, NEW p \in T!Pairs, T!DuplicateRaises(w, p) PROVE T!TypeOK'
  BY <1>8 DEF T!DuplicateRaises, T!Rollback, T!Idle
<1>9. CASE UNCHANGED T!vars
  BY <1>9 DEF T!vars
<1> QED
  BY <1>1, <1>2, <1>3, <1>4, <1>5, <1>6, <1>7, <1>8, <1>9 DEF T!Next

\* What the idle cycle holds, and what other workers' cycles keep.
LEMMA RollbackClears ==
    ASSUME T!TypeOK, NEW w \in Syncers, cycle' = [cycle EXCEPT ![w] = T!Idle], NEW p \in T!Pairs
    PROVE  /\ T!Added(w, p)' = {}
           /\ \A v \in Syncers \ {w} : T!Added(v, p)' = T!Added(v, p)
           /\ cycle'[w].todo = {} /\ cycle'[w].added = {}
           /\ \A v \in Syncers \ {w} : cycle'[v] = cycle[v]
<1>1. cycle'[w] = T!Idle /\ \A v \in Syncers \ {w} : cycle'[v] = cycle[v]
  BY DEF T!TypeOK
<1>2. T!Idle.todo = {} /\ T!Idle.added = {}
  BY DEF T!Idle
<1> QED
  BY <1>1, <1>2 DEF T!Added

LEMMA TicketStep ==
    ASSUME T!TicketingAssumption, TicketInv, [T!Next]_T!vars
    PROVE  TicketInv'
<1> DEFINE Quiet == \A w \in Syncers : ~cycle[w].on => cycle[w].todo = {} /\ cycle[w].added = {}
           Held == \A q \in T!Pairs : TicketRows(q) /\ TicketCounts(q)
<1>0. T!TypeOK /\ T!TypeOK' /\ Quiet /\ Held
  BY TicketTypes DEF TicketInv
<1> SUFFICES Quiet' /\ Held'
  BY <1>0 DEF TicketInv
<1>q. ASSUME NEW w \in Syncers, cycle' = [cycle EXCEPT ![w] = T!Idle] PROVE Quiet'
  <2>1. /\ cycle'[w].todo = {} /\ cycle'[w].added = {}
        /\ \A v \in Syncers \ {w} : cycle'[v] = cycle[v]
    BY <1>0, <1>q DEF T!TypeOK, T!Idle
  <2> QED
    BY <1>0, <2>1
<1>1. CASE UNCHANGED T!vars \/ \E c \in Cases, s \in T!Statuses : T!SetStatus(c, s)
  <2>1. UNCHANGED <<remote, links, cycle, aborted>>
    BY <1>1 DEF T!SetStatus, T!vars
  <2>2. \A q \in T!Pairs, w \in Syncers : T!Added(w, q)' = T!Added(w, q)
    BY <2>1 DEF T!Added
  <2> QED
    BY <1>0, <2>1, <2>2, PairKept
<1>2. ASSUME NEW w \in Syncers, T!StartCycle(w) PROVE Quiet' /\ Held'
  <2>1. cycle'[w].on /\ cycle'[w].added = {} /\ \A v \in Syncers \ {w} : cycle'[v] = cycle[v]
    BY <1>0, <1>2 DEF T!StartCycle, T!TypeOK
  <2>2. cycle[w].added = {} /\ UNCHANGED <<remote, links, aborted>>
    BY <1>0, <1>2 DEF T!StartCycle
  <2>3. \A q \in T!Pairs, v \in Syncers : T!Added(v, q)' = T!Added(v, q)
    BY <2>1, <2>2 DEF T!Added
  <2> QED
    BY <1>0, <2>1, <2>2, <2>3, PairKept
<1>3. ASSUME NEW w \in Syncers, T!Commit(w) PROVE Quiet' /\ Held'
  <2>1. cycle' = [cycle EXCEPT ![w] = T!Idle] /\ aborted' = aborted /\ remote' = remote
    BY <1>3 DEF T!Commit
  <2>2. \A q \in T!Pairs : links'[q] = links[q] \cup T!Added(w, q)
    BY <1>3 DEF T!Commit
  <2>3. ASSUME NEW q \in T!Pairs PROVE (TicketRows(q) /\ TicketCounts(q))'
    <3>1. T!Added(w, q)' = {} /\ \A v \in Syncers \ {w} : T!Added(v, q)' = T!Added(v, q)
      BY <1>0, <2>1, RollbackClears
    <3>2. TicketRows(q) /\ TicketCounts(q)
      BY <1>0
    <3> QED
      BY <1>0, <2>1, <2>2, <3>1, <3>2, PairCommitted
  <2> QED
    BY <1>q, <2>1, <2>3
<1>4. ASSUME NEW w \in Syncers, T!Rollback(w), links' = links,
             \A q \in T!Pairs : \/ remote'[q] = remote[q]
                                \/ remote'[q] = remote[q] + 1 /\ T!Added(w, q) = {}
      PROVE  Quiet' /\ Held'
  <2>1. cycle' = [cycle EXCEPT ![w] = T!Idle] /\ aborted' = aborted + 1
    BY <1>4 DEF T!Rollback
  <2>2. ASSUME NEW q \in T!Pairs PROVE (TicketRows(q) /\ TicketCounts(q))'
    <3>1. T!Added(w, q)' = {} /\ \A v \in Syncers \ {w} : T!Added(v, q)' = T!Added(v, q)
      BY <1>0, <2>1, RollbackClears
    <3>2. TicketRows(q) /\ TicketCounts(q)
      BY <1>0
    <3> QED
      BY <1>0, <1>4, <2>1, <3>1, <3>2, PairRolledBack
  <2> QED
    BY <1>q, <2>1, <2>2
<1>5. ASSUME NEW w \in Syncers, T!Abort(w) PROVE Quiet' /\ Held'
  BY <1>4, <1>5 DEF T!Abort
<1>6. ASSUME NEW w \in Syncers, NEW p \in T!Pairs, T!Update(w, p) PROVE Quiet' /\ Held'
  <2>1. /\ cycle'[w].on = cycle[w].on /\ cycle'[w].added = cycle[w].added
        /\ cycle'[w].todo = cycle[w].todo \ {p}
        /\ \A v \in Syncers \ {w} : cycle'[v] = cycle[v]
    BY <1>0, <1>6 DEF T!Update, T!TypeOK
  <2>2. UNCHANGED <<remote, links, aborted>>
    BY <1>6 DEF T!Update
  <2>3. \A q \in T!Pairs, v \in Syncers : T!Added(v, q)' = T!Added(v, q)
    BY <2>1 DEF T!Added
  <2>4. Quiet'
    BY <1>0, <2>1
  <2> QED
    BY <1>0, <2>2, <2>3, <2>4, PairKept
<1>7. ASSUME NEW w \in Syncers, NEW p \in T!Pairs, T!Create(w, p) PROVE Quiet' /\ Held'
  <2>1. p \in cycle[w].todo /\ links[p] = {} /\ T!Added(w, p) = {} /\ remote[p] < MaxTickets
    BY <1>7 DEF T!Create, T!Visible
  <2>2. cycle[w].on /\ remote[p] \in Nat
    BY <1>0, <2>1 DEF T!TypeOK, T!TicketingAssumption
  <2>3. CASE /\ remote' = [remote EXCEPT ![p] = @ + 1]
             /\ cycle' = [cycle EXCEPT ![w].todo = @ \ {p},
                                       ![w].added = @ \cup {<<p, remote[p] + 1>>}]
             /\ UNCHANGED <<links, aborted>>
    <3>1. /\ cycle'[w].on /\ cycle'[w].added = cycle[w].added \cup {<<p, remote[p] + 1>>}
          /\ \A v \in Syncers \ {w} : cycle'[v] = cycle[v]
      BY <1>0, <2>2, <2>3 DEF T!TypeOK
    <3>2. Quiet'
      BY <1>0, <3>1
    <3>3. remote[p] + 1 \in T!Tickets
      BY <2>1, <2>2 DEF T!Tickets, T!TicketingAssumption
    <3>4. T!Added(w, p)' = {remote[p] + 1}
      BY <2>1, <3>1, <3>3 DEF T!Added
    <3>5. \A q \in T!Pairs, v \in Syncers \ {w} : T!Added(v, q)' = T!Added(v, q)
      BY <3>1 DEF T!Added
    <3>6. \A q \in T!Pairs \ {p} : T!Added(w, q)' = T!Added(w, q)
      BY <3>1 DEF T!Added
    <3>7. remote'[p] = remote[p] + 1 /\ \A q \in T!Pairs \ {p} : remote'[q] = remote[q]
      BY <1>0, <2>3 DEF T!TypeOK
    <3>8. (TicketRows(p) /\ TicketCounts(p))'
      <4>1. TicketRows(p) /\ TicketCounts(p)
        BY <1>0
      <4> QED
        BY <1>0, <2>1, <2>3, <3>4, <3>5, <3>7, <4>1, PairCreated
    <3>9. ASSUME NEW q \in T!Pairs \ {p} PROVE (TicketRows(q) /\ TicketCounts(q))'
      <4>1. \A v \in Syncers : T!Added(v, q)' = T!Added(v, q)
        BY <3>5, <3>6
      <4>2. TicketRows(q) /\ TicketCounts(q) /\ remote'[q] = remote[q]
        BY <1>0, <3>7
      <4> QED
        BY <2>3, <4>1, <4>2, PairKept
    <3> QED
      BY <3>2, <3>8, <3>9
  <2>4. CASE cycle' = [cycle EXCEPT ![w].todo = @ \ {p}] /\ UNCHANGED <<remote, links, aborted>>
    <3>1. /\ cycle'[w].on /\ cycle'[w].added = cycle[w].added
          /\ \A v \in Syncers \ {w} : cycle'[v] = cycle[v]
      BY <1>0, <2>2, <2>4 DEF T!TypeOK
    <3>2. \A q \in T!Pairs, v \in Syncers : T!Added(v, q)' = T!Added(v, q)
      BY <3>1 DEF T!Added
    <3>3. Quiet'
      BY <1>0, <3>1
    <3> QED
      BY <1>0, <2>4, <3>2, <3>3, PairKept
  <2> QED
    BY <1>7, <2>3, <2>4 DEF T!Create
<1>8. ASSUME NEW w \in Syncers, NEW p \in T!Pairs, T!CreateRaises(w, p) PROVE Quiet' /\ Held'
  <2>1. T!Rollback(w) /\ links' = links /\ T!Added(w, p) = {}
    BY <1>8 DEF T!CreateRaises, T!Visible
  <2>2. \A q \in T!Pairs : remote'[q] = remote[q] \/ (q = p /\ remote'[q] = remote[q] + 1)
    BY <1>0, <1>8 DEF T!CreateRaises, T!TypeOK
  <2> QED
    BY <1>4, <2>1, <2>2
<1>9. ASSUME NEW w \in Syncers, NEW p \in T!Pairs, T!DuplicateRaises(w, p) PROVE Quiet' /\ Held'
  BY <1>4, <1>9 DEF T!DuplicateRaises
<1> QED
  BY <1>1, <1>2, <1>3, <1>5, <1>6, <1>7, <1>8, <1>9 DEF T!Next

LEMMA TicketInit ==
    ASSUME T!TicketingAssumption, T!Init
    PROVE  TicketInv
<1>1. T!TypeOK
  BY DEF T!TypeOK, T!Init, T!Idle, T!Statuses, T!Pairs, T!Links, T!Tickets, T!TicketingAssumption
<1>2. \A w \in Syncers : cycle[w].todo = {} /\ cycle[w].added = {}
  BY DEF T!Init, T!Idle
<1>3. ASSUME NEW p \in T!Pairs PROVE TicketRows(p) /\ TicketCounts(p)
  <2>1. links[p] = {} /\ remote[p] = 0 /\ aborted = 0
    BY DEF T!Init
  <2>2. \A w \in Syncers : T!Added(w, p) = {}
    BY <1>2 DEF T!Added
  <2>3. InFlight(p) = {}
    BY <2>2 DEF InFlight
  <2>4. Cardinality(Syncers) \in Nat
    BY <1>1, TicketSetsFinite
  <2> QED
    BY <2>1, <2>2, <2>3, <2>4, FS_EmptySet DEF TicketRows, TicketCounts
<1> QED
  BY <1>1, <1>2, <1>3 DEF TicketInv

(* Whatever the workers' cycles, failed calls, crashes and edits: a remote has at most *)
(* one ticket per worker process for a case, and one more per rolled back cycle, and   *)
(* no case has more links to a provider than there are processes (ticketing_worker.py:  *)
(* the select before create_ticket, and one commit per cycle).                         *)
THEOREM TicketsStayAccounted == T!Spec => []TicketsAccounted
<1>0. T!TicketingAssumption
  BY OutboundAssumption
<1> USE <1>0 DEF TicketsAccounted
<1>1. T!Init => TicketInv
  BY TicketInit
<1>2. TicketInv /\ [T!Next]_T!vars => TicketInv'
  BY TicketStep
<1>3. TicketInv => T!TicketsAccounted
  <2> SUFFICES ASSUME TicketInv, NEW p \in T!Pairs
               PROVE  /\ remote[p] <= T!Cardinality(Syncers) + aborted
                      /\ T!Cardinality(links[p]) <= T!Cardinality(Syncers)
    BY DEF T!TicketsAccounted
  <2>1. TicketCounts(p) /\ T!TypeOK
    BY DEF TicketInv
  <2> QED
    BY <2>1, TicketSetsFinite, TicketCardinality DEF TicketCounts
<1> QED
  BY <1>1, <1>2, <1>3, PTL DEF T!Spec
-----------------------------------------------------------------------------
(***************************************************************************)
(* Notifications.  A job is in one place: in the notifyQueue, in the hand of one *)
(* worker, or gone.                                                        *)
(***************************************************************************)
(* j sits at most once in the notifyQueue and in one hand, never in both. *)
JobPlaced(j) ==
  /\ \A n, m \in Notifiers : hand[n] = j /\ hand[m] = j => n = m
  /\ \A i, k \in 1..Len(notifyQueue) : notifyQueue[i] = j /\ notifyQueue[k] = j => i = k
  /\ N!Queued(j) => ~N!Held(j)

(* What has become of j follows from where it is. *)
JobTold(j) ==
  /\ N!Queued(j) => reached[j] = 0 /\ notifyDead[j] = 0
  /\ \A n \in Notifiers : hand[n] = j => notifyDead[j] = 0 /\ (~failing[n] => reached[j] = 0)
  /\ \A n \in Notifiers : hand[n] = j /\ reached[j] > 0 => notifyFaults > 0
  /\ reached[j] <= 1 /\ notifyDead[j] <= 1
  /\ reached[j] + notifyDead[j] = 2 => notifyFaults > 0

NotifyInv ==
  /\ N!TypeOK
  /\ \A n \in Notifiers : failing[n] => hand[n] \in Jobs
  /\ \A j \in Jobs : JobPlaced(j) /\ JobTold(j)

LEMMA NotifyTypes ==
    ASSUME N!NotificationAssumption, N!TypeOK, [N!Next]_N!vars,
           \A n \in Notifiers : failing[n] => hand[n] \in Jobs
    PROVE  N!TypeOK'
<1> USE DEF N!TypeOK, N!NotificationAssumption
<1>1. ASSUME NEW j \in Jobs, N!Notify(j) PROVE N!TypeOK'
  BY <1>1 DEF N!Notify
<1>2. ASSUME NEW n \in Notifiers, N!Pop(n) PROVE N!TypeOK'
  <2>1. Len(notifyQueue) \in Nat \ {0} /\ notifyQueue[Len(notifyQueue)] \in Jobs
    BY <1>2, EmptySeq, LenProperties, ElementOfSeq DEF N!Pop
  <2>2. notifyQueue' \in Seq(Jobs)
    BY <1>2, <2>1, SubSeqProperties DEF N!Pop
  <2> QED
    BY <1>2, <2>1, <2>2 DEF N!Pop
<1>3. ASSUME NEW n \in Notifiers, N!Deliver(n) PROVE N!TypeOK'
  BY <1>3 DEF N!Deliver, N!Release, N!Free
<1>4. ASSUME NEW n \in Notifiers, N!SendFails(n) PROVE N!TypeOK'
  BY <1>4 DEF N!SendFails, N!Fault
<1>5. ASSUME NEW n \in Notifiers, N!DeadLetter(n) PROVE N!TypeOK'
  BY <1>5 DEF N!DeadLetter, N!Release, N!Free
<1>6. ASSUME NEW n \in Notifiers, N!Drop(n) PROVE N!TypeOK'
  BY <1>6 DEF N!Drop, N!Fault, N!Release, N!Free
<1>7. CASE UNCHANGED N!vars
  BY <1>7 DEF N!vars
<1> QED
  BY <1>1, <1>2, <1>3, <1>4, <1>5, <1>6, <1>7 DEF N!Next

\* A job that is neither pushed nor popped keeps its place.
LEMMA NotifyPushed ==
    ASSUME N!TypeOK, NEW j \in Jobs, N!Notify(j)
    PROVE  /\ Len(notifyQueue') = Len(notifyQueue) + 1 /\ Len(notifyQueue) \in Nat
           /\ notifyQueue'[1] = j /\ \A i \in 2 .. Len(notifyQueue) + 1 : notifyQueue'[i] = notifyQueue[i - 1]
<1>1. notifyQueue \in Seq(Jobs) /\ <<j>> \in Seq(Jobs) /\ Len(<<j>>) = 1 /\ <<j>>[1] = j
  BY DEF N!TypeOK
<1>2. notifyQueue' = <<j>> \o notifyQueue
  BY DEF N!Notify
<1> QED
  BY <1>1, <1>2, ConcatProperties, LenProperties

LEMMA NotifyPopped ==
    ASSUME N!TypeOK, NEW n \in Notifiers, N!Pop(n)
    PROVE  /\ Len(notifyQueue) \in Nat \ {0} /\ Len(notifyQueue') = Len(notifyQueue) - 1
           /\ \A i \in 1 .. Len(notifyQueue) - 1 : notifyQueue'[i] = notifyQueue[i]
           /\ notifyQueue[Len(notifyQueue)] \in Jobs
<1>1. Len(notifyQueue) \in Nat \ {0} /\ \A i \in 1 .. Len(notifyQueue) : notifyQueue[i] \in Jobs
  BY EmptySeq, LenProperties, ElementOfSeq DEF N!Pop, N!TypeOK
<1>2. notifyQueue' = SubSeq(notifyQueue, 1, Len(notifyQueue) - 1)
  BY DEF N!Pop
<1>3. 1 \in Int /\ Len(notifyQueue) - 1 \in Int /\ \A i \in 1 .. Len(notifyQueue) - 1 : notifyQueue[i] \in Jobs
  BY <1>1
<1>4. /\ Len(notifyQueue') = IF 1 <= Len(notifyQueue) - 1 THEN Len(notifyQueue) - 1 - 1 + 1 ELSE 0
      /\ \A i \in 1 .. Len(notifyQueue) - 1 - 1 + 1 : notifyQueue'[i] = notifyQueue[1 + i - 1]
  BY <1>2, <1>3, SubSeqProperties
<1>5. Len(notifyQueue') = Len(notifyQueue) - 1 /\ notifyQueue[Len(notifyQueue)] \in Jobs
  <2>1. PICK len \in Nat \ {0} : len = Len(notifyQueue)
    BY <1>1
  <2>2. Len(notifyQueue') = (IF 1 <= len - 1 THEN len - 1 - 1 + 1 ELSE 0) /\ notifyQueue[len] \in Jobs
    BY <1>1, <1>4, <2>1
  <2>3. len - 1 = IF 1 <= len - 1 THEN len - 1 - 1 + 1 ELSE 0
    BY <2>1
  <2> QED
    BY <2>1, <2>2, <2>3
<1>6. ASSUME NEW i \in 1 .. Len(notifyQueue) - 1 PROVE notifyQueue'[i] = notifyQueue[i]
  <2>1. i \in 1 .. Len(notifyQueue) - 1 - 1 + 1 /\ 1 + i - 1 = i
    BY <1>1
  <2> QED
    BY <1>4, <2>1
<1> QED
  BY <1>1, <1>5, <1>6

LEMMA NotifyStep ==
    ASSUME N!NotificationAssumption, NotifyInv, [N!Next]_N!vars
    PROVE  NotifyInv'
<1> DEFINE Busy == \A n \in Notifiers : failing[n] => hand[n] \in Jobs
<1>0. N!TypeOK /\ N!TypeOK' /\ Busy /\ \A j \in Jobs : JobPlaced(j) /\ JobTold(j)
  BY NotifyTypes DEF NotifyInv
<1> SUFFICES Busy' /\ \A j \in Jobs : JobPlaced(j)' /\ JobTold(j)'
  BY <1>0 DEF NotifyInv
<1>1. ASSUME NEW j \in Jobs, N!Notify(j)
      PROVE  Busy' /\ \A k \in Jobs : JobPlaced(k)' /\ JobTold(k)'
  <2>1. /\ Len(notifyQueue') = Len(notifyQueue) + 1 /\ Len(notifyQueue) \in Nat
        /\ notifyQueue'[1] = j /\ \A i \in 2 .. Len(notifyQueue) + 1 : notifyQueue'[i] = notifyQueue[i - 1]
    BY <1>0, <1>1, NotifyPushed
  <2>2. ~N!Queued(j) /\ ~N!Held(j) /\ UNCHANGED <<hand, failing, reached, notifyDead, notifyFaults>>
    BY <1>1 DEF N!Notify
  <2>3. reached[j] = 0 /\ notifyDead[j] = 0
    BY <1>0, <1>1 DEF N!Notify, N!TypeOK
  <2>4. \A k \in Jobs : N!Queued(k)' => k = j \/ N!Queued(k)
    BY <2>1 DEF N!Queued
  <2>5. \A k \in Jobs : N!Held(k)' <=> N!Held(k)
    BY <2>2 DEF N!Held
  <2>6. ASSUME NEW k \in Jobs, NEW i \in 1 .. Len(notifyQueue'), NEW l \in 1 .. Len(notifyQueue'),
               notifyQueue'[i] = k, notifyQueue'[l] = k
        PROVE  i = l
    <3>1. CASE i = 1 /\ l # 1
      BY <2>1, <2>2, <2>6, <3>1 DEF N!Queued
    <3>2. CASE i # 1 /\ l = 1
      BY <2>1, <2>2, <2>6, <3>2 DEF N!Queued
    <3>3. CASE i # 1 /\ l # 1
      <4>1. i - 1 \in 1 .. Len(notifyQueue) /\ l - 1 \in 1 .. Len(notifyQueue)
            /\ notifyQueue[i - 1] = k /\ notifyQueue[l - 1] = k
        BY <2>1, <2>6, <3>3
      <4>2. i - 1 = l - 1
        BY <1>0, <4>1 DEF JobPlaced
      <4> QED
        BY <4>2, <2>1
    <3> QED
      BY <3>1, <3>2, <3>3
  <2>7. \A k \in Jobs : JobPlaced(k)'
    BY <1>0, <2>2, <2>4, <2>5, <2>6 DEF JobPlaced
  <2>8. \A k \in Jobs : JobTold(k)'
    BY <1>0, <2>2, <2>3, <2>4 DEF JobTold
  <2> QED
    BY <1>0, <2>2, <2>7, <2>8
<1>2. ASSUME NEW n \in Notifiers, N!Pop(n)
      PROVE  Busy' /\ \A k \in Jobs : JobPlaced(k)' /\ JobTold(k)'
  <2>0. PICK j \in Jobs : j = notifyQueue[Len(notifyQueue)]
    BY <1>0, <1>2, NotifyPopped
  <2>1. /\ Len(notifyQueue) \in Nat \ {0} /\ Len(notifyQueue') = Len(notifyQueue) - 1
        /\ \A i \in 1 .. Len(notifyQueue) - 1 : notifyQueue'[i] = notifyQueue[i]
        /\ j = notifyQueue[Len(notifyQueue)]
    BY <1>0, <1>2, <2>0, NotifyPopped
  <2>2. /\ hand' = [hand EXCEPT ![n] = j] /\ hand[n] = N!Free
        /\ UNCHANGED <<failing, reached, notifyDead, notifyFaults>>
    BY <1>2, <2>0 DEF N!Pop
  <2>3. N!Queued(j) /\ ~N!Held(j) /\ ~failing[n]
    BY <1>0, <2>1, <2>2 DEF N!Queued, JobPlaced, N!NotificationAssumption
  <2>4. hand'[n] = j /\ \A m \in Notifiers \ {n} : hand'[m] = hand[m]
    BY <1>0, <2>2 DEF N!TypeOK
  <2>5. ~N!Queued(j)'
    <3>1. ASSUME NEW i \in 1 .. Len(notifyQueue'), notifyQueue'[i] = j PROVE FALSE
      <4>1. i \in 1 .. Len(notifyQueue) /\ notifyQueue[i] = j /\ i # Len(notifyQueue) /\ Len(notifyQueue) \in 1 .. Len(notifyQueue)
        BY <2>1, <3>1
      <4> QED
        BY <1>0, <2>1, <4>1 DEF JobPlaced
    <3> QED
      BY <3>1 DEF N!Queued
  <2>6. \A k \in Jobs : N!Queued(k)' => N!Queued(k)
    BY <2>1 DEF N!Queued
  <2>7. \A k \in Jobs : N!Held(k)' => k = j \/ N!Held(k)
    BY <2>4 DEF N!Held
  <2>8. \A k \in Jobs : \A i, l \in 1 .. Len(notifyQueue') : notifyQueue'[i] = k /\ notifyQueue'[l] = k => i = l
    BY <1>0, <2>1 DEF JobPlaced
  <2>9. \A k \in Jobs : \A m, p \in Notifiers : hand'[m] = k /\ hand'[p] = k => m = p
    <3>1. \A k \in Jobs : \A m, p \in Notifiers \ {n} : hand'[m] = k /\ hand'[p] = k => m = p
      BY <1>0, <2>4 DEF JobPlaced
    <3>2. \A m \in Notifiers \ {n} : hand'[m] # hand'[n]
      BY <2>3, <2>4 DEF N!Held
    <3> QED
      BY <3>1, <3>2
  <2>10. \A k \in Jobs : JobPlaced(k)'
    BY <1>0, <2>5, <2>6, <2>7, <2>8, <2>9 DEF JobPlaced
  <2>11. \A k \in Jobs : JobTold(k)'
    BY <1>0, <2>2, <2>3, <2>4, <2>6 DEF JobTold, N!TypeOK
  <2>12. Busy'
    BY <1>0, <2>1, <2>2, <2>4
  <2> QED
    BY <2>10, <2>11, <2>12
<1>3. ASSUME NEW n \in Notifiers, N!Deliver(n) \/ N!DeadLetter(n) \/ N!Drop(n)
      PROVE  Busy' /\ \A k \in Jobs : JobPlaced(k)' /\ JobTold(k)'
  <2>1. PICK j \in Jobs : j = hand[n]
    BY <1>0, <1>3 DEF N!Deliver, N!DeadLetter, N!Drop
  <2>2. notifyQueue' = notifyQueue /\ N!Release(n)
    BY <1>3 DEF N!Deliver, N!DeadLetter, N!Drop
  <2>3. /\ hand'[n] = N!Free /\ \A m \in Notifiers \ {n} : hand'[m] = hand[m]
        /\ failing'[n] = FALSE /\ \A m \in Notifiers \ {n} : failing'[m] = failing[m]
    BY <1>0, <2>2 DEF N!TypeOK, N!Release
  <2>4. N!Free \notin Jobs
    BY DEF N!NotificationAssumption
  <2>5. \A k \in Jobs : (N!Queued(k)' <=> N!Queued(k)) /\ (N!Held(k)' => N!Held(k))
    BY <2>2, <2>3, <2>4 DEF N!Queued, N!Held
  <2>6. \A k \in Jobs : JobPlaced(k)'
    BY <1>0, <2>2, <2>3, <2>4, <2>5 DEF JobPlaced
  <2>7. Busy'
    BY <1>0, <2>3
  <2>8. \A m \in Notifiers : hand'[m] # j
    BY <1>0, <2>1, <2>3, <2>4 DEF JobPlaced
  <2>9. ~N!Queued(j)'
    BY <1>0, <2>1, <2>5 DEF JobPlaced, N!Held
  <2>10. JobTold(j)'
    <3>1. reached[j] \in Nat /\ notifyDead[j] \in Nat /\ notifyFaults \in Nat
      BY <1>0 DEF N!TypeOK, N!NotificationAssumption
    <3>2. JobTold(j) /\ n \in Notifiers /\ hand[n] = j
      BY <1>0, <2>1
    <3>3. CASE N!Deliver(n)
      <4>1. reached'[j] = reached[j] + 1 /\ UNCHANGED <<notifyDead, notifyFaults>> /\ ~failing[n]
        BY <1>0, <2>1, <3>3 DEF N!Deliver, N!TypeOK
      <4> QED
        BY <2>8, <2>9, <3>1, <3>2, <4>1 DEF JobTold
    <3>4. CASE N!DeadLetter(n)
      <4>1. notifyDead'[j] = notifyDead[j] + 1 /\ UNCHANGED <<reached, notifyFaults>>
        BY <1>0, <2>1, <3>4 DEF N!DeadLetter, N!TypeOK
      <4> QED
        BY <2>8, <2>9, <3>1, <3>2, <4>1 DEF JobTold
    <3>5. CASE N!Drop(n)
      <4>1. notifyFaults' = notifyFaults + 1 /\ UNCHANGED <<reached, notifyDead>>
        BY <3>5 DEF N!Drop, N!Fault
      <4> QED
        BY <2>8, <2>9, <3>1, <3>2, <4>1 DEF JobTold
    <3> QED
      BY <1>3, <3>3, <3>4, <3>5
  <2>11. ASSUME NEW k \in Jobs \ {j} PROVE JobTold(k)'
    <3>1. /\ reached'[k] = reached[k] /\ notifyDead'[k] = notifyDead[k]
          /\ notifyFaults \in Nat /\ (notifyFaults' = notifyFaults \/ notifyFaults' = notifyFaults + 1)
      BY <1>0, <1>3, <2>1 DEF N!Deliver, N!DeadLetter, N!Drop, N!Fault, N!TypeOK, N!NotificationAssumption
    <3>2. \A m \in Notifiers : hand'[m] = k => m # n /\ hand[m] = k /\ failing'[m] = failing[m]
      BY <2>3, <2>4
    <3> QED
      BY <1>0, <2>5, <3>1, <3>2 DEF JobTold
  <2> QED
    BY <2>6, <2>7, <2>10, <2>11
<1>4. ASSUME NEW n \in Notifiers, N!SendFails(n)
      PROVE  Busy' /\ \A k \in Jobs : JobPlaced(k)' /\ JobTold(k)'
  <2>1. PICK j \in Jobs : j = hand[n]
    BY <1>4 DEF N!SendFails
  <2>2. /\ UNCHANGED <<notifyQueue, hand, notifyDead>> /\ ~failing[n]
        /\ failing'[n] = TRUE /\ \A m \in Notifiers \ {n} : failing'[m] = failing[m]
    BY <1>0, <1>4 DEF N!SendFails, N!TypeOK
  <2>3. \A k \in Jobs : (N!Queued(k)' <=> N!Queued(k)) /\ (N!Held(k)' <=> N!Held(k))
    BY <2>2 DEF N!Queued, N!Held
  <2>4. \A k \in Jobs : JobPlaced(k)'
    BY <1>0, <2>2, <2>3 DEF JobPlaced
  <2>5. Busy'
    BY <1>0, <2>1, <2>2
  <2>6. /\ notifyFaults \in Nat
        /\ \A k \in Jobs \ {j} : reached'[k] = reached[k]
        /\ \/ UNCHANGED <<reached, notifyFaults>>
           \/ notifyFaults' = notifyFaults + 1 /\ reached' = reached
           \/ notifyFaults' = notifyFaults + 1 /\ reached'[j] = reached[j] + 1
    BY <1>0, <1>4, <2>1 DEF N!SendFails, N!Fault, N!TypeOK, N!NotificationAssumption
  <2>7. JobTold(j)'
    <3>1. JobTold(j) /\ reached[j] = 0 /\ notifyDead[j] = 0 /\ ~N!Queued(j)
      BY <1>0, <2>1, <2>2 DEF JobTold, JobPlaced, N!Held
    <3>2. notifyDead'[j] = 0 /\ ~N!Queued(j)' /\ reached'[j] <= 1 /\ (reached'[j] > 0 => notifyFaults' > 0)
      BY <2>2, <2>3, <2>6, <3>1
    <3>3. \A m \in Notifiers : hand'[m] = j => m = n
      BY <1>0, <2>1, <2>2 DEF JobPlaced
    <3>4. reached'[j] + notifyDead'[j] # 2
      BY <2>6, <3>1, <3>2
    <3> QED
      BY <2>2, <3>2, <3>3, <3>4 DEF JobTold
  <2>8. ASSUME NEW k \in Jobs \ {j} PROVE JobTold(k)'
    <3>1. /\ \A m \in Notifiers : hand[m] = k => m # n
          /\ notifyFaults' = notifyFaults \/ notifyFaults' = notifyFaults + 1
      BY <2>1, <2>6
    <3> QED
      BY <1>0, <2>2, <2>3, <2>6, <3>1 DEF JobTold
  <2> QED
    BY <2>4, <2>5, <2>7, <2>8
<1>5. CASE UNCHANGED N!vars
  BY <1>0, <1>5 DEF N!vars, JobPlaced, JobTold, N!Queued, N!Held
<1> QED
  BY <1>1, <1>2, <1>3, <1>4, <1>5 DEF N!Next

(* However the workers interleave, fail and die: no job is sent twice or notifyDead-lettered *)
(* twice, a queued job is untouched, and a job that was both sent and notifyDead-lettered had *)
(* a connector report a failure that was none (notification_worker.py: one brpop per job).*)
THEOREM JobsHandledOnce == N!Spec => []HandledOnce
<1>0. N!NotificationAssumption
  BY OutboundAssumption
<1> USE <1>0 DEF HandledOnce
<1>1. N!Init => NotifyInv
  BY EmptySeq DEF N!Init, NotifyInv, N!TypeOK, N!Free, N!NotificationAssumption, JobPlaced, JobTold,
        N!Queued, N!Held
<1>2. NotifyInv /\ [N!Next]_N!vars => NotifyInv'
  BY NotifyStep
<1>3. NotifyInv => N!HandledOnce
  <2> SUFFICES ASSUME NotifyInv, NEW j \in Jobs
               PROVE  /\ reached[j] <= 1 /\ notifyDead[j] <= 1
                      /\ N!Queued(j) => ~N!Held(j) /\ reached[j] + notifyDead[j] = 0
                      /\ reached[j] + notifyDead[j] = 2 => notifyFaults > 0
    BY DEF N!HandledOnce
  <2> QED
    BY DEF NotifyInv, JobPlaced, JobTold
<1> QED
  BY <1>1, <1>2, <1>3, PTL DEF N!Spec
-----------------------------------------------------------------------------
(***************************************************************************)
(* Reports.  A slot that is sent for and recorded is a slot that has gone  *)
(* by since the row was written; everything beyond that, a fault took.     *)
(***************************************************************************)
Out(s) == IF sending = s THEN 1 ELSE 0

(* The schedule's last run, the check that found it due and the clock are in order. *)
InOrder(s) ==
  /\ firstRun[s] = R!Never <=> lastRun[s] = R!Never
  /\ lastRun[s] # R!Never => firstRun[s] <= lastRun[s] /\ lastRun[s] <= now
  /\ s \in check.todo => lastRun[s] # R!Never /\ R!NextSlot(lastRun[s]) <= check.at
  /\ sending = s => s \in check.todo

SlotsRecorded(s) ==
  IF lastRun[s] = R!Never THEN 0 ELSE lastRun[s] \div Period - firstRun[s] \div Period

(* What was sent, against the slots recorded and the rows of the delivery log. *)
SentFor(s) ==
  /\ delivered[s] <= SlotsRecorded(s) + reportFaults + Out(s)
  /\ logged[s] + Out(s) <= delivered[s]
  /\ delivered[s] <= logged[s] + reportFaults + Out(s)

ReportInv ==
  /\ R!TypeOK
  /\ check.on => check.at <= now
  /\ ~check.on => check.todo = {}
  /\ \A s \in Schedules : InOrder(s) /\ SentFor(s)

\* Slots follow the clock, and a schedule whose next slot is due has one to its credit.
LEMMA SlotsFollowClock ==
    ASSUME R!ScheduleAssumption, NEW t \in Nat, NEW u \in Nat, t <= u
    PROVE  /\ t \div Period \in Nat /\ u \div Period \in Nat
           /\ t \div Period <= u \div Period
           /\ R!NextSlot(t) <= u => t \div Period + 1 <= u \div Period
<1>1. Period \in Nat \ {0}
  BY DEF R!ScheduleAssumption
<1>2. t \div Period \in Nat /\ u \div Period \in Nat /\ t \div Period <= u \div Period
  BY <1>1
<1>3. u < Period * (u \div Period) + Period
  BY <1>1
<1>4. ASSUME (t \div Period + 1) * Period <= u PROVE t \div Period + 1 <= u \div Period
  <2>1. SUFFICES ASSUME u \div Period <= t \div Period PROVE FALSE
    BY <1>2
  <2>2. (u \div Period + 1) * Period <= (t \div Period + 1) * Period
    BY <1>1, <1>2, <2>1
  <2>3. (u \div Period + 1) * Period = Period * (u \div Period) + Period
    BY <1>1, <1>2
  <2>4. (t \div Period + 1) * Period \in Nat /\ (u \div Period + 1) * Period \in Nat
    BY <1>1, <1>2
  <2> QED
    BY <1>3, <1>4, <2>2, <2>3, <2>4
<1> QED
  BY <1>2, <1>4 DEF R!NextSlot

LEMMA ReportTypes ==
    ASSUME R!ScheduleAssumption, R!TypeOK, [R!Next]_R!vars
    PROVE  R!TypeOK'
<1> USE DEF R!TypeOK, R!ScheduleAssumption, R!Fault
<1>1. CASE R!Tick
  BY <1>1 DEF R!Tick
<1>2. CASE R!StartCheck
  BY <1>2 DEF R!StartCheck
<1>3. CASE R!EndCheck
  BY <1>3 DEF R!EndCheck, R!NoCheck
<1>9. CASE R!Abort
  BY <1>9 DEF R!Abort, R!NoCheck
<1>4. CASE R!Record
  BY <1>4 DEF R!Record
<1>5. ASSUME NEW s \in Schedules, R!Reject(s) PROVE R!TypeOK'
  BY <1>5 DEF R!Reject, R!NoCheck
<1>6. ASSUME NEW s \in Schedules, R!Send(s) PROVE R!TypeOK'
  BY <1>6 DEF R!Send
<1>7. ASSUME NEW s \in Schedules, R!SendFails(s) PROVE R!TypeOK'
  BY <1>7 DEF R!SendFails
<1>8. CASE UNCHANGED R!vars
  BY <1>8 DEF R!vars
<1> QED
  BY <1>1, <1>2, <1>3, <1>4, <1>5, <1>6, <1>7, <1>8, <1>9 DEF R!Next

\* The counters and the slots are numbers.
LEMMA ReportNumbers ==
    ASSUME R!ScheduleAssumption, R!TypeOK, NEW s \in Schedules, InOrder(s)
    PROVE  /\ delivered[s] \in Nat /\ logged[s] \in Nat /\ reportFaults \in Nat /\ now \in Nat
           /\ Out(s) \in {0, 1} /\ SlotsRecorded(s) \in Nat
           /\ lastRun[s] # R!Never => lastRun[s] \in Nat /\ firstRun[s] \in Nat
<1>1. delivered[s] \in Nat /\ logged[s] \in Nat /\ reportFaults \in Nat /\ now \in Nat
  BY DEF R!TypeOK, R!ScheduleAssumption
<1>2. Out(s) \in {0, 1}
  BY DEF Out
<1>3. lastRun[s] # R!Never => /\ lastRun[s] \in Nat /\ firstRun[s] \in Nat
                              /\ firstRun[s] <= lastRun[s]
  BY DEF R!TypeOK, R!ScheduleAssumption, InOrder
<1>4. SlotsRecorded(s) \in Nat
  <2>1. CASE lastRun[s] = R!Never
    BY <2>1 DEF SlotsRecorded
  <2>2. CASE lastRun[s] # R!Never
    <3>1. /\ lastRun[s] \div Period \in Nat /\ firstRun[s] \div Period \in Nat
          /\ firstRun[s] \div Period <= lastRun[s] \div Period
      BY <1>3, <2>2, SlotsFollowClock
    <3> QED
      BY <2>2, <3>1 DEF SlotsRecorded
  <2> QED
    BY <2>1, <2>2
<1> QED
  BY <1>1, <1>2, <1>3, <1>4

LEMMA ReportStep ==
    ASSUME R!ScheduleAssumption, ReportInv, [R!Next]_R!vars
    PROVE  ReportInv'
<1>0. /\ R!TypeOK /\ R!TypeOK'
      /\ check.on => check.at <= now
      /\ ~check.on => check.todo = {}
      /\ now \in Nat /\ check.at \in Nat
  BY ReportTypes DEF ReportInv, R!TypeOK, R!ScheduleAssumption
<1> DEFINE Checks == (check.on => check.at <= now) /\ (~check.on => check.todo = {})
<1> SUFFICES Checks' /\ \A s \in Schedules : InOrder(s)' /\ SentFor(s)'
  BY <1>0 DEF ReportInv
<1>a. ASSUME NEW s \in Schedules
      PROVE  /\ InOrder(s) /\ SentFor(s)
             /\ delivered[s] \in Nat /\ logged[s] \in Nat /\ reportFaults \in Nat
             /\ Out(s) \in {0, 1} /\ SlotsRecorded(s) \in Nat
  BY <1>0, ReportNumbers DEF ReportInv
\* Steps that send and record nothing.
<1>b. ASSUME UNCHANGED <<lastRun, firstRun, sending, delivered, logged, reportFaults>>
      PROVE  \A s \in Schedules : SentFor(s)'
  <2>1. \A s \in Schedules : Out(s)' = Out(s) /\ SlotsRecorded(s)' = SlotsRecorded(s)
    BY <1>b DEF Out, SlotsRecorded
  <2> QED
    BY <1>a, <1>b, <2>1 DEF SentFor
<1>1. CASE R!Tick
  <2>1. /\ now' = now + 1
        /\ UNCHANGED <<lastRun, firstRun, check, sending, delivered, logged, reportFaults>>
    BY <1>1 DEF R!Tick
  <2>2. \A s \in Schedules : lastRun[s] # R!Never => lastRun[s] \in Nat
    BY <1>0, <1>a, ReportNumbers
  <2>3. \A s \in Schedules : InOrder(s)'
    BY <1>0, <1>a, <2>1, <2>2 DEF InOrder
  <2> QED
    BY <1>0, <1>b, <2>1, <2>3
<1>2. CASE R!StartCheck
  <2>1. /\ check.todo = {} /\ check' = [on |-> TRUE, at |-> now,
                                       todo |-> {s \in Schedules : R!IsDue(lastRun[s], now)}]
        /\ UNCHANGED <<now, lastRun, firstRun, sending, delivered, logged, reportFaults>>
    BY <1>0, <1>2 DEF R!StartCheck
  <2>2. \A s \in Schedules : sending # s
    BY <1>a, <2>1 DEF InOrder
  <2>3. \A s \in Schedules : R!IsDue(lastRun[s], now) =>
                               lastRun[s] # R!Never /\ R!NextSlot(lastRun[s]) <= now
    <3>1. now \div Period + 1 <= now \div Period => FALSE
      BY <1>0, SlotsFollowClock
    <3>2. ~(R!NextSlot(now) <= now)
      BY <1>0, <3>1, SlotsFollowClock
    <3> QED
      BY <3>2 DEF R!IsDue
  <2>4. \A s \in Schedules : InOrder(s)'
    BY <1>0, <1>a, <2>1, <2>2, <2>3 DEF InOrder
  <2>5. Checks'
    BY <1>0, <2>1
  <2> QED
    BY <1>b, <2>1, <2>4, <2>5
<1>3. CASE R!EndCheck \/ \E s \in Schedules : R!Reject(s)
  <2>1. /\ check' = R!NoCheck /\ sending = R!None
        /\ UNCHANGED <<now, lastRun, firstRun, sending, delivered, logged, reportFaults>>
    BY <1>3 DEF R!EndCheck, R!Reject
  <2>2. check'.todo = {} /\ ~check'.on /\ R!None \notin Schedules
    BY <2>1 DEF R!NoCheck, R!ScheduleAssumption
  <2>3. \A s \in Schedules : InOrder(s)'
    BY <1>a, <2>1, <2>2 DEF InOrder
  <2> QED
    BY <1>b, <2>1, <2>2, <2>3
<1>4. CASE R!Record
  <2>1. PICK r \in Schedules : sending = r
    BY <1>0, <1>4 DEF R!Record, R!TypeOK
  <2>2. /\ lastRun'[r] = check.at /\ \A s \in Schedules \ {r} : lastRun'[s] = lastRun[s]
        /\ logged'[r] = logged[r] + 1 /\ \A s \in Schedules \ {r} : logged'[s] = logged[s]
        /\ check'.on = check.on /\ check'.at = check.at /\ check'.todo = check.todo \ {r}
        /\ sending' = R!None /\ UNCHANGED <<now, firstRun, delivered, reportFaults>>
    BY <1>0, <1>4, <2>1 DEF R!Record, R!TypeOK
  <2>3. R!None \notin Schedules /\ r \in check.todo /\ check.on
    BY <1>0, <1>a, <2>1 DEF R!ScheduleAssumption, InOrder
  <2>4. \A s \in Schedules : Out(s)' = 0 /\ (Out(s) = IF s = r THEN 1 ELSE 0)
    BY <2>1, <2>2, <2>3 DEF Out
  <2>5. Checks'
    BY <1>0, <2>2
  <2>6. ASSUME NEW s \in Schedules \ {r} PROVE InOrder(s)' /\ SentFor(s)'
    <3>1. SlotsRecorded(s)' = SlotsRecorded(s)
      BY <2>2 DEF SlotsRecorded
    <3>2. InOrder(s)'
      BY <1>a, <2>1, <2>2, <2>3 DEF InOrder
    <3>3. SentFor(s)'
      BY <1>a, <2>2, <2>4, <3>1 DEF SentFor
    <3> QED
      BY <3>2, <3>3
  <2>7. /\ lastRun[r] # R!Never /\ lastRun[r] \in Nat /\ firstRun[r] \in Nat
        /\ firstRun[r] <= lastRun[r] /\ firstRun[r] # R!Never
        /\ R!NextSlot(lastRun[r]) <= check.at
    BY <1>0, <1>a, <2>3, ReportNumbers DEF InOrder
  <2>8. lastRun[r] <= check.at
    <3>1. CASE check.at < lastRun[r]
      <4>1. check.at \div Period <= lastRun[r] \div Period /\ lastRun[r] \div Period \in Nat
        BY <1>0, <2>7, <3>1, SlotsFollowClock
      <4>2. R!NextSlot(lastRun[r]) <= lastRun[r]
        <5>1. Period \in Nat /\ lastRun[r] \div Period + 1 \in Nat
          BY <4>1 DEF R!ScheduleAssumption
        <5>2. R!NextSlot(lastRun[r]) \in Nat
          BY <5>1 DEF R!NextSlot
        <5> QED
          BY <1>0, <2>7, <3>1, <5>2
      <4>3. lastRun[r] \div Period + 1 <= lastRun[r] \div Period
        BY <2>7, <4>2, SlotsFollowClock
      <4> QED
        BY <4>1, <4>3
    <3> QED
      BY <1>0, <2>7, <3>1
  <2>9. InOrder(r)'
    <3>1. check.at # R!Never
      BY <1>0 DEF R!TypeOK, R!Never, R!ScheduleAssumption
    <3>2. firstRun[r] <= check.at /\ check.at <= now
      BY <1>0, <2>3, <2>7, <2>8
    <3> QED
      BY <2>2, <2>3, <2>7, <3>1, <3>2 DEF InOrder
  <2>10. SentFor(r)'
    <3>1. /\ lastRun[r] \div Period + 1 <= check.at \div Period
          /\ lastRun[r] \div Period \in Nat /\ check.at \div Period \in Nat
      BY <1>0, <2>7, <2>8, SlotsFollowClock
    <3>2. firstRun[r] \div Period \in Nat
      BY <2>7, SlotsFollowClock
    <3>3. SlotsRecorded(r) = lastRun[r] \div Period - firstRun[r] \div Period
      BY <2>7 DEF SlotsRecorded
    <3>4. SlotsRecorded(r)' = check.at \div Period - firstRun[r] \div Period
      BY <2>2, <2>7, <2>9 DEF SlotsRecorded, InOrder
    <3>5. SlotsRecorded(r)' \in Nat /\ SlotsRecorded(r) + 1 <= SlotsRecorded(r)'
      BY <1>a, <3>1, <3>2, <3>3, <3>4
    <3> QED
      BY <1>a, <2>2, <2>4, <3>5 DEF SentFor
  <2> QED
    BY <2>5, <2>6, <2>9, <2>10
<1>5. CASE R!Abort
  <2>1. /\ check' = R!NoCheck /\ sending' = R!None /\ reportFaults' = reportFaults + 1
        /\ UNCHANGED <<now, lastRun, firstRun, delivered, logged>>
    BY <1>5 DEF R!Abort, R!Fault
  <2>2. check'.todo = {} /\ ~check'.on /\ R!None \notin Schedules
    BY <2>1 DEF R!NoCheck, R!ScheduleAssumption
  <2>3. \A s \in Schedules : InOrder(s)'
    BY <1>a, <2>1, <2>2 DEF InOrder
  <2>4. \A s \in Schedules : Out(s)' = 0 /\ SlotsRecorded(s)' = SlotsRecorded(s)
    BY <2>1, <2>2 DEF Out, SlotsRecorded
  <2>5. \A s \in Schedules : SentFor(s)'
    BY <1>a, <2>1, <2>4 DEF SentFor
  <2> QED
    BY <2>2, <2>3, <2>5
<1>6. ASSUME NEW r \in Schedules, R!Send(r)
      PROVE  Checks' /\ \A s \in Schedules : InOrder(s)' /\ SentFor(s)'
  <2>1. /\ r \in check.todo /\ sending = R!None /\ sending' = r
        /\ delivered'[r] = delivered[r] + 1
        /\ \A s \in Schedules \ {r} : delivered'[s] = delivered[s]
        /\ UNCHANGED <<now, lastRun, firstRun, check, logged, reportFaults>>
    BY <1>0, <1>6 DEF R!Send, R!TypeOK
  <2>2. R!None \notin Schedules
    BY DEF R!ScheduleAssumption
  <2>3. \A s \in Schedules : InOrder(s)'
    BY <1>a, <2>1 DEF InOrder
  <2>4. \A s \in Schedules : /\ Out(s) = 0 /\ (Out(s)' = IF s = r THEN 1 ELSE 0)
                             /\ SlotsRecorded(s)' = SlotsRecorded(s)
    BY <2>1, <2>2 DEF Out, SlotsRecorded
  <2>5. \A s \in Schedules : SentFor(s)'
    BY <1>a, <2>1, <2>4 DEF SentFor
  <2> QED
    BY <1>0, <2>1, <2>3, <2>5
<1>7. ASSUME NEW r \in Schedules, R!SendFails(r)
      PROVE  Checks' /\ \A s \in Schedules : InOrder(s)' /\ SentFor(s)'
  <2>1. /\ sending = R!None /\ reportFaults' = reportFaults + 1
        /\ delivered'[r] = delivered[r] \/ delivered'[r] = delivered[r] + 1
        /\ \A s \in Schedules \ {r} : delivered'[s] = delivered[s]
        /\ check'.on = check.on /\ check'.at = check.at /\ check'.todo = check.todo \ {r}
        /\ UNCHANGED <<now, lastRun, firstRun, sending, logged>>
    BY <1>0, <1>7 DEF R!SendFails, R!TypeOK, R!Fault
  <2>2. R!None \notin Schedules
    BY DEF R!ScheduleAssumption
  <2>3. \A s \in Schedules : InOrder(s)'
    BY <1>a, <2>1, <2>2 DEF InOrder
  <2>4. \A s \in Schedules : Out(s) = 0 /\ Out(s)' = 0 /\ SlotsRecorded(s)' = SlotsRecorded(s)
    BY <2>1, <2>2 DEF Out, SlotsRecorded
  <2>5. \A s \in Schedules : SentFor(s)'
    BY <1>a, <2>1, <2>4 DEF SentFor
  <2>6. Checks'
    BY <1>0, <2>1
  <2> QED
    BY <2>3, <2>5, <2>6
<1>8. CASE UNCHANGED R!vars
  <2>1. UNCHANGED <<now, lastRun, firstRun, check, sending, delivered, logged, reportFaults>>
    BY <1>8 DEF R!vars
  <2>2. \A s \in Schedules : InOrder(s)'
    BY <1>a, <2>1 DEF InOrder
  <2> QED
    BY <1>0, <1>b, <2>1, <2>2
<1> QED
  BY <1>1, <1>2, <1>3, <1>4, <1>5, <1>6, <1>7, <1>8 DEF R!Next

(* For every period and every set of schedules: a report goes out at most once per slot *)
(* and once more per fault, and the delivery log claims only what was sent and misses   *)
(* only what a fault took (report_scheduler.py:140-152).                                *)
THEOREM DeliveriesStayAccounted == R!Spec => []DeliveriesAccounted
<1>0. R!ScheduleAssumption
  BY OutboundAssumption
<1> USE <1>0 DEF DeliveriesAccounted
<1>1. R!Init => ReportInv
  <2> SUFFICES ASSUME R!Init PROVE ReportInv
    OBVIOUS
  <2> USE DEF R!Init, R!ScheduleAssumption
  <2>1. R!TypeOK
    BY DEF R!TypeOK, R!NoCheck
  <2>2. check.todo = {} /\ ~check.on
    BY DEF R!NoCheck
  <2>3. ASSUME NEW s \in Schedules PROVE InOrder(s) /\ SentFor(s)
    <3>1. InOrder(s)
      BY <2>2 DEF InOrder
    <3>2. Out(s) = 0 /\ delivered[s] = 0 /\ logged[s] = 0 /\ reportFaults = 0
      BY DEF Out
    <3>3. SlotsRecorded(s) \in Nat
      BY <2>1, <3>1, ReportNumbers
    <3> QED
      BY <3>1, <3>2, <3>3 DEF SentFor
  <2> QED
    BY <2>1, <2>2, <2>3 DEF ReportInv
<1>2. ReportInv /\ [R!Next]_R!vars => ReportInv'
  BY ReportStep
<1>3. ReportInv => R!DeliveriesAccounted
  <2> SUFFICES ASSUME ReportInv, NEW s \in Schedules
               PROVE  /\ delivered[s] <= R!SlotsPassed(s) + reportFaults
                      /\ logged[s] <= delivered[s]
                      /\ delivered[s] <= logged[s] + reportFaults + (IF sending = s THEN 1 ELSE 0)
    BY DEF R!DeliveriesAccounted
  <2>1. /\ InOrder(s) /\ SentFor(s) /\ R!TypeOK
        /\ check.on => check.at <= now
        /\ ~check.on => check.todo = {}
    BY DEF ReportInv
  <2>2. /\ delivered[s] \in Nat /\ logged[s] \in Nat /\ reportFaults \in Nat /\ now \in Nat
        /\ Out(s) \in {0, 1} /\ SlotsRecorded(s) \in Nat
        /\ lastRun[s] # R!Never => lastRun[s] \in Nat /\ firstRun[s] \in Nat
    BY <2>1, ReportNumbers
  <2>3. SlotsRecorded(s) + Out(s) <= R!SlotsPassed(s) /\ R!SlotsPassed(s) \in Int
    <3>1. CASE lastRun[s] = R!Never
      BY <2>1, <3>1 DEF SlotsRecorded, R!SlotsPassed, InOrder, Out
    <3>2. CASE lastRun[s] # R!Never
      <4>1. /\ lastRun[s] \div Period \in Nat /\ now \div Period \in Nat
            /\ lastRun[s] \div Period <= now \div Period
            /\ R!NextSlot(lastRun[s]) <= now => lastRun[s] \div Period + 1 <= now \div Period
        BY <2>1, <2>2, <3>2, SlotsFollowClock DEF InOrder
      <4>2. firstRun[s] \div Period \in Nat
        BY <2>2, <3>2, SlotsFollowClock
      <4>3. SlotsRecorded(s) = lastRun[s] \div Period - firstRun[s] \div Period
        BY <3>2 DEF SlotsRecorded
      <4>4. R!SlotsPassed(s) = now \div Period - firstRun[s] \div Period
        BY <2>1, <3>2 DEF R!SlotsPassed, InOrder
      <4>5. Out(s) = 1 => R!NextSlot(lastRun[s]) <= now
        <5>1. Out(s) = 1 => s \in check.todo
          BY <2>1 DEF Out, InOrder
        <5>2. /\ R!NextSlot(lastRun[s]) \in Nat /\ check.at \in Nat
              /\ s \in check.todo => R!NextSlot(lastRun[s]) <= check.at /\ check.at <= now
          BY <2>1, <4>1 DEF R!NextSlot, R!ScheduleAssumption, InOrder, R!TypeOK
        <5> QED
          BY <2>2, <5>1, <5>2
      <4>6. lastRun[s] \div Period + Out(s) <= now \div Period
        BY <2>2, <4>1, <4>5
      <4> HIDE DEF Out, SlotsRecorded
      <4> QED
        BY <2>2, <4>1, <4>2, <4>3, <4>4, <4>6
    <3> QED
      BY <3>1, <3>2
  <2>4. delivered[s] <= SlotsRecorded(s) + reportFaults + Out(s) /\ logged[s] + Out(s) <= delivered[s]
        /\ delivered[s] <= logged[s] + reportFaults + Out(s)
    BY <2>1 DEF SentFor
  <2>5. delivered[s] <= R!SlotsPassed(s) + reportFaults
    BY <2>2, <2>3, <2>4
  <2>6. logged[s] <= delivered[s]
    BY <2>2, <2>4
  <2> QED
    BY <2>4, <2>5, <2>6 DEF Out
<1> QED
  BY <1>1, <1>2, <1>3, PTL DEF R!Spec
-----------------------------------------------------------------------------
(***************************************************************************)
(* Threat intelligence.  Whatever an enricher carries was listed by a      *)
(* source, and whatever it has found is stored; a push is a message, a job *)
(* or an end of one.                                                       *)
(***************************************************************************)
Listed(v) == \E s \in Sources : <<s, v>> \in known
(* The source whose answer the cache keeps when all of them answer. *)
First(v) == I!CachedBest(v, I!Answers(v, {}))

CacheBacked == \A v \in Indicators : cache[v] \in Sources => <<cache[v], v>> \in known

JobBacked(n) ==
  /\ job[n].todo \subseteq IndicatorsOf[job[n].alert]
  /\ job[n].insert \subseteq job[n].hits
  /\ job[n].found \subseteq iocs
  /\ \A e \in job[n].hits \cup job[n].found : e \in known /\ e[2] \in IndicatorsOf[job[n].alert]
JobsBacked ==
  \A n \in Enrichers : IF job[n].on THEN JobBacked(n) ELSE job[n].hits = {} /\ job[n].insert = {}

MatchesOfKnown ==
  \A a \in Alerts : \A e \in I!Entries :
    /\ matches[a][e] <= done[a]
    /\ matches[a][e] > 0 => e \in known \cap iocs /\ e[2] \in IndicatorsOf[a]

(* Without a fault nothing that is listed is missed on the way. *)
JobThrough(n) ==
  \A v \in IndicatorsOf[job[n].alert] \ job[n].todo :
    Listed(v) => <<First(v), v>> \in job[n].hits \cup job[n].found
NothingMissed ==
  intelFaults = 0 =>
    /\ \A v \in Indicators : Listed(v) /\ cache[v] # I!Missing => cache[v] = First(v)
    /\ \A n \in Enrichers : job[n].on => JobThrough(n)
    /\ \A a \in Alerts : \A v \in IndicatorsOf[a] :
         Listed(v) => matches[a][<<First(v), v>>] >= done[a]

(* The messages and the jobs of an alert. *)
Places(q, a) == {i \in 1..Len(q) : q[i] = a}
Waiting(a) == Places(intelQueue, a)
Working(a) == {n \in Enrichers : job[n].on /\ job[n].alert = a}
PushesAccounted ==
  \A a \in Alerts :
    /\ IsFiniteSet(Working(a))
    /\ done[a] + intelDead[a] + Cardinality(Waiting(a)) + Cardinality(Working(a)) <= pushes[a]

IntelInv ==
  I!TypeOK /\ CacheBacked /\ JobsBacked /\ MatchesOfKnown /\ NothingMissed /\ PushesAccounted

\* If anybody lists v, the first to do so is a source that lists it.
LEMMA FirstLists ==
    ASSUME I!IntelAssumption, NEW v \in Indicators, NEW failed \in SUBSET Sources
    PROVE  LET hits == I!Answers(v, failed)  c == I!CachedBest(v, hits)
           IN  /\ hits \subseteq known /\ hits \subseteq Sources \X {v}
               /\ hits # {} => c \in Sources /\ <<c, v>> \in hits
               /\ hits = {} => c = I!Clean
               /\ I!Clean \notin Sources /\ I!Missing \notin Sources /\ c # I!Missing
<1>1. I!Clean \notin Sources /\ I!Missing \notin Sources
  BY DEF I!IntelAssumption, I!Clean, I!Missing
<1>2. \A e \in I!Answers(v, failed) : e \in known /\ e[2] = v
          /\ e \in {<<"otx", v>>, <<"misp", v>>, <<"virustotal", v>>} /\ e[1] \in Sources
          /\ e \in Sources \X {v}
  <2> TAKE e \in I!Answers(v, failed)
  <2>1. PICK s \in Sources : <<s, v>> \in known /\ e = <<s, v>>
    BY DEF I!Answers
  <2> QED
    BY <2>1 DEF I!IntelAssumption
<1>3. I!CachedBest(v, I!Answers(v, failed)) # I!Missing
  BY DEF I!CachedBest, I!Missing, I!Clean
<1>4. ASSUME I!Answers(v, failed) = {} PROVE I!CachedBest(v, I!Answers(v, failed)) = I!Clean
  BY <1>4 DEF I!CachedBest
<1>5. ASSUME I!Answers(v, failed) # {}
      PROVE  LET c == I!CachedBest(v, I!Answers(v, failed))
             IN  c \in Sources /\ <<c, v>> \in I!Answers(v, failed)
  <2>1. PICK e \in I!Answers(v, failed) : TRUE
    BY <1>5
  <2>2. \A s : <<s, v>> \in I!Answers(v, failed) => s \in Sources
    BY <1>2
  <2> QED
    BY <1>2, <2>1, <2>2 DEF I!CachedBest
<1> QED
  BY <1>1, <1>2, <1>3, <1>4, <1>5

LEMMA ListedFirst ==
    ASSUME I!IntelAssumption, NEW v \in Indicators
    PROVE  /\ Listed(v) => First(v) \in Sources /\ <<First(v), v>> \in known
           /\ Listed(v) <=> I!Answers(v, {}) # {}
<1>1. I!Answers(v, {}) = {<<s, v>> : s \in {s \in Sources : <<s, v>> \in known}}
  BY DEF I!Answers
<1>2. Listed(v) <=> I!Answers(v, {}) # {}
  BY <1>1 DEF Listed
<1> QED
  BY <1>2, FirstLists DEF First

LEMMA IntelTypes ==
    ASSUME I!IntelAssumption, I!TypeOK, [I!Next]_I!vars
    PROVE  I!TypeOK'
<1> DEFINE Jobs0 == [on : BOOLEAN, alert : Alerts, todo : SUBSET Indicators,
                     hits : SUBSET I!Entries, insert : SUBSET I!Entries, found : SUBSET I!Entries]
<1>0. /\ known \subseteq I!Entries /\ iocs \subseteq I!Entries /\ intelQueue \in Seq(Alerts)
      /\ cache \in [Indicators -> Sources \cup {I!Missing, I!Clean}]
      /\ matches \in [Alerts -> [I!Entries -> Nat]] /\ job \in [Enrichers -> Jobs0]
      /\ feed.on \in BOOLEAN /\ feed.new \subseteq I!Entries /\ feed \in [on : BOOLEAN, new : SUBSET I!Entries]
      /\ pushes \in [Alerts -> 0..MaxPushes]
      /\ done \in [Alerts -> Nat] /\ intelDead \in [Alerts -> Nat] /\ intelFaults \in 0..MaxIntelFaults
  BY DEF I!TypeOK, I!Iocs, I!Matches
<1>f. I!Free \in Jobs0
  <2>1. (CHOOSE a \in Alerts : TRUE) \in Alerts
    BY DEF I!IntelAssumption
  <2> QED
    BY <2>1 DEF I!Free
<1>j. ASSUME NEW n \in Enrichers, NEW r \in Jobs0, job' = [job EXCEPT ![n] = r]
      PROVE  job' \in [Enrichers -> Jobs0]
  <2> HIDE DEF Jobs0
  <2> QED
    BY <1>0, <1>j
<1>h. \A n \in Enrichers : job[n] \in Jobs0
  <2> HIDE DEF Jobs0
  <2> QED
    BY <1>0
<1>t. ASSUME known' \subseteq I!Entries, iocs' \subseteq I!Entries, intelQueue' \in Seq(Alerts),
             cache' \in [Indicators -> Sources \cup {I!Missing, I!Clean}],
             matches' \in [Alerts -> [I!Entries -> Nat]], job' \in [Enrichers -> Jobs0],
             feed' \in [on : BOOLEAN, new : SUBSET I!Entries], pushes' \in [Alerts -> 0..MaxPushes],
             done' \in [Alerts -> Nat], intelDead' \in [Alerts -> Nat], intelFaults' \in 0..MaxIntelFaults
      PROVE  I!TypeOK'
  BY <1>t DEF I!TypeOK, I!Iocs, I!Matches, I!Entries
<1>x. ASSUME I!Fault PROVE intelFaults' \in 0..MaxIntelFaults
  BY <1>0, <1>x DEF I!Fault, I!IntelAssumption
<1>1. ASSUME NEW a \in Alerts, I!Push(a) PROVE I!TypeOK'
  <2>1. intelQueue' \in Seq(Alerts) /\ pushes' \in [Alerts -> 0..MaxPushes]
    BY <1>0, <1>1 DEF I!Push, I!IntelAssumption
  <2> QED
    BY <1>0, <1>1, <1>t, <2>1 DEF I!Push
<1>2. ASSUME NEW v \in Indicators, I!Expire(v) PROVE I!TypeOK'
  BY <1>0, <1>2, <1>t DEF I!Expire
<1>3. CASE I!FeedRead
  <2>1. feed' \in [on : BOOLEAN, new : SUBSET I!Entries]
    BY <1>0, <1>3 DEF I!FeedRead
  <2> QED
    BY <1>0, <1>3, <1>t, <2>1 DEF I!FeedRead
<1>4. CASE I!FeedCommit
  <2>1. feed' \in [on : BOOLEAN, new : SUBSET I!Entries] /\ iocs' \subseteq I!Entries
    BY <1>0, <1>4 DEF I!FeedCommit, I!NoFeed
  <2> QED
    BY <1>0, <1>4, <1>t, <2>1 DEF I!FeedCommit
<1>5. ASSUME NEW n \in Enrichers, I!Pop(n) PROVE I!TypeOK'
  <2>1. Len(intelQueue) \in Nat \ {0} /\ \A i \in 1 .. Len(intelQueue) : intelQueue[i] \in Alerts
    BY <1>0, <1>5, EmptySeq, LenProperties, ElementOfSeq DEF I!Pop
  <2>2. intelQueue' \in Seq(Alerts) /\ intelQueue[Len(intelQueue)] \in Alerts
    BY <1>5, <2>1, SubSeqProperties DEF I!Pop
  <2>3. [I!Free EXCEPT !.on = TRUE, !.alert = intelQueue[Len(intelQueue)],
                       !.todo = IndicatorsOf[intelQueue[Len(intelQueue)]]] \in Jobs0
    BY <1>f, <2>2 DEF I!IntelAssumption
  <2>4. job' \in [Enrichers -> Jobs0]
    BY <1>5, <1>j, <2>3 DEF I!Pop
  <2> QED
    BY <1>0, <1>5, <1>t, <2>2, <2>4 DEF I!Pop
<1>6. ASSUME NEW n \in Enrichers, I!Finish(n) PROVE I!TypeOK'
  <2>1. job' \in [Enrichers -> Jobs0] /\ job[n].alert \in Alerts
    BY <1>0, <1>6, <1>f, <1>j DEF I!Finish
  <2>2. done' \in [Alerts -> Nat]
    BY <1>0, <1>6, <2>1 DEF I!Finish
  <2>3. matches' \in [Alerts -> [I!Entries -> Nat]]
    BY <1>0, <1>6, <2>1 DEF I!Finish
  <2> QED
    BY <1>0, <1>6, <1>t, <2>1, <2>2, <2>3 DEF I!Finish
<1>7. ASSUME NEW n \in Enrichers, I!Fail(n) \/ I!Crash(n) PROVE I!TypeOK'
  <2>1. job' \in [Enrichers -> Jobs0] /\ intelFaults' \in 0..MaxIntelFaults
    BY <1>7, <1>f, <1>j, <1>x DEF I!Fail, I!Crash, I!DeadLetter
  <2>2. intelDead' \in [Alerts -> Nat]
    <3>1. job[n].alert \in Alerts
      BY <1>0
    <3>2. CASE intelDead' = [intelDead EXCEPT ![job[n].alert] = @ + 1]
      BY <1>0, <3>1, <3>2
    <3>3. CASE intelDead' = intelDead
      BY <1>0, <3>3
    <3> QED
      BY <1>7, <3>2, <3>3 DEF I!Fail, I!Crash, I!DeadLetter
  <2> QED
    BY <1>0, <1>7, <1>t, <2>1, <2>2 DEF I!Fail, I!Crash
<1>8. ASSUME NEW n \in Enrichers, NEW v \in Indicators, I!LookupCached(n, v) PROVE I!TypeOK'
  <2> DEFINE hits == IF cache[v] = I!Clean THEN {} ELSE {<<cache[v], v>>}
  <2>1. hits \subseteq I!Entries
    BY <1>0, <1>8 DEF I!LookupCached, I!Entries
  <2>2. [job[n] EXCEPT !.todo = @ \ {v}, !.hits = hits] \in Jobs0
    <3> HIDE DEF hits
    <3> QED
      BY <1>h, <2>1
  <2>3. job' = [job EXCEPT ![n] = [job[n] EXCEPT !.todo = @ \ {v}, !.hits = hits]]
    BY <1>0, <1>8 DEF I!LookupCached
  <2>4. job' \in [Enrichers -> Jobs0]
    BY <1>j, <2>2, <2>3
  <2> QED
    BY <1>0, <1>8, <1>t, <2>4 DEF I!LookupCached
<1>9. ASSUME NEW n \in Enrichers, NEW v \in Indicators, I!Lookup(n, v) PROVE I!TypeOK'
  <2>1. PICK failed \in SUBSET Sources :
          LET hits == I!Answers(v, failed)
          IN  /\ IF failed = {} THEN UNCHANGED intelFaults ELSE I!Fault
              /\ cache' = [cache EXCEPT ![v] = I!CachedBest(v, hits)]
              /\ job' = [job EXCEPT ![n].todo = @ \ {v}, ![n].hits = hits]
    BY <1>9 DEF I!Lookup
  <2> DEFINE hits == I!Answers(v, failed)
  <2>2. /\ hits \subseteq known
        /\ I!CachedBest(v, hits) \in Sources \cup {I!Clean}
    BY FirstLists
  <2>3. cache' \in [Indicators -> Sources \cup {I!Missing, I!Clean}]
    BY <1>0, <2>1, <2>2
  <2>4. [job[n] EXCEPT !.todo = @ \ {v}, !.hits = hits] \in Jobs0
    <3>1. hits \in SUBSET I!Entries
      BY <1>0, <2>2
    <3> HIDE DEF hits
    <3> QED
      BY <1>h, <3>1
  <2>5. job' = [job EXCEPT ![n] = [job[n] EXCEPT !.todo = @ \ {v}, !.hits = hits]]
    <3>1. job' = [job EXCEPT ![n].todo = @ \ {v}, ![n].hits = hits]
      BY <2>1
    <3> HIDE DEF hits
    <3> QED
      BY <1>0, <3>1
  <2>6. job' \in [Enrichers -> Jobs0]
    BY <1>j, <2>4, <2>5
  <2>7. intelFaults' \in 0..MaxIntelFaults
    BY <1>0, <1>x, <2>1
  <2> QED
    BY <1>0, <1>9, <1>t, <2>3, <2>6, <2>7 DEF I!Lookup
<1>10. ASSUME NEW n \in Enrichers, NEW e \in I!Entries, I!UpsertKnown(n, e) PROVE I!TypeOK'
  <2>1. [job[n] EXCEPT !.hits = @ \ {e}, !.found = @ \cup {e}] \in Jobs0
    BY <1>h
  <2>2. job' = [job EXCEPT ![n] = [job[n] EXCEPT !.hits = @ \ {e}, !.found = @ \cup {e}]]
    BY <1>0, <1>10 DEF I!UpsertKnown
  <2> QED
    BY <1>0, <1>10, <1>j, <1>t, <2>1, <2>2 DEF I!UpsertKnown
<1>11. ASSUME NEW n \in Enrichers, NEW e \in I!Entries, I!UpsertNew(n, e) PROVE I!TypeOK'
  <2>1. [job[n] EXCEPT !.insert = {e}] \in Jobs0
    BY <1>h
  <2> QED
    BY <1>0, <1>11, <1>j, <1>t, <2>1 DEF I!UpsertNew
<1>12. ASSUME NEW n \in Enrichers, NEW e \in I!Entries, I!Insert(n, e) PROVE I!TypeOK'
  <2>1. CASE /\ iocs' = iocs \cup {e} /\ UNCHANGED intelDead
             /\ job' = [job EXCEPT ![n].hits = @ \ {e}, ![n].insert = {}, ![n].found = @ \cup {e}]
    <3>1. [job[n] EXCEPT !.hits = @ \ {e}, !.insert = {}, !.found = @ \cup {e}] \in Jobs0
      BY <1>h
    <3>2. job' = [job EXCEPT ![n] =
                    [job[n] EXCEPT !.hits = @ \ {e}, !.insert = {}, !.found = @ \cup {e}]]
      BY <1>0, <2>1
    <3>3. iocs' \subseteq I!Entries
      BY <1>0, <2>1
    <3>4. job' \in [Enrichers -> Jobs0]
      BY <1>j, <3>1, <3>2
    <3> HIDE DEF Jobs0
    <3> QED
      BY <1>0, <1>12, <1>t, <2>1, <3>3, <3>4 DEF I!Insert
  <2>2. CASE I!DeadLetter(n) /\ UNCHANGED iocs
    <3>1. job' \in [Enrichers -> Jobs0] /\ intelDead' \in [Alerts -> Nat]
      BY <1>0, <1>f, <1>j, <2>2 DEF I!DeadLetter
    <3> QED
      BY <1>0, <1>12, <1>t, <2>2, <3>1 DEF I!Insert
  <2> QED
    BY <1>12, <2>1, <2>2 DEF I!Insert
<1>13. CASE UNCHANGED I!vars
  BY <1>0, <1>13, <1>t DEF I!vars
<1> QED
  BY <1>1, <1>2, <1>3, <1>4, <1>5, <1>6, <1>7, <1>8, <1>9, <1>10, <1>11, <1>12, <1>13 DEF I!Next

\* What the actions of an enricher leave in its own job, and in the others.
LEMMA IntelFrame ==
    ASSUME JobsBacked, known' = known, iocs \subseteq iocs', NEW n \in Enrichers,
           \A m \in Enrichers \ {n} : job'[m] = job[m],
           IF job'[n].on THEN JobBacked(n)' ELSE job'[n].hits = {} /\ job'[n].insert = {}
    PROVE  JobsBacked'
BY DEF JobsBacked, JobBacked

\* Of a step that commits no match, only the entries stored and the ends of jobs matter.
LEMMA MatchesKept ==
    ASSUME MatchesOfKnown, known' = known, iocs \subseteq iocs', UNCHANGED <<matches, done>>
    PROVE  MatchesOfKnown'
BY DEF MatchesOfKnown, I!Entries

\* The same for what a run without intelFaults misses.
LEMMA NothingMissedKept ==
    ASSUME I!IntelAssumption, I!TypeOK, NothingMissed, known' = known, UNCHANGED <<matches, done>>,
           intelFaults' = 0 => intelFaults = 0, NEW n \in Enrichers,
           \A m \in Enrichers \ {n} : job'[m] = job[m],
           \A v \in Indicators : Listed(v) /\ intelFaults' = 0 /\ cache'[v] # I!Missing =>
                                   cache'[v] = First(v) \/ cache'[v] = cache[v],
           intelFaults' = 0 /\ job'[n].on => JobThrough(n)'
    PROVE  NothingMissed'
<1>1. \A v \in Indicators : First(v)' = First(v) /\ (Listed(v)' <=> Listed(v))
  BY DEF First, Listed, I!Answers, I!CachedBest, I!Clean
<1>2. SUFFICES ASSUME intelFaults' = 0
               PROVE  /\ \A v \in Indicators : Listed(v)' /\ cache'[v] # I!Missing =>
                                                 cache'[v] = First(v)'
                      /\ \A m \in Enrichers : job'[m].on => JobThrough(m)'
                      /\ \A a \in Alerts : \A v \in IndicatorsOf[a] :
                           Listed(v)' => matches'[a][<<First(v)', v>>] >= done'[a]
  BY DEF NothingMissed, I!Missing
<1>3. /\ \A v \in Indicators : Listed(v) /\ cache[v] # I!Missing => cache[v] = First(v)
      /\ \A m \in Enrichers : job[m].on => JobThrough(m)
      /\ \A a \in Alerts : \A v \in IndicatorsOf[a] :
           Listed(v) => matches[a][<<First(v), v>>] >= done[a]
  BY <1>2 DEF NothingMissed
<1>4. \A a \in Alerts : IndicatorsOf[a] \subseteq Indicators
  BY DEF I!IntelAssumption
<1>5. ASSUME NEW m \in Enrichers \ {n}, job'[m].on PROVE JobThrough(m)'
  <2>1. job[m].on /\ JobThrough(m) /\ job'[m] = job[m] /\ IndicatorsOf[job[m].alert] \subseteq Indicators
    BY <1>3, <1>4, <1>5 DEF I!TypeOK
  <2> QED
    BY <1>1, <2>1 DEF JobThrough
<1>6. \A v \in Indicators : Listed(v)' /\ cache'[v] # I!Missing => cache'[v] = First(v)'
  BY <1>1, <1>2, <1>3
<1>7. \A a \in Alerts : \A v \in IndicatorsOf[a] :
        Listed(v)' => matches'[a][<<First(v)', v>>] >= done'[a]
  BY <1>1, <1>3, <1>4
<1> QED
  BY <1>2, <1>5, <1>6, <1>7

\* What each action of an enricher does to its job.
LEMMA IntelJobs ==
    ASSUME I!IntelAssumption, I!TypeOK, NEW n \in Enrichers
    PROVE  /\ I!Pop(n) => /\ ~job[n].on /\ job'[n].on /\ job'[n].alert = intelQueue[Len(intelQueue)]
                          /\ job'[n].todo = IndicatorsOf[job'[n].alert] /\ job'[n].hits = {}
                          /\ job'[n].insert = {} /\ job'[n].found = {}
           /\ I!Finish(n) \/ I!Fail(n) \/ I!Crash(n) \/ I!DeadLetter(n) =>
                ~job'[n].on /\ job'[n].hits = {} /\ job'[n].insert = {}
           /\ \A v \in Indicators : I!LookupCached(n, v) =>
                /\ UNCHANGED <<job[n].on, job[n].alert, job[n].insert, job[n].found>>
                /\ job'[n].todo = job[n].todo \ {v}
                /\ job'[n].hits = IF cache[v] = I!Clean THEN {} ELSE {<<cache[v], v>>}
           /\ \A v \in Indicators : I!Lookup(n, v) =>
                /\ UNCHANGED <<job[n].on, job[n].alert, job[n].insert, job[n].found>>
                /\ job'[n].todo = job[n].todo \ {v}
                /\ \E failed \in SUBSET Sources :
                     /\ failed = {} \/ intelFaults' = intelFaults + 1
                     /\ job'[n].hits = I!Answers(v, failed)
                     /\ cache' = [cache EXCEPT ![v] = I!CachedBest(v, I!Answers(v, failed))]
           /\ \A e \in I!Entries : I!UpsertKnown(n, e) =>
                /\ UNCHANGED <<job[n].on, job[n].alert, job[n].todo, job[n].insert>>
                /\ job'[n].hits = job[n].hits \ {e} /\ job'[n].found = job[n].found \cup {e}
           /\ \A e \in I!Entries : I!UpsertNew(n, e) =>
                /\ UNCHANGED <<job[n].on, job[n].alert, job[n].todo, job[n].hits, job[n].found>>
                /\ job'[n].insert = {e}
           /\ \A e \in I!Entries : I!Insert(n, e) =>
                \/ /\ UNCHANGED <<job[n].on, job[n].alert, job[n].todo, intelDead>>
                   /\ iocs' = iocs \cup {e} /\ job'[n].insert = {}
                   /\ job'[n].hits = job[n].hits \ {e} /\ job'[n].found = job[n].found \cup {e}
                \/ I!DeadLetter(n) /\ UNCHANGED iocs
<1> DEFINE r == job[n]
<1>0. /\ n \in DOMAIN job
      /\ r \in [on : BOOLEAN, alert : Alerts, todo : SUBSET Indicators, hits : SUBSET I!Entries,
                insert : SUBSET I!Entries, found : SUBSET I!Entries]
  BY DEF I!TypeOK
<1>1. ASSUME I!Pop(n)
      PROVE  /\ ~job[n].on /\ job'[n].on /\ job'[n].alert = intelQueue[Len(intelQueue)]
             /\ job'[n].todo = IndicatorsOf[job'[n].alert] /\ job'[n].hits = {}
             /\ job'[n].insert = {} /\ job'[n].found = {}
  <2>1. job'[n] = [I!Free EXCEPT !.on = TRUE, !.alert = intelQueue[Len(intelQueue)],
                                 !.todo = IndicatorsOf[intelQueue[Len(intelQueue)]]]
    BY <1>0, <1>1 DEF I!Pop
  <2>2. DOMAIN I!Free = {"on", "alert", "todo", "hits", "insert", "found"}
        /\ I!Free.hits = {} /\ I!Free.insert = {} /\ I!Free.found = {}
    BY DEF I!Free
  <2>3. ~job[n].on
    BY <1>1 DEF I!Pop
  <2>4. /\ job'[n].on /\ job'[n].alert = intelQueue[Len(intelQueue)]
        /\ job'[n].todo = IndicatorsOf[intelQueue[Len(intelQueue)]]
        /\ job'[n].hits = {} /\ job'[n].insert = {} /\ job'[n].found = {}
    BY <2>1, <2>2
  <2> QED
    BY <2>3, <2>4
<1>2. ASSUME I!Finish(n) \/ I!Fail(n) \/ I!Crash(n) \/ I!DeadLetter(n)
      PROVE  ~job'[n].on /\ job'[n].hits = {} /\ job'[n].insert = {}
  <2>1. job'[n] = I!Free
    BY <1>0, <1>2 DEF I!Finish, I!Fail, I!Crash, I!DeadLetter
  <2> QED
    BY <2>1 DEF I!Free
<1>3. ASSUME NEW v \in Indicators, I!LookupCached(n, v)
      PROVE  /\ UNCHANGED <<job[n].on, job[n].alert, job[n].insert, job[n].found>>
             /\ job'[n].todo = job[n].todo \ {v}
             /\ job'[n].hits = IF cache[v] = I!Clean THEN {} ELSE {<<cache[v], v>>}
  BY <1>0, <1>3 DEF I!LookupCached
<1>4. ASSUME NEW v \in Indicators, I!Lookup(n, v)
      PROVE  /\ UNCHANGED <<job[n].on, job[n].alert, job[n].insert, job[n].found>>
             /\ job'[n].todo = job[n].todo \ {v}
             /\ \E failed \in SUBSET Sources :
                  /\ failed = {} \/ intelFaults' = intelFaults + 1
                  /\ job'[n].hits = I!Answers(v, failed)
                  /\ cache' = [cache EXCEPT ![v] = I!CachedBest(v, I!Answers(v, failed))]
  <2>1. PICK failed \in SUBSET Sources :
          /\ IF failed = {} THEN UNCHANGED intelFaults ELSE I!Fault
          /\ cache' = [cache EXCEPT ![v] = I!CachedBest(v, I!Answers(v, failed))]
          /\ job' = [job EXCEPT ![n].todo = @ \ {v}, ![n].hits = I!Answers(v, failed)]
    BY <1>4 DEF I!Lookup
  <2>2. failed = {} \/ intelFaults' = intelFaults + 1
    BY <2>1 DEF I!Fault
  <2>3. \A h : job' = [job EXCEPT ![n].todo = @ \ {v}, ![n].hits = h] =>
          /\ UNCHANGED <<job[n].on, job[n].alert, job[n].insert, job[n].found>>
          /\ job'[n].todo = job[n].todo \ {v} /\ job'[n].hits = h
    BY <1>0
  <2> QED
    BY <2>1, <2>2, <2>3
<1>5. ASSUME NEW e \in I!Entries, I!UpsertKnown(n, e)
      PROVE  /\ UNCHANGED <<job[n].on, job[n].alert, job[n].todo, job[n].insert>>
             /\ job'[n].hits = job[n].hits \ {e} /\ job'[n].found = job[n].found \cup {e}
  BY <1>0, <1>5 DEF I!UpsertKnown
<1>6. ASSUME NEW e \in I!Entries, I!UpsertNew(n, e)
      PROVE  /\ UNCHANGED <<job[n].on, job[n].alert, job[n].todo, job[n].hits, job[n].found>>
             /\ job'[n].insert = {e}
  BY <1>0, <1>6 DEF I!UpsertNew
<1>7. ASSUME NEW e \in I!Entries, I!Insert(n, e)
      PROVE  \/ /\ UNCHANGED <<job[n].on, job[n].alert, job[n].todo, intelDead>>
                /\ iocs' = iocs \cup {e} /\ job'[n].insert = {}
                /\ job'[n].hits = job[n].hits \ {e} /\ job'[n].found = job[n].found \cup {e}
             \/ I!DeadLetter(n) /\ UNCHANGED iocs
  <2>1. CASE job' = [job EXCEPT ![n].hits = @ \ {e}, ![n].insert = {}, ![n].found = @ \cup {e}]
    <3>1. /\ UNCHANGED <<job[n].on, job[n].alert, job[n].todo>> /\ job'[n].insert = {}
          /\ job'[n].hits = job[n].hits \ {e} /\ job'[n].found = job[n].found \cup {e}
      BY <1>0, <2>1
    <3>2. (iocs' = iocs \cup {e} /\ UNCHANGED intelDead) \/ (I!DeadLetter(n) /\ UNCHANGED iocs)
      BY <1>7 DEF I!Insert
    <3> QED
      BY <3>1, <3>2
  <2>2. CASE I!DeadLetter(n) /\ UNCHANGED iocs
    BY <2>2
  <2> QED
    BY <1>7, <2>1, <2>2 DEF I!Insert
<1> QED
  BY <1>1, <1>2, <1>3, <1>4, <1>5, <1>6, <1>7

\* Another enricher's job is left alone.
LEMMA OtherJobs ==
    ASSUME I!TypeOK, NEW n \in Enrichers,
           \/ I!Pop(n) \/ I!Finish(n) \/ I!Fail(n) \/ I!Crash(n)
           \/ \E v \in Indicators : I!LookupCached(n, v) \/ I!Lookup(n, v)
           \/ \E e \in I!Entries : I!UpsertKnown(n, e) \/ I!UpsertNew(n, e) \/ I!Insert(n, e)
    PROVE  known' = known /\ \A m \in Enrichers \ {n} : job'[m] = job[m]
<1>0. job \in [Enrichers -> [on : BOOLEAN, alert : Alerts, todo : SUBSET Indicators,
              hits : SUBSET I!Entries, insert : SUBSET I!Entries, found : SUBSET I!Entries]]
  BY DEF I!TypeOK
<1>1. known' = known
  BY DEF I!Pop, I!Finish, I!Fail, I!Crash, I!LookupCached, I!Lookup, I!UpsertKnown, I!UpsertNew,
         I!Insert
<1>2. \E r : job' = [job EXCEPT ![n] = r]
  <2>1. CASE I!Pop(n) \/ I!Finish(n) \/ I!Fail(n) \/ I!Crash(n)
    BY <2>1 DEF I!Pop, I!Finish, I!Fail, I!Crash, I!DeadLetter
  <2>2. ASSUME NEW v \in Indicators, I!LookupCached(n, v) PROVE \E r : job' = [job EXCEPT ![n] = r]
    BY <2>2, <1>0 DEF I!LookupCached
  <2>3. ASSUME NEW v \in Indicators, I!Lookup(n, v) PROVE \E r : job' = [job EXCEPT ![n] = r]
    <3>1. PICK h : job' = [job EXCEPT ![n].todo = @ \ {v}, ![n].hits = h]
      BY <2>3 DEF I!Lookup
    <3>2. n \in DOMAIN job
      BY <1>0
    <3> QED
      BY ONLY <3>1, <3>2
  <2>4. ASSUME NEW e \in I!Entries, I!UpsertKnown(n, e) PROVE \E r : job' = [job EXCEPT ![n] = r]
    BY <2>4, <1>0 DEF I!UpsertKnown
  <2>5. ASSUME NEW e \in I!Entries, I!UpsertNew(n, e) PROVE \E r : job' = [job EXCEPT ![n] = r]
    BY <2>5, <1>0 DEF I!UpsertNew
  <2>6. ASSUME NEW e \in I!Entries, I!Insert(n, e) PROVE \E r : job' = [job EXCEPT ![n] = r]
    <3> DEFINE q == [job[n] EXCEPT !.hits = @ \ {e}, !.insert = {}, !.found = @ \cup {e}]
    <3>1. \/ job' = [job EXCEPT ![n].hits = @ \ {e}, ![n].insert = {}, ![n].found = @ \cup {e}]
          \/ job' = [job EXCEPT ![n] = I!Free]
      BY <2>6 DEF I!Insert, I!DeadLetter
    <3>2. n \in DOMAIN job
      BY <1>0
    <3>3. [job EXCEPT ![n].hits = @ \ {e}, ![n].insert = {}, ![n].found = @ \cup {e}] = [job EXCEPT ![n] = q]
      BY ONLY <3>2
    <3> HIDE DEF q
    <3>4. job' = [job EXCEPT ![n] = q] \/ job' = [job EXCEPT ![n] = I!Free]
      BY <3>1, <3>3
    <3> QED
      BY ONLY <3>4
  <2>7. CASE \E v \in Indicators : I!LookupCached(n, v) \/ I!Lookup(n, v)
    BY ONLY <2>2, <2>3, <2>7
  <2>8. CASE \E e \in I!Entries : I!UpsertKnown(n, e) \/ I!UpsertNew(n, e) \/ I!Insert(n, e)
    BY ONLY <2>4, <2>5, <2>6, <2>8
  <2> QED
    BY <2>1, <2>7, <2>8
<1> QED
  BY <1>0, <1>1, <1>2

\* A step keeps what the cache, the jobs and the matches are backed by.
LEMMA IntelBacked ==
    ASSUME I!IntelAssumption, I!TypeOK, CacheBacked, JobsBacked, MatchesOfKnown, [I!Next]_I!vars
    PROVE  CacheBacked' /\ JobsBacked' /\ MatchesOfKnown'
<1>0. /\ known \subseteq I!Entries /\ cache \in [Indicators -> Sources \cup {I!Missing, I!Clean}]
      /\ done \in [Alerts -> Nat] /\ \A a \in Alerts : IndicatorsOf[a] \subseteq Indicators
      /\ \A n \in Enrichers : job[n].alert \in Alerts /\ job[n].todo \subseteq Indicators
      /\ I!Clean \notin Sources /\ I!Missing \notin Sources
  BY DEF I!TypeOK, I!IntelAssumption, I!Clean, I!Missing
<1>1. ASSUME known' = known, \A v \in Indicators : cache'[v] \in Sources =>
                                 cache'[v] = cache[v] \/ <<cache'[v], v>> \in known
      PROVE  CacheBacked'
  BY <1>1 DEF CacheBacked
<1>2. ASSUME known' = known, UNCHANGED job, iocs \subseteq iocs' PROVE JobsBacked'
  BY <1>2 DEF JobsBacked, JobBacked
<1>3. ASSUME NEW a \in Alerts, I!Push(a) PROVE CacheBacked' /\ JobsBacked' /\ MatchesOfKnown'
  BY <1>1, <1>2, <1>3, MatchesKept DEF I!Push
<1>4. ASSUME NEW v \in Indicators, I!Expire(v) PROVE CacheBacked' /\ JobsBacked' /\ MatchesOfKnown'
  <2>1. CacheBacked'
    BY <1>0, <1>1, <1>4 DEF I!Expire
  <2> QED
    BY <1>2, <1>4, <2>1, MatchesKept DEF I!Expire
<1>5. CASE I!FeedRead \/ I!FeedCommit
  <2>1. known' = known /\ UNCHANGED <<job, cache, matches, done>> /\ iocs \subseteq iocs'
    BY <1>5 DEF I!FeedRead, I!FeedCommit
  <2> QED
    BY <1>1, <1>2, <2>1, MatchesKept
<1>6. ASSUME NEW n \in Enrichers,
             \/ I!Pop(n) \/ I!Finish(n) \/ I!Fail(n) \/ I!Crash(n)
             \/ \E v \in Indicators : I!LookupCached(n, v) \/ I!Lookup(n, v)
             \/ \E e \in I!Entries : I!UpsertKnown(n, e) \/ I!UpsertNew(n, e) \/ I!Insert(n, e)
      PROVE  CacheBacked' /\ JobsBacked' /\ MatchesOfKnown'
  <2>0. known' = known /\ \A m \in Enrichers \ {n} : job'[m] = job[m]
    BY <1>6, OtherJobs
  <2>j. job[n].on => JobBacked(n)
    BY DEF JobsBacked
  <2>1. CASE I!Pop(n)
    <3>1. UNCHANGED <<cache, iocs, matches, done>>
      BY <2>1 DEF I!Pop
    <3>2. JobBacked(n)' /\ job'[n].on
      BY <2>1, IntelJobs DEF JobBacked
    <3> QED
      BY <1>1, <2>0, <3>1, <3>2, IntelFrame, MatchesKept
  <2>2. CASE I!Fail(n) \/ I!Crash(n)
    <3>1. UNCHANGED <<cache, iocs, matches, done>>
      BY <2>2 DEF I!Fail, I!Crash
    <3>2. ~job'[n].on /\ job'[n].hits = {} /\ job'[n].insert = {}
      BY <2>2, IntelJobs
    <3> QED
      BY <1>1, <2>0, <3>1, <3>2, IntelFrame, MatchesKept
  <2>3. CASE I!Finish(n)
    <3>1. UNCHANGED <<cache, iocs>>
      BY <2>3 DEF I!Finish
    <3>2. ~job'[n].on /\ job'[n].hits = {} /\ job'[n].insert = {}
      BY <2>3, IntelJobs
    <3>3. MatchesOfKnown'
      <4> SUFFICES ASSUME NEW a \in Alerts, NEW e \in I!Entries
                   PROVE  /\ matches'[a][e] <= done'[a]
                          /\ matches'[a][e] > 0 => e \in known' \cap iocs' /\ e[2] \in IndicatorsOf[a]
        BY DEF MatchesOfKnown, I!Entries
      <4>1. /\ matches[a][e] <= done[a] /\ matches[a][e] \in Nat /\ done[a] \in Nat
            /\ matches[a][e] > 0 => e \in known \cap iocs /\ e[2] \in IndicatorsOf[a]
        BY DEF MatchesOfKnown, I!TypeOK, I!Matches
      <4>2. CASE a # job[n].alert
        <5>1. matches'[a] = matches[a] /\ done'[a] = done[a]
          BY <2>3, <4>2 DEF I!Finish, I!TypeOK, I!Matches
        <5> QED
          BY <2>0, <3>1, <4>1, <5>1
      <4>3. CASE a = job[n].alert
        <5>1. /\ done'[a] = done[a] + 1
              /\ matches'[a][e] = IF e \in job[n].found THEN matches[a][e] + 1 ELSE matches[a][e]
          BY <2>3, <4>3 DEF I!Finish, I!TypeOK, I!Matches
        <5>2. e \in job[n].found => e \in known \cap iocs /\ e[2] \in IndicatorsOf[a]
          BY <2>3, <2>j, <4>3 DEF I!Finish, JobBacked
        <5>3. matches'[a][e] <= done'[a]
          BY <4>1, <5>1
        <5>4. matches'[a][e] > 0 => matches[a][e] > 0 \/ e \in job[n].found
          BY <5>1
        <5> QED
          BY <2>0, <3>1, <4>1, <5>2, <5>3, <5>4
      <4> QED
        BY <4>2, <4>3
    <3> QED
      BY <1>1, <2>0, <3>1, <3>2, <3>3, IntelFrame
  <2>4. ASSUME NEW v \in Indicators, I!LookupCached(n, v)
        PROVE  CacheBacked' /\ JobsBacked' /\ MatchesOfKnown'
    <3>1. UNCHANGED <<cache, iocs, matches, done>> /\ job[n].on /\ v \in job[n].todo /\ cache[v] # I!Missing
      BY <2>4 DEF I!LookupCached, I!Ready
    <3>a. v \in IndicatorsOf[job[n].alert] /\ job[n].insert = {}
      BY <2>j, <2>4, <3>1 DEF I!LookupCached, I!Ready, JobBacked
    <3>2. \A e \in job'[n].hits : e \in known /\ e[2] = v
      <4>1. job'[n].hits = IF cache[v] = I!Clean THEN {} ELSE {<<cache[v], v>>}
        BY <2>4, IntelJobs
      <4>2. cache[v] # I!Clean => <<cache[v], v>> \in known
        BY <1>0, <3>1 DEF CacheBacked
      <4> QED
        BY <4>1, <4>2
    <3>3. /\ job'[n].on /\ job'[n].alert = job[n].alert /\ job'[n].insert = job[n].insert
          /\ job'[n].found = job[n].found /\ job'[n].todo = job[n].todo \ {v} /\ job[n].insert = {}
      BY <2>4, <3>1, <3>a, IntelJobs
    <3>4. JobBacked(n)'
      <4>1. JobBacked(n)
        BY <2>j, <3>1
      <4> QED
        BY ONLY <2>0, <3>1, <3>2, <3>3, <3>a, <4>1 DEF JobBacked
    <3> QED
      BY <1>1, <2>0, <3>1, <3>3, <3>4, IntelFrame, MatchesKept
  <2>5. ASSUME NEW v \in Indicators, I!Lookup(n, v)
        PROVE  CacheBacked' /\ JobsBacked' /\ MatchesOfKnown'
    <3>1. UNCHANGED <<iocs, matches, done>> /\ job[n].on /\ v \in job[n].todo /\ job[n].insert = {}
      BY <2>5 DEF I!Lookup, I!Ready
    <3>2. PICK failed \in SUBSET Sources :
             /\ job'[n].hits = I!Answers(v, failed)
             /\ cache' = [cache EXCEPT ![v] = I!CachedBest(v, I!Answers(v, failed))]
      BY <2>5, IntelJobs
    <3>3. /\ job'[n].on /\ job'[n].alert = job[n].alert /\ job'[n].insert = job[n].insert
          /\ job'[n].found = job[n].found /\ job'[n].todo = job[n].todo \ {v}
      BY <2>5, <3>1, IntelJobs
    <3> DEFINE hits == I!Answers(v, failed)  c == I!CachedBest(v, hits)
    <3>4. /\ hits \subseteq known /\ \A e \in hits : e[2] = v
          /\ c \in Sources => <<c, v>> \in known
      BY <1>0, FirstLists
    <3>5. CacheBacked'
      <4> HIDE DEF c
      <4>1. \A u \in Indicators : cache'[u] = IF u = v THEN c ELSE cache[u]
        BY <1>0, <3>2 DEF c
      <4> QED
        BY <1>1, <2>0, <3>4, <4>1
    <3>6. JobBacked(n)'
      <4> HIDE DEF hits
      <4>1. job'[n].hits = hits
        BY <3>2 DEF hits
      <4> QED
        BY <2>0, <2>j, <3>1, <3>3, <3>4, <4>1 DEF JobBacked
    <3> QED
      BY <2>0, <3>1, <3>3, <3>5, <3>6, IntelFrame, MatchesKept
  <2>6. ASSUME NEW e \in I!Entries, I!UpsertKnown(n, e) \/ I!UpsertNew(n, e) \/ I!Insert(n, e)
        PROVE  CacheBacked' /\ JobsBacked' /\ MatchesOfKnown'
    <3>1. UNCHANGED <<cache, matches, done>> /\ iocs \subseteq iocs'
      BY <2>6 DEF I!UpsertKnown, I!UpsertNew, I!Insert
    <3>2. e \in job[n].hits /\ job[n].on
      <4>1. e \in job[n].hits \/ e \in job[n].insert
        BY <2>6 DEF I!UpsertKnown, I!UpsertNew, I!Insert
      <4> QED
        BY <4>1, <2>j DEF JobsBacked, JobBacked
    <3>3. IF job'[n].on THEN JobBacked(n)' ELSE job'[n].hits = {} /\ job'[n].insert = {}
      <4>1. CASE I!UpsertKnown(n, e)
        <5>1. /\ job'[n].on = job[n].on /\ job'[n].alert = job[n].alert /\ job'[n].todo = job[n].todo
              /\ job'[n].insert = job[n].insert
              /\ job'[n].hits = job[n].hits \ {e} /\ job'[n].found = job[n].found \cup {e}
          BY <4>1, IntelJobs
        <5>2. iocs' = iocs /\ e \in iocs /\ job[n].insert = {}
          BY <4>1 DEF I!UpsertKnown
        <5> QED
          BY <2>0, <2>j, <3>2, <5>1, <5>2 DEF JobBacked
      <4>2. CASE I!UpsertNew(n, e)
        <5>1. /\ job'[n].on = job[n].on /\ job'[n].alert = job[n].alert /\ job'[n].todo = job[n].todo
              /\ job'[n].insert = {e}
              /\ job'[n].hits = job[n].hits /\ job'[n].found = job[n].found
          BY <4>2, IntelJobs
        <5> QED
          BY <2>0, <2>j, <3>1, <3>2, <5>1 DEF JobBacked
      <4>3. CASE I!Insert(n, e)
        <5>1. CASE /\ UNCHANGED <<job[n].on, job[n].alert, job[n].todo, intelDead>>
                   /\ iocs' = iocs \cup {e} /\ job'[n].insert = {}
                   /\ job'[n].hits = job[n].hits \ {e} /\ job'[n].found = job[n].found \cup {e}
          <6>1. job'[n].on = job[n].on /\ job'[n].alert = job[n].alert /\ job'[n].todo = job[n].todo
            BY <5>1
          <6> QED
            BY <2>0, <2>j, <3>1, <3>2, <5>1, <6>1 DEF JobBacked
        <5>2. CASE I!DeadLetter(n)
          BY <5>2, IntelJobs
        <5> QED
          BY <4>3, <5>1, <5>2, IntelJobs
      <4> QED
        BY <2>6, <4>1, <4>2, <4>3
    <3> QED
      BY <1>1, <2>0, <3>1, <3>3, IntelFrame, MatchesKept
  <2> QED
    BY <1>6, <2>1, <2>2, <2>3, <2>4, <2>5, <2>6
<1>7. CASE UNCHANGED I!vars
  <2>1. UNCHANGED <<known, cache, job, iocs, matches, done>>
    BY <1>7 DEF I!vars
  <2> QED
    BY <1>1, <1>2, <2>1, MatchesKept
<1> QED
  BY <1>3, <1>4, <1>5, <1>6, <1>7 DEF I!Next

\* Steps that leave the jobs, the matches and what the cache answers alone.
LEMMA NothingMissedIdle ==
    ASSUME I!IntelAssumption, I!TypeOK, NothingMissed, known' = known,
           UNCHANGED <<job, matches, done, intelFaults>>,
           \A v \in Indicators : cache'[v] # I!Missing => cache'[v] = cache[v]
    PROVE  NothingMissed'
<1>1. \A v : First(v)' = First(v) /\ (Listed(v)' <=> Listed(v))
  BY DEF First, Listed, I!Answers, I!CachedBest, I!Clean
<1>2. \A n \in Enrichers : JobThrough(n) => JobThrough(n)'
  BY <1>1 DEF JobThrough
<1>3. SUFFICES ASSUME intelFaults' = 0
               PROVE  /\ \A v \in Indicators : Listed(v)' /\ cache'[v] # I!Missing =>
                                                 cache'[v] = First(v)'
                      /\ \A m \in Enrichers : job'[m].on => JobThrough(m)'
                      /\ \A a \in Alerts : \A v \in IndicatorsOf[a] :
                           Listed(v)' => matches'[a][<<First(v)', v>>] >= done'[a]
  BY DEF NothingMissed, I!Missing
<1>4. /\ \A v \in Indicators : Listed(v) /\ cache[v] # I!Missing => cache[v] = First(v)
      /\ \A m \in Enrichers : job[m].on => JobThrough(m)
      /\ \A a \in Alerts : \A v \in IndicatorsOf[a] :
           Listed(v) => matches[a][<<First(v), v>>] >= done[a]
  BY <1>3 DEF NothingMissed
<1>5. \A v \in Indicators : Listed(v)' /\ cache'[v] # I!Missing => cache'[v] = First(v)'
  BY <1>1, <1>4
<1>6. \A m \in Enrichers : job'[m].on => JobThrough(m)'
  BY <1>2, <1>4
<1>7. \A a \in Alerts : \A v \in IndicatorsOf[a] :
        Listed(v)' => matches'[a][<<First(v)', v>>] >= done'[a]
  BY <1>1, <1>4
<1> QED
  BY <1>5, <1>6, <1>7

LEMMA IntelMissesNothing ==
    ASSUME I!IntelAssumption, I!TypeOK, CacheBacked, JobsBacked, NothingMissed, [I!Next]_I!vars
    PROVE  NothingMissed'
<1>0. /\ cache \in [Indicators -> Sources \cup {I!Missing, I!Clean}] /\ intelFaults \in Nat
      /\ \A a \in Alerts : IndicatorsOf[a] \subseteq Indicators
      /\ \A n \in Enrichers : job[n].alert \in Alerts
  BY DEF I!TypeOK, I!IntelAssumption
<1>1. ASSUME NEW a \in Alerts, I!Push(a) PROVE NothingMissed'
  BY <1>1, NothingMissedIdle DEF I!Push
<1>2. ASSUME NEW v \in Indicators, I!Expire(v) PROVE NothingMissed'
  <2>1. \A u \in Indicators : cache'[u] # I!Missing => cache'[u] = cache[u]
    BY <1>0, <1>2 DEF I!Expire
  <2> QED
    BY <1>2, <2>1, NothingMissedIdle DEF I!Expire
<1>3. CASE I!FeedRead \/ I!FeedCommit
  <2>1. known' = known /\ UNCHANGED <<job, cache, matches, done, intelFaults>>
    BY <1>3 DEF I!FeedRead, I!FeedCommit
  <2> QED
    BY <2>1, NothingMissedIdle
<1>4. CASE UNCHANGED I!vars
  <2>1. known' = known /\ UNCHANGED <<job, cache, matches, done, intelFaults>>
    BY <1>4 DEF I!vars
  <2> QED
    BY <2>1, NothingMissedIdle
<1>5. ASSUME NEW n \in Enrichers,
             \/ I!Pop(n) \/ I!Finish(n) \/ I!Fail(n) \/ I!Crash(n)
             \/ \E v \in Indicators : I!LookupCached(n, v) \/ I!Lookup(n, v)
             \/ \E e \in I!Entries : I!UpsertKnown(n, e) \/ I!UpsertNew(n, e) \/ I!Insert(n, e)
      PROVE  NothingMissed'
  <2>0. known' = known /\ \A m \in Enrichers \ {n} : job'[m] = job[m]
    BY <1>5, OtherJobs
  <2>f. \A v : First(v)' = First(v) /\ (Listed(v)' <=> Listed(v))
    BY <2>0 DEF First, Listed, I!Answers, I!CachedBest, I!Clean
  <2>j. /\ job[n].on => JobBacked(n)
        /\ ~job[n].on => job[n].hits = {} /\ job[n].insert = {}
        /\ intelFaults = 0 /\ job[n].on => JobThrough(n)
        /\ IndicatorsOf[job[n].alert] \subseteq Indicators
    BY <1>0 DEF JobsBacked, NothingMissed
  <2>1. CASE I!Pop(n)
    <3>1. UNCHANGED <<cache, matches, done, intelFaults>>
      BY <2>1 DEF I!Pop
    <3>2. JobThrough(n)'
      BY <2>1, IntelJobs DEF JobThrough
    <3> QED
      BY <2>0, <3>1, <3>2, NothingMissedKept
  <2>2. CASE I!Fail(n) \/ I!Crash(n)
    <3>1. intelFaults' # 0
      BY <1>0, <2>2 DEF I!Fail, I!Crash, I!Fault
    <3> QED
      BY <3>1 DEF NothingMissed
  <2>3. CASE I!Finish(n)
    <3>1. UNCHANGED <<cache, intelFaults>> /\ ~job'[n].on
      BY <2>3, IntelJobs DEF I!Finish
    <3> SUFFICES ASSUME intelFaults = 0 PROVE NothingMissed'
      BY <3>1 DEF NothingMissed
    <3>2. \A v \in Indicators : Listed(v)' /\ cache'[v] # I!Missing => cache'[v] = First(v)'
      BY <2>f, <3>1 DEF NothingMissed
    <3>3. ASSUME NEW m \in Enrichers, job'[m].on PROVE JobThrough(m)'
      <4>1. m # n /\ job'[m] = job[m]
        BY <2>0, <3>1, <3>3
      <4> QED
        BY <2>f, <3>3, <4>1 DEF JobThrough, NothingMissed
    <3>4. ASSUME NEW a \in Alerts, NEW v \in IndicatorsOf[a], Listed(v)
          PROVE  matches'[a][<<First(v), v>>] >= done'[a]
      <4>1. /\ v \in Indicators /\ <<First(v), v>> \in I!Entries
            /\ matches[a][<<First(v), v>>] >= done[a]
            /\ matches[a][<<First(v), v>>] \in Nat /\ done[a] \in Nat
        BY <1>0, <3>4, ListedFirst DEF NothingMissed, I!TypeOK, I!Matches, I!Entries
      <4>2. CASE a # job[n].alert
        <5>1. matches'[a] = matches[a] /\ done'[a] = done[a]
          BY <2>3, <4>2 DEF I!Finish, I!TypeOK, I!Matches
        <5> QED
          BY <4>1, <5>1
      <4>3. CASE a = job[n].alert
        <5>1. <<First(v), v>> \in job[n].found
          BY <2>3, <2>j, <3>4, <4>3 DEF I!Finish, JobThrough
        <5>2. /\ done'[a] = done[a] + 1
              /\ \A e \in I!Entries :
                   matches'[a][e] = IF e \in job[n].found THEN matches[a][e] + 1 ELSE matches[a][e]
          BY <2>3, <4>3 DEF I!Finish, I!TypeOK, I!Matches
        <5>3. matches'[a][<<First(v), v>>] = matches[a][<<First(v), v>>] + 1
          BY <4>1, <5>1, <5>2
        <5> QED
          BY <4>1, <5>2, <5>3
      <4> QED
        BY <4>2, <4>3
    <3> QED
      BY <2>f, <3>2, <3>3, <3>4 DEF NothingMissed, I!Missing
  <2>4. ASSUME NEW v \in Indicators, I!LookupCached(n, v) PROVE NothingMissed'
    <3>1. /\ UNCHANGED <<cache, matches, done, intelFaults>> /\ job[n].on /\ cache[v] # I!Missing
          /\ job[n].hits = {}
      BY <2>4 DEF I!LookupCached, I!Ready
    <3>2. /\ job'[n].alert = job[n].alert /\ job'[n].found = job[n].found
          /\ job'[n].todo = job[n].todo \ {v}
          /\ job'[n].hits = IF cache[v] = I!Clean THEN {} ELSE {<<cache[v], v>>}
      BY <2>4, IntelJobs
    <3>3. intelFaults = 0 => JobThrough(n)'
      <4> SUFFICES ASSUME intelFaults = 0, NEW u \in IndicatorsOf[job[n].alert] \ job'[n].todo, Listed(u)
                   PROVE  <<First(u), u>> \in job'[n].hits \cup job'[n].found
        BY <2>f, <3>2 DEF JobThrough
      <4>1. CASE u = v
        <5>1. cache[v] = First(v) /\ First(v) \in Sources /\ I!Clean \notin Sources
          BY <3>1, <4>1, ListedFirst DEF NothingMissed, I!IntelAssumption, I!Clean
        <5> QED
          BY <3>2, <4>1, <5>1
      <4>2. CASE u # v
        BY <2>j, <3>1, <3>2, <4>2 DEF JobThrough
      <4> QED
        BY <4>1, <4>2
    <3> QED
      BY <2>0, <3>1, <3>3, NothingMissedKept
  <2>5. ASSUME NEW v \in Indicators, I!Lookup(n, v) PROVE NothingMissed'
    <3>1. UNCHANGED <<matches, done>> /\ job[n].on /\ job[n].hits = {}
      BY <2>5 DEF I!Lookup, I!Ready
    <3>2. PICK failed \in SUBSET Sources :
             /\ failed = {} \/ intelFaults' = intelFaults + 1
             /\ job'[n].hits = I!Answers(v, failed)
             /\ cache' = [cache EXCEPT ![v] = I!CachedBest(v, I!Answers(v, failed))]
      BY <2>5, IntelJobs
    <3>3. /\ job'[n].alert = job[n].alert /\ job'[n].found = job[n].found
          /\ job'[n].todo = job[n].todo \ {v}
      BY <2>5, IntelJobs
    <3>4. CASE intelFaults' = intelFaults + 1
      BY <1>0, <3>4 DEF NothingMissed
    <3>5. CASE failed = {}
      <4>1. intelFaults' = 0 => intelFaults = 0
        <5>1. intelFaults' = intelFaults \/ intelFaults' = intelFaults + 1
          BY <2>5 DEF I!Lookup, I!Fault
        <5> QED
          BY <1>0, <5>1
      <4>2. \A u \in Indicators : cache'[u] = IF u = v THEN First(v) ELSE cache[u]
        BY <1>0, <3>2, <3>5 DEF First
      <4>3. intelFaults = 0 => JobThrough(n)'
        <5> SUFFICES ASSUME intelFaults = 0, NEW u \in IndicatorsOf[job[n].alert] \ job'[n].todo, Listed(u)
                     PROVE  <<First(u), u>> \in job'[n].hits \cup job'[n].found
          BY <2>f, <3>3 DEF JobThrough
        <5>1. CASE u = v
          <6>1. I!Answers(v, {}) # {}
            BY <5>1, ListedFirst
          <6>2. <<First(v), v>> \in I!Answers(v, {})
            BY <6>1, FirstLists DEF First
          <6> QED
            BY <3>2, <3>5, <5>1, <6>2
        <5>2. CASE u # v
          BY <2>j, <3>1, <3>3, <5>2 DEF JobThrough
        <5> QED
          BY <5>1, <5>2
      <4> QED
        BY <2>0, <3>1, <4>1, <4>2, <4>3, NothingMissedKept
    <3> QED
      BY <3>2, <3>4, <3>5
  <2>6. ASSUME NEW e \in I!Entries, I!UpsertKnown(n, e) \/ I!UpsertNew(n, e) \/ I!Insert(n, e)
        PROVE  NothingMissed'
    <3>1. UNCHANGED <<cache, matches, done, intelFaults>>
      BY <2>6 DEF I!UpsertKnown, I!UpsertNew, I!Insert
    <3>2. job[n].on
      <4>1. e \in job[n].hits \/ e \in job[n].insert
        BY <2>6 DEF I!UpsertKnown, I!UpsertNew, I!Insert
      <4> QED
        BY <4>1, <2>j
    <3>3. intelFaults = 0 /\ job'[n].on => JobThrough(n)'
      <4> SUFFICES ASSUME job'[n].on, JobThrough(n) PROVE JobThrough(n)'
        BY <2>j, <3>2
      <4>1. /\ job'[n].alert = job[n].alert /\ job'[n].todo = job[n].todo
            /\ job[n].hits \cup job[n].found \subseteq job'[n].hits \cup job'[n].found
        <5>1. CASE I!UpsertKnown(n, e)
          <6>1. /\ job'[n].alert = job[n].alert /\ job'[n].todo = job[n].todo
                /\ job'[n].hits = job[n].hits \ {e} /\ job'[n].found = job[n].found \cup {e}
            BY <5>1, IntelJobs
          <6> QED
            BY <6>1
        <5>2. CASE I!UpsertNew(n, e)
          <6>1. /\ job'[n].alert = job[n].alert /\ job'[n].todo = job[n].todo
                /\ job'[n].hits = job[n].hits /\ job'[n].found = job[n].found
            BY <5>2, IntelJobs
          <6> QED
            BY <6>1
        <5>3. CASE I!Insert(n, e)
          <6>1. CASE I!DeadLetter(n)
            BY <6>1, IntelJobs
          <6>2. CASE ~I!DeadLetter(n)
            <7>1. /\ job'[n].alert = job[n].alert /\ job'[n].todo = job[n].todo
                  /\ job'[n].hits = job[n].hits \ {e} /\ job'[n].found = job[n].found \cup {e}
              BY <5>3, <6>2, IntelJobs
            <7> QED
              BY <7>1
          <6> QED
            BY <6>1, <6>2
        <5> QED
          BY <2>6, <5>1, <5>2, <5>3
      <4> QED
        BY <2>f, <4>1 DEF JobThrough
    <3> QED
      BY <2>0, <3>1, <3>3, NothingMissedKept
  <2> QED
    BY <1>5, <2>1, <2>2, <2>3, <2>4, <2>5, <2>6
<1> QED
  BY <1>1, <1>2, <1>3, <1>4, <1>5 DEF I!Next

LEMMA PlacesFinite ==
    ASSUME NEW Els, NEW q \in Seq(Els), NEW a
    PROVE  IsFiniteSet(Places(q, a)) /\ Cardinality(Places(q, a)) \in Nat
<1>1. Len(q) \in Nat /\ IsFiniteSet(1..Len(q))
  BY FS_Interval, LenProperties
<1> QED
  BY <1>1, FS_Subset, FS_CardinalityType DEF Places

\* A intelQueue that is pushed at its front and popped at its end.
LEMMA PlacesPushed ==
    ASSUME NEW Els, NEW q \in Seq(Els), NEW b \in Els, NEW a
    PROVE  /\ IsFiniteSet(Places(q, a)) /\ Cardinality(Places(q, a)) \in Nat
           /\ Cardinality(Places(<<b>> \o q, a)) \in Nat
           /\ Cardinality(Places(<<b>> \o q, a)) <= Cardinality(Places(q, a)) + (IF b = a THEN 1 ELSE 0)
<1> DEFINE p == <<b>> \o q
           f == [i \in Places(q, a) |-> i + 1]
           Moved == {f[i] : i \in Places(q, a)}
<1>1. Len(q) \in Nat /\ IsFiniteSet(1..Len(q))
  BY FS_Interval, LenProperties
<1>2. IsFiniteSet(Places(q, a)) /\ Cardinality(Places(q, a)) \in Nat
  BY <1>1, FS_Subset, FS_CardinalityType DEF Places
<1>3. /\ Len(p) = Len(q) + 1 /\ p[1] = b
      /\ \A i \in 2..Len(q) + 1 : p[i] = q[i - 1]
  BY <1>1
<1>4. IsFiniteSet(Moved) /\ Cardinality(Moved) <= Cardinality(Places(q, a)) /\ Cardinality(Moved) \in Nat
  <2>1. f \in Surjection(Places(q, a), Moved)
    BY DEF Surjection
  <2> HIDE DEF f, Moved
  <2> QED
    BY <1>2, <2>1, FS_Surjection, FS_CardinalityType
<1>5. Places(p, a) \subseteq Moved \cup (IF b = a THEN {1} ELSE {})
  <2> SUFFICES ASSUME NEW i \in Places(p, a), i # 1 \/ b # a PROVE i \in Moved
    BY DEF Places
  <2>1. i \in 2..Len(q) + 1
    BY <1>1, <1>3 DEF Places
  <2>2. q[i - 1] = a /\ i - 1 \in 1..Len(q)
    BY <1>1, <1>3, <2>1 DEF Places
  <2>3. i - 1 \in Places(q, a) /\ f[i - 1] = i
    BY <2>1, <2>2 DEF Places
  <2> QED
    BY <2>3
<1> HIDE DEF p, Moved
<1>6. CASE b = a
  <2>1. IsFiniteSet(Moved \cup {1}) /\ Cardinality(Moved \cup {1}) <= Cardinality(Moved) + 1
    <3>1. /\ IsFiniteSet(Moved \cup {1})
          /\ Cardinality(Moved \cup {1}) = IF 1 \in Moved THEN Cardinality(Moved)
                                           ELSE Cardinality(Moved) + 1
      BY <1>4, FS_AddElement, Zenon
    <3> QED
      BY <1>4, <3>1
  <2>2. Places(p, a) \in SUBSET (Moved \cup {1})
    BY <1>5, <1>6
  <2>3. IsFiniteSet(Places(p, a)) /\ Cardinality(Places(p, a)) <= Cardinality(Moved \cup {1})
    BY <2>1, <2>2, FS_Subset
  <2>4. Cardinality(Places(p, a)) \in Nat /\ Cardinality(Moved \cup {1}) \in Nat
    BY <2>1, <2>3, FS_CardinalityType
  <2> QED
    BY <1>2, <1>4, <1>6, <2>1, <2>3, <2>4 DEF p
<1>7. CASE b # a
  <2>1. Places(p, a) \in SUBSET Moved
    BY <1>5, <1>7
  <2>2. IsFiniteSet(Places(p, a)) /\ Cardinality(Places(p, a)) <= Cardinality(Moved)
    BY <1>4, <2>1, FS_Subset
  <2>3. Cardinality(Places(p, a)) \in Nat
    BY <2>2, FS_CardinalityType
  <2> QED
    BY <1>2, <1>4, <1>7, <2>2, <2>3 DEF p
<1> QED
  BY <1>6, <1>7

LEMMA PlacesPopped ==
    ASSUME NEW Els, NEW q \in Seq(Els), q # <<>>, NEW a
    PROVE  /\ q[Len(q)] \in Els /\ SubSeq(q, 1, Len(q) - 1) \in Seq(Els)
           /\ LET rest == Places(SubSeq(q, 1, Len(q) - 1), a)
              IN  /\ Cardinality(rest) \in Nat
                  /\ Cardinality(Places(q, a)) = Cardinality(rest) + (IF q[Len(q)] = a THEN 1 ELSE 0)
<1> DEFINE p == SubSeq(q, 1, Len(q) - 1)
<1>1. Len(q) \in Nat \ {0} /\ IsFiniteSet(1..Len(q)) /\ q[Len(q)] \in Els
  BY FS_Interval, LenProperties, EmptySeq, ElementOfSeq
<1>2. IsFiniteSet(Places(q, a)) /\ Cardinality(Places(q, a)) \in Nat
  BY <1>1, FS_Subset, FS_CardinalityType DEF Places
<1>3. p \in Seq(Els) /\ Len(p) = Len(q) - 1 /\ \A i \in 1..Len(q) - 1 : p[i] = q[i]
  <2>1. PICK n \in Nat : Len(q) = n + 1
    BY <1>1
  <2>2. \A i \in 1..n : q[i] \in Els
    BY <2>1, ElementOfSeq
  <2>3. p = SubSeq(q, 1, n)
    BY <2>1
  <2>4. p \in Seq(Els) /\ Len(p) = n /\ \A i \in 1..n : p[i] = q[i]
    BY <2>2, <2>3, SubSeqProperties
  <2> HIDE DEF p
  <2> QED
    BY <2>1, <2>4
<1> HIDE DEF p
<1>4. Places(p, a) = Places(q, a) \ {Len(q)} /\ Places(p, a) \subseteq Places(q, a)
  BY <1>1, <1>3 DEF Places
<1>5. Len(q) \in Places(q, a) <=> q[Len(q)] = a
  BY <1>1 DEF Places
<1>6. /\ IsFiniteSet(Places(p, a))
      /\ Cardinality(Places(p, a)) = IF Len(q) \in Places(q, a) THEN Cardinality(Places(q, a)) - 1
                                     ELSE Cardinality(Places(q, a))
  <2> DEFINE P == Places(q, a)
  <2>1. /\ IsFiniteSet(P \ {Len(q)})
        /\ Cardinality(P \ {Len(q)}) = IF Len(q) \in P THEN Cardinality(P) - 1 ELSE Cardinality(P)
    <3>1. IsFiniteSet(P)
      BY <1>2
    <3> HIDE DEF P
    <3> QED
      BY <3>1, FS_RemoveElement, Zenon
  <2> QED
    BY <1>4, <2>1
<1>7. Cardinality(Places(p, a)) \in Nat
  BY <1>6, FS_CardinalityType
<1> QED
  BY <1>1, <1>2, <1>3, <1>5, <1>6, <1>7 DEF p

\* The ends of a job: what is counted as done or intelDead is no longer carried.
LEMMA PushesEnded ==
    ASSUME I!TypeOK, PushesAccounted, NEW n \in Enrichers, job[n].on, ~job'[n].on,
           \A m \in Enrichers \ {n} : job'[m] = job[m], UNCHANGED <<intelQueue, pushes>>,
           \A a \in Alerts : /\ done'[a] + intelDead'[a] <= done[a] + intelDead[a] + (IF job[n].alert = a THEN 1 ELSE 0)
                             /\ done'[a] \in Nat /\ intelDead'[a] \in Nat
    PROVE  PushesAccounted'
<1> SUFFICES ASSUME NEW a \in Alerts
             PROVE  /\ IsFiniteSet(Working(a)')
                    /\ done'[a] + intelDead'[a] + Cardinality(Waiting(a)') + Cardinality(Working(a)') <= pushes'[a]
  BY DEF PushesAccounted
<1>1. /\ IsFiniteSet(Working(a)) /\ Cardinality(Waiting(a)) \in Nat
      /\ done[a] + intelDead[a] + Cardinality(Waiting(a)) + Cardinality(Working(a)) <= pushes[a]
      /\ done[a] \in Nat /\ intelDead[a] \in Nat /\ pushes[a] \in Nat
  BY PlacesFinite DEF PushesAccounted, I!TypeOK, Waiting
<1>2. Working(a)' = Working(a) \ {n} /\ (n \in Working(a) <=> job[n].alert = a)
  BY DEF Working
<1>3. Waiting(a)' = Waiting(a)
  BY DEF Waiting, Places
<1>4. /\ IsFiniteSet(Working(a)') /\ Cardinality(Working(a)) \in Nat
      /\ Cardinality(Working(a)') = IF n \in Working(a) THEN Cardinality(Working(a)) - 1
                                    ELSE Cardinality(Working(a))
  BY <1>1, <1>2, FS_RemoveElement, FS_CardinalityType
<1>5. /\ done'[a] + intelDead'[a] <= done[a] + intelDead[a] + (IF job[n].alert = a THEN 1 ELSE 0)
      /\ done'[a] \in Nat /\ intelDead'[a] \in Nat
  OBVIOUS
<1> QED
  BY <1>1, <1>2, <1>3, <1>4, <1>5

LEMMA PushesKept ==
    ASSUME PushesAccounted, UNCHANGED <<intelQueue, pushes, done, intelDead>>,
           \A m \in Enrichers : job'[m].on = job[m].on /\ job'[m].alert = job[m].alert
    PROVE  PushesAccounted'
<1>1. \A a \in Alerts : Working(a)' = Working(a) /\ Waiting(a)' = Waiting(a)
  BY DEF Working, Waiting
<1> QED
  BY <1>1 DEF PushesAccounted

LEMMA IntelPushes ==
    ASSUME I!IntelAssumption, I!TypeOK, JobsBacked, PushesAccounted, [I!Next]_I!vars
    PROVE  PushesAccounted'
<1>1. ASSUME NEW b \in Alerts, I!Push(b) PROVE PushesAccounted'
  <2> SUFFICES ASSUME NEW a \in Alerts
               PROVE  /\ IsFiniteSet(Working(a)')
                      /\ done'[a] + intelDead'[a] + Cardinality(Waiting(a)') + Cardinality(Working(a)') <= pushes'[a]
    BY DEF PushesAccounted
  <2>1. /\ IsFiniteSet(Working(a)) /\ Cardinality(Working(a)) \in Nat
        /\ done[a] + intelDead[a] + Cardinality(Waiting(a)) + Cardinality(Working(a)) <= pushes[a]
        /\ done[a] \in Nat /\ intelDead[a] \in Nat /\ pushes[a] \in Nat
    BY FS_CardinalityType DEF PushesAccounted, I!TypeOK
  <2>2. Working(a)' = Working(a) /\ done'[a] = done[a] /\ intelDead'[a] = intelDead[a]
    BY <1>1 DEF I!Push, Working
  <2>3. pushes'[a] = pushes[a] + (IF b = a THEN 1 ELSE 0)
    BY <1>1, <2>1 DEF I!Push, I!TypeOK
  <2>4. /\ Cardinality(Waiting(a)) \in Nat /\ Cardinality(Waiting(a)') \in Nat
        /\ Cardinality(Waiting(a)') <= Cardinality(Waiting(a)) + (IF b = a THEN 1 ELSE 0)
    <3>1. intelQueue' = <<b>> \o intelQueue /\ intelQueue \in Seq(Alerts)
      BY <1>1 DEF I!Push, I!TypeOK
    <3>2. Waiting(a)' = Places(<<b>> \o intelQueue, a)
      BY <3>1 DEF Waiting, Places
    <3> QED
      BY <3>1, <3>2, PlacesPushed DEF Waiting
  <2> QED
    BY <2>1, <2>2, <2>3, <2>4
<1>2. ASSUME NEW n \in Enrichers, I!Pop(n) PROVE PushesAccounted'
  <2> DEFINE b == intelQueue[Len(intelQueue)]
  <2>1. /\ ~job[n].on /\ job'[n].on /\ job'[n].alert = b
        /\ \A m \in Enrichers \ {n} : job'[m] = job[m]
        /\ intelQueue # <<>> /\ intelQueue' = SubSeq(intelQueue, 1, Len(intelQueue) - 1) /\ intelQueue \in Seq(Alerts)
        /\ UNCHANGED <<pushes, done, intelDead>>
    BY <1>2, IntelJobs, OtherJobs DEF I!Pop, I!TypeOK
  <2> HIDE DEF b
  <2> SUFFICES ASSUME NEW a \in Alerts
               PROVE  /\ IsFiniteSet(Working(a)')
                      /\ done'[a] + intelDead'[a] + Cardinality(Waiting(a)') + Cardinality(Working(a)') <= pushes'[a]
    BY DEF PushesAccounted
  <2>2. /\ IsFiniteSet(Working(a))
        /\ done[a] + intelDead[a] + Cardinality(Waiting(a)) + Cardinality(Working(a)) <= pushes[a]
        /\ done[a] \in Nat /\ intelDead[a] \in Nat /\ pushes[a] \in Nat
    BY DEF PushesAccounted, I!TypeOK
  <2>3. n \notin Working(a) /\ Working(a)' = IF b = a THEN Working(a) \cup {n} ELSE Working(a)
    BY <2>1 DEF Working
  <2>4. /\ IsFiniteSet(Working(a)') /\ Cardinality(Working(a)) \in Nat
        /\ Cardinality(Working(a)') = Cardinality(Working(a)) + (IF b = a THEN 1 ELSE 0)
    BY <2>2, <2>3, FS_AddElement, FS_CardinalityType
  <2>5. /\ Cardinality(Waiting(a)') \in Nat
        /\ Cardinality(Waiting(a)) = Cardinality(Waiting(a)') + (IF b = a THEN 1 ELSE 0)
    <3>1. Waiting(a)' = Places(SubSeq(intelQueue, 1, Len(intelQueue) - 1), a)
      BY <2>1 DEF Waiting, Places
    <3> QED
      BY <2>1, <3>1, PlacesPopped DEF Waiting, b
  <2> QED
    BY <2>1, <2>2, <2>4, <2>5
<1>3. ASSUME NEW n \in Enrichers, I!Finish(n) \/ I!Fail(n) \/ I!Crash(n) PROVE PushesAccounted'
  <2>1. /\ job[n].on /\ ~job'[n].on /\ UNCHANGED <<intelQueue, pushes>>
        /\ \A m \in Enrichers \ {n} : job'[m] = job[m]
    BY <1>3, IntelJobs, OtherJobs DEF I!Finish, I!Fail, I!Crash
  <2>2. ASSUME NEW a \in Alerts
        PROVE  /\ done'[a] + intelDead'[a] <= done[a] + intelDead[a] + (IF job[n].alert = a THEN 1 ELSE 0)
               /\ done'[a] \in Nat /\ intelDead'[a] \in Nat
    <3>0. done[a] \in Nat /\ intelDead[a] \in Nat /\ done \in [Alerts -> Nat] /\ intelDead \in [Alerts -> Nat]
      BY DEF I!TypeOK
    <3>1. CASE I!Finish(n)
      <4>1. intelDead'[a] = intelDead[a] /\ done'[a] = IF job[n].alert = a THEN done[a] + 1 ELSE done[a]
        BY <3>0, <3>1 DEF I!Finish
      <4> QED
        BY <3>0, <4>1
    <3>2. CASE I!Fail(n)
      <4>1. done'[a] = done[a] /\ intelDead'[a] = IF job[n].alert = a THEN intelDead[a] + 1 ELSE intelDead[a]
        BY <3>0, <3>2 DEF I!Fail, I!DeadLetter
      <4> QED
        BY <3>0, <4>1
    <3>3. CASE I!Crash(n)
      BY <3>0, <3>3 DEF I!Crash
    <3> QED
      BY <1>3, <3>1, <3>2, <3>3
  <2> QED
    BY <2>1, <2>2, PushesEnded
<1>4. ASSUME NEW n \in Enrichers, NEW v \in Indicators, I!LookupCached(n, v) \/ I!Lookup(n, v)
      PROVE  PushesAccounted'
  <2>1. /\ job'[n].on = job[n].on /\ job'[n].alert = job[n].alert
        /\ \A m \in Enrichers \ {n} : job'[m] = job[m]
        /\ UNCHANGED <<intelQueue, pushes, done, intelDead>>
    BY <1>4, IntelJobs, OtherJobs DEF I!LookupCached, I!Lookup
  <2> QED
    BY <2>1, PushesKept
<1>5. ASSUME NEW n \in Enrichers, NEW e \in I!Entries, I!UpsertKnown(n, e) \/ I!UpsertNew(n, e)
      PROVE  PushesAccounted'
  <2>1. /\ job'[n].on = job[n].on /\ job'[n].alert = job[n].alert
        /\ \A m \in Enrichers \ {n} : job'[m] = job[m]
    BY <1>5, IntelJobs, OtherJobs
  <2>2. UNCHANGED <<intelQueue, pushes, done, intelDead>>
    BY <1>5 DEF I!UpsertKnown, I!UpsertNew
  <2> QED
    BY <2>1, <2>2, PushesKept
<1>6. ASSUME NEW n \in Enrichers, NEW e \in I!Entries, I!Insert(n, e) PROVE PushesAccounted'
  <2>1. UNCHANGED <<intelQueue, pushes, done>> /\ \A m \in Enrichers \ {n} : job'[m] = job[m]
    BY <1>6, OtherJobs DEF I!Insert
  <2>2. CASE I!DeadLetter(n)
    <3>1. job[n].on /\ ~job'[n].on
      BY <1>6, <2>2, IntelJobs DEF JobsBacked, I!Insert
    <3>2. \A a \in Alerts : /\ done'[a] + intelDead'[a] <= done[a] + intelDead[a] + (IF job[n].alert = a THEN 1 ELSE 0)
                            /\ done'[a] \in Nat /\ intelDead'[a] \in Nat
      <4> TAKE a \in Alerts
      <4>1. done[a] \in Nat /\ intelDead[a] \in Nat /\ intelDead \in [Alerts -> Nat] /\ done' = done
        BY <2>1 DEF I!TypeOK
      <4>2. intelDead'[a] = IF job[n].alert = a THEN intelDead[a] + 1 ELSE intelDead[a]
        BY <2>2, <4>1 DEF I!DeadLetter
      <4> QED
        BY <4>1, <4>2
    <3> QED
      BY <2>1, <3>1, <3>2, PushesEnded
  <2>3. CASE ~I!DeadLetter(n)
    <3>1. job'[n].on = job[n].on /\ job'[n].alert = job[n].alert /\ intelDead' = intelDead
      BY <1>6, <2>3, IntelJobs
    <3> QED
      BY <2>1, <3>1, PushesKept
  <2> QED
    BY <2>2, <2>3
<1>7. ASSUME UNCHANGED <<intelQueue, pushes, done, intelDead, job>> PROVE PushesAccounted'
  BY <1>7, PushesKept
<1> QED
  BY <1>1, <1>2, <1>3, <1>4, <1>5, <1>6, <1>7
  DEF I!Next, I!Expire, I!FeedRead, I!FeedCommit, I!vars

LEMMA IntelStarts ==
    ASSUME I!IntelAssumption, I!Init
    PROVE  IntelInv
<1>1. I!TypeOK
  <2>1. (CHOOSE a \in Alerts : TRUE) \in Alerts
    BY DEF I!IntelAssumption
  <2>2. I!Free \in [on : BOOLEAN, alert : Alerts, todo : SUBSET Indicators, hits : SUBSET I!Entries,
                    insert : SUBSET I!Entries, found : SUBSET I!Entries]
    BY <2>1 DEF I!Free
  <2>3. I!NoFeed \in [on : BOOLEAN, new : SUBSET I!Entries] /\ <<>> \in Seq(Alerts)
    BY EmptySeq DEF I!NoFeed
  <2>4. matches \in I!Matches
    BY DEF I!Init, I!Matches
  <2>5. pushes \in [Alerts -> 0..MaxPushes] /\ intelFaults \in 0..MaxIntelFaults
    BY DEF I!Init, I!IntelAssumption
  <2> QED
    BY <2>2, <2>3, <2>4, <2>5 DEF I!Init, I!TypeOK, I!Iocs
<1>2. CacheBacked
  BY DEF I!Init, CacheBacked, I!IntelAssumption, I!Missing
<1>3. JobsBacked
  BY DEF I!Init, JobsBacked, I!Free
<1>4. MatchesOfKnown
  BY DEF I!Init, MatchesOfKnown
<1>5. NothingMissed
  <2>1. \A n \in Enrichers : ~job[n].on
    BY DEF I!Init, I!Free
  <2>2. \A v \in Indicators : cache[v] = I!Missing
    BY DEF I!Init
  <2>3. \A a \in Alerts : \A v \in IndicatorsOf[a] :
          Listed(v) => matches[a][<<First(v), v>>] >= done[a]
    <3> TAKE a \in Alerts
    <3> TAKE v \in IndicatorsOf[a]
    <3> HAVE Listed(v)
    <3>1. <<First(v), v>> \in I!Entries
      BY ListedFirst DEF I!Init, I!IntelAssumption
    <3> QED
      BY <3>1 DEF I!Init
  <2> QED
    BY <2>1, <2>2, <2>3 DEF NothingMissed
<1>6. PushesAccounted
  <2> SUFFICES ASSUME NEW a \in Alerts
               PROVE  /\ IsFiniteSet(Working(a))
                      /\ done[a] + intelDead[a] + Cardinality(Waiting(a)) + Cardinality(Working(a)) <= pushes[a]
    BY DEF PushesAccounted
  <2>1. Working(a) = {} /\ Waiting(a) = {}
    BY DEF I!Init, Working, Waiting, Places, I!Free
  <2> QED
    BY <2>1, FS_EmptySet DEF I!Init
<1> QED
  BY <1>1, <1>2, <1>3, <1>4, <1>5, <1>6 DEF IntelInv

\* The matches of an alert are backed: never more with one entry than the alert was enriched,
\* none with an entry that no source lists or that is not stored, and without intelFaults one for
\* every indicator that somebody lists, also when the answer came from the cache
\* (threat_intel_worker.py: _enrich_alert, _upsert_iocs).
THEOREM IntelMatchesBacked == I!Spec => []I!MatchesBacked
<1>0. I!IntelAssumption
  BY OutboundAssumption
<1> USE <1>0
<1>1. I!Init => IntelInv
  BY IntelStarts
<1>2. IntelInv /\ [I!Next]_I!vars => IntelInv'
  <2> SUFFICES ASSUME IntelInv, [I!Next]_I!vars PROVE IntelInv'
    OBVIOUS
  <2>1. I!TypeOK'
    BY IntelTypes DEF IntelInv
  <2>2. CacheBacked' /\ JobsBacked' /\ MatchesOfKnown'
    BY IntelBacked DEF IntelInv
  <2>3. NothingMissed'
    BY IntelMissesNothing DEF IntelInv
  <2>4. PushesAccounted'
    BY IntelPushes DEF IntelInv
  <2> QED
    BY <2>1, <2>2, <2>3, <2>4 DEF IntelInv
<1>3. IntelInv => I!MatchesBacked
  <2> SUFFICES ASSUME IntelInv PROVE I!MatchesBacked
    OBVIOUS
  <2>1. ASSUME NEW a \in Alerts PROVE done[a] + intelDead[a] <= pushes[a]
    <3>1. /\ done[a] + intelDead[a] + Cardinality(Waiting(a)) + Cardinality(Working(a)) <= pushes[a]
          /\ Cardinality(Waiting(a)) \in Nat /\ Cardinality(Working(a)) \in Nat
          /\ done[a] \in Nat /\ intelDead[a] \in Nat /\ pushes[a] \in Nat
      BY PlacesFinite, FS_CardinalityType DEF IntelInv, I!TypeOK, PushesAccounted, Waiting
    <3> QED
      BY <3>1
  <2>2. ASSUME NEW a \in Alerts, NEW v \in IndicatorsOf[a], intelFaults = 0, Listed(v)
        PROVE  \E s \in Sources : matches[a][<<s, v>>] >= done[a]
    <3>1. v \in Indicators /\ First(v) \in Sources
      BY <2>2, ListedFirst DEF I!IntelAssumption
    <3> QED
      BY <2>2, <3>1 DEF IntelInv, NothingMissed
  <2> QED
    BY <2>1, <2>2 DEF IntelInv, MatchesOfKnown, I!MatchesBacked, Listed
<1> QED
  BY <1>1, <1>2, <1>3, PTL DEF I!Spec
-----------------------------------------------------------------------------
(***************************************************************************)
(* OSINT lookups.  A lookup is in one place, asked for once, and its scan  *)
(* has its file to itself unless another scan of the username has crossed  *)
(* it; so what the file tells is its own.                                  *)
(***************************************************************************)
Founds == [version : 0..MaxWeb, from : 0..MaxWeb, failed : BOOLEAN, crossed : BOOLEAN]
Scans ==
  {O!Off} \cup [at : {"starting"}]
    \cup [at : {"running", "writing", "reading"}, saw : 0..MaxWeb]
Lookups ==
  {O!Free} \cup [at : {"read", "asked"}, target : Targets]
    \cup [at : {"answered"}, target : Targets, version : 0..MaxWeb]

LookupTypes ==
  /\ place \in [Targets -> {"new", "stored", "queued", "taken", "done", "dead", "lost"}]
  /\ lookupQueue \in Seq(Targets)
  /\ lookup \in [Lookers -> Lookups] /\ scan \in [Targets -> Scans]
  /\ file \in [Names -> O!Half..MaxWeb] /\ found \in [Targets -> Founds]
  /\ web \in 1..MaxWeb

Scanned(t) == scan[t].at \in {"running", "writing", "reading"}
Holding(w, t) == lookup[w].at # "free" /\ lookup[w].target = t

LookupPlaced ==
  /\ \A w \in Lookers : lookup[w].at # "free" => place[lookup[w].target] = "taken"
  /\ \A w, v \in Lookers : \A t \in Targets : Holding(w, t) /\ Holding(v, t) => w = v
  /\ \A i \in 1..Len(lookupQueue) : place[lookupQueue[i]] = "queued"
  /\ \A i, k \in 1..Len(lookupQueue) : lookupQueue[i] = lookupQueue[k] => i = k

(* A target is scanned at most once, after it was popped, and only then it has results. *)
ScannedOnce ==
  /\ \A t \in Targets : scan[t].at # "off" =>
       NameOf[t] \in Names /\ place[t] \notin {"new", "stored", "queued"}
  /\ \A w \in Lookers : lookup[w].at = "read" => scan[lookup[w].target].at = "off"
  /\ \A w \in Lookers : lookup[w].at = "answered" /\ lookup[w].version > 0 =>
       scan[lookup[w].target].at = "off"
  /\ \A t \in Targets : found[t].version > 0 => scan[t].at = "off" /\ place[t] = "done"

(* Scans that share a file know it; the file of the others is what they made of it. *)
FilesTold ==
  /\ \A t, u \in Targets : t # u /\ Scanned(t) /\ Scanned(u) /\ NameOf[t] = NameOf[u] =>
       found[t].crossed
  /\ \A t \in Targets : found[t].from <= web /\ (Scanned(t) => scan[t].saw <= web)
  /\ \A t \in Targets : scan[t].at = "writing" => found[t].from <= scan[t].saw /\ scan[t].saw # 0
  /\ \A t \in Targets : scan[t].at \in {"running", "writing"} /\ ~found[t].crossed =>
       file[NameOf[t]] \in {O!NoFile, O!Half}
  /\ \A t \in Targets : scan[t].at = "reading" /\ ~found[t].crossed =>
       IF file[NameOf[t]] \in {O!NoFile, O!Half} THEN found[t].failed
       ELSE file[NameOf[t]] >= found[t].from

(* An answer is as new as the scan, or no answer because something failed. *)
AnswerTrue(t, version) ==
  NameOf[t] \in Names /\ ~found[t].crossed =>
    IF version = 0 THEN found[t].failed ELSE version >= found[t].from
AnswersTold ==
  /\ \A w \in Lookers : lookup[w].at = "answered" => AnswerTrue(lookup[w].target, lookup[w].version)
  /\ \A t \in Targets : place[t] = "done" => AnswerTrue(t, found[t].version)

(* Nobody crosses a scan that has not begun. *)
Begun(t) == scan[t].at # "starting" /\ place[t] \notin {"new", "stored", "queued"}
CrossedBegun ==
  /\ \A t \in Targets : found[t].crossed => Begun(t)
  /\ \A w \in Lookers : lookup[w].at = "read" => ~found[lookup[w].target].crossed

LookupInv ==
  LookupTypes /\ LookupPlaced /\ ScannedOnce /\ FilesTold /\ AnswersTold /\ CrossedBegun

\* What the records of the three kinds have.
LEMMA LookupShapes ==
    ASSUME LookupTypes
    PROVE  /\ \A w \in Lookers :
                /\ lookup[w].at \in {"free", "read", "asked", "answered"}
                /\ lookup[w].at = "free" <=> lookup[w] = O!Free
                /\ lookup[w].at # "free" => lookup[w].target \in Targets
                /\ lookup[w].at = "answered" => lookup[w].version \in 0..MaxWeb
           /\ \A t \in Targets :
                /\ scan[t].at \in {"off", "starting", "running", "writing", "reading"}
                /\ Scanned(t) => scan[t].saw \in 0..MaxWeb
                /\ found[t].version \in 0..MaxWeb /\ found[t].from \in 0..MaxWeb
                /\ found[t].failed \in BOOLEAN /\ found[t].crossed \in BOOLEAN
<1>1. ASSUME NEW w \in Lookers
      PROVE  /\ lookup[w].at \in {"free", "read", "asked", "answered"}
             /\ lookup[w].at = "free" <=> lookup[w] = O!Free
             /\ lookup[w].at # "free" => lookup[w].target \in Targets
             /\ lookup[w].at = "answered" => lookup[w].version \in 0..MaxWeb
  <2>1. lookup[w] \in Lookups
    BY DEF LookupTypes
  <2> QED
    BY <2>1 DEF Lookups, O!Free
<1>2. ASSUME NEW t \in Targets
      PROVE  /\ scan[t].at \in {"off", "starting", "running", "writing", "reading"}
             /\ Scanned(t) => scan[t].saw \in 0..MaxWeb
             /\ found[t].version \in 0..MaxWeb /\ found[t].from \in 0..MaxWeb
             /\ found[t].failed \in BOOLEAN /\ found[t].crossed \in BOOLEAN
  <2>1. scan[t] \in Scans /\ found[t] \in Founds
    BY DEF LookupTypes
  <2> QED
    BY <2>1 DEF Scans, Founds, Scanned, O!Off
<1> QED
  BY <1>1, <1>2

\* What a step does to the lookup of a worker and to the scan of a target.
LEMMA LookupRecords ==
    ASSUME LookupTypes
    PROVE  /\ \A w \in Lookers : lookup[w].at = "read" =>
                [lookup[w] EXCEPT !.at = "asked"] = [at |-> "asked", target |-> lookup[w].target]
           /\ \A t \in Targets : scan[t].at = "off" => [scan[t] EXCEPT !.at = "starting"] = [at |-> "starting"]
           /\ \A t \in Targets : Scanned(t) =>
                [scan[t] EXCEPT !.at = "reading"] = [at |-> "reading", saw |-> scan[t].saw]
<1>1. ASSUME NEW w \in Lookers, lookup[w].at = "read"
      PROVE  [lookup[w] EXCEPT !.at = "asked"] = [at |-> "asked", target |-> lookup[w].target]
  <2>1. lookup[w] \in [at : {"read", "asked"}, target : Targets]
    <3>1. lookup[w] \in Lookups
      BY DEF LookupTypes
    <3> QED
      BY <1>1, <3>1 DEF Lookups, O!Free
  <2> QED
    BY <2>1
<1>2. ASSUME NEW t \in Targets
      PROVE  /\ scan[t].at = "off" => [scan[t] EXCEPT !.at = "starting"] = [at |-> "starting"]
             /\ Scanned(t) => [scan[t] EXCEPT !.at = "reading"] = [at |-> "reading", saw |-> scan[t].saw]
  <2>1. scan[t] \in Scans
    BY DEF LookupTypes
  <2>2. CASE scan[t].at = "off"
    <3>1. scan[t] = [at |-> "off"]
      BY <2>1, <2>2 DEF Scans, O!Off
    <3> QED
      BY <3>1 DEF Scanned
  <2>3. CASE Scanned(t)
    <3>1. scan[t] \in [at : {"running", "writing", "reading"}, saw : 0..MaxWeb]
      BY <2>1, <2>3 DEF Scans, O!Off, Scanned
    <3> QED
      BY <3>1 DEF Scanned
  <2> QED
    BY <2>2, <2>3
<1> QED
  BY <1>1, <1>2

\* The lookup of a target moves on; its scan and its file do not.
LEMMA LookupMoves ==
    ASSUME O!OsintAssumption, LookupInv, NEW t \in Targets, O!Store(t) \/ O!Push(t) \/ O!PushFails(t)
    PROVE  LookupInv'
<1>0. LookupTypes /\ LookupPlaced /\ ScannedOnce /\ FilesTold /\ AnswersTold /\ CrossedBegun
  BY DEF LookupInv
<1>1. /\ UNCHANGED <<lookup, scan, file, found, web>> /\ place[t] \in {"new", "stored"}
      /\ place'[t] \in {"stored", "queued", "lost"} /\ \A u \in Targets \ {t} : place'[u] = place[u]
      /\ place' \in [Targets -> {"new", "stored", "queued", "taken", "done", "dead", "lost"}]
  BY <1>0 DEF O!Store, O!Push, O!PushFails, LookupTypes
<1>2. /\ \A i \in 1..Len(lookupQueue) : lookupQueue[i] \in Targets
      /\ \A w \in Lookers : lookup[w].at # "free" => lookup[w].target \in Targets
  BY <1>0, LookupShapes, ElementOfSeq DEF LookupTypes
<1>3. LookupTypes' /\ LookupPlaced'
  <2>1. CASE O!Push(t)
    <3>1. PICK n \in Nat : n = Len(lookupQueue)
      BY <1>0, LenProperties DEF LookupTypes
    <3>2. /\ lookupQueue' \in Seq(Targets) /\ Len(lookupQueue') = n + 1 /\ lookupQueue'[1] = t
          /\ \A i \in 2..n + 1 : lookupQueue'[i] = lookupQueue[i - 1]
      BY <1>0, <2>1, <3>1 DEF O!Push, LookupTypes
    <3>3. place'[t] = "queued" /\ place[t] = "stored"
      BY <1>0, <2>1 DEF O!Push, LookupTypes
    <3>4. \A i \in 1..n : lookupQueue[i] # t /\ lookupQueue[i] \in Targets /\ place[lookupQueue[i]] = "queued"
      BY <1>0, <1>2, <3>1, <3>3 DEF LookupPlaced
    <3>5. \A i \in 1..n + 1 : i = 1 \/ (i \in 2..n + 1 /\ i - 1 \in 1..n)
      BY <3>1
    <3>6. \A i \in 1..n + 1 : place'[lookupQueue'[i]] = "queued"
      BY <1>1, <3>2, <3>3, <3>4, <3>5
    <3>7. ASSUME NEW i \in 1..n + 1, NEW k \in 1..n + 1, lookupQueue'[i] = lookupQueue'[k] PROVE i = k
      <4>1. CASE i = 1 \/ k = 1
        BY <3>2, <3>4, <3>5, <3>7, <4>1
      <4>2. CASE i # 1 /\ k # 1
        <5>1. lookupQueue[i - 1] = lookupQueue[k - 1] /\ i - 1 \in 1..n /\ k - 1 \in 1..n
          BY <3>2, <3>5, <3>7, <4>2
        <5>2. i - 1 = k - 1
          BY <1>0, <3>1, <5>1 DEF LookupPlaced
        <5> QED
          BY <5>2
      <4> QED
        BY <4>1, <4>2
    <3>8. \A w \in Lookers : lookup'[w].at # "free" => place'[lookup'[w].target] = "taken"
      BY <1>0, <1>1, <1>2 DEF LookupPlaced
    <3>9. \A i \in 1..Len(lookupQueue') : place'[lookupQueue'[i]] = "queued"
      BY <3>2, <3>6
    <3>10. \A i, k \in 1..Len(lookupQueue') : lookupQueue'[i] = lookupQueue'[k] => i = k
      BY <3>2, <3>7
    <3>11. \A w, v \in Lookers : \A u \in Targets : Holding(w, u)' /\ Holding(v, u)' => w = v
      BY <1>0, <1>1 DEF LookupPlaced, Holding
    <3> QED
      BY <1>0, <1>1, <3>2, <3>8, <3>9, <3>10, <3>11 DEF LookupTypes, LookupPlaced
  <2>2. CASE ~O!Push(t)
    <3>1. lookupQueue' = lookupQueue
      BY <2>2 DEF O!Store, O!PushFails
    <3> QED
      BY <1>0, <1>1, <1>2, <3>1 DEF LookupTypes, LookupPlaced, Holding
  <2> QED
    BY <2>1, <2>2
<1>4. ScannedOnce'
  <2>1. scan[t].at = "off" /\ ~(found[t].version > 0)
    BY <1>0, <1>1 DEF ScannedOnce
  <2> QED
    BY <1>0, <1>1, <2>1 DEF ScannedOnce
<1>5. FilesTold'
  BY <1>0, <1>1 DEF FilesTold, Scanned
<1>6. AnswersTold'
  BY <1>0, <1>1 DEF AnswersTold, AnswerTrue
<1>7. CrossedBegun'
  BY <1>0, <1>1 DEF CrossedBegun, Begun
<1> QED
  BY <1>3, <1>4, <1>5, <1>6, <1>7 DEF LookupInv

\* A step that begins no scan, writes no file and only adds failures.
LEMMA FilesKept ==
    ASSUME FilesTold, UNCHANGED <<file, web>>,
           \A t \in Targets :
             /\ Scanned(t)' => scan'[t] = scan[t]
             /\ found'[t].from = found[t].from /\ found'[t].crossed = found[t].crossed
             /\ found[t].failed => found'[t].failed
    PROVE  FilesTold'
BY DEF FilesTold, Scanned

LEMMA LookupPops ==
    ASSUME O!OsintAssumption, LookupInv, NEW w \in Lookers, O!Pop(w)
    PROVE  LookupInv'
<1>0. LookupTypes /\ LookupPlaced /\ ScannedOnce /\ FilesTold /\ AnswersTold /\ CrossedBegun
  BY DEF LookupInv
<1>1. PICK n \in Nat : Len(lookupQueue) = n + 1
  <2>1. Len(lookupQueue) \in Nat \ {0}
    BY <1>0, EmptySeq, LenProperties DEF O!Pop, LookupTypes
  <2> QED
    BY <2>1
<1>2. PICK t \in Targets : t = lookupQueue[n + 1]
  BY <1>0, <1>1, ElementOfSeq DEF LookupTypes
<1>3. /\ lookup[w].at = "free" /\ UNCHANGED <<scan, file, found, web>>
      /\ lookup' = [lookup EXCEPT ![w] = [at |-> "read", target |-> t]]
      /\ place' = [place EXCEPT ![t] = "taken"]
      /\ place[t] = "queued" /\ scan[t].at = "off"
  <2>1. place[t] = "queued"
    BY <1>0, <1>1, <1>2 DEF LookupPlaced
  <2> QED
    BY <1>0, <1>1, <1>2, <2>1 DEF O!Pop, O!Free, ScannedOnce, LookupTypes
<1>4. /\ lookupQueue' \in Seq(Targets) /\ Len(lookupQueue') = n
      /\ \A i \in 1..n : lookupQueue'[i] = lookupQueue[i] /\ lookupQueue[i] \in Targets /\ lookupQueue[i] # t
  <2>1. lookupQueue' = SubSeq(lookupQueue, 1, n)
    BY <1>1 DEF O!Pop
  <2>2. \A i \in 1..n : lookupQueue[i] \in Targets
    BY <1>0, <1>1, ElementOfSeq DEF LookupTypes
  <2>3. \A i \in 1..n : lookupQueue[i] # t
    <3> SUFFICES ASSUME NEW i \in 1..n, lookupQueue[i] = lookupQueue[n + 1] PROVE FALSE
      BY <1>2
    <3>1. i \in 1..n + 1 /\ n + 1 \in 1..n + 1 /\ i # n + 1
      OBVIOUS
    <3> QED
      BY <1>0, <1>1, <3>1 DEF LookupPlaced
  <2> QED
    BY <2>1, <2>2, <2>3, SubSeqProperties
<1>5. \A v \in Lookers : lookup'[v] = IF v = w THEN [at |-> "read", target |-> t] ELSE lookup[v]
  BY <1>0, <1>3 DEF LookupTypes
<1>6. \A u \in Targets : place'[u] = IF u = t THEN "taken" ELSE place[u]
  BY <1>0, <1>3 DEF LookupTypes
<1>7. \A v \in Lookers : lookup[v].at # "free" =>
        lookup[v].target \in Targets /\ place[lookup[v].target] = "taken" /\ lookup[v].target # t
  BY <1>0, <1>3, LookupShapes DEF LookupPlaced
<1>8. LookupTypes'
  <2>1. [at |-> "read", target |-> t] \in Lookups
    BY DEF Lookups
  <2>2. lookup' \in [Lookers -> Lookups]
    BY <1>0, <1>3, <2>1 DEF LookupTypes
  <2> QED
    BY <1>0, <1>3, <1>4, <2>2 DEF LookupTypes
<1>9. LookupPlaced'
  <2>1. \A v \in Lookers : lookup'[v].at # "free" => place'[lookup'[v].target] = "taken"
    BY <1>5, <1>6, <1>7
  <2>2. \A v, x \in Lookers : \A u \in Targets : Holding(v, u)' /\ Holding(x, u)' => v = x
    BY <1>0, <1>5, <1>7 DEF LookupPlaced, Holding
  <2>3. \A i \in 1..n : place'[lookupQueue'[i]] = "queued"
    BY <1>0, <1>1, <1>4, <1>6 DEF LookupPlaced
  <2>4. \A i, k \in 1..n : lookupQueue'[i] = lookupQueue'[k] => i = k
    BY <1>0, <1>1, <1>4 DEF LookupPlaced
  <2> QED
    BY <1>4, <2>1, <2>2, <2>3, <2>4 DEF LookupPlaced
<1>10. ScannedOnce'
  <2>1. \A v \in Lookers : lookup'[v].at = "read" => scan'[lookup'[v].target].at = "off"
    BY <1>0, <1>3, <1>5 DEF ScannedOnce
  <2>2. \A v \in Lookers : lookup'[v].at = "answered" /\ lookup'[v].version > 0 =>
          scan'[lookup'[v].target].at = "off"
    BY <1>0, <1>3, <1>5 DEF ScannedOnce
  <2> QED
    BY <1>0, <1>3, <1>6, <2>1, <2>2 DEF ScannedOnce
<1>11. FilesTold'
  BY <1>0, <1>3, FilesKept
<1>12. AnswersTold'
  BY <1>0, <1>3, <1>5, <1>6 DEF AnswersTold, AnswerTrue
<1>13. CrossedBegun'
  <2>1. ~found[t].crossed
    BY <1>0, <1>3 DEF CrossedBegun, Begun
  <2> QED
    BY <1>0, <1>3, <1>5, <1>6, <2>1 DEF CrossedBegun, Begun
<1> QED
  BY <1>8, <1>9, <1>10, <1>11, <1>12, <1>13 DEF LookupInv

\* The place of a lookup stays, and whoever holds it goes on holding it.
LEMMA LookupStays ==
    ASSUME LookupPlaced, UNCHANGED <<place, lookupQueue>>,
           \A w \in Lookers : /\ lookup'[w].at = "free" <=> lookup[w].at = "free"
                              /\ lookup[w].at # "free" => lookup'[w].target = lookup[w].target
    PROVE  LookupPlaced'
<1>1. \A w \in Lookers : lookup'[w].at # "free" => place'[lookup'[w].target] = "taken"
  BY DEF LookupPlaced
<1>2. \A w, v \in Lookers : \A t \in Targets : Holding(w, t)' /\ Holding(v, t)' => w = v
  BY DEF LookupPlaced, Holding
<1> QED
  BY <1>1, <1>2 DEF LookupPlaced

LEMMA LookupAsks ==
    ASSUME O!OsintAssumption, LookupInv, NEW w \in Lookers, O!Ask(w)
    PROVE  LookupInv'
<1>0. LookupTypes /\ LookupPlaced /\ ScannedOnce /\ FilesTold /\ AnswersTold /\ CrossedBegun
  BY DEF LookupInv
<1>1. PICK t \in Targets : t = lookup[w].target
  BY <1>0, LookupShapes DEF O!Ask
<1>2. lookup[w].at = "read" /\ scan[t].at = "off" /\ place[t] = "taken"
      /\ UNCHANGED <<place, lookupQueue, file, found, web>>
  BY <1>0, <1>1 DEF O!Ask, ScannedOnce, LookupPlaced
<1>3. CASE NameOf[t] \in Names
  <2>1. /\ scan' = [scan EXCEPT ![t] = [at |-> "starting"]]
        /\ lookup' = [lookup EXCEPT ![w] = [at |-> "asked", target |-> t]]
    BY <1>0, <1>1, <1>2, <1>3, LookupRecords DEF O!Ask, LookupTypes
  <2>2. \A v \in Lookers : lookup'[v] = IF v = w THEN [at |-> "asked", target |-> t] ELSE lookup[v]
    BY <1>0, <2>1 DEF LookupTypes
  <2>3. \A u \in Targets : scan'[u] = IF u = t THEN [at |-> "starting"] ELSE scan[u]
    BY <1>0, <2>1 DEF LookupTypes
  <2>4. LookupTypes'
    <3>1. [at |-> "asked", target |-> t] \in Lookups /\ [at |-> "starting"] \in Scans
      BY DEF Lookups, Scans
    <3>2. lookup' \in [Lookers -> Lookups] /\ scan' \in [Targets -> Scans]
      BY <1>0, <2>1, <3>1 DEF LookupTypes
    <3> QED
      BY <1>0, <1>2, <3>2 DEF LookupTypes
  <2>5. LookupPlaced'
    BY <1>0, <1>1, <1>2, <2>2, LookupStays
  <2>6. \A v \in Lookers : v # w /\ lookup[v].at # "free" => lookup[v].target # t
    BY <1>0, <1>1, <1>2 DEF LookupPlaced, Holding
  <2>7. ScannedOnce'
    <3>1. \A u \in Targets : scan'[u].at # "off" =>
            NameOf[u] \in Names /\ place'[u] \notin {"new", "stored", "queued"}
      BY <1>0, <1>2, <1>3, <2>3 DEF ScannedOnce
    <3>2. ASSUME NEW v \in Lookers,
                 lookup'[v].at = "read" \/ (lookup'[v].at = "answered" /\ lookup'[v].version > 0)
          PROVE  scan'[lookup'[v].target].at = "off"
      <4>1. v # w /\ lookup'[v] = lookup[v]
        BY <2>2, <3>2
      <4>2. lookup[v].target \in Targets /\ lookup[v].target # t
        BY <1>0, <2>6, <3>2, <4>1, LookupShapes
      <4> QED
        BY <1>0, <2>3, <3>2, <4>1, <4>2 DEF ScannedOnce
    <3>3. \A u \in Targets : found'[u].version > 0 => scan'[u].at = "off" /\ place'[u] = "done"
      <4>1. ~(found[t].version > 0)
        BY <1>0, <1>2 DEF ScannedOnce
      <4> QED
        BY <1>0, <1>2, <2>3, <4>1 DEF ScannedOnce
    <3> QED
      BY <3>1, <3>2, <3>3 DEF ScannedOnce
  <2>8. FilesTold'
    BY <1>0, <1>2, <2>3, FilesKept DEF Scanned
  <2>9. AnswersTold'
    BY <1>0, <1>2, <2>2 DEF AnswersTold, AnswerTrue
  <2>10. CrossedBegun'
    BY <1>0, <1>1, <1>2, <2>2, <2>3 DEF CrossedBegun, Begun
  <2> QED
    BY <2>4, <2>5, <2>7, <2>8, <2>9, <2>10 DEF LookupInv
<1>4. CASE NameOf[t] \notin Names
  <2>1. scan' = scan /\ lookup' = [lookup EXCEPT ![w] = [at |-> "answered", target |-> t, version |-> 0]]
    BY <1>1, <1>4 DEF O!Ask
  <2>2. \A v \in Lookers :
          lookup'[v] = IF v = w THEN [at |-> "answered", target |-> t, version |-> 0] ELSE lookup[v]
    BY <1>0, <2>1 DEF LookupTypes
  <2>4. LookupTypes'
    <3>1. [at |-> "answered", target |-> t, version |-> 0] \in Lookups
      BY DEF Lookups, O!OsintAssumption
    <3>2. lookup' \in [Lookers -> Lookups]
      BY <1>0, <2>1, <3>1 DEF LookupTypes
    <3> QED
      BY <1>0, <1>2, <2>1, <3>2 DEF LookupTypes
  <2>5. LookupPlaced'
    BY <1>0, <1>1, <1>2, <2>2, LookupStays
  <2>7. ScannedOnce'
    BY <1>0, <1>2, <2>1, <2>2 DEF ScannedOnce
  <2>8. FilesTold'
    BY <1>0, <1>2, <2>1, FilesKept
  <2>9. AnswersTold'
    BY <1>0, <1>2, <1>4, <2>2 DEF AnswersTold, AnswerTrue
  <2>10. CrossedBegun'
    BY <1>0, <1>2, <2>1, <2>2 DEF CrossedBegun, Begun
  <2> QED
    BY <2>4, <2>5, <2>7, <2>8, <2>9, <2>10 DEF LookupInv
<1> QED
  BY <1>3, <1>4

\* A step of the tool: it moves the scan of t on, and may write its file.
LEMMA ScanMoves ==
    ASSUME O!OsintAssumption, LookupInv, NEW t \in Targets,
           UNCHANGED <<place, lookupQueue, lookup, web>>, scan[t].at # "off",
           NEW r \in Scans, scan' = [scan EXCEPT ![t] = r], r.at # "off",
           NEW content \in O!Half..MaxWeb, file' = [file EXCEPT ![NameOf[t]] = content],
           found' \in [Targets -> Founds],
           \A u \in Targets : /\ found'[u].version = found[u].version
                              /\ u # t => found'[u].from = found[u].from
                              /\ found'[u].crossed => found[u].crossed \/ u = t \/ Scanned(u)
                              /\ found[u].crossed => found'[u].crossed
                              /\ found[u].failed => found'[u].failed,
           found'[t].from = found[t].from \/ scan[t].at = "starting",
           found'[t].from <= web, Scanned(t)' => scan'[t].saw <= web,
           \A u \in Targets \ {t} : Scanned(u) /\ NameOf[u] = NameOf[t] /\ Scanned(t)' =>
             found'[u].crossed /\ found'[t].crossed,
           scan'[t].at = "writing" => found'[t].from <= scan'[t].saw /\ scan'[t].saw # 0,
           scan'[t].at \in {"running", "writing"} /\ ~found'[t].crossed => content \in {O!NoFile, O!Half},
           scan'[t].at = "reading" /\ ~found'[t].crossed =>
             IF content \in {O!NoFile, O!Half} THEN found'[t].failed ELSE content >= found'[t].from,
           Scanned(t)', scan'[t].at # "starting"
    PROVE  LookupInv'
<1>0. LookupTypes /\ LookupPlaced /\ ScannedOnce /\ FilesTold /\ AnswersTold /\ CrossedBegun
  BY DEF LookupInv
<1>1. /\ NameOf[t] \in Names /\ place[t] \notin {"new", "stored", "queued"} /\ ~(found[t].version > 0)
      /\ \A w \in Lookers : lookup[w].at = "answered" /\ lookup[w].target = t => ~(lookup[w].version > 0)
      /\ \A w \in Lookers : lookup[w].at = "read" => lookup[w].target # t
  BY <1>0 DEF ScannedOnce
<1>2. /\ \A u \in Targets : scan'[u] = IF u = t THEN r ELSE scan[u]
      /\ \A n \in Names : file'[n] = IF n = NameOf[t] THEN content ELSE file[n]
  BY <1>0 DEF LookupTypes
<1>3. LookupTypes'
  BY <1>0 DEF LookupTypes
<1>4. LookupPlaced'
  BY <1>0, LookupStays
<1>5. ScannedOnce'
  BY <1>0, <1>1, <1>2, LookupShapes DEF ScannedOnce
<1>6. FilesTold'
  <2>1. ASSUME NEW u \in Targets \ {t}
        PROVE  /\ scan'[u] = scan[u] /\ found'[u].from = found[u].from
               /\ Scanned(u) /\ ~found'[u].crossed =>
                    ~found[u].crossed /\ file'[NameOf[u]] = file[NameOf[u]]
               /\ found[u].failed => found'[u].failed
    <3>1. ASSUME Scanned(u), ~found'[u].crossed PROVE file'[NameOf[u]] = file[NameOf[u]]
      <4>1. NameOf[u] # NameOf[t] /\ NameOf[u] \in Names
        BY <1>0, <3>1 DEF ScannedOnce, Scanned
      <4> QED
        BY <1>2, <4>1
    <3> QED
      BY <1>2, <3>1
  <2>2. \A u, x \in Targets : u # x /\ Scanned(u)' /\ Scanned(x)' /\ NameOf[u] = NameOf[x] =>
          found'[u].crossed
    <3> SUFFICES ASSUME NEW u \in Targets, NEW x \in Targets, u # x, Scanned(u)', Scanned(x)',
                        NameOf[u] = NameOf[x]
                 PROVE  found'[u].crossed
      OBVIOUS
    <3>1. CASE u = t \/ x = t
      BY <2>1, <3>1 DEF Scanned
    <3>2. CASE u # t /\ x # t
      BY <1>0, <2>1, <3>2 DEF FilesTold, Scanned
    <3> QED
      BY <3>1, <3>2
  <2>3. \A u \in Targets : found'[u].from <= web' /\ (Scanned(u)' => scan'[u].saw <= web')
    BY <1>0, <2>1 DEF FilesTold, Scanned
  <2>4. \A u \in Targets : scan'[u].at = "writing" => found'[u].from <= scan'[u].saw /\ scan'[u].saw # 0
    BY <1>0, <2>1 DEF FilesTold
  <2>5. file'[NameOf[t]] = content
    BY <1>1, <1>2
  <2>6. \A u \in Targets : scan'[u].at \in {"running", "writing"} /\ ~found'[u].crossed =>
          file'[NameOf[u]] \in {O!NoFile, O!Half}
    BY <1>0, <2>1, <2>5 DEF FilesTold, Scanned
  <2>7. ASSUME NEW u \in Targets, scan'[u].at = "reading", ~found'[u].crossed
        PROVE  IF file'[NameOf[u]] \in {O!NoFile, O!Half} THEN found'[u].failed
               ELSE file'[NameOf[u]] >= found'[u].from
    <3>1. CASE u = t
      BY <2>5, <2>7, <3>1
    <3>2. CASE u # t
      <4>1. /\ scan[u].at = "reading" /\ ~found[u].crossed /\ file'[NameOf[u]] = file[NameOf[u]]
            /\ found'[u].from = found[u].from /\ found[u].failed => found'[u].failed
        BY <2>1, <2>7, <3>2 DEF Scanned
      <4> QED
        BY <1>0, <4>1 DEF FilesTold
    <3> QED
      BY <3>1, <3>2
  <2> QED
    BY <2>2, <2>3, <2>4, <2>6, <2>7 DEF FilesTold, O!NoFile, O!Half
<1>7. AnswersTold'
  <2>1. ASSUME NEW u \in Targets, NEW v \in 0..MaxWeb, AnswerTrue(u, v), u = t => ~(v > 0)
        PROVE  AnswerTrue(u, v)'
    <3>1. v # 0 => v > 0 /\ u # t /\ found'[u].from = found[u].from
      BY <2>1
    <3> QED
      BY <2>1, <3>1 DEF AnswerTrue
  <2>2. ASSUME NEW w \in Lookers, lookup[w].at = "answered"
        PROVE  AnswerTrue(lookup[w].target, lookup[w].version)'
    <3>1. PICK u \in Targets, v \in 0..MaxWeb : u = lookup[w].target /\ v = lookup[w].version
      BY <1>0, <2>2, LookupShapes
    <3>2. AnswerTrue(u, v) /\ (u = t => ~(v > 0))
      BY <1>0, <1>1, <2>2, <3>1 DEF AnswersTold
    <3> QED
      BY <2>1, <3>1, <3>2 DEF AnswerTrue
  <2>3. ASSUME NEW u \in Targets, place[u] = "done" PROVE AnswerTrue(u, found[u].version)'
    <3>1. PICK v \in 0..MaxWeb : v = found[u].version
      BY <1>0, LookupShapes
    <3>2. AnswerTrue(u, v) /\ (u = t => ~(v > 0))
      BY <1>0, <1>1, <2>3, <3>1 DEF AnswersTold
    <3> QED
      BY <2>1, <3>1, <3>2 DEF AnswerTrue
  <2> QED
    BY <2>2, <2>3 DEF AnswersTold
<1>8. CrossedBegun'
  <2>1. ASSUME NEW u \in Targets, found'[u].crossed PROVE Begun(u)'
    BY <1>0, <1>1, <1>2, <2>1 DEF CrossedBegun, Begun, Scanned, ScannedOnce
  <2>2. ASSUME NEW w \in Lookers, lookup[w].at = "read" PROVE ~found'[lookup[w].target].crossed
    BY <1>0, <1>1, <2>2, LookupShapes DEF CrossedBegun, Scanned, ScannedOnce
  <2> QED
    BY <2>1, <2>2 DEF CrossedBegun
<1> QED
  BY <1>3, <1>4, <1>5, <1>6, <1>7, <1>8 DEF LookupInv

\* The steps of the tool: it begins, opens its file, completes it, or fails.
LEMMA LookupScans ==
    ASSUME O!OsintAssumption, LookupInv, NEW t \in Targets,
           O!Begin(t) \/ O!Write(t) \/ O!Wrote(t) \/ O!ToolFails(t)
    PROVE  LookupInv'
<1>0. /\ LookupTypes /\ ScannedOnce /\ FilesTold /\ CrossedBegun
      /\ MaxWeb \in Nat /\ web \in Nat /\ web >= 1 /\ web <= MaxWeb
  BY DEF LookupInv, LookupTypes, O!OsintAssumption
<1>s. /\ \A u \in Targets : scan[u].at \in {"off", "starting", "running", "writing", "reading"}
      /\ \A u \in Targets : Scanned(u) => scan[u].saw \in 0..MaxWeb
      /\ \A u \in Targets : found[u] \in Founds /\ found[u].from <= web
      /\ \A u \in Targets : found[u].from \in 0..MaxWeb
  BY <1>0, LookupShapes DEF LookupTypes, FilesTold
<1>f. 0 \in O!Half..MaxWeb /\ O!Half \in O!Half..MaxWeb /\ O!NoFile = 0 /\ O!Half = -1
  BY <1>0 DEF O!Half, O!NoFile
<1>m. \A u \in Targets \ {t} : Scanned(u) /\ Scanned(t) /\ NameOf[u] = NameOf[t] =>
        found[u].crossed /\ found[t].crossed
  BY <1>0 DEF FilesTold
<1>1. CASE O!Begin(t)
  <2>b. PICK shared \in BOOLEAN : shared = (O!Others(t) # {})
    OBVIOUS
  <2>c. PICK content \in O!Half..MaxWeb : content = 0 /\ content \in {O!NoFile, O!Half}
    BY <1>f
  <2> DEFINE r == [at |-> "running", saw |-> 0]
             Mine == [found[t] EXCEPT !.from = web, !.crossed = shared]
             Met(u) == [found[u] EXCEPT !.crossed = TRUE]
  <2>1. /\ UNCHANGED <<place, lookupQueue, lookup, web>> /\ scan[t].at = "starting"
        /\ scan' = [scan EXCEPT ![t] = r] /\ file' = [file EXCEPT ![NameOf[t]] = content]
        /\ found' = [u \in Targets |-> IF u = t THEN Mine
                                       ELSE IF u \in O!Others(t) THEN Met(u) ELSE found[u]]
    BY <1>1, <1>f, <2>b, <2>c DEF O!Begin, O!Unlink
  <2>2. Mine \in Founds /\ Mine.from = web /\ Mine.crossed = shared
        /\ Mine.version = found[t].version /\ Mine.failed = found[t].failed
    <3> DEFINE Newer == [found[t] EXCEPT !.from = web]
    <3>1. Newer \in Founds /\ Newer.from = web /\ Newer.version = found[t].version
          /\ Newer.failed = found[t].failed
      BY <1>0, <1>s DEF Founds
    <3>2. Mine = [Newer EXCEPT !.crossed = shared]
      OBVIOUS
    <3> HIDE DEF Newer, Mine
    <3> QED
      BY <3>1, <3>2 DEF Founds
  <2>3. \A u \in Targets : /\ Met(u) \in Founds /\ Met(u).crossed /\ Met(u).from = found[u].from
                           /\ Met(u).version = found[u].version /\ Met(u).failed = found[u].failed
    BY <1>s DEF Founds
  <2> HIDE DEF Mine, Met
  <2>4. ~found[t].crossed
    BY <1>0, <2>1 DEF CrossedBegun, Begun
  <2>5. \A u \in Targets : found'[u] = IF u = t THEN Mine
                                       ELSE IF u \in O!Others(t) THEN Met(u) ELSE found[u]
    BY <2>1
  <2>6. \A u \in O!Others(t) : u \in Targets /\ u # t /\ Scanned(u)
    BY <1>s DEF O!Others, Scanned
  <2>7. \A u \in Targets \ {t} : Scanned(u) /\ NameOf[u] = NameOf[t] => u \in O!Others(t)
    BY DEF O!Others, Scanned
  <2>8. found' \in [Targets -> Founds]
    BY <1>s, <2>1, <2>2, <2>3
  <2>9. \A u \in Targets : /\ found'[u].version = found[u].version
                           /\ u # t => found'[u].from = found[u].from
                           /\ found'[u].crossed => found[u].crossed \/ u = t \/ Scanned(u)
                           /\ found[u].crossed => found'[u].crossed
                           /\ found[u].failed => found'[u].failed
    BY <2>2, <2>3, <2>4, <2>5, <2>6
  <2>10. r \in Scans /\ r.at = "running" /\ r.saw = 0
    BY <1>0 DEF Scans
  <2> HIDE DEF r
  <2>11. scan'[t] = r /\ found'[t].from = web
    BY <1>0, <2>1, <2>2, <2>5 DEF LookupTypes
  <2>12. \A u \in Targets \ {t} : Scanned(u) /\ NameOf[u] = NameOf[t] =>
           found'[u].crossed /\ found'[t].crossed
    BY <2>b, <2>2, <2>3, <2>5, <2>7
  <2>13. Scanned(t)' /\ scan'[t].at = "running" /\ scan'[t].saw = 0
    BY <2>10, <2>11 DEF Scanned
  <2>14. /\ found'[t].from <= web /\ scan'[t].saw <= web /\ r.at # "off"
         /\ scan'[t].at # "writing" /\ scan'[t].at # "reading" /\ scan'[t].at # "starting"
         /\ scan[t].at # "off"
    BY <1>0, <2>1, <2>10, <2>11, <2>13
  <2> QED
    BY <2>c, <2>14, <2>1, <2>8, <2>9, <2>10, <2>11, <2>12, <2>13, ScanMoves
<1>2. CASE O!Write(t)
  <2>c. PICK content \in O!Half..MaxWeb : content = O!Half /\ content \in {O!NoFile, O!Half}
    BY <1>f
  <2> DEFINE r == [at |-> "writing", saw |-> web]
  <2>1. /\ UNCHANGED <<place, lookupQueue, lookup, web, found>> /\ scan[t].at = "running"
        /\ scan' = [scan EXCEPT ![t] = r] /\ file' = [file EXCEPT ![NameOf[t]] = content]
    BY <1>2, <2>c DEF O!Write
  <2>2. r \in Scans /\ r.at = "writing" /\ r.saw = web
    BY <1>0 DEF Scans
  <2> HIDE DEF r
  <2>3. scan'[t] = r /\ Scanned(t) /\ Scanned(t)' /\ found' \in [Targets -> Founds]
    BY <1>0, <2>1, <2>2 DEF LookupTypes, Scanned
  <2>4. scan'[t].at = "writing" /\ scan'[t].saw = web
    BY <2>2, <2>3
  <2>5. /\ found'[t].from <= web /\ scan'[t].saw <= web /\ scan'[t].saw # 0 /\ r.at # "off"
        /\ scan'[t].at # "reading" /\ scan'[t].at # "starting" /\ scan[t].at # "off"
        /\ found'[t].from = found[t].from /\ found'[t].from <= scan'[t].saw
    BY <1>0, <1>s, <2>1, <2>2, <2>4
  <2>6. \A u \in Targets : /\ found'[u].version = found[u].version
                           /\ u # t => found'[u].from = found[u].from
                           /\ found'[u].crossed => found[u].crossed \/ u = t \/ Scanned(u)
                           /\ found[u].crossed => found'[u].crossed
                           /\ found[u].failed => found'[u].failed
    BY <2>1
  <2>7. \A u \in Targets \ {t} : Scanned(u) /\ NameOf[u] = NameOf[t] /\ Scanned(t)' =>
          found'[u].crossed /\ found'[t].crossed
    BY <1>m, <2>1, <2>3
  <2> QED
    BY <2>c, <2>1, <2>2, <2>3, <2>5, <2>6, <2>7, ScanMoves
<1>3. CASE O!Wrote(t)
  <2> DEFINE r == [at |-> "reading", saw |-> scan[t].saw]
  <2>1. /\ UNCHANGED <<place, lookupQueue, lookup, web, found>> /\ scan[t].at = "writing" /\ Scanned(t)
        /\ scan' = [scan EXCEPT ![t] = r] /\ file' = [file EXCEPT ![NameOf[t]] = scan[t].saw]
    BY <1>0, <1>3, LookupRecords DEF O!Wrote, Scanned
  <2>2. scan[t].saw \in 0..MaxWeb /\ scan[t].saw # 0 /\ found[t].from <= scan[t].saw
        /\ scan[t].saw <= web
    BY <1>0, <1>s, <2>1 DEF FilesTold
  <2>3. r \in Scans /\ r.at = "reading" /\ r.saw = scan[t].saw
    BY <2>2 DEF Scans
  <2> HIDE DEF r
  <2>4. scan'[t] = r /\ Scanned(t)' /\ found' \in [Targets -> Founds]
    BY <1>0, <2>1, <2>3 DEF LookupTypes, Scanned
  <2>5. scan'[t].at = "reading" /\ scan'[t].saw = scan[t].saw
    BY <2>3, <2>4
  <2>6. /\ scan[t].saw \in O!Half..MaxWeb /\ scan[t].saw \notin {O!NoFile, O!Half}
        /\ scan[t].saw >= found[t].from
    BY <1>0, <1>s, <1>f, <2>2
  <2> QED
    BY <1>0, <1>s, <1>m, <2>1, <2>2, <2>3, <2>4, <2>5, <2>6, ScanMoves
<1>4. CASE O!ToolFails(t)
  <2> DEFINE r == [at |-> "reading", saw |-> scan[t].saw]
             Failed == [found[t] EXCEPT !.failed = TRUE]
  <2>1. /\ UNCHANGED <<place, lookupQueue, lookup, web, file>> /\ Scanned(t)
        /\ scan[t].at \in {"running", "writing"} /\ scan' = [scan EXCEPT ![t] = r]
        /\ found' = [found EXCEPT ![t] = Failed]
    BY <1>0, <1>4, LookupRecords DEF O!ToolFails, Scanned
  <2>2. Failed \in Founds /\ Failed.failed /\ Failed.from = found[t].from
        /\ Failed.version = found[t].version /\ Failed.crossed = found[t].crossed
    BY <1>s DEF Founds
  <2>3. r \in Scans /\ r.at = "reading" /\ r.saw = scan[t].saw
    BY <1>s, <2>1 DEF Scans
  <2> HIDE DEF r, Failed
  <2>4. /\ scan'[t] = r /\ Scanned(t)' /\ found' \in [Targets -> Founds]
        /\ \A u \in Targets : found'[u] = IF u = t THEN Failed ELSE found[u]
    BY <1>0, <2>1, <2>2, <2>3 DEF LookupTypes, Scanned
  <2>5. scan'[t].at = "reading" /\ scan'[t].saw = scan[t].saw /\ scan[t].saw <= web
    BY <1>0, <2>1, <2>3, <2>4 DEF FilesTold
  <2>6. NameOf[t] \in Names
    BY <1>0, <2>1 DEF ScannedOnce
  <2>7. /\ file[NameOf[t]] \in O!Half..MaxWeb
        /\ file' = [file EXCEPT ![NameOf[t]] = file[NameOf[t]]]
    BY <1>0, <2>1, <2>6 DEF LookupTypes
  <2>8. ~found[t].crossed => file[NameOf[t]] \in {O!NoFile, O!Half}
    BY <1>0, <2>1 DEF FilesTold
  <2>9. \A u \in Targets : /\ found'[u].version = found[u].version
                           /\ found'[u].from = found[u].from
                           /\ found'[u].crossed = found[u].crossed
                           /\ found[u].failed => found'[u].failed
    BY <2>2, <2>4
  <2>10. found'[t].failed
    BY <2>2, <2>4
  <2> QED
    BY <1>0, <1>s, <1>m, <2>1, <2>3, <2>4, <2>5, <2>7, <2>8, <2>9, <2>10, ScanMoves
<1> QED
  BY <1>1, <1>2, <1>3, <1>4

\* Lookups are answered: scans go on or end, and every answer is a true one.
LEMMA LookupAnswers ==
    ASSUME O!OsintAssumption, LookupInv,
           UNCHANGED <<place, lookupQueue, file, web>>,
           scan' \in [Targets -> Scans], \A t \in Targets : scan'[t] = scan[t] \/ scan'[t] = O!Off,
           found' \in [Targets -> Founds],
           \A t \in Targets : /\ found'[t].version = found[t].version
                              /\ found'[t].from = found[t].from
                              /\ found'[t].crossed = found[t].crossed
                              /\ found[t].failed => found'[t].failed,
           lookup' \in [Lookers -> Lookups],
           \A w \in Lookers :
             \/ lookup'[w] = lookup[w]
             \/ /\ lookup[w].at = "asked" /\ lookup'[w].at = "answered"
                /\ lookup'[w].target = lookup[w].target
                /\ lookup'[w].version > 0 => scan'[lookup[w].target].at = "off"
                /\ AnswerTrue(lookup[w].target, lookup[w].version)'
    PROVE  LookupInv'
<1>0. LookupTypes /\ LookupPlaced /\ ScannedOnce /\ FilesTold /\ AnswersTold /\ CrossedBegun
  BY DEF LookupInv
<1>1. \A t \in Targets : scan'[t].at # "off" => scan'[t] = scan[t]
  BY DEF O!Off
<1>2. LookupTypes'
  BY <1>0 DEF LookupTypes
<1>3. LookupPlaced'
  BY <1>0, LookupStays
<1>4. ScannedOnce'
  <2>1. ASSUME NEW w \in Lookers,
               lookup'[w].at = "read" \/ (lookup'[w].at = "answered" /\ lookup'[w].version > 0)
        PROVE  scan'[lookup'[w].target].at = "off"
    <3>1. CASE lookup'[w] = lookup[w]
      <4>1. lookup[w].target \in Targets /\ scan[lookup[w].target].at = "off"
        BY <1>0, <2>1, <3>1, LookupShapes DEF ScannedOnce
      <4> QED
        BY <1>1, <3>1, <4>1
    <3>2. CASE lookup'[w] # lookup[w]
      BY <2>1, <3>2
    <3> QED
      BY <3>1, <3>2
  <2> QED
    BY <1>0, <1>1, <2>1 DEF ScannedOnce
<1>5. FilesTold'
  BY <1>0, <1>1, FilesKept DEF Scanned
<1>6. AnswersTold'
  <2>1. \A t \in Targets : \A v \in 0..MaxWeb : AnswerTrue(t, v) => AnswerTrue(t, v)'
    BY DEF AnswerTrue
  <2>2. ASSUME NEW w \in Lookers, lookup'[w].at = "answered"
        PROVE  AnswerTrue(lookup[w].target, lookup[w].version)'
    <3>1. CASE lookup'[w] = lookup[w]
      <4>1. PICK t \in Targets, v \in 0..MaxWeb : t = lookup[w].target /\ v = lookup[w].version
        BY <1>0, <2>2, <3>1, LookupShapes
      <4>2. AnswerTrue(t, v)'
        BY <1>0, <2>1, <2>2, <3>1, <4>1 DEF AnswersTold
      <4> QED
        BY <3>1, <4>1, <4>2 DEF AnswerTrue
    <3> QED
      BY <3>1
  <2>3. \A t \in Targets : place'[t] = "done" => AnswerTrue(t, found[t].version)'
    BY <1>0 DEF AnswersTold, AnswerTrue
  <2> QED
    BY <2>2, <2>3 DEF AnswersTold
<1>7. CrossedBegun'
  <2>1. \A t \in Targets : found'[t].crossed => Begun(t)'
    BY <1>0, <1>1 DEF CrossedBegun, Begun
  <2>2. \A w \in Lookers : lookup'[w].at = "read" => ~found'[lookup'[w].target].crossed
    BY <1>0, LookupShapes DEF CrossedBegun
  <2> QED
    BY <2>1, <2>2 DEF CrossedBegun
<1> QED
  BY <1>2, <1>3, <1>4, <1>5, <1>6, <1>7 DEF LookupInv

\* A worker is done with its lookup, with or without results.
LEMMA LookupEnds ==
    ASSUME O!OsintAssumption, LookupInv, NEW w \in Lookers, lookup[w].at # "free",
           NEW t \in Targets, t = lookup[w].target,
           UNCHANGED <<lookupQueue, scan, file, web>>, lookup' = [lookup EXCEPT ![w] = O!Free],
           NEW there \in {"done", "dead", "lost"}, place' = [place EXCEPT ![t] = there],
           found' \in [Targets -> Founds], \A u \in Targets \ {t} : found'[u] = found[u],
           /\ found'[t].from = found[t].from /\ found'[t].failed = found[t].failed
           /\ found'[t].crossed = found[t].crossed,
           found'[t].version > 0 => there = "done" /\ scan[t].at = "off",
           there = "done" => AnswerTrue(t, found'[t].version)
    PROVE  LookupInv'
<1>0. LookupTypes /\ LookupPlaced /\ ScannedOnce /\ FilesTold /\ AnswersTold /\ CrossedBegun
  BY DEF LookupInv
<1>1. /\ \A v \in Lookers : lookup'[v] = IF v = w THEN O!Free ELSE lookup[v]
      /\ \A u \in Targets : place'[u] = IF u = t THEN there ELSE place[u]
      /\ O!Free.at = "free" /\ O!Free \in Lookups
  BY <1>0 DEF LookupTypes, O!Free, Lookups
<1>2. place[t] = "taken" /\ ~(found[t].version > 0)
  BY <1>0 DEF LookupPlaced, ScannedOnce
<1>3. \A v \in Lookers : v # w /\ lookup[v].at # "free" =>
        lookup[v].target # t /\ lookup[v].target \in Targets
  BY <1>0, LookupShapes DEF LookupPlaced, Holding
<1>4. LookupTypes'
  BY <1>0, <1>1 DEF LookupTypes
<1>5. LookupPlaced'
  <2>1. \A i \in 1..Len(lookupQueue) : lookupQueue[i] \in Targets
    BY <1>0, ElementOfSeq DEF LookupTypes
  <2>2. \A i \in 1..Len(lookupQueue) : place'[lookupQueue[i]] = "queued"
    BY <1>0, <1>1, <1>2, <2>1 DEF LookupPlaced
  <2>3. \A v \in Lookers : lookup'[v].at # "free" => place'[lookup'[v].target] = "taken"
    BY <1>0, <1>1, <1>3 DEF LookupPlaced
  <2>4. \A v, x \in Lookers : \A u \in Targets : Holding(v, u)' /\ Holding(x, u)' => v = x
    BY <1>0, <1>1 DEF LookupPlaced, Holding
  <2> QED
    BY <1>0, <2>2, <2>3, <2>4 DEF LookupPlaced
<1>6. ScannedOnce'
  BY <1>0, <1>1, <1>2 DEF ScannedOnce
<1>7. FilesTold'
  BY <1>0, FilesKept
<1>8. AnswersTold'
  BY <1>0, <1>1, <1>2, <1>3 DEF AnswersTold, AnswerTrue
<1>9. CrossedBegun'
  BY <1>0, <1>1, <1>2, <1>3 DEF CrossedBegun, Begun
<1> QED
  BY <1>4, <1>5, <1>6, <1>7, <1>8, <1>9 DEF LookupInv

\* The four ways a lookup gets its answer.
LEMMA LookupGetsAnswer ==
    ASSUME O!OsintAssumption, LookupInv,
           \/ \E t \in Targets : O!ToolTimesOut(t) \/ O!Read(t)
           \/ O!ServiceRestarts
           \/ \E w \in Lookers : O!GiveUp(w)
    PROVE  LookupInv'
<1>0. /\ LookupTypes /\ ScannedOnce /\ FilesTold /\ MaxWeb \in Nat
      /\ \A t \in Targets : scan[t] \in Scans /\ found[t] \in Founds
      /\ \A w \in Lookers : lookup[w] \in Lookups
  BY DEF LookupInv, LookupTypes, O!OsintAssumption
<1>1. /\ O!Off \in Scans /\ O!Off.at = "off"
      /\ \A t \in Targets : \A v \in 0..MaxWeb : [at |-> "answered", target |-> t, version |-> v] \in Lookups
  BY DEF Scans, O!Off, Lookups
<1>2. \A t \in Targets :
        /\ [found[t] EXCEPT !.failed = TRUE] \in Founds
        /\ [found[t] EXCEPT !.failed = TRUE].failed
        /\ [found[t] EXCEPT !.failed = TRUE].version = found[t].version
        /\ [found[t] EXCEPT !.failed = TRUE].from = found[t].from
        /\ [found[t] EXCEPT !.failed = TRUE].crossed = found[t].crossed
  BY <1>0 DEF Founds
<1>3. \A w \in Lookers : lookup[w].at # "free" => lookup[w].target \in Targets
  BY <1>0, LookupShapes
<1>4. ASSUME NEW t \in Targets, O!ToolTimesOut(t) PROVE LookupInv'
  <2>1. /\ UNCHANGED <<place, lookupQueue, file, web>> /\ scan' = [scan EXCEPT ![t] = O!Off]
        /\ found' = [found EXCEPT ![t] = [found[t] EXCEPT !.failed = TRUE]]
        /\ \A w \in Lookers : lookup'[w] = IF lookup[w].at = "asked" /\ lookup[w].target = t
                                           THEN [at |-> "answered", target |-> t, version |-> 0]
                                           ELSE lookup[w]
        /\ DOMAIN lookup' = Lookers /\ lookup' = [w \in Lookers |-> lookup'[w]]
    BY <1>4 DEF O!ToolTimesOut, O!AnswerWith
  <2>2. lookup' \in [Lookers -> Lookups] /\ scan' \in [Targets -> Scans] /\ found' \in [Targets -> Founds]
    <3>1. \A w \in Lookers : lookup'[w] \in Lookups
      BY <1>0, <1>1, <2>1
    <3>2. lookup' \in [Lookers -> Lookups]
      BY <2>1, <3>1
    <3> QED
      BY <1>0, <1>1, <1>2, <2>1, <3>2 DEF LookupTypes
  <2>3. /\ \A u \in Targets : scan'[u] = scan[u] \/ scan'[u] = O!Off
        /\ \A u \in Targets : /\ found'[u].version = found[u].version
                              /\ found'[u].from = found[u].from
                              /\ found'[u].crossed = found[u].crossed
                              /\ found[u].failed => found'[u].failed
        /\ found'[t].failed
    BY <1>0, <1>2, <2>1 DEF LookupTypes
  <2>4. ASSUME NEW w \in Lookers, lookup'[w] # lookup[w]
        PROVE  /\ lookup[w].at = "asked" /\ lookup'[w].at = "answered"
               /\ lookup'[w].target = lookup[w].target
               /\ lookup'[w].version > 0 => scan'[lookup[w].target].at = "off"
               /\ AnswerTrue(lookup[w].target, lookup[w].version)'
    BY <2>1, <2>3, <2>4 DEF AnswerTrue
  <2> QED
    BY <2>1, <2>2, <2>3, <2>4, LookupAnswers
<1>5. ASSUME NEW t \in Targets, O!Read(t) PROVE LookupInv'
  <2>0. PICK v \in 0..MaxWeb : v = O!Readable(file[NameOf[t]]) /\ AnswerTrue(t, v)
    <3>1. scan[t].at = "reading" /\ NameOf[t] \in Names
      BY <1>0, <1>5 DEF O!Read, ScannedOnce
    <3>2. file[NameOf[t]] \in O!Half..MaxWeb
      BY <1>0, <3>1 DEF LookupTypes
    <3>3. ~found[t].crossed => IF file[NameOf[t]] \in {O!NoFile, O!Half} THEN found[t].failed
                               ELSE file[NameOf[t]] >= found[t].from
      BY <1>0, <3>1 DEF FilesTold
    <3> QED
      BY <1>0, <3>2, <3>3 DEF O!Readable, AnswerTrue, O!NoFile, O!Half
  <2>1. /\ UNCHANGED <<place, lookupQueue, file, web, found>> /\ scan' = [scan EXCEPT ![t] = O!Off]
        /\ \A w \in Lookers : lookup'[w] = IF lookup[w].at = "asked" /\ lookup[w].target = t
                                           THEN [at |-> "answered", target |-> t, version |-> v]
                                           ELSE lookup[w]
        /\ DOMAIN lookup' = Lookers /\ lookup' = [w \in Lookers |-> lookup'[w]]
    BY <1>5, <2>0 DEF O!Read, O!AnswerWith
  <2>2. lookup' \in [Lookers -> Lookups] /\ scan' \in [Targets -> Scans] /\ found' \in [Targets -> Founds]
    BY <1>0, <1>1, <2>1 DEF LookupTypes
  <2>3. (\A u \in Targets : scan'[u] = scan[u] \/ scan'[u] = O!Off) /\ scan'[t] = O!Off
    BY <1>0, <2>1 DEF LookupTypes
  <2>4. ASSUME NEW w \in Lookers, lookup'[w] # lookup[w]
        PROVE  /\ lookup[w].at = "asked" /\ lookup'[w].at = "answered"
               /\ lookup'[w].target = lookup[w].target
               /\ lookup'[w].version > 0 => scan'[lookup[w].target].at = "off"
               /\ AnswerTrue(lookup[w].target, lookup[w].version)'
    <3>1. lookup[w].at = "asked" /\ lookup[w].target = t
          /\ lookup'[w] = [at |-> "answered", target |-> t, version |-> v]
      BY <2>1, <2>4
    <3>2. AnswerTrue(t, v)'
      BY <2>0, <2>1 DEF AnswerTrue
    <3> QED
      BY <1>1, <2>3, <3>1, <3>2 DEF AnswerTrue
  <2>5. \A u \in Targets : /\ found'[u].version = found[u].version
                           /\ found'[u].from = found[u].from
                           /\ found'[u].crossed = found[u].crossed
                           /\ found[u].failed => found'[u].failed
    BY <2>1
  <2> QED
    BY <2>1, <2>2, <2>3, <2>4, <2>5, LookupAnswers
<1>6. ASSUME O!ServiceRestarts PROVE LookupInv'
  <2>1. /\ UNCHANGED <<place, lookupQueue, file, web>> /\ scan' = [t \in Targets |-> O!Off]
        /\ found' = [t \in Targets |->
             IF \E w \in Lookers : lookup[w].at = "asked" /\ lookup[w].target = t
             THEN [found[t] EXCEPT !.failed = TRUE] ELSE found[t]]
        /\ \A w \in Lookers :
             lookup'[w] = IF lookup[w].at = "asked"
                          THEN [at |-> "answered", target |-> lookup[w].target, version |-> 0]
                          ELSE lookup[w]
        /\ DOMAIN lookup' = Lookers /\ lookup' = [w \in Lookers |-> lookup'[w]]
    BY <1>6 DEF O!ServiceRestarts
  <2>2. lookup' \in [Lookers -> Lookups] /\ scan' \in [Targets -> Scans] /\ found' \in [Targets -> Founds]
    BY <1>0, <1>1, <1>2, <1>3, <2>1
  <2>3. /\ \A u \in Targets : scan'[u] = O!Off
        /\ \A u \in Targets : /\ found'[u].version = found[u].version
                              /\ found'[u].from = found[u].from
                              /\ found'[u].crossed = found[u].crossed
                              /\ found[u].failed => found'[u].failed
        /\ \A w \in Lookers : lookup[w].at = "asked" => found'[lookup[w].target].failed
    BY <1>0, <1>2, <1>3, <2>1 DEF LookupTypes
  <2>4. ASSUME NEW w \in Lookers, lookup'[w] # lookup[w]
        PROVE  /\ lookup[w].at = "asked" /\ lookup'[w].at = "answered"
               /\ lookup'[w].target = lookup[w].target
               /\ lookup'[w].version > 0 => scan'[lookup[w].target].at = "off"
               /\ AnswerTrue(lookup[w].target, lookup[w].version)'
    <3>1. lookup[w].at = "asked"
          /\ lookup'[w] = [at |-> "answered", target |-> lookup[w].target, version |-> 0]
      BY <2>1, <2>4
    <3>2. lookup'[w].at = "answered" /\ lookup'[w].target = lookup[w].target /\ lookup'[w].version = 0
      BY <3>1
    <3> QED
      BY <2>3, <3>1, <3>2 DEF AnswerTrue
  <2> QED
    BY <2>1, <2>2, <2>3, <2>4, LookupAnswers
<1>7. ASSUME NEW w \in Lookers, O!GiveUp(w) PROVE LookupInv'
  <2>0. PICK t \in Targets : t = lookup[w].target
    BY <1>3, <1>7 DEF O!GiveUp
  <2>1. /\ UNCHANGED <<place, lookupQueue, file, web, scan>> /\ lookup[w].at = "asked"
        /\ found' = [found EXCEPT ![t] = [found[t] EXCEPT !.failed = TRUE]]
        /\ lookup' = [lookup EXCEPT ![w] = [at |-> "answered", target |-> t, version |-> 0]]
    BY <1>7, <2>0 DEF O!GiveUp
  <2>2. lookup' \in [Lookers -> Lookups] /\ scan' \in [Targets -> Scans] /\ found' \in [Targets -> Founds]
    BY <1>0, <1>1, <1>2, <2>1 DEF LookupTypes
  <2>3. /\ \A u \in Targets : scan'[u] = scan[u]
        /\ \A u \in Targets : /\ found'[u].version = found[u].version
                              /\ found'[u].from = found[u].from
                              /\ found'[u].crossed = found[u].crossed
                              /\ found[u].failed => found'[u].failed
        /\ found'[t].failed
    BY <1>0, <1>2, <2>1 DEF LookupTypes
  <2>4. \A x \in Lookers : lookup'[x] = IF x = w THEN [at |-> "answered", target |-> t, version |-> 0]
                                        ELSE lookup[x]
    BY <1>0, <2>1 DEF LookupTypes
  <2>5. ASSUME NEW x \in Lookers, lookup'[x] # lookup[x]
        PROVE  /\ lookup[x].at = "asked" /\ lookup'[x].at = "answered"
               /\ lookup'[x].target = lookup[x].target
               /\ lookup'[x].version > 0 => scan'[lookup[x].target].at = "off"
               /\ AnswerTrue(lookup[x].target, lookup[x].version)'
    <3>1. x = w
      BY <2>4, <2>5
    <3> QED
      BY <2>0, <2>1, <2>3, <2>4, <3>1 DEF AnswerTrue
  <2> QED
    BY <2>1, <2>2, <2>3, <2>5, LookupAnswers
<1> QED
  BY <1>4, <1>5, <1>6, <1>7

LEMMA LookupFinishes ==
    ASSUME O!OsintAssumption, LookupInv, NEW w \in Lookers,
           O!Commit(w) \/ O!LookupFails(w) \/ O!Crash(w)
    PROVE  LookupInv'
<1>0. LookupTypes /\ LookupPlaced /\ ScannedOnce /\ AnswersTold
  BY DEF LookupInv
<1>1. lookup[w].at # "free"
  BY <1>0, LookupShapes DEF O!Commit, O!LookupFails, O!Crash, O!Drop
<1>2. PICK t \in Targets : t = lookup[w].target
  BY <1>0, <1>1, LookupShapes
<1>3. ~(found[t].version > 0) /\ found[t] \in Founds
  BY <1>0, <1>1, <1>2 DEF LookupPlaced, ScannedOnce, LookupTypes
<1>4. CASE O!Commit(w)
  <2> DEFINE Shown == [found[t] EXCEPT !.version = lookup[w].version]
  <2>1. /\ UNCHANGED <<lookupQueue, scan, file, web>> /\ lookup' = [lookup EXCEPT ![w] = O!Free]
        /\ place' = [place EXCEPT ![t] = "done"] /\ found' = [found EXCEPT ![t] = Shown]
        /\ lookup[w].at = "answered"
    BY <1>2, <1>4 DEF O!Commit
  <2>2. lookup[w].version \in 0..MaxWeb
    BY <1>0, <2>1, LookupShapes
  <2>3. Shown \in Founds /\ Shown.version = lookup[w].version /\ Shown.from = found[t].from
        /\ Shown.failed = found[t].failed /\ Shown.crossed = found[t].crossed
    BY <1>3, <2>2 DEF Founds
  <2> HIDE DEF Shown
  <2>4. found' \in [Targets -> Founds] /\ found'[t] = Shown /\ \A u \in Targets \ {t} : found'[u] = found[u]
    BY <1>0, <2>1, <2>3 DEF LookupTypes
  <2>5. /\ AnswerTrue(t, lookup[w].version)
        /\ lookup[w].version > 0 => scan[t].at = "off"
    BY <1>0, <1>2, <2>1 DEF AnswersTold, ScannedOnce
  <2>6. AnswerTrue(t, Shown.version)
    BY <2>3, <2>5
  <2>7. \A v : v = found'[t].version => AnswerTrue(t, v)
    BY <2>4, <2>6
  <2> QED
    BY <1>1, <1>2, <2>1, <2>3, <2>4, <2>5, <2>7, LookupEnds
<1>5. CASE O!LookupFails(w) \/ O!Crash(w)
  <2>1. PICK there \in {"dead", "lost"} : O!Drop(w, there)
    BY <1>5 DEF O!LookupFails, O!Crash
  <2>2. /\ UNCHANGED <<lookupQueue, scan, file, web, found>> /\ lookup' = [lookup EXCEPT ![w] = O!Free]
        /\ place' = [place EXCEPT ![t] = there]
    BY <1>2, <2>1 DEF O!Drop
  <2>3. found' \in [Targets -> Founds] /\ ~(found'[t].version > 0)
    BY <1>0, <1>3, <2>2 DEF LookupTypes
  <2> QED
    BY <1>1, <1>2, <2>2, <2>3, LookupEnds
<1> QED
  BY <1>4, <1>5

LEMMA LookupWebGrows ==
    ASSUME O!OsintAssumption, LookupInv, O!NewProfiles
    PROVE  LookupInv'
<1>0. /\ LookupTypes /\ LookupPlaced /\ ScannedOnce /\ FilesTold /\ AnswersTold /\ CrossedBegun
      /\ MaxWeb \in Nat /\ web \in Nat /\ web' = web + 1 /\ web' \in 1..MaxWeb
      /\ UNCHANGED <<place, lookupQueue, lookup, scan, file, found>>
  BY DEF LookupInv, LookupTypes, O!OsintAssumption, O!NewProfiles
<1>1. LookupTypes' /\ LookupPlaced' /\ ScannedOnce' /\ AnswersTold' /\ CrossedBegun'
  BY <1>0 DEF LookupTypes, LookupPlaced, ScannedOnce, AnswersTold, CrossedBegun, Holding, AnswerTrue,
              Begun
<1>2. FilesTold'
  <2>1. \A t \in Targets : found'[t].from <= web' /\ (Scanned(t)' => scan'[t].saw <= web')
    BY <1>0, LookupShapes DEF FilesTold, Scanned
  <2> QED
    BY <1>0, <2>1 DEF FilesTold, Scanned
<1> QED
  BY <1>1, <1>2 DEF LookupInv

LEMMA LookupsStart == ASSUME O!OsintAssumption, O!Init PROVE LookupInv
<1>1. /\ \A w \in Lookers : lookup[w] = O!Free
      /\ \A t \in Targets : /\ place[t] = "new" /\ scan[t] = O!Off /\ found[t].version = 0
                            /\ found[t].from = 0 /\ ~found[t].crossed
      /\ O!Free.at = "free" /\ O!Off.at = "off" /\ lookupQueue = <<>> /\ web = 1
  BY DEF O!Init, O!Free, O!Off, O!NotYet
<1>2. LookupTypes
  <2>1. /\ O!Free \in Lookups /\ O!Off \in Scans /\ O!NotYet \in Founds
        /\ O!NoFile \in O!Half..MaxWeb /\ web \in 1..MaxWeb
    BY <1>1 DEF O!OsintAssumption, Lookups, Scans, Founds, O!NotYet, O!NoFile, O!Half
  <2> QED
    BY <2>1 DEF O!Init, LookupTypes
<1>3. LookupPlaced /\ ScannedOnce /\ FilesTold /\ AnswersTold /\ CrossedBegun
  BY <1>1 DEF LookupPlaced, ScannedOnce, FilesTold, AnswersTold, CrossedBegun, Holding, Scanned
<1> QED
  BY <1>2, <1>3 DEF LookupInv

LEMMA LookupInvHolds == O!Spec => []LookupInv
<1>0. O!OsintAssumption
  BY OutboundAssumption
<1>1. O!Init => LookupInv
  BY <1>0, LookupsStart
<1>2. LookupInv /\ [O!Next]_O!vars => LookupInv'
  <2> SUFFICES ASSUME LookupInv, [O!Next]_O!vars PROVE LookupInv'
    OBVIOUS
  <2>1. ASSUME NEW t \in Targets, O!Store(t) \/ O!Push(t) \/ O!PushFails(t) PROVE LookupInv'
    BY <1>0, <2>1, LookupMoves
  <2>2. ASSUME NEW t \in Targets, O!Begin(t) \/ O!Write(t) \/ O!Wrote(t) \/ O!ToolFails(t)
        PROVE  LookupInv'
    BY <1>0, <2>2, LookupScans
  <2>3. CASE \/ \E t \in Targets : O!ToolTimesOut(t) \/ O!Read(t)
             \/ O!ServiceRestarts
             \/ \E w \in Lookers : O!GiveUp(w)
    BY <1>0, <2>3, LookupGetsAnswer
  <2>4. ASSUME NEW w \in Lookers, O!Commit(w) \/ O!LookupFails(w) \/ O!Crash(w) PROVE LookupInv'
    BY <1>0, <2>4, LookupFinishes
  <2>5. ASSUME NEW w \in Lookers, O!Pop(w) PROVE LookupInv'
    BY <1>0, <2>5, LookupPops
  <2>6. ASSUME NEW w \in Lookers, O!Ask(w) PROVE LookupInv'
    BY <1>0, <2>6, LookupAsks
  <2>7. CASE O!NewProfiles
    BY <1>0, <2>7, LookupWebGrows
  <2>8. CASE UNCHANGED O!vars
    BY <2>8 DEF O!vars, LookupInv, LookupTypes, LookupPlaced, ScannedOnce, FilesTold, AnswersTold,
                CrossedBegun, Holding, AnswerTrue, Begun, Scanned
  <2> QED
    BY <2>1, <2>2, <2>3, <2>4, <2>5, <2>6, <2>7, <2>8 DEF O!Next
<1> QED
  BY <1>1, <1>2, PTL DEF O!Spec

\* No lookup shows profiles older than its own scan, and none that has results is without
\* them unless its scan failed, was given up, or was crossed by another of the username
\* (osint_worker.py:34-89, osint_maigret.py:15-27, maigret main.py:46-82).
THEOREM LookupsStayBacked == O!Spec => []O!LookupsBacked
<1>1. LookupInv => O!LookupsBacked
  <2> SUFFICES ASSUME LookupInv, NEW t \in Targets
               PROVE  IF place[t] # "done" THEN found[t].version = 0 ELSE AnswerTrue(t, found[t].version)
    BY DEF O!LookupsBacked, AnswerTrue
  <2>1. found[t].version \in 0..MaxWeb /\ (found[t].version > 0 => place[t] = "done")
    BY LookupShapes DEF LookupInv, ScannedOnce
  <2> QED
    BY <2>1 DEF LookupInv, AnswersTold
<1> QED
  BY <1>1, LookupInvHolds, PTL

\* Threat intelligence and OSINT together, whatever the order of their steps.
THEOREM MatchesStayBacked == I!Spec /\ O!Spec => []MatchesBacked
BY IntelMatchesBacked, LookupsStayBacked, PTL DEF MatchesBacked

-----------------------------------------------------------------------------
(***************************************************************************)
(* The health worker.  What a cycle has been told was so at a moment of    *)
(* the cycle, and while nothing disturbs it no request is cut, refused or  *)
(* counted, so that every question that has ended has an answer.           *)
(***************************************************************************)
Calls == [at : {"login", "sent", "closing", "relogin", "resent", "done"},
          path : Nat, own : BOOLEAN, epoch : Nat, cut : BOOLEAN]
Envs == [up : BOOLEAN, epoch : Nat, running : BOOLEAN, disconnected : BOOLEAN,
         dropped : BOOLEAN, indexer : {"green", "yellow", "red", H!Error}, late : BOOLEAN]
HealthTypes ==
  /\ env \in Envs
  /\ phase \in {"rest", "manager", "indexer", "store", "publish"}
  /\ call \in [H!Questions -> Calls]
  /\ client \in [set : BOOLEAN, epoch : Nat, closed : BOOLEAN]
  /\ failures \in Nat /\ stored \in Nat /\ disturbed \in BOOLEAN
  /\ ever \subseteq H!Issues /\ always \subseteq H!Issues
  /\ gauges \in [H!Gauges -> Nat]

\* The answers a question may have, each with what it says of the cycle.
Answered(r) ==
  /\ DOMAIN r = H!Questions \cup {"indexer", "lag"}
  /\ \/ r["agents"] = H!Error
     \/ r["agents"] = "many" /\ "agents_disconnected" \in ever
     \/ r["agents"] = "few" /\ "agents_disconnected" \notin always
  /\ \/ r["stats"] = H!Error
     \/ r["stats"] = "dropped" /\ "events_dropped" \in ever
     \/ r["stats"] = "fine" /\ "events_dropped" \notin always
  /\ \/ r["status"] = H!Error
     \/ r["status"] = "stopped" /\ "manager_daemon_down" \in ever
     \/ r["status"] = "running" /\ "manager_daemon_down" \notin always
  /\ \/ r["cluster"] = H!Error
     \/ r["cluster"] = "ok" /\ "cluster_unreachable" \notin always

IndexerAnswered(r) ==
  /\ IF r["indexer"] = "red" THEN "indexer_red" \in ever ELSE "indexer_red" \notin always
  /\ IF r["indexer"] = "yellow" THEN "indexer_yellow" \in ever ELSE "indexer_yellow" \notin always
  /\ IF r["lag"] = "late" THEN "ingestion_lag" \in ever ELSE "ingestion_lag" \notin always

\* A question of a cycle that nothing has disturbed.
Calm(q) ==
  /\ call[q].at \in {"login", "sent", "done"} /\ ~call[q].cut
  /\ call[q].at = "sent" => call[q].epoch = env.epoch
  /\ call[q].at = "done" => result[q] # H!Error

InCycle ==
  /\ H!Facts(env) \subseteq ever /\ always \subseteq H!Facts(env)
  /\ Answered(result)
  /\ ~disturbed =>
       /\ env.up /\ failures = 0 /\ ~client.closed
       /\ client.set => client.epoch = env.epoch
       /\ \A q \in H!Questions : Calm(q)
  /\ phase \in {"indexer", "store"} => \A q \in H!Questions : call[q].at = "done"
  /\ phase = "store" => IndexerAnswered(result)

Truthful(snapshot) ==
  /\ snapshot.unfounded \subseteq
       IF snapshot.disturbed THEN {"manager_daemon_down", "cluster_unreachable"} ELSE {}
  /\ snapshot.missed \subseteq
       IF snapshot.disturbed THEN {"agents_disconnected", "events_dropped", "cluster_unreachable"}
       ELSE {}

HealthInv ==
  /\ HealthTypes
  /\ IF phase \in {"rest", "publish"} THEN result = <<>> ELSE InCycle
  /\ stored > 0 => Truthful(newest)
  /\ \A g \in H!Gauges : gauges[g] <= stored
  /\ gauges[2] <= gauges[1]

LEMMA CallsTyped ==
    ASSUME NEW c \in Calls, env.epoch \in Nat
    PROVE  H!Send(c) \in Calls /\ H!Left(c) \in Calls /\ H!Cut(c) \in Calls /\ H!Off \in Calls
<1>1. H!Left(c) \in Calls
  BY DEF Calls, H!Left
<1>2. H!Cut(c) \in Calls
  BY DEF Calls, H!Cut
<1>3. H!Off \in Calls
  BY DEF Calls, H!Off
<1>4. H!Send(c) \in Calls
  <2>1. CASE c.at = "login"
    <3>1. H!Send(c) = [c EXCEPT !.at = "sent", !.own = TRUE, !.epoch = env.epoch, !.cut = FALSE]
      BY <2>1 DEF H!Send
    <3> QED
      BY <3>1 DEF Calls
  <2>2. CASE c.at # "login"
    <3>1. H!Send(c) = [c EXCEPT !.at = "resent", !.own = TRUE, !.epoch = env.epoch, !.cut = FALSE]
      BY <2>2 DEF H!Send
    <3> QED
      BY <3>1 DEF Calls
  <2> QED
    BY <2>1, <2>2
<1> QED
  BY <1>1, <1>2, <1>3, <1>4

LEMMA HealthStart == ASSUME HealthInv, H!Start PROVE HealthInv'
<1>1. /\ phase' = "manager" /\ failures' = 0 /\ client' = H!NoClient /\ env' = env
      /\ call' = [q \in H!Questions |-> [H!Off EXCEPT !.at = "login"]]
      /\ result' = [q \in H!Questions \cup {"indexer", "lag"} |-> H!Error]
      /\ ever' = H!Facts(env) /\ always' = H!Facts(env) /\ disturbed' = ~env.up
      /\ stored' = stored /\ newest' = newest /\ gauges' = gauges
  BY DEF H!Start
<1>2. HealthTypes'
  BY <1>1 DEF HealthInv, HealthTypes, H!NoClient, Calls, Envs, H!Off, H!Facts
<1>3. Answered(result)'
  BY <1>1 DEF Answered, H!Questions
<1>4. \A q \in H!Questions : call'[q].at = "login" /\ ~call'[q].cut
  BY <1>1 DEF H!Off
<1>5. InCycle'
  BY <1>1, <1>3, <1>4 DEF InCycle, Calm, H!NoClient, H!Facts
<1> QED
  BY <1>1, <1>2, <1>5 DEF HealthInv, Truthful

\* What a step of one question has to keep.
LEMMA QuestionSteps ==
    ASSUME HealthInv, phase = "manager",
           UNCHANGED <<env, phase, stored, newest, gauges, ever, always>>,
           HealthTypes', Answered(result)',
           ~disturbed' => /\ env.up /\ failures' = 0 /\ ~client'.closed
                          /\ client'.set => client'.epoch = env.epoch
                          /\ \A q \in H!Questions : Calm(q)'
    PROVE  HealthInv'
<1>1. InCycle'
  BY DEF HealthInv, InCycle, H!Facts
<1> QED
  BY <1>1 DEF HealthInv, Truthful

LEMMA HealthLogIn ==
    ASSUME HealthInv, phase = "manager", NEW q \in H!Questions, H!LogIn(q)
    PROVE  HealthInv'
<1>1. /\ client' = [set |-> TRUE, epoch |-> env.epoch, closed |-> FALSE]
      /\ call' = [p \in H!Questions |-> IF p = q THEN H!Send(call[q]) ELSE H!Left(call[p])]
      /\ UNCHANGED <<env, phase, failures, result, stored, newest, gauges, ever, always, disturbed>>
      /\ call[q].at \in {"login", "relogin"}
  BY DEF H!LogIn
<1>2. HealthTypes'
  <2>1. env.epoch \in Nat /\ call \in [H!Questions -> Calls]
    BY DEF HealthInv, HealthTypes, Envs
  <2>2. call' \in [H!Questions -> Calls]
    BY <1>1, <2>1, CallsTyped
  <2> QED
    BY <1>1, <2>1, <2>2 DEF HealthInv, HealthTypes
<1>3. Answered(result)'
  BY <1>1 DEF HealthInv, InCycle, Answered
<1>4. ASSUME ~disturbed', NEW p \in H!Questions PROVE Calm(p)'
  BY <1>1, <1>4 DEF HealthInv, HealthTypes, InCycle, Calm, H!Send, H!Left
<1> QED
  BY <1>1, <1>2, <1>3, <1>4, QuestionSteps DEF HealthInv, InCycle

LEMMA HealthClosed ==
    ASSUME HealthInv, phase = "manager", NEW q \in H!Questions, H!Closed(q)
    PROVE  HealthInv'
<1>1. /\ client' = H!NoClient /\ call[q].at = "closing"
      /\ call' = [p \in H!Questions |->
           IF p = q THEN [call[q] EXCEPT !.at = "relogin"] ELSE H!Left(call[p])]
      /\ UNCHANGED <<env, phase, failures, result, stored, newest, gauges, ever, always, disturbed>>
  BY DEF H!Closed
<1>2. HealthTypes'
  BY <1>1 DEF HealthInv, HealthTypes, Calls, H!Left, H!NoClient
<1>3. Answered(result)'
  BY <1>1 DEF HealthInv, InCycle, Answered
<1>4. disturbed'
  BY <1>1 DEF HealthInv, InCycle, Calm
<1> QED
  BY <1>1, <1>2, <1>3, <1>4, QuestionSteps

\* What a question that fails leaves.
LEMMA HealthRaises ==
    ASSUME HealthInv, phase = "manager", NEW q \in H!Questions, H!Raise(q), disturbed',
           UNCHANGED <<env, phase, stored, newest, gauges, ever, always>>
    PROVE  HealthInv'
<1>1. /\ failures' = H!Counted(q) /\ call' = [call EXCEPT ![q] = H!Off]
      /\ client' = client /\ result' = result
  BY DEF H!Raise
<1>2. HealthTypes'
  BY <1>1 DEF HealthInv, HealthTypes, H!Counted, Calls, H!Off
<1>3. Answered(result)'
  BY <1>1 DEF HealthInv, InCycle, Answered
<1> QED
  BY <1>2, <1>3, QuestionSteps

LEMMA HealthFails ==
    ASSUME HealthInv, phase = "manager", NEW q \in H!Questions, H!Fails(q) \/ H!TimesOut(q)
    PROVE  HealthInv'
<1>1. CASE H!TimesOut(q)
  BY <1>1, HealthRaises DEF H!TimesOut
<1>2. CASE H!Fails(q)
  <2>1. disturbed
    BY <1>2 DEF H!Fails, H!InFlight, HealthInv, InCycle, Calm, HealthTypes
  <2> QED
    BY <1>2, <2>1, HealthRaises DEF H!Fails
<1> QED
  BY <1>1, <1>2

LEMMA HealthUnauthorized ==
    ASSUME HealthInv, phase = "manager", NEW q \in H!Questions, H!Unauthorized(q)
    PROVE  HealthInv'
<1>1. /\ H!InFlight(q) /\ call[q].epoch # env.epoch
      /\ UNCHANGED <<env, phase, stored, newest, gauges, ever, always, disturbed>>
  BY DEF H!Unauthorized, H!Reached
<1>2. disturbed /\ disturbed'
  BY <1>1 DEF HealthInv, HealthTypes, InCycle, Calm, H!InFlight
<1>3. CASE call[q].at = "resent"
  BY <1>1, <1>2, <1>3, HealthRaises DEF H!Unauthorized
<1>4. CASE call[q].at # "resent"
  <2>1. /\ failures' = failures + 1 /\ result' = result
        /\ client' = [client EXCEPT !.closed = client.set]
        /\ call' = [p \in H!Questions |->
             IF p = q THEN [H!Off EXCEPT !.at = IF client.set THEN "closing" ELSE "relogin",
                                         !.path = call[q].path]
             ELSE H!Cut(call[p])]
    BY <1>4 DEF H!Unauthorized
  <2>2. HealthTypes'
    <3>1. env.epoch \in Nat /\ call \in [H!Questions -> Calls]
      BY DEF HealthInv, HealthTypes, Envs
    <3>2. [H!Off EXCEPT !.at = IF client.set THEN "closing" ELSE "relogin", !.path = call[q].path] \in Calls
      BY <3>1 DEF Calls, H!Off
    <3>3. call' \in [H!Questions -> Calls]
      BY <2>1, <3>1, <3>2, CallsTyped
    <3> QED
      BY <1>1, <2>1, <3>3 DEF HealthInv, HealthTypes
  <2>3. Answered(result)'
    BY <1>1, <2>1 DEF HealthInv, InCycle, Answered
  <2> QED
    BY <1>1, <1>2, <2>2, <2>3, QuestionSteps
<1> QED
  BY <1>3, <1>4

LEMMA HealthAnswer ==
    ASSUME HealthInv, phase = "manager", NEW q \in H!Questions, H!Answer(q)
    PROVE  HealthInv'
<1> DEFINE again == q = "cluster" /\ Clustered /\ call[q].path = 1
           left == IF call[q].at = "sent" THEN 0 ELSE failures
           next == IF left >= H!Threshold THEN H!Off
                   ELSE IF ~client.set THEN [H!Off EXCEPT !.at = "login", !.path = 2]
                   ELSE [at |-> "sent", path |-> 2, own |-> TRUE, epoch |-> client.epoch,
                         cut |-> client.closed]
<1>1. /\ env.up /\ failures' = left /\ call' = [call EXCEPT ![q] = IF again THEN next ELSE H!Off]
      /\ result' = IF again THEN result ELSE [result EXCEPT ![q] = H!Reading(q)]
      /\ UNCHANGED <<env, phase, client, stored, newest, gauges, ever, always, disturbed>>
  BY DEF H!Answer, H!Reached
<1>2. left \in Nat /\ next \in Calls
  BY DEF HealthInv, HealthTypes, Calls, H!Off
<1>3. ~disturbed => /\ left = 0 /\ next.at \in {"login", "sent"} /\ ~next.cut
                    /\ next.at = "sent" => next.epoch = env.epoch
  BY DEF HealthInv, HealthTypes, InCycle, H!Threshold, H!Off
<1> HIDE DEF left, next
<1>4. HealthTypes'
  BY <1>1, <1>2 DEF HealthInv, HealthTypes, Calls, H!Off
<1>5. Answered(result)'
  <2>1. CASE again
    BY <1>1, <2>1 DEF HealthInv, InCycle, Answered
  <2>2. CASE ~again
    <3>1. /\ DOMAIN result = H!Questions \cup {"indexer", "lag"} /\ q \in DOMAIN result
          /\ DOMAIN result' = DOMAIN result /\ result'[q] = H!Reading(q)
          /\ \A p \in H!Questions \ {q} : result'[p] = result[p]
      BY <1>1, <2>2 DEF HealthInv, InCycle, Answered
    <3>2. /\ env.disconnected <=> "agents_disconnected" \in H!Facts(env)
          /\ env.dropped <=> "events_dropped" \in H!Facts(env)
          /\ ~env.running <=> "manager_daemon_down" \in H!Facts(env)
          /\ "cluster_unreachable" \notin H!Facts(env)
      BY <1>1 DEF H!Facts, H!Issues
    <3>3. H!Facts(env) \subseteq ever /\ always \subseteq H!Facts(env) /\ Answered(result)
      BY DEF HealthInv, InCycle
    <3>4. q \in {"agents", "cluster", "stats", "status"}
      BY DEF H!Questions
    <3>5. /\ q = "agents" => H!Reading(q) = IF env.disconnected THEN "many" ELSE "few"
          /\ q = "stats" => H!Reading(q) = IF env.dropped THEN "dropped" ELSE "fine"
          /\ q = "status" => H!Reading(q) = IF env.running THEN "running" ELSE "stopped"
          /\ q = "cluster" => H!Reading(q) = "ok"
      BY DEF H!Reading
    <3> QED
      BY <1>1, <3>1, <3>2, <3>3, <3>4, <3>5 DEF Answered, H!Questions
  <2> QED
    BY <2>1, <2>2
<1>6. ASSUME ~disturbed', NEW p \in H!Questions PROVE Calm(p)'
  <2>1. ~disturbed /\ Calm(p) /\ call \in [H!Questions -> Calls]
    BY <1>1, <1>6 DEF HealthInv, HealthTypes, InCycle
  <2>2. CASE p # q
    <3>1. call'[p] = call[p] /\ result'[p] = result[p]
      BY <1>1, <2>1, <2>2 DEF HealthInv, InCycle, Answered
    <3> QED
      BY <1>1, <2>1, <3>1 DEF Calm
  <2>3. CASE p = q /\ again
    <3>1. call'[p] = next
      BY <1>1, <2>1, <2>3
    <3> QED
      BY <1>1, <1>3, <2>1, <3>1 DEF Calm
  <2>4. CASE p = q /\ ~again
    <3>1. call'[p] = H!Off /\ result'[p] = H!Reading(q)
      BY <1>1, <2>1, <2>4 DEF HealthInv, InCycle, Answered
    <3>2. H!Reading(q) # H!Error
      BY DEF H!Reading, H!Error, H!Questions
    <3> QED
      BY <3>1, <3>2 DEF Calm, H!Off
  <2> QED
    BY <2>2, <2>3, <2>4
<1> QED
  BY <1>1, <1>3, <1>4, <1>5, <1>6, QuestionSteps DEF HealthInv, InCycle

\* The rest of a cycle.
LEMMA HealthGathers == ASSUME HealthInv, H!Gathered PROVE HealthInv'
<1>1. /\ phase = "manager" /\ phase' = "indexer" /\ client' = H!NoClient
      /\ \A q \in H!Questions : call[q].at = "done"
      /\ UNCHANGED <<env, call, failures, result, stored, newest, gauges, ever, always, disturbed>>
  BY DEF H!Gathered
<1>2. HealthTypes'
  BY <1>1 DEF HealthInv, HealthTypes, H!NoClient
<1>3. InCycle'
  BY <1>1 DEF HealthInv, InCycle, Answered, Calm, H!Facts, H!NoClient
<1> QED
  BY <1>1, <1>2, <1>3 DEF HealthInv, Truthful

LEMMA HealthAsksIndexer == ASSUME HealthInv, H!AskIndexer PROVE HealthInv'
<1>1. /\ phase = "indexer" /\ phase' = "store"
      /\ result' = [result EXCEPT !["indexer"] = H!Reading("indexer"), !["lag"] = H!Reading("lag")]
      /\ UNCHANGED <<env, call, client, failures, stored, newest, gauges, ever, always, disturbed>>
  BY DEF H!AskIndexer, H!asking
<1>2. HealthTypes'
  BY <1>1 DEF HealthInv, HealthTypes
<1>3. Answered(result) /\ H!Facts(env) \subseteq ever /\ always \subseteq H!Facts(env)
  BY <1>1 DEF HealthInv, InCycle
<1>4. /\ DOMAIN result' = DOMAIN result /\ \A q \in H!Questions : result'[q] = result[q]
      /\ result'["indexer"] = H!Reading("indexer") /\ result'["lag"] = H!Reading("lag")
  BY <1>1, <1>3 DEF Answered, H!Questions
<1>5. Answered(result)'
  BY <1>1, <1>3, <1>4 DEF Answered, H!Questions
<1>6. IndexerAnswered(result)'
  <2>1. /\ env.indexer = "red" <=> "indexer_red" \in H!Facts(env)
        /\ env.indexer = "yellow" <=> "indexer_yellow" \in H!Facts(env)
        /\ env.late /\ env.indexer # H!Error <=> "ingestion_lag" \in H!Facts(env)
    BY DEF H!Facts, H!Issues
  <2>2. /\ H!Reading("indexer") = env.indexer
        /\ H!Reading("lag") = IF env.indexer = H!Error THEN H!Error ELSE IF env.late THEN "late" ELSE "fine"
    BY DEF H!Reading
  <2>3. ever' = ever /\ always' = always
    BY <1>1
  <2> QED
    BY <1>3, <1>4, <2>1, <2>2, <2>3 DEF IndexerAnswered, H!Error
<1>7. InCycle'
  <2>1. InCycle
    BY <1>1 DEF HealthInv
  <2>2. H!Facts(env)' = H!Facts(env)
    BY <1>1 DEF H!Facts
  <2>3. ASSUME NEW q \in H!Questions, Calm(q) PROVE Calm(q)'
    BY <1>1, <1>4, <2>3 DEF Calm
  <2> QED
    BY <1>1, <1>5, <1>6, <2>1, <2>2, <2>3 DEF InCycle
<1> QED
  BY <1>1, <1>2, <1>7 DEF HealthInv, Truthful

\* What a row tells of the answers.
LEMMA SnapshotTrue ==
    ASSUME HealthInv, phase = "store"
    PROVE  /\ H!_evaluate(result) \ ever \subseteq
                IF disturbed THEN {"manager_daemon_down", "cluster_unreachable"} ELSE {}
           /\ always \ H!_evaluate(result) \subseteq
                IF disturbed THEN {"agents_disconnected", "events_dropped", "cluster_unreachable"}
                ELSE {}
<1>1. /\ Answered(result) /\ IndexerAnswered(result) /\ always \subseteq H!Issues
      /\ ~disturbed => \A q \in H!Questions : result[q] # H!Error
  BY DEF HealthInv, HealthTypes, InCycle, Calm
<1>2. ~disturbed => /\ result["agents"] # H!Error /\ result["stats"] # H!Error
                    /\ result["status"] # H!Error /\ result["cluster"] # H!Error
  BY <1>1 DEF H!Questions
<1>3. ASSUME NEW i \in H!_evaluate(result), i \notin ever
      PROVE  disturbed /\ i \in {"manager_daemon_down", "cluster_unreachable"}
  BY <1>1, <1>2, <1>3 DEF H!_evaluate, H!Issues, H!Error, Answered, IndexerAnswered
<1>4. ASSUME NEW i \in always, i \notin H!_evaluate(result)
      PROVE  disturbed /\ i \in {"agents_disconnected", "events_dropped", "cluster_unreachable"}
  BY <1>1, <1>2, <1>4 DEF H!_evaluate, H!Issues, H!Error, Answered, IndexerAnswered
<1> QED
  BY <1>3, <1>4

\* A cycle's end forgets it.
LEMMA HealthForgets ==
    ASSUME HealthInv, H!Forget, env' = env, phase' \in {"rest", "publish"}, stored' \in Nat,
           stored <= stored', gauges' = gauges,
           stored' > 0 => Truthful(newest)'
    PROVE  HealthInv'
<1>1. /\ call' = [q \in H!Questions |-> H!Off] /\ client' = H!NoClient /\ failures' = 0
      /\ result' = <<>> /\ ever' = {} /\ always' = {} /\ disturbed' = FALSE
  BY DEF H!Forget
<1>2. H!Off \in Calls
  BY DEF H!Off, Calls
<1>3. HealthTypes'
  BY <1>1, <1>2 DEF HealthInv, HealthTypes, H!NoClient
<1>4. \A g \in H!Gauges : gauges'[g] <= stored'
  BY DEF HealthInv, HealthTypes
<1> QED
  BY <1>1, <1>3, <1>4 DEF HealthInv

LEMMA HealthStores == ASSUME HealthInv, H!Store PROVE HealthInv'
<1>1. /\ phase = "store" /\ phase' = "publish" /\ stored' = stored + 1 /\ H!Forget
      /\ env' = env /\ gauges' = gauges /\ stored \in Nat
      /\ newest' = LET issues == H!_evaluate(result) IN
           [overall |-> H!Overall(issues), issues |-> issues, unfounded |-> issues \ ever,
            missed |-> always \ issues, disturbed |-> disturbed]
  BY DEF H!Store, HealthInv, HealthTypes
<1>2. Truthful(newest)'
  BY <1>1, SnapshotTrue DEF Truthful
<1> QED
  BY <1>1, <1>2, HealthForgets

LEMMA HealthLoses == ASSUME HealthInv, H!Lose PROVE HealthInv'
<1>1. stored \in Nat /\ (stored' > 0 => Truthful(newest)')
  BY DEF H!Lose, HealthInv, HealthTypes, Truthful
<1> QED
  BY <1>1, HealthForgets DEF H!Lose

LEMMA HealthPublishes == ASSUME HealthInv, H!Publish \/ H!EndPublishing PROVE HealthInv'
<1>1. CASE H!EndPublishing
  BY <1>1 DEF H!EndPublishing, H!asking, HealthInv, HealthTypes, Truthful
<1>2. CASE H!Publish
  <2> DEFINE first == CHOOSE g \in H!Behind : \A h \in H!Behind : g <= h
  <2>1. /\ phase = "publish" /\ H!Behind # {} /\ gauges' = [gauges EXCEPT ![first] = stored]
        /\ UNCHANGED <<env, phase, call, client, failures, result, stored, newest, ever, always, disturbed>>
    BY <1>2 DEF H!Publish, H!asking
  <2>2. \E g \in H!Behind : \A h \in H!Behind : g <= h
    <3>1. H!Behind \subseteq {1, 2}
      BY DEF H!Behind, H!Gauges
    <3>2. CASE 1 \in H!Behind
      <4>1. \A h \in H!Behind : 1 <= h
        BY <3>1
      <4> QED
        BY <3>2, <4>1
    <3>3. CASE 1 \notin H!Behind
      <4>1. H!Behind = {2}
        BY <2>1, <3>1, <3>3
      <4> QED
        BY <4>1
    <3> QED
      BY <3>2, <3>3
  <2>3. first \in H!Behind /\ \A h \in H!Behind : first <= h
    BY <2>2
  <2> HIDE DEF first
  <2>4. /\ gauges \in [H!Gauges -> Nat] /\ stored \in Nat /\ gauges[1] <= stored /\ gauges[2] <= stored
        /\ gauges[2] <= gauges[1] /\ first \in {1, 2} /\ (first = 2 => gauges[1] = stored)
    BY <2>3 DEF HealthInv, HealthTypes, H!Behind, H!Gauges
  <2>5. /\ gauges' \in [H!Gauges -> Nat] /\ gauges'[2] <= gauges'[1]
        /\ \A g \in H!Gauges : gauges'[g] <= stored
    BY <2>1, <2>4 DEF H!Gauges
  <2> QED
    BY <2>1, <2>5 DEF HealthInv, HealthTypes, Truthful
<1> QED
  BY <1>1, <1>2

\* The environment changes, during a cycle or between two.
LEMMA HealthChanges ==
    ASSUME HealthInv, NEW e \in Envs, H!Happens(e)
    PROVE  HealthInv'
<1>1. /\ env' = e
      /\ UNCHANGED <<phase, call, client, failures, result, stored, newest, gauges>>
      /\ IF result = <<>> THEN UNCHANGED <<ever, always, disturbed>>
         ELSE /\ ever' = ever \cup H!Facts(e) /\ always' = always \cap H!Facts(e)
              /\ disturbed' = (disturbed \/ ~e.up \/ e.epoch # env.epoch)
  BY DEF H!Happens, H!asking
<1>2. HealthTypes'
  <2>1. H!Facts(e) \subseteq H!Issues
    BY DEF H!Facts
  <2>2. disturbed' \in BOOLEAN /\ ever' \subseteq H!Issues /\ always' \subseteq H!Issues
    BY <1>1, <2>1 DEF HealthInv, HealthTypes
  <2> QED
    BY <1>1, <2>2 DEF HealthInv, HealthTypes
<1>3. CASE phase \in {"rest", "publish"}
  BY <1>1, <1>2, <1>3 DEF HealthInv, Truthful
<1>4. CASE phase \notin {"rest", "publish"}
  <2>1. InCycle /\ result # <<>>
    <3>1. InCycle /\ DOMAIN result # {}
      BY <1>4 DEF HealthInv, InCycle, Answered
    <3> QED
      BY <3>1
  <2>2. /\ ever \subseteq ever' /\ always' \subseteq always /\ H!Facts(e) \subseteq ever'
        /\ always' \subseteq H!Facts(e)
    BY <1>1, <2>1
  <2>3. Answered(result)'
    BY <1>1, <2>1, <2>2 DEF InCycle, Answered
  <2>4. phase = "store" => IndexerAnswered(result)'
    BY <1>1, <2>1, <2>2 DEF InCycle, IndexerAnswered
  <2>5. ~disturbed' => ~disturbed /\ e.up /\ e.epoch = env.epoch
    BY <1>1, <2>1
  <2>6. InCycle'
    BY <1>1, <2>1, <2>2, <2>3, <2>4, <2>5 DEF InCycle, Calm, H!Facts
  <2> QED
    BY <1>1, <1>2, <1>4, <2>6 DEF HealthInv, Truthful
<1> QED
  BY <1>3, <1>4

LEMMA HealthInvHolds == H!Spec => []HealthInv
<1>1. ASSUME H!Init PROVE HealthInv
  <2>1. H!Off \in Calls
    BY DEF H!Off, Calls
  <2>2. env \in Envs
    BY <1>1 DEF H!Init, Envs
  <2>3. HealthTypes
    BY <1>1, <2>1, <2>2 DEF H!Init, HealthTypes, H!NoClient
  <2>4. /\ phase = "rest" /\ result = <<>> /\ stored = 0
        /\ gauges[1] = 0 /\ gauges[2] = 0 /\ \A g \in H!Gauges : gauges[g] = 0
    BY <1>1 DEF H!Init, H!Gauges
  <2> QED
    BY <2>3, <2>4 DEF HealthInv
<1>2. ASSUME HealthInv, H!Change PROVE HealthInv'
  <2>1. env \in Envs
    BY <1>2 DEF HealthInv, HealthTypes
  <2>2. /\ \A b \in BOOLEAN : /\ [env EXCEPT !.up = b] \in Envs
                              /\ [env EXCEPT !.running = b] \in Envs
                              /\ [env EXCEPT !.disconnected = b] \in Envs
                              /\ [env EXCEPT !.dropped = b] \in Envs
                              /\ [env EXCEPT !.late = b] \in Envs
        /\ \A n \in Nat : [env EXCEPT !.epoch = n] \in Envs
        /\ \A s \in {"green", "yellow", "red", H!Error} : [env EXCEPT !.indexer = s] \in Envs
    BY <2>1 DEF Envs
  <2>3. \A b \in BOOLEAN : (~b) \in BOOLEAN
    OBVIOUS
  <2>4. /\ env.up \in BOOLEAN /\ env.running \in BOOLEAN /\ env.disconnected \in BOOLEAN
        /\ env.dropped \in BOOLEAN /\ env.late \in BOOLEAN /\ env.epoch + 1 \in Nat
    BY <2>1 DEF Envs
  <2>5. /\ (~env.up) \in BOOLEAN /\ (~env.running) \in BOOLEAN /\ (~env.disconnected) \in BOOLEAN
        /\ (~env.dropped) \in BOOLEAN /\ (~env.late) \in BOOLEAN
    BY <2>3, <2>4, Zenon
  <2>6. PICK e \in Envs : H!Happens(e)
    BY <1>2, <2>2, <2>4, <2>5 DEF H!Change
  <2> QED
    BY <1>2, <2>6, HealthChanges
<1>3. ASSUME HealthInv, UNCHANGED H!vars PROVE HealthInv'
  BY <1>3 DEF HealthInv, HealthTypes, InCycle, Answered, IndexerAnswered, Calm, Truthful, H!Facts,
              H!vars, H!asking
<1>4. HealthInv /\ [H!Next]_H!vars => HealthInv'
  BY <1>2, <1>3, HealthStart, HealthLogIn, HealthAnswer, HealthUnauthorized, HealthClosed,
     HealthFails, HealthGathers, HealthAsksIndexer, HealthStores, HealthPublishes, HealthLoses
     DEF H!Next
<1> QED
  BY <1>1, <1>4, PTL DEF H!Spec

LEMMA HealthTellsTruth == H!Spec => []H!SnapshotsTellTruth
<1>1. HealthInv => H!SnapshotsTellTruth
  <2> SUFFICES ASSUME HealthInv PROVE H!SnapshotsTellTruth
    OBVIOUS
  <2>1. stored \in Nat
    BY DEF HealthInv, HealthTypes
  <2>2. H!Environment # <<>> => Truthful(H!Environment[1])
    BY <2>1 DEF HealthInv, H!Environment
  <2>3. \A g \in H!Gauges : gauges[g] <= stored /\ \A h \in 1..g : gauges[g] <= gauges[h]
    BY DEF HealthInv, HealthTypes, H!Gauges
  <2> QED
    BY <2>2, <2>3 DEF H!SnapshotsTellTruth, Truthful
<1> QED
  BY <1>1, HealthInvHolds, PTL

-----------------------------------------------------------------------------
(***************************************************************************)
(* The asset table.  Ranks only grow while nobody leaves, so an agent      *)
(* that stays is listed once the pages have passed its rank; what is       *)
(* listed, looked up and written are statuses the agent has had.           *)
(***************************************************************************)
Known == S!Statuses \cup {S!Absent}
Listing == [agent : S!Agents, status : S!Statuses]
Passes == [at : {"listing", "storing"}, offset : Nat, listed : Seq(Listing), todo : Seq(Listing),
           row : [S!Agents -> S!Statuses \cup {"unread"}], dirty : SUBSET S!Agents,
           stay : SUBSET S!Agents, had : [S!Agents -> SUBSET Known], cut : BOOLEAN,
           crossed : BOOLEAN]

\* The list, and what of it is still to be stored, are about agents as they were.
ListedTruly(c) ==
  /\ \A a \in S!Agents : agents[a] \in c.had[a]
  /\ \A i \in 1..Len(c.listed) : c.listed[i].status \in c.had[c.listed[i].agent]
  /\ \A i \in 1..Len(c.todo) : c.todo[i].status \in c.had[c.todo[i].agent]
  /\ \A a \in S!Agents : c.row[a] # "unread" => c.row[a] \in c.had[a]

\* Whom the cycle has not passed over.
NoneMissed(c) ==
  ~c.cut =>
    /\ c.at = "listing" => \A a \in c.stay :
         S!Rank(a) <= c.offset => \E i \in 1..Len(c.listed) : c.listed[i].agent = a
    /\ c.at = "storing" => \A a \in c.stay :
         c.row[a] # "unread" \/ \E i \in 1..Len(c.todo) : c.todo[i].agent = a

\* A row the cycle has read and will not write has what it read.
ReadStands(c) ==
  ~c.crossed => \A a \in S!Agents :
    c.row[a] # "unread" /\ a \notin c.dirty => asset[a] = c.row[a]

Passing(c) ==
  /\ c \in Passes /\ c.stay \subseteq S!Registered
  /\ ListedTruly(c) /\ NoneMissed(c) /\ ReadStands(c)
  /\ c.at = "listing" => c.row = S!Unread /\ c.dirty = {}

PassInv(c) ==
  /\ c.at \in {"rest", "listing", "storing", "stored"}
  /\ c.at \in {"listing", "storing"} => Passing(c)
  /\ c.at = "stored" => S!Honest(c)

SyncInv ==
  /\ agents \in [S!Agents -> Known]
  /\ DOMAIN sync = Syncers /\ \A s \in Syncers : PassInv(sync[s])
  /\ lastSync.set => S!Honest(lastSync.by)

\* The places in the manager's list.
LEMMA FleetCardinality == \A X : S!Cardinality(X) = Cardinality(X)
BY Zenon DEF S!Cardinality, Cardinality, S!IsFiniteSet, IsFiniteSet

LEMMA UpToFinite ==
    ASSUME NEW a \in Nat
    PROVE  /\ IsFiniteSet({b \in S!Registered : b <= a})
           /\ S!Rank(a) = Cardinality({b \in S!Registered : b <= a}) /\ S!Rank(a) \in Nat
           /\ IsFiniteSet(S!Registered) /\ S!Cardinality(S!Registered) = Cardinality(S!Registered)
           /\ Cardinality(S!Registered) \in Nat /\ S!Rank(a) <= Cardinality(S!Registered)
<1> DEFINE U == {b \in S!Registered : b <= a}
<1>1. Fleet \in Nat
  BY OutboundAssumption DEF S!AssetAssumption
<1>2. IsFiniteSet(1..Fleet)
  BY <1>1, FS_Interval
<1>3. S!Registered \in SUBSET (1..Fleet) /\ U \in SUBSET S!Registered
  BY DEF S!Registered, S!Agents
<1>4. IsFiniteSet(S!Registered)
  BY <1>2, <1>3, FS_Subset
<1>5. IsFiniteSet(U) /\ Cardinality(U) <= Cardinality(S!Registered)
  BY <1>3, <1>4, FS_Subset
<1>6. Cardinality(U) \in Nat /\ Cardinality(S!Registered) \in Nat
  BY <1>4, <1>5, FS_CardinalityType
<1>7. S!Rank(a) = Cardinality(U) /\ S!Cardinality(S!Registered) = Cardinality(S!Registered)
  BY FleetCardinality DEF S!Rank
<1> QED
  BY <1>4, <1>5, <1>6, <1>7

LEMMA RanksGrow ==
    ASSUME NEW a \in S!Registered, NEW b \in S!Registered, a < b
    PROVE  S!Rank(a) < S!Rank(b)
<1> DEFINE U == {c \in S!Registered : c <= a}
           V == {c \in S!Registered : c <= b}
<1>1. a \in Nat /\ b \in Nat /\ S!Registered \subseteq Nat
  BY OutboundAssumption DEF S!AssetAssumption, S!Registered, S!Agents
<1>2. U \in SUBSET V /\ b \in V /\ b \notin U
  <2>1. ASSUME NEW c \in U PROVE c \in V
    BY <1>1
  <2>2. b \in V /\ b \notin U
    BY <1>1
  <2> QED
    BY <2>1, <2>2
<1>3. U # V
  BY <1>2
<1>4. IsFiniteSet(V) /\ S!Rank(a) = Cardinality(U) /\ S!Rank(b) = Cardinality(V)
      /\ Cardinality(U) \in Nat /\ Cardinality(V) \in Nat
  BY <1>1, UpToFinite
<1>5. Cardinality(U) <= Cardinality(V) /\ Cardinality(U) # Cardinality(V)
  BY <1>2, <1>3, <1>4, FS_Subset
<1> QED
  BY <1>4, <1>5

LEMMA RankTypes ==
    /\ Cardinality(S!Registered) \in Nat /\ S!Cardinality(S!Registered) = Cardinality(S!Registered)
    /\ \A a \in S!Registered : S!Rank(a) \in 1..Cardinality(S!Registered)
    /\ \A a \in S!Registered, b \in S!Registered : S!Rank(a) = S!Rank(b) => a = b
<1>1. S!Registered \subseteq Nat
  BY OutboundAssumption DEF S!AssetAssumption, S!Registered, S!Agents
<1>2. Cardinality(S!Registered) \in Nat /\ S!Cardinality(S!Registered) = Cardinality(S!Registered)
  <2>1. 0 \in Nat
    OBVIOUS
  <2> QED
    BY <2>1, UpToFinite
<1>3. ASSUME NEW a \in S!Registered PROVE S!Rank(a) \in 1..Cardinality(S!Registered)
  <2> DEFINE U == {b \in S!Registered : b <= a}
  <2>1. a \in U
    BY <1>1
  <2>2. /\ IsFiniteSet(U) /\ S!Rank(a) = Cardinality(U) /\ S!Rank(a) \in Nat
        /\ S!Rank(a) <= Cardinality(S!Registered)
    BY <1>1, UpToFinite
  <2>3. Cardinality(U) # 0
    BY <2>1, <2>2, FS_EmptySet
  <2> QED
    BY <1>2, <2>2, <2>3
<1>4. ASSUME NEW a \in S!Registered, NEW b \in S!Registered, S!Rank(a) = S!Rank(b) PROVE a = b
  <2>1. S!Rank(a) \in Nat
    BY <1>1, UpToFinite
  <2>2. ~(a < b) /\ ~(b < a)
    BY <1>4, <2>1, RanksGrow
  <2> QED
    BY <1>1, <2>2
<1> QED
  BY <1>2, <1>3, <1>4

\* Every place is somebody's.
LEMMA RanksFill ==
    ASSUME NEW n \in 1..Cardinality(S!Registered)
    PROVE  \E a \in S!Registered : S!Rank(a) = n
<1> DEFINE last == Cardinality(S!Registered)
           f == [a \in S!Registered |-> S!Rank(a)]
<1>1. last \in Nat /\ \A a \in S!Registered : S!Rank(a) \in 1..last
  BY RankTypes
<1>2. f \in Injection(S!Registered, 1..last)
  <2>1. f \in [S!Registered -> 1..last]
    BY <1>1
  <2>2. \A a \in S!Registered, b \in S!Registered : f[a] = f[b] => a = b
    BY RankTypes
  <2> QED
    BY <2>1, <2>2 DEF Injection, IsInjective
<1>3. IsFiniteSet(1..last) /\ Cardinality(1..last) = last
  BY <1>1, FS_Interval
<1>4. f \in Surjection(S!Registered, 1..last)
  BY <1>2, <1>3, FS_Injection
<1> QED
  BY <1>4 DEF Surjection

LEMMA PageShape ==
    ASSUME NEW offset \in Nat
    PROVE  \E n \in Nat :
             /\ S!Page(offset) = [i \in 1..n |->
                  [agent |-> CHOOSE a \in S!Registered : S!Rank(a) = offset + i,
                   status |-> agents[CHOOSE a \in S!Registered : S!Rank(a) = offset + i]]]
             /\ \A i \in 1..n : offset + i \in 1..Cardinality(S!Registered)
             /\ n = 0 => Cardinality(S!Registered) <= offset
             /\ \A k \in 1..Cardinality(S!Registered) :
                  offset < k /\ k <= offset + PageSize => k - offset \in 1..n
<1> DEFINE last == Cardinality(S!Registered)
           n == IF last <= offset THEN 0
                ELSE IF last - offset < PageSize THEN last - offset ELSE PageSize
<1>1. last \in Nat /\ S!Cardinality(S!Registered) = last
  BY RankTypes
<1>2. PageSize \in Nat \ {0}
  BY OutboundAssumption DEF S!AssetAssumption
<1> HIDE DEF last
<1>3. /\ n \in Nat /\ (n = 0 => last <= offset) /\ \A i \in 1..n : offset + i \in 1..last
      /\ \A k \in 1..last : offset < k /\ k <= offset + PageSize => k - offset \in 1..n
  BY <1>1, <1>2
<1>4. S!Page(offset) = [i \in 1..n |->
                  [agent |-> CHOOSE a \in S!Registered : S!Rank(a) = offset + i,
                   status |-> agents[CHOOSE a \in S!Registered : S!Rank(a) = offset + i]]]
  BY <1>1 DEF S!Page
<1> HIDE DEF n
<1> QED
  BY <1>3, <1>4 DEF last

LEMMA PageLists ==
    ASSUME agents \in [S!Agents -> Known], NEW offset \in Nat
    PROVE  /\ S!Page(offset) \in Seq(Listing)
           /\ \A i \in 1..Len(S!Page(offset)) :
                S!Page(offset)[i].status = agents[S!Page(offset)[i].agent]
           /\ S!Page(offset) = <<>> => Cardinality(S!Registered) <= offset
           /\ \A a \in S!Registered :
                offset < S!Rank(a) /\ S!Rank(a) <= offset + PageSize =>
                  \E i \in 1..Len(S!Page(offset)) : S!Page(offset)[i].agent = a
<1> DEFINE At(i) == CHOOSE a \in S!Registered : S!Rank(a) = offset + i
           page == S!Page(offset)
<1>1. PICK n \in Nat :
        /\ page = [i \in 1..n |-> [agent |-> At(i), status |-> agents[At(i)]]]
        /\ \A i \in 1..n : offset + i \in 1..Cardinality(S!Registered)
        /\ n = 0 => Cardinality(S!Registered) <= offset
        /\ \A k \in 1..Cardinality(S!Registered) :
             offset < k /\ k <= offset + PageSize => k - offset \in 1..n
  BY PageShape
<1>2. ASSUME NEW i \in 1..n PROVE At(i) \in S!Registered /\ S!Rank(At(i)) = offset + i
  <2>1. \E a \in S!Registered : S!Rank(a) = offset + i
    BY <1>1, RanksFill
  <2> QED
    BY <2>1
<1> HIDE DEF At, page
<1>3. \A i \in 1..n : At(i) \in S!Agents /\ agents[At(i)] \in S!Statuses
  BY <1>2 DEF S!Registered, Known
<1>4. page \in Seq(Listing) /\ Len(page) = n
  <2>1. \A i \in 1..n : [agent |-> At(i), status |-> agents[At(i)]] \in Listing
    BY <1>3 DEF Listing
  <2>2. page \in [1..n -> Listing] /\ n \in Nat
    BY <1>1, <2>1
  <2> HIDE DEF Listing
  <2> QED
    BY <2>2
<1>5. \A i \in 1..n : page[i].agent = At(i) /\ page[i].status = agents[At(i)]
  BY <1>1
<1>6. ASSUME NEW a \in S!Registered, offset < S!Rank(a), S!Rank(a) <= offset + PageSize
      PROVE  \E i \in 1..n : page[i].agent = a
  <2>1. S!Rank(a) \in 1..Cardinality(S!Registered) /\ Cardinality(S!Registered) \in Nat
    BY RankTypes
  <2>2. S!Rank(a) - offset \in 1..n /\ offset + (S!Rank(a) - offset) = S!Rank(a)
    BY <1>1, <1>6, <2>1
  <2>3. At(S!Rank(a) - offset) = a
    BY <1>2, <2>2, RankTypes
  <2> QED
    BY <1>5, <2>2, <2>3
<1>7. page = <<>> => n = 0
  BY <1>4
<1> QED
  BY <1>1, <1>4, <1>5, <1>6, <1>7 DEF page

\* A pass stands while neither the fleet nor the rows change.
LEMMA PassKept ==
    ASSUME NEW c, PassInv(c), UNCHANGED <<agents, asset>>
    PROVE  PassInv(c)'
<1>1. S!Registered' = S!Registered
  BY DEF S!Registered
<1>2. \A a : S!Rank(a)' = S!Rank(a)
  BY <1>1 DEF S!Rank
<1>3. ListedTruly(c)' <=> ListedTruly(c)
  BY DEF ListedTruly
<1>4. NoneMissed(c)' <=> NoneMissed(c)
  BY <1>2 DEF NoneMissed
<1>5. ReadStands(c)' <=> ReadStands(c)
  BY DEF ReadStands
<1> QED
  BY <1>1, <1>3, <1>4, <1>5 DEF PassInv, Passing

LEMMA OnePasses ==
    ASSUME SyncInv, UNCHANGED <<agents, asset, lastSync>>, NEW s \in Syncers, NEW c, PassInv(c),
           sync' = [sync EXCEPT ![s] = c]
    PROVE  SyncInv'
<1>1. \A t \in Syncers : PassInv(sync'[t])
  BY DEF SyncInv
<1>2. \A t \in Syncers : PassInv(sync[t])'
  BY <1>1, PassKept
<1> QED
  BY <1>2 DEF SyncInv

LEMMA SyncStarts ==
    ASSUME SyncInv, NEW s \in Syncers, S!Start(s)
    PROVE  SyncInv'
<1> DEFINE c == [at |-> "listing", offset |-> 0, listed |-> <<>>, todo |-> <<>>, row |-> S!Unread,
                 dirty |-> {}, stay |-> {a \in S!Agents : agents[a] # S!Absent},
                 had |-> [a \in S!Agents |-> {agents[a]}], cut |-> FALSE, crossed |-> FALSE]
<1>1. sync' = [sync EXCEPT ![s] = c] /\ UNCHANGED <<agents, asset, lastSync>>
  BY DEF S!Start
<1>2. c \in Passes
  <2>1. /\ c.row \in [S!Agents -> S!Statuses \cup {"unread"}]
        /\ c.had \in [S!Agents -> SUBSET Known]
        /\ c.stay \in SUBSET S!Agents
    BY DEF SyncInv, S!Unread
  <2>2. <<>> \in Seq(Listing)
    OBVIOUS
  <2> QED
    BY <2>1, <2>2 DEF Passes
<1>3. c.stay = S!Registered
  BY DEF S!Registered
<1>4. NoneMissed(c)
  <2>1. \A a \in c.stay : ~(S!Rank(a) <= 0)
    BY <1>3, RankTypes
  <2> QED
    BY <2>1 DEF NoneMissed
<1>5. ListedTruly(c) /\ ReadStands(c)
  BY DEF ListedTruly, ReadStands, S!Unread
<1>6. PassInv(c)
  BY <1>2, <1>3, <1>4, <1>5 DEF PassInv, Passing
<1> QED
  BY <1>1, <1>6, OnePasses

\* What a pass is made of, and what it is with some of it changed.
LEMMA PassFields ==
    ASSUME NEW c \in Passes
    PROVE  /\ c.at \in {"listing", "storing"} /\ c.offset \in Nat /\ c.listed \in Seq(Listing)
           /\ c.todo \in Seq(Listing) /\ c.row \in [S!Agents -> S!Statuses \cup {"unread"}]
           /\ c.dirty \in SUBSET S!Agents /\ c.stay \in SUBSET S!Agents
           /\ c.had \in [S!Agents -> SUBSET Known] /\ c.cut \in BOOLEAN /\ c.crossed \in BOOLEAN
BY DEF Passes

LEMMA SyncFetchFails ==
    ASSUME SyncInv, NEW s \in Syncers, S!FetchFails(s)
    PROVE  SyncInv'
<1> DEFINE c == sync[s]
           d == [c EXCEPT !.at = "storing", !.todo = c.listed, !.cut = TRUE]
<1>1. /\ sync' = [sync EXCEPT ![s] = d] /\ UNCHANGED <<agents, asset, lastSync>> /\ c.at = "listing"
  BY DEF S!FetchFails, SyncInv
<1>2. Passing(c) /\ c \in Passes
  BY <1>1 DEF SyncInv, PassInv, Passing
<1> HIDE DEF c
<1>3. /\ d \in Passes /\ d.at = "storing" /\ d.todo = c.listed /\ d.listed = c.listed /\ d.cut = TRUE
      /\ d.row = c.row /\ d.dirty = c.dirty /\ d.stay = c.stay /\ d.had = c.had
      /\ d.crossed = c.crossed
  BY <1>2 DEF Passes
<1> HIDE DEF d
<1>4. Passing(d)
  BY <1>2, <1>3 DEF Passing, ListedTruly, NoneMissed, ReadStands
<1> QED
  BY <1>1, <1>3, <1>4, OnePasses DEF PassInv

LEMMA SyncFetches ==
    ASSUME SyncInv, NEW s \in Syncers, S!Fetch(s)
    PROVE  SyncInv'
<1> DEFINE c == sync[s]
           page == S!Page(c.offset)
<1>1. UNCHANGED <<agents, asset, lastSync>> /\ c.at = "listing"
  BY DEF S!Fetch
<1>2. Passing(c) /\ c \in Passes
  BY <1>1 DEF SyncInv, PassInv, Passing
<1>3. /\ page \in Seq(Listing)
      /\ \A i \in 1..Len(page) : page[i].status = agents[page[i].agent]
      /\ page = <<>> => Cardinality(S!Registered) <= c.offset
      /\ \A a \in S!Registered :
           c.offset < S!Rank(a) /\ S!Rank(a) <= c.offset + PageSize =>
             \E i \in 1..Len(page) : page[i].agent = a
  BY <1>2, PassFields, PageLists DEF SyncInv
<1>4. CASE page = <<>>
  <2> DEFINE d == [c EXCEPT !.at = "storing", !.todo = c.listed]
  <2>1. sync' = [sync EXCEPT ![s] = d]
    BY <1>4 DEF S!Fetch, SyncInv
  <2> HIDE DEF c, page
  <2>2. /\ d \in Passes /\ d.at = "storing" /\ d.todo = c.listed /\ d.listed = c.listed
        /\ d.cut = c.cut /\ d.row = c.row /\ d.dirty = c.dirty /\ d.stay = c.stay /\ d.had = c.had
        /\ d.crossed = c.crossed
    BY <1>2 DEF Passes
  <2> HIDE DEF d
  <2>3. ASSUME ~c.cut, NEW a \in c.stay PROVE \E i \in 1..Len(c.listed) : c.listed[i].agent = a
    <3>1. a \in S!Registered /\ c.offset \in Nat
      BY <1>2, PassFields DEF Passing
    <3>2. S!Rank(a) <= c.offset
      BY <1>3, <1>4, <3>1, RankTypes
    <3> QED
      BY <1>1, <1>2, <2>3, <3>2 DEF Passing, NoneMissed
  <2>4. Passing(d)
    BY <1>2, <2>2, <2>3 DEF Passing, ListedTruly, NoneMissed, ReadStands
  <2> QED
    BY <1>1, <2>1, <2>2, <2>4, OnePasses DEF PassInv
<1>5. CASE page # <<>>
  <2> DEFINE d == [c EXCEPT !.listed = c.listed \o page, !.offset = c.offset + PageSize]
  <2>1. sync' = [sync EXCEPT ![s] = d]
    BY <1>5 DEF S!Fetch, SyncInv
  <2>2. PageSize \in Nat \ {0}
    BY OutboundAssumption DEF S!AssetAssumption
  <2> HIDE DEF c, page
  <2>3. c.listed \in Seq(Listing) /\ c.offset \in Nat /\ c.offset + PageSize \in Nat
    BY <1>2, <2>2, PassFields
  <2>4. /\ c.listed \o page \in Seq(Listing) /\ Len(c.listed \o page) = Len(c.listed) + Len(page)
        /\ Len(c.listed) \in Nat /\ Len(page) \in Nat
        /\ \A i \in 1..Len(c.listed) : (c.listed \o page)[i] = c.listed[i]
        /\ \A i \in 1..Len(page) : (c.listed \o page)[Len(c.listed) + i] = page[i]
    <3> HIDE DEF Listing
    <3> QED
      BY <1>3, <2>3
  <2>5. /\ d \in Passes /\ d.at = c.at /\ d.todo = c.todo /\ d.listed = c.listed \o page
        /\ d.offset = c.offset + PageSize
        /\ d.cut = c.cut /\ d.row = c.row /\ d.dirty = c.dirty /\ d.stay = c.stay /\ d.had = c.had
        /\ d.crossed = c.crossed
    BY <1>2, <2>3, <2>4 DEF Passes
  <2> HIDE DEF d
  <2>6. ASSUME NEW i \in 1..Len(d.listed) PROVE d.listed[i].status \in d.had[d.listed[i].agent]
    <3>1. CASE i \in 1..Len(c.listed)
      BY <1>2, <2>4, <2>5, <3>1 DEF Passing, ListedTruly
    <3>2. CASE i \notin 1..Len(c.listed)
      <4>1. i - Len(c.listed) \in 1..Len(page) /\ i = Len(c.listed) + (i - Len(c.listed))
        BY <2>4, <2>5, <2>6, <3>2
      <4>2. PICK j \in 1..Len(page) : d.listed[i] = page[j]
        BY <2>4, <2>5, <4>1
      <4>3. page[j] \in Listing
        BY <1>3
      <4>4. page[j].agent \in S!Agents
        BY <4>3 DEF Listing
      <4> QED
        BY <1>2, <1>3, <2>5, <4>2, <4>4 DEF Passing, ListedTruly
    <3> QED
      BY <3>1, <3>2
  <2>7. ASSUME ~c.cut, NEW a \in c.stay, S!Rank(a) <= c.offset + PageSize
        PROVE  \E i \in 1..Len(d.listed) : d.listed[i].agent = a
    <3>1. a \in S!Registered /\ S!Rank(a) \in Nat
      BY <1>2, RankTypes DEF Passing
    <3>2. CASE S!Rank(a) <= c.offset
      <4>1. PICK i \in 1..Len(c.listed) : c.listed[i].agent = a
        BY <1>1, <1>2, <2>7, <3>2 DEF Passing, NoneMissed, c
      <4>2. i \in 1..Len(d.listed) /\ d.listed[i] = c.listed[i]
        BY <2>4, <2>5
      <4> QED
        BY <4>1, <4>2
    <3>3. CASE c.offset < S!Rank(a)
      <4>1. PICK i \in 1..Len(page) : page[i].agent = a
        BY <1>3, <2>7, <3>1, <3>3
      <4>2. Len(c.listed) + i \in 1..Len(d.listed) /\ d.listed[Len(c.listed) + i] = page[i]
        BY <2>4, <2>5
      <4> QED
        BY <4>1, <4>2
    <3> QED
      BY <2>3, <3>1, <3>2, <3>3
  <2>8. ListedTruly(d)
    BY <1>2, <2>5, <2>6 DEF Passing, ListedTruly
  <2>9. NoneMissed(d)
    BY <1>1, <2>5, <2>7 DEF NoneMissed, c
  <2>10. Passing(d) /\ d.at = "listing"
    BY <1>1, <1>2, <2>5, <2>8, <2>9 DEF Passing, ReadStands, c
  <2> QED
    BY <1>1, <2>1, <2>10, OnePasses DEF PassInv
<1> QED
  BY <1>4, <1>5

LEMMA SyncLooks ==
    ASSUME SyncInv, NEW s \in Syncers, S!Look(s)
    PROVE  SyncInv'
<1> DEFINE c == sync[s]
           next == Head(c.todo)
           a == next.agent
           has == IF c.row[a] = "unread" THEN asset[a] ELSE c.row[a]
           row == [c.row EXCEPT ![a] = next.status]
           dirty == IF has = next.status THEN c.dirty ELSE c.dirty \cup {a}
           d == [c EXCEPT !.todo = Tail(c.todo), !.row = row, !.dirty = dirty]
<1>1. /\ UNCHANGED <<agents, asset, lastSync>> /\ c.at = "storing" /\ c.todo # <<>>
      /\ sync' = [sync EXCEPT ![s] = d]
  BY DEF S!Look, SyncInv
<1>2. Passing(c) /\ c \in Passes
  BY <1>1 DEF SyncInv, PassInv, Passing
<1> HIDE DEF c
<1>3. /\ next \in Listing /\ Tail(c.todo) \in Seq(Listing) /\ next = c.todo[1]
      /\ Len(c.todo) \in Nat /\ 1 \in 1..Len(c.todo) /\ Len(Tail(c.todo)) = Len(c.todo) - 1
      /\ \A i \in 1..Len(Tail(c.todo)) : Tail(c.todo)[i] = c.todo[i + 1]
  <2>1. c.todo \in Seq(Listing)
    BY <1>2, PassFields
  <2> HIDE DEF Listing
  <2> QED
    BY <1>1, <2>1
<1> HIDE DEF next
<1>4. a \in S!Agents /\ next.status \in S!Statuses /\ next.status # "unread"
  BY <1>3 DEF Listing, S!Statuses
<1>5. /\ row \in [S!Agents -> S!Statuses \cup {"unread"}] /\ dirty \in SUBSET S!Agents
      /\ row[a] = next.status /\ \A b \in S!Agents : b # a => row[b] = c.row[b]
  BY <1>2, <1>4, PassFields
<1>6. c.dirty \subseteq dirty /\ (has # next.status => a \in dirty)
  OBVIOUS
<1> HIDE DEF row, dirty, has, a
<1>7. /\ d \in Passes /\ d.at = c.at /\ d.todo = Tail(c.todo) /\ d.listed = c.listed
      /\ d.row = row /\ d.dirty = dirty /\ d.offset = c.offset
      /\ d.cut = c.cut /\ d.stay = c.stay /\ d.had = c.had /\ d.crossed = c.crossed
  BY <1>2, <1>3, <1>5 DEF Passes
<1> HIDE DEF d
<1>8. next.status \in c.had[a]
  BY <1>2, <1>3 DEF Passing, ListedTruly, a
<1>9. ListedTruly(d)
  <2>1. ASSUME NEW i \in 1..Len(d.todo) PROVE d.todo[i].status \in d.had[d.todo[i].agent]
    <3>1. i + 1 \in 1..Len(c.todo) /\ d.todo[i] = c.todo[i + 1]
      BY <1>3, <1>7
    <3> QED
      BY <1>2, <1>7, <3>1 DEF Passing, ListedTruly
  <2>2. ASSUME NEW b \in S!Agents, row[b] # "unread" PROVE row[b] \in d.had[b]
    BY <1>2, <1>5, <1>7, <1>8, <2>2 DEF Passing, ListedTruly
  <2> QED
    BY <1>2, <1>7, <2>1, <2>2 DEF Passing, ListedTruly
<1>10. NoneMissed(d)
  <2>1. ASSUME ~c.cut, NEW b \in c.stay, row[b] = "unread"
        PROVE  \E i \in 1..Len(d.todo) : d.todo[i].agent = b
    <3>1. b \in S!Agents /\ b # a /\ c.row[b] = "unread"
      BY <1>2, <1>4, <1>5, <2>1, PassFields
    <3>2. PICK i \in 1..Len(c.todo) : c.todo[i].agent = b
      BY <1>1, <1>2, <2>1, <3>1 DEF Passing, NoneMissed, c
    <3>3. i # 1
      BY <1>3, <3>1, <3>2 DEF a
    <3>4. i - 1 \in 1..Len(d.todo) /\ d.todo[i - 1] = c.todo[i]
      BY <1>3, <1>7, <3>3
    <3> QED
      BY <3>2, <3>4
  <2> QED
    BY <1>1, <1>7, <2>1 DEF NoneMissed, c
<1>11. ReadStands(d)
  <2>1. ASSUME ~c.crossed, NEW b \in S!Agents, row[b] # "unread", b \notin dirty PROVE asset[b] = row[b]
    <3>1. CASE b # a
      BY <1>2, <1>5, <1>6, <2>1, <3>1 DEF Passing, ReadStands
    <3>2. CASE b = a
      <4>1. has = next.status /\ a \notin c.dirty
        BY <1>6, <2>1, <3>2
      <4>2. asset[a] = has
        BY <1>2, <1>4, <2>1, <4>1 DEF Passing, ReadStands, has
      <4> QED
        BY <1>5, <3>2, <4>1, <4>2
    <3> QED
      BY <3>1, <3>2
  <2> QED
    BY <1>7, <2>1 DEF ReadStands
<1>12. Passing(d) /\ d.at = "storing"
  BY <1>1, <1>2, <1>7, <1>9, <1>10, <1>11 DEF Passing, c
<1> QED
  BY <1>1, <1>12, OnePasses DEF PassInv

\* A pass that is lost, or whose mark is set.
LEMMA SyncEnds ==
    ASSUME SyncInv, NEW s \in Syncers, S!LookFails(s) \/ S!Abort(s) \/ S!Finish(s)
    PROVE  SyncInv'
<1>1. PassInv(S!Rest)
  BY DEF PassInv, S!Rest
<1>2. CASE S!LookFails(s) \/ S!Abort(s)
  BY <1>1, <1>2, OnePasses DEF S!LookFails, S!Abort
<1>3. CASE S!Finish(s)
  <2>1. /\ sync[s].at = "stored" /\ lastSync' = [set |-> TRUE, by |-> sync[s]]
        /\ sync' = [sync EXCEPT ![s] = S!Rest] /\ UNCHANGED <<agents, asset>>
    BY <1>3 DEF S!Finish
  <2>2. \A t \in Syncers : PassInv(sync'[t])
    BY <1>1, <2>1 DEF SyncInv
  <2>3. \A t \in Syncers : PassInv(sync[t])'
    BY <2>1, <2>2, PassKept
  <2>4. S!Honest(sync[s])
    BY <2>1 DEF SyncInv, PassInv
  <2> QED
    BY <2>1, <2>3, <2>4 DEF SyncInv, S!Honest
<1> QED
  BY <1>2, <1>3

\* What a commit leaves of the passes of the others.
LEMMA SyncCommits ==
    ASSUME SyncInv, NEW s \in Syncers, S!Commit(s)
    PROVE  SyncInv'
<1> DEFINE c == sync[s]
           after == [a \in S!Agents |-> IF a \in c.dirty THEN c.row[a] ELSE asset[a]]
           d == [at |-> "stored", cut |-> c.cut, crossed |-> c.crossed,
                 wrong |-> {a \in c.stay : after[a] \notin c.had[a]}]
<1>1. /\ UNCHANGED <<agents, lastSync>> /\ c.at = "storing" /\ c.todo = <<>>
      /\ sync' = [t \in Syncers |->
           IF t = s THEN d
           ELSE IF sync[t].at \in {"listing", "storing"} THEN [sync[t] EXCEPT !.crossed = TRUE]
           ELSE sync[t]]
  BY DEF S!Commit
<1>2. Passing(c) /\ c \in Passes
  BY <1>1 DEF SyncInv, PassInv, Passing
<1>3. ASSUME ~c.cut, ~c.crossed, NEW a \in c.stay PROVE after[a] \in c.had[a]
  <2>1. a \in S!Agents
    BY <1>2, PassFields
  <2>2. c.row[a] # "unread"
    BY <1>1, <1>2, <1>3 DEF Passing, NoneMissed
  <2>3. c.row[a] \in c.had[a]
    BY <1>2, <2>1, <2>2 DEF Passing, ListedTruly
  <2>4. after[a] = c.row[a]
    BY <1>2, <1>3, <2>1, <2>2 DEF Passing, ReadStands
  <2> QED
    BY <2>3, <2>4
<1>4. S!Honest(d) /\ d.at = "stored"
  <2>1. ~c.cut /\ ~c.crossed => d.wrong = {}
    BY <1>3
  <2> QED
    BY <2>1 DEF S!Honest
<1>5. S!Registered' = S!Registered
  BY <1>1 DEF S!Registered
<1>6. \A a : S!Rank(a)' = S!Rank(a)
  BY <1>5 DEF S!Rank
<1> HIDE DEF d
<1>7. ASSUME NEW t \in Syncers PROVE PassInv(sync[t])'
  <2>1. CASE t = s
    BY <1>1, <1>4, <2>1 DEF PassInv
  <2>2. CASE t # s /\ sync[t].at \notin {"listing", "storing"}
    BY <1>1, <2>2 DEF SyncInv, PassInv
  <2>3. CASE t # s /\ sync[t].at \in {"listing", "storing"}
    <3> DEFINE o == sync[t]
               e == [o EXCEPT !.crossed = TRUE]
    <3>1. sync'[t] = e
      BY <1>1, <2>3
    <3>2. Passing(o) /\ o \in Passes
      BY <2>3 DEF SyncInv, PassInv, Passing
    <3> HIDE DEF o
    <3>3. /\ e \in Passes /\ e.at = o.at /\ e.todo = o.todo /\ e.listed = o.listed
          /\ e.offset = o.offset /\ e.row = o.row /\ e.dirty = o.dirty /\ e.stay = o.stay
          /\ e.had = o.had /\ e.cut = o.cut /\ e.crossed = TRUE
      BY <3>2 DEF Passes
    <3> HIDE DEF e
    <3>4. PICK g : g = e
      OBVIOUS
    <3>5. PICK p : p = o
      OBVIOUS
    <3>6. ListedTruly(p)' /\ NoneMissed(p)'
      <4>1. ListedTruly(p) /\ NoneMissed(p)
        BY <3>2, <3>5 DEF Passing
      <4>2. ListedTruly(p)'
        BY <1>1, <4>1 DEF ListedTruly
      <4>3. NoneMissed(p)'
        BY <1>6, <4>1 DEF NoneMissed
      <4> QED
        BY <4>2, <4>3
    <3>7. ListedTruly(g)' /\ NoneMissed(g)' /\ ReadStands(g)'
      <4>1. /\ g.at = p.at /\ g.todo = p.todo /\ g.listed = p.listed /\ g.offset = p.offset
            /\ g.row = p.row /\ g.stay = p.stay /\ g.had = p.had /\ g.cut = p.cut /\ g.crossed = TRUE
        BY ONLY <3>3, <3>4, <3>5
      <4>2. ListedTruly(g)'
        BY ONLY <3>6, <4>1 DEF ListedTruly
      <4>3. NoneMissed(g)'
        BY ONLY <3>6, <4>1 DEF NoneMissed
      <4>4. ReadStands(g)'
        BY ONLY <4>1 DEF ReadStands
      <4> QED
        BY ONLY <4>2, <4>3, <4>4
    <3>8. Passing(g)'
      BY <1>5, <3>2, <3>3, <3>4, <3>7 DEF Passing
    <3>9. PassInv(g)' /\ sync'[t] = g
      BY <3>1, <3>3, <3>4, <3>8, PassFields DEF PassInv, Passing
    <3> QED
      BY <3>9 DEF PassInv, Passing, ListedTruly, NoneMissed, ReadStands
  <2> QED
    BY <2>1, <2>2, <2>3
<1> QED
  BY <1>1, <1>7 DEF SyncInv

\* Nobody's rank falls while nobody leaves.
LEMMA RanksStay ==
    ASSUME S!Registered \subseteq S!Registered', NEW a \in S!Registered
    PROVE  S!Rank(a) \in Nat /\ S!Rank(a)' \in Nat /\ S!Rank(a) <= S!Rank(a)'
<1> DEFINE U == {b \in S!Registered : b <= a}
           V == {b \in S!Registered' : b <= a}
<1>1. a \in Nat /\ Fleet \in Nat
  BY OutboundAssumption DEF S!AssetAssumption, S!Registered, S!Agents
<1>2. S!Registered' \in SUBSET (1..Fleet) /\ U \in SUBSET V /\ V \in SUBSET S!Registered'
  BY DEF S!Registered, S!Agents
<1>3. IsFiniteSet(1..Fleet)
  BY <1>1, FS_Interval
<1>4. IsFiniteSet(S!Registered')
  BY <1>2, <1>3, FS_Subset
<1>5. IsFiniteSet(V)
  BY <1>2, <1>4, FS_Subset
<1>6. IsFiniteSet(U) /\ Cardinality(U) <= Cardinality(V)
  BY <1>2, <1>5, FS_Subset
<1>7. Cardinality(U) \in Nat /\ Cardinality(V) \in Nat
  BY <1>5, <1>6, FS_CardinalityType
<1>8. S!Rank(a) = Cardinality(U) /\ S!Rank(a)' = Cardinality(V)
  BY FleetCardinality DEF S!Rank
<1> QED
  BY <1>6, <1>7, <1>8

LEMMA SyncChanges ==
    ASSUME SyncInv, NEW a \in S!Agents, NEW status \in Known, S!Change(a, status)
    PROVE  SyncInv'
<1>1. /\ agents' = [agents EXCEPT ![a] = status] /\ UNCHANGED <<asset, lastSync>>
      /\ sync' = [s \in Syncers |->
           IF sync[s].at \notin {"listing", "storing"} THEN sync[s]
           ELSE [sync[s] EXCEPT !.stay = IF status = S!Absent THEN sync[s].stay \ {a} ELSE sync[s].stay,
                                !.had[a] = sync[s].had[a] \cup {status},
                                !.cut = (sync[s].cut \/ status = S!Absent)]]
  BY DEF S!Change
<1>2. agents \in [S!Agents -> Known] /\ agents' \in [S!Agents -> Known]
  BY <1>1 DEF SyncInv
<1>3. /\ status # S!Absent => S!Registered \subseteq S!Registered'
      /\ S!Registered \ {a} \subseteq S!Registered'
  BY <1>1, <1>2 DEF S!Registered
<1>4. ASSUME NEW t \in Syncers PROVE PassInv(sync[t])'
  <2>1. CASE sync[t].at \notin {"listing", "storing"}
    BY <1>1, <2>1 DEF SyncInv, PassInv
  <2>2. CASE sync[t].at \in {"listing", "storing"}
    <3> DEFINE c == sync[t]
               stay == IF status = S!Absent THEN c.stay \ {a} ELSE c.stay
               had == [c.had EXCEPT ![a] = c.had[a] \cup {status}]
               cut == c.cut \/ status = S!Absent
               d == [c EXCEPT !.stay = stay, !.had = had, !.cut = cut]
    <3>1. Passing(c) /\ c \in Passes
      BY <2>2 DEF SyncInv, PassInv, Passing
    <3>2. PICK g : g = d
      OBVIOUS
    <3>3. sync'[t] = g
      BY <1>1, <2>2, <3>2
    <3>4. PICK p : p = c
      OBVIOUS
    <3>5. /\ had \in [S!Agents -> SUBSET Known] /\ stay \in SUBSET S!Agents /\ cut \in BOOLEAN
          /\ \A b \in S!Agents : c.had[b] \subseteq had[b]
          /\ status \in had[a]
      BY <3>1, PassFields
    <3>6. /\ stay \subseteq S!Registered' /\ stay \subseteq c.stay
          /\ ~cut => ~c.cut /\ S!Registered \subseteq S!Registered'
      BY <1>3, <3>1 DEF Passing
    <3> HIDE DEF c, stay, had, cut
    <3>7. /\ g \in Passes /\ g.at = p.at /\ g.todo = p.todo /\ g.listed = p.listed
          /\ g.offset = p.offset /\ g.row = p.row /\ g.dirty = p.dirty /\ g.stay = stay
          /\ g.had = had /\ g.cut = cut /\ g.crossed = p.crossed
      BY <3>1, <3>2, <3>4, <3>5 DEF Passes
    <3> HIDE DEF d
    <3>8. Passing(p) /\ p \in Passes
      BY <3>1, <3>4
    <3>9. ListedTruly(g)'
      <4>1. \A b \in S!Agents : agents'[b] \in had[b]
        BY <1>1, <1>2, <3>4, <3>5, <3>8 DEF Passing, ListedTruly
      <4>2. /\ \A i \in 1..Len(p.listed) : p.listed[i] \in Listing
            /\ \A i \in 1..Len(p.todo) : p.todo[i] \in Listing
        <5> HIDE DEF Listing
        <5> QED
          BY <3>8, PassFields
      <4>3. \A x \in Listing : x.agent \in S!Agents
        BY DEF Listing
      <4>4. /\ \A i \in 1..Len(p.listed) : p.listed[i].status \in had[p.listed[i].agent]
            /\ \A i \in 1..Len(p.todo) : p.todo[i].status \in had[p.todo[i].agent]
            /\ \A b \in S!Agents : p.row[b] # "unread" => p.row[b] \in had[b]
        BY <3>4, <3>5, <3>8, <4>2, <4>3 DEF Passing, ListedTruly
      <4> QED
        BY <3>7, <4>1, <4>4 DEF ListedTruly
    <3>10. NoneMissed(g)'
      <4>1. ASSUME ~cut, NEW b \in stay, p.at = "listing", S!Rank(b)' <= p.offset
            PROVE  \E i \in 1..Len(p.listed) : p.listed[i].agent = b
        <5>1. b \in S!Registered /\ b \in p.stay /\ b \in Nat /\ p.offset \in Nat
          BY <3>4, <3>6, <3>8, PassFields, OutboundAssumption
             DEF Passing, S!AssetAssumption, S!Registered, S!Agents
        <5>2. S!Rank(b) \in Nat /\ S!Rank(b)' \in Nat /\ S!Rank(b) <= S!Rank(b)'
          BY <3>6, <4>1, <5>1, RanksStay
        <5>3. S!Rank(b) <= p.offset
          BY <4>1, <5>1, <5>2
        <5> QED
          BY <3>4, <3>6, <3>8, <4>1, <5>1, <5>3 DEF Passing, NoneMissed
      <4>2. ASSUME ~cut, NEW b \in stay, p.at = "storing"
            PROVE  p.row[b] # "unread" \/ \E i \in 1..Len(p.todo) : p.todo[i].agent = b
        BY <3>4, <3>6, <3>8, <4>2 DEF Passing, NoneMissed
      <4> QED
        BY <3>7, <4>1, <4>2 DEF NoneMissed
    <3>11. ReadStands(g)'
      BY <1>1, <3>7, <3>8 DEF Passing, ReadStands
    <3>12. Passing(g)'
      BY <3>6, <3>7, <3>8, <3>9, <3>10, <3>11 DEF Passing
    <3> QED
      BY <2>2, <3>3, <3>4, <3>7, <3>12 DEF PassInv, Passing, ListedTruly, NoneMissed, ReadStands, c
  <2> QED
    BY <2>1, <2>2
<1> QED
  BY <1>1, <1>2, <1>4 DEF SyncInv

LEMMA SyncInvHolds == S!Spec => []SyncInv
<1>1. S!Init => SyncInv
  BY DEF S!Init, SyncInv, PassInv, S!Rest, Known
<1>2. SyncInv /\ [S!Next]_S!vars => SyncInv'
  <2> SUFFICES ASSUME SyncInv, [S!Next]_S!vars PROVE SyncInv'
    OBVIOUS
  <2>1. ASSUME NEW s \in Syncers,
               \/ S!Start(s) \/ S!Fetch(s) \/ S!FetchFails(s) \/ S!Look(s) \/ S!LookFails(s)
               \/ S!Commit(s) \/ S!Finish(s) \/ S!Abort(s)
        PROVE  SyncInv'
    BY <2>1, SyncStarts, SyncFetches, SyncFetchFails, SyncLooks, SyncEnds, SyncCommits
  <2>2. ASSUME NEW a \in S!Agents, NEW status \in Known, S!Change(a, status) PROVE SyncInv'
    BY <2>2, SyncChanges
  <2>3. CASE UNCHANGED S!vars
    <3>1. UNCHANGED <<agents, asset, sync, lastSync>>
      BY <2>3 DEF S!vars
    <3>2. \A s \in Syncers : PassInv(sync[s])'
      <4>1. \A s \in Syncers : PassInv(sync'[s])
        BY <3>1 DEF SyncInv
      <4> QED
        BY <3>1, <4>1, PassKept
    <3> QED
      BY <3>1, <3>2 DEF SyncInv, S!Honest
  <2> QED
    BY <2>1, <2>2, <2>3 DEF S!Next, Known
<1> QED
  BY <1>1, <1>2, PTL DEF S!Spec

LEMMA InventoryStaysFresh == S!Spec => []S!InventoryIsFresh
<1>1. SyncInv => S!InventoryIsFresh
  BY DEF SyncInv, PassInv, S!InventoryIsFresh
<1> QED
  BY <1>1, SyncInvHolds, PTL

\* A health row explains its cycle, four questions that share a client and a breaker do not
\* disturb each other of themselves, and no gauge is ahead of the rows; a cycle of the asset
\* table that committed has the rows of the agents that stayed as they were at some moment of
\* the cycle, whatever joined or changed between its pages (wazuh_health_worker.py:80-90,
\* 146-188; wazuh_api.py:31-121; asset_sync_worker.py:67-127).
THEOREM SnapshotsStayTrue == H!Spec /\ S!Spec => []SnapshotsTellTruth
BY HealthTellsTruth, InventoryStaysFresh, PTL DEF SnapshotsTellTruth
=============================================================================

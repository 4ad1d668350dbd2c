------------------------ MODULE IncidentStitching_proofs ------------------------
(***************************************************************************)
(* Theorems about IncidentStitching: for any number of consumers, alerts   *)
(* and entities, and entities extracted in any order, the row locks of     *)
(* entities keep two open incidents from being created around one entity.  *)
(***************************************************************************)
EXTENDS IncidentStitching, SequenceTheorems, TLAPS

\* What a session holds depends on its own place, alert and progress only.
LEMMA HeldFrame ==
    ASSUME NEW d \in Consumers, pc'[d] = pc[d], work'[d] = work[d], n'[d] = n[d]
    PROVE  Held(d)' = Held(d)
BY DEF Held, InTransaction

\* A step inside the transaction that touches no entity keeps what is held.
LEMMA HeldSame ==
    ASSUME NEW c \in Consumers, InTransaction(c), InTransaction(c)', work'[c] = work[c], n'[c] = n[c]
    PROVE  Held(c)' = Held(c)
BY DEF Held

\* The next entity is the only one that a touch adds.
LEMMA HeldGrows ==
    ASSUME NEW c \in Consumers, n[c] \in Nat, InTransaction(c), InTransaction(c)',
           work'[c] = work[c], n'[c] = n[c] + 1
    PROVE  Held(c)' = Held(c) \union {NextEntity(c)}
<1>1. 1 .. n[c] + 1 = (1 .. n[c]) \union {n[c] + 1}
  OBVIOUS
<1> QED
  BY <1>1 DEF Held, NextEntity

\* What is held is entities of the alert.
LEMMA HeldType ==
    ASSUME TypeOK, SessionShape, NEW c \in Consumers PROVE Held(c) \subseteq Entities
<1> USE StitchAssumption
<1>1. CASE ~InTransaction(c)
  BY <1>1 DEF Held
<1>2. CASE InTransaction(c)
  <2>1. pc[c] \in {"select", "touch", "find", "join", "attached"} /\ work[c] \in Alerts
    BY <1>2 DEF InTransaction, TypeOK, Places, SessionShape
  <2>2. n[c] \in Nat /\ n[c] <= Len(EntitiesOf[work[c]]) /\ EntitiesOf[work[c]] \in Seq(Entities)
    BY <2>1 DEF TypeOK, SessionShape
  <2>3. ASSUME NEW k \in 1 .. n[c] PROVE EntitiesOf[work[c]][k] \in Entities
    BY <2>2, ElementOfSeq
  <2> QED
    BY <2>3, <1>2 DEF Held
<1> QED
  BY <1>1, <1>2

\* The end of a session, by failure, crash or completion, keeps the invariant.
LEMMA CloseStep ==
    ASSUME StitchInv, NEW c \in Consumers, Close(c), UNCHANGED <<tables, deliveries, history>>,
           due' \subseteq Alerts
    PROVE  StitchInv'
<1> USE DEF tables, history
<1>0. TypeOK /\ LocksExclusive /\ SessionShape /\ FreshAlone /\ OneCreator
      /\ UnmadeUnlinked
  BY DEF StitchInv
<1>1. TypeOK'
  BY <1>0 DEF Close, TypeOK, Places
<1>2. pc'[c] = "idle" /\ n'[c] = 0
  BY <1>0 DEF Close, TypeOK
<1>3. \A d \in Consumers \ {c} :
         pc'[d] = pc[d] /\ work'[d] = work[d] /\ n'[d] = n[d] /\ mine'[d] = mine[d]
  BY <1>0 DEF Close, TypeOK
<1>4. Held(c)' = {}
  BY <1>2 DEF Held, InTransaction
<1>5. \A d \in Consumers \ {c} : Held(d)' = Held(d)
  BY <1>3, HeldFrame
<1>6. LocksExclusive'
  BY <1>0, <1>4, <1>5 DEF LocksExclusive
<1>7. SessionShape'
  BY <1>0, <1>2, <1>3 DEF SessionShape
<1>8. FreshAlone'
  BY <1>0, <1>2, <1>3, <1>5 DEF FreshAlone, Fresh
<1>9. OneCreator'
  BY <1>0, <1>2, <1>3 DEF OneCreator, Fresh
<1>10. UnmadeUnlinked'
  BY <1>0 DEF UnmadeUnlinked
<1> QED
  BY <1>1, <1>6, <1>7, <1>8, <1>9, <1>10 DEF StitchInv

\* The commit of an attachment keeps the invariant: what it links, it held.
LEMMA AttachStep ==
    ASSUME StitchInv, NEW c \in Consumers, pc[c] = "attached", Attach(c), TypeOK',
           pc'[c] \in {"idle", "committed"}, pc'[c] = "idle" => n'[c] = 0,
           pc'[c] = "committed" => work'[c] = work[c] /\ mine'[c] = mine[c],
           \A d \in Consumers \ {c} :
              pc'[d] = pc[d] /\ work'[d] = work[d] /\ n'[d] = n[d] /\ mine'[d] = mine[d]
    PROVE  StitchInv'
<1>0. TypeOK /\ LocksExclusive /\ SessionShape /\ FreshAlone /\ OneCreator
      /\ UnmadeUnlinked
  BY DEF StitchInv
<1>1. mine[c] \in Incidents /\ work[c] \in Alerts
  BY <1>0 DEF SessionShape
<1>2. /\ made' = made \union {mine[c]} /\ aged' = aged
      /\ links'[mine[c]] = links[mine[c]] \union Held(c)
      /\ \A j \in Incidents \ {mine[c]} : links'[j] = links[j]
  BY <1>0, <1>1 DEF Attach, TypeOK
<1>3. Held(c)' = {}
  BY DEF Held, InTransaction
<1>4. \A d \in Consumers \ {c} : Held(d)' = Held(d)
  BY HeldFrame
<1>5. LocksExclusive'
  BY <1>0, <1>3, <1>4 DEF LocksExclusive
<1>6. SessionShape'
  BY <1>0, <1>1, <1>2 DEF SessionShape
<1>7. FreshAlone'
  <2> SUFFICES ASSUME NEW d \in Consumers, Fresh(d)', NEW j \in made' \ aged'
               PROVE  links'[j] \intersect Held(d)' = {}
    BY DEF FreshAlone
  <2>1. d # c /\ Fresh(d) /\ Held(d)' = Held(d)
    BY <1>2, <1>4 DEF Fresh
  <2>2. Held(c) \intersect Held(d) = {} /\ mine[d] # mine[c]
    BY <1>0, <1>2, <2>1 DEF LocksExclusive, Fresh
  <2>3. CASE j \in made
    BY <1>0, <1>2, <2>1, <2>2, <2>3 DEF FreshAlone, TypeOK
  <2>4. CASE j \notin made
    <3>1. j = mine[c] /\ Fresh(c)
      BY <1>2, <2>4 DEF Fresh
    <3>2. links[j] = {}
      BY <1>0, <1>1, <3>1 DEF UnmadeUnlinked, Fresh
    <3> QED
      BY <1>2, <2>1, <2>2, <3>1, <3>2
  <2> QED
    BY <2>3, <2>4
<1>8. OneCreator'
  BY <1>0, <1>2 DEF OneCreator, Fresh
<1>9. UnmadeUnlinked'
  BY <1>0, <1>2 DEF UnmadeUnlinked
<1> QED
  BY <1>5, <1>6, <1>7, <1>8, <1>9 DEF StitchInv

\* A rollback ends the session, and the alert may come back.
LEMMA RollBackStep ==
    ASSUME StitchInv, NEW c \in Consumers, pc[c] # "idle", RollBack(c) PROVE StitchInv'
<1>1. work[c] \in Alerts /\ due \subseteq Alerts
  BY DEF StitchInv, SessionShape, TypeOK
<1>2. due' \subseteq Alerts
  BY <1>1 DEF RollBack, Redeliver
<1> QED
  BY <1>2, CloseStep DEF RollBack

\* A step of one session that ends nothing and commits nothing keeps the others' shape.
LEMMA LocalStep ==
    ASSUME StitchInv, NEW c \in Consumers, UNCHANGED <<tables, history>>, TypeOK',
           \A d \in Consumers \ {c} :
              pc'[d] = pc[d] /\ work'[d] = work[d] /\ n'[d] = n[d] /\ mine'[d] = mine[d],
           \A d \in Consumers \ {c} : Held(c)' \intersect Held(d) = {},
           Fresh(c)' => /\ \A j \in made \ aged : links[j] \intersect Held(c)' = {}
                        /\ \A d \in Consumers \ {c} : mine'[c] # mine[d],
           /\ pc'[c] # "idle" /\ work'[c] \in Alerts
           /\ pc'[c] \in {"select", "touch"} => n'[c] < Len(EntitiesOf[work'[c]])
           /\ pc'[c] \in {"find", "join", "attached"} => n'[c] = Len(EntitiesOf[work'[c]])
           /\ pc'[c] \in {"join", "attached", "committed"} => mine'[c] \in Incidents
           /\ pc'[c] \in {"join", "committed"} => mine'[c] \in made
    PROVE  StitchInv'
<1> USE DEF tables, history
<1>0. TypeOK /\ LocksExclusive /\ SessionShape /\ FreshAlone /\ OneCreator /\ UnmadeUnlinked
  BY DEF StitchInv
<1>1. \A d \in Consumers \ {c} : Held(d)' = Held(d) /\ (Fresh(d)' <=> Fresh(d))
  BY HeldFrame DEF Fresh
<1>2. LocksExclusive'
  BY <1>0, <1>1 DEF LocksExclusive
<1>3. SessionShape'
  BY <1>0 DEF SessionShape
<1>4. FreshAlone'
  BY <1>0, <1>1 DEF FreshAlone
<1>5. OneCreator'
  BY <1>0, <1>1 DEF OneCreator
<1>6. UnmadeUnlinked'
  BY <1>0 DEF UnmadeUnlinked
<1> QED
  BY <1>2, <1>3, <1>4, <1>5, <1>6 DEF StitchInv

\* Every step keeps the invariant.
LEMMA StitchStep == ASSUME StitchInv, [Next]_vars PROVE StitchInv'
<1> USE StitchAssumption DEF tables, session, history
<1>0. TypeOK /\ LocksExclusive /\ SessionShape /\ FreshAlone /\ OneCreator /\ UnmadeUnlinked
  BY DEF StitchInv
<1>1. ASSUME NEW c \in Consumers, NEW a \in Alerts, Take(c, a) PROVE StitchInv'
  <2>1. TypeOK'
    BY <1>0, <1>1 DEF Take, TypeOK, Places
  <2>2. n[c] = 0 /\ n'[c] = 0 /\ work'[c] = a /\ mine'[c] = mine[c]
    BY <1>0, <1>1 DEF Take, SessionShape, TypeOK
  <2>3. Held(c)' = {}
    BY <2>2 DEF Held
  <2>4. pc'[c] = IF EntitiesOf[a] = <<>> THEN "find" ELSE "select"
    BY <1>0, <1>1 DEF Take, TypeOK
  <2>5. EntitiesOf[a] \in Seq(Entities) /\ (EntitiesOf[a] # <<>> => 0 < Len(EntitiesOf[a]))
    BY EmptySeq, LenProperties
  <2>6. /\ pc'[c] = "select" => 0 < Len(EntitiesOf[a])
        /\ pc'[c] = "find" => Len(EntitiesOf[a]) = 0
    BY <2>4, <2>5
  <2>7. \A d \in Consumers \ {c} :
          pc'[d] = pc[d] /\ work'[d] = work[d] /\ n'[d] = n[d] /\ mine'[d] = mine[d]
    BY <1>0, <1>1 DEF Take, TypeOK
  <2>8. pc'[c] \in {"select", "find"} /\ work'[c] \in Alerts /\ ~Fresh(c)'
    BY <2>2, <2>4 DEF Fresh
  <2>9. UNCHANGED <<tables, history>>
    BY <1>1 DEF Take
  <2> QED
    BY <2>1, <2>2, <2>3, <2>6, <2>7, <2>8, <2>9, LocalStep
<1>2. ASSUME NEW c \in Consumers, SelectEntity(c) PROVE StitchInv'
  <2>1. TypeOK'
    BY <1>0, <1>2 DEF SelectEntity, TypeOK, Places
  <2>2. pc'[c] = "touch" /\ Held(c)' = Held(c)
    <3>1. pc'[c] = "touch" /\ work'[c] = work[c] /\ n'[c] = n[c]
      BY <1>0, <1>2 DEF SelectEntity, TypeOK
    <3>2. InTransaction(c) /\ InTransaction(c)'
      BY <1>2, <3>1 DEF SelectEntity, InTransaction
    <3> QED
      BY <3>1, <3>2, HeldSame
  <2>3. \A d \in Consumers \ {c} :
          pc'[d] = pc[d] /\ work'[d] = work[d] /\ n'[d] = n[d] /\ mine'[d] = mine[d]
    BY <1>0, <1>2 DEF SelectEntity, TypeOK
  <2>4. /\ work'[c] = work[c] /\ n'[c] = n[c] /\ work[c] \in Alerts
        /\ n[c] < Len(EntitiesOf[work[c]]) /\ ~Fresh(c)'
    BY <1>0, <1>2, <2>2 DEF SelectEntity, SessionShape, Fresh
  <2>5. \A d \in Consumers \ {c} : Held(c)' \intersect Held(d) = {}
    BY <1>0, <2>2 DEF LocksExclusive
  <2>6. UNCHANGED <<tables, history>>
    BY <1>2 DEF SelectEntity
  <2> QED
    BY <2>1, <2>2, <2>3, <2>4, <2>5, <2>6, LocalStep
<1>3. ASSUME NEW c \in Consumers, TouchEntity(c) PROVE StitchInv'
  <2>1. TypeOK'
    BY <1>0, <1>3 DEF TouchEntity, TypeOK, Places
  <2>2. /\ n'[c] = n[c] + 1 /\ n[c] \in Nat /\ work'[c] = work[c] /\ work[c] \in Alerts
        /\ n[c] < Len(EntitiesOf[work[c]]) /\ Len(EntitiesOf[work[c]]) \in Nat
        /\ pc'[c] = IF n[c] + 1 = Len(EntitiesOf[work[c]]) THEN "find" ELSE "select"
    BY <1>0, <1>3, LenProperties DEF TouchEntity, TypeOK, SessionShape
  <2>3. InTransaction(c) /\ InTransaction(c)'
    BY <1>3, <2>2 DEF TouchEntity, InTransaction
  <2>4. Held(c)' = Held(c) \union {NextEntity(c)}
    BY <2>2, <2>3, HeldGrows
  <2>5. \A d \in Consumers \ {c} : Held(c)' \intersect Held(d) = {}
    BY <1>0, <1>3, <2>4 DEF TouchEntity, Unlocked, LocksExclusive
  <2>6. /\ pc'[c] = "select" => n'[c] < Len(EntitiesOf[work'[c]])
        /\ pc'[c] = "find" => n'[c] = Len(EntitiesOf[work'[c]])
    BY <2>2
  <2>7. \A d \in Consumers \ {c} :
          pc'[d] = pc[d] /\ work'[d] = work[d] /\ n'[d] = n[d] /\ mine'[d] = mine[d]
    BY <1>0, <1>3 DEF TouchEntity, TypeOK
  <2>8. pc'[c] \in {"select", "find"} /\ work'[c] \in Alerts /\ ~Fresh(c)'
    BY <2>2 DEF Fresh
  <2>9. UNCHANGED <<tables, history>>
    BY <1>3 DEF TouchEntity
  <2> QED
    BY <2>1, <2>5, <2>6, <2>7, <2>8, <2>9, LocalStep
<1>4. ASSUME NEW c \in Consumers, NEW i \in Incidents, FindIncident(c, i) PROVE StitchInv'
  <2>1. TypeOK'
    BY <1>0, <1>4 DEF FindIncident, TypeOK, Places
  <2>2. pc'[c] = "join" /\ Held(c)' = Held(c) /\ mine'[c] = i /\ i \in made
    <3>1. /\ pc'[c] = "join" /\ work'[c] = work[c] /\ n'[c] = n[c]
          /\ mine'[c] = i /\ i \in made
      BY <1>0, <1>4 DEF FindIncident, Candidates, TypeOK
    <3>2. InTransaction(c) /\ InTransaction(c)'
      BY <1>4, <3>1 DEF FindIncident, InTransaction
    <3> QED
      BY <3>1, <3>2, HeldSame
  <2>3. \A d \in Consumers \ {c} :
          pc'[d] = pc[d] /\ work'[d] = work[d] /\ n'[d] = n[d] /\ mine'[d] = mine[d]
    BY <1>0, <1>4 DEF FindIncident, TypeOK
  <2>4. /\ work'[c] = work[c] /\ n'[c] = n[c] /\ work[c] \in Alerts
        /\ n[c] = Len(EntitiesOf[work[c]]) /\ ~Fresh(c)'
    BY <1>0, <1>4, <2>2 DEF FindIncident, SessionShape, Fresh
  <2>5. \A d \in Consumers \ {c} : Held(c)' \intersect Held(d) = {}
    BY <1>0, <2>2 DEF LocksExclusive
  <2>6. UNCHANGED <<tables, history>>
    BY <1>4 DEF FindIncident
  <2> QED
    BY <2>1, <2>2, <2>3, <2>4, <2>5, <2>6, LocalStep
<1>5. ASSUME NEW c \in Consumers, JoinIncident(c) PROVE StitchInv'
  <2>1. TypeOK'
    BY <1>0, <1>5 DEF JoinIncident, TypeOK, Places
  <2>2. pc'[c] = "attached" /\ Held(c)' = Held(c) /\ mine'[c] = mine[c] /\ mine[c] \in made
    <3>1. /\ pc'[c] = "attached" /\ work'[c] = work[c] /\ n'[c] = n[c]
          /\ mine'[c] = mine[c] /\ mine[c] \in made
      BY <1>0, <1>5 DEF JoinIncident, TypeOK, SessionShape
    <3>2. InTransaction(c) /\ InTransaction(c)'
      BY <1>5, <3>1 DEF JoinIncident, InTransaction
    <3> QED
      BY <3>1, <3>2, HeldSame
  <2>3. ~Fresh(c)'
    BY <1>5, <2>2 DEF Fresh, JoinIncident
  <2>4. \A d \in Consumers \ {c} :
          pc'[d] = pc[d] /\ work'[d] = work[d] /\ n'[d] = n[d] /\ mine'[d] = mine[d]
    BY <1>0, <1>5 DEF JoinIncident, TypeOK
  <2>5. /\ work'[c] = work[c] /\ n'[c] = n[c] /\ work[c] \in Alerts
        /\ n[c] = Len(EntitiesOf[work[c]]) /\ mine[c] \in Incidents
    BY <1>0, <1>5 DEF JoinIncident, SessionShape
  <2>6. \A d \in Consumers \ {c} : Held(c)' \intersect Held(d) = {}
    BY <1>0, <2>2 DEF LocksExclusive
  <2>7. UNCHANGED <<tables, history>>
    BY <1>5 DEF JoinIncident
  <2> QED
    BY <2>1, <2>2, <2>3, <2>4, <2>5, <2>6, <2>7, LocalStep
<1>6. ASSUME NEW c \in Consumers, CreateIncident(c) PROVE StitchInv'
  <2> DEFINE fresh == CHOOSE i \in Incidents : Unused(i)
  <2>0. fresh \in Incidents /\ Unused(fresh)
    BY <1>6 DEF CreateIncident
  <2>1. mine'[c] = fresh /\ pc'[c] = "attached" /\ Held(c)' = Held(c)
    <3>1. mine'[c] = fresh /\ pc'[c] = "attached"
      BY <1>0, <1>6 DEF CreateIncident, TypeOK
    <3>2. pc[c] = "find" /\ work'[c] = work[c] /\ n'[c] = n[c]
      BY <1>6 DEF CreateIncident
    <3>3. InTransaction(c) /\ InTransaction(c)'
      BY <3>1, <3>2 DEF InTransaction
    <3> QED
      BY <3>1, <3>2, <3>3, HeldSame
  <2>2. TypeOK'
    <3>1. mine' = [mine EXCEPT ![c] = fresh] /\ UNCHANGED <<tables, due, deliveries, work, n, sees, newRisk, history>>
      BY <1>6 DEF CreateIncident
    <3>2. newCount' = [newCount EXCEPT ![c] = 1] /\ pc' = [pc EXCEPT ![c] = "attached"]
      BY <1>6 DEF CreateIncident
    <3> HIDE DEF fresh
    <3>3. mine' \in [Consumers -> Incidents \union {None}]
      BY <1>0, <2>0, <3>1 DEF TypeOK
    <3>4. newCount' \in [Consumers -> Nat] /\ pc' \in [Consumers -> Places]
      BY <1>0, <3>2 DEF TypeOK, Places
    <3> QED
      BY <1>0, <3>1, <3>3, <3>4 DEF TypeOK
  <2>3. \A j \in made \ aged : links[j] \intersect Held(c)' = {}
    BY <1>0, <1>6, <2>1 DEF CreateIncident, Candidates, TypeOK
  <2>4. \A d \in Consumers \ {c} : mine'[c] # mine[d]
    BY <2>0, <2>1 DEF Unused
  <2>5. \A d \in Consumers \ {c} :
          pc'[d] = pc[d] /\ work'[d] = work[d] /\ n'[d] = n[d] /\ mine'[d] = mine[d]
    BY <1>0, <1>6 DEF CreateIncident, TypeOK
  <2>6. /\ work'[c] = work[c] /\ n'[c] = n[c] /\ work[c] \in Alerts
        /\ n[c] = Len(EntitiesOf[work[c]])
    BY <1>0, <1>6 DEF CreateIncident, SessionShape
  <2>7. \A d \in Consumers \ {c} : Held(c)' \intersect Held(d) = {}
    BY <1>0, <2>1 DEF LocksExclusive
  <2>8. UNCHANGED <<tables, history>>
    BY <1>6 DEF CreateIncident
  <2>9. mine'[c] \in Incidents /\ pc'[c] = "attached"
    BY <2>0, <2>1
  <2> HIDE DEF fresh
  <2>10. Fresh(c)' => /\ \A j \in made \ aged : links[j] \intersect Held(c)' = {}
                      /\ \A d \in Consumers \ {c} : mine'[c] # mine[d]
    BY <2>3, <2>4
  <2> QED
    BY <2>2, <2>5, <2>6, <2>7, <2>8, <2>9, <2>10, LocalStep
<1>7. ASSUME NEW c \in Consumers, Suppress(c) \/ GateCommit(c) PROVE StitchInv'
  <2>1. mine[c] \in Incidents /\ work[c] \in Alerts
    BY <1>0, <1>7 DEF SessionShape, Suppress, GateCommit
  <2>2. Held(c) \subseteq Entities
    BY <1>0, HeldType
  <2>3. TypeOK'
    <3>0. /\ Attach(c) /\ Close(c) /\ (due' = due \/ Redeliver(c))
          /\ risk' = risk /\ deliveries' = deliveries /\ owed' = owed
      BY <1>7 DEF Suppress, GateCommit
    <3>1. /\ entities' \subseteq Entities /\ made' \subseteq Incidents /\ aged' \subseteq made'
          /\ links' \in [Incidents -> SUBSET Entities]
      BY <1>0, <2>1, <2>2, <3>0 DEF Attach, TypeOK
    <3>2. /\ count' \in [Incidents -> Nat] /\ attached' \in [Incidents -> Nat]
          /\ members' \in [Incidents -> SUBSET Alerts]
      BY <1>0, <2>1, <3>0 DEF Attach, TypeOK
    <3>3. risk' \in [Incidents -> Nat] /\ owed' \in [Incidents -> Nat]
      BY <1>0, <3>0 DEF TypeOK
    <3>4. /\ due' \subseteq Alerts /\ deliveries' \in [Alerts -> Nat]
          /\ pc' \in [Consumers -> Places] /\ work' \in [Consumers -> Alerts \union {None}]
          /\ n' \in [Consumers -> Nat] /\ sees' \in [Consumers -> BOOLEAN]
          /\ mine' \in [Consumers -> Incidents \union {None}]
          /\ newCount' \in [Consumers -> Nat] /\ newRisk' \in [Consumers -> Nat]
      BY <1>0, <2>1, <3>0 DEF Redeliver, Close, TypeOK, Places
    <3> QED
      BY <3>1, <3>2, <3>3, <3>4 DEF TypeOK
  <2> QED
    BY <1>0, <1>7, <2>3, AttachStep DEF Suppress, GateCommit, Close, TypeOK
<1>8. ASSUME NEW c \in Consumers, CommitVerdict(c) PROVE StitchInv'
  <2>1. mine[c] \in Incidents /\ work[c] \in Alerts
    BY <1>0, <1>8 DEF SessionShape, CommitVerdict
  <2>2. Held(c) \subseteq Entities
    BY <1>0, HeldType
  <2>3. TypeOK'
    <3>1. /\ entities' \subseteq Entities /\ made' \subseteq Incidents /\ aged' \subseteq made'
          /\ links' \in [Incidents -> SUBSET Entities]
      BY <1>0, <1>8, <2>1, <2>2 DEF CommitVerdict, Attach, TypeOK
    <3>2. /\ count' \in [Incidents -> Nat] /\ attached' \in [Incidents -> Nat]
          /\ members' \in [Incidents -> SUBSET Alerts]
      BY <1>0, <1>8, <2>1 DEF CommitVerdict, Attach, TypeOK
    <3>3. risk' \in [Incidents -> Nat] /\ owed' \in [Incidents -> Nat]
      BY <1>0, <1>8, <2>1 DEF CommitVerdict, RiskWithAlert, TypeOK
    <3>4. /\ due' \subseteq Alerts /\ deliveries' \in [Alerts -> Nat]
          /\ pc' \in [Consumers -> Places] /\ work' \in [Consumers -> Alerts \union {None}]
          /\ n' \in [Consumers -> Nat] /\ sees' \in [Consumers -> BOOLEAN]
          /\ mine' \in [Consumers -> Incidents \union {None}]
          /\ newCount' \in [Consumers -> Nat] /\ newRisk' \in [Consumers -> Nat]
      BY <1>0, <1>8 DEF CommitVerdict, TypeOK, Places
    <3> QED
      BY <3>1, <3>2, <3>3, <3>4 DEF TypeOK
  <2> QED
    BY <1>0, <1>8, <2>3, AttachStep DEF CommitVerdict, TypeOK
<1>9. ASSUME NEW c \in Consumers,
             DuplicateEntity(c) \/ AutoCaseFails(c) \/ Fails(c)
      PROVE  StitchInv'
  BY <1>9, RollBackStep DEF DuplicateEntity, AutoCaseFails, Fails, InTransaction
<1>10. ASSUME NEW c \in Consumers, DeadlockAbort(c) PROVE StitchInv'
  <2>1. pc[c] # "idle"
    BY <1>10 DEF DeadlockAbort, WaitsFor
  <2> QED
    BY <1>10, <2>1, RollBackStep DEF DeadlockAbort
<1>11. ASSUME NEW c \in Consumers, GateReturn(c) \/ Finish(c) \/ Crash(c) PROVE StitchInv'
  BY <1>0, <1>11, CloseStep DEF GateReturn, Finish, Crash, TypeOK
<1>12. ASSUME NEW c \in Consumers, FinishFails(c) PROVE StitchInv'
  <2>1. due' \subseteq Alerts
    BY <1>0, <1>12 DEF FinishFails, Redeliver, SessionShape, TypeOK
  <2> QED
    BY <1>12, <2>1, CloseStep DEF FinishFails
<1>13. ASSUME NEW i \in Incidents, Age(i) PROVE StitchInv'
  <2>1. \A d \in Consumers : Held(d)' = Held(d) /\ (Fresh(d)' <=> Fresh(d))
    BY <1>13, HeldFrame DEF Age, Fresh
  <2>2. TypeOK' /\ SessionShape' /\ UnmadeUnlinked'
    BY <1>0, <1>13 DEF Age, TypeOK, SessionShape, UnmadeUnlinked
  <2>3. LocksExclusive' /\ FreshAlone' /\ OneCreator'
    BY <1>0, <1>13, <2>1 DEF Age, LocksExclusive, FreshAlone, OneCreator
  <2> QED
    BY <2>2, <2>3 DEF StitchInv
<1>14. CASE UNCHANGED vars
  <2>1. \A d \in Consumers : Held(d)' = Held(d) /\ (Fresh(d)' <=> Fresh(d))
    BY <1>14, HeldFrame DEF vars, Fresh
  <2>2. TypeOK' /\ SessionShape' /\ UnmadeUnlinked'
    BY <1>0, <1>14 DEF vars, TypeOK, SessionShape, UnmadeUnlinked
  <2>3. LocksExclusive' /\ FreshAlone' /\ OneCreator'
    BY <1>0, <1>14, <2>1 DEF vars, LocksExclusive, FreshAlone, OneCreator
  <2> QED
    BY <2>2, <2>3 DEF StitchInv
<1> QED
  BY <1>1, <1>2, <1>3, <1>4, <1>5, <1>6, <1>7, <1>8, <1>9, <1>10, <1>11, <1>12, <1>13, <1>14 DEF Next

\* The invariant that the row locks give, for every number of consumers.
THEOREM StitchInvariant == Spec => []StitchInv
<1>1. Init => StitchInv
  BY DEF Init, StitchInv, TypeOK, LocksExclusive, SessionShape, FreshAlone, OneCreator,
         UnmadeUnlinked, Held, Fresh, InTransaction, Places
<1>2. StitchInv /\ [Next]_vars => StitchInv'
  BY StitchStep
<1> QED
  BY <1>1, <1>2, PTL DEF Spec

\* The incident that a step creates shares no entity with another open one in the
\* look-back window, for every number of consumers (stitch_incident).
THEOREM FreshIncidentsAreAlone == Spec => FreshIncidentIsAlone
<1>1. ASSUME StitchInv, [Next]_vars, NEW i \in made' \ made, NEW j \in (made' \ aged') \ {i}
      PROVE  links'[i] \intersect links'[j] = {}
  <2>0. TypeOK /\ SessionShape /\ FreshAlone /\ UnmadeUnlinked
    BY <1>1 DEF StitchInv
  <2>1. PICK c \in Consumers : pc[c] = "attached" /\ Attach(c)
    BY <1>1 DEF Next, vars, tables, Take, SelectEntity, TouchEntity, DuplicateEntity, FindIncident,
           JoinIncident, CreateIncident, Suppress, GateCommit, GateReturn, CommitVerdict, AutoCaseFails,
           Finish, FinishFails, Fails, Crash, DeadlockAbort, RollBack, Age
  <2>2. i = mine[c] /\ i \in Incidents /\ Fresh(c) /\ j \in made \ aged
    BY <1>1, <2>0, <2>1 DEF Attach, SessionShape, Fresh
  <2>3. links'[i] = Held(c) /\ links'[j] = links[j]
    BY <2>0, <2>1, <2>2 DEF Attach, UnmadeUnlinked, TypeOK
  <2> QED
    BY <2>0, <2>2, <2>3 DEF FreshAlone
<1>2. StitchInv /\ [Next]_vars =>
        [\A i \in made' \ made : \A j \in (made' \ aged') \ {i} : links'[i] \intersect links'[j] = {}]_vars
  BY <1>1
<1> QED
  BY <1>2, StitchInvariant, PTL DEF Spec, FreshIncidentIsAlone
-------------------------------------------------------------------------------
(* Counters.                                                               *)

\* A step that ends a session and writes no table keeps what was earned.
LEMMA CloseEarned ==
    ASSUME StitchInv, EarnedInv, NEW c \in Consumers, Close(c), UNCHANGED <<tables, history>>
    PROVE  EarnedInv'
<1> USE DEF tables, history
<1>1. pc'[c] = "idle" /\ newRisk'[c] = 0
  BY DEF Close, StitchInv, TypeOK
<1>2. \A d \in Consumers \ {c} : /\ pc'[d] = pc[d] /\ mine'[d] = mine[d]
                                 /\ newCount'[d] = newCount[d] /\ newRisk'[d] = newRisk[d]
  BY DEF Close, StitchInv, TypeOK
<1> QED
  BY <1>1, <1>2 DEF EarnedInv, SuppressionIsEarned

\* A commit counts one attachment, and writes at most one more than it read.
LEMMA AttachEarned ==
    ASSUME StitchInv, EarnedInv, NEW c \in Consumers, pc[c] = "attached", Attach(c),
           NEW r \in Nat, owed' = [owed EXCEPT ![mine[c]] = @ + r],
           \/ risk' = risk
           \/ risk' = [risk EXCEPT ![mine[c]] = newRisk[c] + r],
           pc'[c] \in {"idle", "committed"}, pc'[c] = "idle" => newRisk'[c] = 0,
           \A d \in Consumers \ {c} : /\ pc'[d] = pc[d] /\ mine'[d] = mine[d]
                                      /\ newCount'[d] = newCount[d] /\ newRisk'[d] = newRisk[d]
    PROVE  EarnedInv'
<1>0. TypeOK /\ SessionShape /\ SuppressionIsEarned
  BY DEF StitchInv, EarnedInv
<1> DEFINE i == mine[c]
<1>1. i \in Incidents /\ newCount[c] <= attached[i] + 1 /\ newRisk[c] <= owed[i]
  BY <1>0 DEF SessionShape, SuppressionIsEarned
<1>2. /\ count'[i] = newCount[c] /\ attached'[i] = attached[i] + 1 /\ owed'[i] = owed[i] + r
      /\ risk'[i] \in {risk[i], newRisk[c] + r}
      /\ \A j \in Incidents \ {i} : /\ count'[j] = count[j] /\ attached'[j] = attached[j]
                                    /\ owed'[j] = owed[j] /\ risk'[j] = risk[j]
  BY <1>0, <1>1 DEF Attach, TypeOK
<1>3. /\ \A j \in Incidents : /\ count[j] \in Nat /\ attached[j] \in Nat /\ owed[j] \in Nat
                              /\ risk[j] \in Nat
      /\ \A d \in Consumers : newCount[d] \in Nat /\ newRisk[d] \in Nat
  BY <1>0 DEF TypeOK
<1> HIDE DEF i
<1>4. \A j \in Incidents : count'[j] <= attached'[j] /\ risk'[j] <= owed'[j]
  BY <1>0, <1>1, <1>2, <1>3 DEF SuppressionIsEarned
<1>5. ASSUME NEW d \in Consumers, pc'[d] \in {"join", "attached"}
      PROVE  newCount'[d] <= attached'[mine'[d]] + 1 /\ newRisk'[d] <= owed'[mine'[d]]
  <2>1. d # c /\ mine[d] \in Incidents /\ newCount[d] <= attached[mine[d]] + 1
        /\ newRisk[d] <= owed[mine[d]]
    BY <1>0, <1>5 DEF SessionShape, SuppressionIsEarned
  <2>2. attached[mine[d]] <= attached'[mine[d]] /\ attached'[mine[d]] \in Nat
        /\ owed[mine[d]] <= owed'[mine[d]] /\ owed'[mine[d]] \in Nat
    BY <1>1, <1>2, <1>3, <2>1
  <2> QED
    BY <1>3, <2>1, <2>2
<1>6. \A d \in Consumers : pc'[d] \in {"idle", "select", "touch", "find"} => newRisk'[d] = 0
  BY DEF EarnedInv
<1> QED
  BY <1>4, <1>5, <1>6 DEF EarnedInv, SuppressionIsEarned

\* Every step keeps what was earned.
LEMMA EarnedStep == ASSUME StitchInv, EarnedInv, [Next]_vars PROVE EarnedInv'
<1> USE StitchAssumption DEF tables, session, history
<1>0. TypeOK /\ SessionShape
  BY DEF StitchInv
<1>1. ASSUME NEW c \in Consumers,
             \/ \E a \in Alerts : Take(c, a)
             \/ SelectEntity(c) \/ TouchEntity(c) \/ JoinIncident(c)
      PROVE  EarnedInv'
  <2>1. /\ UNCHANGED <<tables, history, mine, newCount, newRisk>>
        /\ \A d \in Consumers \ {c} : pc'[d] = pc[d]
    BY <1>0, <1>1 DEF Take, SelectEntity, TouchEntity, JoinIncident, TypeOK
  <2>2. \/ pc[c] = "join"
        \/ pc[c] \in {"idle", "select", "touch", "find"} /\ pc'[c] \in {"select", "touch", "find"}
    BY <1>0, <1>1 DEF Take, SelectEntity, TouchEntity, JoinIncident, TypeOK
  <2>3. pc[c] = "join" => pc'[c] = "attached"
    BY <1>0, <1>1 DEF Take, SelectEntity, TouchEntity, JoinIncident, TypeOK
  <2> QED
    BY <2>1, <2>2, <2>3 DEF EarnedInv, SuppressionIsEarned
<1>2. ASSUME NEW c \in Consumers, NEW i \in Incidents, FindIncident(c, i) PROVE EarnedInv'
  <2>1. /\ UNCHANGED <<tables, history>> /\ pc'[c] = "join" /\ mine'[c] = i
        /\ newCount'[c] = count[i] + 1 /\ newRisk'[c] = risk[i]
        /\ \A d \in Consumers \ {c} : /\ pc'[d] = pc[d] /\ mine'[d] = mine[d]
                                      /\ newCount'[d] = newCount[d] /\ newRisk'[d] = newRisk[d]
    BY <1>0, <1>2 DEF FindIncident, TypeOK
  <2>2. newCount'[c] <= attached'[mine'[c]] + 1 /\ newRisk'[c] <= owed'[mine'[c]]
    <3>1. count[i] \in Nat /\ attached[i] \in Nat /\ count[i] <= attached[i] /\ risk[i] <= owed[i]
      BY <1>0 DEF TypeOK, EarnedInv, SuppressionIsEarned
    <3> QED
      BY <2>1, <3>1
  <2>3. \A j \in Incidents : count'[j] <= attached'[j] /\ risk'[j] <= owed'[j]
    BY <2>1 DEF EarnedInv, SuppressionIsEarned
  <2>4. \A d \in Consumers \ {c} :
           pc'[d] \in {"join", "attached"} =>
              newCount'[d] <= attached'[mine'[d]] + 1 /\ newRisk'[d] <= owed'[mine'[d]]
    BY <2>1 DEF EarnedInv, SuppressionIsEarned
  <2>5. \A d \in Consumers : pc'[d] \in {"idle", "select", "touch", "find"} => newRisk'[d] = 0
    BY <2>1 DEF EarnedInv
  <2> QED
    BY <2>2, <2>3, <2>4, <2>5 DEF EarnedInv, SuppressionIsEarned
<1>3. ASSUME NEW c \in Consumers, CreateIncident(c) PROVE EarnedInv'
  <2> DEFINE fresh == CHOOSE i \in Incidents : Unused(i)
  <2>0. fresh \in Incidents
    BY <1>3 DEF CreateIncident
  <2>1. /\ UNCHANGED <<tables, history>> /\ pc'[c] = "attached" /\ mine'[c] = fresh
        /\ newCount'[c] = 1 /\ newRisk'[c] = newRisk[c] /\ pc[c] = "find"
        /\ \A d \in Consumers \ {c} : /\ pc'[d] = pc[d] /\ mine'[d] = mine[d]
                                      /\ newCount'[d] = newCount[d] /\ newRisk'[d] = newRisk[d]
    BY <1>0, <1>3 DEF CreateIncident, TypeOK
  <2>2. attached[fresh] \in Nat /\ owed[fresh] \in Nat /\ newRisk[c] = 0
    BY <1>0, <2>0, <2>1 DEF TypeOK, EarnedInv
  <2>3. newCount'[c] <= attached'[mine'[c]] + 1 /\ newRisk'[c] <= owed'[mine'[c]]
    BY <2>1, <2>2
  <2> HIDE DEF fresh
  <2>4. \A i \in Incidents : count'[i] <= attached'[i] /\ risk'[i] <= owed'[i]
    BY <2>1 DEF EarnedInv, SuppressionIsEarned
  <2>5. \A d \in Consumers \ {c} :
           pc'[d] \in {"join", "attached"} =>
              newCount'[d] <= attached'[mine'[d]] + 1 /\ newRisk'[d] <= owed'[mine'[d]]
    BY <2>1 DEF EarnedInv, SuppressionIsEarned
  <2>6. \A d \in Consumers : pc'[d] \in {"idle", "select", "touch", "find"} => newRisk'[d] = 0
    BY <2>1 DEF EarnedInv
  <2> QED
    BY <2>3, <2>4, <2>5, <2>6 DEF EarnedInv, SuppressionIsEarned
<1>4. ASSUME NEW c \in Consumers, Suppress(c) \/ GateCommit(c) PROVE EarnedInv'
  <2>1. owed' = [owed EXCEPT ![mine[c]] = @ + 0] /\ risk' = risk
    <3>1. mine[c] \in Incidents /\ owed[mine[c]] \in Nat
      BY <1>0, <1>4 DEF Suppress, GateCommit, SessionShape, TypeOK
    <3>2. owed[mine[c]] + 0 = owed[mine[c]]
      BY <3>1
    <3> QED
      BY <1>0, <1>4, <3>1, <3>2 DEF Suppress, GateCommit, TypeOK
  <2>2. pc'[c] = "idle" /\ newRisk'[c] = 0 /\ pc[c] = "attached" /\ Attach(c)
    BY <1>0, <1>4 DEF Suppress, GateCommit, Close, TypeOK
  <2>3. \A d \in Consumers \ {c} : /\ pc'[d] = pc[d] /\ mine'[d] = mine[d]
                                   /\ newCount'[d] = newCount[d] /\ newRisk'[d] = newRisk[d]
    BY <1>0, <1>4 DEF Suppress, GateCommit, Close, TypeOK
  <2>4. PICK r \in Nat : r = 0
    OBVIOUS
  <2>5. /\ owed' = [owed EXCEPT ![mine[c]] = @ + r]
        /\ risk' = risk \/ risk' = [risk EXCEPT ![mine[c]] = newRisk[c] + r]
        /\ pc'[c] \in {"idle", "committed"} /\ (pc'[c] = "idle" => newRisk'[c] = 0)
    BY <2>1, <2>2, <2>4
  <2> QED
    BY <2>2, <2>3, <2>5, AttachEarned
<1>5. ASSUME NEW c \in Consumers, CommitVerdict(c) PROVE EarnedInv'
  <2>1. PICK r \in Nat : r = Risk[work[c]]
    BY <1>0, <1>5 DEF CommitVerdict, SessionShape
  <2>2. /\ owed' = [owed EXCEPT ![mine[c]] = @ + r]
        /\ risk' = [risk EXCEPT ![mine[c]] = newRisk[c] + r]
        /\ pc'[c] = "committed" /\ pc[c] = "attached" /\ Attach(c)
    BY <1>0, <1>5, <2>1 DEF CommitVerdict, RiskWithAlert, TypeOK
  <2>3. \A d \in Consumers \ {c} : /\ pc'[d] = pc[d] /\ mine'[d] = mine[d]
                                   /\ newCount'[d] = newCount[d] /\ newRisk'[d] = newRisk[d]
    BY <1>0, <1>5 DEF CommitVerdict, TypeOK
  <2>4. /\ risk' = risk \/ risk' = [risk EXCEPT ![mine[c]] = newRisk[c] + r]
        /\ pc'[c] \in {"idle", "committed"} /\ (pc'[c] = "idle" => newRisk'[c] = 0)
    BY <2>2
  <2> QED
    BY <2>1, <2>2, <2>3, <2>4, AttachEarned
<1>6. ASSUME NEW c \in Consumers,
             \/ DuplicateEntity(c) \/ AutoCaseFails(c) \/ Fails(c) \/ DeadlockAbort(c)
             \/ GateReturn(c) \/ Finish(c) \/ FinishFails(c) \/ Crash(c)
      PROVE  EarnedInv'
  BY <1>6, CloseEarned DEF DuplicateEntity, AutoCaseFails, Fails, DeadlockAbort, RollBack,
                           GateReturn, Finish, FinishFails, Crash
<1>7. ASSUME NEW i \in Incidents, Age(i) PROVE EarnedInv'
  BY <1>7 DEF Age, EarnedInv, SuppressionIsEarned
<1>8. CASE UNCHANGED vars
  BY <1>8 DEF vars, EarnedInv, SuppressionIsEarned
<1> QED
  BY <1>1, <1>2, <1>3, <1>4, <1>5, <1>6, <1>7, <1>8 DEF Next

\* An alert is suppressed only after SuppressAfter earlier deliveries of its incident,
\* whatever failed, crashed or was delivered twice (noise_reduction.py).
THEOREM SuppressionsAreEarned == Spec => []SuppressionIsEarned
<1>1. Init => EarnedInv
  BY DEF Init, EarnedInv, SuppressionIsEarned
<1>2. StitchInv /\ EarnedInv /\ [Next]_vars => EarnedInv'
  BY EarnedStep
<1>3. EarnedInv => SuppressionIsEarned
  BY DEF EarnedInv
<1> QED
  BY <1>1, <1>2, <1>3, StitchInvariant, PTL DEF Spec
-------------------------------------------------------------------------------
(* Exactness.  Two sessions that have found their incident hold all the    *)
(* entities of their alerts, so their alerts share none: a counter that is *)
(* read and written under one shared entity misses nothing in between.     *)

AllShare(S) == \A a, b \in S : Share(a, b)

\* What a session read is still what was committed, as long as the members of
\* its incident and its own alert share entities; an incident without a row has
\* counted nothing.
ExactInv ==
    /\ ExactWhenShared
    /\ \A i \in Incidents \ made : attached[i] = 0 /\ owed[i] = 0
    /\ \A c \in Consumers :
          pc[c] \in {"join", "attached"} /\ AllShare(members[mine[c]] \union {work[c]}) =>
             newCount[c] = attached[mine[c]] + 1 /\ newRisk[c] = owed[mine[c]]

\* Alerts of two sessions past the search share no entity.
LEMMA SearchersShareNothing ==
    ASSUME StitchInv, NEW c \in Consumers, NEW d \in Consumers, c # d,
           pc[c] \in {"join", "attached"}, pc[d] \in {"join", "attached"}
    PROVE  ~Share(work[c], work[d])
<1> USE StitchAssumption
<1>1. /\ work[c] \in Alerts /\ work[d] \in Alerts
      /\ n[c] = Len(EntitiesOf[work[c]]) /\ n[d] = Len(EntitiesOf[work[d]])
  BY DEF StitchInv, SessionShape
<1>2. /\ EntitiesOf[work[c]] \in Seq(Entities) /\ EntitiesOf[work[d]] \in Seq(Entities)
  BY <1>1
<1>3. /\ DOMAIN EntitiesOf[work[c]] = 1 .. n[c] /\ DOMAIN EntitiesOf[work[d]] = 1 .. n[d]
  BY <1>1, <1>2, LenProperties
<1>4. /\ Held(c) = {EntitiesOf[work[c]][k] : k \in DOMAIN EntitiesOf[work[c]]}
      /\ Held(d) = {EntitiesOf[work[d]][k] : k \in DOMAIN EntitiesOf[work[d]]}
  BY <1>3 DEF Held, InTransaction
<1>5. Held(c) \intersect Held(d) = {}
  BY DEF StitchInv, LocksExclusive
<1>6. ASSUME Share(work[c], work[d]) PROVE FALSE
  <2>1. PICK j \in DOMAIN EntitiesOf[work[c]], k \in DOMAIN EntitiesOf[work[d]] :
          EntitiesOf[work[c]][j] = EntitiesOf[work[d]][k]
    BY <1>6 DEF Share
  <2>2. EntitiesOf[work[c]][j] \in Held(c) /\ EntitiesOf[work[d]][k] \in Held(d)
    BY ONLY <1>4, <2>1
  <2> QED
    BY ONLY <1>5, <2>1, <2>2
<1> QED
  BY <1>6

\* A step that leaves the tables and what the sessions past the search know.
LEMMA ExactFrame ==
    ASSUME ExactInv, UNCHANGED <<made, count, risk, history>>,
           \A d \in Consumers : pc'[d] \in {"join", "attached"} =>
              /\ pc[d] \in {"join", "attached"} /\ work'[d] = work[d] /\ mine'[d] = mine[d]
              /\ newCount'[d] = newCount[d] /\ newRisk'[d] = newRisk[d]
    PROVE  ExactInv'
<1> USE DEF history
<1>1. ExactWhenShared'
  BY DEF ExactInv, ExactWhenShared
<1>2. \A d \in Consumers :
          pc'[d] \in {"join", "attached"} /\ AllShare(members'[mine'[d]] \union {work'[d]}) =>
             newCount'[d] = attached'[mine'[d]] + 1 /\ newRisk'[d] = owed'[mine'[d]]
  BY DEF ExactInv
<1> QED
  BY <1>1, <1>2 DEF ExactInv, AllShare

\* The commit of an attachment writes what the session read, plus its own part.
LEMMA AttachExact ==
    ASSUME StitchInv, ExactInv, NEW c \in Consumers, pc[c] = "attached", Attach(c),
           NEW r \in Nat, owed' = [owed EXCEPT ![mine[c]] = @ + r],
           \/ r = 0 /\ risk' = risk
           \/ risk' = [risk EXCEPT ![mine[c]] = newRisk[c] + r],
           pc'[c] \in {"idle", "committed"},
           \A d \in Consumers \ {c} : /\ pc'[d] = pc[d] /\ work'[d] = work[d] /\ mine'[d] = mine[d]
                                      /\ newCount'[d] = newCount[d] /\ newRisk'[d] = newRisk[d]
    PROVE  ExactInv'
<1>0. TypeOK /\ SessionShape
  BY DEF StitchInv
<1> DEFINE i == mine[c]
<1>1. i \in Incidents
  BY <1>0 DEF SessionShape
<1>2. /\ count'[i] = newCount[c] /\ attached'[i] = attached[i] + 1 /\ owed'[i] = owed[i] + r
      /\ (r = 0 /\ risk'[i] = risk[i]) \/ risk'[i] = newRisk[c] + r
      /\ members'[i] = members[i] \union {work[c]}
      /\ made' = made \union {i}
      /\ \A j \in Incidents \ {i} : /\ count'[j] = count[j] /\ attached'[j] = attached[j]
                                    /\ owed'[j] = owed[j] /\ risk'[j] = risk[j]
                                    /\ members'[j] = members[j]
  BY <1>0, <1>1 DEF Attach, TypeOK
<1>3. owed[i] \in Nat /\ attached[i] \in Nat
  BY <1>0, <1>1 DEF TypeOK
<1>4. AllShare(members'[i]) => /\ AllShare(members[i])
                               /\ newCount[c] = attached[i] + 1 /\ newRisk[c] = owed[i]
                               /\ risk[i] = owed[i]
  BY <1>1, <1>2 DEF ExactInv, ExactWhenShared, AllShare
<1> HIDE DEF i
<1>5. ASSUME NEW j \in Incidents, AllShare(members'[j])
      PROVE  count'[j] = attached'[j] /\ risk'[j] = owed'[j]
  <2>1. CASE j = i
    <3>1. AllShare(members'[i])
      BY <1>5, <2>1
    <3>2. newCount[c] = attached[i] + 1 /\ newRisk[c] = owed[i] /\ risk[i] = owed[i]
      BY <1>4, <3>1
    <3> QED
      BY <1>2, <1>3, <2>1, <3>2
  <2>2. CASE j # i
    BY <1>2, <1>5, <2>2 DEF ExactInv, ExactWhenShared, AllShare
  <2> QED
    BY <2>1, <2>2
<1>6. ASSUME NEW j \in Incidents \ made' PROVE attached'[j] = 0 /\ owed'[j] = 0
  BY <1>2 DEF ExactInv
<1>7. ASSUME NEW d \in Consumers, pc'[d] \in {"join", "attached"},
             AllShare(members'[mine'[d]] \union {work'[d]})
      PROVE  newCount'[d] = attached'[mine'[d]] + 1 /\ newRisk'[d] = owed'[mine'[d]]
  <2>1. d # c /\ pc[d] \in {"join", "attached"} /\ mine[d] \in Incidents
    BY <1>0, <1>7 DEF SessionShape
  <2>2. /\ work'[d] = work[d] /\ mine'[d] = mine[d] /\ newCount'[d] = newCount[d]
        /\ newRisk'[d] = newRisk[d]
    BY <2>1
  <2>3. mine[d] # i
    <3>1. mine[d] = i => work[c] \in members'[mine'[d]]
      BY <1>2, <2>2
    <3>2. mine[d] = i => Share(work[c], work[d])
      BY <1>7, <2>2, <3>1 DEF AllShare
    <3> QED
      BY <2>1, <3>2, SearchersShareNothing
  <2>4. AllShare(members[mine[d]] \union {work[d]})
    <3>1. members'[mine'[d]] \union {work'[d]} = members[mine[d]] \union {work[d]}
      BY <1>2, <2>1, <2>2, <2>3
    <3> QED
      BY <1>7, <3>1
  <2> QED
    BY <1>2, <2>1, <2>2, <2>3, <2>4 DEF ExactInv
<1>8. ExactWhenShared'
  BY <1>5 DEF ExactWhenShared, AllShare
<1> QED
  BY <1>6, <1>7, <1>8 DEF ExactInv, AllShare

LEMMA ExactStep == ASSUME StitchInv, EarnedInv, ExactInv, [Next]_vars PROVE ExactInv'
<1> USE StitchAssumption DEF tables, session, history
<1>0. TypeOK /\ SessionShape
  BY DEF StitchInv
<1>1. ASSUME NEW c \in Consumers,
             \/ \E a \in Alerts : Take(c, a)
             \/ SelectEntity(c) \/ TouchEntity(c) \/ JoinIncident(c)
      PROVE  ExactInv'
  <2>1. /\ UNCHANGED <<made, count, risk, history, mine, newCount, newRisk>>
        /\ \A d \in Consumers \ {c} : pc'[d] = pc[d] /\ work'[d] = work[d]
    BY <1>0, <1>1 DEF Take, SelectEntity, TouchEntity, JoinIncident, TypeOK
  <2>2. pc'[c] \in {"join", "attached"} => pc[c] = "join" /\ work'[c] = work[c]
    BY <1>0, <1>1 DEF Take, SelectEntity, TouchEntity, JoinIncident, TypeOK
  <2> QED
    BY <2>1, <2>2, ExactFrame
<1>2. ASSUME NEW c \in Consumers,
             \/ DuplicateEntity(c) \/ AutoCaseFails(c) \/ Fails(c) \/ DeadlockAbort(c)
             \/ GateReturn(c) \/ Finish(c) \/ FinishFails(c) \/ Crash(c)
      PROVE  ExactInv'
  <2>1. Close(c) /\ UNCHANGED <<tables, history>>
    BY <1>2 DEF DuplicateEntity, AutoCaseFails, Fails, DeadlockAbort, RollBack,
                GateReturn, Finish, FinishFails, Crash
  <2>2. pc'[c] = "idle"
    BY <1>0, <2>1 DEF Close, TypeOK
  <2>3. \A d \in Consumers \ {c} : /\ pc'[d] = pc[d] /\ work'[d] = work[d] /\ mine'[d] = mine[d]
                                   /\ newCount'[d] = newCount[d] /\ newRisk'[d] = newRisk[d]
    BY <1>0, <2>1 DEF Close, TypeOK
  <2> QED
    BY <2>1, <2>2, <2>3, ExactFrame
<1>3. ASSUME NEW i \in Incidents, Age(i) PROVE ExactInv'
  BY <1>3, ExactFrame DEF Age
<1>4. CASE UNCHANGED vars
  BY <1>4, ExactFrame DEF vars
<1>5. ASSUME NEW c \in Consumers, NEW i \in Incidents,
             UNCHANGED <<made, count, risk, history, work>>, work[c] \in Alerts,
             mine'[c] = i, AllShare(members[i] \union {work[c]}) =>
                             newCount'[c] = attached[i] + 1 /\ newRisk'[c] = owed[i],
             \A d \in Consumers \ {c} : /\ pc'[d] = pc[d] /\ mine'[d] = mine[d]
                                        /\ newCount'[d] = newCount[d] /\ newRisk'[d] = newRisk[d]
      PROVE  ExactInv'
  <2>1. ExactWhenShared'
    BY <1>5 DEF ExactInv, ExactWhenShared
  <2>2. ASSUME NEW d \in Consumers, pc'[d] \in {"join", "attached"},
               AllShare(members'[mine'[d]] \union {work'[d]})
        PROVE  newCount'[d] = attached'[mine'[d]] + 1 /\ newRisk'[d] = owed'[mine'[d]]
    BY <1>5, <2>2 DEF ExactInv
  <2> QED
    BY <1>5, <2>1, <2>2 DEF ExactInv, AllShare
<1>6. ASSUME NEW c \in Consumers, NEW i \in Incidents, FindIncident(c, i) PROVE ExactInv'
  <2>1. /\ UNCHANGED <<made, count, risk, history, work>> /\ mine'[c] = i
        /\ newCount'[c] = count[i] + 1 /\ newRisk'[c] = risk[i] /\ work[c] \in Alerts
        /\ \A d \in Consumers \ {c} : /\ pc'[d] = pc[d] /\ mine'[d] = mine[d]
                                      /\ newCount'[d] = newCount[d] /\ newRisk'[d] = newRisk[d]
    BY <1>0, <1>6 DEF FindIncident, TypeOK, SessionShape
  <2>2. AllShare(members[i] \union {work[c]}) => count[i] = attached[i] /\ risk[i] = owed[i]
    BY DEF AllShare, ExactInv, ExactWhenShared
  <2>3. AllShare(members[i] \union {work[c]}) =>
          newCount'[c] = attached[i] + 1 /\ newRisk'[c] = owed[i]
    BY <2>1, <2>2
  <2> QED
    BY <1>5, <2>1, <2>3
<1>7. ASSUME NEW c \in Consumers, CreateIncident(c) PROVE ExactInv'
  <2> DEFINE fresh == CHOOSE i \in Incidents : Unused(i)
  <2>1. fresh \in Incidents \ made
    BY <1>7 DEF CreateIncident, Unused
  <2>2. /\ UNCHANGED <<made, count, risk, history, work>> /\ mine'[c] = fresh
        /\ newCount'[c] = 1 /\ newRisk'[c] = newRisk[c] /\ pc[c] = "find" /\ work[c] \in Alerts
        /\ \A d \in Consumers \ {c} : /\ pc'[d] = pc[d] /\ mine'[d] = mine[d]
                                      /\ newCount'[d] = newCount[d] /\ newRisk'[d] = newRisk[d]
    BY <1>0, <1>7 DEF CreateIncident, TypeOK, SessionShape
  <2> HIDE DEF fresh
  <2>3. attached[fresh] = 0 /\ owed[fresh] = 0 /\ newRisk[c] = 0
    BY <2>1, <2>2 DEF ExactInv, EarnedInv
  <2>4. newCount'[c] = attached[fresh] + 1 /\ newRisk'[c] = owed[fresh]
    BY <2>2, <2>3
  <2> QED
    BY <1>5, <2>1, <2>2, <2>4
<1>8. ASSUME NEW c \in Consumers, Suppress(c) \/ GateCommit(c) PROVE ExactInv'
  <2>1. mine[c] \in Incidents /\ owed[mine[c]] \in Nat
    BY <1>0, <1>8 DEF Suppress, GateCommit, SessionShape, TypeOK
  <2>2. PICK r \in Nat : r = 0
    OBVIOUS
  <2>3. owed' = [owed EXCEPT ![mine[c]] = @ + r] /\ risk' = risk
    <3>1. owed[mine[c]] + r = owed[mine[c]]
      BY <2>1, <2>2
    <3> QED
      BY <1>0, <1>8, <2>1, <3>1 DEF Suppress, GateCommit, TypeOK
  <2>4. pc'[c] = "idle" /\ pc[c] = "attached" /\ Attach(c)
    BY <1>0, <1>8 DEF Suppress, GateCommit, Close, TypeOK
  <2>5. \A d \in Consumers \ {c} : /\ pc'[d] = pc[d] /\ work'[d] = work[d] /\ mine'[d] = mine[d]
                                   /\ newCount'[d] = newCount[d] /\ newRisk'[d] = newRisk[d]
    BY <1>0, <1>8 DEF Suppress, GateCommit, Close, TypeOK
  <2>6. pc'[c] \in {"idle", "committed"}
    BY <2>4
  <2>7. (r = 0 /\ risk' = risk) \/ risk' = [risk EXCEPT ![mine[c]] = newRisk[c] + r]
    BY <2>2, <2>3
  <2> QED
    BY <2>3, <2>4, <2>5, <2>6, <2>7, AttachExact
<1>9. ASSUME NEW c \in Consumers, CommitVerdict(c) PROVE ExactInv'
  <2>1. PICK r \in Nat : r = Risk[work[c]]
    BY <1>0, <1>9 DEF CommitVerdict, SessionShape
  <2>2. /\ owed' = [owed EXCEPT ![mine[c]] = @ + r]
        /\ risk' = [risk EXCEPT ![mine[c]] = newRisk[c] + r]
        /\ pc'[c] \in {"idle", "committed"} /\ pc[c] = "attached" /\ Attach(c)
    BY <1>0, <1>9, <2>1 DEF CommitVerdict, RiskWithAlert, TypeOK
  <2>3. \A d \in Consumers \ {c} : /\ pc'[d] = pc[d] /\ work'[d] = work[d] /\ mine'[d] = mine[d]
                                   /\ newCount'[d] = newCount[d] /\ newRisk'[d] = newRisk[d]
    BY <1>0, <1>9 DEF CommitVerdict, TypeOK
  <2>4. (r = 0 /\ risk' = risk) \/ risk' = [risk EXCEPT ![mine[c]] = newRisk[c] + r]
    BY <2>2
  <2> QED
    BY <2>1, <2>2, <2>3, <2>4, AttachExact
<1> QED
  BY <1>1, <1>2, <1>3, <1>4, <1>6, <1>7, <1>8, <1>9 DEF Next

\* The alert count and the risk of an incident are exact if any two of its
\* deliveries share an entity, for any number of consumers: the row locks of
\* entities, which the code takes for another purpose, serialise the two
\* read-modify-writes (stitch.py:141, triage_worker.py:535).
THEOREM SharedCountersAreExact == Spec => []ExactWhenShared
<1>1. Init => ExactInv
  BY DEF Init, ExactInv, ExactWhenShared
<1>2. StitchInv /\ EarnedInv /\ ExactInv /\ [Next]_vars => ExactInv'
  BY ExactStep
<1>3. ExactInv => ExactWhenShared
  BY DEF ExactInv
<1>4. Init => EarnedInv
  BY DEF Init, EarnedInv, SuppressionIsEarned
<1>5. StitchInv /\ EarnedInv /\ [Next]_vars => EarnedInv'
  BY EarnedStep
<1> QED
  BY <1>1, <1>2, <1>3, <1>4, <1>5, StitchInvariant, PTL DEF Spec
================================================================================

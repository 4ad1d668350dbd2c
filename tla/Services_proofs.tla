---------------------------- MODULE Services_proofs ----------------------------
(***************************************************************************)
(* Theorems about the components of Services, each about the specification *)
(* of one component, for every value of its constants.                     *)
(***************************************************************************)
EXTENDS Services, FiniteSetTheorems, SequenceTheorems, TLAPS

-----------------------------------------------------------------------------
(***************************************************************************)
(* Vulnerabilities.  A row is traced by what it has been through, and only *)
(* as many rows of a key can be stored as ingesters looked for it at once. *)
(***************************************************************************)
Entries == [vuln : Vulns, cvss : Scores]
VulnPass == [on : BOOLEAN, docs : Seq(Vulns \X Scores), loaded : SUBSET Entries,
             updates : SUBSET Entries, inserts : SUBSET Entries]
VulnCycle == [on : BOOLEAN, fresh : BOOLEAN, todo : Seq(Vulns \X V!Places \X Scores)]
VulnTypes ==
  /\ vulnRows \in [Vulns -> Seq(V!Row)]
  /\ pass \in [Ingesters -> VulnPass]
  /\ cycle \in [Enrichers -> VulnCycle]

Traced(r) ==
  /\ r.cvss = r.told /\ r.cvss \in r.past
  /\ r.scored = r.flagged /\ r.scored = (r.riskOf # V!Null)
  /\ r.riskOf \in r.past \cup {V!Null}
RowsTraced == \A v \in Vulns : \A n \in 1..Len(vulnRows[v]) : Traced(vulnRows[v][n])

Inserting(v) == {i \in Ingesters : \E d \in pass[i].inserts : d.vuln = v}
RoomLeft ==
  \A v \in Vulns : Len(vulnRows[v]) + Cardinality(Inserting(v)) <= Cardinality(Ingesters)

UpdatesFound == \A i \in Ingesters : \A d \in pass[i].updates : Len(vulnRows[d.vuln]) >= 1
Found(t) ==
  /\ t[2] \in 1..Len(vulnRows[t[1]])
  /\ t[3] \in vulnRows[t[1]][t[2]].past
TodoFound == \A e \in Enrichers : \A k \in 1..Len(cycle[e].todo) : Found(cycle[e].todo[k])

VulnInv == VulnTypes /\ RowsTraced /\ RoomLeft /\ UpdatesFound /\ TodoFound

\* The component counts as this module does.
LEMMA VulnCardinality ==
    ASSUME NEW Els
    PROVE  V!Cardinality(Els) = Cardinality(Els) /\ (V!IsFiniteSet(Els) <=> IsFiniteSet(Els))
BY Zenon DEF V!Cardinality, Cardinality, V!IsFiniteSet, IsFiniteSet

\* The counts are numbers.
LEMMA InsertingCounts ==
    ASSUME V!VulnerabilityAssumption, NEW v \in Vulns
    PROVE  /\ IsFiniteSet(Inserting(v)) /\ Cardinality(Inserting(v)) \in Nat
           /\ Cardinality(Ingesters) \in Nat /\ Cardinality(Inserting(v)) <= Cardinality(Ingesters)
           /\ IsFiniteSet(Inserting(v))' /\ Cardinality(Inserting(v))' \in Nat
           /\ Cardinality(Inserting(v))' <= Cardinality(Ingesters)
<1>1. Inserting(v) \subseteq Ingesters /\ Inserting(v)' \subseteq Ingesters
  BY DEF Inserting
<1>2. IsFiniteSet(Ingesters)
  BY VulnCardinality DEF V!VulnerabilityAssumption
<1> DEFINE before == Inserting(v)
           after == Inserting(v)'
<1>3. before \subseteq Ingesters /\ after \subseteq Ingesters
  BY <1>1
<1> HIDE DEF before, after
<1>4. /\ IsFiniteSet(before) /\ Cardinality(before) <= Cardinality(Ingesters)
      /\ IsFiniteSet(after) /\ Cardinality(after) <= Cardinality(Ingesters)
  BY <1>2, <1>3, FS_Subset
<1>5. Cardinality(before) \in Nat /\ Cardinality(after) \in Nat /\ Cardinality(Ingesters) \in Nat
  BY <1>2, <1>4, FS_CardinalityType
<1> QED
  BY <1>4, <1>5 DEF before, after

\* A step of one ingester on its own pass.
LEMMA VulnPasses ==
    ASSUME V!VulnerabilityAssumption, VulnInv, NEW i \in Ingesters,
           \/ \E docs \in V!Docs : V!StartPass(i, docs)
           \/ V!Look(i) \/ V!LookRaises(i) \/ V!FailPass(i)
    PROVE  VulnInv'
<1>0. VulnTypes /\ RowsTraced /\ RoomLeft /\ UpdatesFound /\ TodoFound /\ pass[i] \in VulnPass
      /\ UNCHANGED <<vulnRows, cycle>>
  BY DEF VulnInv, VulnTypes, V!StartPass, V!Look, V!LookRaises, V!FailPass
<1>1. PICK p \in VulnPass :
        /\ pass' = [pass EXCEPT ![i] = p]
        /\ \A d \in p.updates : d \in pass[i].updates \/ Len(vulnRows[d.vuln]) >= 1
        /\ \A d \in p.inserts : Len(vulnRows[d.vuln]) = 0 \/ \E x \in pass[i].inserts : x.vuln = d.vuln
  <2>1. ASSUME NEW docs \in V!Docs, V!StartPass(i, docs)
        PROVE  \E p \in VulnPass : pass' = [pass EXCEPT ![i] = p] /\ p.updates = {} /\ p.inserts = {}
    <3>1. docs \in Seq(Vulns \X Scores)
      <4>1. PICK n \in 0..MaxDocs : docs \in [1..n -> Vulns \X Scores]
        BY <2>1 DEF V!Docs
      <4>2. n \in Nat
        BY <4>1 DEF V!VulnerabilityAssumption
      <4> QED
        BY <4>1, <4>2, SeqDef
    <3> DEFINE p0 == [V!NoPass EXCEPT !.on = TRUE]
               p == [p0 EXCEPT !.docs = docs]
    <3>2. p0 \in VulnPass /\ p0.updates = {} /\ p0.inserts = {}
      BY EmptySeq DEF VulnPass, V!NoPass
    <3>3. pass' = [pass EXCEPT ![i] = p]
      BY <2>1 DEF V!StartPass
    <3> HIDE DEF p0
    <3>4. p \in VulnPass /\ p.updates = {} /\ p.inserts = {}
      BY <3>1, <3>2 DEF VulnPass
    <3> QED
      BY <3>3, <3>4
  <2>2. ASSUME V!LookRaises(i) \/ V!FailPass(i)
        PROVE  \E p \in VulnPass : pass' = [pass EXCEPT ![i] = p] /\ p.updates = {} /\ p.inserts = {}
    <3>1. V!NoPass \in VulnPass /\ V!NoPass.updates = {} /\ V!NoPass.inserts = {}
      BY EmptySeq DEF V!NoPass, VulnPass
    <3> QED
      BY <2>2, <3>1 DEF V!LookRaises, V!FailPass
  <2>3. ASSUME V!Look(i)
        PROVE  \E p \in VulnPass :
                 /\ pass' = [pass EXCEPT ![i] = p]
                 /\ \A d \in p.updates : d \in pass[i].updates \/ Len(vulnRows[d.vuln]) >= 1
                 /\ \A d \in p.inserts : Len(vulnRows[d.vuln]) = 0 \/ \E x \in pass[i].inserts : x.vuln = d.vuln
    <3> DEFINE doc == Head(pass[i].docs)
               v == doc[1]
               entry == [vuln |-> v, cvss |-> doc[2]]
               new == V!RowsSeen(i, v) = 0 \/ V!Of(pass[i].inserts, v) # {}
               load == (pass[i].loaded \ V!Of(pass[i].loaded, v)) \cup {entry}
               ins == IF new THEN (pass[i].inserts \ V!Of(pass[i].inserts, v)) \cup {entry}
                      ELSE pass[i].inserts
               upd == IF ~new /\ entry \notin V!Held(i, v)
                      THEN (pass[i].updates \ V!Of(pass[i].updates, v)) \cup {entry}
                      ELSE pass[i].updates
               p0 == [pass[i] EXCEPT !.docs = Tail(pass[i].docs)]
               p1 == [p0 EXCEPT !.loaded = load]
               p2 == [p1 EXCEPT !.inserts = ins]
               p == [p2 EXCEPT !.updates = upd]
    <3>1. pass[i].docs \in Seq(Vulns \X Scores) /\ pass[i].docs # <<>>
      BY <1>0, <2>3 DEF V!Look, VulnPass
    <3>2. doc \in Vulns \X Scores /\ Tail(pass[i].docs) \in Seq(Vulns \X Scores)
      BY <3>1, HeadTailProperties
    <3>3. entry \in Entries /\ entry.vuln = v
      BY <3>2 DEF Entries
    <3>4. pass' = [pass EXCEPT ![i] = p]
      BY <2>3 DEF V!Look
    <3>5. load \in SUBSET Entries /\ ins \in SUBSET Entries /\ upd \in SUBSET Entries
      BY <1>0, <3>3 DEF VulnPass
    \* Without an insert of its own the session sees the committed rows.
    <3>6. V!Of(pass[i].inserts, v) = {} => V!RowsSeen(i, v) = Len(vulnRows[v]) /\ Len(vulnRows[v]) \in Nat
      <4>1. Len(vulnRows[v]) \in Nat
        BY <1>0, <3>2, LenProperties DEF VulnTypes
      <4>2. V!Cardinality({}) = 0
        BY VulnCardinality, FS_EmptySet
      <4>3. PICK k : k = Len(vulnRows[v])
        OBVIOUS
      <4>4. ASSUME V!Of(pass[i].inserts, v) = {} PROVE V!RowsSeen(i, v) = k + 0
        BY <4>2, <4>3, <4>4 DEF V!RowsSeen
      <4> HIDE DEF v, new
      <4> QED
        BY <4>1, <4>3, <4>4
    <3>7. new => Len(vulnRows[v]) = 0 \/ \E x \in pass[i].inserts : x.vuln = v
      BY <3>6 DEF V!Of
    <3>8. ~new => Len(vulnRows[v]) >= 1
      BY <3>6
    <3> HIDE DEF new
    <3>9. /\ \A d \in upd : d \in pass[i].updates \/ Len(vulnRows[d.vuln]) >= 1
          /\ \A d \in ins : d \in pass[i].inserts \/ d = entry
      BY <3>3, <3>8
    <3>10. \A d \in ins : Len(vulnRows[d.vuln]) = 0 \/ \E x \in pass[i].inserts : x.vuln = d.vuln
      <4>1. ASSUME NEW d \in ins, d \notin pass[i].inserts PROVE new /\ d.vuln = v
        BY <3>3, <4>1
      <4> QED
        BY <3>7, <4>1
    <3> HIDE DEF entry, load, ins, upd
    <3>11. p0 \in VulnPass
      BY <1>0, <3>2 DEF VulnPass
    <3> HIDE DEF p0
    <3>12. p1 \in VulnPass
      BY <3>5, <3>11 DEF VulnPass
    <3> HIDE DEF p1
    <3>13. p2 \in VulnPass /\ p2.inserts = ins
      BY <3>5, <3>12 DEF VulnPass
    <3> HIDE DEF p2
    <3>14. p \in VulnPass /\ p.updates = upd /\ p.inserts = ins
      BY <3>5, <3>13 DEF VulnPass
    <3> QED
      BY <3>4, <3>9, <3>10, <3>14
  <2> QED
    BY <2>1, <2>2, <2>3
<1>2. VulnTypes'
  BY <1>0, <1>1 DEF VulnTypes
<1>3. RowsTraced' /\ TodoFound'
  BY <1>0 DEF RowsTraced, TodoFound, Found
<1>4. \A k \in Ingesters : pass'[k] = IF k = i THEN p ELSE pass[k]
  BY <1>0, <1>1 DEF VulnTypes
<1>5. UpdatesFound'
  BY <1>0, <1>1, <1>4 DEF UpdatesFound
<1>6. RoomLeft'
  <2> SUFFICES ASSUME NEW v \in Vulns
               PROVE  Len(vulnRows[v]) + Cardinality(Inserting(v)') <= Cardinality(Ingesters)
    BY <1>0 DEF RoomLeft
  <2>1. /\ Len(vulnRows[v]) \in Nat /\ Cardinality(Inserting(v)) \in Nat
        /\ Cardinality(Inserting(v)') \in Nat /\ Cardinality(Ingesters) \in Nat
        /\ Cardinality(Inserting(v)') <= Cardinality(Ingesters)
        /\ IsFiniteSet(Inserting(v))
    BY <1>0, LenProperties, InsertingCounts DEF VulnTypes
  <2>2. CASE Len(vulnRows[v]) = 0
    BY <2>1, <2>2
  <2>3. CASE Len(vulnRows[v]) # 0
    <3>1. Inserting(v)' \subseteq Inserting(v)
      BY <1>1, <1>4, <2>3 DEF Inserting
    <3> DEFINE before == Inserting(v)
               after == Inserting(v)'
    <3>2. after \subseteq before /\ IsFiniteSet(before)
      BY <2>1, <3>1
    <3> HIDE DEF before, after
    <3>3. Cardinality(after) <= Cardinality(before)
      BY <3>2, FS_Subset
    <3>4. Cardinality(Inserting(v)') <= Cardinality(Inserting(v))
      BY <3>3 DEF before, after
    <3>5. Len(vulnRows[v]) + Cardinality(Inserting(v)) <= Cardinality(Ingesters)
      BY <1>0 DEF RoomLeft
    <3> QED
      BY <2>1, <3>4, <3>5
  <2> QED
    BY <2>2, <2>3
<1> QED
  BY <1>2, <1>3, <1>5, <1>6 DEF VulnInv

\* A row that is inserted, told a score or enriched stays traced, and keeps the scores it had.
LEMMA RowSteps ==
    ASSUME V!VulnerabilityAssumption, NEW r \in V!Row, Traced(r), NEW c \in Scores
    PROVE  /\ V!Inserted(c) \in V!Row /\ Traced(V!Inserted(c))
           /\ V!Retold(r, c) \in V!Row /\ Traced(V!Retold(r, c)) /\ r.past \subseteq V!Retold(r, c).past
           /\ V!Enriched(r, c) \in V!Row /\ V!Enriched(r, c).past = r.past
           /\ c \in r.past => Traced(V!Enriched(r, c))
<1>0. V!Null \notin Scores /\ r.past \subseteq Scores
  BY DEF V!VulnerabilityAssumption, V!Row
<1>1. V!Inserted(c) \in V!Row /\ Traced(V!Inserted(c))
  BY <1>0 DEF V!Inserted, V!Row, Traced
<1>2. V!Retold(r, c) \in V!Row /\ Traced(V!Retold(r, c)) /\ r.past \subseteq V!Retold(r, c).past
  <2> DEFINE p1 == [r EXCEPT !.cvss = c]
             p2 == [p1 EXCEPT !.told = c]
             p == [p2 EXCEPT !.past = r.past \cup {c}]
  <2>1. /\ p1 \in V!Row /\ p1.cvss = c /\ p1.past = r.past /\ p1.scored = r.scored
        /\ p1.flagged = r.flagged /\ p1.riskOf = r.riskOf
    BY DEF V!Row
  <2> HIDE DEF p1
  <2>2. /\ p2 \in V!Row /\ p2.cvss = c /\ p2.told = c /\ p2.past = r.past /\ p2.scored = r.scored
        /\ p2.flagged = r.flagged /\ p2.riskOf = r.riskOf
    BY <2>1 DEF V!Row
  <2> HIDE DEF p2
  <2>3. /\ p \in V!Row /\ p.cvss = c /\ p.told = c /\ p.past = r.past \cup {c} /\ p.scored = r.scored
        /\ p.flagged = r.flagged /\ p.riskOf = r.riskOf
    BY <1>0, <2>2 DEF V!Row
  <2>4. V!Retold(r, c) = p
    BY <2>2 DEF V!Retold, p1, p2
  <2> HIDE DEF p
  <2> QED
    BY <2>3, <2>4 DEF Traced
<1>3. /\ V!Enriched(r, c) \in V!Row /\ V!Enriched(r, c).past = r.past
      /\ c \in r.past => Traced(V!Enriched(r, c))
  <2> DEFINE p1 == [r EXCEPT !.scored = TRUE]
             p2 == [p1 EXCEPT !.flagged = TRUE]
             p == [p2 EXCEPT !.riskOf = c]
  <2>1. /\ p1 \in V!Row /\ p1.scored = TRUE /\ p1.past = r.past /\ p1.cvss = r.cvss /\ p1.told = r.told
    BY DEF V!Row
  <2> HIDE DEF p1
  <2>2. /\ p2 \in V!Row /\ p2.scored = TRUE /\ p2.flagged = TRUE /\ p2.past = r.past
        /\ p2.cvss = r.cvss /\ p2.told = r.told
    BY <2>1 DEF V!Row
  <2> HIDE DEF p2
  <2>3. /\ p \in V!Row /\ p.scored = TRUE /\ p.flagged = TRUE /\ p.past = r.past
        /\ p.cvss = r.cvss /\ p.told = r.told /\ p.riskOf = c
    BY <2>2 DEF V!Row
  <2>4. V!Enriched(r, c) = p
    BY DEF V!Enriched, p1, p2
  <2> HIDE DEF p
  <2>5. c # V!Null
    BY <1>0
  <2> QED
    BY <2>3, <2>4, <2>5 DEF Traced
<1> QED
  BY <1>1, <1>2, <1>3

\* Rows that stay in their places, with the scores they had, keep what was found.
LEMMA FoundStays ==
    ASSUME VulnInv, VulnTypes', cycle' = cycle,
           \A v \in Vulns : \A n \in 1..Len(vulnRows[v]) :
              n \in 1..Len(vulnRows'[v]) /\ vulnRows[v][n].past \subseteq vulnRows'[v][n].past
    PROVE  TodoFound'
<1> SUFFICES ASSUME NEW e \in Enrichers, NEW k \in 1..Len(cycle[e].todo)
             PROVE  Found(cycle[e].todo[k])'
  BY DEF TodoFound
<1>1. cycle[e].todo \in Seq(Vulns \X V!Places \X Scores)
  BY DEF VulnInv, VulnTypes, VulnCycle
<1>2. PICK t \in Vulns \X V!Places \X Scores : t = cycle[e].todo[k]
  BY <1>1, ElementOfSeq
<1>3. Found(t)
  BY <1>2 DEF VulnInv, TodoFound
<1>4. t[1] \in Vulns
  BY <1>2
<1>5. Found(t)'
  BY <1>3, <1>4 DEF Found
<1> QED
  BY <1>2, <1>5

LEMMA VulnStores ==
    ASSUME V!VulnerabilityAssumption, VulnInv, NEW i \in Ingesters, V!StorePass(i)
    PROVE  VulnInv'
<1>0. VulnTypes /\ RowsTraced /\ RoomLeft /\ UpdatesFound /\ TodoFound /\ pass[i] \in VulnPass
      /\ cycle' = cycle /\ pass' = [pass EXCEPT ![i] = V!NoPass]
  BY DEF VulnInv, VulnTypes, V!StorePass
<1>1. V!NoPass \in VulnPass /\ V!NoPass.updates = {} /\ V!NoPass.inserts = {}
  BY EmptySeq DEF V!NoPass, VulnPass
<1> DEFINE New(v) == {d \in pass[i].inserts : d.vuln = v}
           Upd(v) == {d \in pass[i].updates : d.vuln = v}
\* What becomes of the rows of a key.
<1>2. ASSUME NEW v \in Vulns
      PROVE  \/ New(v) # {} /\ \E c \in Scores : vulnRows'[v] = Append(vulnRows[v], V!Inserted(c))
             \/ vulnRows'[v] = vulnRows[v]
             \/ /\ Len(vulnRows[v]) >= 1
                /\ \E c \in Scores : vulnRows'[v] = [vulnRows[v] EXCEPT ![1] = V!Retold(vulnRows[v][1], c)]
  <2>1. vulnRows'[v] = IF New(v) # {} THEN Append(vulnRows[v], V!Inserted((CHOOSE d \in New(v) : TRUE).cvss))
                       ELSE IF Upd(v) # {}
                            THEN [vulnRows[v] EXCEPT ![1] = V!Retold(vulnRows[v][1], (CHOOSE d \in Upd(v) : TRUE).cvss)]
                       ELSE vulnRows[v]
    BY DEF V!StorePass, V!Of
  <2>2. New(v) \subseteq Entries /\ Upd(v) \subseteq Entries
    BY <1>0 DEF VulnPass
  <2>3. CASE New(v) # {}
    <3>1. (CHOOSE d \in New(v) : TRUE) \in New(v)
      BY <2>3
    <3>2. (CHOOSE d \in New(v) : TRUE).cvss \in Scores
      BY <2>2, <3>1 DEF Entries
    <3> QED
      BY <2>1, <2>3, <3>2
  <2>4. CASE New(v) = {} /\ Upd(v) # {}
    <3>1. (CHOOSE d \in Upd(v) : TRUE) \in Upd(v)
      BY <2>4
    <3>2. (CHOOSE d \in Upd(v) : TRUE).cvss \in Scores
      BY <2>2, <3>1 DEF Entries
    <3>3. Len(vulnRows[v]) >= 1
      BY <1>0, <3>1 DEF UpdatesFound
    <3> QED
      BY <2>1, <2>4, <3>2, <3>3
  <2>5. CASE New(v) = {} /\ Upd(v) = {}
    BY <2>1, <2>5
  <2> QED
    BY <2>3, <2>4, <2>5
<1> HIDE DEF New, Upd
<1>3. ASSUME NEW v \in Vulns
      PROVE  /\ vulnRows'[v] \in Seq(V!Row)
             /\ \A n \in 1..Len(vulnRows'[v]) : Traced(vulnRows'[v][n])
             /\ Len(vulnRows'[v]) >= Len(vulnRows[v])
             /\ \A n \in 1..Len(vulnRows[v]) : vulnRows[v][n].past \subseteq vulnRows'[v][n].past
             /\ Len(vulnRows'[v]) = Len(vulnRows[v]) \/ (New(v) # {} /\ Len(vulnRows'[v]) = Len(vulnRows[v]) + 1)
  <2> DEFINE s == vulnRows[v]
  <2>0. s \in Seq(V!Row) /\ Len(s) \in Nat /\ \A n \in 1..Len(s) : s[n] \in V!Row /\ Traced(s[n])
    BY <1>0, LenProperties, ElementOfSeq DEF VulnTypes, RowsTraced
  <2> HIDE DEF s
  <2>1. ASSUME NEW c \in Scores, vulnRows'[v] = Append(s, V!Inserted(c)), New(v) # {}
        PROVE  /\ vulnRows'[v] \in Seq(V!Row)
               /\ \A n \in 1..Len(vulnRows'[v]) : Traced(vulnRows'[v][n])
               /\ \A n \in 1..Len(s) : s[n].past \subseteq vulnRows'[v][n].past
               /\ Len(vulnRows'[v]) = Len(s) + 1
    <3> DEFINE x == V!Inserted(c)
    <3>1. x \in V!Row /\ Traced(x)
      <4>0. V!Null \notin Scores
        BY DEF V!VulnerabilityAssumption
      <4> QED
        BY <4>0 DEF V!Inserted, V!Row, Traced
    <3> HIDE DEF x
    <3>2. /\ Append(s, x) \in Seq(V!Row) /\ Len(Append(s, x)) = Len(s) + 1
          /\ \A n \in 1..Len(s) : Append(s, x)[n] = s[n]
          /\ Append(s, x)[Len(s) + 1] = x
      BY <2>0, <3>1, AppendProperties
    <3>3. \A n \in 1..(Len(s) + 1) : n \in 1..Len(s) \/ n = Len(s) + 1
      BY <2>0
    <3>4. vulnRows'[v] = Append(s, x)
      BY <2>1 DEF x
    <3> QED
      BY <2>0, <3>1, <3>2, <3>3, <3>4
  <2>2. ASSUME NEW c \in Scores, vulnRows'[v] = [s EXCEPT ![1] = V!Retold(s[1], c)], Len(s) >= 1
        PROVE  /\ vulnRows'[v] \in Seq(V!Row)
               /\ \A n \in 1..Len(vulnRows'[v]) : Traced(vulnRows'[v][n])
               /\ \A n \in 1..Len(s) : s[n].past \subseteq vulnRows'[v][n].past
               /\ Len(vulnRows'[v]) = Len(s)
    <3> DEFINE x == V!Retold(s[1], c)
    <3>0. 1 \in 1..Len(s)
      BY <2>0, <2>2
    <3>1. x \in V!Row /\ Traced(x) /\ s[1].past \subseteq x.past
      <4>1. s[1] \in V!Row /\ Traced(s[1])
        BY <2>0, <3>0
      <4> QED
        BY <4>1, RowSteps
    <3> HIDE DEF x
    <3>2. /\ [s EXCEPT ![1] = x] \in Seq(V!Row) /\ Len([s EXCEPT ![1] = x]) = Len(s)
          /\ \A n \in 1..Len(s) : [s EXCEPT ![1] = x][n] = IF n = 1 THEN x ELSE s[n]
      BY <2>0, <3>0, <3>1, ExceptSeq
    <3>3. vulnRows'[v] = [s EXCEPT ![1] = x]
      BY <2>2 DEF x
    <3> QED
      BY <2>0, <3>0, <3>1, <3>2, <3>3
  <2>3. CASE New(v) # {} /\ \E c \in Scores : vulnRows'[v] = Append(s, V!Inserted(c))
    <3>1. PICK c \in Scores : vulnRows'[v] = Append(s, V!Inserted(c))
      BY <2>3
    <3> QED
      BY <2>0, <2>1, <2>3, <3>1 DEF s
  <2>4. CASE vulnRows'[v] = s
    BY <2>0, <2>4 DEF s
  <2>5. CASE Len(s) >= 1 /\ \E c \in Scores : vulnRows'[v] = [s EXCEPT ![1] = V!Retold(s[1], c)]
    <3>1. PICK c \in Scores : vulnRows'[v] = [s EXCEPT ![1] = V!Retold(s[1], c)]
      BY <2>5
    <3> QED
      BY <2>0, <2>2, <2>5, <3>1 DEF s
  <2>6. \/ New(v) # {} /\ \E c \in Scores : vulnRows'[v] = Append(s, V!Inserted(c))
        \/ vulnRows'[v] = s
        \/ Len(s) >= 1 /\ \E c \in Scores : vulnRows'[v] = [s EXCEPT ![1] = V!Retold(s[1], c)]
    BY <1>2 DEF s
  <2> QED
    BY <2>3, <2>4, <2>5, <2>6
<1>4. VulnTypes'
  <2>1. vulnRows' \in [Vulns -> Seq(V!Row)]
    <3>1. vulnRows' = [v \in Vulns |-> vulnRows'[v]]
      BY DEF V!StorePass
    <3>2. \A v \in Vulns : vulnRows'[v] \in Seq(V!Row)
      BY <1>3
    <3> QED
      BY <3>1, <3>2
  <2> QED
    BY <1>0, <1>1, <2>1 DEF VulnTypes
<1>5. RowsTraced'
  BY <1>3 DEF RowsTraced
<1>6. \A v \in Vulns : Len(vulnRows[v]) \in Nat /\ Len(vulnRows'[v]) \in Nat
  BY <1>0, <1>4, LenProperties DEF VulnTypes
<1>7. TodoFound'
  <2>1. \A v \in Vulns : \A n \in 1..Len(vulnRows[v]) :
              n \in 1..Len(vulnRows'[v]) /\ vulnRows[v][n].past \subseteq vulnRows'[v][n].past
    BY <1>3, <1>6
  <2> QED
    BY <1>0, <1>4, <2>1, FoundStays
<1>8. \A k \in Ingesters : pass'[k] = IF k = i THEN V!NoPass ELSE pass[k]
  BY <1>0 DEF VulnTypes
<1>9. UpdatesFound'
  <2> SUFFICES ASSUME NEW k \in Ingesters, NEW d \in pass'[k].updates
               PROVE  Len(vulnRows'[d.vuln]) >= 1
    BY DEF UpdatesFound
  <2>1. k # i /\ d \in pass[k].updates
    BY <1>1, <1>8
  <2>2. d.vuln \in Vulns
    BY <1>0, <2>1 DEF VulnTypes, VulnPass, Entries
  <2>3. Len(vulnRows[d.vuln]) >= 1
    BY <1>0, <2>1 DEF UpdatesFound
  <2>4. Len(vulnRows'[d.vuln]) >= Len(vulnRows[d.vuln])
    BY <1>3, <2>2
  <2> QED
    BY <1>6, <2>2, <2>3, <2>4
<1>10. RoomLeft'
  <2> SUFFICES ASSUME NEW v \in Vulns
               PROVE  Len(vulnRows'[v]) + Cardinality(Inserting(v)') <= Cardinality(Ingesters)
    BY DEF RoomLeft, Inserting
  <2>1. /\ Cardinality(Inserting(v)) \in Nat /\ IsFiniteSet(Inserting(v))
        /\ Cardinality(Inserting(v)') \in Nat /\ Cardinality(Ingesters) \in Nat
    BY InsertingCounts
  <2>2. Inserting(v)' = Inserting(v) \ {i}
    BY <1>1, <1>8 DEF Inserting
  <2>3. Len(vulnRows[v]) + Cardinality(Inserting(v)) <= Cardinality(Ingesters)
    BY <1>0 DEF RoomLeft
  <2> DEFINE before == Inserting(v)
             after == Inserting(v)'
  <2>4. IsFiniteSet(before) /\ after = before \ {i}
    BY <2>1, <2>2
  <2> HIDE DEF before, after
  <2>5. Cardinality(after) = IF i \in before THEN Cardinality(before) - 1 ELSE Cardinality(before)
    BY <2>4, FS_RemoveElement
  <2>6. New(v) # {} => i \in before
    BY DEF before, New, Inserting
  <2>7. /\ Len(vulnRows[v]) \in Nat
        /\ Len(vulnRows'[v]) = Len(vulnRows[v])
           \/ (New(v) # {} /\ Len(vulnRows'[v]) = Len(vulnRows[v]) + 1)
    BY <1>3, <1>6
  <2>8. Cardinality(Inserting(v)') = IF i \in before THEN Cardinality(Inserting(v)) - 1
                                     ELSE Cardinality(Inserting(v))
    BY <2>5 DEF before, after
  <2> QED
    BY <2>1, <2>3, <2>6, <2>7, <2>8
<1> QED
  BY <1>4, <1>5, <1>7, <1>9, <1>10 DEF VulnInv

\* What a cycle starts with is a row and a score it has had.
LEMMA UnenrichedFound ==
    ASSUME V!VulnerabilityAssumption, VulnInv
    PROVE  /\ V!Cardinality(V!Unenriched) \in Nat
           /\ \A r \in V!Unenriched :
                 LET t == <<r[1], r[2], vulnRows[r[1]][r[2]].cvss>>
                 IN  t \in Vulns \X V!Places \X Scores /\ Found(t)
<1>0. VulnTypes /\ RowsTraced
  BY DEF VulnInv
<1>1. V!Unenriched \subseteq Vulns \X V!Places
  BY DEF V!Unenriched
<1>2. IsFiniteSet(Vulns) /\ IsFiniteSet(Ingesters)
  BY VulnCardinality DEF V!VulnerabilityAssumption
<1>3. V!Places = 1..Cardinality(Ingesters) /\ Cardinality(Ingesters) \in Nat
  BY <1>2, VulnCardinality, FS_CardinalityType DEF V!Places
<1>4. IsFiniteSet(V!Places)
  BY <1>3, FS_Interval
<1>5. IsFiniteSet(Vulns \X V!Places)
  BY <1>2, <1>4, FS_Product
<1>6. IsFiniteSet(V!Unenriched)
  BY <1>1, <1>5, FS_Subset
<1>7. V!Cardinality(V!Unenriched) \in Nat
  BY <1>6, VulnCardinality, FS_CardinalityType
<1>8. ASSUME NEW r \in V!Unenriched
      PROVE  LET t == <<r[1], r[2], vulnRows[r[1]][r[2]].cvss>>
             IN  t \in Vulns \X V!Places \X Scores /\ Found(t)
  <2>1. r[1] \in Vulns /\ r[2] \in V!Places /\ r[2] <= Len(vulnRows[r[1]])
    BY DEF V!Unenriched
  <2>2. vulnRows[r[1]] \in Seq(V!Row) /\ Len(vulnRows[r[1]]) \in Nat
    BY <1>0, <2>1, LenProperties DEF VulnTypes
  <2>3. r[2] \in 1..Len(vulnRows[r[1]])
    BY <1>3, <2>1, <2>2
  <2>4. vulnRows[r[1]][r[2]] \in V!Row /\ Traced(vulnRows[r[1]][r[2]])
    BY <1>0, <2>1, <2>2, <2>3, ElementOfSeq DEF RowsTraced
  <2>5. vulnRows[r[1]][r[2]].cvss \in Scores
    BY <2>4 DEF V!Row
  <2> QED
    BY <2>1, <2>3, <2>4, <2>5 DEF Found, Traced
<1> QED
  BY <1>7, <1>8

\* A cycle starts, and its next rows are given up or it ends.
LEMMA VulnCycles ==
    ASSUME V!VulnerabilityAssumption, VulnInv, NEW e \in Enrichers,
           V!StartCycle(e) \/ V!BatchFails(e) \/ V!EndCycle(e) \/ V!BreakCycle(e)
    PROVE  VulnInv'
<1>0. VulnTypes /\ RowsTraced /\ RoomLeft /\ UpdatesFound /\ TodoFound /\ cycle[e] \in VulnCycle
      /\ UNCHANGED <<vulnRows, pass>>
  BY DEF VulnInv, VulnTypes, V!StartCycle, V!BatchFails, V!EndCycle, V!BreakCycle
<1>1. PICK c \in VulnCycle :
        /\ cycle' = [cycle EXCEPT ![e] = c]
        /\ \A k \in 1..Len(c.todo) : Found(c.todo[k])
  <2>1. ASSUME V!StartCycle(e)
        PROVE  \E c \in VulnCycle : cycle' = [cycle EXCEPT ![e] = c] /\ \A k \in 1..Len(c.todo) : Found(c.todo[k])
    <3>1. PICK order \in [1..V!Cardinality(V!Unenriched) -> V!Unenriched] :
            cycle' = [cycle EXCEPT ![e] = [on |-> TRUE, fresh |-> TRUE,
              todo |-> [i \in DOMAIN order |->
                          <<order[i][1], order[i][2], vulnRows[order[i][1]][order[i][2]].cvss>>]]]
      BY <2>1 DEF V!StartCycle
    <3>2. PICK n \in Nat : n = V!Cardinality(V!Unenriched)
      BY UnenrichedFound
    <3> DEFINE todo == [i \in 1..n |->
                          <<order[i][1], order[i][2], vulnRows[order[i][1]][order[i][2]].cvss>>]
    <3>3. DOMAIN order = 1..n /\ \A i \in 1..n : order[i] \in V!Unenriched
      BY <3>2
    <3>4. \A i \in 1..n : todo[i] \in Vulns \X V!Places \X Scores /\ Found(todo[i])
      BY <3>3, UnenrichedFound
    <3>5. todo \in Seq(Vulns \X V!Places \X Scores)
      BY <3>2, <3>4, SeqDef
    <3>6. Len(todo) = n
      BY <3>2, <3>5, LenProperties
    <3>7. cycle' = [cycle EXCEPT ![e] = [on |-> TRUE, fresh |-> TRUE, todo |-> todo]]
      BY <3>1, <3>3
    <3> HIDE DEF todo
    <3>8. [on |-> TRUE, fresh |-> TRUE, todo |-> todo] \in VulnCycle
      BY <3>5 DEF VulnCycle
    <3> QED
      BY <3>4, <3>6, <3>7, <3>8
  <2>2. /\ V!NoCycle \in VulnCycle
        /\ \A k \in 1..Len(V!NoCycle.todo) : Found(V!NoCycle.todo[k])
    BY EmptySeq DEF V!NoCycle, VulnCycle
  <2>3. ASSUME V!BatchFails(e), ~cycle[e].fresh
        PROVE  \E c \in VulnCycle : cycle' = [cycle EXCEPT ![e] = c] /\ \A k \in 1..Len(c.todo) : Found(c.todo[k])
    <3> DEFINE todo == Tail(cycle[e].todo)
    <3>1. cycle[e].todo \in Seq(Vulns \X V!Places \X Scores) /\ cycle[e].todo # <<>>
      BY <1>0, <2>3 DEF V!BatchFails, VulnCycle
    <3>2. /\ todo \in Seq(Vulns \X V!Places \X Scores) /\ Len(todo) = Len(cycle[e].todo) - 1
          /\ Len(cycle[e].todo) \in Nat /\ Len(todo) \in Nat
          /\ \A k \in 1..Len(todo) : todo[k] = cycle[e].todo[k + 1]
      BY <3>1, HeadTailProperties, LenProperties
    <3>3. \A k \in 1..Len(cycle[e].todo) : Found(cycle[e].todo[k])
      BY <1>0 DEF TodoFound
    <3>4. cycle' = [cycle EXCEPT ![e] = [cycle[e] EXCEPT !.todo = todo]]
      BY <2>3 DEF V!BatchFails
    <3> HIDE DEF todo
    <3>5. [cycle[e] EXCEPT !.todo = todo] \in VulnCycle /\ [cycle[e] EXCEPT !.todo = todo].todo = todo
      BY <1>0, <3>2 DEF VulnCycle
    <3>6. \A k \in 1..Len(todo) : Found(todo[k])
      BY <3>2, <3>3
    <3> QED
      BY <3>4, <3>5, <3>6
  <2> QED
    BY <2>1, <2>2, <2>3 DEF V!BatchFails, V!EndCycle, V!BreakCycle
<1>2. VulnTypes'
  BY <1>0, <1>1 DEF VulnTypes
<1>3. \A x \in Enrichers : cycle'[x] = IF x = e THEN c ELSE cycle[x]
  BY <1>0, <1>1 DEF VulnTypes
<1>4. TodoFound'
  <2>1. \A t : Found(t)' <=> Found(t)
    BY <1>0 DEF Found
  <2>2. \A x \in Enrichers : \A k \in 1..Len(cycle[x].todo) : Found(cycle[x].todo[k])
    BY <1>0 DEF TodoFound
  <2>3. \A x \in Enrichers : \A k \in 1..Len(cycle'[x].todo) : Found(cycle'[x].todo[k])
    BY ONLY <1>1, <1>3, <2>2
  <2> QED
    BY <2>1, <2>3 DEF TodoFound
<1>5. RowsTraced' /\ UpdatesFound'
  BY <1>0 DEF RowsTraced, UpdatesFound
<1>6. RoomLeft'
  BY <1>0 DEF RoomLeft, Inserting
<1> QED
  BY <1>2, <1>4, <1>5, <1>6 DEF VulnInv

LEMMA VulnBatches ==
    ASSUME V!VulnerabilityAssumption, VulnInv, NEW e \in Enrichers, V!EnrichBatch(e)
    PROVE  VulnInv'
<1>0. VulnTypes /\ RowsTraced /\ RoomLeft /\ UpdatesFound /\ TodoFound /\ cycle[e] \in VulnCycle
      /\ pass' = pass
  BY DEF VulnInv, VulnTypes, V!EnrichBatch
<1>1. cycle[e].todo \in Seq(Vulns \X V!Places \X Scores) /\ cycle[e].todo # <<>>
  BY <1>0 DEF V!EnrichBatch, VulnCycle
<1> DEFINE t == Head(cycle[e].todo)
           todo == Tail(cycle[e].todo)
           s == vulnRows[t[1]]
           x == V!Enriched(s[t[2]], t[3])
           s1 == [s EXCEPT ![t[2]] = x]
           c1 == [cycle[e] EXCEPT !.todo = todo]
           c2 == [c1 EXCEPT !.fresh = FALSE]
<1>2. /\ todo \in Seq(Vulns \X V!Places \X Scores) /\ Len(todo) = Len(cycle[e].todo) - 1
      /\ Len(cycle[e].todo) \in Nat /\ Len(todo) \in Nat /\ Len(cycle[e].todo) >= 1
      /\ \A k \in 1..Len(todo) : todo[k] = cycle[e].todo[k + 1]
      /\ t \in Vulns \X V!Places \X Scores /\ t = cycle[e].todo[1]
  BY <1>1, HeadTailProperties, LenProperties
<1>3. \A k \in 1..Len(cycle[e].todo) : Found(cycle[e].todo[k])
  BY <1>0 DEF TodoFound
<1>4. Found(t) /\ \A k \in 1..Len(todo) : Found(todo[k])
  BY <1>2, <1>3
<1>5. /\ vulnRows' = [vulnRows EXCEPT ![t[1]] = s1]
      /\ cycle' = [cycle EXCEPT ![e] = c2]
  BY DEF V!EnrichBatch
<1> HIDE DEF t, todo
<1>6. t[1] \in Vulns /\ t[3] \in Scores
  BY <1>2
<1>7. s \in Seq(V!Row) /\ t[2] \in 1..Len(s) /\ t[3] \in s[t[2]].past
  BY <1>0, <1>4, <1>6 DEF VulnTypes, Found
<1>8. s[t[2]] \in V!Row /\ Traced(s[t[2]])
  BY <1>0, <1>6, <1>7, ElementOfSeq DEF RowsTraced
<1>9. x \in V!Row /\ Traced(x) /\ x.past = s[t[2]].past
  BY <1>6, <1>7, <1>8, RowSteps
<1> HIDE DEF x
<1>10. /\ s1 \in Seq(V!Row) /\ Len(s1) = Len(s)
       /\ \A n \in 1..Len(s) : s1[n] = IF n = t[2] THEN x ELSE s[n]
  BY <1>7, <1>9, ExceptSeq
<1> HIDE DEF s1
<1>11. c1 \in VulnCycle /\ c1.todo = todo
  BY <1>0, <1>2 DEF VulnCycle
<1> HIDE DEF c1
<1>12. c2 \in VulnCycle /\ c2.todo = todo
  BY <1>11 DEF VulnCycle
<1> HIDE DEF c2
<1>13. VulnTypes'
  BY <1>0, <1>5, <1>10, <1>12 DEF VulnTypes
<1>14. \A v \in Vulns : vulnRows'[v] = IF v = t[1] THEN s1 ELSE vulnRows[v]
  BY <1>0, <1>5 DEF VulnTypes
<1>15. ASSUME NEW v \in Vulns
       PROVE  /\ Len(vulnRows'[v]) = Len(vulnRows[v])
              /\ \A n \in 1..Len(vulnRows[v]) :
                    vulnRows'[v][n].past = vulnRows[v][n].past /\ Traced(vulnRows'[v][n])
  <2>1. CASE v = t[1]
    BY <1>0, <1>9, <1>10, <1>14, <2>1 DEF RowsTraced
  <2>2. CASE v # t[1]
    BY <1>0, <1>14, <2>2 DEF RowsTraced
  <2> QED
    BY <2>1, <2>2
<1>16. RowsTraced'
  BY <1>15 DEF RowsTraced
<1>17. UpdatesFound'
  <2> SUFFICES ASSUME NEW k \in Ingesters, NEW d \in pass[k].updates
               PROVE  Len(vulnRows'[d.vuln]) >= 1
    BY <1>0 DEF UpdatesFound
  <2>1. d.vuln \in Vulns
    BY <1>0 DEF VulnTypes, VulnPass, Entries
  <2> QED
    BY <1>0, <1>15, <2>1 DEF UpdatesFound
<1>18. RoomLeft'
  BY <1>0, <1>15 DEF RoomLeft, Inserting
<1>19. TodoFound'
  <2> SUFFICES ASSUME NEW y \in Enrichers, NEW k \in 1..Len(cycle'[y].todo),
                      NEW z, z = cycle'[y].todo[k]
               PROVE  Found(z)'
    BY DEF TodoFound
  <2> DEFINE old == IF y = e THEN todo ELSE cycle[y].todo
  <2>1. cycle'[y].todo = old
    BY <1>0, <1>5, <1>12 DEF VulnTypes
  <2>2. old \in Seq(Vulns \X V!Places \X Scores)
    BY <1>0, <1>2 DEF VulnTypes, VulnCycle
  <2>3. \A n \in 1..Len(old) : Found(old[n])
    BY <1>0, <1>4 DEF TodoFound
  <2> HIDE DEF old
  <2>4. z = old[k] /\ z \in Vulns \X V!Places \X Scores
    BY <2>1, <2>2, ElementOfSeq
  <2>5. Found(z)
    BY <2>1, <2>3, <2>4
  <2>6. z[1] \in Vulns
    BY <2>4
  <2> QED
    BY <1>15, <2>5, <2>6 DEF Found
<1> QED
  BY <1>13, <1>16, <1>17, <1>18, <1>19 DEF VulnInv

LEMMA VulnInvHolds == V!Spec => []VulnInv
<1>0. V!VulnerabilityAssumption
  BY ServicesAssumption DEF ServicesAssumption
<1>1. ASSUME V!Init PROVE VulnInv
  <2>1. VulnTypes
    BY <1>1, EmptySeq DEF V!Init, VulnTypes, V!NoPass, V!NoCycle, VulnPass, VulnCycle
  <2>2. \A v \in Vulns : Len(vulnRows[v]) = 0
    BY <1>1 DEF V!Init
  <2>3. \A i \in Ingesters : pass[i].updates = {} /\ pass[i].inserts = {}
    BY <1>1 DEF V!Init, V!NoPass
  <2>4. \A e \in Enrichers : Len(cycle[e].todo) = 0
    BY <1>1 DEF V!Init, V!NoCycle
  <2>5. RoomLeft
    BY <1>0, <2>2, InsertingCounts DEF RoomLeft
  <2> QED
    BY <2>1, <2>2, <2>3, <2>4, <2>5 DEF VulnInv, RowsTraced, UpdatesFound, TodoFound
<1>2. ASSUME VulnInv, [V!Next]_(V!vars) PROVE VulnInv'
  <2>1. ASSUME NEW i \in Ingesters,
               \/ \E docs \in V!Docs : V!StartPass(i, docs)
               \/ V!Look(i) \/ V!LookRaises(i) \/ V!FailPass(i)
        PROVE  VulnInv'
    BY <1>0, <1>2, <2>1, VulnPasses
  <2>2. ASSUME NEW i \in Ingesters, V!StorePass(i) PROVE VulnInv'
    BY <1>0, <1>2, <2>2, VulnStores
  <2>3. ASSUME NEW e \in Enrichers, V!StartCycle(e) \/ V!BatchFails(e) \/ V!EndCycle(e) \/ V!BreakCycle(e) PROVE VulnInv'
    BY <1>0, <1>2, <2>3, VulnCycles
  <2>4. ASSUME NEW e \in Enrichers, V!EnrichBatch(e) PROVE VulnInv'
    BY <1>0, <1>2, <2>4, VulnBatches
  <2>5. CASE UNCHANGED <<vulnRows, pass, cycle>>
    BY <1>2, <2>5
    DEF VulnInv, VulnTypes, RowsTraced, RoomLeft, Inserting, UpdatesFound, TodoFound, Found
  <2>6. V!Outage \/ V!Recover \/ UNCHANGED V!vars => UNCHANGED <<vulnRows, pass, cycle>>
    BY DEF V!Outage, V!Recover, V!vars
  <2> QED
    BY <1>2, <2>1, <2>2, <2>3, <2>4, <2>5, <2>6 DEF V!Next
<1> QED
  BY <1>1, <1>2, PTL DEF V!Spec

(***************************************************************************)
(* Ingesters and enrichers share the rows without undoing each other: the  *)
(* score of a row is what the last pass wrote, its risk comes with its     *)
(* enrichment and from a score the row has had, and a key has at most one  *)
(* row for each ingester (vuln_ingester.py, vulnerability_worker.py).      *)
(***************************************************************************)
THEOREM RisksStayTraceable == V!Spec => []RiskIsTraceable
<1>0. V!VulnerabilityAssumption
  BY ServicesAssumption DEF ServicesAssumption
<1>1. VulnInv => RiskIsTraceable
  <2> SUFFICES ASSUME VulnInv, NEW v \in Vulns
               PROVE  /\ Len(vulnRows[v]) <= Cardinality(Ingesters)
                      /\ \A n \in 1..Len(vulnRows[v]) : Traced(vulnRows[v][n])
    BY VulnCardinality DEF RiskIsTraceable, V!RiskIsTraceable, Traced
  <2>1. /\ Len(vulnRows[v]) \in Nat /\ Cardinality(Inserting(v)) \in Nat /\ Cardinality(Ingesters) \in Nat
    BY <1>0, LenProperties, InsertingCounts DEF VulnInv, VulnTypes
  <2> QED
    BY <2>1 DEF VulnInv, RoomLeft, RowsTraced
<1> QED
  BY <1>1, VulnInvHolds, PTL

-----------------------------------------------------------------------------
(***************************************************************************)
(* Accounts.  What a handler has loaded says less than the row: its id is  *)
(* older than any id to come, its failed logins are counted already, and   *)
(* its branding is the committed one while nobody has saved since.         *)
(***************************************************************************)
Person == [id : Nat \ {0}, role : A!ROLES, permissions : A!ROLES, is_active : BOOLEAN,
           attempts : Nat, locked : Nat]
Token == [role : A!ROLES, permissions : A!ROLES, exp : Nat]
LoginAsked == [op : {"login"}, user : Person, right : BOOLEAN]
CreateAsked == [op : {"create"}, user : Person \cup {A!Gone}, role : A!ROLES]
UpdateAsked == [op : {"update"}, user : Person, role : A!ROLES \cup {A!Keep}, active : {"on", "off", A!Keep}]
DeleteAsked == [op : {"delete"}, user : Person]
TenantAsked == [op : {"tenant"}, tenant : A!Tenant, change : A!Changes, writes : Nat]
Asked == {A!Idle} \cup LoginAsked \cup CreateAsked \cup UpdateAsked \cup DeleteAsked \cup TenantAsked

AccountTypes ==
  /\ user \in Person \cup {A!Gone}
  /\ tenant \in A!Tenant
  /\ accountRequest \in [Handlers -> Asked]
  /\ tokens \subseteq Token
  /\ accountNow \in Nat /\ accountRequests \in Nat /\ loginFailures \in Nat
  /\ saved \in [branding : [A!Parts -> Colours \cup {A!Default}], sure : SUBSET A!Parts, writes : Nat]

UserAgrees ==
  user # A!Gone =>
    /\ user.permissions = user.role
    /\ user.role = granted.role /\ user.is_active = granted.is_active
    /\ user.id <= accountRequests
    /\ user.attempts <= loginFailures
    /\ user.locked # 0 => loginFailures >= LockAfter
TokensAgree == \A t \in tokens : t.permissions = t.role
BrandingAgrees == \A p \in saved.sure : tenant.branding[p] = saved.branding[p]

LoadedUser(q) ==
  q.op \in {"login", "create", "update", "delete"} =>
    /\ accountRequests >= 1
    /\ q.user # A!Gone =>
         /\ q.user.permissions = q.user.role
         /\ q.user.id < accountRequests
         /\ A!Same(q) => q.user.attempts <= loginFailures
LoadedTenant(q) ==
  q.op = "tenant" =>
    /\ q.writes <= saved.writes
    /\ q.writes = saved.writes => q.tenant.branding = tenant.branding
AllLoaded == \A h \in Handlers : LoadedUser(accountRequest[h]) /\ LoadedTenant(accountRequest[h])

AccountInv == AccountTypes /\ UserAgrees /\ TokensAgree /\ BrandingAgrees /\ AllLoaded

LEMMA PersonIsNotGone == \A x \in Person : x # A!Gone /\ x.id \in Nat /\ x.id # 0 /\ A!Gone.id = 0
BY DEF Person, A!Gone

\* What a request is follows from its operation.
LEMMA AskedByOp ==
    ASSUME NEW q \in Asked
    PROVE  /\ q.op = "login" => q \in LoginAsked
           /\ q.op = "create" => q \in CreateAsked
           /\ q.op = "update" => q \in UpdateAsked
           /\ q.op = "delete" => q \in DeleteAsked
           /\ q.op = "tenant" => q \in TenantAsked
BY DEF Asked, LoginAsked, CreateAsked, UpdateAsked, DeleteAsked, TenantAsked, A!Idle

LEMMA AccountLoads ==
    ASSUME AccountInv, NEW h \in Handlers, NEW q \in Asked, A!Load(h, q),
           q.op \in {"login", "create", "update", "delete"} => q.user = user,
           q.op = "tenant" => q.tenant = tenant /\ q.writes = saved.writes
    PROVE  AccountInv'
<1>0. /\ AccountTypes /\ UserAgrees /\ TokensAgree /\ BrandingAgrees /\ AllLoaded
      /\ accountRequests' = accountRequests + 1 /\ accountRequest' = [accountRequest EXCEPT ![h] = q]
      /\ UNCHANGED <<user, tenant, tokens, accountNow, loginFailures, granted, saved>>
  BY DEF AccountInv, A!Load
<1>1. AccountTypes'
  BY <1>0 DEF AccountTypes
<1>2. UserAgrees'
  <2>1. user # A!Gone => user.id \in Nat
    BY <1>0, PersonIsNotGone DEF AccountTypes
  <2> QED
    BY <1>0, <2>1 DEF UserAgrees, AccountTypes
<1>3. TokensAgree' /\ BrandingAgrees'
  BY <1>0 DEF TokensAgree, BrandingAgrees
<1>4. \A k \in Handlers : accountRequest'[k] = IF k = h THEN q ELSE accountRequest[k]
  BY <1>0 DEF AccountTypes
<1>5. LoadedUser(q)' /\ LoadedTenant(q)'
  <2>1. user # A!Gone => user.id \in Nat
    BY <1>0, PersonIsNotGone DEF AccountTypes
  <2>2. LoadedUser(q)'
    BY <1>0, <2>1 DEF LoadedUser, UserAgrees, AccountTypes
  <2>3. LoadedTenant(q)'
    BY <1>0 DEF LoadedTenant, AccountTypes
  <2> QED
    BY <2>2, <2>3
<1>6. ASSUME NEW k \in Handlers, NEW x, x = accountRequest'[k]
      PROVE  LoadedUser(x)' /\ LoadedTenant(x)'
  <2>1. CASE k = h
    BY <1>4, <1>5, <1>6, <2>1
  <2>2. CASE k # h
    <3>1. x = accountRequest[k] /\ x \in Asked /\ LoadedUser(x) /\ LoadedTenant(x)
      BY <1>0, <1>4, <1>6, <2>2 DEF AllLoaded, AccountTypes
    <3>2. x.op \in {"login", "create", "update", "delete"} /\ x.user # A!Gone => x.user.id \in Nat
      BY <3>1, AskedByOp, PersonIsNotGone DEF LoginAsked, CreateAsked, UpdateAsked, DeleteAsked
    <3>3. LoadedUser(x)'
      BY <1>0, <3>1, <3>2 DEF LoadedUser, A!Same, AccountTypes
    <3>4. LoadedTenant(x)'
      BY <1>0, <3>1 DEF LoadedTenant
    <3> QED
      BY <3>3, <3>4
  <2> QED
    BY <2>1, <2>2
<1>7. AllLoaded'
  BY <1>6 DEF AllLoaded
<1> QED
  BY <1>1, <1>2, <1>3, <1>7 DEF AccountInv

\* A handler returns, and the row of the user is gone, new, or the same with no fewer failed logins.
LEMMA AccountReturns ==
    ASSUME AccountInv, NEW h \in Handlers,
           accountRequest' = [accountRequest EXCEPT ![h] = A!Idle],
           UNCHANGED <<tenant, saved, accountNow, accountRequests>>,
           user' \in Person \cup {A!Gone}, tokens' \subseteq Token, loginFailures' \in Nat,
           \/ user' = A!Gone
           \/ user'.id = accountRequests
           \/ user # A!Gone /\ user'.id = user.id /\ loginFailures' >= loginFailures
           \/ user' = user /\ loginFailures' = loginFailures,
           UserAgrees', TokensAgree'
    PROVE  AccountInv'
<1>0. AccountTypes /\ BrandingAgrees /\ AllLoaded
  BY DEF AccountInv
<1>1. AccountTypes'
  BY <1>0 DEF AccountTypes, Asked
<1>2. BrandingAgrees'
  BY <1>0 DEF BrandingAgrees
<1>3. \A k \in Handlers : accountRequest'[k] = IF k = h THEN A!Idle ELSE accountRequest[k]
  BY <1>0 DEF AccountTypes
<1>4. ASSUME NEW k \in Handlers, NEW x, x = accountRequest'[k]
      PROVE  LoadedUser(x)' /\ LoadedTenant(x)'
  <2>1. CASE k = h
    <3>1. x.op = "idle"
      BY <1>3, <1>4, <2>1 DEF A!Idle
    <3> QED
      BY <3>1 DEF LoadedUser, LoadedTenant
  <2>2. CASE k # h
    <3>1. x = accountRequest[k] /\ x \in Asked /\ LoadedUser(x) /\ LoadedTenant(x)
      BY <1>0, <1>3, <1>4, <2>2 DEF AllLoaded, AccountTypes
    <3>2. x.op \in {"login", "create", "update", "delete"} /\ x.user # A!Gone =>
            x.user \in Person /\ x.user.id \in Nat /\ x.user.attempts \in Nat
      BY <3>1, AskedByOp, PersonIsNotGone DEF LoginAsked, CreateAsked, UpdateAsked, DeleteAsked, Person
    <3>3. /\ accountRequests \in Nat /\ loginFailures \in Nat
          /\ user # A!Gone => user.id \in Nat
          /\ user' # A!Gone => user'.id \in Nat
      BY <1>0, PersonIsNotGone DEF AccountTypes
    <3>4. ASSUME x.op \in {"login", "create", "update", "delete"}, x.user # A!Gone, A!Same(x)'
          PROVE  x.user.attempts <= loginFailures'
      <4>1. user' # A!Gone /\ user'.id = x.user.id /\ x.user.id < accountRequests
        BY <3>1, <3>4 DEF A!Same, LoadedUser
      <4>2. user # A!Gone /\ user'.id = user.id /\ loginFailures' >= loginFailures
        BY <3>2, <3>3, <3>4, <4>1
      <4>3. A!Same(x)
        BY <4>1, <4>2 DEF A!Same
      <4>4. x.user.attempts <= loginFailures
        BY <3>1, <3>4, <4>3 DEF LoadedUser
      <4> QED
        BY <3>2, <3>3, <3>4, <4>2, <4>4
    <3>5. LoadedUser(x)'
      BY <3>1, <3>4 DEF LoadedUser
    <3>6. LoadedTenant(x)'
      BY <3>1 DEF LoadedTenant
    <3> QED
      BY <3>5, <3>6
  <2> QED
    BY <2>1, <2>2
<1>5. AllLoaded'
  BY <1>4 DEF AllLoaded
<1> QED
  BY <1>1, <1>2, <1>5 DEF AccountInv

\* The UPDATEs of a login keep a row a row, and touch only its count and its lock.
LEMMA LoginUpdates ==
    ASSUME A!AccountAssumption, user \in Person, accountNow \in Nat, NEW u \in Person
    PROVE  /\ A!AfterFailure(u) \in Person /\ A!AfterSuccess(u) \in Person
           /\ \A x \in {A!AfterFailure(u), A!AfterSuccess(u)} :
                /\ x.id = user.id /\ x.role = user.role /\ x.permissions = user.permissions
                /\ x.is_active = user.is_active
           /\ A!AfterFailure(u).attempts = u.attempts + 1
           /\ A!AfterFailure(u).locked # 0 => u.attempts + 1 >= LockAfter \/ user.locked # 0
           /\ A!AfterSuccess(u).attempts \in {0, user.attempts}
           /\ A!AfterSuccess(u).locked \in {0, user.locked}
<1>0. /\ LockAfter \in Nat /\ LockTime \in Nat
      /\ u.attempts \in Nat /\ u.locked \in Nat /\ user.locked \in Nat /\ user.attempts \in Nat
  BY DEF A!AccountAssumption, Person
<1> DEFINE lock == IF u.attempts + 1 >= LockAfter THEN accountNow + LockTime
                   ELSE IF u.locked # 0 THEN 0 ELSE user.locked
           f1 == [user EXCEPT !.attempts = u.attempts + 1]
           f2 == [f1 EXCEPT !.locked = lock]
           zero == IF u.attempts # 0 THEN 0 ELSE user.attempts
           open == IF u.locked # 0 THEN 0 ELSE user.locked
           s1 == [user EXCEPT !.attempts = zero]
           s2 == [s1 EXCEPT !.locked = open]
<1>1. lock \in Nat /\ (lock # 0 => u.attempts + 1 >= LockAfter \/ user.locked # 0)
  BY <1>0
<1>2. zero \in {0, user.attempts} /\ open \in {0, user.locked} /\ zero \in Nat /\ open \in Nat
  BY <1>0
<1>3. /\ f1 \in Person /\ f1.id = user.id /\ f1.role = user.role /\ f1.permissions = user.permissions
      /\ f1.is_active = user.is_active /\ f1.attempts = u.attempts + 1 /\ f1.locked = user.locked
  BY <1>0 DEF Person
<1>4. /\ s1 \in Person /\ s1.id = user.id /\ s1.role = user.role /\ s1.permissions = user.permissions
      /\ s1.is_active = user.is_active /\ s1.attempts = zero /\ s1.locked = user.locked
  BY <1>2 DEF Person
<1>5. A!AfterFailure(u) = f2 /\ A!AfterSuccess(u) = s2
  BY <1>3, <1>4 DEF A!AfterFailure, A!AfterSuccess
<1> HIDE DEF f1, s1, lock, zero, open
<1>6. /\ f2 \in Person /\ f2.id = user.id /\ f2.role = user.role /\ f2.permissions = user.permissions
      /\ f2.is_active = user.is_active /\ f2.attempts = u.attempts + 1 /\ f2.locked = lock
  BY <1>1, <1>3 DEF Person
<1>7. /\ s2 \in Person /\ s2.id = user.id /\ s2.role = user.role /\ s2.permissions = user.permissions
      /\ s2.is_active = user.is_active /\ s2.attempts = zero /\ s2.locked = open
  BY <1>2, <1>4 DEF Person
<1> HIDE DEF f2, s2
<1> QED
  BY <1>1, <1>2, <1>5, <1>6, <1>7

\* A handler that has loaded the row that is there.
LEMMA LoadedRow ==
    ASSUME AccountInv, NEW h \in Handlers, A!Same(accountRequest[h]),
           accountRequest[h].op \in {"login", "update"}
    PROVE  LET u == accountRequest[h].user IN
           /\ user \in Person /\ u \in Person /\ user # A!Gone
           /\ u.permissions = u.role /\ u.attempts <= loginFailures
<1>1. accountRequest[h] \in Asked /\ LoadedUser(accountRequest[h]) /\ user \in Person
  BY PersonIsNotGone DEF AccountInv, AccountTypes, AllLoaded, A!Same
<1>2. accountRequest[h].user \in Person
  BY <1>1, AskedByOp DEF LoginAsked, UpdateAsked
<1> QED
  BY <1>1, <1>2, PersonIsNotGone DEF LoadedUser

LEMMA AccountLogins ==
    ASSUME A!AccountAssumption, AccountInv, NEW h \in Handlers, A!LoginFails(h) \/ A!LoginSucceeds(h)
    PROVE  AccountInv'
<1> DEFINE u == accountRequest[h].user
<1>0. /\ AccountTypes /\ UserAgrees /\ TokensAgree
      /\ A!Same(accountRequest[h]) /\ accountRequest[h].op = "login"
      /\ accountRequest' = [accountRequest EXCEPT ![h] = A!Idle]
      /\ UNCHANGED <<tenant, saved, granted, accountNow, accountRequests>>
  BY DEF AccountInv, A!LoginFails, A!LoginSucceeds, A!Return
<1>1. /\ user \in Person /\ u \in Person /\ user # A!Gone
      /\ u.permissions = u.role /\ u.attempts <= loginFailures
  BY <1>0, LoadedRow
<1>2. /\ accountNow \in Nat /\ loginFailures \in Nat /\ LockAfter \in Nat /\ TokenLife \in Nat
      /\ u.attempts \in Nat /\ user.attempts \in Nat /\ u.role \in A!ROLES
  BY <1>0, <1>1 DEF AccountTypes, A!AccountAssumption, Person
<1> HIDE DEF u
<1>3. /\ user.permissions = user.role /\ user.role = granted.role /\ user.is_active = granted.is_active
      /\ user.id <= accountRequests /\ user.attempts <= loginFailures
      /\ user.locked # 0 => loginFailures >= LockAfter
  BY <1>0, <1>1 DEF UserAgrees
<1>4. CASE A!LoginFails(h)
  <2>1. user' = A!AfterFailure(u) /\ loginFailures' = loginFailures + 1 /\ tokens' = tokens
    BY <1>4 DEF A!LoginFails, u
  <2>2. /\ user' \in Person /\ user'.id = user.id /\ user'.role = user.role
        /\ user'.permissions = user.permissions /\ user'.is_active = user.is_active
        /\ user'.attempts = u.attempts + 1
        /\ user'.locked # 0 => u.attempts + 1 >= LockAfter \/ user.locked # 0
    BY <1>1, <1>2, <2>1, LoginUpdates
  <2>3. UserAgrees'
    BY <1>0, <1>1, <1>2, <1>3, <2>1, <2>2 DEF UserAgrees
  <2>4. TokensAgree' /\ tokens' \subseteq Token
    BY <1>0, <2>1 DEF TokensAgree, AccountTypes
  <2>5. loginFailures' \in Nat /\ loginFailures' >= loginFailures
    BY <1>2, <2>1
  <2> QED
    BY <1>0, <1>1, <2>2, <2>3, <2>4, <2>5, AccountReturns
<1>5. CASE A!LoginSucceeds(h)
  <2>1. user' = A!AfterSuccess(u) /\ loginFailures' = loginFailures /\ tokens' = tokens \cup {A!Token(u)}
    BY <1>5 DEF A!LoginSucceeds, u
  <2>2. /\ user' \in Person /\ user'.id = user.id /\ user'.role = user.role
        /\ user'.permissions = user.permissions /\ user'.is_active = user.is_active
        /\ user'.attempts \in {0, user.attempts} /\ user'.locked \in {0, user.locked}
    BY <1>1, <1>2, <2>1, LoginUpdates
  <2>3. UserAgrees'
    BY <1>0, <1>1, <1>2, <1>3, <2>1, <2>2 DEF UserAgrees
  <2>4. A!Token(u) \in Token /\ A!Token(u).permissions = A!Token(u).role
    BY <1>1, <1>2 DEF A!Token, Token
  <2>5. TokensAgree' /\ tokens' \subseteq Token
    BY <1>0, <2>1, <2>4 DEF TokensAgree, AccountTypes
  <2>6. loginFailures' \in Nat /\ loginFailures' >= loginFailures
    BY <1>2, <2>1
  <2> QED
    BY <1>0, <1>1, <2>2, <2>3, <2>5, <2>6, AccountReturns
<1> QED
  BY <1>4, <1>5

LEMMA AccountCommits ==
    ASSUME AccountInv, NEW h \in Handlers,
           \/ A!CommitCreate(h) \/ A!CommitUpdate(h) \/ A!CommitDelete(h)
           \/ A!LoginRefused(h) \/ A!Fail(h)
    PROVE  AccountInv'
<1> DEFINE q == accountRequest[h]
<1>0. /\ AccountTypes /\ UserAgrees /\ TokensAgree /\ q \in Asked
      /\ tokens' \subseteq Token /\ TokensAgree'
      /\ accountRequest' = [accountRequest EXCEPT ![h] = A!Idle]
      /\ UNCHANGED <<tenant, saved, tokens, accountNow, accountRequests>>
  BY DEF AccountInv, AccountTypes, TokensAgree, A!CommitCreate, A!CommitUpdate, A!CommitDelete,
         A!LoginRefused, A!Fail, A!Refused, A!Return
<1>1. ASSUME UNCHANGED <<user, loginFailures, granted>> PROVE AccountInv'
  <2>1. UserAgrees'
    BY <1>0, <1>1 DEF UserAgrees
  <2>2. user' \in Person \cup {A!Gone} /\ loginFailures' \in Nat
    BY <1>0, <1>1 DEF AccountTypes
  <2> QED
    BY <1>0, <1>1, <2>1, <2>2, AccountReturns
<1>2. CASE A!LoginRefused(h) \/ A!Fail(h)
  BY <1>1, <1>2 DEF A!LoginRefused, A!Fail, A!Refused
<1>3. CASE A!CommitCreate(h)
  <2>1. CASE q.user # A!Gone \/ user # A!Gone
    BY <1>1, <1>3, <2>1 DEF A!CommitCreate, A!Refused
  <2>2. CASE ~(q.user # A!Gone \/ user # A!Gone)
    <3>1. /\ user' = A!Fresh(accountRequests, q.role) /\ loginFailures' = 0
          /\ granted' = [role |-> q.role, is_active |-> TRUE] /\ q.role \in A!ROLES
      BY <1>0, <1>3, <2>2, AskedByOp DEF A!CommitCreate, CreateAsked
    <3>2. accountRequests \in Nat /\ accountRequests >= 1
      BY <1>0, <1>3 DEF A!CommitCreate, AccountInv, AccountTypes, AllLoaded, LoadedUser
    <3>3. /\ user' \in Person /\ user'.id = accountRequests /\ user'.permissions = q.role
          /\ user'.role = q.role /\ user'.is_active = TRUE /\ user'.attempts = 0 /\ user'.locked = 0
      BY <3>1, <3>2 DEF A!Fresh, Person
    <3>4. /\ granted'.role = q.role /\ granted'.is_active = TRUE
          /\ accountRequests' = accountRequests /\ 0 <= loginFailures'
      BY <1>0, <3>1
    <3> HIDE DEF q
    <3>5. user'.id <= accountRequests' /\ user'.attempts <= loginFailures'
      BY <3>1, <3>2, <3>3, <3>4
    <3>6. UserAgrees'
      BY <3>3, <3>4, <3>5 DEF UserAgrees
    <3> QED
      BY <1>0, <3>1, <3>3, <3>6, AccountReturns
  <2> QED
    BY <2>1, <2>2
<1>4. CASE A!CommitUpdate(h)
  <2>1. CASE ~A!Same(q)
    BY <1>1, <1>4, <2>1 DEF A!CommitUpdate, A!Refused
  <2>2. CASE A!Same(q)
    <3> DEFINE roled == q.role \notin {A!Keep, q.user.role}
               actived == q.active \notin {A!Keep, IF q.user.is_active THEN "on" ELSE "off"}
               role == IF roled THEN q.role ELSE user.role
               perm == IF roled THEN q.role ELSE user.permissions
               on == IF actived THEN q.active = "on" ELSE user.is_active
               u1 == [user EXCEPT !.role = role]
               u2 == [u1 EXCEPT !.permissions = perm]
               u3 == [u2 EXCEPT !.is_active = on]
    <3>1. user \in Person /\ user # A!Gone /\ q \in UpdateAsked
      BY <1>0, <1>4, <2>2, LoadedRow, AskedByOp DEF A!CommitUpdate
    <3>2. /\ user.permissions = user.role /\ user.role = granted.role /\ user.is_active = granted.is_active
          /\ user.id <= accountRequests /\ user.attempts <= loginFailures
          /\ user.locked # 0 => loginFailures >= LockAfter
      BY <1>0, <3>1 DEF UserAgrees
    <3>3. /\ user' = u3 /\ loginFailures' = loginFailures
          /\ granted' = [role |-> IF roled THEN q.role ELSE granted.role,
                         is_active |-> IF actived THEN q.active = "on" ELSE granted.is_active]
      BY <1>4, <2>2 DEF A!CommitUpdate
    <3>4. role \in A!ROLES /\ perm \in A!ROLES /\ on \in BOOLEAN
      BY <3>1 DEF UpdateAsked, Person
    <3>5. role = perm /\ role = granted'.role /\ on = granted'.is_active
      BY <3>2, <3>3
    <3> HIDE DEF role, perm, on
    <3>6. /\ u1 \in Person /\ u1.role = role /\ u1.id = user.id /\ u1.attempts = user.attempts
          /\ u1.locked = user.locked
      BY <3>1, <3>4 DEF Person
    <3> HIDE DEF u1
    <3>7. /\ u2 \in Person /\ u2.role = role /\ u2.permissions = perm /\ u2.id = user.id
          /\ u2.attempts = user.attempts /\ u2.locked = user.locked
      BY <3>4, <3>6 DEF Person
    <3> HIDE DEF u2
    <3>8. /\ u3 \in Person /\ u3.role = role /\ u3.permissions = perm /\ u3.id = user.id
          /\ u3.is_active = on /\ u3.attempts = user.attempts /\ u3.locked = user.locked
      BY <3>4, <3>7 DEF Person
    <3> HIDE DEF u3
    <3>9. UserAgrees'
      BY <1>0, <3>2, <3>3, <3>5, <3>8 DEF UserAgrees
    <3>10. loginFailures' \in Nat /\ loginFailures' >= loginFailures
      BY <1>0, <3>3 DEF AccountTypes
    <3> QED
      BY <1>0, <3>1, <3>3, <3>8, <3>9, <3>10, AccountReturns
  <2> QED
    BY <2>1, <2>2
<1>5. CASE A!CommitDelete(h)
  <2>1. CASE ~A!Same(q)
    BY <1>1, <1>5, <2>1 DEF A!CommitDelete
  <2>2. CASE A!Same(q)
    <3>1. user' = A!Gone /\ loginFailures' = loginFailures
      BY <1>5, <2>2 DEF A!CommitDelete
    <3>2. UserAgrees' /\ loginFailures' \in Nat
      BY <1>0, <3>1 DEF UserAgrees, AccountTypes
    <3> QED
      BY <1>0, <3>1, <3>2, AccountReturns
  <2> QED
    BY <2>1, <2>2
<1> QED
  BY <1>2, <1>3, <1>4, <1>5

\* A change of the tenant is saved over what the handler has loaded.
LEMMA TenantCommits ==
    ASSUME AccountInv, NEW h \in Handlers, A!CommitTenant(h)
    PROVE  AccountInv'
<1> DEFINE q == accountRequest[h]
           read == q.tenant.branding
           to == A!Branding(read, q.change)
           set == IF q.change.kind = "config" THEN A!Parts ELSE {q.change.part}
           Brand == [A!Parts -> Colours \cup {A!Default}]
<1>0. /\ AccountTypes /\ UserAgrees /\ TokensAgree /\ BrandingAgrees /\ AllLoaded
      /\ q \in TenantAsked /\ LoadedTenant(q) /\ q.op = "tenant"
      /\ accountRequest' = [accountRequest EXCEPT ![h] = A!Idle]
      /\ UNCHANGED <<user, tokens, accountNow, accountRequests, loginFailures, granted>>
  BY AskedByOp DEF AccountInv, AccountTypes, AllLoaded, A!CommitTenant, A!Return
<1>1. /\ tenant \in A!Tenant /\ tenant.branding \in Brand /\ read \in Brand /\ q.change \in A!Changes
      /\ q.tenant.is_active \in BOOLEAN /\ tenant.is_active \in BOOLEAN
      /\ saved.branding \in Brand /\ saved.sure \subseteq A!Parts /\ saved.writes \in Nat /\ q.writes \in Nat
  BY <1>0 DEF AccountTypes, TenantAsked, A!Tenant
\* What becomes of the branding.
<1>2. /\ tenant' \in A!Tenant
      /\ saved' \in [branding : Brand, sure : SUBSET A!Parts, writes : Nat]
      /\ BrandingAgrees'
      /\ \/ saved'.writes = saved.writes /\ tenant'.branding = tenant.branding
         \/ saved'.writes = saved.writes + 1
  <2>1. CASE q.change.kind = "active"
    <3> DEFINE on == IF q.change.to # q.tenant.is_active THEN q.change.to ELSE tenant.is_active
    <3>1. q.change.to \in BOOLEAN
      BY <1>1, <2>1 DEF A!Changes
    <3>2. on \in BOOLEAN /\ tenant' = [tenant EXCEPT !.is_active = on] /\ saved' = saved
      BY <1>1, <2>1, <3>1 DEF A!CommitTenant
    <3> HIDE DEF on
    <3>3. tenant' \in A!Tenant /\ tenant'.branding = tenant.branding
      BY <1>1, <3>2 DEF A!Tenant
    <3> QED
      BY <1>0, <3>2, <3>3 DEF BrandingAgrees, AccountTypes
  <2>2. CASE q.change.kind # "active"
    <3>1. to \in Brand /\ set \subseteq A!Parts /\ \A p \in A!Parts \ set : to[p] = read[p]
      <4>1. CASE q.change.kind = "config"
        <5>1. q.change.to \in [A!Parts -> Colours]
          BY <1>1, <4>1 DEF A!Changes
        <5> QED
          BY <4>1, <5>1 DEF A!Branding
      <4>2. CASE q.change.kind # "config"
        <5>1. q.change.part \in A!Parts /\ q.change.to \in Colours
          BY <1>1, <2>2, <4>2 DEF A!Changes
        <5>2. to = [read EXCEPT ![q.change.part] = q.change.to]
          BY <4>2 DEF A!Branding
        <5> QED
          BY <1>1, <4>2, <5>1, <5>2
      <4> QED
        BY <4>1, <4>2
    <3> DEFINE put == IF to # read THEN to ELSE tenant.branding
               mix == [p \in A!Parts |-> IF p \in set THEN to[p] ELSE saved.branding[p]]
               sure == IF q.writes # saved.writes THEN {} ELSE saved.sure \cup set
    <3>2. /\ tenant' = [tenant EXCEPT !.branding = put]
          /\ saved' = [branding |-> mix, sure |-> sure, writes |-> saved.writes + 1]
      BY <2>2 DEF A!CommitTenant
    <3>3. put \in Brand /\ mix \in Brand /\ sure \subseteq A!Parts
      BY <1>1, <3>1
    <3>4. \A p \in sure : put[p] = mix[p]
      <4> SUFFICES ASSUME NEW p \in sure PROVE put[p] = mix[p]
        OBVIOUS
      <4>1. q.writes = saved.writes /\ p \in saved.sure \cup set /\ p \in A!Parts
        BY <3>3
      <4>2. read = tenant.branding
        BY <1>0, <4>1 DEF LoadedTenant
      <4>3. put = to
        BY <4>2
      <4>4. CASE p \in set
        BY <4>1, <4>3, <4>4
      <4>5. CASE p \notin set
        <5>1. to[p] = tenant.branding[p]
          BY <3>1, <4>1, <4>2, <4>5
        <5>2. tenant.branding[p] = saved.branding[p]
          BY <1>0, <4>1, <4>5 DEF BrandingAgrees
        <5> QED
          BY <4>1, <4>3, <4>5, <5>1, <5>2
      <4> QED
        BY <4>4, <4>5
    <3> HIDE DEF put, mix, sure
    <3>5. tenant' \in A!Tenant /\ tenant'.branding = put
      BY <1>1, <3>2, <3>3 DEF A!Tenant
    <3>6. /\ saved' \in [branding : Brand, sure : SUBSET A!Parts, writes : Nat]
          /\ saved'.branding = mix /\ saved'.sure = sure /\ saved'.writes = saved.writes + 1
      BY <1>1, <3>2, <3>3
    <3> QED
      BY <3>4, <3>5, <3>6 DEF BrandingAgrees
  <2> QED
    BY <2>1, <2>2
<1>3. AccountTypes'
  BY <1>0, <1>2 DEF AccountTypes, Asked
<1>4. UserAgrees' /\ TokensAgree'
  BY <1>0 DEF UserAgrees, TokensAgree
<1>5. \A k \in Handlers : accountRequest'[k] = IF k = h THEN A!Idle ELSE accountRequest[k]
  BY <1>0 DEF AccountTypes
<1>6. ASSUME NEW k \in Handlers, NEW x, x = accountRequest'[k]
      PROVE  LoadedUser(x)' /\ LoadedTenant(x)'
  <2>1. CASE k = h
    <3>1. x.op = "idle"
      BY <1>5, <1>6, <2>1 DEF A!Idle
    <3> QED
      BY <3>1 DEF LoadedUser, LoadedTenant
  <2>2. CASE k # h
    <3>1. x = accountRequest[k] /\ x \in Asked /\ LoadedUser(x) /\ LoadedTenant(x)
      BY <1>0, <1>5, <1>6, <2>2 DEF AllLoaded, AccountTypes
    <3>2. x.op = "tenant" => x.writes \in Nat
      BY <3>1, AskedByOp DEF TenantAsked
    <3>3. LoadedUser(x)'
      BY <1>0, <3>1 DEF LoadedUser, A!Same
    <3>4. LoadedTenant(x)'
      BY <1>1, <1>2, <3>1, <3>2 DEF LoadedTenant
    <3> QED
      BY <3>3, <3>4
  <2> QED
    BY <2>1, <2>2
<1>7. AllLoaded'
  BY <1>6 DEF AllLoaded
<1> QED
  BY <1>2, <1>3, <1>4, <1>7 DEF AccountInv

LEMMA AccountInvHolds == A!Spec => []AccountInv
<1>0. A!AccountAssumption
  BY ServicesAssumption DEF ServicesAssumption
<1>1. A!Init => AccountInv
  <2> SUFFICES ASSUME A!Init PROVE AccountInv
    OBVIOUS
  <2>1. [p \in A!Parts |-> A!Default] \in [A!Parts -> Colours \cup {A!Default}]
    OBVIOUS
  <2>2. /\ tenant \in A!Tenant
        /\ saved \in [branding : [A!Parts -> Colours \cup {A!Default}], sure : SUBSET A!Parts, writes : Nat]
        /\ saved.branding = tenant.branding
    BY <2>1 DEF A!Init, A!Tenant
  <2>3. AccountTypes
    BY <2>2 DEF A!Init, AccountTypes, Asked
  <2>4. \A h \in Handlers : accountRequest[h].op = "idle"
    BY DEF A!Init, A!Idle
  <2>5. AllLoaded
    BY <2>4 DEF AllLoaded, LoadedUser, LoadedTenant
  <2> QED
    BY <2>2, <2>3, <2>5 DEF AccountInv, A!Init, UserAgrees, TokensAgree, BrandingAgrees
<1>2. AccountInv /\ [A!Next]_(A!vars) => AccountInv'
  <2> SUFFICES ASSUME AccountInv, [A!Next]_(A!vars) PROVE AccountInv'
    OBVIOUS
  <2>0. AccountTypes
    BY DEF AccountInv
  <2>1. ASSUME NEW h \in Handlers, NEW right \in BOOLEAN, A!ReadLogin(h, right) PROVE AccountInv'
    <3> DEFINE q == [op |-> "login", user |-> user, right |-> right]
    <3>1. q \in Asked /\ A!Load(h, q)
      BY <2>0, <2>1 DEF A!ReadLogin, AccountTypes, Asked, LoginAsked
    <3>2. q.op = "login" /\ q.user = user
      OBVIOUS
    <3> HIDE DEF q
    <3> QED
      BY <3>1, <3>2, AccountLoads
  <2>2. ASSUME NEW h \in Handlers, NEW role \in A!ROLES, A!ReadCreate(h, role) PROVE AccountInv'
    <3> DEFINE q == [op |-> "create", user |-> user, role |-> role]
    <3>1. q \in Asked /\ A!Load(h, q)
      BY <2>0, <2>2 DEF A!ReadCreate, AccountTypes, Asked, CreateAsked
    <3>2. q.op = "create" /\ q.user = user
      OBVIOUS
    <3> HIDE DEF q
    <3> QED
      BY <3>1, <3>2, AccountLoads
  <2>3. ASSUME NEW h \in Handlers, NEW role \in A!ROLES \cup {A!Keep}, NEW active \in {"on", "off", A!Keep},
               A!ReadUpdate(h, role, active)
        PROVE  AccountInv'
    <3> DEFINE q == [op |-> "update", user |-> user, role |-> role, active |-> active]
    <3>1. q \in Asked /\ A!Load(h, q)
      BY <2>0, <2>3 DEF A!ReadUpdate, AccountTypes, Asked, UpdateAsked
    <3>2. q.op = "update" /\ q.user = user
      OBVIOUS
    <3> HIDE DEF q
    <3> QED
      BY <3>1, <3>2, AccountLoads
  <2>4. ASSUME NEW h \in Handlers, A!ReadDelete(h) PROVE AccountInv'
    <3> DEFINE q == [op |-> "delete", user |-> user]
    <3>1. q \in Asked /\ A!Load(h, q)
      BY <2>0, <2>4 DEF A!ReadDelete, AccountTypes, Asked, DeleteAsked
    <3>2. q.op = "delete" /\ q.user = user
      OBVIOUS
    <3> HIDE DEF q
    <3> QED
      BY <3>1, <3>2, AccountLoads
  <2>5. ASSUME NEW h \in Handlers, NEW change \in A!Changes, A!ReadTenant(h, change) PROVE AccountInv'
    <3> DEFINE q == [op |-> "tenant", tenant |-> tenant, change |-> change, writes |-> saved.writes]
    <3>1. q \in Asked /\ A!Load(h, q)
      BY <2>0, <2>5 DEF A!ReadTenant, AccountTypes, Asked, TenantAsked
    <3>2. q.op = "tenant" /\ q.tenant = tenant /\ q.writes = saved.writes
      OBVIOUS
    <3> HIDE DEF q
    <3> QED
      BY <3>1, <3>2, AccountLoads
  <2>6. ASSUME NEW h \in Handlers, A!LoginFails(h) \/ A!LoginSucceeds(h) PROVE AccountInv'
    BY <1>0, <2>6, AccountLogins
  <2>7. ASSUME NEW h \in Handlers,
               \/ A!CommitCreate(h) \/ A!CommitUpdate(h) \/ A!CommitDelete(h)
               \/ A!LoginRefused(h) \/ A!Fail(h)
        PROVE  AccountInv'
    BY <2>7, AccountCommits
  <2>8. ASSUME NEW h \in Handlers, A!CommitTenant(h) PROVE AccountInv'
    BY <2>8, TenantCommits
  <2>9. ASSUME /\ UNCHANGED <<user, tenant, accountRequest, accountRequests, loginFailures, granted, saved>>
               /\ tokens' \subseteq Token /\ accountNow' \in Nat /\ TokensAgree'
        PROVE  AccountInv'
    BY <2>9 DEF AccountInv, AccountTypes, UserAgrees, BrandingAgrees, AllLoaded, LoadedUser,
                LoadedTenant, A!Same
  <2>10. ASSUME NEW t \in tokens, A!Refresh(t) PROVE AccountInv'
    <3> DEFINE t1 == [t EXCEPT !.exp = accountNow + TokenLife]
    <3>1. t \in Token /\ t.permissions = t.role /\ accountNow + TokenLife \in Nat
      BY <1>0, <2>0 DEF AccountTypes, AccountInv, TokensAgree, A!AccountAssumption
    <3>2. t1 \in Token /\ t1.permissions = t1.role
      BY <3>1 DEF Token
    <3>3. /\ tokens' = tokens \cup {t1}
          /\ UNCHANGED <<user, tenant, accountRequest, accountNow, accountRequests, loginFailures, granted, saved>>
      BY <2>10 DEF A!Refresh
    <3> HIDE DEF t1
    <3> QED
      BY <2>0, <2>9, <3>2, <3>3 DEF AccountTypes, AccountInv, TokensAgree
  <2>11. CASE A!Tick
    BY <2>0, <2>9, <2>11 DEF A!Tick, AccountTypes, AccountInv, TokensAgree
  <2>12. CASE UNCHANGED A!vars
    BY <2>0, <2>9, <2>12 DEF A!vars, AccountTypes, AccountInv, TokensAgree
  <2> QED
    BY <2>1, <2>2, <2>3, <2>4, <2>5, <2>6, <2>7, <2>8, <2>10, <2>11, <2>12 DEF A!Next
<1> QED
  BY <1>1, <1>2, PTL DEF A!Spec

(***************************************************************************)
(* However the handlers of users and tenants overlap: role, permissions    *)
(* and activity are what was last granted, a lock stands for enough failed *)
(* logins and none is counted twice, tokens agree with themselves, and the *)
(* branding is what was last saved unless changes overlapped               *)
(* (auth.py, users.py, tenants.py).                                        *)
(***************************************************************************)
THEOREM AccountsStayAgreed == A!Spec => []AccountsAgree
<1>1. AccountInv => AccountsAgree
  BY DEF AccountInv, UserAgrees, TokensAgree, BrandingAgrees, AccountsAgree, A!AccountsAgree
<1> QED
  BY <1>1, AccountInvHolds, PTL

-----------------------------------------------------------------------------
(***************************************************************************)
(* KillChain.  A handler may overwrite what another has committed since it *)
(* read the incident, but the row lock makes what it sees include all that *)
(* earlier computations saw, so the stage never falls.                     *)
(***************************************************************************)
Index(s) == K!_stage_index(s)
ReadRun == [at : {"read"}, alert : Alerts, read : K!Incident]
ComputedRun == [at : {"computed"}, alert : Alerts, read : K!Incident, new : K!Incident,
                found : SUBSET Alerts, guess : BOOLEAN]

\* The alerts that share an entity with these members, among them and others.
Reached(members, others) == {a \in members \cup others : K!Shares(a, members)}

ChainTypes ==
  /\ incident \in K!Incident
  /\ linked \subseteq Alerts /\ elsewhere \subseteq Alerts
  /\ correlated \subseteq Reached(linked, elsewhere)
  /\ chainRun \in [Handlers -> {K!Idle} \cup ReadRun \cup ComputedRun]
  /\ guessed \in BOOLEAN

\* The history is a chain of advances from "unknown" to the stage.
Explained(i) ==
  /\ \A k \in 1..Len(i.history) :
       /\ Index(i.history[k][2]) > Index(i.history[k][1])
       /\ i.history[k][1] = IF k = 1 THEN "unknown" ELSE i.history[k - 1][2]
  /\ i.stage = IF i.history = <<>> THEN "unknown" ELSE i.history[Len(i.history)][2]
Timed(i) == i.stage \in K!ADVANCING_STAGES => i.sla
Good(i) == Explained(i) /\ Timed(i)
Shows(s, seen_by) == s = "unknown" \/ s \in K!Tactics(seen_by)
Above(s, seen_by) == \A t \in K!Tactics(seen_by) : Index(t) <= Index(s)

Computed(r) ==
  /\ Good(r.new)
  /\ r.found \subseteq Reached(linked \cup {r.alert}, elsewhere) /\ correlated \subseteq r.found
  /\ ~guessed => Shows(incident.stage, r.found)
  /\ \/ r.new.stage = r.read.stage /\ r.new.history = r.read.history /\ Above(r.read.stage, r.found)
     \/ /\ r.new.stage # r.read.stage /\ r.new.history # r.read.history
        /\ ~r.guess => Shows(r.new.stage, r.found)
        /\ Above(r.new.stage, r.found)

RunGood(r) ==
  /\ r.at # "idle" => Explained(r.read) /\ (~guessed => Index(r.read.stage) <= Index(incident.stage))
  /\ r.at = "computed" => Computed(r)

ChainInv ==
  /\ ChainTypes
  /\ Good(incident)
  /\ ~guessed => Shows(incident.stage, Reached(linked, elsewhere)) /\ Above(incident.stage, correlated)
  /\ \A h \in Handlers : RunGood(chainRun[h])
  /\ \A g, h \in Handlers : chainRun[g].at = "computed" /\ chainRun[h].at = "computed" => g = h

\* The stages are numbered up to the twelfth.
LEMMA StageIndex == Index("unknown") = 0 /\ \A s \in K!Stages : Index(s) \in 0..12
<1>1. Index("unknown") = 0
  BY DEF Index, K!_stage_index
<1>2. ASSUME NEW s \in K!Stages, s # "unknown" PROVE Index(s) \in 1..12
  <2>1. Len(K!STAGE_ORDER) = 12 /\ DOMAIN K!STAGE_ORDER = 1..12
    BY DEF K!STAGE_ORDER
  <2>2. \E i \in DOMAIN K!STAGE_ORDER : K!STAGE_ORDER[i] = s
    BY <1>2 DEF K!Stages, K!ToSet
  <2>3. \E i \in 1..Len(K!STAGE_ORDER) : K!STAGE_ORDER[i] = s
    BY <2>1, <2>2
  <2>4. Index(s) = CHOOSE i \in 1..Len(K!STAGE_ORDER) : K!STAGE_ORDER[i] = s
    BY <1>2 DEF Index, K!_stage_index
  <2>5. Index(s) \in 1..Len(K!STAGE_ORDER)
    BY <2>3, <2>4
  <2> QED
    BY <2>1, <2>5
<1> QED
  BY <1>1, <1>2

\* There is a furthest among any stages.
LEMMA FurthestStage ==
    ASSUME NEW some \in SUBSET K!Stages, some # {}
    PROVE  K!Furthest(some) \in some /\ \A t \in some : Index(t) <= Index(K!Furthest(some))
<1>1. \A t \in some : Index(t) \in 0..12
  BY StageIndex
<1>2. \E s \in some : \A t \in some : Index(t) <= Index(s)
  <2> DEFINE Has(n) == \E t \in some : Index(t) = n
  <2>1. \E n \in 0..12 : Has(n)
    BY <1>1
  <2> HIDE DEF Has
  <2>2. \E n \in 0..12 : Has(n) /\ \A m \in 0..12 : m > n => ~Has(m)
    BY <2>1
  <2> USE DEF Has
  <2> QED
    BY <1>1, <2>2
<1> QED
  BY <1>2 DEF K!Furthest, Index

\* Tactics are stages, and more alerts show more.
LEMMA TacticStages ==
    ASSUME K!KillChainAssumption, NEW some \in SUBSET Alerts
    PROVE  K!Tactics(some) \subseteq K!Stages
BY DEF K!KillChainAssumption, K!Tactics

LEMMA TacticsGrow ==
    ASSUME NEW some, NEW more, some \subseteq more
    PROVE  /\ K!Tactics(some) \subseteq K!Tactics(more)
           /\ \A s : Shows(s, some) => Shows(s, more)
           /\ \A s : Above(s, more) => Above(s, some)
BY DEF K!Tactics, Shows, Above

LEMMA ReachedGrows ==
    ASSUME NEW members, NEW more, members \subseteq more, NEW others, NEW another, others \subseteq another
    PROVE  Reached(members, others) \subseteq Reached(more, another)
BY DEF Reached, K!Shares

\* A stage is advanced by what was found to the furthest of it, and the history explains it.
LEMMA Advances ==
    ASSUME NEW read \in K!Incident, Explained(read), NEW found \in SUBSET K!Stages
    PROVE  LET new == K!Advanced(read, found) IN
           /\ new \in K!Incident /\ Explained(new)
           /\ \/ new = read /\ \A t \in found : Index(t) <= Index(read.stage)
              \/ /\ new.stage \in found /\ new.stage # read.stage /\ new.history # read.history
                 /\ \A t \in found : Index(t) <= Index(new.stage)
<1> DEFINE f == K!Furthest(found)
<1>0. read.stage \in K!Stages /\ read.history \in Seq(K!Stages \X K!Stages) /\ Index(read.stage) \in Int
  BY StageIndex DEF K!Incident
<1>1. CASE found = {}
  BY <1>1 DEF K!Advanced
<1>2. CASE found # {}
  <2>1. f \in found /\ f \in K!Stages /\ \A t \in found : Index(t) <= Index(f)
    BY <1>2, FurthestStage
  <2> HIDE DEF f
  <2>2. CASE ~(Index(f) > Index(read.stage))
    <3>1. K!Advanced(read, found) = read
      BY <2>2 DEF K!Advanced, K!_is_advancement, Index, f
    <3>2. \A t \in found : Index(t) <= Index(read.stage)
      <4>1. Index(f) \in Int /\ \A t \in found : Index(t) \in Int
        BY <2>1, StageIndex
      <4> QED
        BY <1>0, <2>1, <2>2, <4>1
    <3> QED
      BY <3>1, <3>2
  <2>3. CASE Index(f) > Index(read.stage)
    <3> DEFINE e == <<read.stage, f>>
               H == read.history
               H1 == Append(H, e)
               i1 == [read EXCEPT !.stage = f]
               i2 == [i1 EXCEPT !.history = H1]
    <3>1. K!Advanced(read, found) = i2
      BY <1>2, <2>3 DEF K!Advanced, K!_is_advancement, Index, f, K!Incident
    <3>2. e \in K!Stages \X K!Stages /\ e[1] = read.stage /\ e[2] = f
      BY <1>0, <2>1
    <3> HIDE DEF e
    <3>3. /\ H1 \in Seq(K!Stages \X K!Stages) /\ Len(H) \in Nat /\ Len(H1) = Len(H) + 1 /\ H1 # <<>>
          /\ \A k \in 1..Len(H) : H1[k] = H[k]
          /\ H1[Len(H) + 1] = e
      BY <1>0, <3>2, AppendProperties, LenProperties
    <3>4. H1 # H
      BY <3>3
    <3> HIDE DEF H1
    <3>5. i1 \in K!Incident /\ i1.stage = f
      BY <2>1 DEF K!Incident
    <3> HIDE DEF i1
    <3>6. i2 \in K!Incident /\ i2.stage = f /\ i2.history = H1
      BY <3>3, <3>5 DEF K!Incident
    <3> HIDE DEF i2
    <3>7. Explained(i2)
      <4>1. ASSUME NEW k \in 1..(Len(H) + 1)
            PROVE  /\ Index(H1[k][2]) > Index(H1[k][1])
                   /\ H1[k][1] = IF k = 1 THEN "unknown" ELSE H1[k - 1][2]
        <5>1. CASE k \in 1..Len(H)
          <6>1. k # 1 => k - 1 \in 1..Len(H)
            BY <3>3, <5>1
          <6> QED
            BY <3>3, <5>1, <6>1 DEF Explained
        <5>2. CASE k = Len(H) + 1
          <6>1. CASE H = <<>>
            <7>1. Len(H) = 0 /\ read.stage = "unknown"
              BY <6>1 DEF Explained
            <7> QED
              BY <2>3, <3>2, <3>3, <5>2, <7>1
          <6>2. CASE H # <<>>
            <7>1. Len(H) # 0 /\ read.stage = H[Len(H)][2]
              BY <1>0, <6>2, EmptySeq DEF Explained
            <7>2. Len(H) \in 1..Len(H) /\ k # 1 /\ k - 1 = Len(H)
              BY <3>3, <5>2, <7>1
            <7> QED
              BY <2>3, <3>2, <3>3, <5>2, <7>1, <7>2
          <6> QED
            BY <6>1, <6>2
        <5> QED
          BY <3>3, <5>1, <5>2
      <4> QED
        BY <3>2, <3>3, <3>6, <4>1 DEF Explained
    <3>8. f # read.stage
      BY <1>0, <2>3
    <3> QED
      BY <2>1, <3>1, <3>4, <3>6, <3>7, <3>8
  <2> QED
    BY <2>2, <2>3
<1> QED
  BY <1>1, <1>2

\* A step that leaves the row and its members' tactics alone and moves one handler on.
LEMMA ChainHandlers ==
    ASSUME K!KillChainAssumption, ChainInv, NEW h \in Handlers, NEW r \in {K!Idle} \cup ReadRun \cup ComputedRun,
           chainRun' = [chainRun EXCEPT ![h] = r],
           UNCHANGED <<incident, linked, elsewhere, correlated, guessed>>,
           RunGood(r), r.at = "computed" => \A g \in Handlers : chainRun[g].at # "computed"
    PROVE  ChainInv'
<1>1. ChainTypes'
  BY DEF ChainInv, ChainTypes
<1>2. \A k \in Handlers : chainRun'[k] = IF k = h THEN r ELSE chainRun[k]
  BY DEF ChainInv, ChainTypes
<1>3. \A x : RunGood(x)' <=> RunGood(x)
  BY DEF RunGood, Computed
<1>4. \A k \in Handlers : RunGood(chainRun'[k])
  BY <1>2 DEF ChainInv
<1>5. \A k \in Handlers : RunGood(chainRun[k])'
  <2> SUFFICES ASSUME NEW k \in Handlers, NEW x, x = chainRun'[k] PROVE RunGood(x)'
    OBVIOUS
  <2> QED
    BY <1>3, <1>4
<1>6. \A g, k \in Handlers : chainRun'[g].at = "computed" /\ chainRun'[k].at = "computed" => g = k
  BY <1>2 DEF ChainInv
<1> QED
  BY <1>1, <1>5, <1>6 DEF ChainInv

LEMMA ChainFinds ==
    ASSUME K!KillChainAssumption, ChainInv, NEW h \in Handlers, NEW a \in Alerts,
           K!Find(h, a) \/ K!Compute(h) \/ K!Abort(h)
    PROVE  ChainInv'
<1>0. ChainTypes /\ Good(incident) /\ RunGood(chainRun[h])
  BY DEF ChainInv
<1>1. incident \in K!Incident /\ Index(incident.stage) \in Int
  BY <1>0, StageIndex DEF ChainTypes, K!Incident
<1>2. CASE K!Find(h, a)
  <2> DEFINE r == [at |-> "read", alert |-> a, read |-> incident]
  <2>1. /\ chainRun' = [chainRun EXCEPT ![h] = r]
        /\ UNCHANGED <<incident, linked, elsewhere, correlated, guessed>>
    BY <1>2 DEF K!Find
  <2>2. r \in ReadRun /\ r.at = "read" /\ r.read = incident
    BY <1>1 DEF ReadRun
  <2> HIDE DEF r
  <2>3. RunGood(r)
    BY <1>0, <1>1, <2>2 DEF RunGood, Good
  <2>4. r \in {K!Idle} \cup ReadRun \cup ComputedRun
    BY <2>2
  <2>5. r.at = "computed" => \A g \in Handlers : chainRun[g].at # "computed"
    BY <2>2
  <2> QED
    BY <2>1, <2>3, <2>4, <2>5, ChainHandlers
<1>3. CASE K!Abort(h)
  <2>1. /\ chainRun' = [chainRun EXCEPT ![h] = K!Idle]
        /\ UNCHANGED <<incident, linked, elsewhere, correlated, guessed>>
    BY <1>3 DEF K!Abort
  <2>2. K!Idle.at = "idle"
    BY DEF K!Idle
  <2>3. RunGood(K!Idle)
    BY <2>2 DEF RunGood
  <2>4. K!Idle \in {K!Idle} \cup ReadRun \cup ComputedRun
    OBVIOUS
  <2>5. K!Idle.at = "computed" => \A g \in Handlers : chainRun[g].at # "computed"
    BY <2>2
  <2> QED
    BY <2>1, <2>3, <2>4, <2>5, ChainHandlers
<1>4. CASE K!Compute(h)
  <2> DEFINE old == chainRun[h]
             sight == Reached(linked \cup {old.alert}, elsewhere)
  <2>1. PICK extra \in (IF K!Tactics(sight) = {} THEN SUBSET (OtherStages \cup K!Tactics(elsewhere))
                                               ELSE {{}}) :
          /\ chainRun' = [chainRun EXCEPT ![h] =
               [at |-> "computed", alert |-> old.alert, read |-> old.read,
                new |-> K!WithSla(old.read, K!Advanced(old.read, K!Tactics(sight) \cup extra)),
                found |-> sight, guess |-> extra # {}]]
          /\ UNCHANGED <<incident, linked, elsewhere, correlated, guessed>>
    BY <1>4 DEF K!Compute, K!Visible, Reached
  <2>2. old.at = "read" /\ \A g \in Handlers : chainRun[g].at # "computed"
    BY <1>4 DEF K!Compute, K!Unlocked
  <2>3. old \in ReadRun
    BY <1>0, <2>2 DEF ChainTypes, K!Idle, ComputedRun
  <2>4. old.alert \in Alerts /\ old.read \in K!Incident /\ Explained(old.read)
    BY <1>0, <2>2, <2>3 DEF ReadRun, RunGood
  <2> DEFINE found == K!Tactics(sight) \cup extra
             adv == K!Advanced(old.read, found)
             new == K!WithSla(old.read, adv)
             r == [at |-> "computed", alert |-> old.alert, read |-> old.read, new |-> new,
                   found |-> sight, guess |-> extra # {}]
  <2>5. sight \subseteq Alerts /\ Reached(linked, elsewhere) \subseteq sight /\ correlated \subseteq sight
    <3>1. sight \subseteq Alerts
      BY <1>0, <2>4 DEF ChainTypes, Reached
    <3>2. Reached(linked, elsewhere) \subseteq sight
      BY ReachedGrows
    <3> QED
      BY <1>0, <3>1, <3>2 DEF ChainTypes
  <2>6. /\ found \in SUBSET K!Stages /\ K!Tactics(sight) \subseteq found
        /\ extra = {} => found = K!Tactics(sight)
    <3>1. extra \subseteq K!Stages
      <4>1. K!Tactics(elsewhere) \subseteq K!Stages
        BY <1>0, TacticStages DEF ChainTypes
      <4> QED
        BY <4>1 DEF K!KillChainAssumption
    <3>2. K!Tactics(sight) \subseteq K!Stages
      BY <2>5, TacticStages
    <3> QED
      BY <3>1, <3>2
  <2>7. chainRun' = [chainRun EXCEPT ![h] = r]
    BY <2>1
  <2> HIDE DEF found
  <2>8. /\ adv \in K!Incident /\ Explained(adv)
        /\ \/ adv = old.read /\ \A t \in found : Index(t) <= Index(old.read.stage)
           \/ /\ adv.stage \in found /\ adv.stage # old.read.stage /\ adv.history # old.read.history
              /\ \A t \in found : Index(t) <= Index(adv.stage)
    BY <2>4, <2>6, Advances
  <2> HIDE DEF adv, sight
  <2>9. /\ new \in K!Incident /\ new.stage = adv.stage /\ new.history = adv.history
        /\ new.stage \in K!ADVANCING_STAGES => new.sla
    <3> DEFINE set == old.read.sla \/ adv.stage \in K!ADVANCING_STAGES
    <3>1. set \in BOOLEAN /\ (adv.stage \in K!ADVANCING_STAGES => set)
      BY Zenon
    <3>2. new = [adv EXCEPT !.sla = set]
      BY DEF K!WithSla
    <3> HIDE DEF set, new
    <3> QED
      BY <2>8, <3>1, <3>2 DEF K!Incident
  <2> HIDE DEF new
  <2>10. Good(new)
    BY <2>8, <2>9 DEF Good, Timed, Explained
  <2>11. /\ r \in ComputedRun /\ r.at = "computed" /\ r.alert = old.alert /\ r.read = old.read /\ r.new = new
         /\ r.found = sight /\ (~r.guess => extra = {})
    BY <2>4, <2>5, <2>9 DEF ComputedRun
  <2> HIDE DEF r
  <2>12. Computed(r)
    <3>1. /\ r.found \subseteq Reached(linked \cup {r.alert}, elsewhere)
          /\ correlated \subseteq r.found
      BY <2>5, <2>11 DEF sight
    <3>2. ~guessed => Shows(incident.stage, r.found)
      BY <2>5, <2>11, TacticsGrow DEF ChainInv
    <3>3. \/ r.new.stage = r.read.stage /\ r.new.history = r.read.history /\ Above(r.read.stage, r.found)
          \/ /\ r.new.stage # r.read.stage /\ r.new.history # r.read.history
             /\ ~r.guess => Shows(r.new.stage, r.found)
             /\ Above(r.new.stage, r.found)
      BY <2>6, <2>8, <2>9, <2>11 DEF Shows, Above
    <3> QED
      BY <2>10, <2>11, <3>1, <3>2, <3>3 DEF Computed
  <2>13. RunGood(r)
    BY <1>0, <2>2, <2>11, <2>12 DEF RunGood
  <2>14. r \in {K!Idle} \cup ReadRun \cup ComputedRun
    BY <2>11
  <2>15. r.at = "computed" => \A g \in Handlers : chainRun[g].at # "computed"
    BY <2>2
  <2> QED
    BY <2>1, <2>7, <2>13, <2>14, <2>15, ChainHandlers
<1> QED
  BY <1>2, <1>3, <1>4

LEMMA ChainStitches ==
    ASSUME ChainInv, NEW a \in Alerts, K!Stitch(a) \/ K!StitchElsewhere(a)
    PROVE  ChainInv'
<1>1. /\ linked \subseteq linked' /\ elsewhere \subseteq elsewhere'
      /\ linked' \subseteq Alerts /\ elsewhere' \subseteq Alerts
      /\ UNCHANGED <<incident, chainRun, correlated, guessed>>
  BY DEF K!Stitch, K!StitchElsewhere, ChainInv, ChainTypes
<1>2. /\ Reached(linked, elsewhere) \subseteq Reached(linked', elsewhere')
      /\ \A x : Reached(linked \cup {x}, elsewhere) \subseteq Reached(linked' \cup {x}, elsewhere')
  <2>1. \A x : linked \cup {x} \subseteq linked' \cup {x}
    BY <1>1
  <2> QED
    BY <1>1, <2>1, ReachedGrows
<1>3. ChainTypes'
  BY <1>1, <1>2 DEF ChainInv, ChainTypes
<1>4. ~guessed => Shows(incident.stage, Reached(linked', elsewhere')) /\ Above(incident.stage, correlated)
  BY <1>2, TacticsGrow DEF ChainInv
<1>5. \A h \in Handlers : RunGood(chainRun[h])'
  BY <1>1, <1>2 DEF ChainInv, RunGood, Computed
<1>6. \A s, seen_by : (Shows(s, seen_by)' <=> Shows(s, seen_by)) /\ (Above(s, seen_by)' <=> Above(s, seen_by))
  BY DEF Shows, Above
<1> QED
  BY <1>1, <1>3, <1>4, <1>5, <1>6 DEF ChainInv

LEMMA ChainCommits ==
    ASSUME K!KillChainAssumption, ChainInv, NEW h \in Handlers, K!Commit(h)
    PROVE  ChainInv'
<1> DEFINE r == chainRun[h]
           new == r.new
           read == r.read
           stage == IF new.stage # read.stage THEN new.stage ELSE incident.stage
           history == IF new.history # read.history THEN new.history ELSE incident.history
           sla == incident.sla \/ new.sla
<1>0. ChainTypes /\ Good(incident) /\ RunGood(r) /\ r.at = "computed"
  BY DEF ChainInv, K!Commit
<1>1. r \in ComputedRun /\ Computed(r) /\ read \in K!Incident /\ new \in K!Incident /\ r.found \subseteq Alerts
  BY <1>0 DEF ChainTypes, K!Idle, ReadRun, ComputedRun, RunGood
<1>2. /\ incident' = [stage |-> stage, history |-> history, sla |-> sla]
      /\ linked' = linked \cup {r.alert} /\ correlated' = correlated \cup r.found
      /\ elsewhere' = elsewhere
      /\ guessed' = (guessed \/ r.guess)
      /\ chainRun' = [chainRun EXCEPT ![h] = K!Idle]
  BY DEF K!Commit
<1>3. \A k \in Handlers : chainRun'[k] = IF k = h THEN K!Idle ELSE chainRun[k]
  BY <1>0, <1>2 DEF ChainTypes
<1>4. /\ r.alert \in Alerts /\ linked' \subseteq Alerts /\ elsewhere' \subseteq Alerts
      /\ r.found \subseteq Reached(linked', elsewhere') /\ correlated' = r.found
  BY <1>0, <1>1, <1>2 DEF ComputedRun, Computed, ChainTypes
<1>5. (~guessed' => ~guessed /\ ~r.guess) /\ guessed' \in BOOLEAN
  BY <1>2, Zenon
<1>6. sla \in BOOLEAN /\ (incident.sla => sla) /\ (new.sla => sla)
  BY Zenon
<1>7. Timed(incident) /\ Timed(new) /\ Explained(incident) /\ Explained(new) /\ incident \in K!Incident
  BY <1>0, <1>1 DEF Good, Computed, ChainTypes
<1> HIDE DEF sla
\* The row gets both columns or neither.
<1>8. \/ stage = incident.stage /\ history = incident.history /\ Above(read.stage, r.found)
      \/ /\ stage = new.stage /\ history = new.history
         /\ ~r.guess => Shows(new.stage, r.found)
         /\ Above(new.stage, r.found)
  BY <1>1 DEF Computed
<1>9. stage \in K!Stages /\ history \in Seq(K!Stages \X K!Stages)
  BY <1>1, <1>7, <1>8 DEF K!Incident
<1> HIDE DEF stage, history
<1>10. /\ incident' \in K!Incident /\ incident'.stage = stage /\ incident'.history = history
       /\ incident'.sla = sla
  BY <1>2, <1>6, <1>9 DEF K!Incident
<1>11. ChainTypes'
  BY <1>0, <1>2, <1>4, <1>5, <1>10 DEF ChainTypes
<1>12. Good(incident')
  BY <1>6, <1>7, <1>8, <1>10 DEF Good, Explained, Timed
<1>13. ~guessed' => /\ Shows(stage, Reached(linked', elsewhere')) /\ Above(stage, r.found)
                    /\ Index(incident.stage) <= Index(stage)
  <2> SUFFICES ASSUME ~guessed' PROVE /\ Shows(stage, Reached(linked', elsewhere')) /\ Above(stage, r.found)
                                      /\ Index(incident.stage) <= Index(stage)
    OBVIOUS
  <2>1. /\ ~guessed /\ ~r.guess /\ Shows(incident.stage, r.found) /\ Index(read.stage) <= Index(incident.stage)
    BY <1>0, <1>1, <1>5 DEF RunGood, Computed
  <2>2. /\ Index("unknown") = 0 /\ Index(stage) \in Nat /\ Index(incident.stage) \in Nat
        /\ Index(read.stage) \in Nat /\ \A t \in K!Tactics(r.found) : Index(t) \in Nat
    <3>1. incident.stage \in K!Stages /\ read.stage \in K!Stages
      BY <1>1, <1>7 DEF K!Incident
    <3>2. K!Tactics(r.found) \subseteq K!Stages
      BY <1>1, TacticStages
    <3>3. Index("unknown") = 0 /\ \A s \in K!Stages : Index(s) \in Nat
      BY StageIndex
    <3> QED
      BY <1>9, <3>1, <3>2, <3>3
  <2>3. Shows(stage, r.found) /\ Above(stage, r.found) /\ Index(incident.stage) <= Index(stage)
    <3>1. CASE stage = incident.stage /\ Above(read.stage, r.found)
      BY <2>1, <2>2, <3>1 DEF Above
    <3>2. CASE stage = new.stage /\ Shows(new.stage, r.found) /\ Above(new.stage, r.found)
      BY <2>1, <2>2, <3>2 DEF Above, Shows
    <3> QED
      BY <1>8, <2>1, <3>1, <3>2
  <2> QED
    BY <1>4, <2>3, TacticsGrow
<1>14. ASSUME NEW k \in Handlers, NEW x, x = chainRun'[k]
       PROVE  RunGood(x)' /\ (x.at = "computed" => FALSE)
  <2>1. CASE k = h
    BY <1>3, <1>14, <2>1 DEF K!Idle, RunGood
  <2>2. CASE k # h
    <3>1. x = chainRun[k] /\ RunGood(x) /\ x.at # "computed"
      BY <1>0, <1>3, <1>14, <2>2 DEF ChainInv
    <3>2. x.at # "idle" => Index(x.read.stage) \in Nat
      <4>1. x.at # "idle" => x.read \in K!Incident
        BY <1>0, <3>1 DEF ChainTypes, K!Idle, ReadRun, ComputedRun
      <4> QED
        BY <4>1, StageIndex DEF K!Incident
    <3>3. Index(stage) \in Nat /\ Index(incident.stage) \in Nat
      <4>1. incident.stage \in K!Stages
        BY <1>7 DEF K!Incident
      <4>2. \A s \in K!Stages : Index(s) \in Nat
        BY StageIndex
      <4> QED
        BY <1>9, <4>1, <4>2
    <3>4. ASSUME x.at # "idle", ~guessed' PROVE Index(x.read.stage) <= Index(incident'.stage)
      <4>1. ~guessed /\ Index(x.read.stage) <= Index(incident.stage) /\ Index(incident.stage) <= Index(stage)
        BY <1>5, <1>13, <3>1, <3>4 DEF RunGood
      <4> QED
        BY <1>10, <3>2, <3>3, <3>4, <4>1
    <3> QED
      BY <3>1, <3>4 DEF RunGood
  <2> QED
    BY <2>1, <2>2
<1>15. \A k \in Handlers : RunGood(chainRun[k])' /\ chainRun'[k].at # "computed"
  BY <1>14
<1>16. \A s, seen_by : (Shows(s, seen_by)' <=> Shows(s, seen_by)) /\ (Above(s, seen_by)' <=> Above(s, seen_by))
  BY DEF Shows, Above
<1>17. \A i : Good(i)' <=> Good(i)
  BY DEF Good, Explained, Timed
<1> QED
  BY <1>4, <1>10, <1>11, <1>12, <1>13, <1>15, <1>16, <1>17 DEF ChainInv

LEMMA ChainInvHolds == K!Spec => []ChainInv
<1>0. K!KillChainAssumption
  BY ServicesAssumption DEF ServicesAssumption
<1>1. K!Init => ChainInv
  <2> SUFFICES ASSUME K!Init PROVE ChainInv
    OBVIOUS
  <2>1. /\ incident = [stage |-> "unknown", history |-> <<>>, sla |-> FALSE]
        /\ linked \subseteq Alerts /\ elsewhere \subseteq Alerts /\ correlated = {} /\ guessed = FALSE
        /\ chainRun = [h \in Handlers |-> K!Idle]
    BY DEF K!Init
  <2>2. "unknown" \in K!Stages
    BY DEF K!Stages
  <2>3. incident \in K!Incident /\ incident.stage = "unknown" /\ incident.history = <<>>
    BY <2>1, <2>2, EmptySeq DEF K!Incident
  <2>4. Good(incident)
    BY <2>3 DEF Good, Explained, Timed, K!ADVANCING_STAGES
  <2>5. \A h \in Handlers : chainRun[h].at = "idle"
    BY <2>1 DEF K!Idle
  <2>6. \A h \in Handlers : RunGood(chainRun[h])
    BY <2>5 DEF RunGood
  <2>7. Shows(incident.stage, Reached(linked, elsewhere)) /\ Above(incident.stage, correlated)
    BY <2>1, <2>3 DEF Shows, Above, K!Tactics
  <2> QED
    BY <2>1, <2>3, <2>4, <2>5, <2>6, <2>7 DEF ChainInv, ChainTypes
<1>2. ChainInv /\ [K!Next]_(K!vars) => ChainInv'
  <2> SUFFICES ASSUME ChainInv, [K!Next]_(K!vars) PROVE ChainInv'
    OBVIOUS
  <2>1. ASSUME NEW a \in Alerts, K!Stitch(a) \/ K!StitchElsewhere(a) PROVE ChainInv'
    BY <2>1, ChainStitches
  <2>2. ASSUME NEW h \in Handlers, NEW a \in Alerts, K!Find(h, a) PROVE ChainInv'
    BY <1>0, <2>2, ChainFinds
  <2>3. ASSUME NEW h \in Handlers, K!Compute(h) \/ K!Abort(h) PROVE ChainInv'
    <3>1. chainRun[h] # K!Idle
      BY <2>3 DEF K!Compute, K!Abort, K!Idle
    <3>2. PICK a : a \in Alerts
      BY <3>1 DEF ChainInv, ChainTypes, ReadRun, ComputedRun
    <3>3. K!Find(h, a) \/ K!Compute(h) \/ K!Abort(h)
      BY <2>3
    <3> QED
      BY ONLY <1>0, <2>3, <3>2, <3>3, ChainInv, h \in Handlers, ChainFinds
  <2>4. ASSUME NEW h \in Handlers, K!Commit(h) PROVE ChainInv'
    BY <1>0, <2>4, ChainCommits
  <2>5. CASE UNCHANGED K!vars
    <3>1. /\ incident' = incident /\ linked' = linked /\ elsewhere' = elsewhere /\ correlated' = correlated
          /\ guessed' = guessed /\ chainRun' = chainRun
      BY <2>5 DEF K!vars
    <3>2. ChainTypes'
      BY <3>1 DEF ChainInv, ChainTypes
    <3>3. Good(incident)'
      BY <3>1 DEF ChainInv, Good, Explained, Timed
    <3>4. ASSUME NEW h \in Handlers PROVE RunGood(chainRun[h])'
      <4>1. RunGood(chainRun[h])
        BY DEF ChainInv
      <4>2. Computed(chainRun[h]) => Computed(chainRun[h])'
        BY <3>1 DEF Computed, Good, Explained, Timed, Shows, Above
      <4> QED
        BY <3>1, <4>1, <4>2 DEF RunGood, Explained
    <3>5. ~guessed' => Shows(incident.stage, Reached(linked, elsewhere))' /\ Above(incident.stage, correlated)'
      BY <3>1 DEF ChainInv, Shows, Above
    <3>6. \A g, h \in Handlers : chainRun'[g].at = "computed" /\ chainRun'[h].at = "computed" => g = h
      BY <3>1 DEF ChainInv
    <3> QED
      BY ONLY <3>2, <3>3, <3>4, <3>5, <3>6 DEF ChainInv
  <2> QED
    BY <2>1, <2>2, <2>3, <2>4, <2>5 DEF K!Next
<1> QED
  BY <1>1, <1>2, PTL DEF K!Spec

(***************************************************************************)
(* Although handlers overwrite each other's stage, the history explains it *)
(* by strict advances, an advancing stage has an SLA, and unless a run     *)
(* guessed from unrelated alerts the stage lies between what the runs have *)
(* seen and what the alerts that share an entity with the incident show    *)
(* (killchain.py, handlers.py).                                            *)
(***************************************************************************)
THEOREM StagesStayExplained == K!Spec => []StageExplained
<1>0. K!KillChainAssumption
  BY ServicesAssumption DEF ServicesAssumption
<1>1. ChainInv => StageExplained
  <2> SUFFICES ASSUME ChainInv PROVE StageExplained
    OBVIOUS
  <2>1. Explained(incident) /\ Timed(incident) /\ incident \in K!Incident
    BY DEF ChainInv, Good, ChainTypes
  <2>2. ASSUME ~guessed
        PROVE  /\ Index(incident.stage) >= Index(K!Furthest(K!Tactics(correlated) \cup {"unknown"}))
               /\ Index(incident.stage) <= Index(K!Furthest(K!Tactics(K!Visible(linked)) \cup {"unknown"}))
    <3>0. K!Visible(linked) = Reached(linked, elsewhere) /\ Reached(linked, elsewhere) \subseteq Alerts
      BY DEF K!Visible, Reached, ChainInv, ChainTypes
    <3> DEFINE low == K!Tactics(correlated) \cup {"unknown"}
               high == K!Tactics(K!Visible(linked)) \cup {"unknown"}
    <3>1. incident.stage \in high /\ \A t \in K!Tactics(correlated) : Index(t) <= Index(incident.stage)
      BY <2>2, <3>0 DEF ChainInv, Shows, Above
    <3>2. low \in SUBSET K!Stages /\ high \in SUBSET K!Stages /\ low # {} /\ high # {}
      <4>1. K!Tactics(correlated) \subseteq K!Stages /\ K!Tactics(K!Visible(linked)) \subseteq K!Stages
        <5>1. correlated \subseteq Alerts
          BY <3>0 DEF ChainInv, ChainTypes
        <5> QED
          BY <1>0, <3>0, <5>1, TacticStages
      <4> QED
        BY <4>1 DEF K!Stages
    <3>3. \A t \in low : Index(t) <= Index(incident.stage)
      BY <3>1, <2>1, StageIndex DEF K!Incident
    <3> HIDE DEF low, high
    <3>4. K!Furthest(low) \in low /\ K!Furthest(high) \in high /\ \A t \in high : Index(t) <= Index(K!Furthest(high))
      BY <3>2, FurthestStage
    <3>5. /\ Index(K!Furthest(low)) \in Nat /\ Index(K!Furthest(high)) \in Nat /\ Index(incident.stage) \in Nat
      BY <2>1, <3>2, <3>4, StageIndex DEF K!Incident
    <3>6. Index(incident.stage) >= Index(K!Furthest(low)) /\ Index(incident.stage) <= Index(K!Furthest(high))
      BY <3>1, <3>3, <3>4, <3>5
    <3> QED
      BY <3>6 DEF low, high
  <2> QED
    BY <2>1, <2>2 DEF StageExplained, K!StageExplained, Explained, Timed, Index, K!Last
<1> QED
  BY <1>1, ChainInvHolds, PTL

-----------------------------------------------------------------------------
(***************************************************************************)
(* Baselines.  A statistic never counts more than the observations that    *)
(* have begun: two for every pass, less those its workers still owe.       *)
(***************************************************************************)
Observing == [at : {"observing"}, x : U!Levels, second : BOOLEAN]
Holding == [at : {"pending", "held"}, x : U!Levels, second : BOOLEAN, target : {0, 1},
            old : U!Baseline, new : U!Baseline, anomaly : BOOLEAN]

BaseTypes ==
  /\ baselines \in Seq(U!Baseline)
  /\ session \in [Workers -> {U!Idle} \cup Observing \cup Holding]
  /\ passes \in Nat /\ levels \subseteq U!Levels

\* The observations that the workers' passes may still begin.
Due == {d \in Workers \X {1, 2} :
          LET s == session[d[1]] IN
          \/ s.at = "observing" /\ (s.second => d[2] = 2)
          \/ s.at \in {"pending", "held"} /\ ~s.second /\ d[2] = 2}
Counted(b) == b.n + Cardinality(Due) <= 2 * passes

\* What a statistic says of the levels is true.
Seen(b) ==
  /\ b.n >= 1 /\ b.mean # "zero"
  /\ b.mean \in U!Levels => b.mean \in levels
  /\ b.mean = "between" \/ b.spread => levels = U!Levels

Starting == {w \in Workers : session[w].at \in {"pending", "held"} /\ session[w].target = 0}

SessionGood(s) ==
  /\ s.at # "idle" => s.x \in levels
  /\ s.at \in {"pending", "held"} =>
       /\ Seen(s.new) /\ Counted(s.new)
       /\ s.target = 1 => Len(baselines) >= 1
       /\ s.anomaly => s.new.n >= 6 /\ s.new.spread

BaseInv ==
  /\ BaseTypes
  /\ \A i \in 1..Len(baselines) : Seen(baselines[i]) /\ Counted(baselines[i])
  /\ Cardinality(Due) <= 2 * passes
  /\ \A w \in Workers : SessionGood(session[w])
  /\ Len(baselines) + Cardinality(Starting) <= Cardinality(Workers)
  /\ \A a \in anomalies : a.passes >= 3 /\ a.levels = U!Levels

LEMMA BaseCardinality ==
    ASSUME NEW Els
    PROVE  U!Cardinality(Els) = Cardinality(Els) /\ (U!IsFiniteSet(Els) <=> IsFiniteSet(Els))
BY Zenon DEF U!Cardinality, Cardinality, U!IsFiniteSet, IsFiniteSet

\* One more element is at most one more.
LEMMA OneMore ==
    ASSUME NEW some, IsFiniteSet(some), NEW x
    PROVE  /\ IsFiniteSet(some \cup {x}) /\ Cardinality(some \cup {x}) <= Cardinality(some) + 1
           /\ Cardinality(some \cup {x}) \in Nat
<1> DEFINE more == some \cup {x}
<1>1. /\ IsFiniteSet(more)
      /\ Cardinality(more) = IF x \in some THEN Cardinality(some) ELSE Cardinality(some) + 1
  BY FS_AddElement
<1> HIDE DEF more
<1>2. Cardinality(some) \in Nat /\ Cardinality(more) \in Nat
  BY <1>1, FS_CardinalityType
<1>3. Cardinality(more) <= Cardinality(some) + 1
  BY <1>1, <1>2
<1> QED
  BY <1>1, <1>2, <1>3 DEF more

\* Both sets are finite, before a step and after it.
LEMMA BaseCounts ==
    ASSUME U!BaselineAssumption
    PROVE  /\ IsFiniteSet(Due) /\ Cardinality(Due) \in Nat
           /\ IsFiniteSet(Due)' /\ Cardinality(Due)' \in Nat
           /\ IsFiniteSet(Starting) /\ Cardinality(Starting) \in Nat
           /\ IsFiniteSet(Starting)' /\ Cardinality(Starting)' \in Nat
           /\ Cardinality(Starting)' <= Cardinality(Workers) /\ Cardinality(Workers) \in Nat
<1>1. IsFiniteSet(Workers) /\ IsFiniteSet({1, 2})
  <2>1. IsFiniteSet({1} \cup {2})
    BY FS_Singleton, OneMore
  <2>2. {1} \cup {2} = {1, 2}
    OBVIOUS
  <2> QED
    BY <2>1, <2>2, BaseCardinality DEF U!BaselineAssumption
<1>2. IsFiniteSet(Workers \X {1, 2})
  BY <1>1, FS_Product
<1> DEFINE d0 == Due
           d1 == Due'
           s0 == Starting
           s1 == Starting'
<1>3. d0 \subseteq Workers \X {1, 2} /\ d1 \subseteq Workers \X {1, 2}
  BY DEF Due
<1>4. s0 \subseteq Workers /\ s1 \subseteq Workers
  BY DEF Starting
<1> HIDE DEF d0, d1, s0, s1
<1>5. IsFiniteSet(d0) /\ IsFiniteSet(d1)
  BY <1>2, <1>3, FS_Subset
<1>6. IsFiniteSet(s0) /\ IsFiniteSet(s1) /\ Cardinality(s1) <= Cardinality(Workers)
  BY <1>1, <1>4, FS_Subset
<1>7. /\ Cardinality(d0) \in Nat /\ Cardinality(d1) \in Nat /\ Cardinality(s0) \in Nat
      /\ Cardinality(s1) \in Nat /\ Cardinality(Workers) \in Nat
  BY <1>1, <1>5, <1>6, FS_CardinalityType
<1> QED
  BY <1>5, <1>6, <1>7 DEF d0, d1, s0, s1

\* An observation joins a statistic.
LEMMA ObservationSeen ==
    ASSUME BaseTypes, NEW b \in U!Baseline, b = U!NoBaseline \/ Seen(b), NEW x \in U!Levels, x \in levels
    PROVE  U!Updated(b, x) \in U!Baseline /\ U!Updated(b, x).n = b.n + 1 /\ Seen(U!Updated(b, x))
<1> DEFINE mean == IF b.n = 0 \/ b.mean = x THEN x ELSE "between"
           spread == b.spread \/ (b.n > 0 /\ b.mean # x)
           new == [n |-> b.n + 1, mean |-> mean, spread |-> spread]
<1>1. U!Updated(b, x) = new
  BY DEF U!Updated
<1>2. b.n \in Nat /\ b.mean \in U!Levels \cup {"between", "zero"} /\ b.spread \in BOOLEAN
  BY DEF U!Baseline
<1>3. spread \in BOOLEAN
  BY Zenon
<1>4. new \in U!Baseline /\ new.n = b.n + 1 /\ new.mean = mean /\ new.spread = spread
  BY <1>2, <1>3 DEF U!Baseline
<1>5. U!Levels = {"low", "high"} /\ levels \subseteq U!Levels
  BY DEF U!Levels, BaseTypes
<1>6. b = U!NoBaseline => b.n = 0 /\ ~b.spread
  BY DEF U!NoBaseline
<1>7. b.n > 0 /\ b.mean # x => levels = U!Levels
  <2> SUFFICES ASSUME b.n > 0, b.mean # x PROVE levels = U!Levels
    OBVIOUS
  <2>1. Seen(b)
    BY <1>2, <1>6
  <2>2. b.mean \in {"low", "high", "between"}
    BY <1>2, <1>5, <2>1 DEF Seen
  <2>3. CASE b.mean = "between"
    BY <2>1, <2>3 DEF Seen
  <2>4. CASE b.mean \in {"low", "high"}
    BY <1>5, <2>1, <2>4 DEF Seen
  <2> QED
    BY <2>2, <2>3, <2>4
<1>8. b.spread => levels = U!Levels
  BY <1>6 DEF Seen
<1>9. spread => levels = U!Levels
  BY <1>7, <1>8
<1>10. mean # "zero" /\ (mean \in U!Levels => mean \in levels) /\ (mean = "between" => levels = U!Levels)
  <2>1. CASE b.n = 0 \/ b.mean = x
    BY <1>5, <2>1
  <2>2. CASE ~(b.n = 0 \/ b.mean = x)
    BY <1>2, <1>5, <1>7, <2>2
  <2> QED
    BY <2>1, <2>2
<1> HIDE DEF new, mean, spread
<1>11. Seen(new)
  BY <1>2, <1>4, <1>9, <1>10 DEF Seen
<1> QED
  BY <1>1, <1>4, <1>11

\* A step of one worker that commits nothing.
LEMMA BaseMoves ==
    ASSUME U!BaselineAssumption, BaseInv, NEW w \in Workers, NEW s \in {U!Idle} \cup Observing \cup Holding,
           session' = [session EXCEPT ![w] = s],
           UNCHANGED <<baselines, anomalies>>,
           passes' \in Nat, levels \subseteq levels', levels' \subseteq U!Levels,
           Cardinality(Due)' + 2 * passes <= Cardinality(Due) + 2 * passes',
           SessionGood(s)',
           Len(baselines) + Cardinality(Starting)' <= Cardinality(Workers)
    PROVE  BaseInv'
<1>0. BaseTypes
  BY DEF BaseInv
<1>1. BaseTypes'
  BY <1>0 DEF BaseTypes
<1>2. \A v \in Workers : session'[v] = IF v = w THEN s ELSE session[v]
  BY <1>0 DEF BaseTypes
<1>3. \A b \in U!Baseline : Seen(b) => Seen(b)'
  BY DEF Seen
<1>4. \A b \in U!Baseline : Counted(b) => Counted(b)'
  <2> SUFFICES ASSUME NEW b \in U!Baseline, Counted(b) PROVE Counted(b)'
    OBVIOUS
  <2>1. b.n \in Nat /\ passes \in Nat /\ passes' \in Nat
    BY <1>0 DEF U!Baseline, BaseTypes
  <2>2. Cardinality(Due) \in Nat /\ Cardinality(Due)' \in Nat
    BY BaseCounts
  <2> QED
    BY <2>1, <2>2 DEF Counted
<1>5. \A i \in 1..Len(baselines) : Seen(baselines[i])' /\ Counted(baselines[i])'
  <2> SUFFICES ASSUME NEW i \in 1..Len(baselines), NEW b, b = baselines[i] PROVE Seen(b)' /\ Counted(b)'
    OBVIOUS
  <2>1. b \in U!Baseline /\ Seen(b) /\ Counted(b)
    BY <1>0, ElementOfSeq DEF BaseTypes, BaseInv
  <2> QED
    BY <1>3, <1>4, <2>1
<1>6. Cardinality(Due)' <= 2 * passes'
  <2>1. passes \in Nat /\ passes' \in Nat /\ Cardinality(Due) \in Nat /\ Cardinality(Due)' \in Nat
    BY <1>0, BaseCounts DEF BaseTypes
  <2> QED
    BY <2>1 DEF BaseInv
<1>7. ASSUME NEW v \in Workers, NEW x, x = session'[v]
      PROVE  SessionGood(x)'
  <2>1. CASE v = w
    BY <1>2, <1>7, <2>1
  <2>2. CASE v # w
    <3>1. x = session[v] /\ SessionGood(x) /\ x \in {U!Idle} \cup Observing \cup Holding
      BY <1>0, <1>2, <1>7, <2>2 DEF BaseInv, BaseTypes
    <3>2. x.at \in {"pending", "held"} => x.new \in U!Baseline
      BY <3>1 DEF U!Idle, Observing, Holding
    <3>3. x.at \in {"pending", "held"} => Seen(x.new)' /\ Counted(x.new)'
      BY <1>3, <1>4, <3>1, <3>2 DEF SessionGood
    <3> QED
      BY <3>1, <3>3 DEF SessionGood
  <2> QED
    BY <2>1, <2>2
<1>8. \A v \in Workers : SessionGood(session[v])'
  BY <1>7
<1>9. \A a \in anomalies' : a.passes >= 3 /\ a.levels = U!Levels
  BY DEF BaseInv
<1> QED
  BY <1>1, <1>5, <1>6, <1>8, <1>9 DEF BaseInv

\* A worker whose next observations were due before and who starts no row.
LEMMA BaseLeaves ==
    ASSUME U!BaselineAssumption, BaseInv, NEW w \in Workers, NEW s \in {U!Idle} \cup Observing \cup Holding,
           session' = [session EXCEPT ![w] = s],
           UNCHANGED <<baselines, anomalies, passes, levels>>,
           s.at = "idle" \/ (s.at = "observing" /\ s.second /\ ~session[w].second /\ session[w].at # "idle" /\ s.x = session[w].x)
    PROVE  BaseInv'
<1>0. BaseTypes
  BY DEF BaseInv
<1>1. \A v \in Workers : session'[v] = IF v = w THEN s ELSE session[v]
  BY <1>0 DEF BaseTypes
<1> DEFINE d0 == Due
           d1 == Due'
           s0 == Starting
           s1 == Starting'
<1>2. d1 \subseteq d0
  <2> SUFFICES ASSUME NEW d \in d1 PROVE d \in d0
    OBVIOUS
  <2>1. d \in Workers \X {1, 2} /\ d[1] \in Workers
    BY DEF Due
  <2>2. CASE d[1] # w
    BY <1>1, <2>1, <2>2 DEF Due
  <2>3. CASE d[1] = w
    <3>1. session[w].at \in {"idle", "observing", "pending", "held"}
      BY <1>0 DEF BaseTypes, U!Idle, Observing, Holding
    <3> QED
      BY <1>1, <2>1, <2>3, <3>1 DEF Due
  <2> QED
    BY <2>2, <2>3
<1>3. s1 \subseteq s0
  BY <1>1 DEF Starting
<1>4. IsFiniteSet(d0) /\ IsFiniteSet(s0)
  BY BaseCounts
<1>5. Cardinality(d1) <= Cardinality(d0) /\ Cardinality(s1) <= Cardinality(s0)
  <2> HIDE DEF d0, d1, s0, s1
  <2> QED
    BY <1>2, <1>3, <1>4, FS_Subset
<1>6. /\ passes \in Nat /\ Len(baselines) \in Nat /\ Cardinality(Due) \in Nat /\ Cardinality(Due)' \in Nat
      /\ Cardinality(Starting) \in Nat /\ Cardinality(Starting)' \in Nat /\ Cardinality(Workers) \in Nat
  BY <1>0, BaseCounts, LenProperties DEF BaseTypes
<1>7. Cardinality(Due)' + 2 * passes <= Cardinality(Due) + 2 * passes'
  BY <1>5, <1>6
<1>8. Len(baselines) + Cardinality(Starting)' <= Cardinality(Workers)
  BY <1>5, <1>6 DEF BaseInv
<1>9. SessionGood(s)'
  BY DEF SessionGood, BaseInv
<1>10. passes' \in Nat /\ levels \subseteq levels' /\ levels' \subseteq U!Levels
  BY <1>0 DEF BaseTypes
<1> QED
  BY <1>7, <1>8, <1>9, <1>10, BaseMoves

LEMMA BaseTakes ==
    ASSUME U!BaselineAssumption, BaseInv, NEW w \in Workers, NEW x \in U!Levels, U!Take(w, x)
    PROVE  BaseInv'
<1> DEFINE s == [at |-> "observing", x |-> x, second |-> FALSE]
           d0 == Due
           d1 == Due'
<1>0. /\ BaseTypes /\ session[w] = U!Idle /\ passes' = passes + 1 /\ levels' = levels \cup {x}
      /\ session' = [session EXCEPT ![w] = s] /\ UNCHANGED <<baselines, anomalies>>
  BY DEF BaseInv, U!Take
<1>1. s \in Observing /\ s.at = "observing" /\ s.x = x /\ ~s.second
  BY DEF Observing
<1> HIDE DEF s
<1>2. \A v \in Workers : session'[v] = IF v = w THEN s ELSE session[v]
  BY <1>0 DEF BaseTypes
<1>3. d1 = (d0 \cup {<<w, 1>>}) \cup {<<w, 2>>}
  <2>1. session[w].at = "idle"
    BY <1>0 DEF U!Idle
  <2>2. ASSUME NEW d \in Workers \X {1, 2} PROVE d \in d1 <=> d \in (d0 \cup {<<w, 1>>}) \cup {<<w, 2>>}
    <3>1. CASE d[1] # w
      <4>1. d[1] \in Workers /\ d # <<w, 1>> /\ d # <<w, 2>>
        BY <3>1
      <4> QED
        BY <1>2, <3>1, <4>1 DEF Due
    <3>2. CASE d[1] = w
      BY <1>1, <1>2, <3>2 DEF Due
    <3> QED
      BY <3>1, <3>2
  <2>3. d1 \subseteq Workers \X {1, 2} /\ d0 \subseteq Workers \X {1, 2}
    BY DEF Due
  <2>4. <<w, 1>> \in Workers \X {1, 2} /\ <<w, 2>> \in Workers \X {1, 2}
    OBVIOUS
  <2> HIDE DEF d0, d1
  <2> QED
    BY <2>2, <2>3, <2>4
<1>4. IsFiniteSet(d0) /\ Cardinality(d0) \in Nat
  BY BaseCounts
<1>5. Cardinality(d1) <= Cardinality(d0) + 2
  <2> DEFINE dm == d0 \cup {<<w, 1>>}
  <2> HIDE DEF d0, d1
  <2>1. IsFiniteSet(dm) /\ Cardinality(dm) <= Cardinality(d0) + 1 /\ Cardinality(dm) \in Nat
    BY <1>4, OneMore
  <2>2. d1 = dm \cup {<<w, 2>>}
    BY <1>3
  <2> HIDE DEF dm
  <2>3. Cardinality(dm \cup {<<w, 2>>}) <= Cardinality(dm) + 1 /\ Cardinality(dm \cup {<<w, 2>>}) \in Nat
    BY <2>1, OneMore
  <2> QED
    BY <1>4, <2>1, <2>2, <2>3
<1>6. passes \in Nat /\ Cardinality(Due) \in Nat /\ Cardinality(Due)' \in Nat
  BY <1>0, BaseCounts DEF BaseTypes
<1>7. Cardinality(Due)' + 2 * passes <= Cardinality(Due) + 2 * passes'
  BY <1>0, <1>5, <1>6
<1>8. Len(baselines) + Cardinality(Starting)' <= Cardinality(Workers)
  <2>1. Starting' = Starting
    <3>1. session[w].at = "idle"
      BY <1>0 DEF U!Idle
    <3> QED
      BY <1>1, <1>2, <3>1 DEF Starting
  <2> QED
    BY <2>1 DEF BaseInv
<1>9. SessionGood(s)'
  BY <1>0, <1>1 DEF SessionGood
<1>10. passes' \in Nat /\ levels \subseteq levels' /\ levels' \subseteq U!Levels
  BY <1>0, <1>6 DEF BaseTypes
<1>11. s \in {U!Idle} \cup Observing \cup Holding
  BY <1>1
<1> QED
  BY <1>0, <1>7, <1>8, <1>9, <1>10, <1>11, BaseMoves

LEMMA BaseObserves ==
    ASSUME U!BaselineAssumption, BaseInv, NEW w \in Workers, U!Observe(w)
    PROVE  BaseInv'
<1> DEFINE old == session[w]
           was == IF baselines = <<>> THEN U!NoBaseline ELSE baselines[1]
           new == U!Updated(was, old.x)
           d0 == Due
           d1 == Due'
           k == IF old.second THEN 2 ELSE 1
<1>0. BaseTypes /\ SessionGood(old) /\ old.at = "observing" /\ baselines \in Seq(U!Baseline) /\ passes \in Nat
  BY DEF BaseInv, BaseTypes, U!Observe
<1>1. old \in Observing
  BY <1>0 DEF BaseTypes, U!Idle, Holding
<1>2. old.x \in U!Levels /\ old.second \in BOOLEAN /\ old.x \in levels
  BY <1>0, <1>1 DEF Observing, SessionGood
<1>3. Len(baselines) \in Nat /\ Len(baselines) <= 1 /\ (baselines = <<>> <=> Len(baselines) = 0)
  BY <1>0, LenProperties, EmptySeq DEF U!Observe
<1>4. /\ was \in U!Baseline /\ (was = U!NoBaseline \/ Seen(was)) /\ was.n \in Nat
      /\ was.n + Cardinality(Due) <= 2 * passes
  <2>1. CASE baselines = <<>>
    <3>1. U!NoBaseline \in U!Baseline /\ U!NoBaseline.n = 0
      BY DEF U!NoBaseline, U!Baseline
    <3>2. Cardinality(Due) \in Nat /\ Cardinality(Due) <= 2 * passes
      BY BaseCounts DEF BaseInv
    <3> QED
      BY <1>0, <2>1, <3>1, <3>2
  <2>2. CASE baselines # <<>>
    <3>1. 1 \in 1..Len(baselines)
      BY <1>3, <2>2
    <3>2. baselines[1] \in U!Baseline /\ Seen(baselines[1]) /\ Counted(baselines[1])
      BY <1>0, <3>1, ElementOfSeq DEF BaseInv
    <3> QED
      BY <2>2, <3>2 DEF Counted, U!Baseline
  <2> QED
    BY <2>1, <2>2
<1> HIDE DEF was
<1>5. new \in U!Baseline /\ new.n = was.n + 1 /\ Seen(new)
  BY <1>0, <1>2, <1>4, ObservationSeen
<1>6. PICK z \in {FALSE, U!Deviates(new, old.x)} :
        session' = [session EXCEPT ![w] =
          [at |-> "pending", x |-> old.x, second |-> old.second, target |-> Len(baselines),
           old |-> was, new |-> new, anomaly |-> z]]
  BY DEF U!Observe, was
<1>7. UNCHANGED <<baselines, passes, levels, anomalies>>
  BY DEF U!Observe
<1>8. z \in BOOLEAN /\ (z => new.n >= 6 /\ new.spread)
  <2>1. U!Deviates(new, old.x) \in BOOLEAN
    BY Zenon DEF U!Deviates
  <2> QED
    BY <2>1 DEF U!Deviates
<1> HIDE DEF new
<1>9. PICK s \in Holding :
        /\ session' = [session EXCEPT ![w] = s]
        /\ s.at = "pending" /\ s.x = old.x /\ s.second = old.second
        /\ s.target = Len(baselines) /\ s.new = new /\ s.anomaly = z
  <2> DEFINE r == [at |-> "pending", x |-> old.x, second |-> old.second, target |-> Len(baselines),
                   old |-> was, new |-> new, anomaly |-> z]
  <2>1. Len(baselines) \in {0, 1}
    <3>1. PICK n \in Nat : n = Len(baselines)
      BY <1>3
    <3>2. n \in {0, 1}
      BY <1>3, <3>1
    <3> QED
      BY <3>1, <3>2
  <2>2. /\ r \in Holding /\ r.at = "pending" /\ r.x = old.x /\ r.second = old.second
        /\ r.target = Len(baselines) /\ r.new = new /\ r.anomaly = z
    BY <1>2, <1>4, <1>5, <1>8, <2>1 DEF Holding
  <2>3. session' = [session EXCEPT ![w] = r]
    BY <1>6
  <2> HIDE DEF r
  <2> QED
    BY <2>2, <2>3
<1>10. session' = [session EXCEPT ![w] = s]
  BY <1>9
<1>11. \A v \in Workers : session'[v] = IF v = w THEN s ELSE session[v]
  BY <1>0, <1>10 DEF BaseTypes
<1>12. d1 = d0 \ {<<w, k>>} /\ <<w, k>> \in d0
  <2>1. <<w, k>> \in d0
    BY <1>0, <1>2 DEF Due
  <2>2. ASSUME NEW d \in Workers \X {1, 2} PROVE d \in d1 <=> d \in d0 /\ d # <<w, k>>
    <3>1. CASE d[1] # w
      <4>1. d[1] \in Workers /\ d # <<w, k>>
        BY <3>1
      <4> QED
        BY <1>11, <3>1, <4>1 DEF Due
    <3>2. CASE d[1] = w
      <4>1. d = <<w, d[2]>> /\ d[2] \in {1, 2}
        BY <3>2
      <4>2. CASE old.second
        BY <1>0, <1>9, <1>11, <3>2, <4>1, <4>2 DEF Due
      <4>3. CASE ~old.second
        BY <1>0, <1>9, <1>11, <3>2, <4>1, <4>3 DEF Due
      <4> QED
        BY <4>2, <4>3
    <3> QED
      BY <3>1, <3>2
  <2>3. d1 \subseteq Workers \X {1, 2} /\ d0 \subseteq Workers \X {1, 2}
    BY DEF Due
  <2> HIDE DEF d0, d1, k
  <2> QED
    BY <2>1, <2>2, <2>3
<1>13. Cardinality(d1) = Cardinality(d0) - 1 /\ Cardinality(d0) \in Nat /\ Cardinality(d1) \in Nat
  <2>1. IsFiniteSet(d0) /\ Cardinality(d0) \in Nat /\ Cardinality(d1) \in Nat
    BY BaseCounts
  <2> HIDE DEF d0, d1, k
  <2> QED
    BY <1>12, <2>1, FS_RemoveElement
<1>14. Cardinality(Due)' + 2 * passes <= Cardinality(Due) + 2 * passes'
  BY <1>0, <1>7, <1>13
<1>15. SessionGood(s)'
  <2>1. Seen(s.new)'
    BY <1>5, <1>7, <1>9 DEF Seen
  <2>2. Counted(s.new)'
    BY <1>0, <1>4, <1>5, <1>7, <1>9, <1>13 DEF Counted
  <2>3. s.target = 1 => Len(baselines)' >= 1
    BY <1>7, <1>9
  <2> QED
    BY <1>2, <1>7, <1>8, <1>9, <2>1, <2>2, <2>3 DEF SessionGood
<1>16. Len(baselines) + Cardinality(Starting)' <= Cardinality(Workers)
  <2>1. /\ Cardinality(Starting)' <= Cardinality(Workers) /\ Cardinality(Starting)' \in Nat
        /\ Cardinality(Workers) \in Nat /\ IsFiniteSet(Starting) /\ Cardinality(Starting) \in Nat
    BY BaseCounts
  <2>2. CASE Len(baselines) = 0
    BY <2>1, <2>2
  <2>3. CASE Len(baselines) # 0
    <3> DEFINE s0 == Starting
               s1 == Starting'
    <3>1. s1 \subseteq s0
      BY <1>9, <1>11, <2>3 DEF Starting
    <3>2. Cardinality(s1) <= Cardinality(s0)
      <4>1. IsFiniteSet(s0)
        BY <2>1
      <4> HIDE DEF s0, s1
      <4> QED
        BY <3>1, <4>1, FS_Subset
    <3>3. Len(baselines) + Cardinality(Starting) <= Cardinality(Workers)
      BY DEF BaseInv
    <3> QED
      BY <1>3, <2>1, <3>2, <3>3
  <2> QED
    BY <2>2, <2>3
<1>17. passes' \in Nat /\ levels \subseteq levels' /\ levels' \subseteq U!Levels
  BY <1>0, <1>7 DEF BaseTypes
<1>18. s \in {U!Idle} \cup Observing \cup Holding
  BY <1>9
<1> QED
  BY <1>7, <1>10, <1>14, <1>15, <1>16, <1>17, <1>18, BaseMoves

LEMMA BaseFlushes ==
    ASSUME U!BaselineAssumption, BaseInv, NEW w \in Workers, U!Flush(w)
    PROVE  BaseInv'
<1> DEFINE old == session[w]
           r == [old EXCEPT !.at = "held"]
<1>0. /\ BaseTypes /\ SessionGood(old) /\ old.at = "pending"
      /\ session' = [session EXCEPT ![w] = r] /\ UNCHANGED <<baselines, passes, levels, anomalies>>
  BY DEF BaseInv, U!Flush
<1>1. old \in Holding
  BY <1>0 DEF BaseTypes, U!Idle, Observing
<1>2. PICK s \in Holding :
        /\ session' = [session EXCEPT ![w] = s]
        /\ s.at = "held" /\ s.x = old.x /\ s.second = old.second
        /\ s.target = old.target /\ s.new = old.new /\ s.anomaly = old.anomaly
  <2>1. /\ r \in Holding /\ r.at = "held" /\ r.x = old.x /\ r.second = old.second
        /\ r.target = old.target /\ r.new = old.new /\ r.anomaly = old.anomaly
    BY <1>1 DEF Holding
  <2> HIDE DEF r
  <2> QED
    BY <1>0, <2>1
<1>3. \A v \in Workers : session'[v] = IF v = w THEN s ELSE session[v]
  BY <1>0, <1>2 DEF BaseTypes
<1>4. Due' = Due
  BY <1>0, <1>2, <1>3 DEF Due
<1>5. Starting' = Starting
  BY <1>0, <1>2, <1>3 DEF Starting
<1>6. Cardinality(Due)' + 2 * passes <= Cardinality(Due) + 2 * passes'
  <2>1. Cardinality(Due) \in Nat /\ passes \in Nat
    BY <1>0, BaseCounts DEF BaseTypes
  <2> QED
    BY <1>0, <1>4, <2>1
<1>7. SessionGood(s)'
  BY <1>0, <1>2, <1>4 DEF SessionGood, Seen, Counted
<1>8. Len(baselines) + Cardinality(Starting)' <= Cardinality(Workers)
  BY <1>5 DEF BaseInv
<1>9. passes' \in Nat /\ levels \subseteq levels' /\ levels' \subseteq U!Levels
  BY <1>0 DEF BaseTypes
<1>10. s \in {U!Idle} \cup Observing \cup Holding
  BY <1>2
<1> QED
  BY <1>0, <1>2, <1>6, <1>7, <1>8, <1>9, <1>10, BaseMoves

LEMMA BaseCommits ==
    ASSUME U!BaselineAssumption, BaseInv, NEW w \in Workers, U!Commit(w)
    PROVE  BaseInv'
<1> DEFINE old == session[w]
           grown == IF old.target = 0 THEN Append(baselines, old.new)
                    ELSE [baselines EXCEPT ![old.target] = U!Over(baselines[old.target], old)]
<1>0. /\ BaseTypes /\ SessionGood(old) /\ old.at = "held" /\ passes \in Nat /\ baselines \in Seq(U!Baseline)
      /\ baselines' = grown
      /\ anomalies' = anomalies \cup (IF old.anomaly THEN {[passes |-> passes, levels |-> levels]} ELSE {})
      /\ session' = [session EXCEPT ![w] = U!Onwards(old)] /\ UNCHANGED <<passes, levels>>
  BY DEF BaseInv, BaseTypes, U!Commit
<1>1. old \in Holding
  BY <1>0 DEF BaseTypes, U!Idle, Observing
<1>2. /\ old.x \in U!Levels /\ old.x \in levels /\ old.second \in BOOLEAN /\ old.target \in {0, 1}
      /\ old.new \in U!Baseline /\ Seen(old.new) /\ Counted(old.new)
      /\ old.target = 1 => Len(baselines) >= 1
      /\ old.anomaly => old.new.n >= 6 /\ old.new.spread
  BY <1>0, <1>1 DEF Holding, SessionGood
<1>3. PICK s \in {U!Idle} \cup Observing :
        /\ session' = [session EXCEPT ![w] = s]
        /\ IF old.second THEN s.at = "idle" ELSE s.at = "observing" /\ s.second /\ s.x = old.x
  <2>1. CASE old.second
    <3>1. U!Onwards(old) = U!Idle /\ U!Idle.at = "idle"
      BY <2>1 DEF U!Onwards, U!Idle
    <3> QED
      BY <1>0, <2>1, <3>1
  <2>2. CASE ~old.second
    <3> DEFINE r == [at |-> "observing", x |-> old.x, second |-> TRUE]
    <3>1. U!Onwards(old) = r
      BY <2>2 DEF U!Onwards
    <3>2. r \in Observing /\ r.at = "observing" /\ r.second /\ r.x = old.x
      BY <1>2 DEF Observing
    <3> HIDE DEF r
    <3> QED
      BY <1>0, <2>2, <3>1, <3>2
  <2> QED
    BY <2>1, <2>2
<1>4. \A v \in Workers : session'[v] = IF v = w THEN s ELSE session[v]
  BY <1>0, <1>3 DEF BaseTypes
<1>5. Due' = Due
  <2> DEFINE d0 == Due
             d1 == Due'
  <2>1. ASSUME NEW d \in Workers \X {1, 2} PROVE d \in d1 <=> d \in d0
    <3>1. CASE d[1] # w
      <4>1. d[1] \in Workers
        OBVIOUS
      <4> QED
        BY <1>4, <3>1, <4>1 DEF Due
    <3>2. CASE d[1] = w /\ old.second
      BY <1>0, <1>3, <1>4, <3>2 DEF Due
    <3>3. CASE d[1] = w /\ ~old.second
      BY <1>0, <1>3, <1>4, <3>3 DEF Due
    <3> QED
      BY <3>1, <3>2, <3>3
  <2>2. d1 \subseteq Workers \X {1, 2} /\ d0 \subseteq Workers \X {1, 2}
    BY DEF Due
  <2>3. d0 = d1
    <3> HIDE DEF d0, d1
    <3> QED
      BY <2>1, <2>2
  <2> QED
    BY <2>3
<1>6. \A b : (Seen(b)' <=> Seen(b)) /\ (Counted(b)' <=> Counted(b))
  BY <1>0, <1>5 DEF Seen, Counted
<1>7. Starting' = Starting \ {w} /\ (old.target = 0 => w \in Starting)
  BY <1>0, <1>3, <1>4 DEF Starting
<1>8. Len(baselines) \in Nat
  BY <1>0, LenProperties
\* The rows with the statistic that is written.
<1>9. /\ baselines' \in Seq(U!Baseline) /\ Len(baselines') >= Len(baselines)
      /\ Len(baselines') = IF old.target = 0 THEN Len(baselines) + 1 ELSE Len(baselines)
      /\ \A i \in 1..Len(baselines') : Seen(baselines'[i]) /\ Counted(baselines'[i])
  <2>0. \A i \in 1..Len(baselines) : baselines[i] \in U!Baseline /\ Seen(baselines[i]) /\ Counted(baselines[i])
    BY <1>0, ElementOfSeq DEF BaseInv
  <2>1. CASE old.target = 0
    <3> DEFINE x == old.new
    <3>1. x \in U!Baseline /\ Seen(x) /\ Counted(x)
      BY <1>2
    <3> HIDE DEF x
    <3>2. /\ Append(baselines, x) \in Seq(U!Baseline) /\ Len(Append(baselines, x)) = Len(baselines) + 1
          /\ \A i \in 1..Len(baselines) : Append(baselines, x)[i] = baselines[i]
          /\ Append(baselines, x)[Len(baselines) + 1] = x
      BY <1>0, <3>1, AppendProperties
    <3>3. baselines' = Append(baselines, x)
      BY <1>0, <2>1 DEF x
    <3>4. \A i \in 1..(Len(baselines) + 1) : i \in 1..Len(baselines) \/ i = Len(baselines) + 1
      BY <1>8
    <3> QED
      BY <1>8, <2>0, <2>1, <3>1, <3>2, <3>3, <3>4
  <2>2. CASE old.target = 1
    <3> DEFINE b == baselines[1]
               mean == IF old.new.mean # old.old.mean THEN old.new.mean ELSE b.mean
               spread == b.spread \/ old.new.spread
               x == U!Over(b, old)
    <3>0. 1 \in 1..Len(baselines)
      BY <1>2, <1>8, <2>2
    <3>1. b \in U!Baseline /\ Seen(b)
      BY <2>0, <3>0
    <3>2. /\ x = [n |-> old.new.n, mean |-> mean, spread |-> spread]
          /\ spread \in BOOLEAN /\ (spread => b.spread \/ old.new.spread)
      BY Zenon DEF U!Over
    <3>3. mean = old.new.mean \/ mean = b.mean
      OBVIOUS
    <3> HIDE DEF b, mean, spread, x
    <3>4. /\ x \in U!Baseline /\ x.n = old.new.n /\ x.mean = mean /\ x.spread = spread
      BY <1>2, <3>1, <3>2, <3>3 DEF U!Baseline
    <3>5. Seen(x)
      BY <1>2, <3>1, <3>2, <3>3, <3>4 DEF Seen
    <3>6. Counted(x)
      BY <1>2, <3>4 DEF Counted
    <3>7. /\ [baselines EXCEPT ![1] = x] \in Seq(U!Baseline) /\ Len([baselines EXCEPT ![1] = x]) = Len(baselines)
          /\ \A i \in 1..Len(baselines) : [baselines EXCEPT ![1] = x][i] = IF i = 1 THEN x ELSE baselines[i]
      BY <1>0, <3>0, <3>4, ExceptSeq
    <3>8. baselines' = [baselines EXCEPT ![1] = x]
      BY <1>0, <2>2 DEF x, b
    <3> QED
      BY <1>8, <2>0, <2>2, <3>5, <3>6, <3>7, <3>8
  <2> QED
    BY <1>2, <2>1, <2>2
<1> HIDE DEF grown
<1>10. BaseTypes'
  BY <1>0, <1>3, <1>9 DEF BaseTypes
<1>11. (\A i \in 1..Len(baselines) : Seen(baselines[i]) /\ Counted(baselines[i]))'
  <2> SUFFICES ASSUME NEW i \in 1..Len(baselines'), NEW b, b = baselines'[i]
               PROVE  Seen(b)' /\ Counted(b)'
    OBVIOUS
  <2> QED
    BY <1>6, <1>9
<1>12. Cardinality(Due)' <= 2 * passes'
  BY <1>0, <1>5 DEF BaseInv
<1>13. ASSUME NEW v \in Workers, NEW x, x = session'[v] PROVE SessionGood(x)'
  <2>1. CASE v = w
    <3>1. x = s
      BY <1>4, <1>13, <2>1
    <3>2. x.at = "idle" \/ (x.at = "observing" /\ x.x \in levels)
      BY <1>2, <1>3, <3>1
    <3> QED
      BY <1>0, <3>2 DEF SessionGood
  <2>2. CASE v # w
    <3>1. x = session[v] /\ SessionGood(x)
      BY <1>4, <1>13, <2>2 DEF BaseInv
    <3>2. Len(baselines) >= 1 => Len(baselines)' >= 1
      BY <1>8, <1>9
    <3> QED
      BY <1>0, <1>6, <3>1, <3>2 DEF SessionGood
  <2> QED
    BY <2>1, <2>2
<1>14. \A v \in Workers : SessionGood(session[v])'
  BY <1>13
<1>15. Len(baselines') + Cardinality(Starting)' <= Cardinality(Workers)
  <2> DEFINE s0 == Starting
             s1 == Starting'
  <2>1. IsFiniteSet(s0) /\ Cardinality(s0) \in Nat /\ Cardinality(Workers) \in Nat /\ Cardinality(s1) \in Nat
    BY BaseCounts
  <2>2. s1 = s0 \ {w} /\ (old.target = 0 => w \in s0)
    BY <1>7
  <2>3. Len(baselines) + Cardinality(s0) <= Cardinality(Workers)
    BY DEF BaseInv
  <2>4. Cardinality(s1) = IF w \in s0 THEN Cardinality(s0) - 1 ELSE Cardinality(s0)
    <3> HIDE DEF s0, s1
    <3> QED
      BY <2>1, <2>2, FS_RemoveElement
  <2> HIDE DEF s0, s1
  <2>5. Len(baselines') + Cardinality(s1) <= Cardinality(Workers)
    BY <1>8, <1>9, <2>1, <2>2, <2>3, <2>4
  <2> QED
    BY <2>5 DEF s1
<1>16. \A a \in anomalies' : a.passes >= 3 /\ a.levels = U!Levels
  <2>1. ASSUME old.anomaly PROVE passes >= 3 /\ levels = U!Levels
    <3>1. old.new.n \in Nat /\ Cardinality(Due) \in Nat
      BY <1>2, BaseCounts DEF U!Baseline
    <3> QED
      BY <1>0, <1>2, <2>1, <3>1 DEF Counted, Seen
  <2> QED
    BY <1>0, <2>1 DEF BaseInv
<1> QED
  BY <1>10, <1>11, <1>12, <1>14, <1>15, <1>16 DEF BaseInv

LEMMA BaseInvHolds == U!Spec => []BaseInv
<1>0. U!BaselineAssumption
  BY ServicesAssumption DEF ServicesAssumption
<1>1. U!Init => BaseInv
  <2> SUFFICES ASSUME U!Init PROVE BaseInv
    OBVIOUS
  <2>1. /\ baselines = <<>> /\ session = [w \in Workers |-> U!Idle] /\ passes = 0 /\ levels = {}
        /\ anomalies = {}
    BY DEF U!Init
  <2>2. \A w \in Workers : session[w].at = "idle"
    BY <2>1 DEF U!Idle
  <2>3. Due = {} /\ Starting = {}
    BY <2>2 DEF Due, Starting
  <2>4. Cardinality(Due) = 0 /\ Cardinality(Starting) = 0 /\ Len(baselines) = 0 /\ Cardinality(Workers) \in Nat
    BY <1>0, <2>1, <2>3, FS_EmptySet, BaseCounts
  <2>5. \A w \in Workers : SessionGood(session[w])
    BY <2>2 DEF SessionGood
  <2>6. BaseTypes
    BY <2>1, EmptySeq DEF BaseTypes
  <2> QED
    BY <2>1, <2>4, <2>5, <2>6 DEF BaseInv
<1>2. BaseInv /\ [U!Next]_(U!vars) => BaseInv'
  <2> SUFFICES ASSUME BaseInv, [U!Next]_(U!vars) PROVE BaseInv'
    OBVIOUS
  <2>1. ASSUME NEW w \in Workers, NEW x \in U!Levels, U!Take(w, x) PROVE BaseInv'
    BY <1>0, <2>1, BaseTakes
  <2>2. ASSUME NEW w \in Workers, U!Observe(w) PROVE BaseInv'
    BY <1>0, <2>2, BaseObserves
  <2>3. ASSUME NEW w \in Workers, U!Flush(w) PROVE BaseInv'
    BY <1>0, <2>3, BaseFlushes
  <2>4. ASSUME NEW w \in Workers, U!Commit(w) PROVE BaseInv'
    BY <1>0, <2>4, BaseCommits
  <2>5. ASSUME NEW w \in Workers, U!Rollback(w) PROVE BaseInv'
    <3>1. session' = [session EXCEPT ![w] = U!Idle] /\ UNCHANGED <<baselines, anomalies, passes, levels>>
      BY <2>5 DEF U!Rollback
    <3>2. U!Idle.at = "idle" /\ U!Idle \in {U!Idle} \cup Observing \cup Holding
      BY DEF U!Idle
    <3> QED
      BY <1>0, <3>1, <3>2, BaseLeaves
  <2>6. ASSUME NEW w \in Workers, U!ObserveRaises(w) PROVE BaseInv'
    <3> DEFINE old == session[w]
    <3>1. session' = [session EXCEPT ![w] = U!Onwards(old)] /\ UNCHANGED <<baselines, anomalies, passes, levels>>
      BY <2>6 DEF U!ObserveRaises
    <3>2. old.at = "observing" /\ old \in Observing
      BY <2>6 DEF U!ObserveRaises, BaseInv, BaseTypes, U!Idle, Holding
    <3>3. PICK s \in {U!Idle} \cup Observing \cup Holding :
            /\ session' = [session EXCEPT ![w] = s]
            /\ s.at = "idle" \/ (s.at = "observing" /\ s.second /\ ~session[w].second
                                 /\ session[w].at # "idle" /\ s.x = session[w].x)
      <4>1. CASE old.second
        <5>1. U!Onwards(old) = U!Idle /\ U!Idle.at = "idle"
          BY <4>1 DEF U!Onwards, U!Idle
        <5> QED
          BY <3>1, <5>1
      <4>2. CASE ~old.second
        <5> DEFINE r == [at |-> "observing", x |-> old.x, second |-> TRUE]
        <5>1. U!Onwards(old) = r
          BY <4>2 DEF U!Onwards
        <5>2. r \in Observing /\ r.at = "observing" /\ r.second /\ r.x = old.x
          BY <3>2 DEF Observing
        <5> HIDE DEF r
        <5> QED
          BY <3>1, <3>2, <4>2, <5>1, <5>2
      <4> QED
        BY <4>1, <4>2
    <3> QED
      BY <1>0, <3>1, <3>3, BaseLeaves
  <2>7. CASE UNCHANGED U!vars
    <3>1. UNCHANGED <<baselines, session, passes, levels, anomalies>>
      BY <2>7 DEF U!vars
    <3>2. Due' = Due /\ Starting' = Starting
      BY <3>1 DEF Due, Starting
    <3> QED
      BY <3>1, <3>2 DEF BaseInv, BaseTypes, Seen, Counted, SessionGood
  <2> QED
    BY <2>1, <2>2, <2>3, <2>4, <2>5, <2>6, <2>7 DEF U!Next
<1> QED
  BY <1>1, <1>2, PTL DEF U!Spec

(***************************************************************************)
(* However triages overlap, overwrite each other or observe an alert       *)
(* twice: behind every anomaly are at least three triages of the subject   *)
(* with both levels, no statistic counts more than two observations of a   *)
(* triage, and there are never more rows than workers                      *)
(* (baseline.py, detector.py).                                             *)
(***************************************************************************)
THEOREM AnomaliesStayFounded == U!Spec => []AnomaliesNeedHistory
<1>0. U!BaselineAssumption
  BY ServicesAssumption DEF ServicesAssumption
<1>1. BaseInv => AnomaliesNeedHistory
  <2> SUFFICES ASSUME BaseInv PROVE AnomaliesNeedHistory
    OBVIOUS
  <2>1. /\ Len(baselines) \in Nat /\ Cardinality(Starting) \in Nat /\ Cardinality(Workers) \in Nat
        /\ Cardinality(Due) \in Nat /\ passes \in Nat
    BY <1>0, BaseCounts, LenProperties DEF BaseInv, BaseTypes
  <2>2. Len(baselines) <= Cardinality(Workers)
    BY <2>1 DEF BaseInv
  <2>3. \A i \in 1..Len(baselines) : baselines[i].n <= 2 * passes
    <3> SUFFICES ASSUME NEW i \in 1..Len(baselines) PROVE baselines[i].n <= 2 * passes
      OBVIOUS
    <3>1. baselines[i] \in U!Baseline /\ Counted(baselines[i])
      BY ElementOfSeq DEF BaseInv, BaseTypes
    <3> QED
      BY <2>1, <3>1 DEF Counted, U!Baseline
  <2> QED
    BY <2>2, <2>3, BaseCardinality DEF AnomaliesNeedHistory, U!AnomaliesNeedHistory, BaseInv
<1> QED
  BY <1>1, BaseInvHolds, PTL

-----------------------------------------------------------------------------
(***************************************************************************)
(* The cases.  What a request has read of a case it changes is a row, and  *)
(* cases are never deleted, so that the case is still there when it        *)
(* commits.  What the timeline tells of a field is said with the place of  *)
(* its last change, which an event moves to the end or leaves alone.       *)
(***************************************************************************)
CaseValues == Statuses \cup Analysts \cup {"", C!Nobody, C!Keep}
CaseEvent == [kind : {"created", "status", "assigned", "note"}, old : CaseValues, new : CaseValues]
CaseRows == [Cases -> C!Row \cup {C!Absent}]
CaseUpdate == [kind : {"update", "bulk"}, cases : SUBSET Cases, read : CaseRows,
               status : Statuses \cup {C!Keep}, owner : Analysts \cup {C!Keep}]
StepUpdate == [kind : {"step"}, case : Cases, done : BOOLEAN]

\* An event that changes a field, and the last value a timeline gives to that field.
ChangeOf(e, kind) == e.kind = kind /\ e.old # e.new
Tells(told, kind, first, value) ==
  \/ value = first /\ \A i \in 1..Len(told) : ~ChangeOf(told[i], kind)
  \/ \E i \in 1..Len(told) :
       /\ ChangeOf(told[i], kind) /\ told[i].new = value
       /\ \A j \in 1..Len(told) : ChangeOf(told[j], kind) => j <= i

NotesIn(told) == {i \in 1..Len(told) : told[i].kind = "note"}

\* One case, its timeline, its number of notes and its step.
CaseTold(r, told, count, s) ==
  /\ Tells(told, "status", "open", r.status)
  /\ Tells(told, "assigned", C!Nobody, r.owner)
  /\ r.status \in C!Terminal => r.closed
  /\ count = Cardinality(NotesIn(told))
  /\ s.done = s.stamped

\* A request that is in progress, and the rows it is about to change.
CaseAsked(q, rows) ==
  /\ q \in {C!Idle} \cup CaseUpdate \cup StepUpdate
  /\ q.kind \in {"update", "bulk"} => \A c \in q.cases : q.read[c] \in C!Row /\ rows[c] \in C!Row
  /\ q.kind = "bulk" => q.status \in Statuses

CaseInv ==
  /\ row \in CaseRows /\ timeline \in [Cases -> Seq(CaseEvent)] /\ notes \in [Cases -> Nat]
  /\ caseStep \in [Cases -> C!Step] /\ DOMAIN caseRequest = Handlers
  /\ \A h \in Handlers : CaseAsked(caseRequest[h], row)
  /\ \A c \in Cases :
       /\ row[c] \in C!Row => CaseTold(row[c], timeline[c], notes[c], caseStep[c])
       /\ row[c] = C!Absent => timeline[c] = <<>> /\ notes[c] = 0 /\ caseStep[c].done = caseStep[c].stamped

LEMMA CaseConstants ==
    /\ "open" \in Statuses /\ C!Keep \notin Statuses /\ "absent" \notin Statuses
    /\ \A X : C!Cardinality(X) = Cardinality(X)
    /\ C!Absent \notin C!Row
<1>1. \A X : C!Cardinality(X) = Cardinality(X)
  BY Zenon DEF C!Cardinality, Cardinality, C!IsFiniteSet, IsFiniteSet
<1>2. /\ "open" \in Statuses /\ C!Keep \notin Statuses /\ "absent" \notin Statuses
  BY ServicesAssumption DEF C!CaseAssumption, C!Keep
<1> QED
  BY <1>1, <1>2 DEF C!Absent, C!Row

\* What one more event makes of what a timeline tells.
LEMMA EventTells ==
    ASSUME NEW told \in Seq(CaseEvent), NEW e \in CaseEvent, NEW kind, NEW first, NEW value,
           Tells(told, kind, first, value)
    PROVE  Tells(Append(told, e), kind, first, IF ChangeOf(e, kind) THEN e.new ELSE value)
<1> DEFINE longer == Append(told, e)
<1>1. /\ Len(longer) = Len(told) + 1 /\ Len(told) \in Nat /\ longer[Len(told) + 1] = e
      /\ \A i \in 1..Len(told) : longer[i] = told[i]
  OBVIOUS
<1> HIDE DEF longer
<1>2. CASE ChangeOf(e, kind)
  <2>1. /\ Len(told) + 1 \in 1..Len(longer) /\ ChangeOf(longer[Len(told) + 1], kind)
        /\ longer[Len(told) + 1].new = e.new /\ \A j \in 1..Len(longer) : j <= Len(told) + 1
    BY <1>1, <1>2
  <2> QED
    BY <1>2, <2>1 DEF Tells, longer
<1>3. CASE ~ChangeOf(e, kind)
  <2>1. \A j \in 1..Len(longer) : ChangeOf(longer[j], kind) => j \in 1..Len(told) /\ ChangeOf(told[j], kind)
    BY <1>1, <1>3
  <2>2. \A j \in 1..Len(told) : j \in 1..Len(longer)
    BY <1>1
  <2>3. CASE value = first /\ \A i \in 1..Len(told) : ~ChangeOf(told[i], kind)
    BY <1>3, <2>1, <2>3 DEF Tells, longer
  <2>4. CASE \E i \in 1..Len(told) :
               /\ ChangeOf(told[i], kind) /\ told[i].new = value
               /\ \A j \in 1..Len(told) : ChangeOf(told[j], kind) => j <= i
    BY <1>1, <1>3, <2>1, <2>2, <2>4 DEF Tells, longer
  <2> QED
    BY <2>3, <2>4 DEF Tells
<1> QED
  BY <1>2, <1>3

\* The notes of a timeline are as many as its events of that kind.
LEMMA EventNotes ==
    ASSUME NEW told \in Seq(CaseEvent), NEW e \in CaseEvent
    PROVE  Cardinality(NotesIn(Append(told, e))) =
             Cardinality(NotesIn(told)) + (IF e.kind = "note" THEN 1 ELSE 0)
<1> DEFINE longer == Append(told, e)
<1>1. /\ Len(longer) = Len(told) + 1 /\ Len(told) \in Nat /\ longer[Len(told) + 1] = e
      /\ \A i \in 1..Len(told) : longer[i] = told[i]
  OBVIOUS
<1>2. IsFiniteSet(NotesIn(told))
  <2>1. IsFiniteSet(1..Len(told))
    BY <1>1, FS_Interval
  <2> QED
    BY <2>1, FS_Subset DEF NotesIn
<1>3. Cardinality(NotesIn(told)) \in Nat
  BY <1>2, FS_CardinalityType
<1> HIDE DEF longer
<1>4. CASE e.kind = "note"
  <2>1. NotesIn(longer) = NotesIn(told) \cup {Len(told) + 1} /\ Len(told) + 1 \notin NotesIn(told)
    BY <1>1, <1>4 DEF NotesIn
  <2>2. Cardinality(NotesIn(told) \cup {Len(told) + 1}) = Cardinality(NotesIn(told)) + 1
    BY <1>2, <2>1, FS_AddElement
  <2> QED
    BY <1>4, <2>1, <2>2 DEF longer
<1>5. CASE e.kind # "note"
  <2>1. NotesIn(longer) = NotesIn(told)
    BY <1>1, <1>5 DEF NotesIn
  <2> QED
    BY <1>3, <1>5, <2>1 DEF longer
<1> QED
  BY <1>4, <1>5

\* A case one event later.
LEMMA CaseLonger ==
    ASSUME NEW r, NEW told \in Seq(CaseEvent), NEW count \in Nat, NEW s, CaseTold(r, told, count, s),
           NEW e \in CaseEvent, NEW new,
           new.status = IF ChangeOf(e, "status") THEN e.new ELSE r.status,
           new.owner = IF ChangeOf(e, "assigned") THEN e.new ELSE r.owner,
           new.status \in C!Terminal => new.closed
    PROVE  CaseTold(new, Append(told, e), count + (IF e.kind = "note" THEN 1 ELSE 0), s)
<1>1. Tells(Append(told, e), "status", "open", IF ChangeOf(e, "status") THEN e.new ELSE r.status)
  BY EventTells DEF CaseTold
<1>2. Tells(Append(told, e), "assigned", C!Nobody, IF ChangeOf(e, "assigned") THEN e.new ELSE r.owner)
  BY EventTells DEF CaseTold
<1>3. count + (IF e.kind = "note" THEN 1 ELSE 0) = Cardinality(NotesIn(Append(told, e)))
  BY EventNotes DEF CaseTold
<1> QED
  BY <1>1, <1>2, <1>3 DEF CaseTold

\* The commit of one case: its row, and none, one or two events.
LEMMA CaseCommitted ==
    ASSUME NEW q \in CaseUpdate, q.kind = "bulk" => q.status \in Statuses,
           NEW read \in C!Row, NEW old \in C!Row,
           NEW told \in Seq(CaseEvent), NEW count \in Nat, NEW s, CaseTold(old, told, count, s)
    PROVE  /\ C!Written(old, read, q) \in C!Row /\ told \o C!Events(read, q) \in Seq(CaseEvent)
           /\ CaseTold(C!Written(old, read, q), told \o C!Events(read, q), count, s)
<1> DEFINE new == C!Written(old, read, q)
           between == [status |-> new.status, owner |-> old.owner, closed |-> new.closed]
           moved == q.kind = "bulk" \/ C!Given(q.status, read.status)
           handed == C!Given(q.owner, read.owner)
           e == C!Event("status", read.status, q.status)
           f == C!Event("assigned", read.owner, q.owner)
           told1 == IF moved THEN Append(told, e) ELSE told
           told2 == IF handed THEN Append(told1, f) ELSE told1
<1>1. /\ read.status \in Statuses /\ read.owner \in Analysts \cup {C!Nobody}
      /\ old.status \in Statuses /\ old.owner \in Analysts \cup {C!Nobody} /\ old.closed \in BOOLEAN
      /\ q.status \in Statuses \cup {C!Keep} /\ q.owner \in Analysts \cup {C!Keep}
      /\ q.kind \in {"update", "bulk"}
  BY DEF C!Row, CaseUpdate
<1>2. /\ new.status = IF C!Given(q.status, read.status) THEN q.status ELSE old.status
      /\ new.owner = IF handed THEN q.owner ELSE old.owner
      /\ new.closed = (old.closed \/ (/\ q.status \in C!Terminal
                                      /\ q.kind = "bulk" \/ q.status # read.status))
  BY DEF C!Written
<1>3. new \in C!Row
  BY <1>1 DEF C!Written, C!Row, C!Given
<1>4. new.status \in C!Terminal => new.closed
  BY <1>1, <1>2 DEF CaseTold, C!Given
<1>5. e \in CaseEvent /\ f \in CaseEvent
  BY <1>1 DEF C!Event, CaseEvent, CaseValues
<1>6. /\ e.kind = "status" /\ e.new = q.status /\ f.kind = "assigned" /\ f.new = q.owner
      /\ e.old = read.status /\ f.old = read.owner
  BY DEF C!Event
<1>7. C!Events(read, q) = (IF moved THEN <<e>> ELSE <<>>) \o (IF handed THEN <<f>> ELSE <<>>)
  BY DEF C!Events
<1>8. moved => (ChangeOf(e, "status") <=> C!Given(q.status, read.status))
  BY <1>1, <1>6, CaseConstants DEF ChangeOf, C!Given
<1>9. handed => ChangeOf(f, "assigned") /\ ~ChangeOf(f, "status")
  BY <1>6 DEF ChangeOf, C!Given
<1>10. ~ChangeOf(e, "assigned")
  BY <1>6 DEF ChangeOf
<1>11. between.status = new.status /\ between.owner = old.owner /\ between.closed = new.closed
  OBVIOUS
<1> HIDE DEF new, between, e, f
<1>12. told1 \in Seq(CaseEvent) /\ CaseTold(between, told1, count, s)
  <2>1. CASE moved
    <3>1. CaseTold(between, Append(told, e), count + (IF e.kind = "note" THEN 1 ELSE 0), s)
      BY <1>2, <1>4, <1>5, <1>8, <1>6, <1>10, <1>11, <2>1, CaseLonger
    <3> QED
      BY <1>5, <1>6, <2>1, <3>1
  <2>2. CASE ~moved
    BY <1>2, <1>4, <1>11, <2>2 DEF CaseTold
  <2> QED
    BY <2>1, <2>2
<1> HIDE DEF told1
<1>13. told2 \in Seq(CaseEvent) /\ CaseTold(new, told2, count, s)
  <2>1. CASE handed
    <3>1. CaseTold(new, Append(told1, f), count + (IF f.kind = "note" THEN 1 ELSE 0), s)
      BY <1>2, <1>4, <1>5, <1>6, <1>9, <1>11, <1>12, <2>1, CaseLonger
    <3> QED
      BY <1>5, <1>6, <1>12, <2>1, <3>1
  <2>2. CASE ~handed
    BY <1>2, <1>4, <1>11, <1>12, <2>2 DEF CaseTold
  <2> QED
    BY <2>1, <2>2
<1>14. told2 = told \o C!Events(read, q)
  <2>0. told \o <<>> = told
    BY ConcatEmptySeq
  <2>1. /\ Append(told, e) = told \o <<e>> /\ Append(told, f) = told \o <<f>>
        /\ told \o <<>> = told
    BY <1>5, <2>0, AppendIsConcat
  <2>2. <<e>> \in Seq(CaseEvent) /\ <<f>> \in Seq(CaseEvent) /\ <<>> \in Seq(CaseEvent)
        /\ told \o <<e>> \in Seq(CaseEvent)
    BY <1>5
  <2>3. Append(told \o <<e>>, f) = (told \o <<e>>) \o <<f>>
    BY <1>5, <2>2, AppendIsConcat
  <2>4. (told \o <<e>>) \o <<f>> = told \o (<<e>> \o <<f>>)
    BY <2>2, ConcatAssociative
  <2>5. /\ <<e>> \o <<>> = <<e>> /\ <<>> \o <<f>> = <<f>> /\ <<>> \o <<>> = <<>>
    OBVIOUS
  <2>6. CASE moved /\ handed
    BY <1>7, <2>1, <2>3, <2>4, <2>6, Zenon DEF told1
  <2>7. CASE moved /\ ~handed
    BY <1>7, <2>1, <2>5, <2>7, Zenon DEF told1
  <2>8. CASE ~moved /\ handed
    BY <1>7, <2>1, <2>5, <2>8, Zenon DEF told1
  <2>9. CASE ~moved /\ ~handed
    BY <1>7, <2>1, <2>5, <2>9, Zenon DEF told1
  <2> QED
    BY <2>6, <2>7, <2>8, <2>9
<1> HIDE DEF told2
<1> QED
  BY <1>3, <1>13, <1>14 DEF new

\* A row appears, and perhaps its event.
LEMMA CaseCreated ==
    ASSUME CaseInv, NEW c \in Cases, C!Create(c)
    PROVE  CaseInv'
<1> DEFINE e == C!Event("created", "", "")
<1>1. /\ row[c] = C!Absent /\ row' = [row EXCEPT ![c] = C!Fresh]
      /\ timeline' = timeline \/ timeline' = [timeline EXCEPT ![c] = Append(timeline[c], e)]
      /\ UNCHANGED <<notes, caseStep, caseRequest>>
  BY DEF C!Create
<1>2. C!Fresh \in C!Row /\ C!Fresh.status = "open" /\ C!Fresh.owner = C!Nobody
      /\ ~(C!Fresh.status \in C!Terminal)
  BY CaseConstants DEF C!Fresh, C!Row, C!Terminal
<1>3. /\ e \in CaseEvent /\ ~ChangeOf(e, "status") /\ ~ChangeOf(e, "assigned") /\ e.kind # "note"
  BY DEF C!Event, CaseEvent, CaseValues, ChangeOf
<1> HIDE DEF e
<1>4. row[c] \notin C!Row /\ timeline[c] = <<>> /\ notes[c] = 0 /\ caseStep[c].done = caseStep[c].stamped
  BY <1>1, CaseConstants DEF CaseInv
<1>5. /\ row' \in CaseRows /\ row'[c] = C!Fresh /\ \A d \in Cases \ {c} : row'[d] = row[d]
      /\ timeline' \in [Cases -> Seq(CaseEvent)] /\ \A d \in Cases \ {c} : timeline'[d] = timeline[d]
      /\ timeline'[c] = <<>> \/ timeline'[c] = Append(<<>>, e)
  <2>1. row \in CaseRows /\ timeline \in [Cases -> Seq(CaseEvent)]
    BY DEF CaseInv
  <2>2. /\ row' \in CaseRows /\ row'[c] = C!Fresh /\ \A d \in Cases \ {c} : row'[d] = row[d]
    BY <1>1, <1>2, <2>1 DEF CaseRows
  <2>3. CASE timeline' = timeline
    BY <1>4, <2>1, <2>2, <2>3
  <2>4. CASE timeline' = [timeline EXCEPT ![c] = Append(timeline[c], e)]
    <3>1. Append(timeline[c], e) \in Seq(CaseEvent)
      BY <1>3, <2>1
    <3> QED
      BY <1>4, <2>1, <2>2, <2>4, <3>1
  <2> QED
    BY <1>1, <2>3, <2>4
<1>6. CaseTold(C!Fresh, <<>>, 0, caseStep[c])
  <2>1. NotesIn(<<>>) = {}
    BY DEF NotesIn
  <2>2. Tells(<<>>, "status", "open", "open") /\ Tells(<<>>, "assigned", C!Nobody, C!Nobody)
    BY DEF Tells
  <2> QED
    BY <1>2, <1>4, <2>1, <2>2, FS_EmptySet DEF CaseTold
<1>7. CaseTold(C!Fresh, Append(<<>>, e), 0 + (IF e.kind = "note" THEN 1 ELSE 0), caseStep[c])
  <2>1. <<>> \in Seq(CaseEvent) /\ 0 \in Nat
    OBVIOUS
  <2> QED
    BY <1>2, <1>3, <1>6, <2>1, CaseLonger
<1>8. CaseTold(row'[c], timeline'[c], notes'[c], caseStep'[c])
  BY <1>1, <1>3, <1>4, <1>5, <1>6, <1>7
<1>9. \A d \in Cases :
        /\ row'[d] \in C!Row => CaseTold(row'[d], timeline'[d], notes'[d], caseStep'[d])
        /\ row'[d] = C!Absent => timeline'[d] = <<>> /\ notes'[d] = 0 /\ caseStep'[d].done = caseStep'[d].stamped
  BY <1>1, <1>2, <1>5, <1>8, CaseConstants DEF CaseInv
<1>10. \A h \in Handlers : CaseAsked(caseRequest'[h], row')
  <2>1. ASSUME NEW h \in Handlers PROVE CaseAsked(caseRequest[h], row')
    <3>1. CaseAsked(caseRequest[h], row)
      BY DEF CaseInv
    <3>2. ASSUME caseRequest[h].kind \in {"update", "bulk"} PROVE caseRequest[h].cases \subseteq Cases
      BY <3>1, <3>2 DEF CaseAsked, CaseUpdate, C!Idle, StepUpdate
    <3> QED
      BY <1>4, <1>5, <3>1, <3>2 DEF CaseAsked
  <2> QED
    BY <1>1, <2>1
<1> QED
  BY <1>1, <1>5, <1>9, <1>10 DEF CaseInv

\* A request reads, or ends without a trace.
LEMMA CaseReads ==
    ASSUME CaseInv, NEW h \in Handlers, NEW q, CaseAsked(q, row),
           caseRequest' = [caseRequest EXCEPT ![h] = q], UNCHANGED <<row, timeline, notes, caseStep>>
    PROVE  CaseInv'
<1>1. DOMAIN caseRequest' = Handlers /\ \A g \in Handlers : CaseAsked(caseRequest'[g], row')
  BY DEF CaseInv
<1> QED
  BY <1>1 DEF CaseInv

LEMMA CaseRead ==
    ASSUME CaseInv, NEW h \in Handlers,
           NEW kind \in {"update", "bulk"}, NEW some \in SUBSET C!Present,
           NEW status \in Statuses \cup {C!Keep}, kind = "bulk" => status \in Statuses,
           NEW owner \in Analysts \cup {C!Keep}
    PROVE  CaseAsked([kind |-> kind, cases |-> some, read |-> row, status |-> status, owner |-> owner], row)
<1>1. some \in SUBSET Cases /\ row \in CaseRows
  BY DEF C!Present, CaseInv
<1>2. \A c \in some : row[c] \in C!Row
  BY <1>1 DEF C!Present, CaseRows
<1> QED
  BY <1>1, <1>2 DEF CaseAsked, CaseUpdate

LEMMA CaseCommits ==
    ASSUME CaseInv, NEW h \in Handlers, C!CommitCases(h)
    PROVE  CaseInv'
<1> DEFINE q == caseRequest[h]
<1>1. /\ q.kind \in {"update", "bulk"} /\ UNCHANGED <<notes, caseStep>>
      /\ row' = [c \in Cases |-> IF c \in q.cases THEN C!Written(row[c], q.read[c], q) ELSE row[c]]
      /\ timeline' = [c \in Cases |-> IF c \in q.cases THEN timeline[c] \o C!Events(q.read[c], q)
                                                       ELSE timeline[c]]
      /\ caseRequest' = [caseRequest EXCEPT ![h] = C!Idle]
  BY DEF C!CommitCases, C!Answer
<1>2. CaseAsked(q, row)
  BY DEF CaseInv
<1> HIDE DEF q
<1>3. /\ q \in CaseUpdate /\ (q.kind = "bulk" => q.status \in Statuses)
      /\ \A c \in q.cases : q.read[c] \in C!Row /\ row[c] \in C!Row
  BY <1>1, <1>2 DEF CaseAsked, StepUpdate, C!Idle
<1>4. /\ row \in CaseRows /\ timeline \in [Cases -> Seq(CaseEvent)] /\ notes \in [Cases -> Nat]
      /\ \A c \in Cases : row[c] \in C!Row => CaseTold(row[c], timeline[c], notes[c], caseStep[c])
  BY DEF CaseInv
<1>5. ASSUME NEW c \in Cases, c \in q.cases
      PROVE  /\ row'[c] \in C!Row /\ timeline'[c] \in Seq(CaseEvent)
             /\ CaseTold(row'[c], timeline'[c], notes'[c], caseStep'[c])
  <2>1. /\ row'[c] = C!Written(row[c], q.read[c], q)
        /\ timeline'[c] = timeline[c] \o C!Events(q.read[c], q)
        /\ notes'[c] = notes[c] /\ caseStep'[c] = caseStep[c]
    BY <1>1, <1>5
  <2>2. /\ q.read[c] \in C!Row /\ row[c] \in C!Row /\ timeline[c] \in Seq(CaseEvent) /\ notes[c] \in Nat
        /\ CaseTold(row[c], timeline[c], notes[c], caseStep[c])
    BY <1>3, <1>4, <1>5
  <2>3. PICK r1, r2, t, n, s : r1 = row[c] /\ r2 = q.read[c] /\ t = timeline[c] /\ n = notes[c] /\ s = caseStep[c]
    OBVIOUS
  <2>4. /\ C!Written(r1, r2, q) \in C!Row /\ t \o C!Events(r2, q) \in Seq(CaseEvent)
        /\ CaseTold(C!Written(r1, r2, q), t \o C!Events(r2, q), n, s)
    BY <1>3, <2>2, <2>3, CaseCommitted
  <2> QED
    BY <2>1, <2>3, <2>4
<1>6. ASSUME NEW c \in Cases, c \notin q.cases
      PROVE  row'[c] = row[c] /\ timeline'[c] = timeline[c]
  BY <1>1, <1>6
<1>7. row' \in CaseRows
  <2>1. \A c \in Cases : row'[c] \in C!Row \cup {C!Absent}
    BY <1>4, <1>5, <1>6 DEF CaseRows
  <2> QED
    BY <1>1, <2>1 DEF CaseRows
<1>8. timeline' \in [Cases -> Seq(CaseEvent)]
  <2>1. \A c \in Cases : timeline'[c] \in Seq(CaseEvent)
    BY <1>4, <1>5, <1>6
  <2> QED
    BY <1>1, <2>1
<1>9. \A c \in Cases :
        /\ row'[c] \in C!Row => CaseTold(row'[c], timeline'[c], notes'[c], caseStep'[c])
        /\ row'[c] = C!Absent => timeline'[c] = <<>> /\ notes'[c] = 0 /\ caseStep'[c].done = caseStep'[c].stamped
  BY <1>1, <1>5, <1>6, CaseConstants DEF CaseInv
<1>10. \A g \in Handlers : CaseAsked(caseRequest'[g], row')
  <2>1. ASSUME NEW g \in Handlers PROVE CaseAsked(caseRequest[g], row')
    <3>1. CaseAsked(caseRequest[g], row)
      BY DEF CaseInv
    <3>2. ASSUME caseRequest[g].kind \in {"update", "bulk"} PROVE caseRequest[g].cases \subseteq Cases
      BY <3>1, <3>2 DEF CaseAsked, CaseUpdate, C!Idle, StepUpdate
    <3> QED
      BY <1>5, <1>6, <3>1, <3>2 DEF CaseAsked
  <2>2. CaseAsked(C!Idle, row')
    BY DEF CaseAsked, C!Idle
  <2> QED
    BY <1>1, <2>1, <2>2 DEF CaseInv
<1> QED
  BY <1>1, <1>7, <1>8, <1>9, <1>10 DEF CaseInv

\* One case changes in its notes or its step.
LEMMA CaseMoves ==
    ASSUME CaseInv, NEW c \in Cases, C!AddNote(c) \/ \E h \in Handlers : C!CommitStep(h)
    PROVE  CaseInv'
<1>1. CASE C!AddNote(c)
  <2> DEFINE e == C!Event("note", "", "")
             longer == Append(timeline[c], e)
  <2>1. /\ c \in C!Present /\ notes' = [notes EXCEPT ![c] = notes[c] + 1]
        /\ timeline' = [timeline EXCEPT ![c] = longer] /\ UNCHANGED <<row, caseStep, caseRequest>>
    BY <1>1 DEF C!AddNote, CaseInv
  <2>2. e \in CaseEvent /\ e.kind = "note" /\ ~ChangeOf(e, "status") /\ ~ChangeOf(e, "assigned")
    BY DEF C!Event, CaseEvent, CaseValues, ChangeOf
  <2> HIDE DEF e
  <2>3. /\ row[c] \in C!Row /\ timeline[c] \in Seq(CaseEvent) /\ notes[c] \in Nat
        /\ CaseTold(row[c], timeline[c], notes[c], caseStep[c])
    BY <2>1 DEF C!Present, CaseInv, CaseRows
  <2>4. longer \in Seq(CaseEvent)
    BY <2>2, <2>3
  <2>5. CaseTold(row[c], longer, notes[c] + 1, caseStep[c])
    <3>1. row[c].status \in C!Terminal => row[c].closed
      BY <2>3 DEF CaseTold
    <3>2. PICK r, t, n, s : r = row[c] /\ t = timeline[c] /\ n = notes[c] /\ s = caseStep[c]
      OBVIOUS
    <3>3. CaseTold(r, Append(t, e), n + (IF e.kind = "note" THEN 1 ELSE 0), s)
      BY <2>2, <2>3, <3>1, <3>2, CaseLonger
    <3> QED
      BY <2>2, <3>2, <3>3
  <2> HIDE DEF longer
  <2>6. /\ timeline' \in [Cases -> Seq(CaseEvent)] /\ notes' \in [Cases -> Nat]
        /\ timeline'[c] = longer /\ notes'[c] = notes[c] + 1
        /\ \A d \in Cases \ {c} : timeline'[d] = timeline[d] /\ notes'[d] = notes[d]
    BY <2>1, <2>3, <2>4 DEF CaseInv
  <2>7. \A d \in Cases :
          /\ row'[d] \in C!Row => CaseTold(row'[d], timeline'[d], notes'[d], caseStep'[d])
          /\ row'[d] = C!Absent => timeline'[d] = <<>> /\ notes'[d] = 0 /\ caseStep'[d].done = caseStep'[d].stamped
    BY <2>1, <2>3, <2>5, <2>6, CaseConstants DEF CaseInv
  <2> QED
    BY <2>1, <2>6, <2>7 DEF CaseInv
<1>2. CASE \E h \in Handlers : C!CommitStep(h)
  <2>1. PICK h \in Handlers : C!CommitStep(h)
    BY <1>2
  <2> DEFINE q == caseRequest[h]
             done == [done |-> ~q.done, stamped |-> ~q.done]
  <2>2. /\ caseStep' = [caseStep EXCEPT ![q.case] = done] /\ UNCHANGED <<row, timeline, notes>>
        /\ caseRequest' = [caseRequest EXCEPT ![h] = C!Idle] /\ q.kind = "step"
    BY <2>1 DEF C!CommitStep, C!Answer
  <2>3. CaseAsked(q, row)
    BY DEF CaseInv
  <2> HIDE DEF q
  <2>4. q.case \in Cases /\ q.done \in BOOLEAN
    BY <2>2, <2>3 DEF CaseAsked, CaseUpdate, StepUpdate, C!Idle
  <2>5. done \in C!Step /\ done.done = done.stamped
    BY <2>4 DEF C!Step
  <2> HIDE DEF done
  <2>6. /\ caseStep' \in [Cases -> C!Step]
        /\ \A d \in Cases : caseStep'[d] = caseStep[d] \/ caseStep'[d].done = caseStep'[d].stamped
    BY <2>2, <2>4, <2>5 DEF CaseInv
  <2>7. \A d \in Cases :
          /\ row'[d] \in C!Row => CaseTold(row'[d], timeline'[d], notes'[d], caseStep'[d])
          /\ row'[d] = C!Absent => timeline'[d] = <<>> /\ notes'[d] = 0 /\ caseStep'[d].done = caseStep'[d].stamped
    BY <2>2, <2>6 DEF CaseInv, CaseTold
  <2>8. CaseAsked(C!Idle, row)
    BY DEF CaseAsked, C!Idle
  <2>9. DOMAIN caseRequest' = Handlers /\ \A g \in Handlers : CaseAsked(caseRequest'[g], row')
    BY <2>2, <2>8 DEF CaseInv
  <2> QED
    BY <2>2, <2>6, <2>7, <2>9 DEF CaseInv
<1> QED
  BY <1>1, <1>2

LEMMA CaseInvHolds == C!Spec => []CaseInv
<1>1. ASSUME C!Init PROVE CaseInv
  <2>1. /\ row \in CaseRows /\ timeline \in [Cases -> Seq(CaseEvent)] /\ notes \in [Cases -> Nat]
        /\ caseStep \in [Cases -> C!Step] /\ DOMAIN caseRequest = Handlers
    BY <1>1 DEF C!Init, CaseRows, C!Step
  <2>2. CaseAsked(C!Idle, row)
    BY DEF CaseAsked, C!Idle
  <2> QED
    BY <1>1, <2>1, <2>2, CaseConstants DEF C!Init, CaseInv
<1>2. CaseInv /\ [C!Next]_C!vars => CaseInv'
  <2> SUFFICES ASSUME CaseInv, [C!Next]_C!vars PROVE CaseInv'
    OBVIOUS
  <2>1. CASE UNCHANGED C!vars
    BY <2>1 DEF C!vars, CaseInv
  <2>2. ASSUME NEW c \in Cases, C!Create(c) \/ C!AddNote(c) PROVE CaseInv'
    BY <2>2, CaseCreated, CaseMoves
  <2>3. ASSUME NEW h \in Handlers, NEW c \in Cases, NEW status \in Statuses \cup {C!Keep},
               NEW owner \in Analysts \cup {C!Keep}, C!ReadCase(h, c, status, owner)
        PROVE  CaseInv'
    <3>1. {c} \in SUBSET C!Present /\ UNCHANGED <<row, timeline, notes, caseStep>>
          /\ caseRequest' = [caseRequest EXCEPT ![h] =
               [kind |-> "update", cases |-> {c}, read |-> row, status |-> status, owner |-> owner]]
      BY <2>3 DEF C!ReadCase
    <3>2. CaseAsked([kind |-> "update", cases |-> {c}, read |-> row, status |-> status, owner |-> owner], row)
      BY <3>1, CaseRead
    <3> QED
      BY <3>1, <3>2, CaseReads
  <2>4. ASSUME NEW h \in Handlers, NEW named \in SUBSET Cases, NEW status \in Statuses,
               C!ReadCases(h, named, status)
        PROVE  CaseInv'
    <3>1. PICK some : some = named \cap C!Present
      OBVIOUS
    <3>2. some \in SUBSET C!Present /\ UNCHANGED <<row, timeline, notes, caseStep>>
          /\ caseRequest' = [caseRequest EXCEPT ![h] =
               [kind |-> "bulk", cases |-> some, read |-> row, status |-> status, owner |-> C!Keep]]
      BY <2>4, <3>1 DEF C!ReadCases
    <3>3. CaseAsked([kind |-> "bulk", cases |-> some, read |-> row, status |-> status, owner |-> C!Keep], row)
      BY <3>2, CaseRead
    <3> QED
      BY <3>2, <3>3, CaseReads
  <2>5. ASSUME NEW h \in Handlers, NEW c \in Cases, C!ReadStep(h, c) PROVE CaseInv'
    <3> DEFINE q == [kind |-> "step", case |-> c, done |-> caseStep[c].done]
    <3>1. UNCHANGED <<row, timeline, notes, caseStep>> /\ caseRequest' = [caseRequest EXCEPT ![h] = q]
      BY <2>5 DEF C!ReadStep
    <3>2. CaseAsked(q, row)
      BY DEF CaseAsked, StepUpdate, C!Step, CaseInv
    <3> HIDE DEF q
    <3> QED
      BY <3>1, <3>2, CaseReads
  <2>6. ASSUME NEW h \in Handlers, C!CommitCases(h) \/ C!CommitStep(h) \/ C!Fail(h) PROVE CaseInv'
    <3>1. CASE C!CommitCases(h)
      BY <3>1, CaseCommits
    <3>2. CASE C!CommitStep(h)
      <4>1. CaseAsked(caseRequest[h], row) /\ caseRequest[h].kind = "step"
        BY <3>2 DEF CaseInv, C!CommitStep
      <4>2. caseRequest[h].case \in Cases
        BY <4>1 DEF CaseAsked, CaseUpdate, StepUpdate, C!Idle
      <4> QED
        BY <3>2, <4>2, CaseMoves
    <3>3. CASE C!Fail(h)
      <4>1. UNCHANGED <<row, timeline, notes, caseStep>> /\ caseRequest' = [caseRequest EXCEPT ![h] = C!Idle]
        BY <3>3 DEF C!Fail, C!Answer
      <4>2. CaseAsked(C!Idle, row)
        BY DEF CaseAsked, C!Idle
      <4> QED
        BY <4>1, <4>2, CaseReads
    <3> QED
      BY <2>6, <3>1, <3>2, <3>3
  <2> QED
    BY <2>1, <2>2, <2>3, <2>4, <2>5, <2>6 DEF C!Next
<1> QED
  BY <1>1, <1>2, PTL DEF C!Spec

\* The place of the last change is the greatest one.
LEMMA LastTold ==
    ASSUME NEW c, NEW kind, NEW first, NEW value, Tells(timeline[c], kind, first, value),
           Len(timeline[c]) \in Nat
    PROVE  C!Told(c, kind, first) = value
<1> DEFINE changes == {i \in 1..Len(timeline[c]) :
                         /\ timeline[c][i].kind = kind
                         /\ timeline[c][i].old # timeline[c][i].new}
<1>1. C!Told(c, kind, first) = IF changes = {} THEN first ELSE timeline[c][C!Max(changes)].new
  BY DEF C!Told
<1>2. CASE value = first /\ \A i \in 1..Len(timeline[c]) : ~ChangeOf(timeline[c][i], kind)
  <2>1. changes = {}
    BY <1>2 DEF ChangeOf
  <2> QED
    BY <1>1, <1>2, <2>1
<1>3. ASSUME NEW i \in 1..Len(timeline[c]), ChangeOf(timeline[c][i], kind), timeline[c][i].new = value,
             \A j \in 1..Len(timeline[c]) : ChangeOf(timeline[c][j], kind) => j <= i
      PROVE  C!Told(c, kind, first) = value
  <2>1. i \in changes /\ changes \subseteq Nat /\ \A j \in changes : j <= i
    BY <1>3 DEF ChangeOf
  <2> HIDE DEF changes
  <2>2. C!Max(changes) = i
    <3>1. \A x \in changes : (\A y \in changes : x >= y) => x = i
      BY <2>1
    <3>2. \A y \in changes : i >= y
      BY <2>1
    <3>3. C!Max(changes) = CHOOSE x \in changes : \A y \in changes : x >= y
      BY DEF C!Max
    <3>4. C!Max(changes) \in changes /\ \A y \in changes : C!Max(changes) >= y
      BY <2>1, <3>2, <3>3
    <3> QED
      BY <3>1, <3>4
  <2> QED
    BY <1>1, <1>3, <2>1, <2>2
<1> QED
  BY <1>2, <1>3 DEF Tells

\* The timeline of a case says of its status and its assignee what the row says, each note has
\* its event, a terminal case has its closing time and a completed step its completion time,
\* whatever requests overlap (cases.py:345-386, 398-428, 474-481, 662-683).
THEOREM CasesStayTold == C!Spec => []CaseRecordsAgree
<1>1. CaseInv => C!CaseRecordsAgree
  <2> SUFFICES ASSUME CaseInv, NEW c \in C!Present
               PROVE  /\ row[c].status = C!Told(c, "status", "open")
                      /\ row[c].owner = C!Told(c, "assigned", C!Nobody)
                      /\ row[c].status \in C!Terminal => row[c].closed
                      /\ notes[c] = C!Cardinality({i \in 1..Len(timeline[c]) : timeline[c][i].kind = "note"})
                      /\ caseStep[c].done = caseStep[c].stamped
    BY DEF C!CaseRecordsAgree
  <2>1. CaseTold(row[c], timeline[c], notes[c], caseStep[c]) /\ Len(timeline[c]) \in Nat
    BY DEF C!Present, CaseInv, CaseRows
  <2>2. /\ row[c].status = C!Told(c, "status", "open")
        /\ row[c].owner = C!Told(c, "assigned", C!Nobody)
    BY <2>1, LastTold DEF CaseTold
  <2>3. notes[c] = C!Cardinality({i \in 1..Len(timeline[c]) : timeline[c][i].kind = "note"})
    BY <2>1, CaseConstants DEF CaseTold, NotesIn
  <2> QED
    BY <2>1, <2>2, <2>3 DEF CaseTold
<1> QED
  BY <1>1, CaseInvHolds, PTL DEF CaseRecordsAgree

-----------------------------------------------------------------------------
(***************************************************************************)
(* The ratings.  The row lock is held by one request at a time, and what   *)
(* it selected is the mean of the committed ratings and its own, because   *)
(* no other request commits and no counted rating changes until it ends.   *)
(***************************************************************************)
RatingMean(values, R) == [sum |-> F!SumFunction([f \in R |-> values[f]]), of |-> F!Cardinality(R)]

\* A rating is in the queue once, or counted by one worker, and then its request is done.
CountedOnce ==
  /\ ratingQueue \in Seq(Ratings) /\ counted \in [Workers -> SUBSET Ratings]
  /\ \A i \in 1..Len(ratingQueue) : ratingAt[ratingQueue[i]] = "done"
  /\ \A i, j \in 1..Len(ratingQueue) : ratingQueue[i] = ratingQueue[j] => i = j
  /\ \A w \in Workers : \A f \in counted[w] :
       /\ ratingAt[f] = "done" /\ \A i \in 1..Len(ratingQueue) : ratingQueue[i] # f
       /\ \A v \in Workers : f \in counted[v] => v = w

FeedInv ==
  /\ ratingAt \in [Ratings -> {"new", "read", "flushed", "committed", "done", "failed"}]
  /\ DOMAIN rating = Ratings /\ DOMAIN seen = Ratings /\ DOMAIN average = Ratings
  /\ IsFiniteSet(F!Stored)
  /\ triage.count \in Nat /\ triage.count <= Cardinality(F!Stored)
  /\ \A f \in Ratings : seen[f].count \in Nat /\ seen[f].count <= Cardinality(F!Stored)
  /\ \A f, g \in Ratings : ratingAt[f] = "flushed" /\ ratingAt[g] = "flushed" => f = g
  /\ \A f \in Ratings : ratingAt[f] = "flushed" => average[f] = RatingMean(rating, F!Stored \cup {f})
  /\ F!Stored # {} /\ ~unwritten => triage.avg = RatingMean(rating, F!Stored)
  /\ CountedOnce

LEMMA RatingCounts ==
    /\ \A X : F!Cardinality(X) = Cardinality(X)
    /\ \A R : F!Mean(R) = RatingMean(rating, R)
<1>1. \A X : F!Cardinality(X) = Cardinality(X)
  BY Zenon DEF F!Cardinality, Cardinality, F!IsFiniteSet, IsFiniteSet
<1> QED
  BY <1>1, Zenon DEF F!Mean, RatingMean

\* The mean of some ratings depends on these only.
LEMMA MeanOfThese ==
    ASSUME NEW values, NEW others, NEW R, \A f \in R : values[f] = others[f]
    PROVE  RatingMean(values, R) = RatingMean(others, R)
<1>1. [f \in R |-> values[f]] = [f \in R |-> others[f]]
  OBVIOUS
<1> QED
  BY ONLY <1>1, Zenon DEF RatingMean

\* A request starts or fails: what is stored, queued or counted stays.
LEMMA FeedReads ==
    ASSUME FeedInv, NEW f \in Ratings, F!Submit(f) \/ F!Flush(f) \/ F!Fail(f)
    PROVE  FeedInv'
<1>1. /\ ratingAt[f] \in {"new", "read", "flushed"} /\ UNCHANGED <<triage, unwritten, ratingQueue, counted>>
      /\ ratingAt'[f] \in {"read", "flushed", "failed"} /\ \A g \in Ratings \ {f} : ratingAt'[g] = ratingAt[g]
      /\ ratingAt' \in [Ratings -> {"new", "read", "flushed", "committed", "done", "failed"}]
      /\ DOMAIN rating' = Ratings /\ DOMAIN seen' = Ratings /\ DOMAIN average' = Ratings
      /\ \A g \in Ratings \ {f} : rating'[g] = rating[g] /\ seen'[g] = seen[g] /\ average'[g] = average[g]
      /\ seen'[f] = seen[f] \/ seen'[f] = triage \/ seen'[f] = F!NothingRead
  BY DEF FeedInv, F!Submit, F!Flush, F!Fail, F!Forget
<1>2. F!Stored' = F!Stored /\ f \notin F!Stored
  BY <1>1 DEF F!Stored
<1>3. PICK R : R = F!Stored
  OBVIOUS
<1>4. f \notin R /\ R \subseteq Ratings /\ F!Stored' = R /\ IsFiniteSet(R) /\ Cardinality(R) \in Nat
  BY <1>2, <1>3, FS_CardinalityType DEF FeedInv, F!Stored
<1>5. \A g \in Ratings : seen'[g].count \in Nat /\ seen'[g].count <= Cardinality(R)
  <2>1. F!NothingRead.count = 0
    BY DEF F!NothingRead
  <2> QED
    BY <1>1, <1>3, <1>4, <2>1 DEF FeedInv
<1>6. /\ ratingAt'[f] = "flushed" => F!Flush(f)
      /\ F!Flush(f) => /\ \A g \in Ratings : ratingAt[g] # "flushed"
                       /\ average'[f] = F!Mean(R \cup {f}) /\ rating' = rating
  <2>1. F!Submit(f) \/ F!Fail(f) => ratingAt'[f] # "flushed"
    BY DEF F!Submit, F!Fail, FeedInv
  <2> QED
    BY <1>3, <2>1 DEF FeedInv, F!Flush, F!Unlocked
<1>7. \A g, h \in Ratings : ratingAt'[g] = "flushed" /\ ratingAt'[h] = "flushed" => g = h
  BY <1>1, <1>6 DEF FeedInv
<1>8. ASSUME NEW g \in Ratings, ratingAt'[g] = "flushed"
      PROVE  average'[g] = RatingMean(rating', R \cup {g})
  <2>1. CASE g = f
    BY <1>6, <1>8, <2>1, RatingCounts
  <2>2. CASE g # f
    <3>1. average'[g] = RatingMean(rating, R \cup {g}) /\ f \notin R \cup {g}
      BY <1>1, <1>3, <1>4, <1>8, <2>2 DEF FeedInv
    <3>2. \A h \in R \cup {g} : rating[h] = rating'[h]
      BY <1>1, <1>4, <3>1
    <3> QED
      BY <3>1, <3>2, MeanOfThese
  <2> QED
    BY <2>1, <2>2
<1>9. R # {} /\ ~unwritten => triage.avg = RatingMean(rating', R)
  <2>1. \A h \in R : rating[h] = rating'[h]
    BY <1>1, <1>4
  <2>2. RatingMean(rating, R) = RatingMean(rating', R)
    BY <2>1, MeanOfThese
  <2> QED
    BY <1>3, <2>2 DEF FeedInv
<1>10. CountedOnce'
  <2>1. \A g \in Ratings : ratingAt[g] = "done" => ratingAt'[g] = "done"
    BY <1>1
  <2> QED
    BY <1>1, <2>1 DEF CountedOnce, FeedInv
<1> QED
  BY <1>1, <1>3, <1>4, <1>5, <1>7, <1>8, <1>9, <1>10 DEF FeedInv

LEMMA FeedCommits ==
    ASSUME FeedInv, NEW f \in Ratings, F!Commit(f)
    PROVE  FeedInv'
<1> DEFINE same == F!NotDirty(seen[f].avg, average[f])
<1>1. /\ ratingAt[f] = "flushed" /\ ratingAt' = [ratingAt EXCEPT ![f] = "committed"]
      /\ triage' = [count |-> seen[f].count + 1, avg |-> IF same THEN triage.avg ELSE average[f]]
      /\ (unwritten' <=> same) /\ UNCHANGED <<rating, ratingQueue, counted>>
      /\ seen' = [seen EXCEPT ![f] = F!NothingRead] /\ average' = [average EXCEPT ![f] = F!Null]
  BY Zenon DEF F!Commit, F!Forget
<1> HIDE DEF same
<1>2. PICK R : R = F!Stored
  OBVIOUS
<1>3. F!Stored' = R \cup {f} /\ f \notin R
  BY <1>1, <1>2 DEF F!Stored, FeedInv
<1>4. IsFiniteSet(R) /\ Cardinality(R) \in Nat
  BY <1>2, FS_CardinalityType DEF FeedInv
<1>5. IsFiniteSet(R \cup {f}) /\ Cardinality(R \cup {f}) = Cardinality(R) + 1
  BY <1>3, <1>4, FS_AddElement
<1>6. /\ triage'.count \in Nat /\ triage'.count <= Cardinality(R \cup {f})
      /\ \A g \in Ratings : seen'[g].count \in Nat /\ seen'[g].count <= Cardinality(R \cup {f})
  <2>1. F!NothingRead.count = 0
    BY DEF F!NothingRead
  <2>2. PICK n \in Nat : n = Cardinality(R)
    BY <1>4
  <2>3. \A g \in Ratings : seen[g].count \in Nat /\ seen[g].count <= n
    BY <1>2, <2>2 DEF FeedInv
  <2>4. triage'.count = seen[f].count + 1 /\ DOMAIN seen = Ratings
    BY <1>1 DEF FeedInv
  <2>5. \A g \in Ratings : seen'[g].count = 0 \/ seen'[g].count = seen[g].count
    BY <1>1, <2>1, <2>4
  <2>6. /\ triage'.count \in Nat /\ triage'.count <= n + 1
        /\ \A g \in Ratings : seen'[g].count \in Nat /\ seen'[g].count <= n + 1
    BY <2>3, <2>4, <2>5
  <2> QED
    BY <1>5, <2>2, <2>6
<1>7. \A g \in Ratings : ratingAt'[g] # "flushed"
  BY <1>1 DEF FeedInv
<1>8. ~unwritten' => triage'.avg = RatingMean(rating', R \cup {f})
  BY <1>1, <1>2 DEF FeedInv
<1>9. CountedOnce'
  <2>1. \A g \in Ratings : ratingAt[g] = "done" => ratingAt'[g] = "done"
    BY <1>1 DEF FeedInv
  <2> QED
    BY <1>1, <2>1 DEF CountedOnce, FeedInv
<1>10. ratingAt' \in [Ratings -> {"new", "read", "flushed", "committed", "done", "failed"}]
       /\ DOMAIN rating' = Ratings /\ DOMAIN seen' = Ratings /\ DOMAIN average' = Ratings
  BY <1>1 DEF FeedInv
<1> QED
  BY <1>3, <1>5, <1>6, <1>7, <1>8, <1>9, <1>10 DEF FeedInv

\* Whatever happens after the commit leaves the row alone.
LEMMA FeedSettled ==
    ASSUME FeedInv, UNCHANGED <<rating, triage, seen, average, unwritten>>,
           ratingAt' \in [Ratings -> {"new", "read", "flushed", "committed", "done", "failed"}],
           \A f \in Ratings : ratingAt'[f] = ratingAt[f] \/ (ratingAt[f] = "committed" /\ ratingAt'[f] = "done"), CountedOnce'
    PROVE  FeedInv'
<1>1. F!Stored' = F!Stored
  BY DEF F!Stored
<1>2. \A f \in Ratings : ratingAt'[f] = "flushed" => ratingAt[f] = "flushed"
  OBVIOUS
<1> QED
  BY <1>1, <1>2 DEF FeedInv

\* A queue of which the last entry has been taken.
LEMMA AllButLast ==
    ASSUME NEW S, NEW q \in Seq(S), q # <<>>, NEW rest, rest = SubSeq(q, 1, Len(q) - 1)
    PROVE  /\ rest \in Seq(S) /\ Len(rest) = Len(q) - 1
           /\ \A i \in 1..Len(q) - 1 : rest[i] = q[i]
<1>1. PICK n \in Nat : n = Len(q) - 1
  OBVIOUS
<1>2. /\ n \in Int /\ 1 \in Int /\ (1 <= n \/ n = 0) /\ n - 1 + 1 = n
      /\ rest = SubSeq(q, 1, n) /\ \A i \in 1..n : q[i] \in S
  BY <1>1
<1>3. /\ rest \in Seq(S) /\ Len(rest) = (IF 1 <= n THEN n - 1 + 1 ELSE 0)
      /\ \A i \in 1..n - 1 + 1 : rest[i] = q[1 + i - 1]
  BY <1>2, SubSeqProperties
<1>4. \A i \in 1..n : 1 + i - 1 = i
  BY <1>2
<1> QED
  BY <1>1, <1>2, <1>3, <1>4

LEMMA FeedCounts ==
    ASSUME FeedInv,
           \/ \E f \in Ratings : F!Push(f)
           \/ \E w \in Workers : F!Count(w) \/ F!Restart(w)
    PROVE  FeedInv'
<1>1. ASSUME NEW f \in Ratings, F!Push(f) PROVE FeedInv'
  <2>1. /\ ratingAt[f] = "committed" /\ ratingAt' = [ratingAt EXCEPT ![f] = "done"] /\ counted' = counted
        /\ UNCHANGED <<rating, triage, seen, average, unwritten>>
        /\ ratingQueue' = ratingQueue \/ ratingQueue' = <<f>> \o ratingQueue
    BY <1>1 DEF F!Push
  <2>2. /\ ratingAt' \in [Ratings -> {"new", "read", "flushed", "committed", "done", "failed"}]
        /\ \A g \in Ratings : ratingAt'[g] = ratingAt[g] \/ (ratingAt[g] = "committed" /\ ratingAt'[g] = "done")
        /\ ratingAt'[f] = "done" /\ ratingQueue \in Seq(Ratings)
        /\ \A g \in Ratings : ratingAt[g] = "done" => ratingAt'[g] = "done"
    BY <2>1 DEF FeedInv, CountedOnce
  <2>3. CASE ratingQueue' = ratingQueue
    <3>1. CountedOnce'
      BY <2>1, <2>2, <2>3 DEF FeedInv, CountedOnce
    <3> QED
      BY <2>1, <2>2, <3>1, FeedSettled
  <2>4. CASE ratingQueue' = <<f>> \o ratingQueue
    <3>1. /\ ratingQueue' \in Seq(Ratings) /\ Len(ratingQueue') = Len(ratingQueue) + 1 /\ Len(ratingQueue) \in Nat
          /\ ratingQueue'[1] = f /\ \A i \in 1..Len(ratingQueue') : i # 1 => ratingQueue'[i] = ratingQueue[i - 1] /\ i - 1 \in 1..Len(ratingQueue)
      BY <2>2, <2>4
    <3>2. \A i \in 1..Len(ratingQueue) : ratingQueue[i] # f /\ ratingQueue[i] \in Ratings /\ ratingAt[ratingQueue[i]] = "done"
      BY <2>1, <2>2 DEF FeedInv, CountedOnce
    <3>0. ASSUME NEW i \in 1..Len(ratingQueue')
          PROVE  i = 1 \/ \E k \in 1..Len(ratingQueue) : i = k + 1 /\ ratingQueue'[i] = ratingQueue[k]
      <4>1. i # 1 => i - 1 \in 1..Len(ratingQueue) /\ i = (i - 1) + 1
        BY <3>1
      <4> QED
        BY <3>1, <4>1
    <3>3. \A i \in 1..Len(ratingQueue') : ratingAt'[ratingQueue'[i]] = "done"
      <4> SUFFICES ASSUME NEW i \in 1..Len(ratingQueue') PROVE ratingAt'[ratingQueue'[i]] = "done"
        OBVIOUS
      <4>1. CASE i = 1
        BY <2>2, <3>1, <4>1
      <4>2. CASE i # 1
        <5>1. PICK k \in 1..Len(ratingQueue) : ratingQueue'[i] = ratingQueue[k]
          BY <3>0, <4>2
        <5>2. ratingQueue[k] \in Ratings /\ ratingAt[ratingQueue[k]] = "done"
          BY <3>2
        <5> QED
          BY <2>2, <5>1, <5>2
      <4> QED
        BY <4>1, <4>2
    <3>4. ASSUME NEW i \in 1..Len(ratingQueue'), NEW j \in 1..Len(ratingQueue'), ratingQueue'[i] = ratingQueue'[j] PROVE i = j
      <4>1. \A k, l \in 1..Len(ratingQueue) : ratingQueue[k] = ratingQueue[l] => k = l
        BY DEF FeedInv, CountedOnce
      <4>2. ratingQueue'[1] = f /\ \A k \in 1..Len(ratingQueue) : ratingQueue[k] # f
        BY <3>1, <3>2
      <4>3. CASE i = 1
        <5>1. j = 1 \/ \E k \in 1..Len(ratingQueue) : ratingQueue'[j] = ratingQueue[k]
          BY <3>0
        <5> QED
          BY <3>4, <4>2, <4>3, <5>1
      <4>4. CASE i # 1
        <5>1. PICK k \in 1..Len(ratingQueue) : i = k + 1 /\ ratingQueue'[i] = ratingQueue[k]
          BY <3>0, <4>4
        <5>2. CASE j = 1
          BY <3>4, <4>2, <5>1, <5>2
        <5>3. CASE j # 1
          <6>1. PICK l \in 1..Len(ratingQueue) : j = l + 1 /\ ratingQueue'[j] = ratingQueue[l]
            BY <3>0, <5>3
          <6>2. k = l
            BY <3>4, <4>1, <5>1, <6>1
          <6> QED
            BY <5>1, <6>1, <6>2
        <5> QED
          BY <5>2, <5>3
      <4> QED
        BY <4>3, <4>4
    <3>5. ASSUME NEW w \in Workers, NEW g \in counted[w]
          PROVE  /\ ratingAt'[g] = "done" /\ \A i \in 1..Len(ratingQueue') : ratingQueue'[i] # g
                 /\ \A v \in Workers : g \in counted[v] => v = w
      <4>1. /\ g \in Ratings /\ ratingAt[g] = "done" /\ g # f
            /\ \A i \in 1..Len(ratingQueue) : ratingQueue[i] # g
            /\ \A v \in Workers : g \in counted[v] => v = w
        BY <2>1, <3>5 DEF FeedInv, CountedOnce
      <4>2. ratingQueue'[1] = f /\ ratingAt'[g] = "done"
        BY <2>2, <3>1, <4>1
      <4> QED
        BY <3>0, <4>1, <4>2
    <3>6. counted' \in [Workers -> SUBSET Ratings]
      BY <2>1 DEF FeedInv, CountedOnce
    <3>7. CountedOnce'
      BY <2>1, <3>1, <3>3, <3>4, <3>5, <3>6 DEF CountedOnce
    <3> QED
      BY <2>1, <2>2, <3>7, FeedSettled
  <2> QED
    BY <2>1, <2>3, <2>4
<1>2. ASSUME NEW w \in Workers, F!Count(w) PROVE FeedInv'
  <2>1. /\ ratingQueue # <<>> /\ ratingQueue' = SubSeq(ratingQueue, 1, Len(ratingQueue) - 1)
        /\ counted' = counted \/ counted' = [counted EXCEPT ![w] = counted[w] \cup {ratingQueue[Len(ratingQueue)]}]
        /\ UNCHANGED <<ratingAt, rating, triage, seen, average, unwritten>>
    BY <1>2 DEF F!Count, FeedInv, CountedOnce
  <2>2. ratingQueue \in Seq(Ratings) /\ Len(ratingQueue) \in Nat /\ Len(ratingQueue) \in 1..Len(ratingQueue)
    BY <2>1 DEF FeedInv, CountedOnce
  <2>3. /\ ratingQueue' \in Seq(Ratings) /\ Len(ratingQueue') = Len(ratingQueue) - 1
        /\ \A i \in 1..Len(ratingQueue') : ratingQueue'[i] = ratingQueue[i] /\ i \in 1..Len(ratingQueue) /\ i # Len(ratingQueue)
    <3>1. ratingQueue' \in Seq(Ratings) /\ Len(ratingQueue') = Len(ratingQueue) - 1
          /\ \A i \in 1..Len(ratingQueue) - 1 : ratingQueue'[i] = ratingQueue[i]
      <4>1. PICK q, rest : q = ratingQueue /\ rest = ratingQueue'
        OBVIOUS
      <4>2. q \in Seq(Ratings) /\ q # <<>> /\ rest = SubSeq(q, 1, Len(q) - 1)
        BY <2>1, <2>2, <4>1
      <4>3. /\ rest \in Seq(Ratings) /\ Len(rest) = Len(q) - 1
            /\ \A i \in 1..Len(q) - 1 : rest[i] = q[i]
        BY ONLY <4>2, AllButLast
      <4> QED
        BY <4>1, <4>3
    <3> QED
      BY <2>2, <3>1
  <2>4. PICK f \in Ratings : f = ratingQueue[Len(ratingQueue)]
    BY <2>2
  <2>5. ratingAt[f] = "done" /\ (\A i \in 1..Len(ratingQueue') : ratingQueue'[i] # f) /\ \A v \in Workers : f \notin counted[v]
    BY <2>2, <2>3, <2>4 DEF FeedInv, CountedOnce
  <2>6. /\ counted' \in [Workers -> SUBSET Ratings]
        /\ \A v \in Workers : \A g \in counted'[v] : g \in counted[v] \/ (g = f /\ v = w)
    BY <2>1, <2>4 DEF FeedInv, CountedOnce
  <2>7. ASSUME NEW v \in Workers, NEW g \in counted'[v]
        PROVE  /\ ratingAt'[g] = "done" /\ \A i \in 1..Len(ratingQueue') : ratingQueue'[i] # g
               /\ \A u \in Workers : g \in counted'[u] => u = v
    <3>1. /\ \A u \in Workers : \A x \in counted[u] :
                /\ ratingAt[x] = "done" /\ \A i \in 1..Len(ratingQueue) : ratingQueue[i] # x
                /\ \A t \in Workers : x \in counted[t] => t = u
          /\ ratingAt' = ratingAt
      BY <2>1 DEF FeedInv, CountedOnce
    <3>2. \A i \in 1..Len(ratingQueue') : ratingQueue'[i] = ratingQueue[i] /\ i \in 1..Len(ratingQueue)
      BY <2>3
    <3>3. CASE g \in counted[v]
      <4>1. ratingAt'[g] = "done" /\ \A i \in 1..Len(ratingQueue') : ratingQueue'[i] # g
        BY <3>1, <3>2, <3>3
      <4>2. g # f
        BY <2>5, <3>3
      <4> QED
        BY <2>6, <3>1, <3>3, <4>1, <4>2
    <3>4. CASE g = f /\ v = w
      BY <2>5, <2>6, <3>1, <3>4
    <3> QED
      BY <2>6, <2>7, <3>3, <3>4
  <2>8. /\ \A i \in 1..Len(ratingQueue') : ratingAt'[ratingQueue'[i]] = "done"
        /\ \A i, j \in 1..Len(ratingQueue') : ratingQueue'[i] = ratingQueue'[j] => i = j
    <3>1. /\ \A i \in 1..Len(ratingQueue) : ratingAt[ratingQueue[i]] = "done"
          /\ \A i, j \in 1..Len(ratingQueue) : ratingQueue[i] = ratingQueue[j] => i = j
      BY DEF FeedInv, CountedOnce
    <3>2. ratingAt' = ratingAt
      BY <2>1
    <3>3. \A i \in 1..Len(ratingQueue') : ratingQueue'[i] = ratingQueue[i] /\ i \in 1..Len(ratingQueue)
      BY <2>3
    <3> QED
      BY <3>1, <3>2, <3>3
  <2>9. CountedOnce'
    BY <2>3, <2>6, <2>7, <2>8 DEF CountedOnce
  <2> QED
    BY <2>1, <2>9, FeedSettled DEF FeedInv
<1>3. ASSUME NEW w \in Workers, F!Restart(w) PROVE FeedInv'
  <2>1. counted' = [counted EXCEPT ![w] = {}] /\ UNCHANGED <<ratingAt, rating, triage, seen, average, unwritten, ratingQueue>>
    BY <1>3 DEF F!Restart
  <2>2. CountedOnce'
    BY <2>1 DEF FeedInv, CountedOnce
  <2> QED
    BY <2>1, <2>2, FeedSettled DEF FeedInv
<1> QED
  BY <1>1, <1>2, <1>3

LEMMA FeedInvHolds == F!Spec => []FeedInv
<1>1. ASSUME F!Init PROVE FeedInv
  <2>1. F!Stored = {}
    BY <1>1 DEF F!Init, F!Stored
  <2>2. CountedOnce
    BY <1>1 DEF F!Init, CountedOnce
  <2>3. IsFiniteSet({}) /\ Cardinality({}) = 0
    BY FS_EmptySet
  <2> QED
    BY <1>1, <2>1, <2>2, <2>3 DEF F!Init, FeedInv, F!NothingRead
<1>2. FeedInv /\ [F!Next]_F!vars => FeedInv'
  <2> SUFFICES ASSUME FeedInv, [F!Next]_F!vars PROVE FeedInv'
    OBVIOUS
  <2>1. CASE UNCHANGED F!vars
    BY <2>1 DEF F!vars, FeedInv, CountedOnce, F!Stored
  <2>2. CASE F!Next
    BY <2>2, FeedReads, FeedCommits, FeedCounts DEF F!Next
  <2> QED
    BY <2>1, <2>2
<1> QED
  BY <1>1, <1>2, PTL DEF F!Spec

\* The average of a triage result is the mean of all its committed ratings, unless the last
\* commit left the column alone; its count is not above them; and no rating is counted by two
\* workers (triage.py:183-220, feedback_worker.py:34-70).
THEOREM AverageStaysComplete == F!Spec => []AverageIsComplete
<1>1. FeedInv => F!AverageIsComplete
  <2> SUFFICES ASSUME FeedInv PROVE F!AverageIsComplete
    OBVIOUS
  <2>1. ASSUME F!Stored # {}, ~unwritten PROVE F!SameMean(triage.avg, F!Mean(F!Stored))
    <3>1. PICK m, R : m = F!Mean(F!Stored) /\ R = F!Stored
      OBVIOUS
    <3>2. triage.avg = m /\ m.of = Cardinality(R) /\ R # {} /\ IsFiniteSet(R)
      BY <2>1, <3>1, RatingCounts DEF FeedInv, F!Mean
    <3>3. m.of \in Nat /\ m.of > 0
      BY <3>2, FS_CardinalityType, FS_EmptySet
    <3> QED
      BY <3>1, <3>2, <3>3 DEF F!SameMean
  <2>2. triage.count <= F!Cardinality(F!Stored)
    BY RatingCounts DEF FeedInv
  <2>3. \A v, w \in Workers : v # w => counted[v] \cap counted[w] = {}
    BY DEF FeedInv, CountedOnce
  <2> QED
    BY <2>1, <2>2, <2>3 DEF F!AverageIsComplete
<1> QED
  BY <1>1, FeedInvHolds, PTL DEF AverageIsComplete

-----------------------------------------------------------------------------
(***************************************************************************)
(* The calls of language models.  An analysis that asks has failed once    *)
(* less than it has asked, so that its breaker, with a threshold above its *)
(* retries, is never open; the line has each waiting analysis once.        *)
(***************************************************************************)
LlmCall == [phase : {"new", "waiting", "asking", "cloud", "done"}, kind : L!Kinds,
            alert : SUBSET L!Signals, tier : 0..3, attempts : Nat, cb : L!BreakerState,
            error : {"none", "transient", "bad", "circuit"}]

\* The tier of an analysis, and what it was routed for.
RoutedWell(r) ==
  /\ r.kind = "pinned" => r.tier = 1
  /\ r.kind = "scored" => r.tier <= L!TierOf(L!Score(r.alert)) \/ (strategy = "full" /\ r.tier = 2)
  /\ r.tier = 3 => escalation

\* How often an analysis has asked, and what its breaker has seen of it.
AskedWell(r) ==
  /\ r.phase \in {"new", "waiting", "cloud"} => r.attempts = 0
  /\ r.phase \in {"new", "waiting"} => r.cb = L!FreshBreaker
  /\ r.phase # "done" => r.error = "none"
  /\ r.attempts <= MaxRetries + 1
  /\ MaxRetries < BreakerThreshold =>
       /\ r.error # "circuit"
       /\ r.phase = "asking" => r.attempts = r.cb.failures + 1

LlmInv ==
  /\ calls \in [Calls -> LlmCall] /\ escalation \in BOOLEAN
  /\ \A c \in Calls : RoutedWell(calls[c]) /\ AskedWell(calls[c])
  /\ line \in Seq(Calls)
  /\ \A i \in 1..Len(line) : calls[line[i]].phase = "waiting"
  /\ \A i, j \in 1..Len(line) : line[i] = line[j] => i = j
  /\ IsFiniteSet(L!At("asking")) /\ Cardinality(L!At("asking")) <= Concurrency

LEMMA LlmConstants ==
    /\ AnalysedAlerts \subseteq SUBSET L!Signals /\ Concurrency \in Nat \ {0} /\ MaxRetries \in Nat
    /\ BreakerThreshold \in Nat \ {0}
    /\ \A X : L!Cardinality(X) = Cardinality(X)
<1>1. \A X : L!Cardinality(X) = Cardinality(X)
  BY Zenon DEF L!Cardinality, Cardinality, L!IsFiniteSet, IsFiniteSet
<1> QED
  BY <1>1, ServicesAssumption DEF L!LlmAssumption

\* _compute_score: a lookup that fails only takes points away.
LEMMA FewerPoints ==
    ASSUME NEW alert, NEW failing \in SUBSET L!Lookups
    PROVE  /\ L!Score(alert) \in Int /\ L!Score(L!Known(alert, failing)) \in Int
           /\ L!Score(L!Known(alert, failing)) <= L!Score(alert)
<1> DEFINE known == L!Known(alert, failing)
<1>1. \A s \in {"level", "bad_ip", "complex", "burst"} : s \in known <=> s \in alert
  BY DEF L!Known, L!Lookups
<1>2. \A s : s \in known => s \in alert
  BY DEF L!Known
<1> HIDE DEF known
<1>3. /\ L!Points("level", known, 3) = L!Points("level", alert, 3)
      /\ L!Points("bad_ip", known, 2) = L!Points("bad_ip", alert, 2)
      /\ L!Points("complex", known, 1) = L!Points("complex", alert, 1)
      /\ L!Points("burst", known, -2) = L!Points("burst", alert, -2)
  BY <1>1 DEF L!Points
<1>4. \A s : /\ L!Points(s, known, 2) \in Int /\ L!Points(s, alert, 2) \in Int
             /\ L!Points(s, known, 2) <= L!Points(s, alert, 2)
  BY <1>2 DEF L!Points
<1>5. /\ L!Points("level", alert, 3) \in Int /\ L!Points("complex", alert, 1) \in Int
      /\ L!Points("burst", alert, -2) \in Int
  BY DEF L!Points
<1> QED
  BY <1>3, <1>4, <1>5 DEF L!Score, known

\* A breaker that has counted fewer failures than its threshold, and what one more makes of it.
LEMMA BreakerCounts ==
    ASSUME NEW b \in L!BreakerState
    PROVE  /\ L!AfterFailure(b) \in L!BreakerState
           /\ b.failures + 1 < BreakerThreshold => L!AfterFailure(b).failures = b.failures + 1
           /\ b.failures < BreakerThreshold => L!Admits(b)
<1>1. b.failures \in 0..BreakerThreshold /\ b.opened \in BOOLEAN /\ b.cooled \in BOOLEAN
      /\ BreakerThreshold \in Nat \ {0}
  BY LlmConstants DEF L!BreakerState
<1>2. CASE b.failures + 1 >= BreakerThreshold
  <2>1. L!AfterFailure(b) = [b EXCEPT !.failures = BreakerThreshold, !.opened = TRUE]
    BY <1>2 DEF L!AfterFailure
  <2>2. L!AfterFailure(b) = [failures |-> BreakerThreshold, opened |-> TRUE, cooled |-> b.cooled]
    BY <2>1 DEF L!BreakerState
  <2> QED
    BY <1>1, <1>2, <2>2 DEF L!BreakerState, L!Admits
<1>3. CASE ~(b.failures + 1 >= BreakerThreshold)
  <2>1. L!AfterFailure(b) = [b EXCEPT !.failures = b.failures + 1, !.opened = b.opened]
    BY <1>3 DEF L!AfterFailure
  <2>2. L!AfterFailure(b) = [failures |-> b.failures + 1, opened |-> b.opened, cooled |-> b.cooled]
    BY <2>1 DEF L!BreakerState
  <2> QED
    BY <1>1, <1>3, <2>2 DEF L!BreakerState, L!Admits
<1> QED
  BY <1>2, <1>3

\* One analysis moves, out of the line or outside it, and does not begin to ask.
LEMMA LlmMoves ==
    ASSUME LlmInv, NEW c \in Calls, NEW r \in LlmCall, calls' = [calls EXCEPT ![c] = r],
           UNCHANGED <<strategy, escalation, line>>, calls[c].phase # "waiting",
           RoutedWell(r), AskedWell(r), r.phase = "asking" => calls[c].phase = "asking"
    PROVE  LlmInv'
<1>1. calls' \in [Calls -> LlmCall] /\ escalation' \in BOOLEAN /\ line' \in Seq(Calls)
  BY DEF LlmInv
<1>2. \A d \in Calls : RoutedWell(calls'[d]) /\ AskedWell(calls'[d])
  BY DEF LlmInv
<1>3. \A d \in Calls : RoutedWell(calls[d])' /\ AskedWell(calls[d])'
  BY <1>2 DEF RoutedWell, AskedWell, L!TierOf
<1>4. \A i \in 1..Len(line') : calls'[line'[i]].phase = "waiting"
  <2>1. \A i \in 1..Len(line) : line[i] \in Calls
    BY DEF LlmInv
  <2> QED
    BY <2>1 DEF LlmInv
<1>5. L!At("asking")' \in SUBSET L!At("asking")
  BY DEF LlmInv, L!At
<1>6. IsFiniteSet(L!At("asking")') /\ Cardinality(L!At("asking")') <= Cardinality(L!At("asking"))
      /\ Cardinality(L!At("asking")) \in Nat /\ Cardinality(L!At("asking")') \in Nat
  BY <1>5, FS_Subset, FS_CardinalityType DEF LlmInv
<1>7. Cardinality(L!At("asking")') <= Concurrency
  BY <1>6, LlmConstants DEF LlmInv
<1> QED
  BY <1>1, <1>3, <1>4, <1>6, <1>7 DEF LlmInv

\* What an analysis is after it has begun to ask.
LEMMA AskingRecord ==
    ASSUME NEW q \in LlmCall, NEW p, NEW n
    PROVE  [q EXCEPT !.phase = p, !.attempts = n] =
           [phase |-> p, kind |-> q.kind, alert |-> q.alert, tier |-> q.tier,
            attempts |-> n, cb |-> q.cb, error |-> q.error]
<1>1. q = [phase |-> q.phase, kind |-> q.kind, alert |-> q.alert, tier |-> q.tier,
           attempts |-> q.attempts, cb |-> q.cb, error |-> q.error]
  BY DEF LlmCall
<1>2. PICK r : r = [q EXCEPT !.phase = p]
  OBVIOUS
<1>3. r = [phase |-> p, kind |-> q.kind, alert |-> q.alert, tier |-> q.tier,
           attempts |-> q.attempts, cb |-> q.cb, error |-> q.error]
  BY <1>1, <1>2
<1>4. [r EXCEPT !.attempts = n] = [phase |-> p, kind |-> q.kind, alert |-> q.alert, tier |-> q.tier,
           attempts |-> n, cb |-> q.cb, error |-> q.error]
  BY <1>3
<1> QED
  BY ONLY <1>2, <1>4, Zenon

\* get_provider of the router, for an alert of which some lookups fail.
LEMMA TierFound ==
    ASSUME LlmInv, NEW kind \in L!Kinds, NEW alert \in SUBSET L!Signals, NEW failing \in SUBSET L!Lookups
    PROVE  LET tier == L!Tier(kind, L!Known(alert, failing)) IN
           /\ tier \in 1..3 /\ (kind = "pinned" => tier = 1) /\ (tier = 3 => escalation)
           /\ tier <= L!TierOf(L!Score(alert)) \/ (strategy = "full" /\ tier = 2)
<1> DEFINE low == L!Score(L!Known(alert, failing))
           high == L!Score(alert)
<1>1. low \in Int /\ high \in Int /\ low <= high
  BY FewerPoints
<1> HIDE DEF low, high
<1>2. /\ L!TierOf(low) \in 1..3 /\ L!TierOf(high) \in 1..3 /\ L!TierOf(low) <= L!TierOf(high)
      /\ L!TierOf(low) = 3 => escalation
  BY <1>1 DEF L!TierOf
<1>3. L!Tier(kind, L!Known(alert, failing)) =
        IF kind = "pinned" \/ strategy = "fast" THEN 1
        ELSE IF strategy = "full" THEN 2 ELSE L!TierOf(low)
  BY DEF L!Tier, low
<1> QED
  BY <1>2, <1>3 DEF high

LEMMA LlmRoutes ==
    ASSUME LlmInv, NEW c \in Calls, L!Route(c)
    PROVE  LlmInv'
<1>1. PICK kind \in L!Kinds, alert \in AnalysedAlerts, failing \in SUBSET L!Lookups :
        LET tier == IF kind = "plain" THEN 0 ELSE L!Tier(kind, L!Known(alert, failing)) IN
        /\ calls' = [calls EXCEPT ![c].phase = IF L!Local(tier) THEN "waiting" ELSE "cloud",
                       ![c].kind = kind, ![c].tier = tier,
                       ![c].alert = IF kind = "scored" THEN alert ELSE {}]
        /\ line' = IF L!Local(tier) THEN Append(line, c) ELSE line
  BY DEF L!Route
<1> DEFINE tier == IF kind = "plain" THEN 0 ELSE L!Tier(kind, L!Known(alert, failing))
           q == calls[c]
           r == [phase |-> IF L!Local(tier) THEN "waiting" ELSE "cloud", kind |-> kind,
                 alert |-> IF kind = "scored" THEN alert ELSE {}, tier |-> tier,
                 attempts |-> q.attempts, cb |-> q.cb, error |-> q.error]
<1>2. alert \in SUBSET L!Signals
  BY LlmConstants
<1>3. /\ tier \in 0..3 /\ (kind = "pinned" => tier = 1) /\ (tier = 3 => escalation)
      /\ kind = "scored" => tier <= L!TierOf(L!Score(alert)) \/ (strategy = "full" /\ tier = 2)
  BY <1>2, TierFound
<1>4. q \in LlmCall /\ q.phase = "new" /\ AskedWell(q) /\ UNCHANGED <<strategy, escalation>>
  BY DEF LlmInv, L!Route
<1>5. /\ calls' = [calls EXCEPT ![c] = [q EXCEPT !.phase = IF L!Local(tier) THEN "waiting" ELSE "cloud",
                     !.kind = kind, !.tier = tier, !.alert = IF kind = "scored" THEN alert ELSE {}]]
      /\ line' = IF L!Local(tier) THEN Append(line, c) ELSE line
  BY <1>1 DEF LlmInv
<1> HIDE DEF tier, q
<1>6. calls' = [calls EXCEPT ![c] = r]
  <2>1. PICK p : p = IF L!Local(tier) THEN "waiting" ELSE "cloud"
    OBVIOUS
  <2>2. PICK a : a = IF kind = "scored" THEN alert ELSE {}
    OBVIOUS
  <2>3. PICK k, t, g : k = kind /\ t = tier /\ g = q
    OBVIOUS
  <2>4. calls' = [calls EXCEPT ![c] = [g EXCEPT !.phase = p, !.kind = k, !.tier = t, !.alert = a]]
    BY ONLY <1>5, <2>1, <2>2, <2>3, Zenon
  <2>5. [g EXCEPT !.phase = p, !.kind = k, !.tier = t, !.alert = a] =
          [phase |-> p, kind |-> k, alert |-> a, tier |-> t,
           attempts |-> g.attempts, cb |-> g.cb, error |-> g.error]
    <3>0. g \in LlmCall
      BY <1>4, <2>3
    <3>1. g = [phase |-> g.phase, kind |-> g.kind, alert |-> g.alert, tier |-> g.tier,
               attempts |-> g.attempts, cb |-> g.cb, error |-> g.error]
      BY <3>0 DEF LlmCall
    <3>2. PICK w : w = [g EXCEPT !.phase = p]
      OBVIOUS
    <3>3. w = [phase |-> p, kind |-> g.kind, alert |-> g.alert, tier |-> g.tier,
               attempts |-> g.attempts, cb |-> g.cb, error |-> g.error]
      BY <3>1, <3>2
    <3>4. PICK s : s = [w EXCEPT !.kind = k]
      OBVIOUS
    <3>5. s = [phase |-> p, kind |-> k, alert |-> g.alert, tier |-> g.tier,
               attempts |-> g.attempts, cb |-> g.cb, error |-> g.error]
      BY <3>3, <3>4
    <3>6. PICK z : z = [s EXCEPT !.tier = t]
      OBVIOUS
    <3>7. z = [phase |-> p, kind |-> k, alert |-> g.alert, tier |-> t,
               attempts |-> g.attempts, cb |-> g.cb, error |-> g.error]
      BY <3>5, <3>6
    <3>8. [z EXCEPT !.alert = a] = [phase |-> p, kind |-> k, alert |-> a, tier |-> t,
               attempts |-> g.attempts, cb |-> g.cb, error |-> g.error]
      BY <3>7
    <3> QED
      BY ONLY <3>2, <3>4, <3>6, <3>8, Zenon
  <2> QED
    BY ONLY <2>1, <2>2, <2>3, <2>4, <2>5, Zenon DEF r
<1>7. r \in LlmCall
  BY <1>2, <1>3, <1>4 DEF LlmCall
<1>8. RoutedWell(r) /\ AskedWell(r)
  BY <1>3, <1>4 DEF RoutedWell, AskedWell
<1>9. q = calls[c] /\ calls \in [Calls -> LlmCall] /\ line \in Seq(Calls)
  BY DEF q, LlmInv
<1>10. r.phase \in {"waiting", "cloud"} /\ (r.phase = "waiting" <=> L!Local(tier))
  OBVIOUS
<1> HIDE DEF r
<1>11. CASE ~L!Local(tier)
  <2>1. line' = line
    BY <1>5, <1>11
  <2> QED
    BY <1>4, <1>6, <1>7, <1>8, <1>9, <1>10, <2>1, LlmMoves
<1>12. CASE L!Local(tier)
  <2>1. line' = Append(line, c) /\ r.phase = "waiting"
    BY <1>5, <1>10, <1>12
  <2>2. /\ line' \in Seq(Calls) /\ Len(line') = Len(line) + 1 /\ Len(line) \in Nat
        /\ \A i \in 1..Len(line) : line'[i] = line[i] /\ line[i] \in Calls
        /\ line'[Len(line) + 1] = c
    BY <1>9, <2>1
  <2>3. \A i \in 1..Len(line) : line[i] # c
    BY <1>4, <1>9 DEF LlmInv
  <2>4. /\ calls' \in [Calls -> LlmCall] /\ escalation' \in BOOLEAN
        /\ \A d \in Calls : RoutedWell(calls'[d]) /\ AskedWell(calls'[d])
    BY <1>4, <1>6, <1>7, <1>8 DEF LlmInv
  <2>5. \A d \in Calls : RoutedWell(calls[d])' /\ AskedWell(calls[d])'
    BY <1>4, <2>4 DEF RoutedWell, AskedWell, L!TierOf
  <2>6. \A i \in 1..Len(line') : calls'[line'[i]].phase = "waiting"
    BY <1>6, <1>9, <2>1, <2>2, <2>3 DEF LlmInv
  <2>7. \A i, j \in 1..Len(line') : line'[i] = line'[j] => i = j
    BY <2>2, <2>3 DEF LlmInv
  <2>8. L!At("asking")' = L!At("asking")
    BY <1>4, <1>6, <1>9, <2>1 DEF L!At
  <2> QED
    BY <2>2, <2>4, <2>5, <2>6, <2>7, <2>8 DEF LlmInv
<1> QED
  BY <1>11, <1>12

\* The analysis that has waited longest asks for the first time.
LEMMA LlmBegins ==
    ASSUME LlmInv, NEW c \in Calls, L!Begin(c)
    PROVE  LlmInv'
<1> DEFINE q == calls[c]
           r == L!Attempt(q)
           asking == L!At("asking")
<1>1. /\ line # <<>> /\ c = Head(line) /\ line' = Tail(line) /\ Cardinality(asking) < Concurrency
      /\ calls' = [calls EXCEPT ![c] = r] /\ UNCHANGED <<strategy, escalation>>
  BY LlmConstants DEF L!Begin
<1>2. /\ line \in Seq(Calls) /\ Len(line) \in Nat /\ 1 \in 1..Len(line) /\ c = line[1]
      /\ line' \in Seq(Calls) /\ Len(line') = Len(line) - 1
      /\ \A i \in 1..Len(line') : i + 1 \in 1..Len(line) /\ line'[i] = line[i + 1]
      /\ \A i \in 1..Len(line) : line[i] \in Calls
  BY <1>1 DEF LlmInv
<1>3. /\ q \in LlmCall /\ q.phase = "waiting" /\ q.attempts = 0 /\ q.cb = L!FreshBreaker
      /\ q.error = "none" /\ RoutedWell(q)
  BY <1>2 DEF LlmInv, AskedWell
<1> HIDE DEF q
<1>4. L!Admits(q.cb) /\ q.cb.failures = 0
  BY <1>3, LlmConstants DEF L!Admits, L!FreshBreaker
<1>5. r = [phase |-> "asking", kind |-> q.kind, alert |-> q.alert, tier |-> q.tier,
           attempts |-> q.attempts + 1, cb |-> q.cb, error |-> q.error]
  <2>1. r = [q EXCEPT !.phase = "asking", !.attempts = q.attempts + 1]
    BY <1>4 DEF L!Attempt
  <2> QED
    BY <1>3, <2>1, AskingRecord
<1> HIDE DEF r
<1>6. /\ r \in LlmCall /\ r.phase = "asking" /\ r.attempts = 1 /\ r.cb = q.cb /\ r.error = "none"
      /\ r.kind = q.kind /\ r.alert = q.alert /\ r.tier = q.tier
  BY <1>3, <1>5 DEF LlmCall
<1>7. RoutedWell(r) /\ AskedWell(r)
  BY <1>3, <1>4, <1>6, LlmConstants DEF RoutedWell, AskedWell
<1>8. /\ calls' \in [Calls -> LlmCall] /\ escalation' \in BOOLEAN
      /\ \A d \in Calls : RoutedWell(calls'[d]) /\ AskedWell(calls'[d])
  BY <1>1, <1>6, <1>7 DEF LlmInv
<1>9. \A d \in Calls : RoutedWell(calls[d])' /\ AskedWell(calls[d])'
  BY <1>1, <1>8 DEF RoutedWell, AskedWell, L!TierOf
<1>10. \A i \in 1..Len(line') : calls'[line'[i]].phase = "waiting"
  <2>1. ASSUME NEW i \in 1..Len(line') PROVE line'[i] # c
    <3>1. i + 1 # 1 /\ i + 1 \in 1..Len(line) /\ line'[i] = line[i + 1]
      BY <1>2
    <3> QED
      BY <1>2, <3>1 DEF LlmInv
  <2> QED
    BY <1>1, <1>2, <2>1 DEF LlmInv
<1>11. ASSUME NEW i \in 1..Len(line'), NEW j \in 1..Len(line'), line'[i] = line'[j] PROVE i = j
  <2>1. i + 1 = j + 1
    BY <1>2, <1>11 DEF LlmInv
  <2> QED
    BY <1>2, <2>1
<1>12. L!At("asking")' = asking \cup {c} /\ c \notin asking
  BY <1>1, <1>3, <1>6 DEF LlmInv, L!At, q
<1>13. IsFiniteSet(asking)
  BY DEF LlmInv
<1> HIDE DEF asking
<1>14. /\ IsFiniteSet(asking \cup {c}) /\ Cardinality(asking \cup {c}) = Cardinality(asking) + 1
       /\ Cardinality(asking) \in Nat
  BY <1>12, <1>13, FS_AddElement, FS_CardinalityType
<1>15. IsFiniteSet(L!At("asking")') /\ Cardinality(L!At("asking")') <= Concurrency
  <2>1. Cardinality(asking) + 1 <= Concurrency
    BY <1>1, <1>14, LlmConstants
  <2> QED
    BY <1>12, <1>14, <2>1
<1> QED
  BY <1>2, <1>8, <1>9, <1>10, <1>11, <1>15 DEF LlmInv

LEMMA LlmEnds ==
    ASSUME LlmInv, NEW c \in Calls, L!Answer(c) \/ L!BadResponse(c) \/ L!CloudReturns(c)
    PROVE  LlmInv'
<1> DEFINE q == calls[c]
<1>1. PICK error \in {"none", "bad"} :
        calls' = [calls EXCEPT ![c] = [q EXCEPT !.phase = "done", !.error = error]]
  <2>1. q \in LlmCall /\ AskedWell(q)
    BY DEF LlmInv
  <2>2. CASE L!Answer(c)
    <3>1. q.error = "none" /\ calls' = [calls EXCEPT ![c] = [q EXCEPT !.phase = "done"]]
      BY <2>1, <2>2 DEF L!Answer, AskedWell
    <3>2. [q EXCEPT !.phase = "done"] = [q EXCEPT !.phase = "done", !.error = "none"]
      BY <2>1, <3>1 DEF LlmCall
    <3> QED
      BY <3>1, <3>2
  <2>3. CASE L!BadResponse(c)
    BY <2>3 DEF L!BadResponse, LlmInv
  <2>4. CASE L!CloudReturns(c)
    BY <2>4 DEF L!CloudReturns, LlmInv
  <2> QED
    BY <2>2, <2>3, <2>4
<1> DEFINE r == [q EXCEPT !.phase = "done", !.error = error]
<1>2. /\ q \in LlmCall /\ RoutedWell(q) /\ AskedWell(q) /\ q.phase \in {"asking", "cloud"}
      /\ UNCHANGED <<strategy, escalation, line>>
  BY DEF LlmInv, L!Answer, L!BadResponse, L!CloudReturns
<1> HIDE DEF q
<1>3. /\ r \in LlmCall /\ r.phase = "done" /\ r.attempts = q.attempts /\ r.cb = q.cb
      /\ r.error \in {"none", "bad"} /\ r.kind = q.kind /\ r.alert = q.alert /\ r.tier = q.tier
  BY <1>2 DEF LlmCall
<1>4. calls' = [calls EXCEPT ![c] = r]
  BY <1>1
<1> HIDE DEF r
<1>5. RoutedWell(r) /\ AskedWell(r)
  BY <1>2, <1>3 DEF RoutedWell, AskedWell
<1> QED
  BY <1>2, <1>3, <1>4, <1>5, LlmMoves DEF q

\* A failure that is retried, or the last.
LEMMA LlmFails ==
    ASSUME LlmInv, NEW c \in Calls, L!Transient(c)
    PROVE  LlmInv'
<1> DEFINE q == calls[c]
           cb == L!AfterFailure(q.cb)
           failed == [q EXCEPT !.cb = cb]
           r == IF failed.attempts <= MaxRetries THEN L!Attempt(failed)
                ELSE [failed EXCEPT !.phase = "done", !.error = "transient"]
<1>1. /\ q \in LlmCall /\ RoutedWell(q) /\ AskedWell(q) /\ q.phase = "asking"
      /\ UNCHANGED <<strategy, escalation, line>> /\ calls' = [calls EXCEPT ![c] = r]
  BY DEF LlmInv, L!Transient
<1> HIDE DEF q
<1>2. q.attempts \in Nat /\ q.cb \in L!BreakerState /\ q.error = "none" /\ q.cb.failures \in Nat
  BY <1>1, LlmConstants DEF LlmCall, AskedWell, L!BreakerState
<1>3. /\ cb \in L!BreakerState
      /\ q.cb.failures + 1 < BreakerThreshold => cb.failures = q.cb.failures + 1
      /\ cb.failures < BreakerThreshold => L!Admits(cb)
  BY <1>2, BreakerCounts
<1> HIDE DEF cb
<1>4. /\ failed \in LlmCall /\ failed.attempts = q.attempts /\ failed.cb = cb /\ failed.error = "none"
      /\ failed.kind = q.kind /\ failed.alert = q.alert /\ failed.tier = q.tier
  BY <1>1, <1>2, <1>3 DEF LlmCall
<1> HIDE DEF failed
<1>5. ASSUME MaxRetries < BreakerThreshold, q.attempts <= MaxRetries
      PROVE  L!Admits(cb) /\ cb.failures = q.attempts
  BY <1>1, <1>2, <1>3, <1>5, LlmConstants DEF AskedWell
<1>6. CASE failed.attempts <= MaxRetries /\ L!Admits(failed.cb)
  <2>0. r = [failed EXCEPT !.phase = "asking", !.attempts = failed.attempts + 1]
    BY <1>6 DEF L!Attempt
  <2> HIDE DEF r
  <2>1. r = [phase |-> "asking", kind |-> failed.kind, alert |-> failed.alert, tier |-> failed.tier,
             attempts |-> failed.attempts + 1, cb |-> failed.cb, error |-> failed.error]
    BY <1>4, <2>0, AskingRecord
  <2>2. /\ r \in LlmCall /\ r.phase = "asking" /\ r.attempts = q.attempts + 1 /\ r.cb = cb
        /\ r.error = "none" /\ r.kind = q.kind /\ r.alert = q.alert /\ r.tier = q.tier
    BY <1>2, <1>4, <2>1 DEF LlmCall
  <2>3. RoutedWell(r) /\ AskedWell(r)
    BY <1>1, <1>2, <1>4, <1>5, <1>6, <2>2, LlmConstants DEF RoutedWell, AskedWell
  <2> QED
    BY <1>1, <2>2, <2>3, LlmMoves DEF q
<1>7. CASE ~(failed.attempts <= MaxRetries /\ L!Admits(failed.cb))
  <2>1. PICK error \in {"circuit", "transient"} :
          /\ r = [failed EXCEPT !.phase = "done", !.error = error]
          /\ MaxRetries < BreakerThreshold => error = "transient"
    BY <1>4, <1>5, <1>7 DEF L!Attempt
  <2>2. /\ r \in LlmCall /\ r.phase = "done" /\ r.attempts = q.attempts
        /\ r.error = error /\ r.kind = q.kind /\ r.alert = q.alert /\ r.tier = q.tier
    BY <1>4, <2>1 DEF LlmCall
  <2> HIDE DEF r
  <2>3. RoutedWell(r) /\ AskedWell(r)
    BY <1>1, <2>1, <2>2 DEF RoutedWell, AskedWell
  <2> QED
    BY <1>1, <2>2, <2>3, LlmMoves DEF q
<1> QED
  BY <1>6, <1>7

LEMMA LlmInvHolds == L!Spec => []LlmInv
<1>1. ASSUME L!Init PROVE LlmInv
  <2>1. L!FreshBreaker \in L!BreakerState
    BY LlmConstants DEF L!FreshBreaker, L!BreakerState
  <2>2. calls \in [Calls -> LlmCall] /\ escalation \in BOOLEAN
    BY <1>1, <2>1 DEF L!Init, LlmCall, L!Kinds
  <2>3. \A c \in Calls : RoutedWell(calls[c]) /\ AskedWell(calls[c])
    BY <1>1, LlmConstants DEF L!Init, RoutedWell, AskedWell
  <2>4. L!At("asking") = {} /\ line = <<>>
    BY <1>1 DEF L!Init, L!At
  <2> QED
    BY <2>2, <2>3, <2>4, LlmConstants, FS_EmptySet DEF LlmInv
<1>2. LlmInv /\ [L!Next]_L!vars => LlmInv'
  <2> SUFFICES ASSUME LlmInv, [L!Next]_L!vars PROVE LlmInv'
    OBVIOUS
  <2>1. CASE UNCHANGED L!vars
    BY <2>1 DEF L!vars, LlmInv, RoutedWell, AskedWell, L!TierOf, L!At
  <2>2. CASE L!Next
    BY <2>2, LlmRoutes, LlmBegins, LlmEnds, LlmFails DEF L!Next, L!Work
  <2> QED
    BY <2>1, <2>2
<1> QED
  BY <1>1, <1>2, PTL DEF L!Spec

\* However many analyses and retries, no more generations than the limit; a breaker whose
\* threshold is above the retries refuses nothing; and whichever lookups fail, no alert gets a
\* dearer tier than what is true of it justifies (llm_provider.py:16-27, 396-424,
\* llm_router.py:127-205).
THEOREM ModelUseStaysBounded == L!Spec => []ModelUseBounded
<1>1. LlmInv => L!ModelUseBounded
  <2> SUFFICES ASSUME LlmInv PROVE L!ModelUseBounded
    OBVIOUS
  <2>1. L!Cardinality(L!At("asking")) <= Concurrency
    BY LlmConstants DEF LlmInv
  <2> QED
    BY <2>1 DEF LlmInv, L!ModelUseBounded, RoutedWell, AskedWell
<1> QED
  BY <1>1, LlmInvHolds, PTL DEF ModelUseBounded

-----------------------------------------------------------------------------
(***************************************************************************)
(* The pages and the file.  A request that is alone is the only one that   *)
(* runs, and then the globals are its own.  In the file, an entry names    *)
(* the request that made it, no two collections name the same one, and     *)
(* what is named is what was added and not removed; the globals and the    *)
(* file have nothing to do with each other but that a request which has    *)
(* saved something has been answered.                                      *)
(***************************************************************************)

\* The entries that are kept are those at the places, in their order.
InOrder(kept, list, places) ==
  \E m \in Nat : \E place \in [1..m -> places] :
    /\ kept = [k \in 1..m |-> list[place[k]]]
    /\ \A i \in places : \E k \in 1..m : place[k] = i
    /\ \A k, l \in 1..m : place[k] <= place[l] => k <= l

LEMMA KeptPlaces ==
    ASSUME NEW list, NEW n \in Nat, NEW places \in SUBSET (1..n)
    PROVE  InOrder(D!Kept(list, places), list, places)
<1> DEFINE upto(i) == {j \in places : j <= i}
           m == Cardinality(places)
           rank == [i \in places |-> Cardinality(upto(i))]
           place == [k \in 1..m |-> CHOOSE i \in places : Cardinality(upto(i)) = k]
<1>1. IsFiniteSet(places) /\ m \in Nat
  <2>1. IsFiniteSet(1..n)
    BY FS_Interval
  <2>2. IsFiniteSet(places)
    BY <2>1, FS_Subset
  <2> QED
    BY <2>2, FS_CardinalityType
<1>2. ASSUME NEW i \in places, NEW j \in places
      PROVE  /\ IsFiniteSet(upto(i)) /\ Cardinality(upto(i)) \in Nat /\ Cardinality(upto(i)) <= m
             /\ i <= j => Cardinality(upto(i)) <= Cardinality(upto(j))
             /\ Cardinality(upto(i)) = Cardinality(upto(j)) /\ i <= j => i = j
  <2>1. \A k \in places : IsFiniteSet(upto(k)) /\ Cardinality(upto(k)) <= m
    BY <1>1, FS_Subset
  <2>2. \A k \in places : Cardinality(upto(k)) \in Nat
    BY <2>1, FS_CardinalityType
  <2>3. ASSUME i <= j
        PROVE  /\ Cardinality(upto(i)) <= Cardinality(upto(j))
               /\ Cardinality(upto(i)) = Cardinality(upto(j)) => upto(i) = upto(j)
    <3>1. upto(i) \in SUBSET upto(j)
      <4>1. \A k \in places : k \in Int
        OBVIOUS
      <4>2. \A k \in places : k <= i => k <= j
        BY <2>3, <4>1
      <4> QED
        BY <4>2
    <3> HIDE DEF upto
    <3> QED
      BY <2>1, <3>1, FS_Subset
  <2>4. upto(i) = upto(j) /\ i <= j => i = j
    OBVIOUS
  <2> HIDE DEF upto
  <2> QED
    BY <2>1, <2>2, <2>3, <2>4
<1>3. \A i \in places : upto(i) # {}
  OBVIOUS
<1> HIDE DEF upto, m
<1>4. \A i, j \in places : Cardinality(upto(i)) = Cardinality(upto(j)) => i = j
  <2>1. \A i, j \in places : i <= j \/ j <= i
    OBVIOUS
  <2> QED
    BY <1>2, <2>1
<1>5. ASSUME NEW i \in places PROVE Cardinality(upto(i)) \in 1..m
  <2>1. IsFiniteSet(upto(i)) /\ upto(i) # {}
    BY <1>2, <1>3
  <2>2. Cardinality(upto(i)) # 0
    BY <2>1, FS_EmptySet
  <2> QED
    BY <1>1, <1>2, <2>2
<1>6. rank \in Injection(places, 1..m)
  BY <1>4, <1>5 DEF Injection, IsInjective
<1>7. IsFiniteSet(1..m) /\ Cardinality(1..m) = m
  BY <1>1, FS_Interval
<1>8. Cardinality(places) = Cardinality(1..m)
  BY <1>7 DEF m
<1>9. rank \in Surjection(places, 1..m)
  BY <1>6, <1>7, <1>8, FS_Injection
<1>10. \A k \in 1..m : place[k] \in places /\ Cardinality(upto(place[k])) = k
  <2>1. \A k \in 1..m : \E i \in places : Cardinality(upto(i)) = k
    BY <1>9 DEF Surjection
  <2> QED
    BY <2>1
<1>11. D!Kept(list, places) = [k \in 1..m |-> list[place[k]]]
  <2>1. D!Kept(list, places) =
          [k \in 1..Cardinality(places) |->
             list[CHOOSE i \in places : Cardinality({j \in places : j <= i}) = k]]
    BY Zenon DEF D!Kept, D!Cardinality, Cardinality, D!IsFiniteSet, IsFiniteSet
  <2>2. \A k \in 1..m : place[k] = CHOOSE i \in places : Cardinality({j \in places : j <= i}) = k
    BY Zenon DEF upto
  <2> HIDE DEF place
  <2> QED
    BY <2>1, <2>2 DEF m
<1> HIDE DEF place
<1>12. \A i \in places : \E k \in 1..m : place[k] = i
  BY <1>4, <1>5, <1>10
<1>13. ASSUME NEW k \in 1..m, NEW l \in 1..m, place[k] <= place[l] PROVE k <= l
  <2>1. PICK i \in places : i = place[k] /\ Cardinality(upto(i)) = k
    BY <1>10
  <2>2. PICK j \in places : j = place[l] /\ Cardinality(upto(j)) = l
    BY <1>10
  <2>3. i <= j
    BY <1>13, <2>1, <2>2
  <2>4. Cardinality(upto(i)) <= Cardinality(upto(j))
    BY <1>2, <2>3
  <2> QED
    BY <2>1, <2>2, <2>4
<1>14. place \in [1..m -> places]
  BY <1>10 DEF place
<1> QED
  BY <1>1, <1>11, <1>12, <1>13, <1>14 DEF InOrder

PageEntry == [id : Nat, by : PageRequests, on : BOOLEAN]
Member == [email : {D!Email}, by : PageRequests \cup {D!Seed}, on : BOOLEAN]
PageStore == [list : Seq(PageEntry), managers : Seq(PageRequests \cup {D!Seed}), seeded : BOOLEAN,
              users : Seq(Member), log : Seq(PageRequests)]

\* The requests each collection of a file names.
InList(s) == {s.list[i].by : i \in 1..Len(s.list)}
InManagers(s) == {s.managers[i] : i \in 1..Len(s.managers)}
InUsers(s) == {s.users[i].by : i \in 1..Len(s.users)}
InLog(s) == {s.log[i] : i \in 1..Len(s.log)}

\* Each is named once, and the directory has one user at most: all have the one email.
FileShape(s) ==
  /\ s \in PageStore
  /\ ~s.seeded => s.managers = <<>>
  /\ \A i, j \in 1..Len(s.list) : s.list[i].by = s.list[j].by => i = j
  /\ \A i, j \in 1..Len(s.managers) : s.managers[i] = s.managers[j] /\ s.managers[i] # D!Seed => i = j
  /\ Len(s.users) <= 1

NamedOnce(inList, inManagers, inUsers, inLog, a, x) ==
  /\ inList \cap (inManagers \cup inUsers \cup inLog) = {}
  /\ inManagers \cap (inUsers \cup inLog) \subseteq {D!Seed}
  /\ (inList \cup inManagers \cup inUsers \cup inLog) \ {D!Seed} = a \ x
  /\ x \subseteq a /\ a \subseteq PageRequests

FileInv(s, a, x) == FileShape(s) /\ NamedOnce(InList(s), InManagers(s), InUsers(s), InLog(s), a, x)

\* What a fault may leave instead of a file: one that is in order and names nobody new.
Names(s) == (InList(s) \cup InManagers(s) \cup InUsers(s) \cup InLog(s)) \ {D!Seed}
Fits(t, s, e) == (\E b, y : FileInv(t, b, y)) /\ Names(t) \subseteq Names(s) \cup e

LEMMA SeedIsNoRequest == D!Seed \notin PageRequests
BY ServicesAssumption DEF D!DashboardAssumption, D!Seed

LEMMA FileTypes ==
    ASSUME NEW s \in PageStore
    PROVE  /\ s.list \in Seq(PageEntry) /\ s.managers \in Seq(PageRequests \cup {D!Seed})
           /\ s.users \in Seq(Member) /\ s.log \in Seq(PageRequests) /\ s.seeded \in BOOLEAN
           /\ Len(s.list) \in Nat /\ Len(s.managers) \in Nat /\ Len(s.users) \in Nat /\ Len(s.log) \in Nat
<1>1. /\ s.list \in Seq(PageEntry) /\ s.managers \in Seq(PageRequests \cup {D!Seed})
      /\ s.users \in Seq(Member) /\ s.log \in Seq(PageRequests) /\ s.seeded \in BOOLEAN
  BY DEF PageStore
<1> QED
  BY <1>1

\* One collection of a file is replaced.
LEMMA FileFields ==
    ASSUME NEW s \in PageStore
    PROVE  /\ \A list \in Seq(PageEntry) :
                /\ [s EXCEPT !.list = list] \in PageStore /\ [s EXCEPT !.list = list].list = list
                /\ [s EXCEPT !.list = list].managers = s.managers /\ [s EXCEPT !.list = list].users = s.users
                /\ [s EXCEPT !.list = list].log = s.log /\ [s EXCEPT !.list = list].seeded = s.seeded
           /\ \A users \in Seq(Member) :
                /\ [s EXCEPT !.users = users] \in PageStore /\ [s EXCEPT !.users = users].users = users
                /\ [s EXCEPT !.users = users].managers = s.managers /\ [s EXCEPT !.users = users].list = s.list
                /\ [s EXCEPT !.users = users].log = s.log /\ [s EXCEPT !.users = users].seeded = s.seeded
           /\ \A log \in Seq(PageRequests) :
                /\ [s EXCEPT !.log = log] \in PageStore /\ [s EXCEPT !.log = log].log = log
                /\ [s EXCEPT !.log = log].managers = s.managers /\ [s EXCEPT !.log = log].list = s.list
                /\ [s EXCEPT !.log = log].users = s.users /\ [s EXCEPT !.log = log].seeded = s.seeded
<1>1. PICK Lists, Owned, Listed, Logs :
        /\ Lists = Seq(PageEntry) /\ Owned = Seq(PageRequests \cup {D!Seed})
        /\ Listed = Seq(Member) /\ Logs = Seq(PageRequests)
  OBVIOUS
<1>2. PageStore = [list : Lists, managers : Owned, seeded : BOOLEAN, users : Listed, log : Logs]
  BY <1>1 DEF PageStore
<1> QED
  BY <1>1, <1>2

\* The managers are replaced, which seeds them.
LEMMA FileManagers ==
    ASSUME NEW s \in PageStore
    PROVE  \A list \in Seq(PageRequests \cup {D!Seed}) :
             /\ D!Managed(s, list) \in PageStore
             /\ D!Managed(s, list).managers = list /\ D!Managed(s, list).seeded = TRUE
             /\ D!Managed(s, list).list = s.list /\ D!Managed(s, list).users = s.users
             /\ D!Managed(s, list).log = s.log
<1>1. PICK Lists, Owned, Listed, Logs :
        /\ Lists = Seq(PageEntry) /\ Owned = Seq(PageRequests \cup {D!Seed})
        /\ Listed = Seq(Member) /\ Logs = Seq(PageRequests)
  OBVIOUS
<1>2. PageStore = [list : Lists, managers : Owned, seeded : BOOLEAN, users : Listed, log : Logs]
  BY <1>1 DEF PageStore
<1>3. ASSUME NEW list \in Owned
      PROVE  /\ D!Managed(s, list) \in PageStore
             /\ D!Managed(s, list).managers = list /\ D!Managed(s, list).seeded = TRUE
             /\ D!Managed(s, list).list = s.list /\ D!Managed(s, list).users = s.users
             /\ D!Managed(s, list).log = s.log
  <2>1. PICK u, t : u = [s EXCEPT !.managers = list] /\ t = [u EXCEPT !.seeded = TRUE]
    OBVIOUS
  <2>2. u \in PageStore /\ u.managers = list /\ u.list = s.list /\ u.users = s.users /\ u.log = s.log
    BY <1>2, <2>1
  <2>3. /\ t \in PageStore /\ t.managers = u.managers /\ t.seeded = TRUE
        /\ t.list = u.list /\ t.users = u.users /\ t.log = u.log
    BY ONLY <1>2, <2>1, <2>2
  <2>4. t = D!Managed(s, list)
    BY <2>1 DEF D!Managed
  <2> QED
    BY <2>2, <2>3, <2>4
<1> QED
  BY <1>1, <1>3

\* A request that has not saved yet names nothing, and may be named once.
LEMMA NamesGrow ==
    ASSUME NEW s, NEW a, NEW x, FileInv(s, a, x), NEW r \in PageRequests, r \notin a
    PROVE  /\ r \notin InList(s) /\ r \notin InManagers(s)
           /\ NamedOnce(InList(s) \cup {r}, InManagers(s), InUsers(s), InLog(s), a \cup {r}, x)
           /\ NamedOnce(InList(s), InManagers(s) \cup {r}, InUsers(s), InLog(s), a \cup {r}, x)
           /\ NamedOnce(InList(s), InManagers(s), InUsers(s) \cup {r}, InLog(s), a \cup {r}, x)
           /\ NamedOnce(InList(s), InManagers(s), InUsers(s), InLog(s) \cup {r}, a \cup {r}, x)
<1>1. r # D!Seed /\ NamedOnce(InList(s), InManagers(s), InUsers(s), InLog(s), a, x)
  BY SeedIsNoRequest DEF FileInv
<1>2. r \notin InList(s) /\ r \notin InManagers(s) /\ r \notin InUsers(s) /\ r \notin InLog(s)
  BY <1>1 DEF NamedOnce
<1>3. r \notin x
  BY <1>1 DEF NamedOnce
<1> QED
  BY <1>1, <1>2, <1>3 DEF NamedOnce

LEMMA ListGrows ==
    ASSUME NEW s, NEW a, NEW x, FileInv(s, a, x), NEW r \in PageRequests, r \notin a,
           NEW e \in PageEntry, e.by = r
    PROVE  FileInv([s EXCEPT !.list = Append(s.list, e)], a \cup {r}, x)
<1> DEFINE t == [s EXCEPT !.list = Append(s.list, e)]
<1>1. s \in PageStore /\ s.list \in Seq(PageEntry) /\ Len(s.list) \in Nat
  BY FileTypes DEF FileInv, FileShape
<1>2. PICK list : list = Append(s.list, e)
  OBVIOUS
<1>3. /\ list \in Seq(PageEntry) /\ Len(list) = Len(s.list) + 1 /\ list[Len(s.list) + 1] = e
      /\ \A i \in 1..Len(s.list) : list[i] = s.list[i]
  BY <1>1, <1>2
<1>4. /\ t \in PageStore /\ t.list = list /\ t.managers = s.managers /\ t.users = s.users
      /\ t.log = s.log /\ t.seeded = s.seeded
  BY <1>1, <1>2, <1>3, FileFields
<1> HIDE DEF t
<1>5. /\ InManagers(t) = InManagers(s) /\ InUsers(t) = InUsers(s) /\ InLog(t) = InLog(s)
  BY <1>4 DEF InManagers, InUsers, InLog
<1>6. InList(t) = InList(s) \cup {r}
  <2>1. InList(t) \subseteq InList(s) \cup {r}
    BY <1>1, <1>3, <1>4 DEF InList
  <2>2. r \in InList(t) /\ InList(s) \subseteq InList(t)
    <3>1. Len(s.list) + 1 \in 1..Len(list) /\ \A i \in 1..Len(s.list) : i \in 1..Len(list)
      BY <1>1, <1>3
    <3> QED
      BY <1>3, <1>4, <3>1 DEF InList
  <2> QED
    BY <2>1, <2>2
<1>7. r \notin InList(s) /\ NamedOnce(InList(t), InManagers(t), InUsers(t), InLog(t), a \cup {r}, x)
  <2>1. /\ r \notin InList(s)
        /\ NamedOnce(InList(s) \cup {r}, InManagers(s), InUsers(s), InLog(s), a \cup {r}, x)
    BY NamesGrow
  <2> QED
    BY ONLY <1>5, <1>6, <2>1
<1>8. \A i, j \in 1..Len(t.list) : t.list[i].by = t.list[j].by => i = j
  <2>1. \A i \in 1..Len(s.list) : s.list[i].by # r
    BY <1>7 DEF InList
  <2>2. \A i, j \in 1..Len(s.list) : s.list[i].by = s.list[j].by => i = j
    BY DEF FileInv, FileShape
  <2>3. \A i \in 1..Len(list) : i \in 1..Len(s.list) \/ i = Len(s.list) + 1
    BY <1>1, <1>3
  <2>4. \A i \in 1..Len(s.list) : list[i] = s.list[i]
    BY <1>3
  <2>5. list[Len(s.list) + 1].by = r
    BY <1>3
  <2>6. ASSUME NEW i \in 1..Len(list), NEW j \in 1..Len(list), list[i].by = list[j].by PROVE i = j
    <3>1. CASE i \in 1..Len(s.list) /\ j \in 1..Len(s.list)
      BY ONLY <2>2, <2>4, <2>6, <3>1
    <3>2. CASE i = Len(s.list) + 1 /\ j \in 1..Len(s.list)
      BY ONLY <2>1, <2>4, <2>5, <2>6, <3>2
    <3>3. CASE i \in 1..Len(s.list) /\ j = Len(s.list) + 1
      BY ONLY <2>1, <2>4, <2>5, <2>6, <3>3
    <3> QED
      BY ONLY <2>3, <2>6, <3>1, <3>2, <3>3
  <2> QED
    BY ONLY <1>4, <2>6
<1>9. FileShape(t)
  BY <1>4, <1>8 DEF FileInv, FileShape
<1> QED
  BY <1>7, <1>9 DEF FileInv, t

LEMMA LogGrows ==
    ASSUME NEW s, NEW a, NEW x, FileInv(s, a, x), NEW r \in PageRequests, r \notin a,
           NEW log, log = Append(s.log, r) \/ log = <<r>> \o s.log
    PROVE  FileInv([s EXCEPT !.log = log], a \cup {r}, x)
<1> DEFINE t == [s EXCEPT !.log = log]
<1>1. s \in PageStore /\ s.log \in Seq(PageRequests) /\ Len(s.log) \in Nat
  BY FileTypes DEF FileInv, FileShape
<1>2. log \in Seq(PageRequests)
  <2>1. <<r>> \in Seq(PageRequests)
    OBVIOUS
  <2>2. Append(s.log, r) \in Seq(PageRequests)
    BY <1>1
  <2>3. <<r>> \o s.log \in Seq(PageRequests)
    BY <1>1, <2>1
  <2> QED
    BY <2>2, <2>3
<1>3. {log[i] : i \in 1..Len(log)} = {s.log[i] : i \in 1..Len(s.log)} \cup {r}
  <2>1. CASE log = Append(s.log, r)
    <3>1. /\ Len(log) = Len(s.log) + 1 /\ log[Len(s.log) + 1] = r
          /\ \A i \in 1..Len(s.log) : log[i] = s.log[i]
      BY <1>1, <2>1
    <3>2. Len(s.log) + 1 \in 1..Len(log) /\ \A i \in 1..Len(s.log) : i \in 1..Len(log)
      BY <1>1, <3>1
    <3>3. \A i \in 1..Len(log) : i \in 1..Len(s.log) \/ i = Len(s.log) + 1
      BY <1>1, <3>1
    <3> QED
      BY <3>1, <3>2, <3>3
  <2>2. CASE log = <<r>> \o s.log
    <3>1. /\ Len(log) = Len(s.log) + 1 /\ log[1] = r
          /\ \A i \in 1..Len(s.log) : log[i + 1] = s.log[i]
      BY <1>1, <2>2
    <3>2. 1 \in 1..Len(log) /\ \A i \in 1..Len(s.log) : i + 1 \in 1..Len(log)
      BY <1>1, <3>1
    <3>3. ASSUME NEW i \in 1..Len(log) PROVE i = 1 \/ \E k \in 1..Len(s.log) : i = k + 1
      <4>1. i # 1 => i - 1 \in 1..Len(s.log) /\ i = (i - 1) + 1
        BY <1>1, <3>1
      <4> QED
        BY <4>1
    <3> QED
      BY <3>1, <3>2, <3>3
  <2> QED
    BY <2>1, <2>2
<1>4. /\ t \in PageStore /\ t.log = log /\ t.managers = s.managers /\ t.users = s.users
      /\ t.list = s.list /\ t.seeded = s.seeded
  BY <1>1, <1>2, FileFields
<1> HIDE DEF t
<1>5. /\ InManagers(t) = InManagers(s) /\ InUsers(t) = InUsers(s) /\ InList(t) = InList(s)
      /\ InLog(t) = InLog(s) \cup {r}
  <2>1. InManagers(t) = InManagers(s)
    BY ONLY <1>4 DEF InManagers
  <2>2. InUsers(t) = InUsers(s)
    BY ONLY <1>4 DEF InUsers
  <2>3. InList(t) = InList(s)
    BY ONLY <1>4 DEF InList
  <2>4. InLog(t) = InLog(s) \cup {r}
    BY ONLY <1>3, <1>4 DEF InLog
  <2> QED
    BY <2>1, <2>2, <2>3, <2>4
<1>6. NamedOnce(InList(t), InManagers(t), InUsers(t), InLog(t), a \cup {r}, x)
  <2>1. NamedOnce(InList(s), InManagers(s), InUsers(s), InLog(s) \cup {r}, a \cup {r}, x)
    BY NamesGrow
  <2> QED
    BY ONLY <1>5, <2>1
<1>7. FileShape(t)
  BY <1>4 DEF FileInv, FileShape
<1> QED
  BY <1>6, <1>7 DEF FileInv, t

LEMMA ManagersReplaced ==
    ASSUME NEW s, NEW a, NEW x, FileInv(s, a, x), NEW b, NEW y,
           NEW m \in Seq(PageRequests \cup {D!Seed}),
           \A i, j \in 1..Len(m) : m[i] = m[j] /\ m[i] # D!Seed => i = j,
           NamedOnce(InList(s), {m[i] : i \in 1..Len(m)}, InUsers(s), InLog(s), b, y),
           NEW t, t = D!Managed(s, m)
    PROVE  FileInv(t, b, y)
<1>1. /\ s \in PageStore /\ t \in PageStore /\ t.managers = m /\ t.seeded = TRUE
      /\ t.list = s.list /\ t.users = s.users /\ t.log = s.log
  <2>1. s \in PageStore
    BY DEF FileInv, FileShape
  <2> QED
    BY <2>1, FileManagers
<1>2. /\ InList(t) = InList(s) /\ InUsers(t) = InUsers(s) /\ InLog(t) = InLog(s)
      /\ InManagers(t) = {m[i] : i \in 1..Len(m)}
  BY <1>1 DEF InManagers, InUsers, InLog, InList
<1>3. FileShape(t)
  BY <1>1 DEF FileInv, FileShape
<1> QED
  BY <1>2, <1>3 DEF FileInv

\* The managers as the handlers get them.
LEMMA OwnersAre ==
    ASSUME NEW s, NEW a, NEW x, FileInv(s, a, x)
    PROVE  /\ D!Managers(s) \in Seq(PageRequests \cup {D!Seed}) /\ Len(D!Managers(s)) \in Nat
           /\ \A i, j \in 1..Len(D!Managers(s)) :
                D!Managers(s)[i] = D!Managers(s)[j] /\ D!Managers(s)[i] # D!Seed => i = j
           /\ {D!Managers(s)[i] : i \in 1..Len(D!Managers(s))} \in {InManagers(s), InManagers(s) \cup {D!Seed}}
<1>1. s \in PageStore /\ s.managers \in Seq(PageRequests \cup {D!Seed}) /\ s.seeded \in BOOLEAN
      /\ Len(s.managers) \in Nat
  BY FileTypes DEF FileInv, FileShape
<1>2. CASE s.seeded
  <2>1. D!Managers(s) = s.managers
    BY <1>2 DEF D!Managers
  <2> QED
    BY <1>1, <2>1 DEF FileInv, FileShape, InManagers
<1>3. CASE ~s.seeded
  <2>1. D!Managers(s) = <<D!Seed>> /\ s.managers = <<>>
    BY <1>3 DEF D!Managers, FileInv, FileShape
  <2>2. PICK m : m = <<D!Seed>>
    OBVIOUS
  <2>3. m \in Seq(PageRequests \cup {D!Seed}) /\ Len(m) = 1 /\ m[1] = D!Seed
    BY <2>2
  <2>4. InManagers(s) = {} /\ {m[i] : i \in 1..Len(m)} = {D!Seed}
    BY <2>1, <2>3 DEF InManagers
  <2> QED
    BY <2>1, <2>2, <2>3, <2>4
<1> QED
  BY <1>1, <1>2, <1>3

LEMMA SeedNamed ==
    ASSUME NEW s, NEW a, NEW x, FileInv(s, a, x), NEW M, M \in {InManagers(s), InManagers(s) \cup {D!Seed}}
    PROVE  /\ NamedOnce(InList(s), M, InUsers(s), InLog(s), a, x)
           /\ \A r \in PageRequests \ a :
                r \notin M /\ NamedOnce(InList(s), M \cup {r}, InUsers(s), InLog(s), a \cup {r}, x)
<1>1. D!Seed \notin InList(s)
  <2>1. \A e \in PageEntry : e.by \in PageRequests
    BY DEF PageEntry
  <2>2. \A i \in 1..Len(s.list) : s.list[i] \in PageEntry
    <3>1. s.list \in Seq(PageEntry)
      BY FileTypes DEF FileInv, FileShape
    <3> QED
      BY <3>1
  <2> QED
    BY <2>1, <2>2, SeedIsNoRequest DEF InList
<1>2. NamedOnce(InList(s), InManagers(s), InUsers(s), InLog(s), a, x)
  BY DEF FileInv
<1>3. NamedOnce(InList(s), M, InUsers(s), InLog(s), a, x)
  BY <1>1, <1>2 DEF NamedOnce
<1>4. ASSUME NEW r \in PageRequests \ a
      PROVE  r \notin M /\ NamedOnce(InList(s), M \cup {r}, InUsers(s), InLog(s), a \cup {r}, x)
  <2>1. /\ r \notin InManagers(s) /\ r # D!Seed
        /\ NamedOnce(InList(s), InManagers(s) \cup {r}, InUsers(s), InLog(s), a \cup {r}, x)
    BY NamesGrow, SeedIsNoRequest
  <2> QED
    BY <1>1, <2>1 DEF NamedOnce
<1> QED
  BY <1>3, <1>4

LEMMA ManagersGrow ==
    ASSUME NEW s, NEW a, NEW x, FileInv(s, a, x), NEW r \in PageRequests, r \notin a,
           NEW t, t = D!Managed(s, Append(D!Managers(s), r))
    PROVE  FileInv(t, a \cup {r}, x)
<1>1. PICK m, M, n : m = D!Managers(s) /\ M = {m[i] : i \in 1..Len(m)} /\ n = Append(m, r)
  OBVIOUS
<1>2. /\ m \in Seq(PageRequests \cup {D!Seed}) /\ Len(m) \in Nat
      /\ \A i, j \in 1..Len(m) : m[i] = m[j] /\ m[i] # D!Seed => i = j
      /\ M \in {InManagers(s), InManagers(s) \cup {D!Seed}}
  BY <1>1, OwnersAre
<1>3. r \notin M /\ NamedOnce(InList(s), M \cup {r}, InUsers(s), InLog(s), a \cup {r}, x)
  BY <1>2, SeedNamed
<1>4. /\ n \in Seq(PageRequests \cup {D!Seed}) /\ Len(n) = Len(m) + 1 /\ n[Len(m) + 1] = r
      /\ \A i \in 1..Len(m) : n[i] = m[i] /\ i \in 1..Len(n)
  BY <1>1, <1>2
<1>5. /\ \A i \in 1..Len(n) : i \in 1..Len(m) \/ i = Len(m) + 1
      /\ Len(m) + 1 \in 1..Len(n)
  BY <1>2, <1>4
<1>6. {n[i] : i \in 1..Len(n)} = M \cup {r}
  BY <1>1, <1>4, <1>5
<1>7. \A i \in 1..Len(m) : m[i] # r
  BY <1>1, <1>3
<1>8. \A i, j \in 1..Len(n) : n[i] = n[j] /\ n[i] # D!Seed => i = j
  BY ONLY <1>2, <1>4, <1>5, <1>7
<1>9. NamedOnce(InList(s), {n[i] : i \in 1..Len(n)}, InUsers(s), InLog(s), a \cup {r}, x)
  BY <1>3, <1>6
<1> QED
  BY <1>1, <1>4, <1>8, <1>9, ManagersReplaced

\* What is kept of a list: each entry that is not gone, once.
Remains(kept, list, gone) ==
  \E place \in [1..Len(kept) -> 1..Len(list)] :
    /\ \A k \in 1..Len(kept) : kept[k] = list[place[k]] /\ place[k] \notin gone
    /\ \A i \in 1..Len(list) : i \notin gone => \E k \in 1..Len(kept) : place[k] = i
    /\ \A k, l \in 1..Len(kept) : place[k] = place[l] => k = l

LEMMA KeptNames ==
    ASSUME NEW S, NEW list \in Seq(S), NEW gone
    PROVE  LET kept == D!Kept(list, DOMAIN list \ gone) IN
           kept \in Seq(S) /\ Len(kept) \in Nat /\ Remains(kept, list, gone)
<1>1. PICK places, n, kept :
        places = DOMAIN list \ gone /\ n = Len(list) /\ kept = D!Kept(list, DOMAIN list \ gone)
  OBVIOUS
<1>2. n \in Nat /\ DOMAIN list = 1..n /\ places \in SUBSET (1..n) /\ \A i \in 1..n : list[i] \in S
  BY <1>1
<1>3. InOrder(D!Kept(list, places), list, places)
  BY <1>2, KeptPlaces
<1>4. PICK m \in Nat : \E place \in [1..m -> places] :
        /\ kept = [k \in 1..m |-> list[place[k]]]
        /\ \A i \in places : \E k \in 1..m : place[k] = i
        /\ \A k, l \in 1..m : place[k] <= place[l] => k <= l
  BY <1>1, <1>3 DEF InOrder
<1>5. PICK place \in [1..m -> places] :
        /\ kept = [k \in 1..m |-> list[place[k]]]
        /\ \A i \in places : \E k \in 1..m : place[k] = i
        /\ \A k, l \in 1..m : place[k] <= place[l] => k <= l
  BY <1>4
<1>6. \A k \in 1..m : place[k] \in places /\ place[k] \in 1..n /\ list[place[k]] \in S
  BY <1>2, <1>5
<1>7. kept \in [1..m -> S]
  BY <1>5, <1>6
<1>8. kept \in Seq(S) /\ Len(kept) = m
  <2>1. kept \in Seq(S) /\ DOMAIN kept = 1..m
    BY ONLY <1>7, m \in Nat
  <2>2. Len(kept) \in Nat /\ DOMAIN kept = 1..Len(kept)
    BY ONLY <2>1
  <2>3. \A k \in Nat : 1..k = 1..m => k = m
    OBVIOUS
  <2> QED
    BY <2>1, <2>2, <2>3
<1>9. place \in [1..Len(kept) -> 1..Len(list)]
  BY <1>1, <1>5, <1>6, <1>8
<1>10. \A k \in 1..Len(kept) : kept[k] = list[place[k]] /\ place[k] \notin gone
  BY <1>1, <1>5, <1>6, <1>8
<1>11. \A i \in 1..Len(list) : i \notin gone => \E k \in 1..Len(kept) : place[k] = i
  BY <1>1, <1>2, <1>5, <1>8
<1>12. ASSUME NEW k \in 1..Len(kept), NEW l \in 1..Len(kept), place[k] = place[l] PROVE k = l
  <2>1. place[k] <= place[l] /\ place[l] <= place[k] /\ k \in 1..m /\ l \in 1..m
    BY <1>2, <1>6, <1>8, <1>12
  <2>2. k <= l /\ l <= k
    BY <1>5, <2>1
  <2> QED
    BY <2>2
<1>13. Remains(kept, list, gone)
  BY ONLY <1>9, <1>10, <1>11, <1>12 DEF Remains
<1> QED
  BY <1>1, <1>8, <1>13

LEMMA ManagersShrink ==
    ASSUME NEW s, NEW a, NEW x, FileInv(s, a, x), NEW gone,
           NEW t, t = D!Managed(s, D!Kept(D!Managers(s), DOMAIN D!Managers(s) \ gone))
    PROVE  FileInv(t, a, x \cup ({D!Managers(s)[i] : i \in DOMAIN D!Managers(s) \cap gone} \ {D!Seed}))
<1>1. PICK m, M, n : /\ m = D!Managers(s) /\ M = {m[i] : i \in 1..Len(m)}
                     /\ n = D!Kept(m, DOMAIN m \ gone)
  OBVIOUS
<1>2. /\ m \in Seq(PageRequests \cup {D!Seed}) /\ Len(m) \in Nat /\ DOMAIN m = 1..Len(m)
      /\ \A i, j \in 1..Len(m) : m[i] = m[j] /\ m[i] # D!Seed => i = j
      /\ M \in {InManagers(s), InManagers(s) \cup {D!Seed}}
  BY <1>1, OwnersAre
<1>3. n \in Seq(PageRequests \cup {D!Seed}) /\ Len(n) \in Nat /\ Remains(n, m, gone)
  BY <1>1, <1>2, KeptNames
<1>4. PICK place \in [1..Len(n) -> 1..Len(m)] :
           /\ \A k \in 1..Len(n) : n[k] = m[place[k]] /\ place[k] \notin gone
           /\ \A i \in 1..Len(m) : i \notin gone => \E k \in 1..Len(n) : place[k] = i
           /\ \A k, l \in 1..Len(n) : place[k] = place[l] => k = l
  BY <1>3 DEF Remains
<1>5. \A k, l \in 1..Len(n) : n[k] = n[l] /\ n[k] # D!Seed => k = l
  <2>1. \A k \in 1..Len(n) : place[k] \in 1..Len(m) /\ n[k] = m[place[k]]
    BY <1>4
  <2> QED
    BY <1>2, <1>4, <2>1
<1>6. PICK out, N : out = {m[i] : i \in DOMAIN m \cap gone} /\ N = {n[k] : k \in 1..Len(n)}
  OBVIOUS
<1>7. \A e : e # D!Seed => (e \in N <=> e \in M /\ e \notin out)
  <2>1. ASSUME NEW k \in 1..Len(n), n[k] # D!Seed PROVE n[k] \in M /\ n[k] \notin out
    <3>1. place[k] \in 1..Len(m) /\ n[k] = m[place[k]] /\ place[k] \notin gone
      BY <1>4
    <3>2. \A i \in DOMAIN m \cap gone : m[i] # n[k]
      BY <1>2, <2>1, <3>1
    <3> QED
      BY <1>1, <1>6, <3>1, <3>2
  <2>2. ASSUME NEW i \in 1..Len(m), m[i] \notin out PROVE m[i] \in N
    <3>1. i \notin gone
      BY <1>2, <1>6, <2>2
    <3> QED
      BY <1>4, <1>6, <3>1
  <2> QED
    <3>1. \A e \in N : e # D!Seed => e \in M /\ e \notin out
      BY <1>6, <2>1
    <3>2. \A e \in M : e \notin out => e \in N
      BY <1>1, <2>2
    <3> QED
      BY <3>1, <3>2
<1>8. NamedOnce(InList(s), M, InUsers(s), InLog(s), a, x) /\ out \subseteq M
  <2>1. NamedOnce(InList(s), M, InUsers(s), InLog(s), a, x)
    BY <1>2, SeedNamed
  <2>2. out \subseteq M
    BY <1>1, <1>2, <1>6
  <2> QED
    BY <2>1, <2>2
<1>9. NamedOnce(InList(s), N, InUsers(s), InLog(s), a, x \cup (out \ {D!Seed}))
  <2>1. D!Seed \notin InList(s)
    <3>1. \A e \in PageEntry : e.by \in PageRequests
      BY DEF PageEntry
    <3>2. s.list \in Seq(PageEntry)
      BY FileTypes DEF FileInv, FileShape
    <3> QED
      BY <3>1, <3>2, SeedIsNoRequest DEF InList
  <2> QED
    BY <1>7, <1>8, <2>1 DEF NamedOnce
<1>10. PICK y : y = x \cup (out \ {D!Seed})
  OBVIOUS
<1>11. FileInv(t, a, y)
  <2>1. NamedOnce(InList(s), {n[i] : i \in 1..Len(n)}, InUsers(s), InLog(s), a, y)
    BY <1>6, <1>9, <1>10
  <2>2. t = D!Managed(s, n)
    BY <1>1
  <2> QED
    BY <1>3, <1>5, <2>1, <2>2, ManagersReplaced
<1> QED
  BY <1>1, <1>6, <1>10, <1>11

\* Whoever is named by an entry of the list is a request.
LEMMA SeedNotListed == ASSUME NEW s \in PageStore PROVE D!Seed \notin InList(s)
<1>1. \A e \in PageEntry : e.by \in PageRequests
  BY DEF PageEntry
<1>2. s.list \in Seq(PageEntry)
  BY FileTypes
<1> QED
  BY <1>1, <1>2, SeedIsNoRequest DEF InList

LEMMA ListShrinks ==
    ASSUME NEW s, NEW a, NEW x, FileInv(s, a, x), NEW gone, gone \subseteq 1..Len(s.list),
           NEW t, t = [s EXCEPT !.list = D!Kept(s.list, DOMAIN s.list \ gone)]
    PROVE  FileInv(t, a, x \cup {s.list[i].by : i \in gone})
<1>1. PICK m, n, out : /\ m = s.list /\ n = D!Kept(m, DOMAIN m \ gone)
                       /\ out = {m[i].by : i \in gone}
  OBVIOUS
<1>2. s \in PageStore /\ m \in Seq(PageEntry) /\ Len(m) \in Nat /\ gone \subseteq 1..Len(m)
  BY <1>1, FileTypes DEF FileInv, FileShape
<1>3. n \in Seq(PageEntry) /\ Len(n) \in Nat /\ Remains(n, m, gone)
  BY <1>1, <1>2, KeptNames
<1>4. PICK place \in [1..Len(n) -> 1..Len(m)] :
           /\ \A k \in 1..Len(n) : n[k] = m[place[k]] /\ place[k] \notin gone
           /\ \A i \in 1..Len(m) : i \notin gone => \E k \in 1..Len(n) : place[k] = i
           /\ \A k, l \in 1..Len(n) : place[k] = place[l] => k = l
  BY <1>3 DEF Remains
<1>5. /\ t \in PageStore /\ t.list = n /\ t.managers = s.managers /\ t.users = s.users
      /\ t.log = s.log /\ t.seeded = s.seeded
  <2>1. t = [s EXCEPT !.list = n]
    BY <1>1
  <2> QED
    BY ONLY <1>2, <1>3, <2>1, FileFields
<1>6. \A i, j \in 1..Len(m) : m[i].by = m[j].by => i = j
  BY <1>1 DEF FileInv, FileShape
<1>7. \A k \in 1..Len(n) : place[k] \in 1..Len(m) /\ n[k].by = m[place[k]].by /\ place[k] \notin gone
  BY <1>4
<1>8. \A k, l \in 1..Len(n) : n[k].by = n[l].by => k = l
  BY <1>4, <1>6, <1>7
<1>9. InList(t) = InList(s) \ out
  <2>1. \A k \in 1..Len(n) : n[k].by \in InList(s) /\ n[k].by \notin out
    <3> SUFFICES ASSUME NEW k \in 1..Len(n) PROVE n[k].by \in InList(s) /\ n[k].by \notin out
      OBVIOUS
    <3>1. PICK i \in 1..Len(m) : i = place[k] /\ n[k].by = m[i].by /\ i \notin gone
      BY <1>7
    <3>2. \A j \in gone : m[j].by # m[i].by
      BY <1>2, <1>6, <3>1
    <3> QED
      BY <1>1, <3>1, <3>2 DEF InList
  <2>2. \A i \in 1..Len(m) : m[i].by \notin out => m[i].by \in InList(t)
    <3> SUFFICES ASSUME NEW i \in 1..Len(m), m[i].by \notin out PROVE m[i].by \in InList(t)
      OBVIOUS
    <3>1. i \notin gone
      BY <1>1
    <3>2. PICK k \in 1..Len(n) : place[k] = i
      BY <1>4, <3>1
    <3> QED
      BY <1>5, <1>7, <3>2 DEF InList
  <2>3. InList(t) \subseteq InList(s) \ out
    BY <1>5, <2>1 DEF InList
  <2>4. InList(s) \ out \subseteq InList(t)
    BY <1>1, <2>2 DEF InList
  <2> QED
    BY <2>3, <2>4
<1>10. /\ InManagers(t) = InManagers(s) /\ InUsers(t) = InUsers(s) /\ InLog(t) = InLog(s)
       /\ out \subseteq InList(s) /\ D!Seed \notin InList(s)
  <2>1. out \subseteq InList(s)
    BY <1>1, <1>2 DEF InList
  <2> QED
    BY <1>2, <1>5, <2>1, SeedNotListed DEF InManagers, InUsers, InLog
<1>11. NamedOnce(InList(s), InManagers(s), InUsers(s), InLog(s), a, x)
  BY DEF FileInv
<1>12. NamedOnce(InList(t), InManagers(t), InUsers(t), InLog(t), a, x \cup out)
  BY <1>9, <1>10, <1>11 DEF NamedOnce
<1>13. FileShape(t)
  <2>1. FileShape(s)
    BY DEF FileInv
  <2> QED
    BY ONLY <1>5, <1>8, <2>1 DEF FileShape
<1> QED
  BY <1>1, <1>12, <1>13 DEF FileInv

\* An entry is turned on or off.
LEMMA EntryTurned ==
    ASSUME NEW s, NEW a, NEW x, FileInv(s, a, x), NEW k \in 1..Len(s.list), NEW b \in BOOLEAN,
           NEW t, t = [s EXCEPT !.list[k].on = b]
    PROVE  FileInv(t, a, x)
<1>1. PICK n, m, e : m = s.list /\ e = [m[k] EXCEPT !.on = b] /\ n = [m EXCEPT ![k] = e]
  OBVIOUS
<1>2. s \in PageStore /\ m \in Seq(PageEntry) /\ Len(m) \in Nat /\ k \in 1..Len(m)
  BY <1>1, FileTypes DEF FileInv, FileShape
<1>3. m[k] \in PageEntry
  BY <1>2
<1>4. e \in PageEntry /\ e.by = m[k].by
  BY <1>1, <1>3 DEF PageEntry
<1>5. /\ n \in Seq(PageEntry) /\ Len(n) = Len(m)
      /\ \A i \in 1..Len(m) : n[i].by = m[i].by
  BY <1>1, <1>2, <1>4
<1>6. t = [s EXCEPT !.list = n]
  BY <1>1
<1>7. /\ t \in PageStore /\ t.list = n /\ t.managers = s.managers /\ t.users = s.users
      /\ t.log = s.log /\ t.seeded = s.seeded
  BY ONLY <1>2, <1>5, <1>6, FileFields
<1>8. InList(t) = InList(s) /\ \A i, j \in 1..Len(t.list) : t.list[i].by = t.list[j].by => i = j
  <2>1. \A i, j \in 1..Len(m) : m[i].by = m[j].by => i = j
    BY <1>1 DEF FileInv, FileShape
  <2> QED
    BY <1>1, <1>5, <1>7, <2>1 DEF InList
<1>9. InManagers(t) = InManagers(s) /\ InUsers(t) = InUsers(s) /\ InLog(t) = InLog(s)
  BY <1>7 DEF InManagers, InUsers, InLog
<1>10. FileShape(t)
  BY <1>7, <1>8 DEF FileInv, FileShape
<1> QED
  BY <1>8, <1>9, <1>10 DEF FileInv

LEMMA UserTurned ==
    ASSUME NEW s, NEW a, NEW x, FileInv(s, a, x), NEW k \in 1..Len(s.users), NEW b \in BOOLEAN,
           NEW t, t = [s EXCEPT !.users[k].on = b]
    PROVE  FileInv(t, a, x)
<1>1. PICK n, m, u : m = s.users /\ u = [m[k] EXCEPT !.on = b] /\ n = [m EXCEPT ![k] = u]
  OBVIOUS
<1>2. s \in PageStore /\ m \in Seq(Member) /\ Len(m) \in Nat /\ k \in 1..Len(m)
  BY <1>1, FileTypes DEF FileInv, FileShape
<1>3. m[k] \in Member
  BY <1>2
<1>4. u \in Member /\ u.by = m[k].by
  BY <1>1, <1>3 DEF Member
<1>5. /\ n \in Seq(Member) /\ Len(n) = Len(m)
      /\ \A i \in 1..Len(m) : n[i].by = m[i].by
  BY <1>1, <1>2, <1>4
<1>6. t = [s EXCEPT !.users = n]
  BY <1>1
<1>7. /\ t \in PageStore /\ t.users = n /\ t.managers = s.managers /\ t.list = s.list
      /\ t.log = s.log /\ t.seeded = s.seeded
  BY ONLY <1>2, <1>5, <1>6, FileFields
<1>8. InUsers(t) = InUsers(s) /\ Len(t.users) = Len(s.users)
  BY <1>1, <1>5, <1>7 DEF InUsers
<1>9. InManagers(t) = InManagers(s) /\ InList(t) = InList(s) /\ InLog(t) = InLog(s)
  BY <1>7 DEF InManagers, InList, InLog
<1>10. FileShape(t)
  BY <1>7, <1>8 DEF FileInv, FileShape
<1> QED
  BY <1>8, <1>9, <1>10 DEF FileInv

\* The first user comes into the directory: the one of the code, or one who is provisioned.
LEMMA UserEnters ==
    ASSUME NEW s, NEW a, NEW x, FileInv(s, a, x), s.users = <<>>, NEW w \in PageRequests \cup {D!Seed},
           NEW t, t = [s EXCEPT !.users = <<[email |-> D!Email, by |-> w, on |-> TRUE]>>]
    PROVE  /\ w = D!Seed => FileInv(t, a, x)
           /\ w \in PageRequests \ a => FileInv(t, a \cup {w}, x)
<1>1. PICK n, u : u = [email |-> D!Email, by |-> w, on |-> TRUE] /\ n = <<u>>
  OBVIOUS
<1>2. u \in Member /\ u.by = w
  BY <1>1 DEF Member
<1>3. n \in Seq(Member) /\ Len(n) = 1 /\ n[1] = u
  BY ONLY <1>1, <1>2
<1>4. s \in PageStore
  BY DEF FileInv, FileShape
<1>5. /\ t \in PageStore /\ t.users = n /\ t.managers = s.managers /\ t.list = s.list
      /\ t.log = s.log /\ t.seeded = s.seeded
  <2>1. t = [s EXCEPT !.users = n]
    BY <1>1
  <2> QED
    BY ONLY <1>3, <1>4, <2>1, FileFields
<1>6. InUsers(s) = {} /\ InUsers(t) = {w}
  <2>1. InUsers(s) = {}
    <3>1. Len(s.users) = 0
      OBVIOUS
    <3> QED
      BY <3>1 DEF InUsers
  <2>2. {n[i].by : i \in 1..Len(n)} = {w}
    BY <1>2, <1>3
  <2> QED
    BY <1>5, <2>1, <2>2 DEF InUsers
<1>7. InManagers(t) = InManagers(s) /\ InList(t) = InList(s) /\ InLog(t) = InLog(s)
  BY <1>5 DEF InManagers, InList, InLog
<1>8. FileShape(t)
  BY <1>3, <1>5 DEF FileInv, FileShape
<1>9. NamedOnce(InList(s), InManagers(s), InUsers(s), InLog(s), a, x) /\ D!Seed \notin InList(s)
  BY <1>4, SeedNotListed DEF FileInv
<1>10. ASSUME w = D!Seed PROVE FileInv(t, a, x)
  <2>1. NamedOnce(InList(t), InManagers(t), InUsers(t), InLog(t), a, x)
    <3>1. InUsers(t) = {D!Seed} /\ InUsers(s) = {} /\ D!Seed \notin InList(t)
      BY <1>6, <1>7, <1>9, <1>10
    <3>2. NamedOnce(InList(t), InManagers(t), InUsers(s), InLog(t), a, x)
      BY ONLY <1>7, <1>9
    <3> QED
      BY ONLY <3>1, <3>2 DEF NamedOnce
  <2> QED
    BY <1>8, <2>1 DEF FileInv
<1>11. ASSUME w \in PageRequests \ a PROVE FileInv(t, a \cup {w}, x)
  <2>1. NamedOnce(InList(s), InManagers(s), InUsers(s) \cup {w}, InLog(s), a \cup {w}, x)
    BY <1>11, NamesGrow
  <2>2. InUsers(t) = InUsers(s) \cup {w}
    BY <1>6
  <2> QED
    BY <1>7, <1>8, <2>1, <2>2 DEF FileInv
<1> QED
  BY <1>10, <1>11

\* An email that is in the directory is all there is in it.
LEMMA Directory ==
    ASSUME NEW s \in PageStore
    PROVE  /\ \A i \in 1..Len(s.users) : s.users[i].email = D!Email
           /\ (\A u \in D!ToSet(s.users) : u.email # D!Email) => s.users = <<>>
<1>1. s.users \in Seq(Member) /\ Len(s.users) \in Nat
  BY FileTypes
<1>2. \A i \in 1..Len(s.users) : s.users[i].email = D!Email
  <2>1. \A u \in Member : u.email = D!Email
    BY DEF Member
  <2> QED
    BY <1>1, <2>1
<1>3. Len(s.users) = 0 => s.users = <<>>
  BY <1>1
<1>4. ASSUME Len(s.users) # 0 PROVE ~ \A u \in D!ToSet(s.users) : u.email # D!Email
  <2>1. 1 \in 1..Len(s.users) /\ DOMAIN s.users = 1..Len(s.users)
    BY <1>1, <1>4
  <2>2. s.users[1] \in D!ToSet(s.users)
    BY <2>1 DEF D!ToSet
  <2> QED
    BY <1>2, <2>1, <2>2
<1> QED
  BY <1>2, <1>3, <1>4

\* The first of the places is one of them.
LEMMA FirstIn ==
    ASSUME NEW n \in Nat, NEW places, places \subseteq 1..n, places # {}
    PROVE  D!First(places) \in places
<1>1. PICK list, kept : kept = D!Kept(list, places)
  OBVIOUS
<1>2. InOrder(kept, list, places)
  <2>1. places \in SUBSET (1..n)
    OBVIOUS
  <2> QED
    BY <1>1, <2>1, KeptPlaces
<1>3. PICK m \in Nat : \E place \in [1..m -> places] :
        /\ \A i \in places : \E k \in 1..m : place[k] = i
        /\ \A k, l \in 1..m : place[k] <= place[l] => k <= l
  BY <1>2 DEF InOrder
<1>4. PICK place \in [1..m -> places] :
        /\ \A i \in places : \E k \in 1..m : place[k] = i
        /\ \A k, l \in 1..m : place[k] <= place[l] => k <= l
  BY <1>3
<1>5. 1 \in 1..m /\ place[1] \in places
  <2>1. PICK i \in places : TRUE
    OBVIOUS
  <2>2. PICK k \in 1..m : place[k] = i
    BY <1>4, <2>1
  <2> QED
    BY <2>2
<1>6. ASSUME NEW j \in places PROVE place[1] <= j
  <2>1. PICK l \in 1..m : place[l] = j
    BY <1>4
  <2>2. place[1] \in Nat /\ j \in Nat
    <3>1. \A i \in places : i \in Nat
      OBVIOUS
    <3> QED
      BY <1>5, <3>1
  <2>3. j <= place[1] => l = 1
    BY <1>4, <1>5, <2>1
  <2> QED
    BY <2>1, <2>2, <2>3
<1>7. \E i \in places : \A j \in places : i <= j
  BY <1>5, <1>6
<1> QED
  BY <1>7 DEF D!First

\* What a request and a page are, and what a request sees that no other has overlapped.
PageRest == [method : {"get"}, explicit : BOOLEAN] \cup [method : {"post"}, change : D!Changes]
PageAsk ==
  [at : {"new", "done"}]
  \cup [at : {"counting", "handling"}, who : D!Visitors, alone : BOOLEAN, rest : PageRest]
PageView ==
  [who : {D!Nobody}, shown : {FALSE}]
  \cup [shown : {TRUE}, who : D!Visitors, alone : BOOLEAN, user : D!Visitors, explicit : BOOLEAN,
        token : D!Visitors, count : D!Visitors]
Waits(q) == q.at \in {"counting", "handling"}
ViewTold(v) ==
  v.shown =>
    /\ v.user = v.token \/ (v.explicit /\ v.user = v.who)
    /\ v.alone => v.token = v.who /\ v.count \in {v.who, D!Nobody}
SeesOwn(q, of, count) ==
  /\ of = q.who
  /\ q.at = "handling" => count \in {q.who, D!Nobody}
Globals ==
  /\ request \in [PageRequests -> PageAsk]
  /\ page \in [PageRequests -> PageView]
  /\ shared \in [of : D!Visitors, count : D!Visitors]
  /\ \A r \in PageRequests : ViewTold(page[r])
  /\ \A r \in PageRequests : Waits(request[r]) /\ request[r].alone =>
       /\ \A p \in PageRequests : Waits(request[p]) => p = r
       /\ SeesOwn(request[r], shared.of, shared.count)
PageInv ==
  /\ Globals
  /\ second \in Nat
  /\ \A r \in added : request[r].at = "done"
  /\ FileInv(store, added, removed \cup wiped)

LEMMA PageTypes ==
    /\ D!Nobody \in D!Visitors
    /\ D!Idle \in PageAsk /\ D!Done \in PageAsk /\ ~Waits(D!Idle) /\ ~Waits(D!Done)
    /\ D!Done.at = "done"
    /\ D!NoPage \in PageView /\ ViewTold(D!NoPage)
    /\ \A q \in PageAsk :
         /\ q.at = "new" => ~Waits(q)
         /\ Waits(q) => q.at # "done" /\ q.who \in D!Visitors /\ q.alone \in BOOLEAN /\ q.rest \in PageRest
BY DEF D!Visitors, D!Idle, D!Done, D!NoPage, PageAsk, PageView, Waits, ViewTold

LEMMA WhoRuns ==
    ASSUME Globals
    PROVE  \A p : p \in D!Running <=> p \in PageRequests /\ Waits(request[p])
BY DEF D!Running, Waits

\* A request begins: it is alone if nobody runs, and nobody else is from then on.
LEMMA EnterKeeps ==
    ASSUME Globals, NEW r \in PageRequests, request[r].at = "new", NEW who \in D!Visitors,
           NEW rest \in PageRest, D!Enter(r, who, rest), page' = page
    PROVE  Globals' /\ \A p \in PageRequests : request[p].at = "done" => request'[p].at = "done"
<1>1. PICK q, lone : /\ q = [at |-> IF who = D!Nobody THEN "handling" ELSE "counting",
                             who |-> who, alone |-> lone, rest |-> rest]
                     /\ lone = (D!Running = {})
  OBVIOUS
<1>2. /\ request \in [PageRequests -> PageAsk] /\ page \in [PageRequests -> PageView]
      /\ shared \in [of : D!Visitors, count : D!Visitors]
  BY DEF Globals
<1>3. lone \in BOOLEAN /\ (lone => \A p \in PageRequests : ~Waits(request[p]))
  <2>1. lone \in BOOLEAN
    BY <1>1, Zenon
  <2> QED
    BY <1>1, <2>1, WhoRuns
<1>4. q \in PageAsk /\ Waits(q) /\ q.who = who /\ q.alone = lone
      /\ (q.at = "handling" => who = D!Nobody)
  BY <1>1, <1>3 DEF PageAsk, Waits
<1>5. request' = [p \in PageRequests |->
        IF p = r THEN q
        ELSE IF p \in D!Running THEN [request[p] EXCEPT !.alone = FALSE] ELSE request[p]]
  BY <1>1 DEF D!Enter
<1>6. ASSUME NEW p \in PageRequests, p # r
      PROVE  /\ request'[p] \in PageAsk
             /\ Waits(request'[p]) => Waits(request[p]) /\ request'[p].alone = FALSE
             /\ request[p].at = "done" => request'[p].at = "done"
  <2>1. PICK a : a = request[p]
    OBVIOUS
  <2>2. a \in PageAsk
    BY <1>2, <2>1
  <2>3. CASE Waits(a)
    <3>1. request'[p] = [a EXCEPT !.alone = FALSE]
      BY <1>5, <1>6, <2>1, <2>3, WhoRuns
    <3>2. a \in [at : {"counting", "handling"}, who : D!Visitors, alone : BOOLEAN, rest : PageRest]
      BY <2>2, <2>3 DEF PageAsk, Waits
    <3>3. PICK b : b = [a EXCEPT !.alone = FALSE]
      OBVIOUS
    <3>4. /\ b \in [at : {"counting", "handling"}, who : D!Visitors, alone : BOOLEAN, rest : PageRest]
          /\ b.alone = FALSE
      BY ONLY <3>2, <3>3
    <3> QED
      BY <2>1, <2>2, <2>3, <3>1, <3>3, <3>4, PageTypes DEF PageAsk
  <2>4. CASE ~Waits(a)
    <3>1. request'[p] = a
      BY <1>5, <1>6, <2>1, <2>4, WhoRuns
    <3> QED
      BY <2>1, <2>2, <2>4, <3>1
  <2> QED
    BY <2>3, <2>4
<1>7. request'[r] = q
  BY <1>5
<1>8. request' \in [PageRequests -> PageAsk]
  BY <1>4, <1>5, <1>6, <1>7
<1>9. shared' = [of |-> who, count |-> IF who = D!Nobody THEN D!Nobody ELSE shared.count]
  BY DEF D!Enter, D!Publish
<1>10. /\ shared' \in [of : D!Visitors, count : D!Visitors] /\ shared'.of = who
       /\ who = D!Nobody => shared'.count = D!Nobody
  BY <1>2, <1>9, PageTypes
<1>11. ASSUME NEW p \in PageRequests, Waits(request'[p]), request'[p].alone
       PROVE  /\ \A o \in PageRequests : Waits(request'[o]) => o = p
              /\ SeesOwn(request'[p], shared'.of, shared'.count)
  <2>1. p = r
    BY <1>6, <1>11
  <2>2. \A o \in PageRequests : ~Waits(request[o])
    BY <1>3, <1>4, <1>7, <1>11, <2>1
  <2>3. \A o \in PageRequests : Waits(request'[o]) => o = r
    BY <1>6, <2>2
  <2>4. SeesOwn(q, shared'.of, shared'.count)
    BY <1>4, <1>10 DEF SeesOwn
  <2> QED
    BY <1>7, <2>1, <2>3, <2>4
<1>12. Globals'
  <2>1. \A p \in PageRequests : ViewTold(page'[p])
    BY DEF Globals
  <2> QED
    BY <1>2, <1>8, <1>10, <1>11, <2>1 DEF Globals
<1>13. \A p \in PageRequests : request[p].at = "done" => request'[p].at = "done"
  BY <1>6
<1> QED
  BY <1>12, <1>13

\* A request is answered, with a page or without: if it was alone, nobody else runs.
LEMMA AnswerKeeps ==
    ASSUME Globals, NEW r \in PageRequests, Waits(request[r]) \/ request[r].at = "new",
           request' = [request EXCEPT ![r] = D!Done], shared' = shared,
           NEW v \in PageView, ViewTold(v), page' \in {page, [page EXCEPT ![r] = v]}
    PROVE  Globals' /\ \A p \in PageRequests : request[p].at = "done" \/ p = r => request'[p].at = "done"
<1>1. request \in [PageRequests -> PageAsk] /\ page \in [PageRequests -> PageView]
  BY DEF Globals
<1>2. /\ request' \in [PageRequests -> PageAsk] /\ request'[r] = D!Done
      /\ \A p \in PageRequests : p # r => request'[p] = request[p]
  BY <1>1, PageTypes
<1>3. /\ page' \in [PageRequests -> PageView] /\ page'[r] \in {page[r], v}
      /\ \A p \in PageRequests : p # r => page'[p] = page[p]
  BY <1>1
<1>4. \A p \in PageRequests : ViewTold(page'[p])
  BY <1>3 DEF Globals
<1>5. \A p \in PageRequests : Waits(request'[p]) => p # r /\ request'[p] = request[p]
  BY <1>2, PageTypes
<1>6. ASSUME NEW p \in PageRequests, Waits(request'[p]), request'[p].alone
      PROVE  /\ \A o \in PageRequests : Waits(request'[o]) => o = p
             /\ SeesOwn(request'[p], shared'.of, shared'.count)
  <2>1. Waits(request[p]) /\ request[p].alone /\ request'[p] = request[p]
    BY <1>5, <1>6
  <2> QED
    BY <1>5, <2>1 DEF Globals
<1>7. Globals'
  BY <1>2, <1>3, <1>4, <1>6 DEF Globals
<1> QED
  BY <1>2, <1>7, PageTypes

\* What a template shows is of one piece.
LEMMA ShownTold ==
    ASSUME Globals, NEW r \in PageRequests, request[r].at = "handling", NEW explicit \in BOOLEAN
    PROVE  D!Shown(request[r], explicit) \in PageView /\ ViewTold(D!Shown(request[r], explicit))
<1>1. PICK q, of, count, v : /\ q = request[r] /\ of = shared.of /\ count = shared.count
                             /\ v = D!Shown(request[r], explicit)
  OBVIOUS
<1>2. /\ q.who \in D!Visitors /\ q.alone \in BOOLEAN /\ of \in D!Visitors /\ count \in D!Visitors
      /\ q.alone => SeesOwn(q, of, count)
  <2>1. q \in PageAsk /\ Waits(q) /\ of \in D!Visitors /\ count \in D!Visitors
    BY <1>1 DEF Globals, Waits
  <2>2. q.who \in D!Visitors /\ q.alone \in BOOLEAN
    BY <2>1, PageTypes
  <2>3. q.alone => SeesOwn(q, of, count)
    BY <1>1, <2>1 DEF Globals
  <2> QED
    BY <2>1, <2>2, <2>3
<1>3. v = [shown |-> TRUE, who |-> q.who, alone |-> q.alone, user |-> IF explicit THEN q.who ELSE of,
           explicit |-> explicit, token |-> of, count |-> count]
  BY <1>1 DEF D!Shown
<1>4. v \in PageView
  BY ONLY <1>2, <1>3, explicit \in BOOLEAN DEF PageView
<1>5. q.alone => of = q.who /\ count \in {q.who, D!Nobody}
  BY <1>1, <1>2 DEF SeesOwn
<1>6. ViewTold(v)
  BY ONLY <1>3, <1>5, explicit \in BOOLEAN DEF ViewTold
<1> QED
  BY <1>1, <1>4, <1>6

\* The count arrives: for a request that is alone it is its own.
LEMMA CountKeeps ==
    ASSUME Globals, NEW r \in PageRequests, D!Count(r)
    PROVE  Globals' /\ \A p \in PageRequests : request[p].at = "done" => request'[p].at = "done"
<1>1. /\ request \in [PageRequests -> PageAsk] /\ shared \in [of : D!Visitors, count : D!Visitors]
      /\ request[r].at = "counting" /\ Waits(request[r]) /\ page' = page
  BY DEF Globals, D!Count, Waits
<1>2. PICK q, a : q = [a EXCEPT !.at = "handling"] /\ a = request[r]
  OBVIOUS
<1>3. request' = [request EXCEPT ![r] = q]
  BY <1>2 DEF D!Count
<1>4. a \in [at : {"counting", "handling"}, who : D!Visitors, alone : BOOLEAN, rest : PageRest]
  <2>1. a \in PageAsk /\ Waits(a)
    BY <1>1, <1>2
  <2> QED
    BY <2>1 DEF PageAsk, Waits
<1>5. /\ q \in [at : {"counting", "handling"}, who : D!Visitors, alone : BOOLEAN, rest : PageRest]
      /\ q.who = a.who /\ q.alone = a.alone /\ q.at = "handling"
  BY ONLY <1>2, <1>4
<1>6. q \in PageAsk /\ Waits(q)
  BY <1>5 DEF PageAsk, Waits
<1>7. /\ request' \in [PageRequests -> PageAsk] /\ request'[r] = q
      /\ \A p \in PageRequests : p # r => request'[p] = request[p]
  BY <1>1, <1>3, <1>6
<1>8. /\ shared' \in [of : D!Visitors, count : D!Visitors] /\ shared'.of = shared.of
      /\ shared'.count \in {q.who, D!Nobody}
  <2>1. PICK w \in {request[r].who, D!Nobody} : shared' = [shared EXCEPT !.count = w]
    BY DEF D!Count
  <2>2. w \in {q.who, D!Nobody} /\ w \in D!Visitors
    BY <1>2, <1>4, <1>5, <2>1, PageTypes
  <2> QED
    BY <1>1, <2>1, <2>2
<1>9. ASSUME NEW p \in PageRequests, Waits(request'[p]), request'[p].alone
      PROVE  /\ \A o \in PageRequests : Waits(request'[o]) => o = p
             /\ SeesOwn(request'[p], shared'.of, shared'.count)
  <2>1. Waits(request[p]) /\ request[p].alone
    BY <1>1, <1>2, <1>5, <1>7, <1>9
  <2>2. /\ \A o \in PageRequests : Waits(request[o]) => o = p
        /\ SeesOwn(request[p], shared.of, shared.count)
    BY <2>1 DEF Globals
  <2>3. p = r
    BY <1>1, <2>2
  <2>4. \A o \in PageRequests : Waits(request'[o]) => o = p
    BY <1>7, <2>2, <2>3
  <2>5. shared.of = a.who
    BY <1>2, <2>2, <2>3 DEF SeesOwn
  <2>6. SeesOwn(q, shared'.of, shared'.count)
    BY <1>5, <1>8, <2>5 DEF SeesOwn
  <2> QED
    BY <1>7, <2>3, <2>4, <2>6
<1>10. \A p \in PageRequests : ViewTold(page'[p])
  BY <1>1 DEF Globals
<1>11. Globals'
  BY <1>1, <1>7, <1>8, <1>9, <1>10 DEF Globals
<1> QED
  BY <1>1, <1>7, <1>11

LEMMA HandlerKeeps ==
    ASSUME PageInv, NEW r \in PageRequests, Waits(request[r]) \/ request[r].at = "new",
           request' = [request EXCEPT ![r] = D!Done], shared' = shared, second' = second,
           NEW v \in PageView, ViewTold(v), page' \in {page, [page EXCEPT ![r] = v]},
           added' \subseteq added \cup {r}, FileInv(store', added', removed' \cup wiped')
    PROVE  PageInv'
<1>1. Globals' /\ \A p \in PageRequests : request[p].at = "done" \/ p = r => request'[p].at = "done"
  BY AnswerKeeps DEF PageInv
<1>2. added \subseteq PageRequests
  BY DEF PageInv, FileInv, NamedOnce
<1>3. \A p \in added' : request'[p].at = "done"
  BY <1>1, <1>2 DEF PageInv
<1> QED
  BY <1>1, <1>3 DEF PageInv

\* A handler that changes the file answers its request.
LEMMA SavesKeeps ==
    ASSUME PageInv, NEW r \in PageRequests, request[r].at = "handling", D!Answer(r),
           added' \subseteq added \cup {r}, FileInv(store', added', removed' \cup wiped')
    PROVE  PageInv'
<1>1. Waits(request[r]) /\ request' = [request EXCEPT ![r] = D!Done] /\ shared' = shared
      /\ second' = second /\ page' = page
  BY DEF Waits, D!Answer
<1>2. D!NoPage \in PageView /\ ViewTold(D!NoPage) /\ page' \in {page, [page EXCEPT ![r] = D!NoPage]}
  BY <1>1, PageTypes
<1> QED
  BY <1>1, <1>2, HandlerKeeps

LEMMA EmptyFile == FileInv(D!NoStore, {}, {})
<1>1. PICK empty : empty = <<>>
  OBVIOUS
<1>2. /\ empty \in Seq(PageEntry) /\ empty \in Seq(Member) /\ empty \in Seq(PageRequests)
      /\ empty \in Seq(PageRequests \cup {D!Seed}) /\ Len(empty) = 0
  BY <1>1
<1>3. PICK s : s = [list |-> empty, managers |-> empty, seeded |-> FALSE, users |-> empty, log |-> empty]
  OBVIOUS
<1>4. s = D!NoStore
  BY <1>1, <1>3 DEF D!NoStore
<1>5. s \in PageStore
  BY ONLY <1>2, <1>3 DEF PageStore
<1>6. /\ s.list = empty /\ s.managers = empty /\ s.users = empty /\ s.log = empty
  BY <1>3
<1>7. InList(s) = {} /\ InManagers(s) = {} /\ InUsers(s) = {} /\ InLog(s) = {}
  BY <1>2, <1>6 DEF InList, InManagers, InUsers, InLog
<1>8. FileShape(s)
  BY <1>1, <1>2, <1>5, <1>6 DEF FileShape
<1> QED
  BY <1>4, <1>7, <1>8 DEF FileInv, NamedOnce

LEMMA NamesAre ==
    ASSUME NEW s, NEW a, NEW x, FileInv(s, a, x)
    PROVE  /\ Names(s) = a \ x /\ Fits(s, s, {})
           /\ InList(s) \cap (InManagers(s) \cup InUsers(s) \cup InLog(s)) = {}
           /\ InManagers(s) \cap (InUsers(s) \cup InLog(s)) \subseteq {D!Seed}
           /\ x \subseteq a /\ a \subseteq PageRequests
BY DEF FileInv, NamedOnce, Names, Fits

LEMMA NothingFits == ASSUME NEW s, NEW e PROVE Fits(D!NoStore, s, e) /\ Names(D!NoStore) = {}
<1>1. Names(D!NoStore) = {} \ {}
  BY EmptyFile, NamesAre
<1> QED
  BY <1>1, EmptyFile DEF Fits

\* A file of what is made of an empty one.
LEMMA FitsAnew ==
    ASSUME NEW t, NEW s, NEW e, FileInv(t, {} \cup e, {})
    PROVE  Fits(t, s, e)
<1>1. Names(t) = ({} \cup e) \ {}
  BY NamesAre
<1> QED
  BY <1>1 DEF Fits

\* A fault has left another file; what it lost is counted as lost.
LEMMA FaultCounted ==
    ASSUME NEW s, NEW a, NEW x, FileInv(s, a, x), NEW e, e \subseteq PageRequests, e \cap a = {},
           NEW t, Fits(t, s, e)
    PROVE  FileInv(t, a \cup e, x \cup ((Names(s) \cup e) \ Names(t)))
<1>1. PICK b, y : FileInv(t, b, y)
  BY DEF Fits
<1>2. Names(s) = a \ x /\ x \subseteq a /\ a \subseteq PageRequests
  BY NamesAre
<1>3. Names(t) \subseteq (a \ x) \cup e
  BY <1>2 DEF Fits
<1>4. PICK z : z = x \cup ((Names(s) \cup e) \ Names(t))
  OBVIOUS
<1>5. Names(t) = (a \cup e) \ z /\ z \subseteq a \cup e /\ a \cup e \subseteq PageRequests
  BY <1>2, <1>3, <1>4
<1>6. NamedOnce(InList(t), InManagers(t), InUsers(t), InLog(t), a \cup e, z)
  BY <1>1, <1>5, NamesAre DEF NamedOnce, Names
<1> QED
  BY <1>1, <1>4, <1>6 DEF FileInv

\* The requests the collections name are those whose entries the file holds.
LEMMA EntriesAreNames == ASSUME NEW s \in PageStore PROVE D!EntriesOf(s) = Names(s)
<1>1. PICK list, managers, users, log : /\ list = s.list /\ managers = s.managers
                                        /\ users = s.users /\ log = s.log
  OBVIOUS
<1>2. /\ list \in Seq(PageEntry) /\ managers \in Seq(PageRequests \cup {D!Seed})
      /\ users \in Seq(Member) /\ log \in Seq(PageRequests)
  BY <1>1, FileTypes
<1>3. /\ DOMAIN list = 1..Len(list) /\ DOMAIN managers = 1..Len(managers)
      /\ DOMAIN users = 1..Len(users) /\ DOMAIN log = 1..Len(log)
  BY <1>2
<1>4. /\ D!ToSet(list) = {list[i] : i \in 1..Len(list)}
      /\ D!ToSet(managers) = {managers[i] : i \in 1..Len(managers)}
      /\ D!ToSet(users) = {users[i] : i \in 1..Len(users)}
      /\ D!ToSet(log) = {log[i] : i \in 1..Len(log)}
  BY <1>3 DEF D!ToSet
<1>5. /\ {e.by : e \in D!ToSet(list)} = InList(s) /\ D!ToSet(managers) = InManagers(s)
      /\ {u.by : u \in D!ToSet(users)} = InUsers(s) /\ D!ToSet(log) = InLog(s)
  BY <1>1, <1>4 DEF InList, InManagers, InUsers, InLog
<1> QED
  BY <1>1, <1>5 DEF D!EntriesOf, Names

\* What a spoilt write leaves is in order, too.
LEMMA SpoiltKeeps ==
    ASSUME NEW s, NEW a, NEW x, s = store, a = added, x = removed \cup wiped, FileInv(s, a, x),
           NEW e, e \subseteq PageRequests, e \cap a = {},
           NEW unread, \A t \in unread : Fits(t, s, e), D!Spoilt(unread, e)
    PROVE  added' = a \cup e /\ FileInv(store', added', removed' \cup wiped')
<1>1. PICK t, y, b : t = store' /\ y = removed' \cup wiped' /\ b = added'
  OBVIOUS
<1>2. Fits(t, s, e)
  <2>1. t \in unread \/ t = s \/ t = D!NoStore
    BY <1>1 DEF D!Spoilt
  <2>2. Fits(s, s, e)
    BY NamesAre DEF Fits
  <2> QED
    BY <2>1, <2>2, NothingFits
<1>3. D!EntriesOf(s) = Names(s) /\ D!EntriesOf(t) = Names(t)
  BY <1>2, EntriesAreNames DEF Fits, FileInv, FileShape
<1>4. PICK z, c : z = x \cup ((Names(s) \cup e) \ Names(t)) /\ c = a \cup e
  OBVIOUS
<1>5. b = c /\ y = z
  BY <1>1, <1>3, <1>4 DEF D!Spoilt
<1>6. FileInv(t, c, z)
  BY <1>2, <1>4, FaultCounted
<1> QED
  BY <1>1, <1>4, <1>5, <1>6

\* The file is seeded, and its directory filled.
LEMMA OpenedKeeps == ASSUME NEW s, NEW a, NEW x, FileInv(s, a, x) PROVE FileInv(D!Opened(s), a, x)
<1>1. PICK m, M : m = D!Managers(s) /\ M = {m[i] : i \in 1..Len(m)}
  OBVIOUS
<1>2. /\ m \in Seq(PageRequests \cup {D!Seed})
      /\ \A i, j \in 1..Len(m) : m[i] = m[j] /\ m[i] # D!Seed => i = j
      /\ M \in {InManagers(s), InManagers(s) \cup {D!Seed}}
  BY <1>1, OwnersAre
<1>3. NamedOnce(InList(s), M, InUsers(s), InLog(s), a, x)
  BY <1>2, SeedNamed
<1>4. D!Opened(s) = D!Managed(s, m)
  BY <1>1 DEF D!Opened
<1> QED
  BY <1>1, <1>2, <1>3, <1>4, ManagersReplaced

LEMMA DirectoryKeeps ==
    ASSUME NEW s, NEW a, NEW x, FileInv(s, a, x) PROVE FileInv(D!users_directory(s), a, x)
<1>1. CASE s.users # <<>>
  BY <1>1 DEF D!users_directory
<1>2. CASE s.users = <<>>
  <2>1. PICK w : w = D!Seed
    OBVIOUS
  <2>2. D!users_directory(s) = [s EXCEPT !.users = <<[email |-> D!Email, by |-> w, on |-> TRUE]>>]
    BY <1>2, <2>1 DEF D!users_directory
  <2> QED
    BY <1>2, <2>1, <2>2, UserEnters
<1> QED
  BY <1>1, <1>2

\* Managers that may be written into the one file may be written into the other.
LEMMA ManagersMixed ==
    ASSUME NEW s, NEW a, NEW x, FileInv(s, a, x), NEW e, e \subseteq PageRequests, e \cap a = {},
           NEW u \in {s, D!NoStore}, NEW v \in {s, D!NoStore},
           NEW m \in Seq(PageRequests \cup {D!Seed}), Fits(D!Managed(u, m), u, e)
    PROVE  Fits(D!Managed(v, m), s, e)
<1>1. PICK t, w, b, y : t = D!Managed(u, m) /\ w = D!Managed(v, m) /\ FileInv(t, b, y)
  BY DEF Fits
<1>2. PICK c, z, g, h : FileInv(u, c, z) /\ FileInv(v, g, h)
  BY EmptyFile
<1>3. /\ t.managers = m /\ w \in PageStore /\ w.managers = m /\ w.seeded = TRUE
      /\ w.list = v.list /\ w.users = v.users /\ w.log = v.log
  <2>1. u \in PageStore /\ v \in PageStore
    BY <1>2 DEF FileInv, FileShape
  <2> QED
    BY <1>1, <2>1, FileManagers
<1>4. /\ InList(w) = InList(v) /\ InUsers(w) = InUsers(v) /\ InLog(w) = InLog(v)
      /\ InManagers(w) = InManagers(t)
  BY <1>3 DEF InManagers, InUsers, InLog, InList
<1>5. FileShape(w)
  BY <1>1, <1>2, <1>3 DEF FileInv, FileShape
<1>6. /\ Names(s) = a \ x /\ Names(D!NoStore) = {} /\ D!Seed \notin e
      /\ Names(t) \subseteq Names(u) \cup e /\ D!Seed \notin InList(v)
  <2>1. D!Seed \notin InList(v)
    BY <1>2, SeedNotListed DEF FileInv, FileShape
  <2> QED
    BY <1>1, <2>1, NamesAre, NothingFits, SeedIsNoRequest DEF Fits
<1>7. CASE u = v
  <2>1. t = w
    BY <1>1, <1>7
  <2> QED
    BY <1>1, <1>6, <2>1 DEF Fits
<1>8. CASE v = D!NoStore /\ u = s
  <2>1. InList(v) = {} /\ InUsers(v) = {} /\ InLog(v) = {}
    <3>1. InList(v) \cup InUsers(v) \cup InLog(v) \subseteq {D!Seed}
      BY <1>6, <1>8 DEF Names
    <3>2. /\ D!NoStore.list = <<>> /\ D!NoStore.users = <<>> /\ D!NoStore.log = <<>>
      BY DEF D!NoStore
    <3> QED
      BY <1>8, <3>2 DEF InList, InUsers, InLog
  <2>2. Names(w) \subseteq Names(t)
    BY <1>4, <2>1 DEF Names
  <2>3. InManagers(t) \subseteq PageRequests \cup {D!Seed}
    BY <1>1, NamesAre DEF Names
  <2>4. NamedOnce(InList(w), InManagers(w), InUsers(w), InLog(w), Names(w), {})
    BY <1>4, <2>1, <2>3 DEF NamedOnce, Names
  <2>5. FileInv(w, Names(w), {})
    BY <1>5, <2>4 DEF FileInv
  <2> QED
    BY <1>1, <1>6, <1>8, <2>2, <2>5 DEF Fits
<1>9. CASE v = s /\ u = D!NoStore
  <2>1. InManagers(t) \subseteq e \cup {D!Seed}
    BY <1>6, <1>9 DEF Names
  <2>2. (InList(s) \cup InUsers(s) \cup InLog(s)) \cap e = {}
    BY <1>6 DEF Names
  <2>3. (InList(s) \cup InUsers(s) \cup InLog(s)) \ {D!Seed} \subseteq Names(s) /\ Names(s) \subseteq PageRequests
        /\ InList(s) \cap (InUsers(s) \cup InLog(s)) = {}
    BY <1>6, NamesAre DEF Names
  <2>4. Names(w) \subseteq Names(s) \cup e
    BY <1>4, <1>9, <2>1 DEF Names
  <2>5. NamedOnce(InList(w), InManagers(w), InUsers(w), InLog(w), Names(w), {})
    <3>1. InList(w) \cap (InManagers(w) \cup InUsers(w) \cup InLog(w)) = {}
      BY <1>4, <1>6, <1>9, <2>1, <2>2, <2>3
    <3>2. InManagers(w) \cap (InUsers(w) \cup InLog(w)) \subseteq {D!Seed}
      BY <1>4, <1>9, <2>1, <2>2
    <3>3. Names(w) \subseteq PageRequests
      BY <2>3, <2>4
    <3> QED
      BY <3>1, <3>2, <3>3 DEF NamedOnce, Names
  <2>6. FileInv(w, Names(w), {})
    BY <1>5, <2>5 DEF FileInv
  <2> QED
    BY <1>1, <2>4, <2>6 DEF Fits
<1> QED
  BY <1>7, <1>8, <1>9

LEMMA SpoilingsFit ==
    ASSUME NEW s, NEW a, NEW x, s = store, FileInv(s, a, x), NEW e, e \subseteq PageRequests, e \cap a = {},
           NEW lists,
           \A m \in lists : /\ m \in Seq(PageRequests \cup {D!Seed})
                            /\ \E u \in {s, D!NoStore} : Fits(D!Managed(u, m), u, e)
    PROVE  \A t \in D!Spoilings(lists) : Fits(t, s, e)
<1>1. Fits(D!Opened(s), s, e) /\ Fits(D!Opened(D!NoStore), s, e)
  <2>1. FileInv(D!Opened(s), a, x) /\ FileInv(D!Opened(D!NoStore), {}, {})
    BY OpenedKeeps, EmptyFile
  <2>2. Names(D!Opened(s)) = a \ x /\ Names(D!Opened(D!NoStore)) = {} \ {} /\ Names(s) = a \ x
    BY <2>1, NamesAre
  <2> QED
    BY <2>1, <2>2 DEF Fits
<1>2. \A v \in {s, D!NoStore}, m \in lists : Fits(D!Managed(v, m), s, e)
  BY ManagersMixed
<1> QED
  BY <1>1, <1>2 DEF D!Spoilings

\* What is written of a longer or a shorter list of managers.
LEMMA GrownFits ==
    ASSUME NEW s, NEW a, NEW x, FileInv(s, a, x), NEW r \in PageRequests, r \notin a
    PROVE  /\ Append(D!Managers(s), r) \in Seq(PageRequests \cup {D!Seed})
           /\ Fits(D!Managed(s, Append(D!Managers(s), r)), s, {r})
<1>1. PICK m, t : m = Append(D!Managers(s), r) /\ t = D!Managed(s, m)
  OBVIOUS
<1>2. m \in Seq(PageRequests \cup {D!Seed})
  <2>1. D!Managers(s) \in Seq(PageRequests \cup {D!Seed})
    BY OwnersAre
  <2> QED
    BY <1>1, <2>1
<1>3. FileInv(t, a \cup {r}, x)
  BY <1>1, ManagersGrow
<1>4. Names(t) = (a \cup {r}) \ x /\ Names(s) = a \ x
  BY <1>3, NamesAre
<1> QED
  BY <1>1, <1>2, <1>3, <1>4 DEF Fits

LEMMA ShrunkFits ==
    ASSUME NEW s, NEW a, NEW x, FileInv(s, a, x), NEW gone
    PROVE  /\ D!Kept(D!Managers(s), DOMAIN D!Managers(s) \ gone) \in Seq(PageRequests \cup {D!Seed})
           /\ Fits(D!Managed(s, D!Kept(D!Managers(s), DOMAIN D!Managers(s) \ gone)), s, {})
<1>1. PICK m, t : m = D!Kept(D!Managers(s), DOMAIN D!Managers(s) \ gone) /\ t = D!Managed(s, m)
  OBVIOUS
<1>2. m \in Seq(PageRequests \cup {D!Seed})
  <2>1. PICK list : list = D!Managers(s)
    OBVIOUS
  <2>2. list \in Seq(PageRequests \cup {D!Seed})
    BY <2>1, OwnersAre
  <2>3. D!Kept(list, DOMAIN list \ gone) \in Seq(PageRequests \cup {D!Seed})
    BY <2>2, KeptNames
  <2> QED
    BY <1>1, <2>1, <2>3
<1>3. PICK y : y = x \cup ({D!Managers(s)[i] : i \in DOMAIN D!Managers(s) \cap gone} \ {D!Seed})
  OBVIOUS
<1>4. FileInv(t, a, y)
  BY <1>1, <1>3, ManagersShrink
<1>5. Names(t) = a \ y /\ Names(s) = a \ x
  BY <1>4, NamesAre
<1> QED
  BY <1>1, <1>2, <1>3, <1>4, <1>5 DEF Fits

\* The file after each handler.
LEMMA FileHandled ==
    ASSUME PageInv, NEW r \in PageRequests, request[r].at = "handling",
           \/ D!CreateEntry(r) \/ D!ToggleEntry(r) \/ D!DeleteEntry(r) \/ D!UpdateEntry(r)
           \/ D!TestEntry(r) \/ D!RateEntry(r) \/ D!ForwardPlaybook(r) \/ D!Probe(r)
           \/ D!ProvisionUser(r) \/ D!FlipUser(r) \/ D!AddManager(r) \/ D!DeleteManager(r)
           \/ D!Forbid(r) \/ D!SaveBranding(r)
    PROVE  added' \subseteq added \cup {r} /\ FileInv(store', added', removed' \cup wiped')
<1>1. PICK s, a, x : s = store /\ a = added /\ x = removed \cup wiped
  OBVIOUS
<1>2. FileInv(s, a, x) /\ s \in PageStore /\ r \notin a /\ {r} \subseteq PageRequests /\ {r} \cap a = {}
  BY <1>1 DEF PageInv, FileInv, FileShape
<1>3. s.list \in Seq(PageEntry) /\ s.users \in Seq(Member) /\ Len(s.list) \in Nat /\ Len(s.users) \in Nat
  BY <1>2, FileTypes
<1>4. ASSUME store' = store /\ added' = added /\ removed' = removed /\ wiped' = wiped
      PROVE  added' \subseteq added \cup {r} /\ FileInv(store', added', removed' \cup wiped')
  BY <1>4 DEF PageInv
\* A handler that adds its own entry, to the file or to an empty one.
<1>5. ASSUME NEW unread, \A t \in unread : Fits(t, s, {r}),
             \/ D!Spoilt(unread, {r})
             \/ \E new : /\ FileInv(new, a \cup {r}, x)
                         /\ D!Write(new, unread, {r}, {}) \/ D!Written(new, {r}, {})
      PROVE  added' \subseteq added \cup {r} /\ FileInv(store', added', removed' \cup wiped')
  <2>1. CASE D!Spoilt(unread, {r})
    BY <1>1, <1>2, <1>5, <2>1, SpoiltKeeps
  <2>2. ASSUME NEW new, FileInv(new, a \cup {r}, x), D!Written(new, {r}, {})
        PROVE  added' \subseteq added \cup {r} /\ FileInv(store', added', removed' \cup wiped')
    <3>1. PICK t, b, y : t = store' /\ b = added' /\ y = removed' \cup wiped'
      OBVIOUS
    <3>2. PICK c : c = a \cup {r}
      OBVIOUS
    <3>3. t = new /\ b = c /\ y = x
      BY <1>1, <2>2, <3>1, <3>2 DEF D!Written
    <3> QED
      BY <1>1, <2>2, <3>1, <3>2, <3>3
  <2> QED
    BY <1>5, <2>1, <2>2 DEF D!Write
\* A handler that adds none.
<1>6. ASSUME NEW new, NEW unread, NEW d, FileInv(new, a, x \cup d), \A t \in unread : Fits(t, s, {}),
             D!Write(new, unread, {}, d)
      PROVE  added' \subseteq added \cup {r} /\ FileInv(store', added', removed' \cup wiped')
  <2>1. CASE D!Spoilt(unread, {})
    <3>1. PICK e, b : e = {} /\ b = a \cup e
      OBVIOUS
    <3>2. e \subseteq PageRequests /\ e \cap a = {} /\ b = a
      BY <3>1
    <3>3. added' = b /\ FileInv(store', added', removed' \cup wiped')
      BY <1>1, <1>2, <1>6, <2>1, <3>1, <3>2, SpoiltKeeps
    <3> QED
      BY <1>1, <3>2, <3>3
  <2>2. CASE D!Written(new, {}, d)
    <3>1. PICK t, b, y, z : t = store' /\ b = added' /\ y = removed' \cup wiped' /\ z = x \cup d
      OBVIOUS
    <3>2. t = new /\ b = a /\ y = z
      BY <1>1, <2>2, <3>1 DEF D!Written
    <3> QED
      BY <1>1, <1>6, <3>1, <3>2
  <2> QED
    BY <1>6, <2>1, <2>2 DEF D!Write
<1>7. ASSUME NEW new, NEW unread, FileInv(new, a, x), \A t \in unread : Fits(t, s, {}),
             D!Write(new, unread, {}, {})
      PROVE  added' \subseteq added \cup {r} /\ FileInv(store', added', removed' \cup wiped')
  <2>1. PICK d, y : d = {} /\ y = x \cup d
    OBVIOUS
  <2>2. y = x /\ FileInv(new, a, y)
    BY <1>7, <2>1
  <2>3. FileInv(new, a, x \cup d) /\ D!Write(new, unread, {}, d)
    BY <1>7, <2>1, <2>2
  <2> QED
    BY <1>6, <1>7, <2>3
<1>8. CASE D!CreateEntry(r)
  <2>1. PICK e : e = [id |-> second, by |-> r, on |-> TRUE]
    OBVIOUS
  <2>2. e \in PageEntry /\ e.by = r
    BY <2>1 DEF PageEntry, PageInv
  <2>3. PICK new, t : /\ new = [s EXCEPT !.list = Append(s.list, e)]
                      /\ t = [D!NoStore EXCEPT !.list = Append(D!NoStore.list, e)]
    OBVIOUS
  <2>4. D!Write(new, {t}, {r}, {})
    BY <1>1, <1>8, <2>1, <2>3 DEF D!CreateEntry
  <2>5. FileInv(new, a \cup {r}, x)
    BY ONLY <1>2, <2>2, <2>3, r \in PageRequests, ListGrows
  <2>6. FileInv(t, {} \cup {r}, {})
    BY ONLY <2>2, <2>3, r \in PageRequests, ListGrows, EmptyFile
  <2>7. PICK u : u = {t}
    OBVIOUS
  <2>8. \A y \in u : Fits(y, s, {r})
    BY <2>6, <2>7, FitsAnew
  <2>9. D!Write(new, u, {r}, {})
    BY <2>4, <2>7
  <2> QED
    BY ONLY <1>5, <2>5, <2>8, <2>9
<1>9. CASE D!ToggleEntry(r) \/ D!UpdateEntry(r)
  <2>1. CASE D!Named(r) = {}
    <3>1. D!Write(s, {}, {}, {})
      BY <1>1, <1>9, <2>1 DEF D!ToggleEntry, D!UpdateEntry
    <3> QED
      BY <1>2, <1>7, <3>1
  <2>2. CASE D!Named(r) # {}
    <3>1. PICK k : k = D!First(D!Named(r))
      OBVIOUS
    <3>2. k \in 1..Len(s.list)
      <4>1. D!Named(r) \subseteq 1..Len(s.list)
        BY <1>1 DEF D!Named
      <4> QED
        BY <1>3, <2>2, <3>1, <4>1, FirstIn
    <3>3. PICK on \in BOOLEAN : D!Write([s EXCEPT !.list[k].on = on], {}, {}, {})
      <4>1. CASE D!UpdateEntry(r)
        BY <1>1, <2>2, <3>1, <4>1 DEF D!UpdateEntry
      <4>2. CASE D!ToggleEntry(r)
        <5>1. PICK was : was = s.list[k].on
          OBVIOUS
        <5>2. (~was) \in BOOLEAN
          BY Zenon
        <5>3. D!Write([s EXCEPT !.list[k].on = ~was], {}, {}, {})
          BY <1>1, <2>2, <3>1, <4>2, <5>1, Zenon DEF D!ToggleEntry
        <5> QED
          BY <5>2, <5>3
      <4> QED
        BY <1>9, <4>1, <4>2
    <3>4. FileInv([s EXCEPT !.list[k].on = on], a, x)
      BY <1>2, <3>2, EntryTurned
    <3> QED
      BY <1>7, <3>3, <3>4
  <2> QED
    BY <2>1, <2>2
<1>10. CASE D!DeleteEntry(r)
  <2>1. PICK gone : gone = D!Named(r)
    OBVIOUS
  <2>2. gone \subseteq 1..Len(s.list)
    BY <1>1, <2>1 DEF D!Named
  <2>3. PICK new, d : /\ new = [s EXCEPT !.list = D!Kept(s.list, DOMAIN s.list \ gone)]
                      /\ d = {s.list[i].by : i \in gone}
    OBVIOUS
  <2>4. D!Write(new, {}, {}, d)
    BY <1>1, <1>10, <2>1, <2>3 DEF D!DeleteEntry
  <2>5. FileInv(new, a, x \cup d)
    BY <1>2, <2>2, <2>3, ListShrinks
  <2> QED
    BY <1>6, <2>4, <2>5
<1>11. CASE D!TestEntry(r)
  <2>1. CASE D!Write([s EXCEPT !.log = <<r>> \o s.log], {}, {r}, {})
    <3>1. PICK log : log = <<r>> \o s.log
      OBVIOUS
    <3>2. FileInv([s EXCEPT !.log = log], a \cup {r}, x)
      BY ONLY <1>2, <3>1, r \in PageRequests, LogGrows
    <3>3. D!Write([s EXCEPT !.log = log], {}, {r}, {})
      BY <2>1, <3>1
    <3>4. PICK u : u = {}
      OBVIOUS
    <3>5. (\A y \in u : Fits(y, s, {r})) /\ D!Write([s EXCEPT !.log = log], u, {r}, {})
      BY <3>3, <3>4
    <3> QED
      BY ONLY <1>5, <3>2, <3>5
  <2>2. CASE store' = store /\ added' = added /\ removed' = removed /\ wiped' = wiped
    BY <1>4, <2>2
  <2> QED
    BY <1>1, <1>11, <2>1, <2>2 DEF D!TestEntry, D!file
<1>12. CASE D!RateEntry(r)
  <2>1. PICK log, one : log = Append(s.log, r) /\ one = Append(D!NoStore.log, r)
    OBVIOUS
  <2>2. D!Write([s EXCEPT !.log = log], {[D!NoStore EXCEPT !.log = one]}, {r}, {})
    BY <1>1, <1>12, <2>1 DEF D!RateEntry
  <2>3. FileInv([s EXCEPT !.log = log], a \cup {r}, x)
    BY ONLY <1>2, <2>1, r \in PageRequests, LogGrows
  <2>4. FileInv([D!NoStore EXCEPT !.log = one], {} \cup {r}, {})
    BY ONLY <2>1, r \in PageRequests, LogGrows, EmptyFile
  <2>5. Fits([D!NoStore EXCEPT !.log = one], s, {r})
    BY <2>4, FitsAnew
  <2> QED
    BY <1>5, <2>2, <2>3, <2>5
<1>13. CASE D!ForwardPlaybook(r) \/ D!Forbid(r) \/ D!SaveBranding(r)
  <2>1. store' = store /\ added' = added /\ removed' = removed /\ wiped' = wiped
    BY <1>13 DEF D!ForwardPlaybook, D!Forbid, D!SaveBranding, D!file
  <2> QED
    BY <1>4, <2>1
<1>14. CASE D!Probe(r)
  <2>1. D!Write(D!Opened(s), {D!Opened(D!NoStore)}, {}, {})
    BY <1>1, <1>14 DEF D!Probe
  <2>2. FileInv(D!Opened(s), a, x) /\ FileInv(D!Opened(D!NoStore), {} \cup {}, {})
    <3>1. {} \cup {} = {}
      OBVIOUS
    <3> QED
      BY <1>2, <3>1, OpenedKeeps, EmptyFile
  <2>3. Fits(D!Opened(D!NoStore), s, {})
    BY <2>2, FitsAnew
  <2> QED
    BY <1>7, <2>1, <2>2, <2>3
<1>15. CASE D!AddManager(r)
  <2>1. PICK m, l : m = Append(D!Managers(s), r) /\ l = Append(<<D!Seed>>, r)
    OBVIOUS
  <2>2. D!Write(D!Managed(s, m), D!Spoilings({m, l}), {r}, {})
    BY <1>1, <1>15, <2>1 DEF D!AddManager
  <2>3. FileInv(D!Managed(s, m), a \cup {r}, x)
    BY <1>2, <2>1, ManagersGrow
  <2>4. m \in Seq(PageRequests \cup {D!Seed}) /\ Fits(D!Managed(s, m), s, {r})
    BY <1>2, <2>1, GrownFits
  <2>5. l \in Seq(PageRequests \cup {D!Seed}) /\ Fits(D!Managed(D!NoStore, l), D!NoStore, {r})
    <3>1. D!Managers(D!NoStore) = <<D!Seed>>
      BY DEF D!Managers, D!NoStore
    <3> QED
      BY <2>1, <3>1, EmptyFile, GrownFits
  <2>6. \A t \in D!Spoilings({m, l}) : Fits(t, s, {r})
    <3>1. PICK lists, e : lists = {m, l} /\ e = {r}
      OBVIOUS
    <3>2. \A n \in lists : /\ n \in Seq(PageRequests \cup {D!Seed})
                           /\ \E u \in {s, D!NoStore} : Fits(D!Managed(u, n), u, e)
      BY <2>4, <2>5, <3>1
    <3>3. \A t \in D!Spoilings(lists) : Fits(t, s, e)
      BY ONLY <1>1, <1>2, <3>1, <3>2, SpoilingsFit
    <3> QED
      BY <3>1, <3>3
  <2> QED
    BY <1>5, <2>2, <2>3, <2>6
<1>16. CASE D!DeleteManager(r)
  <2>1. PICK gone : gone = {D!Change(r).pos}
    OBVIOUS
  <2>2. PICK m, l, d, lists :
          /\ m = D!Kept(D!Managers(s), DOMAIN D!Managers(s) \ gone)
          /\ l = D!Kept(<<D!Seed>>, DOMAIN <<D!Seed>> \ gone)
          /\ d = {D!Managers(s)[i] : i \in DOMAIN D!Managers(s) \cap gone} \ {D!Seed}
          /\ lists = {D!Kept(n, DOMAIN n \ gone) :
                        n \in {n \in {D!Managers(s), <<D!Seed>>} : D!Change(r).pos \in DOMAIN n}}
    OBVIOUS
  <2>3. D!Write(D!Managed(s, m), D!Spoilings(lists), {}, d)
    BY <1>1, <1>16, <2>1, <2>2 DEF D!DeleteManager
  <2>4. FileInv(D!Managed(s, m), a, x \cup d)
    BY <1>2, <2>2, ManagersShrink
  <2>5. m \in Seq(PageRequests \cup {D!Seed}) /\ Fits(D!Managed(s, m), s, {})
    BY <1>2, <2>2, ShrunkFits
  <2>6. l \in Seq(PageRequests \cup {D!Seed}) /\ Fits(D!Managed(D!NoStore, l), D!NoStore, {})
    <3>1. D!Managers(D!NoStore) = <<D!Seed>>
      BY DEF D!Managers, D!NoStore
    <3> QED
      BY <2>2, <3>1, EmptyFile, ShrunkFits
  <2>7. \A t \in D!Spoilings(lists) : Fits(t, s, {})
    <3>1. \A n \in lists : n = m \/ n = l
      BY <2>2
    <3>2. \A n \in lists : /\ n \in Seq(PageRequests \cup {D!Seed})
                           /\ \E u \in {s, D!NoStore} : Fits(D!Managed(u, n), u, {})
      BY <2>5, <2>6, <3>1
    <3>3. {} \subseteq PageRequests /\ {} \cap a = {}
      OBVIOUS
    <3> QED
      BY ONLY <1>1, <1>2, <3>2, <3>3, SpoilingsFit
  <2> QED
    BY <1>6, <2>3, <2>4, <2>7
<1>17. CASE D!ProvisionUser(r)
  <2>1. PICK u, new, t : /\ u = [email |-> D!Email, by |-> r, on |-> TRUE]
                         /\ new = [s EXCEPT !.users = Append(s.users, u)]
                         /\ t = [D!NoStore EXCEPT !.users = Append(D!NoStore.users, u)]
    OBVIOUS
  <2>2. \/ (\A w \in D!ToSet(s.users) : w.email # D!Email) /\ D!Written(new, {r}, {})
        \/ store' = store /\ added' = added /\ removed' = removed /\ wiped' = wiped
        \/ D!Spoilt({t}, {r})
    BY <1>1, <1>17, <2>1 DEF D!ProvisionUser, D!file
  <2>4. FileInv(t, {} \cup {r}, {})
    <3>1. PICK f, k : f = D!NoStore /\ k = {}
      OBVIOUS
    <3>2. f.users = <<>> /\ FileInv(f, k, {}) /\ r \in PageRequests \ k
      BY <3>1, EmptyFile DEF D!NoStore
    <3>3. t = [f EXCEPT !.users = <<[email |-> D!Email, by |-> r, on |-> TRUE]>>]
      <4>1. Append(f.users, u) = <<u>>
        BY <3>2
      <4> QED
        BY <2>1, <3>1, <4>1
    <3>4. FileInv(t, k \cup {r}, {})
      BY <3>2, <3>3, UserEnters
    <3> QED
      BY <3>1, <3>4
  <2>5. Fits(t, s, {r})
    BY <2>4, FitsAnew
  <2>6. CASE (\A w \in D!ToSet(s.users) : w.email # D!Email) /\ D!Written(new, {r}, {})
    <3>1. s.users = <<>>
      BY <1>2, <2>6, Directory
    <3>2. Append(s.users, u) = <<u>>
      BY <3>1
    <3>3. new = [s EXCEPT !.users = <<[email |-> D!Email, by |-> r, on |-> TRUE]>>]
      BY <2>1, <3>2
    <3>4. FileInv(new, a \cup {r}, x)
      BY <1>2, <3>1, <3>3, UserEnters
    <3> QED
      BY <1>5, <2>5, <2>6, <3>4
  <2>7. CASE D!Spoilt({t}, {r})
    BY <1>5, <2>5, <2>7
  <2> QED
    BY <1>4, <2>2, <2>6, <2>7
<1>18. CASE D!FlipUser(r)
  <2>1. PICK same : same = {i \in 1..Len(s.users) : s.users[i].email = D!Email}
    OBVIOUS
  <2>2. CASE same = {}
    <3>1. D!Write(s, {}, {}, {})
      BY <1>1, <1>18, <2>1, <2>2 DEF D!FlipUser
    <3> QED
      BY <1>2, <1>7, <3>1
  <2>3. CASE same # {}
    <3>1. PICK k : k = D!First(same)
      OBVIOUS
    <3>2. k \in 1..Len(s.users)
      BY <1>3, <2>1, <2>3, <3>1, FirstIn
    <3>3. PICK was : was = s.users[k].on
      OBVIOUS
    <3>4. (~was) \in BOOLEAN
      BY Zenon
    <3>5. D!Write([s EXCEPT !.users[k].on = ~was], {}, {}, {})
      BY <1>1, <1>18, <2>1, <2>3, <3>1, <3>3, Zenon DEF D!FlipUser
    <3>6. PICK on \in BOOLEAN : D!Write([s EXCEPT !.users[k].on = on], {}, {}, {})
      BY <3>4, <3>5
    <3>7. FileInv([s EXCEPT !.users[k].on = on], a, x)
      BY <1>2, <3>2, UserTurned
    <3> QED
      BY <1>7, <3>6, <3>7
  <2> QED
    BY <2>2, <2>3
<1> QED
  BY <1>8, <1>9, <1>10, <1>11, <1>12, <1>13, <1>14, <1>15, <1>16, <1>17, <1>18

LEMMA PageInvInit == D!Init => PageInv
<1> SUFFICES ASSUME D!Init PROVE PageInv
  OBVIOUS
<1>1. /\ \A r \in PageRequests : request[r] = D!Idle /\ page[r] = D!NoPage
      /\ request = [r \in PageRequests |-> D!Idle] /\ page = [r \in PageRequests |-> D!NoPage]
      /\ shared = [of |-> D!Nobody, count |-> D!Nobody]
  BY DEF D!Init
<1>2. /\ request \in [PageRequests -> PageAsk] /\ page \in [PageRequests -> PageView]
      /\ shared \in [of : D!Visitors, count : D!Visitors]
  BY <1>1, PageTypes
<1>3. \A r \in PageRequests : ViewTold(page[r]) /\ ~Waits(request[r])
  BY <1>1, PageTypes
<1>4. Globals
  BY <1>2, <1>3 DEF Globals
<1>5. FileInv(store, added, removed \cup wiped)
  BY EmptyFile DEF D!Init
<1> QED
  BY <1>4, <1>5 DEF PageInv, D!Init

\* The process restarts: nobody runs, and the file is as it was or empty.
LEMMA RestartKeeps == ASSUME PageInv, D!Restart PROVE PageInv'
<1>1. /\ request' = [r \in PageRequests |-> IF r \in D!Running THEN D!Done ELSE request[r]]
      /\ shared' = [of |-> D!Nobody, count |-> D!Nobody] /\ page' = page /\ second' = second
  BY DEF D!Restart
<1>2. request \in [PageRequests -> PageAsk] /\ page \in [PageRequests -> PageView] /\ Globals
  BY DEF PageInv, Globals
<1>3. \A r \in PageRequests : /\ request'[r] \in PageAsk /\ ~Waits(request'[r])
                              /\ request[r].at = "done" => request'[r].at = "done"
  BY <1>1, <1>2, WhoRuns, PageTypes
<1>4. request' \in [PageRequests -> PageAsk]
  BY <1>1, <1>3
<1>5. shared' \in [of : D!Visitors, count : D!Visitors]
  BY <1>1, PageTypes
<1>6. Globals'
  BY <1>1, <1>2, <1>3, <1>4, <1>5 DEF Globals
<1>7. added' = added /\ removed' = removed
  BY DEF D!Restart
<1>8. FileInv(store', added', removed' \cup wiped')
  <2>1. PICK s, a, x, t, y : /\ s = store /\ a = added /\ x = removed \cup wiped
                             /\ t = store' /\ y = removed' \cup wiped'
    OBVIOUS
  <2>2. FileInv(s, a, x)
    BY <2>1 DEF PageInv
  <2>3. CASE t = s /\ wiped' = wiped
    BY <1>7, <2>1, <2>2, <2>3
  <2>4. CASE t = D!NoStore /\ wiped' = wiped \cup D!EntriesOf(s)
    <3>1. D!EntriesOf(s) = Names(s) /\ Names(D!NoStore) = {}
      BY <2>2, EntriesAreNames, NothingFits DEF FileInv, FileShape
    <3>2. PICK z, b : z = x \cup ((Names(s) \cup {}) \ Names(t)) /\ b = a \cup {}
      OBVIOUS
    <3>3. y = z /\ a = b
      BY <1>7, <2>1, <2>4, <3>1, <3>2
    <3>4. FileInv(t, b, z)
      <4>1. PICK e : e = {}
        OBVIOUS
      <4>2. e \subseteq PageRequests /\ e \cap a = {} /\ Fits(t, s, e)
        BY <2>4, <4>1, NothingFits
      <4>3. FileInv(t, a \cup e, x \cup ((Names(s) \cup e) \ Names(t)))
        BY <2>2, <4>2, FaultCounted
      <4> QED
        BY <3>2, <4>1, <4>3
    <3> QED
      BY <1>7, <2>1, <3>3, <3>4
  <2> QED
    BY <2>1, <2>3, <2>4 DEF D!Restart
<1>9. \A r \in added' : request'[r].at = "done"
  <2>1. added \subseteq PageRequests
    BY DEF PageInv, FileInv, NamedOnce
  <2> QED
    BY <1>3, <1>7, <2>1 DEF PageInv
<1> QED
  BY <1>1, <1>6, <1>8, <1>9 DEF PageInv

\* What changes of the globals only leaves the file alone.
LEMMA FileAside ==
    ASSUME PageInv, Globals', \A p \in PageRequests : request[p].at = "done" => request'[p].at = "done",
           store' = store, added' = added, removed' = removed, wiped' = wiped, second' = second
    PROVE  PageInv'
<1>1. added \subseteq PageRequests
  BY DEF PageInv, FileInv, NamedOnce
<1> QED
  BY <1>1 DEF PageInv

\* A template is rendered; some fill what they find empty in the file.
LEMMA RenderKeeps == ASSUME PageInv, NEW r \in PageRequests, D!Render(r) PROVE PageInv'
<1>1. PICK q, e : q = request[r] /\ e = q.rest.explicit
  OBVIOUS
<1>2. /\ q.at = "handling" /\ q.rest.method = "get" /\ Waits(request[r])
      /\ page' = [page EXCEPT ![r] = D!Shown(request[r], e)]
      /\ request' = [request EXCEPT ![r] = D!Done]
      /\ shared' = shared /\ second' = second
  BY <1>1 DEF D!Render, Waits
<1>3. e \in BOOLEAN
  <2>1. q.rest \in PageRest
    BY <1>1, <1>2, PageTypes DEF PageInv, Globals
  <2> QED
    BY <1>1, <1>2, <2>1 DEF PageRest
<1>4. PICK v : v = D!Shown(request[r], e)
  OBVIOUS
<1>5. v \in PageView /\ ViewTold(v)
  BY <1>1, <1>2, <1>3, <1>4, ShownTold DEF PageInv
<1>6. added' = added /\ FileInv(store', added', removed' \cup wiped')
  <2>1. PICK s, a, x : s = store /\ a = added /\ x = removed \cup wiped
    OBVIOUS
  <2>2. FileInv(s, a, x)
    BY <2>1 DEF PageInv
  <2>3. ASSUME NEW new, NEW unread, FileInv(new, a, x), \A t \in unread : FileInv(t, {}, {}),
               D!Write(new, unread, {}, {})
        PROVE  added' = added /\ FileInv(store', added', removed' \cup wiped')
    <3>1. CASE D!Written(new, {}, {})
      <4>1. PICK t, b, y : t = store' /\ b = added' /\ y = removed' \cup wiped'
        OBVIOUS
      <4>2. t = new /\ b = a /\ y = x
        BY <2>1, <3>1, <4>1 DEF D!Written
      <4> QED
        BY <2>1, <2>3, <4>1, <4>2
    <3>2. CASE D!Spoilt(unread, {})
      <4>1. PICK none, b : none = {} /\ b = a \cup none
        OBVIOUS
      <4>2. none \subseteq PageRequests /\ none \cap a = {} /\ b = a
        BY <4>1
      <4>3. \A t \in unread : Fits(t, s, none)
        <5> SUFFICES ASSUME NEW t \in unread PROVE Fits(t, s, none)
          OBVIOUS
        <5>1. Names(t) = {} \ {}
          BY <2>3, NamesAre
        <5> QED
          BY <2>3, <5>1 DEF Fits
      <4>4. added' = b /\ FileInv(store', added', removed' \cup wiped')
        BY <2>1, <2>2, <3>2, <4>1, <4>2, <4>3, SpoiltKeeps
      <4> QED
        BY <2>1, <4>2, <4>4
    <3> QED
      BY <2>3, <3>1, <3>2 DEF D!Write
  <2>4. /\ FileInv(D!users_directory(s), a, x) /\ FileInv(D!Opened(s), a, x)
        /\ FileInv(D!users_directory(D!NoStore), {}, {}) /\ FileInv(D!Opened(D!NoStore), {}, {})
    BY <2>2, DirectoryKeeps, OpenedKeeps, EmptyFile
  <2>5. \/ store' = store /\ added' = added /\ removed' = removed /\ wiped' = wiped
        \/ D!Write(D!users_directory(s), {D!users_directory(D!NoStore)}, {}, {})
        \/ D!Write(D!Opened(s), {D!Opened(D!NoStore)}, {}, {})
        \/ D!Write(s, {}, {}, {})
    BY <2>1 DEF D!Render, D!file
  <2>6. CASE store' = store /\ added' = added /\ removed' = removed /\ wiped' = wiped
    BY <2>6 DEF PageInv
  <2>7. CASE D!Write(D!users_directory(s), {D!users_directory(D!NoStore)}, {}, {})
    BY <2>3, <2>4, <2>7
  <2>8. CASE D!Write(D!Opened(s), {D!Opened(D!NoStore)}, {}, {})
    BY <2>3, <2>4, <2>8
  <2>9. CASE D!Write(s, {}, {}, {})
    BY <2>2, <2>3, <2>9
  <2> QED
    BY <2>5, <2>6, <2>7, <2>8, <2>9
<1>7. page' \in {page, [page EXCEPT ![r] = v]} /\ added' \subseteq added \cup {r}
  BY <1>2, <1>4, <1>6
<1> QED
  BY <1>2, <1>5, <1>6, <1>7, HandlerKeeps

\* A form goes to the API, or the user signs in.
LEMMA ForwardKeeps == ASSUME PageInv, NEW r \in PageRequests, D!Forward(r) \/ D!Login(r) PROVE PageInv'
<1>1. /\ request[r].at = "handling" /\ Waits(request[r])
      /\ request' = [request EXCEPT ![r] = D!Done]
      /\ shared' = shared /\ store' = store /\ added' = added /\ removed' = removed /\ wiped' = wiped /\ second' = second
  BY DEF D!Forward, D!Login, D!Reaches, D!file, Waits
<1>2. FileInv(store', added', removed' \cup wiped') /\ added' \subseteq added \cup {r}
  BY <1>1 DEF PageInv
<1>3. PICK v : v = D!Shown(request[r], FALSE)
  OBVIOUS
<1>4. v \in PageView /\ ViewTold(v)
  BY <1>1, <1>3, ShownTold DEF PageInv
<1>5. page' \in {page, [page EXCEPT ![r] = v]}
  BY <1>3 DEF D!Forward, D!Login
<1> QED
  BY <1>1, <1>2, <1>4, <1>5, HandlerKeeps

LEMMA GetKeeps ==
    ASSUME PageInv, NEW r \in PageRequests, NEW who \in D!Visitors, NEW explicit \in BOOLEAN,
           D!Get(r, who, explicit)
    PROVE  PageInv'
<1>1. PICK rest : rest = [method |-> "get", explicit |-> explicit]
  OBVIOUS
<1>2. rest \in PageRest
  BY <1>1 DEF PageRest
<1>3. /\ request[r].at = "new" /\ D!Enter(r, who, rest) /\ page' = page
      /\ store' = store /\ added' = added /\ removed' = removed /\ wiped' = wiped /\ second' = second
  BY <1>1 DEF D!Get, D!file
<1>4. Globals' /\ \A p \in PageRequests : request[p].at = "done" => request'[p].at = "done"
  BY <1>2, <1>3, EnterKeeps DEF PageInv
<1> QED
  BY <1>3, <1>4, FileAside

LEMMA PostKeeps ==
    ASSUME PageInv, NEW r \in PageRequests, NEW from \in PageRequests, page[from].shown,
           NEW change \in D!Changes, D!Post(r, page[from].who, from, change)
    PROVE  PageInv'
<1>1. PICK who, rest : who = page[from].who /\ rest = [method |-> "post", change |-> change]
  OBVIOUS
<1>2. rest \in PageRest
  BY <1>1 DEF PageRest
<1>3. who \in D!Visitors
  <2>1. page[from] \in PageView
    BY DEF PageInv, Globals
  <2> QED
    BY <1>1, <2>1, PageTypes DEF PageView
<1>4. /\ request[r].at = "new" /\ page' = page
      /\ store' = store /\ added' = added /\ removed' = removed /\ wiped' = wiped /\ second' = second
      /\ \/ request' = [request EXCEPT ![r] = D!Done] /\ shared' = shared
         \/ D!Enter(r, who, rest)
  BY <1>1 DEF D!Post, D!file
<1>5. CASE D!Enter(r, who, rest)
  <2>1. Globals' /\ \A p \in PageRequests : request[p].at = "done" => request'[p].at = "done"
    BY <1>2, <1>3, <1>4, <1>5, EnterKeeps DEF PageInv
  <2> QED
    BY <1>4, <2>1, FileAside
<1>6. CASE request' = [request EXCEPT ![r] = D!Done] /\ shared' = shared
  <2>1. D!NoPage \in PageView /\ ViewTold(D!NoPage) /\ page' \in {page, [page EXCEPT ![r] = D!NoPage]}
    BY <1>4, PageTypes
  <2>2. FileInv(store', added', removed' \cup wiped') /\ added' \subseteq added \cup {r}
    BY <1>4 DEF PageInv
  <2> QED
    BY <1>4, <1>6, <2>1, <2>2, HandlerKeeps
<1> QED
  BY <1>4, <1>5, <1>6

LEMMA PageInvStep == PageInv /\ [D!Next]_(D!vars) => PageInv'
<1> SUFFICES ASSUME PageInv, [D!Next]_(D!vars) PROVE PageInv'
  OBVIOUS
<1>1. ASSUME NEW r \in PageRequests, NEW who \in D!Visitors, NEW explicit \in BOOLEAN,
             D!Get(r, who, explicit)
      PROVE  PageInv'
  BY <1>1, GetKeeps
<1>2. ASSUME NEW r \in PageRequests, NEW from \in {p \in PageRequests : page[p].shown},
             NEW change \in D!Offered, D!Post(r, page[from].who, from, change)
      PROVE  PageInv'
  <2>1. from \in PageRequests /\ page[from].shown /\ change \in D!Changes
    BY DEF D!Offered
  <2> QED
    BY <1>2, <2>1, PostKeeps
<1>3. ASSUME NEW r \in PageRequests, D!Count(r) PROVE PageInv'
  <2>1. Globals' /\ \A p \in PageRequests : request[p].at = "done" => request'[p].at = "done"
    BY <1>3, CountKeeps DEF PageInv
  <2>2. store' = store /\ added' = added /\ removed' = removed /\ wiped' = wiped /\ second' = second
    BY <1>3 DEF D!Count, D!file
  <2> QED
    BY <2>1, <2>2, FileAside
<1>4. ASSUME NEW r \in PageRequests, D!Render(r) PROVE PageInv'
  BY <1>4, RenderKeeps
<1>5. ASSUME NEW r \in PageRequests, D!Forward(r) \/ D!Login(r) PROVE PageInv'
  BY <1>5, ForwardKeeps
<1>6. ASSUME NEW r \in PageRequests,
             \/ D!CreateEntry(r) \/ D!ToggleEntry(r) \/ D!DeleteEntry(r) \/ D!UpdateEntry(r)
             \/ D!TestEntry(r) \/ D!RateEntry(r) \/ D!ForwardPlaybook(r) \/ D!Probe(r)
             \/ D!ProvisionUser(r) \/ D!FlipUser(r) \/ D!AddManager(r) \/ D!DeleteManager(r)
             \/ D!Forbid(r) \/ D!SaveBranding(r)
      PROVE  PageInv'
  <2>1. request[r].at = "handling" /\ D!Answer(r)
    BY <1>6 DEF D!CreateEntry, D!ToggleEntry, D!DeleteEntry, D!UpdateEntry, D!TestEntry, D!RateEntry,
                D!ForwardPlaybook, D!Probe, D!ProvisionUser, D!FlipUser, D!AddManager, D!DeleteManager,
                D!Forbid, D!SaveBranding, D!Saves, D!Reaches
  <2>2. added' \subseteq added \cup {r} /\ FileInv(store', added', removed' \cup wiped')
    BY <1>6, <2>1, FileHandled
  <2> QED
    BY <2>1, <2>2, SavesKeeps
<1>7. CASE D!Restart
  BY <1>7, RestartKeeps
<1>8. CASE D!Tick
  <2>1. /\ request' = request /\ page' = page /\ shared' = shared
        /\ store' = store /\ added' = added /\ removed' = removed /\ wiped' = wiped /\ second' = second + 1
    BY <1>8 DEF D!Tick, D!file
  <2> QED
    BY <2>1 DEF PageInv, Globals
<1>9. CASE UNCHANGED D!vars
  <2>1. /\ request' = request /\ page' = page /\ shared' = shared
        /\ store' = store /\ added' = added /\ removed' = removed /\ wiped' = wiped /\ second' = second
    BY <1>9 DEF D!vars, D!file
  <2> QED
    BY <2>1 DEF PageInv, Globals
<1> QED
  BY <1>1, <1>2, <1>3, <1>4, <1>5, <1>6, <1>7, <1>8, <1>9 DEF D!Next

THEOREM PageInvHolds == D!Spec => []PageInv
BY PageInvInit, PageInvStep, PTL DEF D!Spec

\* A page belongs to one user, a request that nothing overlapped sees its own, and the file of
\* the dashboard holds each accepted entry that no accepted request deleted and no failed read or
\* write and no crash has lost, and each email once, for any users, requests and number of faults
\* (main.py:231-286, 111-228, 1020-1060, 1549-1637).
THEOREM PagesAndFileStayHeld == D!Spec => []PagesAndFileHold
<1>1. PageInv => D!PagesAndFileHold
  <2> SUFFICES ASSUME PageInv PROVE D!PagesAndFileHold
    OBVIOUS
  <2>1. \A r \in PageRequests : ViewTold(page[r])
    BY DEF PageInv, Globals
  <2>2. FileInv(store, added, removed \cup wiped) /\ Len(store.users) <= 1 /\ Len(store.users) \in Nat
    BY FileTypes DEF PageInv, FileInv, FileShape
  <2>3. D!EntriesOf(store) = added \ (removed \cup wiped)
    <3>1. store \in PageStore /\ Names(store) = added \ (removed \cup wiped)
      BY <2>2, NamesAre DEF FileInv, FileShape
    <3> QED
      BY <3>1, EntriesAreNames
  <2>4. \A i, j \in 1..Len(store.users) : i = j
    BY <2>2
  <2> QED
    BY <2>1, <2>3, <2>4 DEF D!PagesAndFileHold, ViewTold
<1> QED
  BY <1>1, PageInvHolds, PTL DEF PagesAndFileHold

-----------------------------------------------------------------------------
(***************************************************************************)
(* The path of a request.  For any number of concurrent requests of any    *)
(* shape, any limit and any restarts, the answer of a request, its session *)
(* and its audit row agree.                                                *)
(***************************************************************************)
Stages == {"new", "limit", "router", "flushed", "returning", "done"}

(* The variables that tell of each request, and their types. *)
Typed ==
  /\ shape \in [Requests -> Shapes \cup {Empty}] /\ at \in [Requests -> Stages]
  /\ answer \in [Requests -> Codes]
  /\ tasks \in [Requests -> Codes] /\ audited \in [Requests -> Codes]

(* What holds of a request on its way: nothing is audited before the answer is on its way *)
(* out, and only a handler that commits by itself has committed before the session does.  *)
OnItsWay(q) ==
  /\ at[q] # "done" => tasks[q] = "none" /\ audited[q] = "none"
  /\ at[q] = "new" => q \notin committed
  /\ at[q] \in {"limit", "router", "flushed"} => q \notin committed \/ shape[q].commits
  /\ at[q] = "limit" => q \notin committed
  /\ at[q] = "returning" =>
       \/ answer[q] = "ok" /\ q \in committed
       \/ answer[q] = "refused" /\ (q \notin committed \/ shape[q].commits)

(* What holds of one that has left: AnswersTellTruth, and a row that is due tells the answer. *)
HasLeft(q) ==
  /\ at[q] = "done" /\ answer[q] = "ok" =>
       /\ q \in committed
       /\ Tenanted(shape[q]) => q \in lost \/ tasks[q] = "ok" \/ audited[q] = "ok"
  /\ at[q] = "done" /\ answer[q] \in {"refused", "error"} /\ ~UserSet(shape[q]) =>
       q \notin committed \/ shape[q].commits
  /\ tasks[q] # "none" => tasks[q] = answer[q] /\ audited[q] = "none"
  /\ audited[q] # "none" => audited[q] = answer[q]

Honest == Typed /\ \A q \in Requests : OnItsWay(q) /\ HasLeft(q)

(* A step of one request leaves what is said of the others. *)
LEMMA OthersStay ==
  ASSUME Honest, NEW q \in Requests, NEW p \in Requests, p # q,
         shape'[p] = shape[p], at'[p] = at[p], answer'[p] = answer[p],
         tasks'[p] = tasks[p], audited'[p] = audited[p],
         p \in committed' <=> p \in committed, p \in lost' <=> p \in lost
  PROVE  OnItsWay(p)' /\ HasLeft(p)'
BY DEF Honest, OnItsWay, HasLeft

LEMMA GoMoves ==
  ASSUME Typed, NEW q \in Requests, NEW stage \in Stages, NEW code \in Codes, Go(q, stage, code)
  PROVE  /\ at' \in [Requests -> Stages] /\ answer' \in [Requests -> Codes]
         /\ at'[q] = stage /\ answer'[q] = code
         /\ \A p \in Requests : p # q => at'[p] = at[p] /\ answer'[p] = answer[p]
BY DEF Typed, Go

LEMMA HonestInit == Init => Honest
BY DEF Init, Honest, Typed, OnItsWay, HasLeft, Stages, Codes

LEMMA HonestNext ==
  ASSUME Honest, [Next]_vars
  PROVE  Honest'
<1>1. Typed /\ \A q \in Requests : OnItsWay(q) /\ HasLeft(q)
  BY DEF Honest
<1>2. \A stage \in {"new", "limit", "router", "flushed", "returning", "done"} : stage \in Stages
  BY DEF Stages
<1>3. \A code \in {"none", "ok", "refused", "error"} : code \in Codes
  BY DEF Codes
<1>4. ASSUME NEW q \in Requests, NEW s \in Shapes, Arrive(q, s) PROVE Honest'
  <2>1. /\ at[q] = "new" /\ UNCHANGED <<committed, tasks, audited, lost>>
        /\ shape' \in [Requests -> Shapes \cup {Empty}]
        /\ shape'[q] = s /\ \A p \in Requests : p # q => shape'[p] = shape[p]
    BY <1>1, <1>4 DEF Arrive, Typed
  <2>2. \/ Go(q, "done", "error") \/ Go(q, "done", "refused") \/ Go(q, "limit", "none")
    BY <1>4 DEF Arrive
  <2>3. /\ at' \in [Requests -> Stages] /\ answer' \in [Requests -> Codes]
        /\ (at'[q] = "done" /\ answer'[q] # "ok") \/ at'[q] = "limit"
        /\ \A p \in Requests : p # q => at'[p] = at[p] /\ answer'[p] = answer[p]
    BY <1>1, <1>2, <1>3, <2>2, GoMoves
  <2>4. OnItsWay(q)' /\ HasLeft(q)'
    BY <1>1, <2>1, <2>3 DEF OnItsWay, HasLeft
  <2>5. \A p \in Requests : p # q => OnItsWay(p)' /\ HasLeft(p)'
    BY <2>1, <2>3, OthersStay
  <2> QED
    BY <1>1, <2>1, <2>3, <2>4, <2>5 DEF Honest, Typed
<1>5. ASSUME NEW q \in Requests, RateLimit(q) PROVE Honest'
  <2>1. /\ at[q] = "limit" /\ UNCHANGED <<shape, committed, tasks, audited, lost>>
        /\ Go(q, "done", "error") \/ Go(q, "router", "none")
    BY <1>5 DEF RateLimit
  <2>2. /\ at' \in [Requests -> Stages] /\ answer' \in [Requests -> Codes]
        /\ (at'[q] = "done" /\ answer'[q] = "error") \/ at'[q] = "router"
        /\ \A p \in Requests : p # q => at'[p] = at[p] /\ answer'[p] = answer[p]
    BY <1>1, <1>2, <1>3, <2>1, GoMoves
  <2>3. OnItsWay(q)' /\ HasLeft(q)'
    BY <1>1, <2>1, <2>2 DEF OnItsWay, HasLeft
  <2>4. \A p \in Requests : p # q => OnItsWay(p)' /\ HasLeft(p)'
    BY <2>1, <2>2, OthersStay
  <2> QED
    BY <1>1, <2>1, <2>2, <2>3, <2>4 DEF Honest, Typed
<1>6. ASSUME NEW q \in Requests, Refuse(q) \/ Handle(q) PROVE Honest'
  <2>1. /\ at[q] = "router" /\ UNCHANGED <<shape, committed, tasks, audited, lost>>
        /\ \/ Go(q, "flushed", "none") \/ Go(q, "returning", "refused")
           \/ Go(q, "done", "refused") \/ Go(q, "done", "error")
    BY <1>6 DEF Refuse, Handle
  <2>2. /\ at' \in [Requests -> Stages] /\ answer' \in [Requests -> Codes]
        /\ \/ at'[q] = "flushed" \/ (at'[q] = "returning" /\ answer'[q] = "refused")
           \/ at'[q] = "done" /\ answer'[q] \in {"refused", "error"}
        /\ \A p \in Requests : p # q => at'[p] = at[p] /\ answer'[p] = answer[p]
    BY <1>1, <1>2, <1>3, <2>1, GoMoves
  <2>3. OnItsWay(q)' /\ HasLeft(q)'
    BY <1>1, <2>1, <2>2 DEF OnItsWay, HasLeft
  <2>4. \A p \in Requests : p # q => OnItsWay(p)' /\ HasLeft(p)'
    BY <2>1, <2>2, OthersStay
  <2> QED
    BY <1>1, <2>1, <2>2, <2>3, <2>4 DEF Honest, Typed
<1>7. ASSUME NEW q \in Requests, CommitEarly(q) PROVE Honest'
  <2>1. /\ at[q] = "router" /\ shape[q].commits /\ committed' = committed \cup {q}
        /\ UNCHANGED <<shape, at, answer, tasks, audited, lost>>
    BY <1>7 DEF CommitEarly
  <2>2. OnItsWay(q)' /\ HasLeft(q)'
    BY <1>1, <2>1 DEF OnItsWay, HasLeft
  <2>3. \A p \in Requests : p # q => OnItsWay(p)' /\ HasLeft(p)'
    BY <2>1, OthersStay
  <2> QED
    BY <1>1, <2>1, <2>2, <2>3 DEF Honest, Typed
<1>8. ASSUME NEW q \in Requests, Commit(q) PROVE Honest'
  <2>1. /\ at[q] = "flushed" /\ committed' = committed \cup {q} /\ Go(q, "returning", "ok")
        /\ UNCHANGED <<shape, tasks, audited, lost>>
    BY <1>8 DEF Commit
  <2>2. /\ at' \in [Requests -> Stages] /\ answer' \in [Requests -> Codes]
        /\ at'[q] = "returning" /\ answer'[q] = "ok"
        /\ \A p \in Requests : p # q => at'[p] = at[p] /\ answer'[p] = answer[p]
    BY <1>1, <1>2, <1>3, <2>1, GoMoves
  <2>3. OnItsWay(q)' /\ HasLeft(q)'
    BY <1>1, <2>1, <2>2 DEF OnItsWay, HasLeft
  <2>4. \A p \in Requests : p # q => OnItsWay(p)' /\ HasLeft(p)'
    BY <2>1, <2>2, OthersStay
  <2> QED
    BY <1>1, <2>1, <2>2, <2>3, <2>4 DEF Honest, Typed
<1>9. ASSUME NEW q \in Requests, CommitFails(q) PROVE Honest'
  <2>1. /\ at[q] = "flushed" /\ Go(q, "done", "error")
        /\ UNCHANGED <<shape, committed, tasks, audited, lost>>
    BY <1>9 DEF CommitFails
  <2>2. /\ at' \in [Requests -> Stages] /\ answer' \in [Requests -> Codes]
        /\ at'[q] = "done" /\ answer'[q] = "error"
        /\ \A p \in Requests : p # q => at'[p] = at[p] /\ answer'[p] = answer[p]
    BY <1>1, <1>2, <1>3, <2>1, GoMoves
  <2>3. OnItsWay(q)' /\ HasLeft(q)'
    BY <1>1, <2>1, <2>2 DEF OnItsWay, HasLeft
  <2>4. \A p \in Requests : p # q => OnItsWay(p)' /\ HasLeft(p)'
    BY <2>1, <2>2, OthersStay
  <2> QED
    BY <1>1, <2>1, <2>2, <2>3, <2>4 DEF Honest, Typed
<1>10. ASSUME NEW q \in Requests, Audit(q) PROVE Honest'
  <2>1. /\ at[q] = "returning" /\ UNCHANGED <<shape, committed, audited, lost>>
        /\ answer[q] \in Codes
    BY <1>1, <1>10 DEF Audit, Typed
  <2>2. CASE UserSet(shape[q])
    <3>1. Go(q, "done", "error") /\ UNCHANGED tasks
      BY <1>10, <2>2 DEF Audit
    <3>2. /\ at' \in [Requests -> Stages] /\ answer' \in [Requests -> Codes]
          /\ at'[q] = "done" /\ answer'[q] = "error"
          /\ \A p \in Requests : p # q => at'[p] = at[p] /\ answer'[p] = answer[p]
      BY <1>1, <1>2, <1>3, <3>1, GoMoves
    <3>3. UserSet(shape'[q])
      BY <2>1, <2>2
    <3>4. OnItsWay(q)' /\ HasLeft(q)'
      BY <1>1, <2>1, <3>1, <3>2, <3>3 DEF OnItsWay, HasLeft
    <3>5. \A p \in Requests : p # q => OnItsWay(p)' /\ HasLeft(p)'
      BY <2>1, <3>1, <3>2, OthersStay
    <3> QED
      BY <1>1, <2>1, <3>1, <3>2, <3>4, <3>5 DEF Honest, Typed
  <2>3. CASE ~UserSet(shape[q])
    <3>1. Go(q, "done", answer[q]) /\ tasks' = [tasks EXCEPT ![q] = answer[q]]
      BY <1>10, <2>3 DEF Audit
    <3>2. /\ at' \in [Requests -> Stages] /\ answer' \in [Requests -> Codes]
          /\ at'[q] = "done" /\ answer'[q] = answer[q]
          /\ \A p \in Requests : p # q => at'[p] = at[p] /\ answer'[p] = answer[p]
      BY <1>1, <1>2, <2>1, <3>1, GoMoves
    <3>3. /\ tasks' \in [Requests -> Codes] /\ tasks'[q] = answer[q]
          /\ \A p \in Requests : p # q => tasks'[p] = tasks[p]
      BY <1>1, <2>1, <3>1 DEF Typed
    <3>4. OnItsWay(q)' /\ HasLeft(q)'
      BY <1>1, <2>1, <3>2, <3>3 DEF OnItsWay, HasLeft
    <3>5. \A p \in Requests : p # q => OnItsWay(p)' /\ HasLeft(p)'
      BY <2>1, <3>2, <3>3, OthersStay
    <3> QED
      BY <1>1, <2>1, <3>2, <3>3, <3>4, <3>5 DEF Honest, Typed
  <2> QED
    BY <2>2, <2>3
<1>11. ASSUME NEW q \in Requests, WriteAudit(q) PROVE Honest'
  <2>1. /\ tasks[q] # "none" /\ tasks' = [tasks EXCEPT ![q] = "none"]
        /\ UNCHANGED <<shape, at, answer, committed>> /\ tasks[q] \in Codes
    BY <1>1, <1>11 DEF WriteAudit, Typed
  <2>2. /\ tasks' \in [Requests -> Codes] /\ tasks'[q] = "none"
        /\ \A p \in Requests : p # q => tasks'[p] = tasks[p]
    BY <1>1, <1>3, <2>1 DEF Typed
  <2>3. /\ at[q] = "done" /\ tasks[q] = answer[q] /\ audited[q] = "none"
    BY <1>1, <2>1 DEF OnItsWay, HasLeft
  <2>4. \/ /\ Tenanted(shape[q]) /\ audited' = [audited EXCEPT ![q] = tasks[q]] /\ UNCHANGED lost
        \/ ~Tenanted(shape[q]) /\ audited' = audited /\ UNCHANGED lost
        \/ UNCHANGED audited /\ lost' = lost \cup {q}
    BY <1>11 DEF WriteAudit
  <2>5. /\ audited' \in [Requests -> Codes]
        /\ \/ Tenanted(shape[q]) /\ audited'[q] = answer[q] /\ UNCHANGED lost
           \/ ~Tenanted(shape[q]) /\ audited'[q] = audited[q] /\ UNCHANGED lost
           \/ audited'[q] = audited[q] /\ lost' = lost \cup {q}
        /\ \A p \in Requests : p # q => audited'[p] = audited[p] /\ (p \in lost' <=> p \in lost)
    BY <1>1, <2>1, <2>3, <2>4 DEF Typed
  <2>6. Tenanted(shape'[q]) <=> Tenanted(shape[q])
    BY <2>1
  <2>7. OnItsWay(q)' /\ HasLeft(q)'
    BY <1>1, <2>1, <2>2, <2>3, <2>5, <2>6 DEF OnItsWay, HasLeft
  <2>8. \A p \in Requests : p # q => OnItsWay(p)' /\ HasLeft(p)'
    BY <2>1, <2>2, <2>5, OthersStay
  <2> QED
    BY <1>1, <2>1, <2>2, <2>5, <2>7, <2>8 DEF Honest, Typed
<1>12. CASE Restart
  <2>1. /\ UNCHANGED <<shape, committed, audited>>
        /\ at' = [q \in Requests |-> IF at[q] = "new" THEN "new" ELSE "done"]
        /\ answer' = [q \in Requests |-> IF at[q] = "done" THEN answer[q] ELSE "none"]
        /\ tasks' = [q \in Requests |-> "none"]
        /\ lost' = lost \cup {q \in Requests : tasks[q] # "none" \/ at[q] = "returning"}
    BY <1>12 DEF Restart
  <2>2. Typed'
    BY <1>1, <2>1 DEF Typed, Stages, Codes
  <2>3. ASSUME NEW q \in Requests PROVE OnItsWay(q)' /\ HasLeft(q)'
    <3>1. /\ at'[q] = IF at[q] = "new" THEN "new" ELSE "done"
          /\ answer'[q] = IF at[q] = "done" THEN answer[q] ELSE "none"
          /\ tasks'[q] = "none" /\ (q \in lost' <=> q \in lost \/ tasks[q] # "none" \/ at[q] = "returning")
      BY <2>1
    <3>2. OnItsWay(q)'
      BY <1>1, <2>1, <3>1 DEF OnItsWay
    <3>3. HasLeft(q)'
      BY <1>1, <2>1, <3>1 DEF OnItsWay, HasLeft
    <3> QED
      BY <3>2, <3>3
  <2> QED
    BY <2>2, <2>3 DEF Honest
<1>13. CASE Tick \/ UNCHANGED vars
  BY <1>1, <1>13 DEF Tick, vars, Honest, Typed, OnItsWay, HasLeft
<1> QED
  BY <1>4, <1>5, <1>6, <1>7, <1>8, <1>9, <1>10, <1>11, <1>12, <1>13 DEF Next

(* Answer, session and audit agree (db.py:21-31, audit.py:88-133, dashboard_access.py:36-47): *)
(* whatever requests are on their way together and wherever a process restarts, an answer of  *)
(* success stands for a commit and, with a tenant, for an audit row or a fault that took it.  *)
THEOREM AnswersAreHonest == Spec => []AnswersTellTruth
<1>1. Honest => AnswersTellTruth
  BY DEF Honest, HasLeft, AnswersTellTruth
<1> QED
  BY <1>1, HonestInit, HonestNext, PTL DEF Spec
=============================================================================

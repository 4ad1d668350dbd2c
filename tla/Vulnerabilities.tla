-------------------------- MODULE Vulnerabilities --------------------------
(***************************************************************************)
(* The vulnerability table between its ingesters                           *)
(* (services/worker/app/vuln_ingester.py), which write what the indexer    *)
(* reports, and its enrichers (vulnerability_worker.py), which add the     *)
(* EPSS score, the KEV flag and the risk to open rows in batches, one      *)
(* commit each.  Nothing keeps the key (CVE, package) unique but the       *)
(* SELECT of a pass.  The ORM writes the columns that changed.             *)
(***************************************************************************)
EXTENDS Naturals, Sequences, FiniteSets

CONSTANTS Vulns,        \* keys: CVE and package
          Scores,       \* CVSS scores
          Ingesters,    \* ingesters, one per worker process
          Enrichers,    \* enrichers, one per worker process
          MaxDocs,      \* bound on the documents of a pass
          MaxPasses,    \* bound on ingestion passes
          MaxOutages    \* bound on outages of the feeds and on cycles broken off

Null == 0               \* no risk yet

VulnerabilityAssumption ==
  MaxDocs \in Nat /\ MaxPasses \in Nat /\ MaxOutages \in Nat /\ Null \notin Scores
  /\ IsFiniteSet(Ingesters) /\ IsFiniteSet(Vulns)

VARIABLES rows,         \* committed rows of each key
          pass,         \* what each ingester is storing
          passes,       \* passes so far
          cycle,        \* the rows each enricher has read and still has to enrich
          up,           \* whether the EPSS and KEV feeds answer
          outages       \* outages and cycles broken off so far

vars == <<rows, pass, passes, cycle, up, outages>>

Places == 1..Cardinality(Ingesters)     \* of the rows of a key
Row == [cvss : Scores, told : Scores, scored : BOOLEAN, flagged : BOOLEAN,
        riskOf : Scores \cup {Null}, past : SUBSET Scores]
Table == [Vulns -> Seq(Row)]
NoPass == [on |-> FALSE, docs |-> <<>>, loaded |-> {}, updates |-> {}, inserts |-> {}]
NoCycle == [on |-> FALSE, fresh |-> TRUE, todo |-> <<>>]

TypeOK ==
  /\ rows \in Table
  /\ \A i \in Ingesters : pass[i].on \in BOOLEAN /\ \A d \in pass[i].updates : d.cvss \in Scores
  /\ passes \in 0..MaxPasses
  /\ \A e \in Enrichers : cycle[e].on \in BOOLEAN /\ cycle[e].todo \in Seq(Vulns \X Places \X Scores)
  /\ up \in BOOLEAN /\ outages \in 0..MaxOutages

Init ==
  /\ rows = [v \in Vulns |-> <<>>]
  /\ pass = [i \in Ingesters |-> NoPass]
  /\ passes = 0
  /\ cycle = [e \in Enrichers |-> NoCycle]
  /\ up = TRUE /\ outages = 0

-----------------------------------------------------------------------------
(* backfill or poll: the indexer answers with documents, or with none on an error. *)
StartPass(i, docs) ==
  /\ ~pass[i].on /\ passes < MaxPasses
  /\ passes' = passes + 1
  /\ pass' = [pass EXCEPT ![i] = [NoPass EXCEPT !.on = TRUE, !.docs = docs]]
  /\ UNCHANGED <<rows, cycle, up, outages>>

Of(entries, v) == {d \in entries : d.vuln = v}

(* The SELECT flushes what the session has written: it sees its own insert. *)
RowsSeen(i, v) == Len(rows[v]) + Cardinality(Of(pass[i].inserts, v))

(* The score in the session's object, which a later SELECT of the pass does not refresh. *)
Held(i, v) ==
  IF Of(pass[i].loaded, v) # {} THEN Of(pass[i].loaded, v)
  ELSE {[vuln |-> v, cvss |-> rows[v][n].cvss] : n \in 1..Len(rows[v])}

(* One document of _store: the SELECT finds no row, or one.  A key that is listed again, *)
(* by another agent, finds what the pass has made of the first.                          *)
Look(i) ==
  /\ pass[i].on /\ pass[i].docs # <<>>
  /\ LET v == Head(pass[i].docs)[1]
         entry == [vuln |-> v, cvss |-> Head(pass[i].docs)[2]]
         new == RowsSeen(i, v) = 0 \/ Of(pass[i].inserts, v) # {}
     IN  /\ RowsSeen(i, v) <= 1
         /\ pass' = [pass EXCEPT ![i].docs = Tail(@),
              ![i].loaded = (@ \ Of(@, v)) \cup {entry},
              ![i].inserts = IF new THEN (@ \ Of(@, v)) \cup {entry} ELSE @,
              ![i].updates = IF ~new /\ entry \notin Held(i, v) THEN (@ \ Of(@, v)) \cup {entry} ELSE @]
  /\ UNCHANGED <<rows, passes, cycle, up, outages>>

(* Two rows: scalar_one_or_none raises, start() ends, and main starts it again. *)
LookRaises(i) ==
  /\ pass[i].on /\ pass[i].docs # <<>> /\ RowsSeen(i, Head(pass[i].docs)[1]) > 1
  /\ pass' = [pass EXCEPT ![i] = NoPass]
  /\ UNCHANGED <<rows, passes, cycle, up, outages>>

Inserted(c) == [cvss |-> c, told |-> c, scored |-> FALSE, flagged |-> FALSE,
                riskOf |-> Null, past |-> {c}]

(* A pass keeps the risk computed from an earlier score. *)
Retold(row, c) == [row EXCEPT !.cvss = c, !.told = c, !.past = @ \cup {c}]

StorePass(i) ==
  /\ pass[i].on /\ pass[i].docs = <<>>
  /\ rows' = [v \in Vulns |->
       LET new == Of(pass[i].inserts, v)
           upd == Of(pass[i].updates, v)
       IN  IF new # {} THEN Append(rows[v], Inserted((CHOOSE d \in new : TRUE).cvss))
           ELSE IF upd # {} THEN [rows[v] EXCEPT ![1] = Retold(@, (CHOOSE d \in upd : TRUE).cvss)]
           ELSE rows[v]]
  /\ pass' = [pass EXCEPT ![i] = NoPass]
  /\ UNCHANGED <<passes, cycle, up, outages>>

(* A failed statement, a failed commit or a crash. *)
FailPass(i) ==
  /\ pass[i].on
  /\ pass' = [pass EXCEPT ![i] = NoPass]
  /\ UNCHANGED <<rows, passes, cycle, up, outages>>

-----------------------------------------------------------------------------
Unenriched == {r \in Vulns \X Places :
                 r[2] <= Len(rows[r[1]]) /\ ~(rows[r[1]][r[2]].scored /\ rows[r[1]][r[2]].flagged)}

(* enrich: one read of the rows for the whole cycle, in any order; a batch is one row. *)
StartCycle(e) ==
  /\ ~cycle[e].on /\ Unenriched # {} /\ up
  /\ \E order \in [1..Cardinality(Unenriched) -> Unenriched] :
       /\ \A i, j \in DOMAIN order : order[i] = order[j] => i = j
       /\ cycle' = [cycle EXCEPT ![e] = [on |-> TRUE, fresh |-> TRUE,
            todo |-> [i \in DOMAIN order |->
                        <<order[i][1], order[i][2], rows[order[i][1]][order[i][2]].cvss>>]]]
  /\ UNCHANGED <<rows, pass, passes, up, outages>>

(* Defect form: the row that was read is written back whole. *)
EnrichedWhole(row, cvss) ==
  [row EXCEPT !.cvss = cvss, !.scored = TRUE, !.flagged = TRUE, !.riskOf = cvss]
(* compute_risk_score from the score that was read; a CVE that EPSS does not know *)
(* gets the score 0 and counts as enriched.                                       *)
Enriched(row, cvss) == [row EXCEPT !.scored = TRUE, !.flagged = TRUE, !.riskOf = cvss]

EnrichBatch(e) ==
  /\ cycle[e].on /\ cycle[e].todo # <<>> /\ up
  /\ LET r == Head(cycle[e].todo)
     IN  rows' = [rows EXCEPT ![r[1]][r[2]] = Enriched(@, r[3])]
  /\ cycle' = [cycle EXCEPT ![e].todo = Tail(@), ![e].fresh = FALSE]
  /\ UNCHANGED <<pass, passes, up, outages>>

(* EPSS does not answer.  The rollback of the transaction the SELECT began expires the *)
(* rows, and naming them in the dead letter raises: the cycle ends.  After a commit no *)
(* transaction is open, so only the batch is given up.                                 *)
BatchFails(e) ==
  /\ cycle[e].on /\ cycle[e].todo # <<>> /\ ~up
  /\ cycle' = [cycle EXCEPT ![e] = IF cycle[e].fresh THEN NoCycle ELSE [cycle[e] EXCEPT !.todo = Tail(@)]]
  /\ UNCHANGED <<rows, pass, passes, up, outages>>

EndCycle(e) ==
  /\ cycle[e].on /\ cycle[e].todo = <<>>
  /\ cycle' = [cycle EXCEPT ![e] = NoCycle]
  /\ UNCHANGED <<rows, pass, passes, up, outages>>

(* A failed commit, whose rollback expires the rows, or a crash: the batches left are not *)
(* tried until the next cycle.                                                            *)
BreakCycle(e) ==
  /\ cycle[e].on /\ cycle[e].todo # <<>> /\ outages < MaxOutages
  /\ cycle' = [cycle EXCEPT ![e] = NoCycle] /\ outages' = outages + 1
  /\ UNCHANGED <<rows, pass, passes, up>>

Outage ==
  /\ up /\ outages < MaxOutages
  /\ up' = FALSE /\ outages' = outages + 1
  /\ UNCHANGED <<rows, pass, passes, cycle>>

Recover == ~up /\ up' = TRUE /\ UNCHANGED <<rows, pass, passes, cycle, outages>>

Docs == UNION {[1..n -> Vulns \X Scores] : n \in 0..MaxDocs}

Enrich(e) == StartCycle(e) \/ EnrichBatch(e) \/ BatchFails(e) \/ EndCycle(e)

Next ==
  \/ \E i \in Ingesters :
       (\E docs \in Docs : StartPass(i, docs)) \/ Look(i) \/ LookRaises(i) \/ StorePass(i) \/ FailPass(i)
  \/ \E e \in Enrichers :
       StartCycle(e) \/ EnrichBatch(e) \/ BatchFails(e) \/ EndCycle(e) \/ BreakCycle(e)
  \/ Outage \/ Recover

Spec == Init /\ [][Next]_vars /\ \A e \in Enrichers : WF_vars(Enrich(e))

-----------------------------------------------------------------------------
(* Enrichment and detection share the rows without undoing each other: the CVSS score *)
(* of a row is what the last committed pass wrote, its EPSS score, KEV flag and risk  *)
(* come together, the risk from a score the row has had, and a key has at most as     *)
(* many rows as ingesters that looked for it at the same time                         *)
(* (vuln_ingester.py:156-184, vulnerability_worker.py:65-98).                         *)
RiskIsTraceable ==
  \A v \in Vulns :
    /\ Len(rows[v]) <= Cardinality(Ingesters)
    /\ \A n \in 1..Len(rows[v]) :
         LET r == rows[v][n] IN
         /\ r.cvss = r.told
         /\ r.scored = r.flagged /\ r.scored = (r.riskOf # Null)
         /\ r.riskOf \in r.past \cup {Null}

(* Once the feeds answer for good, every row gets its risk. *)
EveryRowEnriched == <>[]up => <>[](Unenriched = {})
=============================================================================

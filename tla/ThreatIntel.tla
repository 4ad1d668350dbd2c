---------------------------- MODULE ThreatIntel ----------------------------
(***************************************************************************)
(* The threat intelligence worker (services/worker/app/                    *)
(* threat_intel_worker.py): alerts pushed on ti_enrich_queue are looked up *)
(* at every provider, through a Redis cache of the best answer; what is    *)
(* found is upserted into threat_intel_iocs in a session of its own and    *)
(* matched to the alert.  A second loop upserts whole feeds.               *)
(*                                                                         *)
(* An alert carries the indicators IndicatorsOf; scores and tags are left  *)
(* out.  Cached entries expire at any time.                                *)
(***************************************************************************)
EXTENDS Naturals, Sequences

CONSTANTS Alerts, Indicators,
          IndicatorsOf,   \* the indicators among an alert's fields
          Sources,        \* those of the three services that ever find anything
          Feeds,          \* the sources with a polled feed
          Enrichers,      \* enrichment loops, one per worker process
          MaxPushes,      \* bound on the pushes of one alert
          MaxFaults       \* bound on provider errors, database or Redis errors, crashes

IntelAssumption ==
  /\ IndicatorsOf \in [Alerts -> SUBSET Indicators] /\ Alerts # {}
  /\ Feeds \subseteq Sources /\ Sources \subseteq {"otx", "misp", "virustotal"}
  /\ MaxPushes \in Nat /\ MaxFaults \in Nat

VARIABLES known,        \* what each source lists: fixed, outside the system
          queue,        \* ti_enrich_queue
          cache,        \* ti_cache:*, per indicator
          iocs,         \* threat_intel_iocs, unique on (source, value)
          matches,      \* committed alert_ioc_matches rows, per alert and entry
          job,          \* the message each enricher has popped and its progress
          feed,         \* the entries the feed session found missing
          pushes,       \* times each alert was pushed (history)
          done,         \* times it was enriched to the end (history)
          dead,         \* times it was put on ti_enrich_dlq, which nothing reads
          faults        \* faults so far

vars == <<known, queue, cache, iocs, matches, job, feed, pushes, done, dead, faults>>

Entries == Sources \X Indicators
Iocs == SUBSET Entries
Matches == [Alerts -> [Entries -> Nat]]     \* nothing keeps a match to one row
Missing == "missing"      \* no cache entry
Clean == "clean"          \* the negative entry
NoFeed == [on |-> FALSE, new |-> {}]
Free == [on |-> FALSE, alert |-> CHOOSE a \in Alerts : TRUE, todo |-> {},
         hits |-> {}, insert |-> {}, found |-> {}]

TypeOK ==
  /\ known \subseteq Entries /\ iocs \in Iocs
  /\ queue \in Seq(Alerts)
  /\ cache \in [Indicators -> Sources \cup {Missing, Clean}]
  /\ matches \in Matches
  /\ job \in [Enrichers -> [on : BOOLEAN, alert : Alerts, todo : SUBSET Indicators,
              hits : SUBSET Entries, insert : SUBSET Entries, found : SUBSET Entries]]
  /\ feed \in [on : BOOLEAN, new : SUBSET Entries]
  /\ pushes \in [Alerts -> 0..MaxPushes]
  /\ done \in [Alerts -> Nat] /\ dead \in [Alerts -> Nat]
  /\ faults \in 0..MaxFaults

Init ==
  /\ known \in SUBSET Entries
  /\ queue = <<>>
  /\ cache = [v \in Indicators |-> Missing]
  /\ iocs = {}
  /\ matches = [a \in Alerts |-> [e \in Entries |-> 0]]
  /\ job = [n \in Enrichers |-> Free]
  /\ feed = NoFeed
  /\ pushes = [a \in Alerts |-> 0]
  /\ done = [a \in Alerts |-> 0]
  /\ dead = [a \in Alerts |-> 0]
  /\ faults = 0

Fault == faults < MaxFaults /\ faults' = faults + 1

(* The exception handler of _enrich_alert: the message is on the dead-letter list. *)
DeadLetter(n) ==
  /\ dead' = [dead EXCEPT ![job[n].alert] = @ + 1]
  /\ job' = [job EXCEPT ![n] = Free]

-----------------------------------------------------------------------------
(* triage_worker.py after a triage, or a playbook's enrich_threat_intel. *)
Push(a) ==
  /\ pushes[a] < MaxPushes
  /\ pushes' = [pushes EXCEPT ![a] = @ + 1]
  /\ queue' = <<a>> \o queue
  /\ UNCHANGED <<known, cache, iocs, matches, job, feed, done, dead, faults>>

Pop(n) ==
  /\ ~job[n].on /\ queue # <<>>
  /\ LET a == queue[Len(queue)]
     IN job' = [job EXCEPT ![n] = [Free EXCEPT !.on = TRUE, !.alert = a, !.todo = IndicatorsOf[a]]]
  /\ queue' = SubSeq(queue, 1, Len(queue) - 1)
  /\ UNCHANGED <<known, cache, iocs, matches, feed, pushes, done, dead, faults>>

Ready(n, v) == job[n].on /\ job[n].hits = {} /\ job[n].insert = {} /\ v \in job[n].todo

(* Defect form: a cached answer is taken for a stored one. *)
LookupCachedStored(n, v) ==
  /\ Ready(n, v) /\ cache[v] # Missing
  /\ job' = [job EXCEPT ![n].todo = @ \ {v},
                        ![n].found = IF cache[v] = Clean THEN @ ELSE @ \cup {<<cache[v], v>>}]
  /\ UNCHANGED <<known, queue, cache, iocs, matches, feed, pushes, done, dead, faults>>
(* The cache answers: the one source it kept, or nothing. *)
LookupCached(n, v) ==
  /\ Ready(n, v) /\ cache[v] # Missing
  /\ job' = [job EXCEPT ![n].todo = @ \ {v},
                        ![n].hits = IF cache[v] = Clean THEN {} ELSE {<<cache[v], v>>}]
  /\ UNCHANGED <<known, queue, cache, iocs, matches, feed, pushes, done, dead, faults>>

(* Every source is asked; an error counts as "not found" and is cached as such. *)
Answers(v, failed) == {<<s, v>> : s \in {s \in Sources \ failed : <<s, v>> \in known}}

(* What the cache keeps: the first answer in the order of the gather, or the negative entry. *)
CachedBest(v, hits) ==
  IF <<"otx", v>> \in hits THEN "otx"
  ELSE IF <<"misp", v>> \in hits THEN "misp"
  ELSE IF <<"virustotal", v>> \in hits THEN "virustotal" ELSE Clean

Lookup(n, v) ==
  /\ Ready(n, v) /\ cache[v] = Missing
  /\ \E failed \in SUBSET Sources :
       LET hits == Answers(v, failed)
       IN /\ IF failed = {} THEN UNCHANGED faults ELSE Fault
          /\ cache' = [cache EXCEPT ![v] = CachedBest(v, hits)]
          /\ job' = [job EXCEPT ![n].todo = @ \ {v}, ![n].hits = hits]
  /\ UNCHANGED <<known, queue, iocs, matches, feed, pushes, done, dead>>

(* _upsert_iocs of one answer: a known entry is updated and committed. *)
UpsertKnown(n, e) ==
  /\ e \in job[n].hits \cap iocs /\ job[n].insert = {}
  /\ job' = [job EXCEPT ![n].hits = @ \ {e}, ![n].found = @ \cup {e}]
  /\ UNCHANGED <<known, queue, cache, iocs, matches, feed, pushes, done, dead, faults>>

(* It is not there: an INSERT will follow. *)
UpsertNew(n, e) ==
  /\ e \in job[n].hits \ iocs /\ job[n].insert = {}
  /\ job' = [job EXCEPT ![n].insert = {e}]
  /\ UNCHANGED <<known, queue, cache, iocs, matches, feed, pushes, done, dead, faults>>

(* Defect form: the refused alert is not put on the dead-letter list. *)
InsertOrDrop(n, e) ==
  /\ e \in job[n].insert
  /\ \/ /\ e \notin iocs
        /\ iocs' = iocs \cup {e}
        /\ job' = [job EXCEPT ![n].hits = @ \ {e}, ![n].insert = {}, ![n].found = @ \cup {e}]
     \/ e \in iocs /\ job' = [job EXCEPT ![n] = Free] /\ UNCHANGED iocs
  /\ UNCHANGED <<known, queue, cache, matches, feed, pushes, done, dead, faults>>
(* The INSERT, unless another session committed the entry first: then the unique  *)
(* index refuses it and the whole alert is dead-lettered.                         *)
Insert(n, e) ==
  /\ e \in job[n].insert
  /\ \/ /\ e \notin iocs
        /\ iocs' = iocs \cup {e}
        /\ job' = [job EXCEPT ![n].hits = @ \ {e}, ![n].insert = {}, ![n].found = @ \cup {e}]
        /\ UNCHANGED dead
     \/ e \in iocs /\ DeadLetter(n) /\ UNCHANGED iocs
  /\ UNCHANGED <<known, queue, cache, matches, feed, pushes, done, faults>>

(* The matches of the alert are committed together. *)
Finish(n) ==
  /\ job[n].on /\ job[n].todo = {} /\ job[n].hits = {} /\ job[n].insert = {}
  /\ matches' = [matches EXCEPT ![job[n].alert] =
       [e \in Entries |-> IF e \in job[n].found THEN @[e] + 1 ELSE @[e]]]
  /\ done' = [done EXCEPT ![job[n].alert] = @ + 1]
  /\ job' = [job EXCEPT ![n] = Free]
  /\ UNCHANGED <<known, queue, cache, iocs, feed, pushes, dead, faults>>

(* A database or Redis error is dead-lettered; if that push fails, or the process *)
(* dies, the message is gone.                                                     *)
Fail(n) ==
  /\ job[n].on /\ Fault
  /\ DeadLetter(n)
  /\ UNCHANGED <<known, queue, cache, iocs, matches, feed, pushes, done>>
Crash(n) ==
  /\ job[n].on /\ Fault
  /\ job' = [job EXCEPT ![n] = Free]
  /\ UNCHANGED <<known, queue, cache, iocs, matches, feed, pushes, done, dead>>

(* setex: the entry runs out. *)
Expire(v) ==
  /\ cache[v] # Missing
  /\ cache' = [cache EXCEPT ![v] = Missing]
  /\ UNCHANGED <<known, queue, iocs, matches, job, feed, pushes, done, dead, faults>>

(* _poll_feeds: one session for the whole batch ... *)
FeedRead ==
  /\ ~feed.on
  /\ feed' = [on |-> TRUE, new |-> {e \in known : e[1] \in Feeds} \ iocs]
  /\ UNCHANGED <<known, queue, cache, iocs, matches, job, pushes, done, dead, faults>>
(* ... which is rolled back if one of its entries was inserted meanwhile. *)
FeedCommit ==
  /\ feed.on
  /\ iocs' = IF feed.new \cap iocs = {} THEN iocs \cup feed.new ELSE iocs
  /\ feed' = NoFeed
  /\ UNCHANGED <<known, queue, cache, matches, job, pushes, done, dead, faults>>

Enrich(n) ==
  \/ Pop(n) \/ Finish(n)
  \/ \E v \in Indicators : LookupCached(n, v) \/ Lookup(n, v)
  \/ \E e \in Entries : UpsertKnown(n, e) \/ UpsertNew(n, e) \/ Insert(n, e)

Next ==
  \/ \E a \in Alerts : Push(a)
  \/ \E v \in Indicators : Expire(v)
  \/ FeedRead \/ FeedCommit
  \/ \E n \in Enrichers :
       \/ Pop(n) \/ Finish(n) \/ Fail(n) \/ Crash(n)
       \/ \E v \in Indicators : LookupCached(n, v) \/ Lookup(n, v)
       \/ \E e \in Entries : UpsertKnown(n, e) \/ UpsertNew(n, e) \/ Insert(n, e)

Fairness == \A n \in Enrichers : WF_vars(Enrich(n))
Spec == Init /\ [][Next]_vars /\ Fairness

-----------------------------------------------------------------------------
(* No alert has more matches with one entry than times it was pushed, and none with *)
(* an entry that no source listed or that is not stored: a cached answer is matched  *)
(* only after its own upsert (threat_intel_worker.py:186-208).                       *)
(* And an alert that was enriched without an error has a match for every indicator   *)
(* some source lists, whether the answer came from a source or from the cache.       *)
MatchesBacked ==
  /\ \A a \in Alerts : \A e \in Entries :
       /\ matches[a][e] <= done[a] /\ done[a] + dead[a] <= pushes[a]
       /\ matches[a][e] > 0 => e \in known \cap iocs /\ e[2] \in IndicatorsOf[a]
  /\ \A a \in Alerts : \A v \in IndicatorsOf[a] :
       (done[a] > 0 /\ faults = 0 /\ \E s \in Sources : <<s, v>> \in known)
         => \E s \in Sources : matches[a][<<s, v>>] >= done[a]

(* Every pushed alert is enriched, dead-lettered or lost to a fault. *)
EnrichmentSettles ==
  \A a \in Alerts : \A k \in 1..MaxPushes :
    pushes[a] >= k ~> done[a] + dead[a] + faults >= k
=============================================================================

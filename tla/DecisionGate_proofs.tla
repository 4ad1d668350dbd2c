-------------------------- MODULE DecisionGate_proofs --------------------------
(***************************************************************************)
(* Theorems about DecisionGate, for every set of alerts, every setting of  *)
(* the gate and every order and loss of enrichers.                         *)
(*                                                                         *)
(* Failing open is one-sided: what is gathered never scores more than the  *)
(* full signals would.  The z-score is the only signal that depends on an  *)
(* order, so the inductive invariant bounds it; the rest is the            *)
(* monotonicity of the score in each of its terms.  Verdicts, containment  *)
(* and silence follow from invariants that tell, for each place of the     *)
(* pass, what the signals gathered so far have already decided.            *)
(***************************************************************************)
EXTENDS DecisionGate, TLAPS

ScoreInv == truth \in Truths /\ got \subseteq Enrichers /\ zscore \in Nat /\ zscore <= FullZ

\* The boost of the history never lowers a z-score, is monotone up to the
\* z-score both UEBA enrichers give in the intended order, and is a number.
LEMMA BoostBounds ==
    ASSUME NEW z \in Nat, NEW h \in Nat, NEW l \in Nat
    PROVE  /\ Boost(z, h) \in Nat
           /\ l <= Boost(l, h)
           /\ z <= Boost(l, h) => Boost(z, h) <= Boost(l, h)
BY DEF Boost

\* Every Truth is a record of signals.
LEMMA TruthSignals == ASSUME NEW t \in Truths PROVE t \in Signals
BY DecisionAssumption

LEMMA ScoreInvInit == Init => ScoreInv
<1> SUFFICES ASSUME Init PROVE ScoreInv
    OBVIOUS
<1>1. truth \in Signals
    BY TruthSignals DEF Init
<1>2. FullZ \in Nat
    BY <1>1, BoostBounds DEF FullZ, Signals
<1> QED BY <1>2 DEF Init, ScoreInv

\* A step of an enricher keeps the z-score within its bound; all the others
\* leave it.
LEMMA ScoreInvStep == ScoreInv /\ [Next]_vars => ScoreInv'
<1> SUFFICES ASSUME ScoreInv, [Next]_vars PROVE ScoreInv'
    OBVIOUS
<1>0. truth.live \in Nat /\ truth.hist \in Nat
    BY TruthSignals DEF ScoreInv, Signals
<1>1. ASSUME NEW e \in Enrichers, Gather(e) PROVE ScoreInv'
    <2>1. truth' = truth /\ FullZ' = FullZ /\ got' \subseteq Enrichers
        BY <1>1 DEF Gather, FullZ, ScoreInv
    <2>2. CASE e = "ueba" /\ truth.live > 0
        <3>1. zscore' = truth.live
            BY <1>1, <2>2 DEF Gather
        <3> QED BY <2>1, <3>1, <1>0, BoostBounds DEF ScoreInv, FullZ
    <2>3. CASE e = "history"
        <3>1. zscore' = Boost(zscore, truth.hist)
            BY <1>1, <2>3 DEF Gather
        <3> QED BY <2>1, <3>1, <1>0, BoostBounds DEF ScoreInv, FullZ
    <2>4. CASE ~(e = "ueba" /\ truth.live > 0) /\ e # "history"
        <3>1. zscore' = zscore
            BY <1>1, <2>4 DEF Gather
        <3> QED BY <2>1, <3>1 DEF ScoreInv
    <2> QED BY <2>2, <2>3, <2>4
<1>2. ASSUME UNCHANGED enrichVars PROVE ScoreInv'
    BY <1>2 DEF ScoreInv, FullZ, enrichVars
<1>3. ASSUME truth' = truth, got' = got, zscore' = zscore PROVE ScoreInv'
    BY <1>3 DEF ScoreInv, FullZ
<1>4. ASSUME NEW e \in Enrichers, Lose(e) PROVE ScoreInv'
    BY <1>3, <1>4 DEF Lose
<1>5. ASSUME ReadModes \/ RouteSuppress \/ RouteAutoClose \/ RouteAnalyze PROVE ScoreInv'
    BY <1>2, <1>5 DEF ReadModes, RouteSuppress, RouteAutoClose, RouteAnalyze
<1>6. ASSUME NEW v, Store(v) PROVE ScoreInv'
    BY <1>2, <1>6 DEF Store
<1>7. ASSUME NEW a \in Answer, AnalyzeByLlm(a) PROVE ScoreInv'
    BY <1>6, <1>7 DEF AnalyzeByLlm
<1>8. ASSUME NEW v \in Cached, AnalyzeByCache(v) PROVE ScoreInv'
    BY <1>6, <1>8 DEF AnalyzeByCache
<1>9. ASSUME NEW act \in Containments, Contain(act) PROVE ScoreInv'
    BY <1>2, <1>9 DEF Contain
<1>10. ASSUME UNCHANGED vars PROVE ScoreInv'
    BY <1>2, <1>10 DEF vars
<1> QED BY <1>1, <1>4, <1>5, <1>7, <1>8, <1>9, <1>10 DEF Next

\* Rounding is monotone and the cap keeps it so.
LEMMA RoundMonotone ==
    ASSUME NEW x \in Nat, NEW y \in Nat, x <= y
    PROVE  /\ RoundHundredths(x) \in Nat /\ RoundHundredths(y) \in Nat
           /\ RoundHundredths(x) <= RoundHundredths(y)
<1> DEFINE qx == x \div 100  rx == x % 100  qy == y \div 100  ry == y % 100
<1>1. /\ qx \in Nat /\ qy \in Nat /\ rx \in 0 .. 99 /\ ry \in 0 .. 99
      /\ x = 100 * qx + rx /\ y = 100 * qy + ry
    OBVIOUS
<1>2. qx < qy \/ (qx = qy /\ rx <= ry)
    BY <1>1
<1>3. RoundHundredths(x) = IF rx > 50 \/ (rx = 50 /\ qx % 2 = 1) THEN qx + 1 ELSE qx
    BY DEF RoundHundredths
<1>4. RoundHundredths(y) = IF ry > 50 \/ (ry = 50 /\ qy % 2 = 1) THEN qy + 1 ELSE qy
    BY DEF RoundHundredths
<1> HIDE DEF qx, rx, qy, ry
<1>5. CASE qx < qy
    BY <1>1, <1>3, <1>4, <1>5
<1>6. CASE qx = qy /\ rx <= ry
    BY <1>1, <1>3, <1>4, <1>6
<1> QED BY <1>2, <1>5, <1>6

\* Every term of the score is monotone in what was gathered.
LEMMA PointsMonotone ==
    ASSUME NEW t \in Signals, NEW G \in SUBSET Enrichers,
           NEW y \in Nat, NEW z \in Nat, y <= z
    PROVE  LET c == Context(t, G, y)  d == Context(t, Enrichers, z)
           IN  /\ Points(c) \in Nat /\ Points(d) \in Nat
               /\ Points(c) <= Points(d)
               /\ c.asset.crown => d.asset.crown
               /\ c.asset.crown \in BOOLEAN /\ d.asset.crown \in BOOLEAN
<1> DEFINE c == Context(t, G, y)  d == Context(t, Enrichers, z)
<1>1. c.level = t.level /\ d.level = t.level /\ c.mitre = t.mitre /\ d.mitre = t.mitre
    BY DEF Context
<1>2. /\ d.ti = t.ti /\ d.asset = t.asset /\ d.user = t.user /\ d.vuln = t.vuln
      /\ d.anonymous = t.anonymous /\ c.z = y /\ d.z = z
    BY DEF Context, Enrichers, Signals
<1>3. /\ c.ti = t.ti \/ c.ti = NoTi
      /\ c.asset = t.asset \/ c.asset = NoAsset
      /\ c.user = t.user \/ c.user = {}
      /\ c.vuln = t.vuln \/ c.vuln = "none"
      /\ c.anonymous = t.anonymous \/ c.anonymous = FALSE
    BY DEF Context, Signals
<1> HIDE DEF c, d
<1>4. TiPoints(c.ti) \in Nat /\ TiPoints(d.ti) \in Nat /\ TiPoints(c.ti) <= TiPoints(d.ti)
    <2>1. t.ti \in TiSignal
        BY DEF Signals
    <2>2. TiPoints(t.ti) \in Nat
        BY <2>1 DEF TiPoints, TiSignal
    <2>3. TiPoints(NoTi) = 0
        BY DEF TiPoints, NoTi
    <2> QED BY <1>2, <1>3, <2>2, <2>3
<1>5. c.asset.crit \in Nat /\ d.asset.crit \in Nat /\ c.asset.crit <= d.asset.crit
    BY <1>2, <1>3 DEF Signals, AssetSignal, NoAsset
<1>6. VulnPoints(c.vuln) \in Nat /\ VulnPoints(d.vuln) \in Nat
      /\ VulnPoints(c.vuln) <= VulnPoints(d.vuln)
    BY <1>2, <1>3 DEF VulnPoints
<1>7. UebaPoints(c.z) \in Nat /\ UebaPoints(d.z) \in Nat /\ UebaPoints(c.z) <= UebaPoints(d.z)
    BY <1>2 DEF UebaPoints
<1>8. UserPoints(c.user) \in Nat /\ UserPoints(d.user) \in Nat
      /\ UserPoints(c.user) <= UserPoints(d.user)
    BY <1>2, <1>3 DEF UserPoints
<1>9. GeoPoints(c.anonymous) \in Nat /\ GeoPoints(d.anonymous) \in Nat
      /\ GeoPoints(c.anonymous) <= GeoPoints(d.anonymous)
    <2>1. GeoPoints(TRUE) = 13 /\ GeoPoints(FALSE) = 0
        BY DEF GeoPoints
    <2>2. t.anonymous = TRUE \/ t.anonymous = FALSE
        BY DEF Signals
    <2>3. GeoPoints(t.anonymous) \in {0, 13}
        <3>1. CASE t.anonymous = TRUE
            BY <2>1, <3>1
        <3>2. CASE t.anonymous = FALSE
            BY <2>1, <3>2
        <3> QED BY <2>2, <3>1, <3>2
    <2>4. GeoPoints(d.anonymous) = GeoPoints(t.anonymous)
        BY <1>2, Zenon
    <2>5. GeoPoints(c.anonymous) = GeoPoints(t.anonymous) \/ GeoPoints(c.anonymous) = 0
        BY <1>3, <2>1, Zenon
    <2> QED BY <2>3, <2>4, <2>5
<1>10. LevelPoints(t.level) \in Nat
    BY DEF LevelPoints
<1>11. (IF t.mitre THEN 10 ELSE 0) \in Nat
    OBVIOUS
<1>12. Points(c) \in Nat /\ Points(d) \in Nat /\ Points(c) <= Points(d)
    BY <1>1, <1>4, <1>5, <1>6, <1>7, <1>8, <1>9, <1>10, <1>11 DEF Points
<1>13. /\ c.asset.crown \in BOOLEAN /\ d.asset.crown \in BOOLEAN
       /\ c.asset.crown => d.asset.crown
    <2>1. t.asset.crown \in BOOLEAN
        BY DEF Signals, AssetSignal
    <2>2. NoAsset.crown = FALSE
        BY DEF NoAsset
    <2>3. CASE c.asset = t.asset
        BY <1>2, <2>1, <2>3
    <2>4. CASE c.asset = NoAsset
        BY <1>2, <2>1, <2>2, <2>4
    <2> QED BY <1>3, <2>3, <2>4
<1> QED BY <1>12, <1>13 DEF c, d

\* The crown-jewel factor, rounding and the cap keep the order.
LEMMA ScoreMonotone ==
    ASSUME NEW t \in Signals, NEW G \in SUBSET Enrichers,
           NEW y \in Nat, NEW z \in Nat, y <= z
    PROVE  Score(Context(t, G, y)) <= Score(Context(t, Enrichers, z))
<1> DEFINE c == Context(t, G, y)  d == Context(t, Enrichers, z)
           C == IF c.asset.crown THEN (Points(c) * 13) \div 10 ELSE Points(c)
           D == IF d.asset.crown THEN (Points(d) * 13) \div 10 ELSE Points(d)
<1>1. /\ Points(c) \in Nat /\ Points(d) \in Nat /\ Points(c) <= Points(d)
      /\ c.asset.crown => d.asset.crown
    BY PointsMonotone
<1>2. C \in Nat /\ D \in Nat /\ C <= D
    <2> HIDE DEF c, d
    <2> QED BY <1>1
<1>3. Score(c) = IF RoundHundredths(C) > 100 THEN 100 ELSE RoundHundredths(C)
    BY DEF Score
<1>4. Score(d) = IF RoundHundredths(D) > 100 THEN 100 ELSE RoundHundredths(D)
    BY DEF Score
<1> HIDE DEF C, D, c, d
<1>5. Score(c) <= Score(d)
    BY <1>2, <1>3, <1>4, RoundMonotone
<1> QED BY <1>5 DEF c, d

\* No loss and no order of enrichers raises the risk score (pipeline.run and
\* risk_score.compute): FailOpenNeverRaises, for every value of the constants.
THEOREM FailOpenIsOneSided == Spec => []FailOpenNeverRaises
<1>1. ScoreInv => FailOpenNeverRaises
    <2> SUFFICES ASSUME ScoreInv PROVE FailOpenNeverRaises
        OBVIOUS
    <2>1. truth \in Signals
        BY TruthSignals DEF ScoreInv
    <2>2. FullZ \in Nat
        BY <2>1, BoostBounds DEF FullZ, Signals
    <2> QED BY <2>1, <2>2, ScoreMonotone DEF ScoreInv, FailOpenNeverRaises, Ctx, FullCtx
<1> QED BY <1>1, ScoreInvInit, ScoreInvStep, PTL DEF Spec
-------------------------------------------------------------------------------
(* What some signals alone are worth, and what the rule level alone is not. *)

\* The score is at least the rounded points of any one of its terms.
LEMMA ScoreFloor ==
    ASSUME NEW t \in Signals, NEW G \in SUBSET Enrichers, NEW z \in Nat,
           NEW c, c = Context(t, G, z)
    PROVE  /\ c.ti.bad \/ c.ti.kev => Score(c) >= 40
           /\ c.vuln # "none" => Score(c) >= 25
<1>1. /\ c.ti = t.ti \/ c.ti = NoTi
      /\ c.asset = t.asset \/ c.asset = NoAsset
      /\ c.vuln = t.vuln \/ c.vuln = "none"
      /\ c.level = t.level /\ c.z = z
      BY DEF Context
<1>2. Points(c) \in Nat /\ c.asset.crown \in BOOLEAN
    BY PointsMonotone
<1>3. TiPoints(c.ti) \in Nat
    <2>1. TiPoints(t.ti) \in Nat
        BY DEF Signals, TiSignal, TiPoints
    <2>2. TiPoints(NoTi) \in Nat
        BY DEF TiPoints, NoTi
    <2> QED BY <1>1, <2>1, <2>2
<1>4. /\ LevelPoints(c.level) \in Nat /\ UebaPoints(c.z) \in Nat /\ UserPoints(c.user) \in Nat
      /\ VulnPoints(c.vuln) \in Nat
    BY <1>1 DEF LevelPoints, UebaPoints, UserPoints, VulnPoints
<1>5. c.asset.crit \in Nat
    BY <1>1 DEF Signals, AssetSignal, NoAsset
<1>6. GeoPoints(c.anonymous) \in Nat /\ (IF c.mitre THEN 10 ELSE 0) \in Nat
    BY DEF GeoPoints
<1>7. Points(c) >= TiPoints(c.ti) /\ Points(c) >= 100 * VulnPoints(c.vuln)
    BY <1>3, <1>4, <1>5, <1>6 DEF Points
<1> DEFINE C == IF c.asset.crown THEN (Points(c) * 13) \div 10 ELSE Points(c)
<1>8. C \in Nat /\ Points(c) <= C
    BY <1>2
<1>9. Score(c) = IF RoundHundredths(C) > 100 THEN 100 ELSE RoundHundredths(C)
    BY DEF Score
<1> HIDE DEF C
<1>10. RoundHundredths(4000) = 40 /\ RoundHundredths(2500) = 25
    BY DEF RoundHundredths
<1>11. ASSUME c.ti.bad \/ c.ti.kev PROVE Score(c) >= 40
    <2>1. TiPoints(c.ti) = 4000
        BY <1>11, Zenon DEF TiPoints
    <2>2. 4000 <= C
        BY <1>2, <1>7, <1>8, <2>1
    <2>3. 40 <= RoundHundredths(C) /\ RoundHundredths(C) \in Nat
        BY <1>8, <1>10, <2>2, RoundMonotone
    <2> QED BY <1>9, <2>3
<1>12. ASSUME c.vuln # "none" PROVE Score(c) >= 25
    <2>1. c.vuln \in {"matched", "exploited"}
        BY <1>1, <1>12 DEF Signals
    <2>2. VulnPoints(c.vuln) >= 25
        BY <2>1 DEF VulnPoints
    <2>3. 2500 <= C
        BY <1>2, <1>4, <1>7, <1>8, <2>2
    <2>4. 25 <= RoundHundredths(C) /\ RoundHundredths(C) \in Nat
        BY <1>8, <1>10, <2>3, RoundMonotone
    <2> QED BY <1>9, <2>4
<1> QED BY <1>11, <1>12

\* The context that a playbook builds from the rule level scores at most 40, has
\* no known-bad address and no crown jewel.
LEMMA SoarScore ==
    ASSUME NEW t \in Signals
    PROVE  LET c == SoarContext(t)
           IN  /\ Score(c) \in 0 .. 40
               /\ c.ti.bad = FALSE /\ c.asset.crown = FALSE
<1> DEFINE c == SoarContext(t)
<1>1. /\ c.ti = NoTi /\ c.asset = NoAsset /\ c.user = {} /\ c.vuln = "none" /\ c.z = 0
      /\ c.anonymous = FALSE /\ c.mitre = FALSE /\ c.level = t.level
    BY DEF SoarContext, Context, Signals
<1> HIDE DEF c
<1>2. /\ TiPoints(c.ti) = 0 /\ VulnPoints(c.vuln) = 0 /\ UebaPoints(c.z) = 0
      /\ UserPoints(c.user) = 0 /\ GeoPoints(c.anonymous) = 0 /\ c.asset.crit = 0
      /\ (IF c.mitre THEN 10 ELSE 0) = 0
    BY <1>1 DEF TiPoints, VulnPoints, UebaPoints, UserPoints, GeoPoints, NoTi, NoAsset
<1>3. LevelPoints(c.level) \in {0, 10, 20, 30, 40}
    BY <1>1 DEF LevelPoints
<1>4. Points(c) = 100 * LevelPoints(c.level)
    BY <1>2, <1>3 DEF Points
<1>5. c.asset.crown = FALSE /\ c.ti.bad = FALSE
    BY <1>1 DEF NoAsset, NoTi
<1>6. RoundHundredths(Points(c)) = LevelPoints(c.level)
    BY <1>3, <1>4 DEF RoundHundredths
<1>7. Score(c) = LevelPoints(c.level)
    <2> DEFINE q == RoundHundredths(Points(c))
    <2>1. Score(c) = IF q > 100 THEN 100 ELSE q
        BY <1>5 DEF Score
    <2>2. q \in {0, 10, 20, 30, 40} /\ q = LevelPoints(c.level)
        BY <1>3, <1>6
    <2> HIDE DEF q
    <2> QED BY <2>1, <2>2
<1>8. Score(c) \in 0 .. 40
    BY <1>3, <1>7
<1> QED BY <1>5, <1>8 DEF c

\* The policy's answer to a playbook: whatever the alert, the score of the rule
\* level stays below the 60 points that an automatic containment asks for.
LEMMA SoarPolicy ==
    ASSUME NEW t \in Signals, NEW act \in Containments
    PROVE  LET c == SoarContext(t)
           IN  /\ CheckPolicy(act, c, Score(c)) # "allow"
               /\ shadow => CheckPolicy(act, c, Score(c)) = "deny"
<1> DEFINE c == SoarContext(t)
<1>1. Score(c) \in 0 .. 40 /\ c.ti.bad = FALSE
    BY SoarScore
<1> HIDE DEF c
<1> DEFINE s == Score(c)
<1>2. s < 60
    BY <1>1
<1> HIDE DEF s
<1>3. CheckPolicy(act, c, s) = IF shadow THEN "deny" ELSE "require_approval"
    BY <1>1, <1>2 DEF CheckPolicy
<1> QED BY <1>3 DEF c, s

-------------------------------------------------------------------------------
(* The end of an alert: what is silenced, what is stored, what is contained. *)

Facts(c) == c.ti.conf = 0 /\ ~c.ti.bad /\ ~c.ti.kev /\ c.vuln = "none" /\ c.level < 10

\* The signals are fixed once the last enricher ended, and the mode is read once,
\* after it; what was decided then stays true.
GateInv ==
    /\ ScoreInv
    /\ pc # "enrich" => pending = {}
    /\ contained # None => pc = "stored" /\ contained.decision # "allow"
                           /\ (shadow => contained.decision = "deny")
    /\ DeterministicVerdict

\* While enrichers run, they are all that moves, until the modes are read.
LEMMA EnrichSteps ==
    ASSUME [Next]_vars, pc = "enrich"
    PROVE  (ReadModes /\ UNCHANGED contained) \/ UNCHANGED <<pc, contained>>
<1>1. \A v : ~Store(v)
    BY DEF Store
<1>2. ~RouteSuppress /\ ~RouteAutoClose /\ ~RouteAnalyze /\ \A act \in Containments : ~Contain(act)
    BY DEF RouteSuppress, RouteAutoClose, RouteAnalyze, Contain
<1>3. (\A a \in Answer : ~AnalyzeByLlm(a)) /\ \A v \in Cached : ~AnalyzeByCache(v)
    BY <1>1 DEF AnalyzeByLlm, AnalyzeByCache
<1>4. ASSUME NEW e \in Enrichers, Gather(e) \/ Lose(e) PROVE UNCHANGED <<pc, contained>>
    BY <1>4 DEF Gather, Lose
<1>5. ReadModes => UNCHANGED contained
    BY DEF ReadModes
<1> QED BY <1>2, <1>3, <1>4, <1>5 DEF Next, vars

\* Once the enrichers have ended, no step changes what they gathered.
LEMMA EnrichedFixed ==
    ASSUME GateInv, [Next]_vars, pc # "enrich"
    PROVE  UNCHANGED <<enrichVars, modeVars>> /\ pc' # "enrich"
<1>1. pending = {} /\ ~ReadModes /\ \A e \in Enrichers : ~Gather(e) /\ ~Lose(e)
    BY DEF GateInv, ReadModes, Gather, Lose, Ends
<1>2. ASSUME NEW v, Store(v) PROVE UNCHANGED <<enrichVars, modeVars>> /\ pc' # "enrich"
    BY <1>2 DEF Store
<1>3. ASSUME RouteSuppress \/ RouteAutoClose \/ RouteAnalyze
      PROVE  UNCHANGED <<enrichVars, modeVars>> /\ pc' # "enrich"
    BY <1>3 DEF RouteSuppress, RouteAutoClose, RouteAnalyze
<1>4. ASSUME NEW act \in Containments, Contain(act)
      PROVE  UNCHANGED <<enrichVars, modeVars>> /\ pc' # "enrich"
    BY <1>4 DEF Contain
<1>5. ASSUME UNCHANGED vars PROVE UNCHANGED <<enrichVars, modeVars>> /\ pc' # "enrich"
    BY <1>5 DEF vars
<1> QED BY <1>1, <1>2, <1>3, <1>4, <1>5 DEF Next, AnalyzeByLlm, AnalyzeByCache

\* The override of a deterministic level in enforce mode survives validation.
LEMMA OverrideHolds ==
    ASSUME NEW a \in Answer, Deterministic, ~shadow
    PROVE  \A v \in Validate(Override(a)) : v.sev \in {"high", "critical"} /\ v.esc
<1> DEFINE s == IF Level = "critical" THEN "critical" ELSE "high"
           o == [a EXCEPT !.sev = s, !.esc = TRUE]
<1>1. Override(a) = o
    BY DEF Override
<1>2. o.sev = s /\ o.esc = TRUE /\ s \in {"high", "critical"} /\ {"sev", "esc"} \subseteq DOMAIN o
    BY DEF Answer, Fallback
<1> HIDE DEF o, s
<1>3. Validate(o) = {o, [o EXCEPT !.sev = o.sev]}
    BY <1>2 DEF Validate, Severities
<1>4. PICK w : w = [o EXCEPT !.sev = o.sev]
    OBVIOUS
<1>5. w.sev = s /\ w.esc = TRUE
    BY <1>2, <1>4
<1>6. Validate(o) = {o, w}
    BY <1>3, <1>4
<1> QED BY <1>1, <1>2, <1>5, <1>6

LEMMA GateStep ==
    ASSUME GateInv, [Next]_vars PROVE GateInv'
<1>1. ScoreInv' /\ truth \in Signals
    BY ScoreInvStep, TruthSignals DEF GateInv, ScoreInv
<1>2. CASE pc = "enrich"
    <2>1. contained = None
        BY <1>2 DEF GateInv
    <2>2. contained' = None /\ (pc' = "enrich" \/ (pc' = "route" /\ pending' = {}))
        <3>1. (ReadModes /\ UNCHANGED contained) \/ UNCHANGED <<pc, contained>>
            BY <1>2, EnrichSteps
        <3>2. ReadModes => pc' = "route" /\ pending' = {}
            BY DEF ReadModes, enrichVars
        <3> QED BY <1>2, <2>1, <3>1, <3>2
    <2> QED BY <1>1, <2>2 DEF GateInv, DeterministicVerdict
<1>3. CASE pc # "enrich"
    <2>1. /\ UNCHANGED <<truth, pending, got, zscore, shadow>> /\ pc' # "enrich"
          /\ pending' = {}
        BY <1>3, EnrichedFixed DEF enrichVars, modeVars, GateInv
    <2>2. Ctx' = Ctx /\ Level' = Level /\ (Deterministic' <=> Deterministic)
        <3>1. Ctx' = Ctx
            BY <2>1 DEF Ctx
        <3> QED BY <3>1 DEF Level, Deterministic
    <2>3. ASSUME NEW act \in Containments, Contain(act) PROVE GateInv'
        <3> DEFINE d == CheckPolicy(act, SoarContext(truth), Score(SoarContext(truth)))
        <3>1. /\ pc = "stored" /\ UNCHANGED <<pc, shadow, stored>>
              /\ contained' = [action |-> act, decision |-> d]
            BY <2>3 DEF Contain, modeVars
        <3>2. d # "allow" /\ (shadow => d = "deny")
            BY <1>1, SoarPolicy
        <3> HIDE DEF d
        <3>3. DeterministicVerdict'
            <4>1. DeterministicVerdict
                BY DEF GateInv
            <4> QED BY <2>2, <3>1, <4>1 DEF DeterministicVerdict
        <3>4. contained'.decision = d
            BY <3>1
        <3>5. contained' # None => pc' = "stored" /\ contained'.decision # "allow"
                                   /\ (shadow' => contained'.decision = "deny")
            BY <3>1, <3>2, <3>4
        <3> QED BY <1>1, <2>1, <3>3, <3>5 DEF GateInv
    <2>4. ASSUME pc' \in {"analyze", "suppressed", "closed"}, pc = "route", UNCHANGED contained
          PROVE  GateInv'
        BY <1>1, <2>1, <2>4 DEF GateInv, DeterministicVerdict
    <2>5. CASE RouteSuppress \/ RouteAutoClose \/ RouteAnalyze
        BY <2>4, <2>5 DEF RouteSuppress, RouteAutoClose, RouteAnalyze
    <2>6. ASSUME NEW v, Store(v), Deterministic /\ ~shadow => v.sev \in {"high", "critical"} /\ v.esc
          PROVE  GateInv'
        <3>1. /\ pc = "analyze" /\ UNCHANGED contained
              /\ (pc' = "stored" /\ stored' = v) \/ pc' = "raised"
            BY <2>6 DEF Store
        <3>2. contained' = None
            BY <3>1 DEF GateInv
        <3>3. DeterministicVerdict'
            <4>1. CASE pc' = "stored" /\ stored' = v
                BY <2>1, <2>2, <2>6, <4>1 DEF DeterministicVerdict
            <4>2. CASE pc' = "raised"
                BY <4>2 DEF DeterministicVerdict
            <4> QED BY <3>1, <4>1, <4>2
        <3> QED BY <1>1, <2>1, <3>2, <3>3 DEF GateInv
    <2>7. ASSUME NEW a \in Answer, AnalyzeByLlm(a) PROVE GateInv'
        <3>1. PICK v \in Validate(Override(IF Level = "triage" THEN Fuse(a) ELSE a)) : Store(v)
            BY <2>7 DEF AnalyzeByLlm
        <3>2. ASSUME Deterministic, ~shadow PROVE v.sev \in {"high", "critical"} /\ v.esc
            <4>1. v \in Validate(Override(a))
                BY <3>1, <3>2 DEF Deterministic
            <4> QED BY <3>2, <4>1, OverrideHolds
        <3> QED BY <2>6, <3>1, <3>2
    <2>8. ASSUME NEW v \in Cached, AnalyzeByCache(v) PROVE GateInv'
        BY <2>6, <2>8 DEF AnalyzeByCache, Deterministic
    <2>9. CASE UNCHANGED vars
        BY <1>1, <2>1, <2>2, <2>9 DEF GateInv, DeterministicVerdict, vars
    <2>10. ~ReadModes /\ \A e \in Enrichers : ~Gather(e) /\ ~Lose(e)
        BY <1>3 DEF GateInv, ReadModes, Gather, Lose, Ends
    <2> QED BY <2>3, <2>5, <2>7, <2>8, <2>9, <2>10 DEF Next
<1> QED BY <1>2, <1>3

LEMMA GateInit == Init => GateInv
BY ScoreInvInit DEF Init, GateInv, DeterministicVerdict

\* In enforce mode an alert whose level is escalate or critical is stored as high
\* or critical and escalated, for any answer of the LLM, any content of the
\* cache, any thresholds, and whichever enrichers failed.
THEOREM LevelDecidesVerdict == Spec => []DeterministicVerdict
<1>1. GateInv /\ [Next]_vars => GateInv'
    BY GateStep
<1>2. GateInv => DeterministicVerdict
    BY DEF GateInv
<1> QED BY GateInit, <1>1, <1>2, PTL DEF Spec

\* No playbook disables a user or blocks an address without a human, whatever
\* the alert and the settings of the gate: the policy sees the rule level alone.
THEOREM PlaybooksNeverAct == Spec => []IdentityActionsNeedHuman
<1>1. GateInv /\ [Next]_vars => GateInv'
    BY GateStep
<1>2. GateInv => IdentityActionsNeedHuman
    BY DEF GateInv, IdentityActionsNeedHuman
<1> QED BY GateInit, <1>1, <1>2, PTL DEF Spec

\* An alert the gate suppresses or closes shows none of the signals that count,
\* if the points of a CVE match (25) reach the L0 threshold and the points of an
\* intelligence hit (40) reach the L1 threshold; and an alert is silenced in
\* shadow mode only where L0/L1 decisions end the triage.
SilenceInv ==
    /\ GateInv
    /\ Silenced => Facts(Ctx)
    /\ shadow /\ StillTriages => ~Silenced

LEMMA SilentLevels ==
    ASSUME L0Threshold <= 25, L1Threshold <= 40, ScoreInv,
           Level \in {"suppress", "auto_close"}
    PROVE  Facts(Ctx)
<1>1. truth \in Signals /\ got \in SUBSET Enrichers /\ zscore \in Nat /\ Ctx = Context(truth, got, zscore)
    BY TruthSignals DEF ScoreInv, Ctx
<1>2. /\ Ctx.ti.bad \/ Ctx.ti.kev => Score(Ctx) >= 40
      /\ Ctx.vuln # "none" => Score(Ctx) >= 25
    BY <1>1, ScoreFloor
<1>3. Ctx.level \in Nat /\ Score(Ctx) \in Nat
    <2>1. Ctx.level = truth.level
        BY DEF Ctx, Context
    <2>2. Points(Ctx) \in Nat /\ Ctx.asset.crown \in BOOLEAN
        BY <1>1, PointsMonotone
    <2> DEFINE C == IF Ctx.asset.crown THEN (Points(Ctx) * 13) \div 10 ELSE Points(Ctx)
    <2>3. C \in Nat
        BY <2>2
    <2>4. Score(Ctx) = IF RoundHundredths(C) > 100 THEN 100 ELSE RoundHundredths(C)
        BY DEF Score
    <2> HIDE DEF C
    <2>5. RoundHundredths(C) \in Nat
        BY <2>3, RoundMonotone
    <2> QED BY <1>1, <2>1, <2>4, <2>5 DEF Signals
<1>4. Suppresses(Ctx) \/ Closes(Ctx)
    BY DEF Level, Levels, Decide
<1>5. L0Threshold \in Nat /\ L1Threshold \in Nat
    BY DecisionAssumption
<1>6. CASE Suppresses(Ctx)
    <2>1. Score(Ctx) < 25 /\ Ctx.level < 10 /\ Ctx.ti.conf = 0
        BY <1>3, <1>5, <1>6 DEF Suppresses
    <2>2. ~(Score(Ctx) >= 25) /\ ~(Score(Ctx) >= 40)
        BY <1>3, <2>1
    <2> QED BY <1>2, <2>1, <2>2 DEF Facts
<1>7. CASE Closes(Ctx)
    <2>1. Score(Ctx) < L1Threshold /\ Ctx.level < 10 /\ Ctx.ti.conf = 0 /\ ~Ctx.ti.bad
          /\ Ctx.vuln = "none"
        BY <1>7 DEF Closes
    <2>2. ~(Score(Ctx) >= 40)
        BY <1>3, <1>5, <2>1
    <2> QED BY <1>2, <2>1, <2>2 DEF Facts
<1> QED BY <1>4, <1>6, <1>7

LEMMA SilenceStep ==
    ASSUME L0Threshold <= 25, L1Threshold <= 40, SilenceInv, [Next]_vars
    PROVE  SilenceInv'
<1>1. GateInv /\ GateInv' /\ ScoreInv
    BY GateStep DEF SilenceInv, GateInv
<1>2. CASE pc = "enrich"
    <2>1. pc' \in {"enrich", "route"}
        BY <1>2, EnrichSteps DEF ReadModes
    <2> QED BY <1>1, <2>1 DEF SilenceInv, Silenced
<1>3. CASE pc # "enrich"
    <2>1. UNCHANGED <<truth, got, zscore, shadow>>
        BY <1>1, <1>3, EnrichedFixed DEF enrichVars, modeVars
    <2>2. Ctx' = Ctx
        BY <2>1 DEF Ctx
    <2>3. CASE RouteSuppress \/ RouteAutoClose
        <3>1. /\ Level \in {"suppress", "auto_close"}
              /\ pc' = IF shadow /\ StillTriages THEN "analyze"
                       ELSE IF RouteSuppress THEN "suppressed" ELSE "closed"
            BY <2>3 DEF RouteSuppress, RouteAutoClose
        <3>2. Facts(Ctx)
            BY <1>1, <3>1, SilentLevels
        <3> QED BY <1>1, <2>1, <2>2, <3>1, <3>2 DEF SilenceInv, Silenced
    <2>4. CASE pc' = pc \/ pc' \in {"analyze", "stored", "raised"}
        BY <1>1, <2>1, <2>2, <2>4 DEF SilenceInv, Silenced
    <2>5. RouteSuppress \/ RouteAutoClose \/ pc' = pc \/ pc' \in {"analyze", "stored", "raised"}
        BY <1>3 DEF Next, Gather, Lose, ReadModes, RouteAnalyze, AnalyzeByLlm, AnalyzeByCache,
                    Store, Contain, vars
    <2> QED BY <2>3, <2>4, <2>5
<1> QED BY <1>2, <1>3

\* Silence is harmless for every threshold L0 up to 25 and L1 up to 40, the least
\* scores of a CVE match and of an intelligence hit; the defaults are 15 and 25.
THEOREM SilenceLosesNothing ==
    ASSUME L0Threshold <= 25, L1Threshold <= 40
    PROVE  Spec => []SilenceIsHarmless
<1>1. Init => SilenceInv
    BY GateInit DEF Init, SilenceInv, Silenced
<1>2. SilenceInv /\ [Next]_vars => SilenceInv'
    BY SilenceStep
<1>3. SilenceInv => SilenceIsHarmless
    BY DEF SilenceInv, GateInv, SilenceIsHarmless, Facts
<1> QED BY <1>1, <1>2, <1>3, PTL DEF Spec
===============================================================================

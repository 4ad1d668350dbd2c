----------------------------- MODULE DecisionGate -----------------------------
(***************************************************************************)
(* From enrichment to verdict: what process_message does with one alert    *)
(* after the noise gate.  Seven enrichers run concurrently over one        *)
(* database session and fail open; the risk score of what they gathered    *)
(* goes through the L0-L4 gate; an alert that is not silenced is analysed, *)
(* by the LLM or by the semantic cache, and the verdict is fused,          *)
(* overridden, validated and stored.  The cache may hold any verdict that  *)
(* an earlier, similar alert can have left in it.                          *)
(*                                                                         *)
(* The real signals of an alert are in truth; got says which enrichers     *)
(* delivered theirs.  The UEBA z-score is a variable of its own, as two    *)
(* enrichers write it.  Confidences are in per cent, z-scores and partial  *)
(* scores in hundredths.                                                   *)
(***************************************************************************)
EXTENDS Integers, FiniteSets

CONSTANTS
    Truths,              \* signals of the alerts that may arrive
    LlmSeverities,       \* severities the LLM answers with
    StillTriages,        \* settings.shadow_still_triages
    AutoCloseEnabled,    \* settings.auto_close_enabled
    Incident,            \* automatic alerts have an incident, and incident_risk_enabled
    L0Threshold, L1Threshold, L2UpperThreshold, L3Threshold,   \* settings.risk_gate_*
    AutoCloseThreshold,  \* settings.auto_close_score_threshold
    None

Enrichers == {"geo", "ti", "asset", "user", "vuln", "ueba", "history"}

\* What the enrichers may find.  A known-bad address has a threat score of 50 or
\* a confidence of 80; an asset of criticality 9 is a crown jewel.
TiSignal    == [bad : BOOLEAN, kev : BOOLEAN, conf : 0 .. 100]
AssetSignal == [crit : 0 .. 10, crown : BOOLEAN]
UserRisks   == {"privileged", "service", "dormant"}
Signals     == [level : 0 .. 15, mitre : BOOLEAN, anonymous : BOOLEAN, ti : TiSignal,
                asset : AssetSignal, user : SUBSET UserRisks,
                vuln : {"none", "matched", "exploited"}, live : Nat, hist : Nat]

ASSUME DecisionAssumption ==
    /\ \A t \in Truths : /\ t \in Signals
                         /\ t.ti.conf >= 80 => t.ti.bad
                         /\ t.asset.crit >= 9 => t.asset.crown
    /\ {StillTriages, AutoCloseEnabled, Incident} \subseteq BOOLEAN
    /\ {L0Threshold, L1Threshold, L2UpperThreshold, L3Threshold, AutoCloseThreshold} \subseteq Nat
    /\ L0Threshold <= L1Threshold /\ L1Threshold <= L2UpperThreshold
    /\ L2UpperThreshold <= L3Threshold

VARIABLES
    truth,     \* the signals of the alert at hand
    pending,   \* enrichers still running
    got,       \* enrichers that delivered
    zscore,    \* ctx.ueba_zscore
    pc,        \* where process_message stands
    shadow,    \* automation_mode = "shadow"
    manual,    \* skip_gate: an analyst asked for this triage, with the fast tier
    stored,    \* the verdict in the triage row
    contained  \* the containment a playbook asked for, and the policy's answer

enrichVars == <<truth, pending, got, zscore>>
modeVars   == <<shadow, manual>>
vars == <<enrichVars, pc, modeVars, stored, contained>>
-------------------------------------------------------------------------------
(* The enrichment context and its risk score (risk_score.compute).         *)

NoTi    == [bad |-> FALSE, kev |-> FALSE, conf |-> 0]
NoAsset == [crit |-> 0, crown |-> FALSE]

Context(t, G, z) ==
    [level |-> t.level, mitre |-> t.mitre,
     anonymous |-> "geo" \in G /\ t.anonymous,
     ti |-> IF "ti" \in G THEN t.ti ELSE NoTi,
     asset |-> IF "asset" \in G THEN t.asset ELSE NoAsset,
     user |-> IF "user" \in G THEN t.user ELSE {},
     vuln |-> IF "vuln" \in G THEN t.vuln ELSE "none",
     z |-> z]

LevelPoints(l) == IF l >= 14 THEN 40 ELSE IF l >= 12 THEN 30 ELSE IF l >= 10 THEN 20
                  ELSE IF l >= 7 THEN 10 ELSE 0

\* In hundredths of a point: 40 points, or 30 times the confidence.
TiPoints(ti) == IF ti.bad \/ ti.kev THEN 4000 ELSE 30 * ti.conf

VulnPoints(v) == IF v = "exploited" THEN 35 ELSE IF v = "matched" THEN 25 ELSE 0

UebaPoints(z) == IF z >= 500 THEN 20 ELSE IF z >= 350 THEN 12 ELSE IF z >= 250 THEN 6 ELSE 0

UserPoints(u) == (IF "privileged" \in u THEN 10 ELSE 0) + (IF "service" \in u THEN 10 ELSE 0)
                 + (IF "dormant" \in u THEN 15 ELSE 0)

\* An anonymizing network counts as Tor and as a bad ASN.  Impossible travel is
\* never found: the asynchronous Redis client hands the check a coroutine.
GeoPoints(anonymous) == IF anonymous THEN 8 + 5 ELSE 0

Points(c) ==
    TiPoints(c.ti) + 100 * (LevelPoints(c.level) + 2 * c.asset.crit + VulnPoints(c.vuln)
                            + UebaPoints(c.z) + UserPoints(c.user) + GeoPoints(c.anonymous)
                            + (IF c.mitre THEN 10 ELSE 0))

\* round(): to the nearest integer, a half to the even one.
RoundHundredths(h) ==
    LET q == h \div 100  r == h % 100
    IN  IF r > 50 \/ (r = 50 /\ q % 2 = 1) THEN q + 1 ELSE q

\* Mutant: the crown-jewel factor taken as a discount.
ScoreDiscounted(c) ==
    LET rounded == RoundHundredths(IF c.asset.crown THEN (Points(c) * 7) \div 10 ELSE Points(c))
    IN  IF rounded > 100 THEN 100 ELSE rounded

Score(c) ==
    LET rounded == RoundHundredths(IF c.asset.crown THEN (Points(c) * 13) \div 10 ELSE Points(c))
    IN  IF rounded > 100 THEN 100 ELSE rounded
-------------------------------------------------------------------------------
(* The gate (decide) and the auto-close policy (should_auto_close).        *)

Levels == <<"suppress", "auto_close", "triage", "escalate", "critical">>

Suppresses(c) == Score(c) < L0Threshold /\ c.level < 7 /\ c.ti.conf = 0

Closes(c) ==
    /\ Score(c) < L1Threshold /\ c.ti.conf = 0 /\ ~c.ti.bad
    /\ c.z < 250 /\ c.vuln = "none" /\ c.level < 10

IsCritical(c)  == Score(c) >= L3Threshold \/ (c.ti.bad /\ c.asset.crown)
IsEscalated(c) == Score(c) >= L2UpperThreshold \/ (c.ti.conf >= 80 /\ c.asset.crit >= 7)

\* The first rule that matches wins; the number of the level.
Decide(c) ==
    IF Suppresses(c) THEN 1 ELSE IF Closes(c) THEN 2
    ELSE IF IsCritical(c) THEN 5 ELSE IF IsEscalated(c) THEN 4 ELSE 3

ShouldAutoClose(c) ==
    /\ c.level < 10 /\ c.ti.conf <= 10 /\ ~c.ti.bad /\ c.z < 250 /\ c.vuln = "none"
    /\ ~c.asset.crown /\ Score(c) < AutoCloseThreshold

Ctx   == Context(truth, got, zscore)
Level == Levels[Decide(Ctx)]
Deterministic == Level \in {"escalate", "critical"}
-------------------------------------------------------------------------------
Severities == {"low", "medium", "high", "critical"}     \* the CHECK of ai_triage_results

\* What the LLM answers, or the result of a provider that failed.
Fallback   == [sev |-> "medium", esc |-> FALSE]
Answer     == [sev : LlmSeverities, esc : BOOLEAN] \union {Fallback}
Verdict    == [sev : Severities, esc : BOOLEAN]

\* What the semantic cache may hold: the stored verdicts of similar L2 alerts,
\* failed ones included; with esc the row would not have been stored.
Cached     == [sev : Severities, esc : {FALSE}]

Containments == {"block_ip", "isolate_host", "disable_user", "quarantine_file"}
Decisions    == {"allow", "deny", "require_approval"}

TypeOK ==
    /\ truth \in Truths
    /\ pending \subseteq Enrichers /\ got \subseteq Enrichers \ pending
    /\ zscore \in Nat
    /\ pc \in {"enrich", "route", "analyze", "suppressed", "closed", "stored", "raised"}
    /\ shadow \in BOOLEAN /\ manual \in BOOLEAN
    /\ stored \in Verdict \union {None}
    /\ contained \in [action : Containments, decision : Decisions] \union {None}

Init ==
    /\ truth \in Truths
    /\ pending = Enrichers /\ got = {} /\ zscore = 0
    /\ pc = "enrich" /\ shadow = FALSE /\ manual = FALSE
    /\ stored = None /\ contained = None
-------------------------------------------------------------------------------
(* Enrichment (pipeline.run).  An enricher that times out, raises, or finds *)
(* the session in use by another one contributes nothing.                   *)

\* _run_ueba_history: max(z, 0.8 * history) if the history is higher.
Boost(z, h) == IF h > z /\ (h * 8) \div 10 > z THEN (h * 8) \div 10 ELSE z

Ends(e) == e \in pending /\ pending' = pending \ {e}

Gather(e) ==
    /\ Ends(e)
    /\ got' = got \union {e}
    /\ zscore' = CASE e = "ueba" /\ truth.live > 0 -> truth.live
                   [] e = "history" -> Boost(zscore, truth.hist)
                   [] OTHER -> zscore
    /\ UNCHANGED <<truth, pc, modeVars, stored, contained>>

Lose(e) == Ends(e) /\ UNCHANGED <<truth, got, zscore, pc, modeVars, stored, contained>>

\* The mode and the kind of the request are first read here, and never change.
ReadModes ==
    /\ pc = "enrich" /\ pending = {} /\ pc' = "route"
    /\ shadow' \in BOOLEAN /\ manual' \in BOOLEAN
    /\ UNCHANGED <<enrichVars, stored, contained>>
-------------------------------------------------------------------------------
(* Routing: where L0 and L1 alerts end, unless shadow mode still triages.  *)

\* Mutant: shadow mode is forgotten.
RouteSuppressInShadow ==
    /\ pc = "route" /\ ~manual /\ Level = "suppress"
    /\ pc' = "suppressed"
    /\ UNCHANGED <<enrichVars, modeVars, stored, contained>>

RouteSuppress ==
    /\ pc = "route" /\ ~manual /\ Level = "suppress"
    /\ pc' = IF shadow /\ StillTriages THEN "analyze" ELSE "suppressed"
    /\ UNCHANGED <<enrichVars, modeVars, stored, contained>>

\* execute_auto_close stores nothing: in shadow mode it logs, in enforce mode
\* the UPDATE names a column that alerts do not have, and the error is caught.
RouteAutoClose ==
    /\ pc = "route" /\ ~manual /\ Level = "auto_close"
    /\ AutoCloseEnabled /\ ShouldAutoClose(Ctx)
    /\ pc' = IF shadow /\ StillTriages THEN "analyze" ELSE "closed"
    /\ UNCHANGED <<enrichVars, modeVars, stored, contained>>

RouteAnalyze ==
    /\ pc = "route"
    /\ \/ manual
       \/ Level \in {"triage", "escalate", "critical"}
       \/ Level = "auto_close" /\ ~(AutoCloseEnabled /\ ShouldAutoClose(Ctx))
    /\ pc' = "analyze"
    /\ UNCHANGED <<enrichVars, modeVars, stored, contained>>
-------------------------------------------------------------------------------
(* The verdict.                                                            *)

\* fuse_verdict, the rules that change the severity.
Fuse(v) ==
    [v EXCEPT !.sev = IF v.sev = "benign" /\ Ctx.ti.bad THEN "suspicious"
                      ELSE IF v.sev = "critical" /\ Score(Ctx) < 40 THEN "high" ELSE @]

\* Mutant: the override only for the critical level.
OverrideCriticalOnly(v) ==
    IF Level = "critical" /\ ~shadow THEN [v EXCEPT !.sev = "critical", !.esc = TRUE] ELSE v

\* L3/L4: the verdict is predetermined, the LLM only narrates.
Override(v) ==
    IF Deterministic /\ ~shadow
      THEN [v EXCEPT !.sev = IF Level = "critical" THEN "critical" ELSE "high", !.esc = TRUE]
      ELSE v

\* validate_triage_output: an unknown severity becomes medium, and keys the
\* schema does not know are dropped.  If another field breaks the schema, the
\* degraded result keeps the verdict as it came.
Validate(v) ==
    {v, [v EXCEPT !.sev = IF @ \in Severities \union {"suspicious"} THEN @ ELSE "medium"]}

\* The escalation case cannot be inserted (tenant_id is missing) unless the
\* incident tracking makes it redundant; the CHECK on severity fails on
\* "suspicious".  Either error is raised by a flush.
Flushes(v) == v.sev \in Severities /\ (v.esc => Deterministic /\ Incident /\ ~manual)

Store(v) ==
    /\ pc = "analyze"
    /\ IF Flushes(v) THEN pc' = "stored" /\ stored' = v ELSE pc' = "raised" /\ UNCHANGED stored
    /\ UNCHANGED <<enrichVars, modeVars, contained>>

\* The LLM answers, or the provider reports a failure.
AnalyzeByLlm(a) ==
    \E v \in Validate(Override(IF Level = "triage" THEN Fuse(a) ELSE a)) : Store(v)

\* A similar L2 alert was triaged before: its verdict, without fusion.
AnalyzeByCache(v) == Level = "triage" /\ \E w \in Validate(v) : Store(w)
-------------------------------------------------------------------------------
(* Containment by a playbook after the verdict (containment_guard).        *)

NetworkContainments == {"block_ip", "isolate_host"}

\* check_policy, the first rule that matches.
CheckPolicy(act, c, score) ==
    IF shadow THEN "deny"
    ELSE IF c.ti.bad /\ act \in NetworkContainments THEN "allow"
    ELSE IF score < 60 \/ c.asset.crown THEN "require_approval"
    ELSE IF score >= 80 \/ act \in NetworkContainments THEN "allow"
    ELSE "require_approval"

\* The identity actions of a playbook build a context from the rule level alone;
\* revoke_sessions is gated as disable_user.
SoarContext(t) == Context([t EXCEPT !.mitre = FALSE], {}, 0)

\* Mutant: the action gated by the score the gate computed for the alert.
ContainByAlertScore(act) ==
    /\ pc = "stored" /\ contained = None
    /\ act \in {"block_ip", "disable_user"}
    /\ contained' = [action |-> act, decision |-> CheckPolicy(act, SoarContext(truth), Score(Ctx))]
    /\ UNCHANGED <<enrichVars, pc, modeVars, stored>>

Contain(act) ==
    /\ pc = "stored" /\ contained = None
    /\ act \in {"block_ip", "disable_user"}
    /\ LET c == SoarContext(truth)
       IN  contained' = [action |-> act, decision |-> CheckPolicy(act, c, Score(c))]
    /\ UNCHANGED <<enrichVars, pc, modeVars, stored>>
-------------------------------------------------------------------------------
Next ==
    \/ (\E e \in Enrichers : Gather(e) \/ Lose(e)) \/ ReadModes
    \/ RouteSuppress \/ RouteAutoClose \/ RouteAnalyze
    \/ (\E a \in Answer : AnalyzeByLlm(a)) \/ (\E v \in Cached : AnalyzeByCache(v))
    \/ \E act \in Containments : Contain(act)

Spec == Init /\ [][Next]_vars
-------------------------------------------------------------------------------
(* Properties.                                                             *)

Silenced == pc \in {"suppressed", "closed"}

\* What the gate would have seen had every enricher delivered.
FullZ   == Boost(truth.live, truth.hist)
FullCtx == Context(truth, Enrichers, FullZ)

\* Fail-open is one-sided: whichever enrichers time out, fail or lose the race
\* for the session, and in whatever order the others write, the risk score never
\* exceeds the score of the full signals, so no outage invents a risk.
FailOpenNeverRaises == Score(Ctx) <= Score(FullCtx)

\* In enforce mode an alert that scores as escalated is stored as high or
\* critical whatever the LLM, the cache, fusion or validation make of it.
DeterministicVerdict ==
    pc = "stored" /\ ~shadow /\ Deterministic =>
        stored.sev \in {"high", "critical"} /\ stored.esc

\* A playbook never disables a user, revokes a session or blocks an address
\* without a human: the rule level alone never earns the points the policy asks.
IdentityActionsNeedHuman == contained # None => contained.decision # "allow"

\* Silence costs nothing that was known.  An alert that ends without analysis has
\* no gathered intelligence hit and no vulnerability, although the L0 test looks at
\* neither a blocklist nor the CVE match and relies on their points exceeding its
\* threshold.  And in shadow mode every alert that passed the noise gate is
\* analysed, whatever its level, and every containment is refused.
SilenceIsHarmless ==
    /\ Silenced => /\ Ctx.ti.conf = 0 /\ ~Ctx.ti.bad /\ ~Ctx.ti.kev
                   /\ Ctx.vuln = "none" /\ Ctx.level < 10
    /\ shadow /\ StillTriages =>
          ~Silenced /\ (contained # None => contained.decision = "deny")
===============================================================================

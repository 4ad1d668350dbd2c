---- MODULE MCServices ----
(***************************************************************************)
(* Services for TLC.  Its parts share no row, so a behaviour runs one of   *)
(* them, the one active names; the others rest.                            *)
(***************************************************************************)
EXTENDS Services, TLC

CONSTANTS a1, a2, a3, u1

VARIABLE active

caseVars == <<row, timeline, notes, caseStep, caseRequest, requests>>
chainVars == <<incident, linked, elsewhere, chainRun, chainRuns, correlated, guessed>>
ratingVars == <<ratingAt, rating, triage, seen, average, unwritten, ratingQueue, counted,
                ratingLost, ratingFaults>>
baseVars == <<baselines, session, passes, levels, anomalies>>
vulnVars == <<vulnRows, pass, vulnPasses, cycle, feedsUp, outages>>
accountVars == <<user, tenant, accountRequest, tokens, accountNow, accountRequests, loginFailures,
                 granted, saved>>
pageVars == <<shared, request, page, store, brand, sessions, added, removed, wiped, second, pageFaults>>
llmVars == <<strategy, escalation, calls, line>>

(* A host, a user, and the alert that has both. *)
MCEntitiesOf == a1 :> {"host"} @@ a2 :> {"host", "user"} @@ a3 :> {"user"}
MCStageOfAlert == a1 :> "none" @@ a2 :> "execution" @@ a3 :> "lateral_movement"

(* Requests with either credential or both, or none; from outside; and a login.  One *)
(* token has no tenant.                                                              *)
MkShape(needs, token, key, inside, login) ==
  [needs |-> needs, token |-> token, key |-> key, inside |-> inside, login |-> login,
   commits |-> login]
MCShapes ==
  { MkShape("key", "none", "valid", TRUE, FALSE), MkShape("token", "valid", "none", TRUE, FALSE),
    MkShape("key", "valid", "valid", TRUE, FALSE), MkShape("key", "none", "none", TRUE, FALSE),
    MkShape("token", "untenanted", "valid", TRUE, FALSE),
    MkShape("key", "none", "valid", FALSE, FALSE), MkShape("nothing", "none", "none", TRUE, TRUE) }

(* One slot, two analyses; an alert for the full tier and one for the fast one, unless *)
(* what its lookups would tell raises it.                                              *)
MCAlerts == {{"level", "critical"}, {"level", "bad_ip", "inaccurate", "complained", "burst"}}

ASSUME RequestAssumption

MCInit ==
  /\ active \in {"cases", "chain", "ratings", "baselines", "vulnerabilities", "path", "pages",
                 "llm", "accounts"}
  /\ C!Init /\ K!Init /\ F!Init /\ U!Init /\ V!Init /\ Init /\ D!Init /\ L!Init /\ A!Init
  /\ active # "chain" => linked = {a1} /\ elsewhere = {}
  /\ active # "pages" => sessions = {u1}
  /\ active # "llm" => strategy = "auto" /\ escalation = FALSE

Rest(others) == UNCHANGED <<active, others>>
MCNext ==
  \/ /\ active = "cases" /\ C!Next
     /\ Rest(<<chainVars, ratingVars, baseVars, vulnVars, vars, pageVars, accountVars, llmVars>>)
  \/ /\ active = "chain" /\ K!Next
     /\ Rest(<<caseVars, ratingVars, baseVars, vulnVars, vars, pageVars, accountVars, llmVars>>)
  \/ /\ active = "ratings" /\ F!Next
     /\ Rest(<<caseVars, chainVars, baseVars, vulnVars, vars, pageVars, accountVars, llmVars>>)
  \/ /\ active = "baselines" /\ U!Next
     /\ Rest(<<caseVars, chainVars, ratingVars, vulnVars, vars, pageVars, accountVars, llmVars>>)
  \/ /\ active = "vulnerabilities" /\ V!Next
     /\ Rest(<<caseVars, chainVars, ratingVars, baseVars, vars, pageVars, accountVars, llmVars>>)
  \/ /\ active = "path" /\ Next
     /\ Rest(<<caseVars, chainVars, ratingVars, baseVars, vulnVars, pageVars, accountVars, llmVars>>)
  \/ /\ active = "pages" /\ D!Next
     /\ Rest(<<caseVars, chainVars, ratingVars, baseVars, vulnVars, vars, accountVars, llmVars>>)
  \/ /\ active = "llm" /\ L!Next
     /\ Rest(<<caseVars, chainVars, ratingVars, baseVars, vulnVars, vars, pageVars, accountVars>>)
  \/ /\ active = "accounts" /\ A!Next
     /\ Rest(<<caseVars, chainVars, ratingVars, baseVars, vulnVars, vars, pageVars, llmVars>>)

MCSpec ==
  /\ MCInit
  /\ [][MCNext]_<<active, caseVars, chainVars, ratingVars, baseVars, vulnVars, vars, pageVars,
                accountVars, llmVars>>
  /\ WF_ratingVars(active = "ratings" /\ F!Work)
  /\ \A e \in Enrichers : WF_vulnVars(active = "vulnerabilities" /\ V!Enrich(e))
  /\ \A c \in Calls : WF_llmVars(active = "llm" /\ L!Work(c))

(* Every rating that was pushed is counted, every stored vulnerability is enriched once *)
(* the feeds stay up, and every analysis ends.                                          *)
ServicesSettle ==
  /\ active = "ratings" => F!RatingsCounted
  /\ active = "vulnerabilities" => V!EveryRowEnriched
  /\ active = "llm" => L!AnalysesEnd

(* The types of the components. *)
Types ==
  /\ C!TypeOK /\ K!TypeOK /\ F!TypeOK /\ U!TypeOK /\ V!TypeOK /\ TypeOK /\ D!TypeOK
  /\ L!TypeOK /\ A!TypeOK
====

---- MODULE MCAutomation ----
(***************************************************************************)
(* Automation for TLC.  A behaviour runs one of its parts, the one part    *)
(* names; the others rest.                                                 *)
(***************************************************************************)
EXTENDS Automation, TLC

CONSTANTS r1, r2, t1, t2, t3

VARIABLE part

soarVars == <<there, active, asked, gone, edits, loaded,
              pass, book, step, severity, broken, status, pending, runs, requests, elsewhere, open,
              granted, out, acted, soarFaults>>
clockVars == <<minute, checks, todo, lastFired, firing, definedAt, spawned, restarts, clockFaults>>
flowVars == <<alert, flow, calls, executed>>

MCConfig == r1 :> <<1, 1, 1>> @@ r2 :> <<1, 2>>
MCPlaybooks == {<<r1, 2>>, <<r2, 1>>}

(* Three playbooks: the first raises the severity that triggers the others, of which the *)
(* first breaks the pass; all contain the same user.                                     *)
Act(type, arg, stop) == [type |-> type, arg |-> arg, stop |-> stop]
MCBooks ==
  << [on |-> {"high"}, actions |-> << Act("contain", "user", FALSE), Act("set_severity", "critical", FALSE) >>],
     [on |-> {"critical"}, actions |-> << Act("notify", "", FALSE), Act("contain", "user", FALSE),
                                          Act("create_case", "", FALSE) >>],
     [on |-> {"critical"}, actions |-> << Act("contain", "user", TRUE), Act("webhook", "", FALSE) >>] >>

(* Two triggers of one agent, and one whose list holds a step; hours of four minutes. *)
MCAgentOf == t1 :> "triage" @@ t2 :> "triage" @@ t3 :> "notify"
Always == [kind |-> "any"]
MCExpr ==
  t1 :> [minute |-> [kind |-> "step", over |-> <<1, 3>>, by |-> 2], hour |-> Always] @@
  t2 :> [minute |-> [kind |-> "list", of |-> {<<1, 1>>, <<2, 3>>}],
         hour |-> [kind |-> "list", of |-> {<<0, 0>>}]] @@
  t3 :> [minute |-> [kind |-> "mixed", items |-> {[over |-> <<0, 3>>, by |-> 2]}], hour |-> Always]

(* A step is quoted before and after it has an output, and two share a name. *)
Do(type, quotes) == [type |-> type, quotes |-> quotes]
MCSteps ==
  << [name |-> "lookup", if |-> "always", provider |-> "vt", actions |-> << Do("enrich", "none") >>],
     [name |-> "known", if |-> "intel", provider |-> "none",
      actions |-> << Do("gated_containment", "lookup") >>],
     [name |-> "lookup", if |-> "level", provider |-> "vt",
      actions |-> << Do("create_case", "lookup"), Do("notify", "report") >>],
     [name |-> "report", if |-> "always", provider |-> "mail", actions |-> << Do("notify", "lookup") >>] >>

MCInit ==
  /\ part \in {"agents", "playbooks", "clock", "workflow"}
  /\ Init /\ Soar!Init /\ Clock!Init /\ Flow!Init
  /\ part # "playbooks" => there = 1..Len(SoarBooks)
  /\ part # "workflow" => alert = {}

MCNext ==
  /\ UNCHANGED part
  /\ \/ part = "agents" /\ Next /\ UNCHANGED <<soarVars, clockVars, flowVars>>
     \/ part = "playbooks" /\ Soar!Next /\ UNCHANGED <<vars, clockVars, flowVars>>
     \/ part = "clock" /\ Clock!Next /\ UNCHANGED <<vars, soarVars, flowVars>>
     \/ part = "workflow" /\ Flow!Next /\ UNCHANGED <<vars, soarVars, clockVars>>

MCSpec ==
  /\ MCInit /\ [][MCNext]_<<part, vars, soarVars, clockVars, flowVars>>
  /\ \A s \in Spawners : WF_vars(part = "agents" /\ \E r \in Runs : Push(s, r))
  /\ \A w \in Workers : WF_vars(part = "agents" /\ Work(w))

(* The types of the four components. *)
Types == TypeOK /\ Soar!TypeOK /\ Clock!TypeOK /\ Flow!TypeOK
====

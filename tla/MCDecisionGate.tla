---------------------------- MODULE MCDecisionGate ----------------------------
(* Small instances of DecisionGate for TLC. *)
EXTENDS DecisionGate

Domain ==
    [level : {5, 8, 14}, mitre : {FALSE}, anonymous : {FALSE},
     ti : {NoTi, [bad |-> FALSE, kev |-> FALSE, conf |-> 5],
           [bad |-> FALSE, kev |-> TRUE, conf |-> 0], [bad |-> TRUE, kev |-> FALSE, conf |-> 90]},
     asset : {NoAsset, [crit |-> 3, crown |-> TRUE], [crit |-> 7, crown |-> FALSE]},
     user : {{}, {"privileged", "dormant"}}, vuln : {"none", "matched"},
     live : {0, 400}, hist : {0, 600}]

\* How many of the enrichers have something to find.
Findings(t) ==
    Cardinality({e \in Enrichers :
        CASE e = "geo"     -> t.anonymous
          [] e = "ti"      -> t.ti # NoTi
          [] e = "asset"   -> t.asset # NoAsset
          [] e = "user"    -> t.user # {}
          [] e = "vuln"    -> t.vuln # "none"
          [] e = "ueba"    -> t.live > 0
          [] e = "history" -> t.hist > 0})

Pairs   == {t \in Domain : Findings(t) <= 2}
Answers == {"benign", "critical"}
===============================================================================

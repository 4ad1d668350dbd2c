------------------------- MODULE MCIncidentStitching -------------------------
(* Small instances of IncidentStitching for TLC. *)
EXTENDS IncidentStitching, TLC

CONSTANTS c1, c2, a1, a2, a3, a4, x, y, i1, i2, i3

\* Two alerts name both entities, in either order; the others name one.
Named    == (a1 :> <<x, y>>) @@ (a2 :> <<y, x>>) @@ (a3 :> <<x>>) @@ (a4 :> <<y>>)
Observed == [a \in Alerts |-> Named[a]]
OneEach  == [a \in Alerts |-> 1]
Twice    == [a \in Alerts |-> IF a \in {a1, a3} THEN 2 ELSE 1]
==============================================================================

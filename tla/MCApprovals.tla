------------------------------ MODULE MCApprovals ------------------------------
(* Small instances of Approvals for TLC. *)
EXTENDS Approvals, TLC

CONSTANTS r1, r2, v1, v2, g1, g2, g3, g4, k1, k2

\* One guarded action in each mode, all on one target; or the last two on another.
Modal      == (g1 :> "approval") @@ (g2 :> "read-only") @@ (g3 :> "full") @@ (g4 :> "deny")
Mixed      == [g \in Runs |-> Modal[g]]
OneAction  == [g \in Runs |-> k1]
TwoActions == [g \in Runs |-> IF g \in {g1, g2} THEN k1 ELSE k2]
================================================================================

--------------------------- MODULE MCTriagePipeline ---------------------------
(* Small instances of TriagePipeline for TLC. *)
EXTENDS TriagePipeline, TLC

CONSTANTS w1, w2, a1, a2, r1, r2

\* Workers are interchangeable.
Symmetry == Permutations(Workers)
===============================================================================

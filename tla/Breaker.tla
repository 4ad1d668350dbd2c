------------------------------- MODULE Breaker -------------------------------
(***************************************************************************)
(* The state of one CircuitBreaker object and the three decisions its code *)
(* takes on it (shared/connectors/circuit_breaker.py).  The components     *)
(* that own a breaker use these operators on a variable of their own.      *)
(*                                                                         *)
(* The monotonic clock is abstracted to the one thing the code asks of it: *)
(* cooled says whether recovery_timeout has elapsed since opened_at.  It   *)
(* becomes TRUE some time after the circuit opened and, as opened_at is    *)
(* never refreshed, stays TRUE until the state object is replaced.         *)
(* failures saturates at the threshold, the only value it is compared to.  *)
(***************************************************************************)
EXTENDS Naturals

CONSTANT BreakerThreshold     \* failure_threshold

ASSUME BreakerThresholdAssumption == BreakerThreshold \in Nat \ {0}

BreakerState == [failures : 0 .. BreakerThreshold, opened : BOOLEAN, cooled : BOOLEAN]

\* CircuitBreakerState(): what a success, or a new object, starts from.
FreshBreaker == [failures |-> 0, opened |-> FALSE, cooled |-> FALSE]

\* _check_state lets the call through.
Admits(b) == b.failures < BreakerThreshold \/ (b.opened /\ b.cooled)

\* _register_failure: opened_at is set once and never moved.
AfterFailure(b) ==
    LET reached == b.failures + 1 >= BreakerThreshold
    IN  [b EXCEPT !.failures = IF reached THEN BreakerThreshold ELSE @ + 1,
                  !.opened = IF reached THEN TRUE ELSE @]

\* The recovery timeout of an open circuit elapses.
CanCool(b) == b.opened /\ ~b.cooled
AfterCooling(b) == [b EXCEPT !.cooled = TRUE]
==============================================================================

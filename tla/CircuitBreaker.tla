---------------------------- MODULE CircuitBreaker ----------------------------
(***************************************************************************)
(* One CircuitBreaker object shared by overlapping calls, which the class  *)
(* is written for (circuit_breaker.py:28 keeps a lock).  The lock covers   *)
(* the check and the bookkeeping but not the call itself, so a call that   *)
(* began before the circuit opened reports its outcome to whatever state   *)
(* it then finds.                                                          *)
(***************************************************************************)
EXTENDS Breaker, FiniteSets

CONSTANT Callers

VARIABLES
    breaker,   \* the current state object
    calling,   \* calls that passed the check and have not returned
    up,        \* does the remote service answer?
    streak     \* history: failures reported since the last success, up to the threshold

vars == <<breaker, calling, up, streak>>

TypeOK ==
    /\ breaker \in BreakerState
    /\ calling \subseteq Callers
    /\ up \in BOOLEAN
    /\ streak \in 0 .. BreakerThreshold

Init ==
    /\ breaker = FreshBreaker
    /\ calling = {}
    /\ up = TRUE /\ streak = 0

\* call: _check_state under the lock.  A refused call changes nothing, as
\* opened_at is always set by the failure that reached the threshold.
Enter(c) ==
    /\ c \notin calling
    /\ Admits(breaker)
    /\ calling' = calling \union {c}
    /\ UNCHANGED <<breaker, up, streak>>

\* Mutant: a success only forgets one failure.
SucceedOnce(c) ==
    /\ c \in calling /\ up
    /\ breaker' = [breaker EXCEPT !.failures = IF @ > 0 THEN @ - 1 ELSE 0]
    /\ streak' = 0
    /\ calling' = calling \ {c}
    /\ UNCHANGED up

\* The state object is replaced, whatever happened since the call began.
Succeed(c) ==
    /\ c \in calling /\ up
    /\ breaker' = FreshBreaker
    /\ streak' = 0
    /\ calling' = calling \ {c}
    /\ UNCHANGED up

Fail(c) ==
    /\ c \in calling /\ ~up
    /\ breaker' = AfterFailure(breaker)
    /\ streak' = IF streak < BreakerThreshold THEN streak + 1 ELSE streak
    /\ calling' = calling \ {c}
    /\ UNCHANGED up

\* Mutant: recovery_timeout never elapses.
CoolNever == FALSE /\ UNCHANGED vars

Cool ==
    /\ CanCool(breaker)
    /\ breaker' = AfterCooling(breaker)
    /\ UNCHANGED <<calling, up, streak>>

Flip == up' = ~up /\ UNCHANGED <<breaker, calling, streak>>

Next == Cool \/ Flip \/ \E c \in Callers : Enter(c) \/ Succeed(c) \/ Fail(c)

Spec == Init /\ [][Next]_vars

\* Time passes, calls return (they have timeouts), and callers keep calling.
FairSpec ==
    /\ Spec /\ WF_vars(Cool)
    /\ \A c \in Callers : WF_vars(Enter(c)) /\ WF_vars(Succeed(c) \/ Fail(c))
-------------------------------------------------------------------------------
\* The circuit is never held open by scattered failures: whenever calls are
\* refused, at least failure_threshold failures were reported with no success in
\* between, in whatever order overlapping calls return; and the failure that
\* reached the threshold has stamped opened_at, so the timeout can elapse.
OpenOnlyOnStreak == ~Admits(breaker) => streak = BreakerThreshold /\ breaker.opened

\* What OpenOnlyOnStreak rests on.
BreakerInv ==
    /\ TypeOK
    /\ breaker.failures = streak
    /\ breaker.opened <=> breaker.failures = BreakerThreshold
    /\ breaker.cooled => breaker.opened

\* Once the service answers for good, the circuit closes for good: no call is
\* refused any more, even though late failures of overlapping calls may have
\* re-armed it.
RecoversForGood == <>[]up => <>[](Admits(breaker) /\ ~breaker.opened)
===============================================================================

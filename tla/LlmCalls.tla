------------------------------ MODULE LlmCalls ------------------------------
(***************************************************************************)
(* The analyses one process asks of language models: the tier TieredRouter *)
(* picks for an alert (shared/connectors/llm_router.py), and the calls of  *)
(* the providers (llm_provider.py, llm_gemini.py, llm_claude.py,           *)
(* llm_openai.py).  Local generations queue for one semaphore and are      *)
(* retried while they hold it; a cloud provider is asked once.             *)
(*                                                                         *)
(* An alert is the set of the signals the score counts.  force_escalation  *)
(* is passed by no caller and left out.                                    *)
(***************************************************************************)
EXTENDS Breaker, Integers, Sequences, FiniteSets

CONSTANTS Calls,        \* analyses: each builds a provider object of its own
          Alerts,       \* sets of signals
          Limit,        \* llm_max_concurrency
          MaxRetries,   \* llm_max_retries
          Cloud         \* tiers whose configured provider is not Ollama; "default" is llm_provider

Lookups == {"critical", "inaccurate", "complained"}
Signals == Lookups \cup {"level", "bad_ip", "complex", "burst"}
Tiers == <<"fast", "full", "escalation">>
Kinds == {"scored", "pinned", "plain"}

LlmAssumption ==
  /\ Alerts \subseteq SUBSET Signals
  /\ Limit \in Nat \ {0} /\ MaxRetries \in Nat
  /\ Cloud \subseteq {"default", "fast", "full", "escalation"}
  /\ BreakerThreshold \in Nat \ {0}

VARIABLES strategy,     \* llm_tier_strategy
          escalation,   \* llm_tier_escalation_enabled
          calls,        \* what became of each analysis
          line          \* those that wait for the semaphore, which is FIFO

vars == <<strategy, escalation, calls, line>>

At(phase) == {c \in Calls : calls[c].phase = phase}

TypeOK ==
  /\ strategy \in {"fast", "full", "auto"} /\ escalation \in BOOLEAN
  /\ \A c \in Calls :
       /\ calls[c].phase \in {"new", "waiting", "asking", "cloud", "done"}
       /\ calls[c].kind \in Kinds /\ calls[c].alert \in Alerts \cup {{}}
       /\ calls[c].tier \in 0..3 /\ calls[c].attempts \in 0..MaxRetries + 1
       /\ calls[c].cb \in BreakerState
       /\ calls[c].error \in {"none", "transient", "bad", "circuit"}
  /\ line \in Seq(Calls)

Init ==
  /\ strategy \in {"fast", "full", "auto"} /\ escalation \in BOOLEAN
  /\ calls = [c \in Calls |-> [phase |-> "new", kind |-> "plain", alert |-> {}, tier |-> 0,
                               attempts |-> 0, cb |-> FreshBreaker, error |-> "none"]]
  /\ line = <<>>

-----------------------------------------------------------------------------
(* _compute_score, and the tier of a score. *)
Points(signal, alert, weight) == IF signal \in alert THEN weight ELSE 0
Score(alert) ==
  Points("level", alert, 3) + Points("bad_ip", alert, 2) + Points("critical", alert, 2)
  + Points("inaccurate", alert, 2) + Points("complex", alert, 1) + Points("burst", alert, -2)
  + Points("complained", alert, 2)

TierOf(score) ==
  IF escalation /\ score >= 7 THEN 3 ELSE IF score >= 4 THEN 2 ELSE 1

(* Mutant: a lookup that fails counts its points. *)
KnownPessimist(alert, failing) == alert \cup failing

(* A lookup that fails answers "nothing known": no points. *)
Known(alert, failing) == alert \ failing

(* get_provider of the router.  The pin of a downgraded or a manual alert comes first. *)
Tier(kind, signals) ==
  IF kind = "pinned" \/ strategy = "fast" THEN 1
  ELSE IF strategy = "full" THEN 2 ELSE TierOf(Score(signals))

(* The handlers and the report generator take the one provider of get_provider(): tier 0. *)
Local(tier) == (IF tier = 0 THEN "default" ELSE Tiers[tier]) \notin Cloud

Route(c) ==
  /\ calls[c].phase = "new"
  /\ \E kind \in Kinds, alert \in Alerts, failing \in SUBSET Lookups :
       LET tier == IF kind = "plain" THEN 0 ELSE Tier(kind, Known(alert, failing))
       IN  /\ calls' = [calls EXCEPT ![c].phase = IF Local(tier) THEN "waiting" ELSE "cloud",
                          ![c].kind = kind, ![c].tier = tier,
                          ![c].alert = IF kind = "scored" THEN alert ELSE {}]
           /\ line' = IF Local(tier) THEN Append(line, c) ELSE line
  /\ UNCHANGED <<strategy, escalation>>

(* One more attempt inside the semaphore, unless the circuit of the provider is open. *)
Attempt(call) ==
  IF Admits(call.cb)
  THEN [call EXCEPT !.phase = "asking", !.attempts = @ + 1]
  ELSE [call EXCEPT !.phase = "done", !.error = "circuit"]

(* Defect form: an analysis that ends in an error does not give its slot back. *)
BeginUnreleased(c) ==
  /\ line # <<>> /\ c = Head(line)
  /\ Cardinality(At("asking") \cup {d \in Calls : calls[d].error \in {"bad", "transient"}}) < Limit
  /\ line' = Tail(line)
  /\ calls' = [calls EXCEPT ![c] = Attempt(@)]
  /\ UNCHANGED <<strategy, escalation>>
Begin(c) ==
  /\ line # <<>> /\ c = Head(line)
  /\ Cardinality(At("asking")) < Limit
  /\ line' = Tail(line)
  /\ calls' = [calls EXCEPT ![c] = Attempt(@)]
  /\ UNCHANGED <<strategy, escalation>>

(* Whatever text comes back makes a result: parse_llm_response never fails. *)
Answer(c) ==
  /\ calls[c].phase = "asking"
  /\ calls' = [calls EXCEPT ![c].phase = "done"]
  /\ UNCHANGED <<strategy, escalation, line>>

(* A timeout, a refused or a broken connection is retried at once, the slot kept. *)
Transient(c) ==
  /\ calls[c].phase = "asking"
  /\ LET failed == [calls[c] EXCEPT !.cb = AfterFailure(@)]
     IN  calls' = [calls EXCEPT ![c] =
           IF failed.attempts <= MaxRetries THEN Attempt(failed)
           ELSE [failed EXCEPT !.phase = "done", !.error = "transient"]]
  /\ UNCHANGED <<strategy, escalation, line>>

(* Any other error, an HTTP status say, is not. *)
BadResponse(c) ==
  /\ calls[c].phase = "asking"
  /\ calls' = [calls EXCEPT ![c].phase = "done", ![c].error = "bad"]
  /\ UNCHANGED <<strategy, escalation, line>>

(* A cloud provider is asked once; its failures are results too. *)
CloudReturns(c) ==
  /\ calls[c].phase = "cloud"
  /\ \E error \in {"none", "bad"} :
       calls' = [calls EXCEPT ![c].phase = "done", ![c].error = error]
  /\ UNCHANGED <<strategy, escalation, line>>

Work(c) == Begin(c) \/ Answer(c) \/ Transient(c) \/ BadResponse(c) \/ CloudReturns(c)
Next == \E c \in Calls : Route(c) \/ Work(c)

(* Requests have timeouts and a released semaphore wakes the next in line. *)
Spec == Init /\ [][Next]_vars /\ \A c \in Calls : WF_vars(Work(c))

-----------------------------------------------------------------------------
(* "CPU-only Ollama can only run one generation at a time": no more generations than     *)
(* the limit, retries included, and no analysis asks more than once plus its retries.    *)
(* The breaker of a provider, with its threshold above the attempts of one analysis,     *)
(* refuses nothing.  No scored alert gets a dearer tier than all that is true of it      *)
(* justifies, whichever lookups failed, and none is escalated while that is disabled.    *)
ModelUseBounded ==
  /\ Cardinality(At("asking")) <= Limit
  /\ \A c \in Calls :
       /\ calls[c].attempts <= MaxRetries + 1
       /\ MaxRetries < BreakerThreshold => calls[c].error # "circuit"
       /\ calls[c].kind = "pinned" => calls[c].tier = 1
       /\ calls[c].kind = "scored" =>
            \/ calls[c].tier <= TierOf(Score(calls[c].alert))
            \/ strategy = "full" /\ calls[c].tier = 2
       /\ calls[c].tier = 3 => escalation

(* Every analysis ends, with a result or an error, however many wait for the one slot. *)
AnalysesEnd == <>[](\A c \in Calls : calls[c].phase \in {"new", "done"})
=============================================================================

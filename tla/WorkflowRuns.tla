---------------------------- MODULE WorkflowRuns ----------------------------
(***************************************************************************)
(* The workflow engine (shared/workflows/engine.py): the steps of a        *)
(* workflow in order, each with a condition on the alert, a call of a      *)
(* provider whose answer later steps may quote, and built-in actions.  One *)
(* workflow is run twice on one alert, for real and as a dry run.          *)
(*                                                                         *)
(* An alert is abstracted to the facts its activation holds: "level" (the  *)
(* rule's) and "intel" (the indicator is known).  An action is its type    *)
(* and the step it quotes; a text is abstracted to the output it quotes.   *)
(***************************************************************************)
EXTENDS Naturals, Sequences

CONSTANTS Triggers,     \* the workflow's triggers, see TriggerKinds
          Steps,        \* [name, if, provider, actions : sequence of [type, quotes]]
          Providers     \* registered provider types

(* The condition of a step: "always" (none) or a fact.  An alert trigger is its fact, or *)
(* "absent" without an expression; "called" is a trigger of any other type.  "none"      *)
(* stands for no provider and for no quoted step.                                        *)
Expressions == {"always", "level", "intel"}
TriggerKinds == {"called", "absent", "level", "intel"}
Types == {"enrich", "create_case", "gated_containment", "notify"}
Names == {Steps[i].name : i \in 1..Len(Steps)}
WorkflowAssumption ==
  /\ Triggers \subseteq TriggerKinds /\ "none" \notin Providers
  /\ Steps \in Seq([name : STRING, if : Expressions, provider : STRING,
                    actions : Seq([type : Types, quotes : Names \cup {"none"}])])

VARIABLES alert,        \* the facts that hold of the alert
          run,          \* per mode: next step, skipped steps, intended actions, outputs
          calls,        \* provider calls made, per mode (history)
          executed      \* built-in actions executed, per mode (history)

vars == <<alert, run, calls, executed>>

Modes == {"real", "dry"}
Outputs == {"absent", "data", "error", "dry"}
Ended == Len(Steps) + 1

TypeOK ==
  /\ alert \subseteq {"level", "intel"}
  /\ run \in [Modes -> [at : 0..Ended, skipped : SUBSET (1..Len(Steps)),
                        intended : Seq(Types \X Outputs), output : [Names -> Outputs]]]
  /\ calls \in [Modes -> Nat] /\ executed \in [Modes -> Nat]

Init ==
  /\ alert \in SUBSET {"level", "intel"}
  /\ run = [m \in Modes |-> [at |-> 0, skipped |-> {}, intended |-> <<>>,
                             output |-> [n \in Names |-> "absent"]]]
  /\ calls = [m \in Modes |-> 0]
  /\ executed = [m \in Modes |-> 0]

-----------------------------------------------------------------------------
(* match_trigger: an alert trigger sees every key of the activation, and never matches *)
(* without an expression.                                                              *)
TriggerHolds(kind) == kind = "called" \/ kind \in alert
(* _eval_condition: a step sees the alert and its score only; any other key is an *)
(* error, and an error counts as false.                                           *)
StepHolds(expr) == expr = "always" \/ (expr = "level" /\ expr \in alert)

(* run: one trigger has to match, or no step is run. *)
Trigger(m) ==
  /\ run[m].at = 0
  /\ run' = [run EXCEPT ![m].at = IF \E t \in Triggers : TriggerHolds(t) THEN 1 ELSE Ended]
  /\ UNCHANGED <<alert, calls, executed>>

Running(m) == run[m].at \in 1..Len(Steps)
Step(m) == Steps[run[m].at]

(* Defect form: a dry run shows every step. *)
HoldsRealOnly(m) == m = "dry" \/ StepHolds(Step(m).if)
(* The condition of the step at hand. *)
Holds(m) == StepHolds(Step(m).if)

(* A step whose condition fails. *)
Skip(m) ==
  /\ Running(m) /\ ~Holds(m)
  /\ run' = [run EXCEPT ![m].skipped = @ \cup {run[m].at}, ![m].at = @ + 1]
  /\ UNCHANGED <<alert, calls, executed>>

(* Defect form: the provider is asked in either mode. *)
AnswersAsked(m) ==
  IF Step(m).provider = "none" THEN {"absent"}
  ELSE IF Step(m).provider \notin Providers THEN {"error"} ELSE {"data", "error"}
(* _call_provider: an unknown provider and a failed call answer an error; a dry run *)
(* answers that it is one.                                                          *)
Answers(m) ==
  IF Step(m).provider = "none" THEN {"absent"}
  ELSE IF Step(m).provider \notin Providers THEN {"error"}
  ELSE IF m = "dry" THEN {"dry"} ELSE {"data", "error"}

(* interpolate: a step that has no output yet is quoted as the empty string. *)
Quoted(m, action) == IF action.quotes = "none" THEN "absent" ELSE run[m].output[action.quotes]

(* _run_step: the provider, then every action; a failed action does not stop the    *)
(* next.  The output is stored under the step's name after them.                    *)
RunStep(m) ==
  /\ Running(m) /\ Holds(m)
  /\ \E answer \in Answers(m) :
       /\ run' = [run EXCEPT ![m] = [at |-> run[m].at + 1, skipped |-> run[m].skipped,
            intended |-> run[m].intended \o [i \in 1..Len(Step(m).actions) |->
                <<Step(m).actions[i].type, Quoted(m, Step(m).actions[i])>>],
            output |-> IF answer = "absent" THEN run[m].output
                       ELSE [run[m].output EXCEPT ![Step(m).name] = answer]]]
       /\ calls' = [calls EXCEPT ![m] = @ +
            (IF Step(m).provider \in Providers /\ answer # "dry" THEN 1 ELSE 0)]
  /\ executed' = [executed EXCEPT ![m] = IF m = "dry" THEN @ ELSE @ + Len(Step(m).actions)]
  /\ UNCHANGED alert

Next == \E m \in Modes : Trigger(m) \/ Skip(m) \/ RunStep(m)

Spec == Init /\ [][Next]_vars

-----------------------------------------------------------------------------
(* A dry run asks no provider and executes nothing, a real run executes exactly     *)
(* what it lists as intended (engine.py:139-147, 196-198), and the dry run foretells *)
(* the real one: the same steps are skipped and the same actions listed; a text      *)
(* differs only where it quotes a provider's answer.                                 *)
DryRunForetells ==
  /\ calls["dry"] = 0 /\ executed["dry"] = 0
  /\ executed["real"] = Len(run["real"].intended)
  /\ (\A m \in Modes : run[m].at = Ended) =>
       /\ run["real"].skipped = run["dry"].skipped
       /\ Len(run["real"].intended) = Len(run["dry"].intended)
       /\ \A i \in 1..Len(run["real"].intended) :
            LET real == run["real"].intended[i]
                dry == run["dry"].intended[i]
            IN /\ real[1] = dry[1]
               /\ real[2] # dry[2] => dry[2] = "dry" /\ real[2] \in {"data", "error"}
=============================================================================

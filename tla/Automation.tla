----------------------------- MODULE Automation -----------------------------
(***************************************************************************)
(* What acts on its own: agent runs (extended), the clock that triggers    *)
(* them, the playbooks of the triage worker and the workflow engine.  They *)
(* meet only through the run rows that AgentRuns has.  Names that several  *)
(* of them use are told apart here.                                        *)
(***************************************************************************)
EXTENDS AgentRuns

CONSTANTS
  SoarBooks, Targets, FirstSeverity, MaxPasses, MaxSoarFaults, MaxEdits,    \* SoarRuns
  Clocks, AgentOf, Expr, Replicas, Hour, MaxMinute, MaxClockFaults,         \* TriggerClock
  FlowTriggers, FlowSteps, Providers                                        \* WorkflowRuns

VARIABLES
  there, active, asked, gone, edits, loaded,
  pass, book, step, severity, broken, status, pending, runs, requests, elsewhere, open, granted,
  out, acted, soarFaults,
  minute, checks, todo, lastFired, firing, definedAt, spawned, restarts, clockFaults,
  alert, flow, calls, executed

Soar == INSTANCE SoarRuns WITH Playbooks <- SoarBooks, Severity <- FirstSeverity,
       MaxFaults <- MaxSoarFaults, faults <- soarFaults
Clock == INSTANCE TriggerClock WITH Triggers <- Clocks, MaxFaults <- MaxClockFaults,
       faults <- clockFaults
Flow == INSTANCE WorkflowRuns WITH Triggers <- FlowTriggers, Steps <- FlowSteps, run <- flow

ASSUME AutomationAssumption == Soar!PlaybookAssumption /\ Clock!TriggerAssumption /\ Flow!WorkflowAssumption

-----------------------------------------------------------------------------
(* The properties the components state. *)
PlaybooksTellTruth == Soar!PlaybooksTellTruth
FiresAsNamed == Clock!FiresAsNamed
DryRunForetells == Flow!DryRunForetells
=============================================================================

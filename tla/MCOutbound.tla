---- MODULE MCOutbound ----
(***************************************************************************)
(* Outbound for TLC.  Its parts share no state, so a behaviour runs one of *)
(* them, the one active names; the others rest.                            *)
(***************************************************************************)
EXTENDS Outbound, TLC

CONSTANTS v1, n1, email, o3

MCIndicatorsOf == [a \in Alerts |-> {v1}]
MCNameOf == [t \in Targets |-> IF t = o3 THEN email ELSE n1]

VARIABLE active

ticketVars == <<caseStatus, edits, remote, sent, links, cycle, aborted, ticketFaults>>
reportVars == <<now, accepted, lastRun, firstRun, check, sending, delivered, logged, reportFaults>>
notifyVars == <<notifyQueue, hand, failing, reached, notifyDead, lost, notifyFaults>>
intelVars == <<known, intelQueue, cache, iocs, matches, job, feed, pushes, done, intelDead,
               intelFaults>>
healthVars == <<env, events, phase, call, client, failures, result, stored, newest, gauges,
                ever, always, disturbed>>
assetVars == <<agents, copies, asset, sync, lastSync, cycles, changes>>
osintVars == <<place, lookupQueue, lookup, scan, file, found, web, lookupFaults>>

MCInit ==
  /\ active \in {"tickets", "reports", "notifications", "intel", "breaker", "health", "assets", "lookups"}
  /\ Init /\ T!Init /\ R!Init /\ N!Init /\ I!Init /\ H!Init /\ S!Init /\ O!Init
  /\ active # "reports" => accepted = {} /\ lastRun = [s \in Schedules |-> 0]
  /\ active # "intel" => known = {}
  /\ active # "assets" => agents = [a \in 1..Fleet |-> "active"] /\ copies = [a \in 1..Fleet |-> 1]

MCNext ==
  /\ UNCHANGED active
  /\ \/ /\ active = "tickets" /\ T!Next
        /\ UNCHANGED <<reportVars, notifyVars, intelVars, vars, healthVars, assetVars, osintVars>>
     \/ /\ active = "reports" /\ R!Next
        /\ UNCHANGED <<ticketVars, notifyVars, intelVars, vars, healthVars, assetVars, osintVars>>
     \/ /\ active = "notifications" /\ N!Next
        /\ UNCHANGED <<ticketVars, reportVars, intelVars, vars, healthVars, assetVars, osintVars>>
     \/ /\ active = "intel" /\ I!Next
        /\ UNCHANGED <<ticketVars, reportVars, notifyVars, vars, healthVars, assetVars, osintVars>>
     \/ /\ active = "breaker" /\ Next
        /\ UNCHANGED <<ticketVars, reportVars, notifyVars, intelVars, healthVars, assetVars, osintVars>>
     \/ /\ active = "health" /\ H!Next
        /\ UNCHANGED <<ticketVars, reportVars, notifyVars, intelVars, vars, assetVars, osintVars>>
     \/ /\ active = "assets" /\ S!Next
        /\ UNCHANGED <<ticketVars, reportVars, notifyVars, intelVars, vars, healthVars, osintVars>>
     \/ /\ active = "lookups" /\ O!Next
        /\ UNCHANGED <<ticketVars, reportVars, notifyVars, intelVars, vars, healthVars, assetVars>>

MCSpec ==
  /\ MCInit
  /\ [][MCNext]_<<active, ticketVars, reportVars, notifyVars, intelVars, vars, healthVars, assetVars, osintVars>>
  /\ \A w \in Syncers : WF_ticketVars(active = "tickets" /\ T!Work(w))
  /\ \A w \in Notifiers : WF_notifyVars(active = "notifications" /\ N!Work(w))
  /\ \A w \in Enrichers : WF_intelVars(active = "intel" /\ I!Enrich(w))
  /\ WF_reportVars(active = "reports" /\ R!Loop)
  /\ WF_reportVars(active = "reports" /\ R!Tick)
  /\ WF_vars(active = "breaker" /\ Cool)
  /\ \A c \in Callers :
       /\ WF_vars(active = "breaker" /\ Enter(c))
       /\ WF_vars(active = "breaker" /\ (Succeed(c) \/ Fail(c)))

(* Tickets catch up with their cases, due reports are delivered, every notification  *)
(* and every alert pushed for enrichment comes to an end (the loops of the workers), *)
(* and the circuit of a service that answers for good closes for good.               *)
OutboundSettles ==
  /\ active = "tickets" => T!TicketCatchesUp
  /\ active = "reports" => R!DueDelivered
  /\ active = "notifications" => N!NotificationSettles
  /\ active = "intel" => I!EnrichmentSettles
  /\ active = "breaker" => RecoversForGood
====

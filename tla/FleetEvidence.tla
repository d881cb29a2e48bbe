--------------------------- MODULE FleetEvidence ----------------------------
(***************************************************************************)
(* What the fleet says of a node's last start. A window classifies a node  *)
(* from three things read at different times: its own copy of the node,    *)
(* the activity page, and an evidence snapshot (tui_fleet_evidence) that   *)
(* the daemon gathers step by step from the operation records, the node,   *)
(* its lifecycle claim and its bootstrap (fleet_evidence). Starts and      *)
(* stops, with receipts or by another process without, run beside them.    *)
(*                                                                         *)
(* A revision stands for UpdatedAt; times are values of a clock that       *)
(* ticks whenever a time is taken.                                         *)
(***************************************************************************)
EXTENDS Naturals, Sequences, FiniteSets

CONSTANTS EvidenceBudgets   \* what may happen in a history

VARIABLES fleet,    \* the node, its claim and bootstrap step, the operation records, the clock
          pane,     \* the window
          probes,   \* its evidence calls on their way
          feLeft
feVars == <<fleet, pane, probes, feLeft>>

NoOne == 0
Direct == 100          \* a start by a process of its own, which leaves no receipt
InFlightStatus == {"provisioning"}
FeLeft(f) == feLeft[f] > 0 /\ feLeft' = [feLeft EXCEPT ![f] = @ - 1]

NoStep == [state |-> "none", started |-> 0, by |-> NoOne]
NoEvidence == [rev |-> 0, claim |-> "", start |-> NoOne, state |-> "none", phase |-> "", step |-> NoStep, stopped |-> FALSE, error |-> FALSE]
NewFleet == [status |-> "stopped", rev |-> 1, writer |-> NoOne, holder |-> NoOne, direct |-> "none", step |-> NoStep,
             ops |-> <<>>, clock |-> 0, up |-> TRUE]
NewPane == [request |-> "fleet", linked |-> TRUE, loading |-> FALSE, fresh |-> FALSE, failed |-> FALSE, status |-> "stopped",
            rev |-> 1, running |-> {}, for |-> "none", evidence |-> NoEvidence]
Probe == [request |-> "fleet", live |-> TRUE, at |-> "sent", ops |-> <<>>, status |-> "", evidence |-> NoEvidence]

FeInit == fleet = NewFleet /\ pane = NewPane /\ probes = {} /\ feLeft \in EvidenceBudgets

-----------------------------------------------------------------------------
\* Starts and stops, in the steps between which another process or a query may look.
Is(i, at) == fleet.up /\ i \in DOMAIN fleet.ops /\ fleet.ops[i].at = at
Fleet(f) == fleet' = f /\ UNCHANGED <<pane, probes>>
OpRuns(op) == op.state = "running"

Submit(kind) ==
    /\ fleet.up /\ ~(\E i \in DOMAIN fleet.ops : OpRuns(fleet.ops[i])) /\ FeLeft("ops")
    /\ Fleet([fleet EXCEPT !.clock = @ + 1,
              !.ops = Append(@, [kind |-> kind, at |-> "asked", state |-> "running", phase |-> "", verdict |-> "failed",
                                 created |-> fleet.clock, finished |-> 0])])
\* A claimed node is refused; otherwise the claim is held until the work is over.
ClaimStart(i) ==
    /\ Is(i, "asked")
    /\ Fleet(IF fleet.holder = NoOne THEN [fleet EXCEPT !.holder = i, !.ops[i].at = "claimed"]
             ELSE [fleet EXCEPT !.ops[i].at = "released"])
    /\ UNCHANGED feLeft
PublishStart(i) ==
    /\ Is(i, "claimed")
    /\ Fleet(IF fleet.ops[i].kind = "stop"
             THEN [fleet EXCEPT !.status = "stopped", !.rev = @ + 1, !.writer = i, !.ops[i].at = "ended",
                                !.ops[i].verdict = "succeeded"]
             ELSE [fleet EXCEPT !.status = "provisioning", !.rev = @ + 1, !.writer = i, !.ops[i].at = "boot",
                                !.ops[i].phase = "boot"])
    /\ UNCHANGED feLeft
ReachBootstrap(i) ==
    /\ Is(i, "boot")
    /\ Fleet([fleet EXCEPT !.ops[i].at = "bootstrap", !.ops[i].phase = "bootstrap"])
    /\ UNCHANGED feLeft
RunStep(i) ==
    /\ Is(i, "bootstrap")
    /\ Fleet([fleet EXCEPT !.step = [state |-> "running", started |-> fleet.clock, by |-> i], !.clock = @ + 1,
                           !.ops[i].at = "step"])
    /\ UNCHANGED feLeft
\* The work ends: the node is saved as running or failed, or the save itself fails.
EndStart(i, how) ==
    /\ Is(i, "step") \/ (Is(i, "boot") /\ how # "running")
    /\ LET saved  == IF how = "lost" THEN fleet ELSE [fleet EXCEPT !.status = how, !.rev = @ + 1, !.writer = i]
           state  == IF how = "running" THEN "completed" ELSE "failed"
       IN Fleet([saved EXCEPT !.ops[i].at = "ended", !.ops[i].verdict = IF how = "running" THEN "succeeded" ELSE "failed",
                              !.step = IF @.by = i THEN [@ EXCEPT !.state = state] ELSE @])
    /\ UNCHANGED feLeft
ReleaseClaim(i) ==
    /\ Is(i, "ended")
    /\ Fleet([fleet EXCEPT !.holder = NoOne, !.ops[i].at = "released"])
    /\ UNCHANGED feLeft
FinishRecord(i) ==
    /\ Is(i, "released")
    /\ Fleet([fleet EXCEPT !.ops[i].at = "done", !.ops[i].state = fleet.ops[i].verdict, !.ops[i].finished = fleet.clock,
                           !.clock = @ + 1])
    /\ UNCHANGED feLeft

\* A start without a receipt: it claims, publishes, runs its step, and ends or dies with the node in flight.
DirectStart ==
    \/ /\ fleet.direct = "none" /\ fleet.holder = NoOne /\ FeLeft("directs")
       /\ Fleet([fleet EXCEPT !.direct = "claimed", !.holder = Direct])
    \/ /\ fleet.direct = "claimed" /\ UNCHANGED feLeft
       /\ Fleet([fleet EXCEPT !.direct = "published", !.status = "provisioning", !.rev = @ + 1, !.writer = Direct])
    \/ /\ fleet.direct = "published" /\ UNCHANGED feLeft
       /\ Fleet([fleet EXCEPT !.direct = "step", !.step = [state |-> "running", started |-> fleet.clock, by |-> Direct],
                              !.clock = @ + 1])
    \/ /\ fleet.direct = "step" /\ UNCHANGED feLeft
       /\ Fleet([fleet EXCEPT !.direct = "done", !.holder = NoOne, !.status = "running", !.rev = @ + 1, !.writer = Direct,
                              !.step.state = "completed"])
DirectDies ==
    /\ fleet.direct \in {"claimed", "published", "step"} /\ FeLeft("deaths")
    /\ Fleet([fleet EXCEPT !.direct = "done", !.holder = NoOne])

\* The daemon dies: its claims are let go and its calls fail. The next one finds the records running.
DaemonDies ==
    /\ fleet.up /\ FeLeft("deaths")
    /\ fleet' = [fleet EXCEPT !.up = FALSE, !.holder = IF @ = Direct THEN @ ELSE NoOne]
    /\ probes' = {[c EXCEPT !.at = "failed"] : c \in probes}
    /\ UNCHANGED pane
DaemonRecovers ==
    /\ ~fleet.up
    /\ Fleet([fleet EXCEPT !.up = TRUE,
              !.ops = [i \in DOMAIN @ |-> IF OpRuns(@[i]) THEN [@[i] EXCEPT !.at = "done", !.state = "interrupted"] ELSE @[i]]])
    /\ UNCHANGED feLeft

-----------------------------------------------------------------------------
\* node.fleet_evidence. The last start among the records, and a stop after it.
LastStart(ops) ==
    LET starts == {i \in DOMAIN ops : ops[i].kind = "start"}
    IN IF starts = {} THEN NoOne ELSE CHOOSE i \in starts : \A j \in starts : ops[j].created <= ops[i].created
summarizeFleetLifecycle(ops) ==
    LET s     == LastStart(ops)
        stops == {i \in DOMAIN ops : ops[i].kind = "stop" /\ ops[i].state = "succeeded"}
        after == {i \in stops : s = NoOne \/ ops[s].created < ops[i].finished}
    IN [NoEvidence EXCEPT !.start = s, !.stopped = after # {},
                          !.state = IF s = NoOne THEN "none" ELSE ops[s].state,
                          !.phase = IF s = NoOne THEN "" ELSE ops[s].phase]

\* A step is the last start's only in its bootstrap phase, and if it began after it.
summarizeFleetStep(step, start, phase, created) ==
    IF step.state \in {"running", "failed"} /\ (start # NoOne => phase = "bootstrap" /\ step.started >= created)
    THEN step ELSE NoStep

\* The claim is looked at after the node was read.
ProbeSteps_ClaimFirst == [records |-> "sent", claim |-> "records", node |-> "claim", step |-> "node"]
ProbeSteps == [records |-> "sent", node |-> "records", claim |-> "node", step |-> "claim"]
\* A call that was dropped is cut off by its context; what it would still read is not shown.
Answers(c, d) == c.live /\ probes' = (probes \ {c}) \cup {d} /\ UNCHANGED <<fleet, pane, feLeft>>
ReadRecords(c) ==
    /\ fleet.up /\ c.at = ProbeSteps.records
    /\ Answers(c, [c EXCEPT !.at = "records", !.ops = fleet.ops, !.evidence = summarizeFleetLifecycle(fleet.ops)])
ReadNode(c) ==
    /\ fleet.up /\ c.at = ProbeSteps.node
    /\ Answers(c, [c EXCEPT !.at = "node", !.status = fleet.status, !.evidence.rev = fleet.rev])
ReadClaim(c) ==
    /\ fleet.up /\ c.at = ProbeSteps.claim
    /\ Answers(c, [c EXCEPT !.at = "claim", !.evidence.claim = IF fleet.holder = NoOne THEN "unclaimed" ELSE "active"])
ReadStep(c) ==
    LET e       == [c.evidence EXCEPT !.claim = IF c.status \in InFlightStatus THEN @ ELSE ""]
        wanted  == c.status \in InFlightStatus \cup {"failed"} \/ e.phase = "bootstrap"
        created == IF e.start = NoOne THEN 0 ELSE c.ops[e.start].created
        step    == IF wanted THEN summarizeFleetStep(fleet.step, e.start, e.phase, created) ELSE NoStep
    IN /\ fleet.up /\ c.at = ProbeSteps.step
       /\ Answers(c, [c EXCEPT !.at = "served", !.ops = <<>>, !.evidence = [e EXCEPT !.step = step]])
handleFleetEvidence(c) == ReadRecords(c) \/ ReadNode(c) \/ ReadClaim(c) \/ ReadStep(c)
\* The records, the claim or the bootstrap could not be read, which the evidence says; or the call fails.
EvidenceFails(c) ==
    /\ c.live /\ c.at \notin {"served", "failed"} /\ FeLeft("faults")
    /\ \E how \in {"served", "failed"} :
           probes' = (probes \ {c}) \cup {[c EXCEPT !.at = how, !.ops = <<>>, !.evidence.error = TRUE, !.evidence.rev = fleet.rev]}
    /\ UNCHANGED <<fleet, pane>>

-----------------------------------------------------------------------------
\* The window: what is asked for is a set of nodes, "fleet" with this one in it, "other" without,
\* "hidden" when another view is open.
Stale(calls) == {[c EXCEPT !.live = FALSE] : c \in {d \in calls : d.at \in {"served", "failed"}}}
cancelFleetEvidenceLoad(s) == [pane |-> [s.pane EXCEPT !.loading = FALSE], probes |-> Stale(s.probes)]
\* A load for the same nodes is left alone; one for others is dropped for the new one.
startFleetEvidenceLoad(s, same) ==
    IF s.pane.request = "hidden" \/ ~s.pane.linked THEN cancelFleetEvidenceLoad(s)
    ELSE IF same /\ s.pane.loading THEN s
    ELSE LET t == cancelFleetEvidenceLoad(s)
         IN [pane |-> [t.pane EXCEPT !.loading = TRUE],
             probes |-> t.probes \cup {[Probe EXCEPT !.request = s.pane.request]}]
Pane(s) == pane' = s.pane /\ probes' = s.probes /\ UNCHANGED fleet
Here == [pane |-> pane, probes |-> probes]

selectFleetNode(request) ==
    /\ request # pane.request /\ FeLeft("moves")
    /\ Pane(startFleetEvidenceLoad([Here EXCEPT !.pane.request = request], FALSE))
\* The tick; an answer five seconds old counts as stale.
evidenceTick == FeLeft("loads") /\ Pane(startFleetEvidenceLoad(Here, TRUE))
evidenceAges == pane.fresh /\ FeLeft("ages") /\ Pane([Here EXCEPT !.pane.fresh = FALSE])
linkDown ==
    /\ ~fleet.up /\ pane.linked
    /\ Pane(cancelFleetEvidenceLoad([Here EXCEPT !.pane.linked = FALSE])) /\ UNCHANGED feLeft
linkUp ==
    /\ fleet.up /\ ~pane.linked
    /\ Pane(startFleetEvidenceLoad(cancelFleetEvidenceLoad([Here EXCEPT !.pane.linked = TRUE]), FALSE))
    /\ UNCHANGED feLeft

\* An answer for nodes no longer asked for ends the load and is not shown.
applyFleetEvidence(c) ==
    LET s == [pane |-> [pane EXCEPT !.loading = FALSE], probes |-> probes \ {c}]
    IN /\ c.at \in {"served", "failed"}
       /\ Pane(IF ~c.live THEN [Here EXCEPT !.probes = @ \ {c}]
               ELSE IF c.request # pane.request THEN s
               ELSE IF c.at = "failed" THEN [s EXCEPT !.pane.failed = TRUE]
               ELSE [s EXCEPT !.pane.failed = FALSE, !.pane.fresh = TRUE, !.pane.for = c.request, !.pane.evidence = c.evidence])
       /\ UNCHANGED feLeft

\* The window's other reads: its nodes, from the metadata, and the activity page, from the daemon.
dataRefreshed ==
    /\ pane.rev # fleet.rev /\ FeLeft("refreshes")
    /\ Pane([Here EXCEPT !.pane.status = fleet.status, !.pane.rev = fleet.rev])
activityRead ==
    /\ fleet.up /\ pane.linked /\ FeLeft("pages")
    /\ Pane([Here EXCEPT !.pane.running = {i \in DOMAIN fleet.ops : OpRuns(fleet.ops[i])}])

-----------------------------------------------------------------------------
\* What is concluded.
Evidence(p) == IF p.for = "fleet" THEN p.evidence ELSE NoEvidence
fleetEvidenceStale(p) == p.failed \/ ~p.linked \/ ~p.fresh
Failures == {"failed", "interrupted"}
fleetSetupReceiptFailed(p) ==
    LET e == Evidence(p) IN
    /\ ~fleetEvidenceStale(p) /\ ~e.error /\ e.start # NoOne
    /\ e.state \in Failures /\ e.claim = "unclaimed" /\ e.rev = p.rev
    /\ p.running \subseteq {e.start}
fleetReceiptFailed(p) == p.status \in InFlightStatus /\ fleetSetupReceiptFailed(p)

fleetSetupStatus(p) ==
    IF fleetSetupReceiptFailed(p) \/ p.status = "failed" THEN "failed" ELSE p.status
\* The line beside the node: of what it speaks.
fleetEvidenceLine(p) ==
    LET e == Evidence(p)
        setup == fleetSetupStatus(p)
    IN IF \/ p.for # "fleet" \/ e.rev # p.rev \/ (e.claim = "active" /\ e.state \in Failures)
          \/ ~(p.running \subseteq {e.start}) THEN "none"
       ELSE IF e.error THEN "unavailable"
       ELSE IF e.step # NoStep /\ setup \in {"failed", "provisioning"} THEN "step"
       ELSE IF setup = "failed" /\ e.state \in Failures THEN "start"
       ELSE IF e.stopped /\ p.status = "stopped" THEN "stop" ELSE "none"

-----------------------------------------------------------------------------
Runs == \/ \E kind \in {"start", "stop"} : Submit(kind)
        \/ \E i \in DOMAIN fleet.ops :
              \/ ClaimStart(i) \/ PublishStart(i) \/ ReachBootstrap(i) \/ RunStep(i) \/ ReleaseClaim(i) \/ FinishRecord(i)
              \/ \E how \in {"running", "failed", "lost"} : EndStart(i, how)
        \/ DirectStart \/ DirectDies \/ DaemonDies \/ DaemonRecovers
FeNext == \/ Runs
          \/ \E c \in probes : handleFleetEvidence(c) \/ EvidenceFails(c) \/ applyFleetEvidence(c)
          \/ \E request \in {"fleet", "other", "hidden"} : selectFleetNode(request)
          \/ evidenceTick \/ evidenceAges \/ linkDown \/ linkUp \/ dataRefreshed \/ activityRead

FeSpec == FeInit /\ [][FeNext]_feVars

-----------------------------------------------------------------------------
\* Every value of the node, the records and the window; only the call of the current load is live.
FeTypeOK ==
    /\ fleet.status \in {"stopped", "provisioning", "running", "failed"}
    /\ fleet.holder \in DOMAIN fleet.ops \cup {NoOne, Direct}
    /\ \A i \in DOMAIN fleet.ops : fleet.ops[i].state \in {"running", "succeeded", "failed", "interrupted"}
    /\ pane.request \in {"fleet", "other", "hidden"} /\ pane.rev <= fleet.rev
    /\ pane.evidence.claim \in {"", "active", "unclaimed"}
    /\ Cardinality({c \in probes : c.live}) <= IF pane.loading THEN 1 ELSE 0

\* "Never show the previous attempt's failed step during it": a start that published the revision
\* the window has, and still works on it, is never shown as failed, neither in the node's setup nor
\* in its line, whatever ran between the reads (handleFleetEvidence, fleetSetupReceiptFailed).
WorkIsNotFailed ==
    pane.rev = fleet.rev /\ fleet.status \in InFlightStatus /\ fleet.holder = fleet.writer /\ fleet.holder # NoOne =>
        fleetSetupStatus(pane) # "failed" /\ fleetEvidenceLine(pane) # "start"

\* A step is not attributed to a start that came after it: it is of the start shown, or of one
\* begun later (summarizeFleetStep).
StepIsOfStart ==
    LET e == Evidence(pane) IN
    e.start # NoOne /\ e.step.by \in DOMAIN fleet.ops \cup {Direct} =>
        e.step.by >= e.start /\ e.step.started >= fleet.ops[e.start].created

\* What a window concludes from the evidence is what happened.
EvidenceIsSound == FeTypeOK /\ WorkIsNotFailed /\ StepIsOfStart

=============================================================================

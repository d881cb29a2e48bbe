------------------------------ MODULE Renderer ------------------------------
(***************************************************************************)
(* One isolated terminal of the daemon: the pump that reads the PTY, the   *)
(* journal that keeps what it read, the supervisor that runs a renderer    *)
(* worker process and replaces it when it fails, the worker with its       *)
(* reorder buffer, and the screen the daemon publishes from what the       *)
(* worker sends back.                                                      *)
(*                                                                         *)
(* What the shell writes is abstracted to serial numbers: the k-th read of *)
(* the PTY yields the output <<k>>, and a screen is the sequence of the    *)
(* serials applied to it.  A poisonous serial kills every worker that     *)
(* draws it.  Time is a choice: a deadline, a window or a cooldown may     *)
(* pass whenever the code could see it pass.  A generation number is only  *)
(* ever compared with the current one, so the model keeps Current and      *)
(* Earlier.  What the terminal answers to the shell is in AttachGate.      *)
(***************************************************************************)
EXTENDS Naturals, Sequences, FiniteSets, SequencesExt

CONSTANTS
    Budgets,        \* what the environment may do, one record per history
    JournalCap,     \* events the journal retains (defaultRendererJournalBytes)
    OutboundCap,    \* frames the link queues towards the worker
    WireCap,        \* frames the worker may have sent and not been read
    PendingCap,     \* events the reorder buffer holds
    MaxRestarts,    \* the restart budget of one window
    SlowInit        \* whether replaying may outlast the pump's send grace

\* How often, at most: output, resizes, spontaneous faults of a worker, charged
\* restarts leaving the window, captures, restarts an operator asks for,
\* transfers, and worker files of another build; and the serials that no
\* worker survives.
Budget == [output : Nat, resize : Nat, fault : Nat, expiry : Nat, capture : Nat,
           manual : Nat, handoff : Nat, skew : Nat, poison : SUBSET (Nat \ {0})]

ASSUME RendererAssumption ==
    /\ \A b \in Budgets : b \in Budget
    /\ {JournalCap, OutboundCap, WireCap, PendingCap, MaxRestarts} \subseteq Nat \ {0}
    /\ SlowInit \in BOOLEAN

VARIABLES
    journal,    \* [events, last, partial]
    pump,       \* the goroutine of readPump
    resizer,    \* the caller inside resizePixels
    sup,        \* the fields of rendererSupervisor
    runner,     \* the goroutine of run, restart and startRenderer
    worker,     \* the worker process with the link to it
    decoding,   \* the frames handleFrame admitted and has not published
    cache,      \* the screen the daemon shows
    capture,    \* the goroutine of captureCheckpoint
    serial,     \* how many outputs the shell has written
    skewed,     \* whether the worker file is of another build
    left        \* what the environment may still do

rendererVars == <<journal, pump, resizer, sup, runner, worker, decoding,
                  cache, capture, serial, skewed, left>>

env == <<serial, skewed, left>>

Earlier == 0
Current == 1
Carried == 2    \* of the screen a rolled back transfer leaves in place

NoEvent == [id |-> 0, first |-> 0, kind |-> "none", data |-> <<>>]

NewJournal == [events |-> <<>>, last |-> 0, partial |-> FALSE]

NoCheckpoint == [applied |-> 0, partial |-> FALSE, screen |-> <<>>, valid |-> FALSE]

NoCache == [gen |-> Earlier, screen |-> <<>>, partial |-> FALSE, stale |-> TRUE]

NoWorker == [gen |-> Earlier, state |-> "none", queue |-> <<>>, wire |-> <<>>,
             applied |-> 0, pending |-> {}, screen |-> <<>>, partial |-> FALSE,
             dirty |-> FALSE]

NewSupervisor == [link |-> FALSE, accept |-> FALSE, degraded |-> FALSE,
                  closed |-> FALSE, replayThrough |-> 0, partial |-> FALSE,
                  restarts |-> 0, clean |-> FALSE, force |-> FALSE,
                  mismatch |-> FALSE, wake |-> FALSE, cp |-> NoCheckpoint]

\* caller: who waits for this start, and what becomes of a failure.
Runner(pc, caller) == [pc |-> pc, clean |-> FALSE, caller |-> caller,
                       snap |-> NewJournal, cp |-> NoCheckpoint, restored |-> FALSE]

IdleRunner == Runner("loop", "supervisor")

Sender(pc) == [pc |-> pc, event |-> NoEvent, gen |-> Earlier]

IdleCapture == [pc |-> "idle", gen |-> Earlier, through |-> 0, cp |-> NoCheckpoint]

(***************************************************************************)
(* The journal.                                                            *)
(***************************************************************************)
Screen(events) == FoldLeft(LAMBDA acc, e : acc \o e.data, <<>>, events)

trimLocked(j) ==
    IF Len(j.events) > JournalCap
    THEN [j EXCEPT !.events = SubSeq(@, Len(@) - JournalCap + 1, Len(@)),
                   !.partial = TRUE]
    ELSE j

OutputEvent(j, serials) ==
    [id |-> j.last + 1, first |-> j.last + 1, kind |-> "output", data |-> serials]

AppendOutput(j, serials) ==
    trimLocked([j EXCEPT !.last = @ + 1,
                         !.events = Append(@, OutputEvent(j, serials))])

Coalesces(j) == j.events # <<>> /\ Last(j.events).kind = "resize"

\* A resize right after a resize takes its place and covers its identifier.
ResizeEvent(j) ==
    [id |-> j.last + 1,
     first |-> IF Coalesces(j) THEN Last(j.events).first ELSE j.last + 1,
     kind |-> "resize", data |-> <<>>]

AppendResizePixels(j) ==
    trimLocked([j EXCEPT !.last = @ + 1,
                         !.events = Append(IF Coalesces(j) THEN Front(@) ELSE @,
                                           ResizeEvent(j))])

Reset(j) ==
    IF j.events = <<>> THEN j
    ELSE [j EXCEPT !.events = <<>>, !.partial = TRUE]

\* The events a checkpoint does not hold yet, and whether none is missing.
TailEvents(j, applied) == SelectSeq(j.events, LAMBDA e : e.id > applied)

TailComplete(j, applied) ==
    LET tail == TailEvents(j, applied)
    IN /\ applied <= j.last
       /\ \A i \in 1..Len(tail) :
             tail[i].first <= (IF i = 1 THEN applied ELSE tail[i-1].id) + 1
       /\ (IF tail = <<>> THEN applied ELSE Last(tail).id) = j.last

(***************************************************************************)
(* The worker: its reorder buffer and its publications.                    *)
(***************************************************************************)
hasGap(w) == w.pending # {}

applyJournalEvent(w, e) ==
    [w EXCEPT !.applied = e.id, !.dirty = TRUE, !.screen = @ \o e.data]

\* Ascending by identifier, an event is applied when nothing before it is
\* missing; what an applied resize covers is forgotten.
Drain(w) ==
    LET byID == SetToSortSeq(w.pending, LAMBDA a, b : a.id < b.id)
        done == FoldLeft(LAMBDA acc, e : IF e.first <= acc.applied + 1
                                         THEN applyJournalEvent(acc, e) ELSE acc,
                         w, byID)
    IN [done EXCEPT !.pending = {e \in @ : e.id > done.applied}]

Killed(w) == [w EXCEPT !.state = "exited", !.queue = <<>>, !.pending = {}, !.dirty = FALSE]

\* journalOrder.push: drop what was applied, apply what is next, hold the
\* rest; a full buffer ends the worker.
push(w, e) ==
    IF e.id <= w.applied \/ e \in w.pending THEN w
    ELSE IF ~hasGap(w) /\ e.first <= w.applied + 1 THEN applyJournalEvent(w, e)
    ELSE IF Cardinality(w.pending) >= PendingCap THEN Killed(w)
    ELSE Drain([w EXCEPT !.pending = @ \cup {e}])

\* Drawing a poisonous output ends the worker.
Drawn(w, e) ==
    LET after == push(w, e)
    IN IF left.poison \cap Range(after.screen) \subseteq Range(w.screen)
       THEN after ELSE Killed(w)

(***************************************************************************)
(* The PTY side: output and resizes enter the journal first and are sent   *)
(* to the worker by two goroutines that do not wait for each other.        *)
(***************************************************************************)
readPump ==
    /\ pump.pc = "idle" /\ ~sup.closed
    /\ left.output > 0
    /\ journal' = AppendOutput(journal, <<serial + 1>>)
    /\ pump' = [Sender("send") EXCEPT !.event = OutputEvent(journal, <<serial + 1>>)]
    /\ serial' = serial + 1
    /\ left' = [left EXCEPT !.output = @ - 1]
    /\ UNCHANGED <<resizer, sup, runner, worker, decoding, cache, capture, skewed>>

\* The mutex section of SendOutput: the event is done with, or it goes to the
\* link the supervisor holds now, or the pump waits for a state change.
SendOutput ==
    /\ pump.pc = "send"
    /\ \/ /\ sup.closed \/ pump.event.id <= sup.replayThrough \/ sup.degraded
          /\ pump' = Sender("idle")
       \/ /\ ~sup.closed /\ pump.event.id > sup.replayThrough /\ ~sup.degraded
          /\ sup.link /\ sup.accept
          /\ pump' = [pump EXCEPT !.pc = "enqueue", !.gen = Current]
    /\ UNCHANGED <<journal, resizer, sup, runner, worker, decoding, cache, capture, env>>

\* The send grace passes while no link takes the event.  A replacement that
\* replays slowly may hold the pump that long; otherwise the grace covers the
\* time between the replacement's look at the journal and its readiness.
SendGraceExpires ==
    /\ pump.pc = "send" /\ ~sup.closed /\ ~(sup.link /\ sup.accept)
    /\ SlowInit \/ runner.pc \notin {"init", "install"}
    /\ pump' = Sender("idle")
    /\ UNCHANGED <<journal, resizer, sup, runner, worker, decoding, cache, capture, env>>

LinkOpen(g) == worker.gen = g /\ worker.state \in {"up", "stuck", "exited"}

HasRoom == Len(worker.queue) < OutboundCap

Enqueued(frame) == [worker EXCEPT !.queue = Append(@, frame)]

\* Notify: wait for room, or see the link closed.  Of a closed link with room
\* the select may still take the queue, and the frame is gone with the link.
NotifyOutput ==
    /\ pump.pc = "enqueue"
    /\ \/ /\ LinkOpen(pump.gen) /\ HasRoom
          /\ worker' = Enqueued(pump.event)
          /\ pump' = Sender("idle")
       \/ /\ ~LinkOpen(pump.gen)
          /\ pump' \in {Sender("idle"), [pump EXCEPT !.pc = "send", !.gen = Earlier]}
          /\ UNCHANGED worker
    /\ UNCHANGED <<journal, resizer, sup, runner, decoding, cache, capture, env>>

resizePixels ==
    /\ resizer.pc = "idle" /\ ~sup.closed /\ runner.caller # "open"
    /\ left.resize > 0
    /\ journal' = AppendResizePixels(journal)
    /\ resizer' = [Sender("send") EXCEPT !.event = ResizeEvent(journal)]
    /\ left' = [left EXCEPT !.resize = @ - 1]
    /\ UNCHANGED <<pump, sup, runner, worker, decoding, cache, capture, serial, skewed>>

\* trySend never waits: without a link, or with a full queue, the resize stays
\* in the journal only.
TryResize ==
    /\ resizer.pc = "send"
    /\ resizer' = Sender("idle")
    /\ worker' = IF sup.link /\ ~sup.degraded /\ ~sup.closed /\ LinkOpen(Current) /\ HasRoom
                 THEN Enqueued(resizer.event) ELSE worker
    /\ UNCHANGED <<journal, pump, sup, runner, decoding, cache, capture, env>>

(***************************************************************************)
(* The supervisor: one goroutine takes restart requests and ticks.  Its    *)
(* steps are the critical sections of restart and startRenderer.           *)
(***************************************************************************)
Stale == IF cache = NoCache THEN cache ELSE [cache EXCEPT !.stale = TRUE]

Failed(w) == IF w.state = "none" THEN w
             ELSE [NoWorker EXCEPT !.gen = w.gen, !.state = "failed"]

\* requestRestart: only a supervisor that accepts frames starts a restart.
requestRestart ==
    /\ sup' = IF sup.closed \/ ~sup.accept THEN sup
              ELSE [sup EXCEPT !.accept = FALSE, !.wake = TRUE]
    /\ cache' = IF sup.closed \/ ~sup.accept THEN cache ELSE Stale

\* planRestartLocked: a worker of another build is not retried on its own; the
\* journal itself is suspected once, when the budget is spent; an operator and
\* the cooldown are never refused.
Plan ==
    LET exhausted == sup.restarts >= MaxRestarts
        escape == ~sup.mismatch /\ exhausted /\ ~sup.clean
                    /\ (journal.events # <<>> \/ sup.cp.valid)
    IN [allowed |-> escape \/ sup.force \/ (~sup.mismatch /\ ~exhausted),
        charge |-> ~sup.mismatch /\ ~escape /\ ~sup.force,
        clean |-> escape]

restart ==
    /\ runner.pc = "loop" /\ sup.wake /\ ~sup.closed
    /\ worker' = Failed(worker)
    /\ cache' = Stale
    /\ LET base == [sup EXCEPT !.wake = FALSE, !.force = FALSE, !.link = FALSE,
                               !.accept = FALSE]
       IN IF Plan.allowed
          THEN /\ sup' = [base EXCEPT !.degraded = FALSE,
                            !.restarts = IF Plan.charge THEN @ + 1 ELSE @,
                            !.clean = @ \/ Plan.clean,
                            !.cp = IF Plan.clean THEN NoCheckpoint ELSE @]
               /\ runner' = [runner EXCEPT !.pc = "reset", !.clean = Plan.clean]
          ELSE /\ sup' = [base EXCEPT !.degraded = TRUE]
               /\ UNCHANGED runner
    /\ UNCHANGED <<journal, pump, resizer, decoding, capture, env>>

ResetJournal ==
    /\ runner.pc = "reset"
    /\ journal' = IF runner.clean THEN Reset(journal) ELSE journal
    /\ runner' = [runner EXCEPT !.pc = "spawn", !.clean = FALSE]
    /\ UNCHANGED <<pump, resizer, sup, worker, decoding, cache, capture, env>>

\* A failed start asks for the next one.  The start of a new terminal closes
\* it; the start of a rollback is reported to a caller that ignores it.
StartFailed(s) ==
    CASE runner.caller = "supervisor" -> [s EXCEPT !.wake = TRUE]
      [] runner.caller = "open" -> [NewSupervisor EXCEPT !.closed = TRUE]
      [] runner.caller = "rollback" -> s

Abandon ==
    /\ runner' = IdleRunner
    /\ sup' = StartFailed(sup)
    /\ worker' = Failed(worker)

\* A new generation: whatever still holds the last one holds an earlier one.
SpawnWorker ==
    /\ runner.pc = "spawn"
    /\ IF sup.closed
       THEN runner' = IdleRunner /\ UNCHANGED <<sup, worker, pump, decoding, cache, capture>>
       ELSE /\ sup' = [sup EXCEPT !.accept = FALSE]
            /\ worker' = [NoWorker EXCEPT !.gen = Current, !.state = "up"]
            /\ runner' = [runner EXCEPT !.pc = "snapshot"]
            /\ pump' = [pump EXCEPT !.gen = Earlier]
            /\ decoding' = {[f EXCEPT !.gen = Earlier] : f \in decoding}
            /\ cache' = [cache EXCEPT !.gen = IF @ = Carried THEN @ ELSE Earlier]
            /\ capture' = [capture EXCEPT !.gen = Earlier]
    /\ UNCHANGED <<journal, resizer, env>>

\* What the worker will replay: the journal as it is now, or a checkpoint with
\* the events after it when none of those is missing.
TakeSnapshot ==
    /\ runner.pc = "snapshot"
    /\ IF sup.closed THEN Abandon
       ELSE /\ runner' = [runner EXCEPT !.pc = "init", !.snap = journal,
                            !.cp = IF sup.cp.valid /\ TailComplete(journal, sup.cp.applied)
                                   THEN sup.cp ELSE NoCheckpoint]
            /\ UNCHANGED <<sup, worker>>
    /\ UNCHANGED <<journal, pump, resizer, decoding, cache, capture, env>>

Replayed(restored) ==
    IF restored THEN TailEvents(runner.snap, runner.cp.applied) ELSE runner.snap.events

\* The worker's side of init; a native decoder that refuses the checkpoint
\* falls back to the raw journal on a fresh terminal.
InitReplay ==
    /\ runner.pc = "init" /\ worker.state = "up" /\ ~skewed
    /\ \E restored \in {r \in BOOLEAN : r => runner.cp.valid} :
         LET base == IF restored THEN [worker EXCEPT !.screen = runner.cp.screen] ELSE worker
             todo == Replayed(restored)
             done == FoldLeft(applyJournalEvent, base, todo)
         IN IF left.poison \cap Range(Screen(todo)) # {}
            THEN /\ worker' = Killed(worker)
                 /\ UNCHANGED runner
            ELSE /\ worker' = [done EXCEPT !.applied = runner.snap.last, !.dirty = FALSE,
                                 !.partial = IF restored THEN runner.cp.partial
                                             ELSE runner.snap.partial]
                 /\ runner' = [runner EXCEPT !.pc = "install", !.restored = restored]
    /\ UNCHANGED <<journal, pump, resizer, sup, decoding, cache, capture, env>>

\* A worker that dies, does not answer in time or speaks another protocol.
InitFails ==
    /\ runner.pc = "init"
    /\ \/ worker.state # "up" \/ sup.closed
       \/ skewed
    /\ runner' = IdleRunner
    /\ worker' = Failed(worker)
    /\ sup' = StartFailed([sup EXCEPT !.mismatch = @ \/ (skewed /\ worker.state = "up")])
    /\ UNCHANGED <<journal, pump, resizer, decoding, cache, capture, env>>

\* The link becomes visible; a worker that died after its reply is only found
\* out by the next request.
InstallLink ==
    /\ runner.pc = "install"
    /\ IF sup.closed THEN Abandon
       ELSE /\ sup' = [sup EXCEPT !.link = TRUE, !.accept = TRUE, !.degraded = FALSE,
                         !.mismatch = FALSE, !.replayThrough = runner.snap.last,
                         !.partial = worker.partial
                                       \/ (runner.snap.partial /\ ~runner.restored)]
            /\ runner' = Runner("notify", runner.caller)
            /\ UNCHANGED worker
    /\ UNCHANGED <<journal, pump, resizer, decoding, cache, capture, env>>

\* The first screen is asked for once the link is in place; the read pump of a
\* new or returned terminal starts after that.
NotifySnapshot ==
    /\ runner.pc = "notify"
    /\ runner' = IdleRunner
    /\ \/ /\ LinkOpen(Current) /\ HasRoom
          /\ worker' = Enqueued([NoEvent EXCEPT !.kind = "snapshot"])
          /\ pump' = IF pump.pc = "stopped" THEN Sender("idle") ELSE pump
          /\ UNCHANGED <<sup, cache>>
       \/ /\ ~(LinkOpen(Current) /\ HasRoom)
          /\ IF runner.caller = "open"
             THEN sup' = StartFailed(sup) /\ UNCHANGED cache
             ELSE requestRestart
          /\ UNCHANGED <<worker, pump>>
    /\ UNCHANGED <<journal, resizer, decoding, capture, env>>

Unhealthy(w) == w.state \in {"failed", "stuck"} \/ hasGap(w)

\* tick: a dead link, a request past its deadline, or a gap older than the
\* timeout asks for a replacement.
TickHealth ==
    /\ runner.pc = "loop" /\ ~sup.closed /\ sup.link /\ sup.accept
    /\ Unhealthy(worker)
    /\ requestRestart
    /\ UNCHANGED <<journal, pump, resizer, runner, worker, decoding, capture, env>>

TickHealthy ==
    /\ runner.pc = "loop" /\ ~sup.closed /\ sup.link /\ sup.accept
    /\ sup.restarts > 0 /\ worker.state = "up" /\ ~hasGap(worker)
    /\ sup' = [sup EXCEPT !.restarts = 0, !.clean = FALSE]
    /\ UNCHANGED <<journal, pump, resizer, runner, worker, decoding, cache, capture, env>>

TickCooldown_Budgeted ==
    /\ runner.pc = "loop" /\ ~sup.closed /\ sup.degraded
    /\ sup' = [sup EXCEPT !.wake = TRUE]
    /\ UNCHANGED <<journal, pump, resizer, runner, worker, decoding, cache, capture, env>>

TickCooldown ==
    /\ runner.pc = "loop" /\ ~sup.closed /\ sup.degraded
    /\ sup' = [sup EXCEPT !.force = TRUE, !.wake = TRUE]
    /\ UNCHANGED <<journal, pump, resizer, runner, worker, decoding, cache, capture, env>>

WindowPasses ==
    /\ sup.restarts > 0 /\ left.expiry > 0
    /\ sup' = [sup EXCEPT !.restarts = @ - 1]
    /\ left' = [left EXCEPT !.expiry = @ - 1]
    /\ UNCHANGED <<journal, pump, resizer, runner, worker, decoding, cache, capture, serial, skewed>>

RestartRenderer ==
    /\ ~sup.closed /\ runner.caller = "supervisor" /\ left.manual > 0
    /\ sup' = [sup EXCEPT !.force = TRUE, !.wake = TRUE]
    /\ left' = [left EXCEPT !.manual = @ - 1]
    /\ UNCHANGED <<journal, pump, resizer, runner, worker, decoding, cache, capture, serial, skewed>>

(***************************************************************************)
(* The worker's steps, and the frames it sends back.                       *)
(***************************************************************************)
Initialized == runner.pc \notin {"snapshot", "init"} /\ worker.state = "up"

\* serveFrame: while an event is missing only journal events and captures are
\* served; a screen asked for is published once the gap is closed.
WorkerServes ==
    /\ Initialized /\ worker.queue # <<>>
    /\ LET frame == Head(worker.queue)
           rest == [worker EXCEPT !.queue = Tail(@)]
       IN \/ /\ frame.kind \in {"output", "resize"}
             /\ worker' = Drawn(rest, frame)
             /\ UNCHANGED capture
          \/ /\ frame.kind = "snapshot"
             /\ worker' = [rest EXCEPT !.dirty = TRUE]
             /\ UNCHANGED capture
          \/ /\ frame.kind = "checkpoint"
             /\ worker' = rest
             /\ capture' =
                  IF capture.gen # Current THEN capture
                  ELSE IF hasGap(worker) \/ worker.applied < capture.through THEN IdleCapture
                  ELSE [capture EXCEPT !.pc = "reply",
                          !.cp = [applied |-> worker.applied, partial |-> worker.partial,
                                  screen |-> worker.screen, valid |-> TRUE]]
    /\ UNCHANGED <<journal, pump, resizer, sup, runner, decoding, cache, env>>

WorkerPublishes ==
    /\ Initialized /\ worker.dirty /\ ~hasGap(worker) /\ Len(worker.wire) < WireCap
    /\ worker' = [worker EXCEPT !.dirty = FALSE, !.wire = Append(@, worker.screen)]
    /\ UNCHANGED <<journal, pump, resizer, sup, runner, decoding, cache, capture, env>>

WorkerFails ==
    /\ worker.state = "up" /\ left.fault > 0
    /\ worker' \in {Killed(worker), [worker EXCEPT !.state = "stuck"]}
    /\ left' = [left EXCEPT !.fault = @ - 1]
    /\ UNCHANGED <<journal, pump, resizer, sup, runner, decoding, cache, capture, serial, skewed>>

\* The link notices that its process is gone; what it had not read is lost.
LinkFails ==
    /\ worker.state = "exited"
    /\ worker' = Failed(worker)
    /\ UNCHANGED <<journal, pump, resizer, sup, runner, decoding, cache, capture, env>>

\* handleFrame up to the decoding; a link hands over one frame at a time.
AdmitFrame ==
    /\ worker.state \in {"up", "stuck", "exited"} /\ worker.wire # <<>>
    /\ \A f \in decoding : f.gen # Current
    /\ worker' = [worker EXCEPT !.wire = Tail(@)]
    /\ decoding' = IF sup.accept /\ ~sup.closed
                   THEN decoding \cup {[gen |-> Current, screen |-> Head(worker.wire)]}
                   ELSE decoding
    /\ UNCHANGED <<journal, pump, resizer, sup, runner, cache, capture, env>>

\* The rest of handleFrame: the replacement may be complete by now.
Admitted(f) == f.gen = Current /\ sup.accept /\ ~sup.closed

PublishFrame ==
    \E f \in decoding :
        /\ decoding' = decoding \ {f}
        /\ cache' = IF Admitted(f)
                    THEN [gen |-> f.gen, screen |-> f.screen, partial |-> sup.partial,
                          stale |-> FALSE]
                    ELSE cache
        /\ UNCHANGED <<journal, pump, resizer, sup, runner, worker, capture, env>>

(***************************************************************************)
(* Checkpoints, the end of the terminal, and its transfer.                 *)
(***************************************************************************)
captureCheckpoint ==
    /\ capture.pc = "idle" /\ left.capture > 0
    /\ ~sup.closed /\ sup.accept /\ sup.link
    /\ ~sup.cp.valid \/ sup.cp.applied # journal.last
    /\ left' = [left EXCEPT !.capture = @ - 1]
    /\ IF LinkOpen(Current) /\ HasRoom
       THEN /\ worker' = Enqueued([NoEvent EXCEPT !.kind = "checkpoint"])
            /\ capture' = [IdleCapture EXCEPT !.pc = "asked", !.gen = Current,
                                              !.through = journal.last]
       ELSE UNCHANGED <<worker, capture>>
    /\ UNCHANGED <<journal, pump, resizer, sup, runner, decoding, cache, serial, skewed>>

\* The reply is kept only if it is of the renderer that still serves, and is
\* not behind the one kept; the quota may refuse it.
KeepCheckpoint ==
    /\ capture.pc = "reply"
    /\ capture' = IdleCapture
    /\ \/ /\ ~sup.closed /\ sup.accept /\ sup.link /\ capture.gen = Current
          /\ capture.cp.applied >= capture.through /\ capture.cp.applied <= journal.last
          /\ sup.cp.valid => capture.cp.applied >= sup.cp.applied
          /\ sup' = [sup EXCEPT !.cp = capture.cp]
       \/ UNCHANGED sup
    /\ UNCHANGED <<journal, pump, resizer, runner, worker, decoding, cache, env>>

\* The link fails, or the caller's deadline passes, before the reply.
CaptureFails ==
    /\ capture.pc = "asked"
    /\ ~LinkOpen(capture.gen) \/ worker.state # "up" \/ sup.closed
    /\ capture' = IdleCapture
    /\ UNCHANGED <<journal, pump, resizer, sup, runner, worker, decoding, cache, env>>

Close ==
    /\ ~sup.closed /\ runner.caller = "supervisor" /\ pump.pc # "stopped"
    /\ sup' = [NewSupervisor EXCEPT !.closed = TRUE]
    /\ worker' = Failed(worker)
    /\ UNCHANGED <<journal, pump, resizer, runner, decoding, cache, capture, env>>

\* The checkpoint a transfer carries: the one kept, or one captured now that
\* the pump has stopped, and only with its whole tail.
HandoffCheckpoints ==
    {NoCheckpoint} \cup
    {cp \in {sup.cp, [applied |-> worker.applied, partial |-> worker.partial,
                      screen |-> worker.screen,
                      valid |-> sup.accept /\ worker.state = "up" /\ Initialized
                                  /\ ~hasGap(worker) /\ worker.applied = journal.last]} :
        cp.valid /\ TailComplete(journal, cp.applied)}

\* BeginHandoff ends the supervisor.  Adopted, the terminal goes on from the
\* recovery bundle, or from the raw bytes alone when the bundle did not fit;
\* rolled back, the same terminal gets a new supervisor.
BeginHandoff ==
    /\ ~sup.closed /\ pump.pc = "idle" /\ resizer.pc = "idle"
    /\ runner.caller = "supervisor" /\ left.handoff > 0
    /\ left' = [left EXCEPT !.handoff = @ - 1]
    /\ worker' = NoWorker
    /\ pump' = Sender("stopped")
    /\ decoding' = {} /\ capture' = IdleCapture
    /\ \E cp \in HandoffCheckpoints :
         \/ /\ journal' = journal /\ cache' = [cache EXCEPT !.gen = Carried]
            /\ sup' = [NewSupervisor EXCEPT !.cp = cp]
            /\ runner' = Runner("spawn", "rollback")
         \/ /\ journal' = journal /\ cache' = NoCache
            /\ sup' = [NewSupervisor EXCEPT !.cp = cp]
            /\ runner' = Runner("spawn", "open")
         \/ /\ LET sized == AppendResizePixels(NewJournal)
                   bytes == Screen(journal.events)
                   filled == IF bytes = <<>> THEN sized ELSE AppendOutput(sized, bytes)
               IN journal' = [filled EXCEPT !.partial = journal.partial]
            /\ cache' = NoCache
            /\ sup' = NewSupervisor
            /\ runner' = Runner("spawn", "open")
    /\ UNCHANGED <<resizer, serial, skewed>>

\* The worker beside the binary is replaced by one of another build, and back.
SkewWorker ==
    /\ \/ ~skewed /\ left.skew > 0
          /\ skewed' = TRUE /\ left' = [left EXCEPT !.skew = @ - 1]
       \/ skewed /\ skewed' = FALSE /\ UNCHANGED left
    /\ UNCHANGED <<journal, pump, resizer, sup, runner, worker, decoding, cache, capture, serial>>

RendererInit ==
    /\ journal = AppendResizePixels(NewJournal)
    /\ pump = Sender("stopped") /\ resizer = Sender("idle")
    /\ sup = NewSupervisor /\ runner = Runner("spawn", "open")
    /\ worker = NoWorker /\ decoding = {} /\ cache = NoCache
    /\ capture = IdleCapture /\ serial = 0 /\ skewed = FALSE /\ left \in Budgets

PumpStep == readPump \/ SendOutput \/ SendGraceExpires \/ NotifyOutput

ResizeStep == resizePixels \/ TryResize

SupervisorStep ==
    \/ restart \/ ResetJournal \/ SpawnWorker \/ TakeSnapshot \/ InitFails
    \/ InstallLink \/ NotifySnapshot \/ TickHealth \/ TickHealthy \/ TickCooldown

WorkerStep == InitReplay \/ WorkerServes \/ WorkerPublishes \/ LinkFails

FrameStep == AdmitFrame \/ PublishFrame

CaptureStep == captureCheckpoint \/ KeepCheckpoint \/ CaptureFails

Environment == WindowPasses \/ RestartRenderer \/ WorkerFails \/ Close \/ BeginHandoff \/ SkewWorker

RendererNext ==
    PumpStep \/ ResizeStep \/ SupervisorStep \/ WorkerStep \/ FrameStep \/ CaptureStep
      \/ Environment

\* Every goroutine runs, a worker that is alive serves, and an operator puts
\* the right worker file back; nothing obliges the environment otherwise.
SupervisorDue == \/ restart \/ ResetJournal \/ SpawnWorker \/ TakeSnapshot \/ InitFails
                 \/ InstallLink \/ NotifySnapshot \/ TickHealth \/ TickCooldown
RendererFairness ==
    /\ WF_rendererVars(SendOutput \/ SendGraceExpires \/ NotifyOutput)
    /\ WF_rendererVars(TryResize)
    /\ WF_rendererVars(SupervisorDue)
    /\ WF_rendererVars(WorkerStep)
    /\ WF_rendererVars(AdmitFrame) /\ WF_rendererVars(PublishFrame)
    /\ WF_rendererVars(KeepCheckpoint \/ CaptureFails)
    /\ WF_rendererVars(skewed /\ SkewWorker)

RendererSpec == RendererInit /\ [][RendererNext]_rendererVars /\ RendererFairness

(***************************************************************************)
(* What is checked.                                                        *)
(***************************************************************************)
\* The stages of the senders, the runner and the worker, and the limits of the journal and of the
\* events that wait for an earlier one (rendererJournalOrder).
RendererTypeOK ==
    /\ pump.pc \in {"stopped", "idle", "send", "enqueue"}
    /\ resizer.pc \in {"idle", "send"}
    /\ runner.pc \in {"loop", "reset", "spawn", "snapshot", "init", "install", "notify"}
    /\ runner.caller \in {"open", "rollback", "supervisor"}
    /\ worker.state \in {"none", "up", "stuck", "exited", "failed"}
    /\ capture.pc \in {"idle", "asked", "reply"}
    /\ sup.restarts \in 0..MaxRestarts
    /\ Len(journal.events) <= JournalCap
    /\ Cardinality(worker.pending) <= PendingCap

\* A screen the daemon shows without the partial-recovery mark holds every
\* output of the shell from the first on, in order and once, whatever was
\* trimmed, restored from a checkpoint, replayed or sent twice on the way.
CompleteUnlessPartial ==
    ~cache.partial => cache.screen = [i \in 1..Len(cache.screen) |-> i]

\* A screen that is not marked stale comes from the renderer that serves now:
\* from the moment a replacement is asked for, no frame of the old worker is
\* shown as live, however late it is decoded.  (The screen of a terminal whose
\* transfer is rolled back stays until its new renderer publishes.)
LiveScreenIsCurrent ==
    ~cache.stale /\ ~sup.closed
        => cache.gen = Carried \/ (cache.gen = Current /\ sup.accept)

Shown ==
    /\ cache.gen = Current /\ ~cache.stale /\ sup.accept /\ worker.state = "up"
    /\ cache.screen = worker.screen
    /\ \A i \in 1..Len(journal.events) :
          journal.events[i].kind = "output" => journal.events[i].id <= worker.applied

\* When the shell falls silent and workers stop failing, the screen catches up
\* with everything the shell wrote, though any number of renderers died on it.
\* (A terminal whose pump a failed rollback left stopped is left out.)
EventuallyShown == <>[](sup.closed \/ pump.pc = "stopped" \/ Shown)

\* A renderer that is given up is tried again: degraded is never a latch.
DegradedIsRetried == []<>~sup.degraded

\* The screen of a session is true: complete or marked as partial, current or marked as stale.
ScreenIsTrue == RendererTypeOK /\ CompleteUnlessPartial /\ LiveScreenIsCurrent

=============================================================================

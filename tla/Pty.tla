--------------------------------- MODULE Pty ---------------------------------
(***************************************************************************)
(* The process side of a daemon terminal (daemon_terminal_isolated.go and  *)
(* internal/terminalio): the pump that reads the line, the bounded writer  *)
(* that feeds it, the handoff of the line to a replacement daemon, and the *)
(* teardown of the child's process group.                                  *)
(*                                                                         *)
(* Output and input are numbered pieces.  "line" is the kernel's side: the *)
(* open descriptors of the master, the pieces under way and the members of *)
(* the child's group, of which "shell" is the child itself.  "term" holds  *)
(* the terminal object of each daemon; "hand" the update that moves the    *)
(* line from the old one to the new one, which runs under the host's       *)
(* update gate and so excludes a close by the user (DaemonHost).           *)
(***************************************************************************)
EXTENDS Integers, Sequences, FiniteSets, SequencesExt

CONSTANTS Members,        \* of the child's process group, "shell" among them
          WriterCap,      \* QueueMaxBytes, in pieces
          LineCap,        \* pieces the kernel buffers in either direction
          PtyBudgets,     \* what a history may do, and the signal each member needs
          DescriptorReuse \* the number of a closed descriptor may name another file

VARIABLES line, term, sender, hand, closer, ptyLeft
ptyVars == <<line, term, sender, hand, closer, ptyLeft>>

Sides == {"old", "new"}
Callers == {"user", "pump"}
NoWriter == [queue |-> <<>>, active |-> <<>>, closed |-> TRUE, at |-> "done", fd |-> "none"]
newGhosttyPTYWriter(fd) == [queue |-> <<>>, active |-> <<>>, closed |-> FALSE, at |-> "waits", fd |-> fd]
NoTerm == [state |-> "none", closed |-> FALSE, quit |-> FALSE, fd |-> "none", spare |-> FALSE, writer |-> NoWriter,
           pump |-> "none", held |-> <<>>, journal |-> <<>>, posts |-> 0, silent |-> FALSE]
NoSender == [side |-> "none", gen |-> "none"]
NoClose == [side |-> "none", at |-> "none", fd |-> "none"]
PtyLeft(f) == ptyLeft[f] > 0 /\ ptyLeft' = [ptyLeft EXCEPT ![f] = @ - 1]

-----------------------------------------------------------------------------
\* The kernel and the child.  The last close of the master hangs the line up.
Higher(a, b) == IF a > b THEN a ELSE b
Shut(l, fds) == [l EXCEPT !.open = @ \ fds, !.signal = IF l.open \subseteq fds THEN Higher(@, 1) ELSE @]
HungUp == line.group = {}

ChildWrites == /\ PtyLeft("out") /\ ~HungUp /\ Len(line.unread) < LineCap
               /\ line' = [line EXCEPT !.unread = Append(@, line.made + 1), !.made = @ + 1]
               /\ UNCHANGED <<term, sender, hand, closer>>

ChildReads == /\ ~HungUp /\ line.input # <<>>
              /\ line' = [line EXCEPT !.got = Append(@, Head(line.input)), !.input = Tail(@)]
              /\ UNCHANGED <<term, sender, hand, closer, ptyLeft>>

\* A member ends by itself, or by the signal that its group was sent.
Exits(m) == /\ m \in line.group /\ PtyLeft("exit") /\ line' = [line EXCEPT !.group = @ \ {m}]
            /\ UNCHANGED <<term, sender, hand, closer>>
Dies(m) == /\ m \in line.group /\ line.signal >= ptyLeft.tough[m] /\ line' = [line EXCEPT !.group = @ \ {m}]
           /\ UNCHANGED <<term, sender, hand, closer, ptyLeft>>

\* The one goroutine that waits for the child; once its daemon has gone, the init process.
wait == /\ "shell" \notin line.group /\ ~line.reaped /\ line' = [line EXCEPT !.reaped = TRUE]
        /\ UNCHANGED <<term, sender, hand, closer, ptyLeft>>

-----------------------------------------------------------------------------
\* The bounded writer.  Admission is tested under the terminal's lock and the
\* queue is filled after it: a handoff may come between.
enqueuePTYBytes(s) == /\ sender = NoSender /\ PtyLeft("keys") /\ term[s].state = "running" /\ term[s].writer # NoWriter
                      /\ sender' = [side |-> s, gen |-> term[s].writer.fd] /\ UNCHANGED <<line, term, hand, closer>>

Enqueue == /\ sender # NoSender /\ sender' = NoSender
           /\ LET s == sender.side
                  w == term[s].writer
                  fits == w.fd = sender.gen /\ ~w.closed /\ Len(w.queue) < WriterCap
              IN IF fits THEN /\ term' = [term EXCEPT ![s].writer.queue = Append(@, line.admitted + 1)]
                              /\ line' = [line EXCEPT !.admitted = @ + 1]
                 ELSE UNCHANGED <<term, line>>
           /\ UNCHANGED <<hand, closer, ptyLeft>>

\* The loop takes the whole queue, and marks itself active in the same step.
nextChunk(s) == LET w == term[s].writer IN
    /\ w.at = "waits" /\ (w.queue # <<>> \/ w.closed)
    /\ term' = IF w.queue # <<>> THEN [term EXCEPT ![s].writer.active = w.queue, ![s].writer.queue = <<>>, ![s].writer.at = "writes"]
               ELSE [term EXCEPT ![s].writer.at = "done"]
    /\ UNCHANGED <<line, sender, hand, closer, ptyLeft>>

\* A write takes what the kernel has room for; a full line is waited for in short
\* polls.  A descriptor that was closed, or a line that hung up, ends the loop.
WriteAll(s) == LET w == term[s].writer IN
    /\ w.at = "writes"
    /\ IF w.fd \notin line.open \/ HungUp
       THEN /\ term' = [term EXCEPT ![s].writer.active = <<>>, ![s].writer.at = "done"] /\ UNCHANGED line
       ELSE /\ Len(line.input) < LineCap
            /\ line' = [line EXCEPT !.input = Append(@, Head(w.active))]
            /\ term' = [term EXCEPT ![s].writer.active = Tail(@), ![s].writer.at = IF Tail(w.active) = <<>> THEN "waits" ELSE @]
    /\ UNCHANGED <<sender, hand, closer, ptyLeft>>

\* Closing discards the queue and closes the descriptor; the caller then waits for the loop.
CloseWriter(s) == [term[s].writer EXCEPT !.closed = TRUE, !.queue = <<>>]

\* The writer holds nothing: neither queued nor in hand.
Drained(w) == (w.queue = <<>> /\ w.at # "writes") \/ w.closed

-----------------------------------------------------------------------------
\* The pump: read, journal, and look at the quit channel in between.
PumpReads(s) == /\ term[s].pump = "runs" /\ term[s].held = <<>> /\ ~term[s].quit /\ line.unread # <<>>
                /\ line' = [line EXCEPT !.unread = Tail(@)]
                /\ term' = [term EXCEPT ![s].held = <<Head(line.unread)>>]
                /\ UNCHANGED <<sender, hand, closer, ptyLeft>>
PumpJournals_Quits(s) ==
    /\ term[s].held # <<>> /\ UNCHANGED <<line, sender, hand, closer, ptyLeft>>
    /\ term' = [term EXCEPT ![s].held = <<>>, ![s].journal = IF term[s].quit THEN @ ELSE @ \o term[s].held]
PumpJournals(s) == /\ term[s].held # <<>> /\ UNCHANGED <<line, sender, hand, closer, ptyLeft>>
                   /\ term' = [term EXCEPT ![s].journal = @ \o term[s].held, ![s].held = <<>>]

\* It ends when told to quit, or when the line ended: then it closes the terminal first.
PumpEnds(s) == /\ term[s].pump = "runs" /\ term[s].held = <<>>
               /\ \/ /\ term[s].quit /\ term' = [term EXCEPT ![s].pump = "done"] /\ UNCHANGED closer
                  \/ /\ ~term[s].quit /\ line.unread = <<>> /\ HungUp
                     /\ term' = [term EXCEPT ![s].pump = "closes"]
                     /\ closer' = [closer EXCEPT !["pump"] = [NoClose EXCEPT !.side = s, !.at = "lock"]]
               /\ UNCHANGED <<line, sender, hand, ptyLeft>>

-----------------------------------------------------------------------------
\* closeRuntime(kill, post): the user's close kills, the pump's posts the event.
Kills(c) == c = "user"
ClosePty(s) == /\ PtyLeft("close") /\ closer["user"] = NoClose /\ hand.at \in {"none", "done"} /\ term[s].state # "none" /\ term[s].state # "released"
               /\ closer' = [closer EXCEPT !["user"] = [NoClose EXCEPT !.side = s, !.at = "lock"]]
               /\ UNCHANGED <<line, term, sender, hand>>

CloserAt(c, step) == closer[c].at = step
To(c, step) == closer' = [closer EXCEPT ![c].at = step]

\* The resources are taken under the lock by the first of the two.
Take(c) == LET s == closer[c].side IN
    /\ CloserAt(c, "lock") /\ UNCHANGED <<line, sender, hand, ptyLeft>>
    /\ IF term[s].closed THEN To(c, "done") /\ term' = [term EXCEPT ![s].quit = TRUE]
       ELSE /\ term' = [term EXCEPT ![s].quit = TRUE, ![s].closed = TRUE, ![s].fd = "none", ![s].silent = Kills(c)]
            /\ closer' = [closer EXCEPT ![c].at = "io", ![c].fd = term[s].fd]

\* The writer is closed before the master, and waited for.
CloseIO(c) == LET s == closer[c].side IN
    /\ CloserAt(c, "io") /\ To(c, "loop")
    /\ term' = [term EXCEPT ![s].writer = CloseWriter(s)]
    /\ line' = Shut(line, {closer[c].fd})
    /\ UNCHANGED <<sender, hand, ptyLeft>>
CloseWaits(c) == /\ CloserAt(c, "loop") /\ term[closer[c].side].writer.at = "done" /\ To(c, IF Kills(c) THEN "hangup" ELSE "post")
                 /\ UNCHANGED <<line, term, sender, hand, ptyLeft>>

\* Shutdown: hang-up, terminate, kill, each after the grace of the one before it.
Gone == HungUp /\ line.reaped
AwaitProcessGroupExit(c) == /\ closer[c].at \in {"hangup", "term", "kill"} /\ Gone /\ To(c, "wait")
                            /\ UNCHANGED <<line, term, sender, hand, ptyLeft>>
Shutdown(c) == /\ \/ CloserAt(c, "hangup") /\ To(c, "term") /\ line' = [line EXCEPT !.signal = Higher(@, 2)]
                  \/ CloserAt(c, "term") /\ To(c, "kill") /\ line' = [line EXCEPT !.signal = 3]
                  \/ CloserAt(c, "kill") /\ To(c, "wait") /\ UNCHANGED line
               /\ UNCHANGED <<term, sender, hand, ptyLeft>>

\* Only the daemon that started the child has it to wait for.
closeRuntimeWaits(c) == /\ CloserAt(c, "wait") /\ (closer[c].side = "old" => line.reaped) /\ To(c, "done")
                        /\ UNCHANGED <<line, term, sender, hand, ptyLeft>>
closeRuntimePosts(c) == LET s == closer[c].side IN
    /\ \/ CloserAt(c, "post") /\ To(c, "done") /\ term' = [term EXCEPT ![s].posts = @ + 1, ![s].pump = "done"]
       \/ c = "pump" /\ CloserAt(c, "done") /\ term[s].pump = "closes" /\ term' = [term EXCEPT ![s].pump = "done"] /\ UNCHANGED closer
    /\ UNCHANGED <<line, sender, hand, ptyLeft>>

-----------------------------------------------------------------------------
\* The handoff.
H(step) == hand.at = step
Fails(t) == [t EXCEPT !["old"].state = "running"]

BeginPtyHandoff == /\ H("none") /\ closer["user"] = NoClose /\ PtyLeft("hand")
                   /\ ~term["old"].closed /\ term["old"].fd # "none" /\ term["old"].state = "running"
                   /\ term' = [term EXCEPT !["old"].state = "quiescing"]
                   /\ hand' = [hand EXCEPT !.at = "drain", !.mark = ToSet(term["old"].writer.queue \o term["old"].writer.active)]
                   /\ UNCHANGED <<line, sender, closer>>

\* Within its two seconds the writer is empty, or the handoff is given up.
DrainWriter == /\ H("drain")
               /\ \/ Drained(term["old"].writer) /\ hand' = [hand EXCEPT !.at = "dup"] /\ UNCHANGED <<term, ptyLeft>>
                  \/ ~Drained(term["old"].writer) /\ PtyLeft("fail") /\ hand' = [hand EXCEPT !.at = "none"] /\ term' = Fails(term)
               /\ UNCHANGED <<line, sender, closer>>

\* Two duplicates are taken of the descriptor's number; the pump is told to quit.
Dup == /\ H("dup") /\ UNCHANGED <<sender, closer>>
       /\ LET valid == term["old"].writer.fd \in line.open IN
          \/ /\ valid \/ DescriptorReuse
             /\ term' = [term EXCEPT !["old"].quit = TRUE]
             /\ line' = IF valid THEN [line EXCEPT !.open = @ \cup {"spare", "sent"}] ELSE line
             /\ hand' = [hand EXCEPT !.at = "pump", !.own = valid] /\ UNCHANGED ptyLeft
          \/ ~valid /\ term' = Fails(term) /\ hand' = [hand EXCEPT !.at = "none"] /\ UNCHANGED <<line, ptyLeft>>
          \/ valid /\ PtyLeft("fail") /\ term' = Fails(term) /\ hand' = [hand EXCEPT !.at = "none"] /\ UNCHANGED line

\* The pump's end is waited for; a tardy pump loses its descriptor first.
SealWriter(next) == /\ term' = [term EXCEPT !["old"].writer = CloseWriter("old")]
                    /\ line' = [line EXCEPT !.open = @ \ {term["old"].writer.fd}]
                    /\ hand' = [hand EXCEPT !.at = next]
AwaitPump == /\ \/ H("pump") /\ term["old"].pump = "done" /\ SealWriter("loop") /\ UNCHANGED ptyLeft
                \/ H("pump") /\ term["old"].pump # "done" /\ PtyLeft("fail") /\ SealWriter("tardy")
                \/ H("tardy") /\ term["old"].pump = "done" /\ hand' = [hand EXCEPT !.at = "loop"] /\ UNCHANGED <<term, line, ptyLeft>>
             /\ UNCHANGED <<sender, closer>>

\* The journal is cut once nothing writes to it any more.
Quiesce == /\ H("loop") /\ term["old"].writer.at = "done"
           /\ term' = [term EXCEPT !["old"].state = "quiesced", !["old"].fd = "none", !["old"].spare = TRUE]
           /\ hand' = [hand EXCEPT !.at = "quiesced", !.replay = term["old"].journal]
           /\ UNCHANGED <<line, sender, closer, ptyLeft>>

adoptIsolatedDaemonTerminal ==
    /\ H("quiesced") /\ hand.own
    /\ term' = [term EXCEPT !["new"] = [NoTerm EXCEPT !.state = "running", !.fd = "sent", !.journal = hand.replay,
                                                      !.writer = newGhosttyPTYWriter("sent")]]
    /\ hand' = [hand EXCEPT !.at = "adopted"] /\ UNCHANGED <<line, sender, closer, ptyLeft>>

\* Once the replacement has committed, each daemon does its half.
ReleaseAfterHandoff == /\ H("adopted") /\ hand' = [hand EXCEPT !.at = "released"]
                       /\ line' = Shut(line, {"spare"})
                       /\ term' = [term EXCEPT !["old"].state = "released", !["old"].closed = TRUE, !["old"].spare = FALSE]
                       /\ UNCHANGED <<sender, closer, ptyLeft>>
ActivateAfterHandoff == /\ H("released") /\ hand' = [hand EXCEPT !.at = "done"]
                        /\ term' = [term EXCEPT !["new"].pump = "runs"]
                        /\ UNCHANGED <<line, sender, closer, ptyLeft>>

\* Or the update fails: the replacement is killed and the old terminal resumes on its spare.
RollbackHandoff == /\ hand.at \in {"quiesced", "adopted"} /\ PtyLeft("fail") /\ hand.own
                   /\ hand' = [hand EXCEPT !.at = "none", !.mark = {}]
                   /\ line' = [line EXCEPT !.open = (@ \ {"sent", "spare"}) \cup {"again"}]
                   /\ term' = [term EXCEPT !["new"] = NoTerm,
                                           !["old"] = [@ EXCEPT !.state = "running", !.fd = "again", !.spare = FALSE, !.quit = FALSE,
                                                                !.pump = "runs", !.writer = newGhosttyPTYWriter("again")]]
                   /\ UNCHANGED <<sender, closer>>

-----------------------------------------------------------------------------
PtyInit == /\ ptyLeft \in PtyBudgets
           /\ line = [unread |-> <<>>, input |-> <<>>, got |-> <<>>, made |-> 0, admitted |-> 0, open |-> {"old"},
                      group |-> Members, signal |-> 0, reaped |-> FALSE]
           /\ term = [s \in Sides |-> IF s = "new" THEN NoTerm
                                      ELSE [NoTerm EXCEPT !.state = "running", !.fd = "old", !.pump = "runs", !.writer = newGhosttyPTYWriter("old")]]
           /\ sender = NoSender /\ closer = [c \in Callers |-> NoClose]
           /\ hand = [at |-> "none", mark |-> {}, own |-> TRUE, replay |-> <<>>]

WriterWork(s) == nextChunk(s) \/ WriteAll(s)
PumpWork(s) == PumpReads(s) \/ PumpJournals(s) \/ PumpEnds(s)
CloseWork(c) == \/ Take(c) \/ CloseIO(c) \/ CloseWaits(c) \/ AwaitProcessGroupExit(c) \/ Shutdown(c)
                \/ closeRuntimeWaits(c) \/ closeRuntimePosts(c)
HandoffWork == DrainWriter \/ Dup \/ AwaitPump \/ Quiesce \/ adoptIsolatedDaemonTerminal \/ ReleaseAfterHandoff \/ ActivateAfterHandoff \/ RollbackHandoff

PtyNext == \/ ChildWrites \/ ChildReads \/ wait \/ Enqueue \/ BeginPtyHandoff \/ HandoffWork
           \/ \E m \in Members : Exits(m) \/ Dies(m)
           \/ \E s \in Sides : enqueuePTYBytes(s) \/ ClosePty(s) \/ WriterWork(s) \/ PumpWork(s)
           \/ \E c \in Callers : CloseWork(c)

\* Every goroutine runs, a reading child reads, and a member that was sent the signal it
\* obeys ends.
PtyFairness ==
    /\ WF_ptyVars(ChildReads) /\ WF_ptyVars(wait) /\ WF_ptyVars(HandoffWork)
    /\ \A m \in Members : WF_ptyVars(Dies(m))
    /\ \A s \in Sides : WF_ptyVars(WriterWork(s)) /\ WF_ptyVars(PumpWork(s))
    /\ \A c \in Callers : WF_ptyVars(CloseWork(c))

PtySpec == PtyInit /\ [][PtyNext]_ptyVars /\ PtyFairness

-----------------------------------------------------------------------------
\* The type invariant: the queue and the line keep their bounds, and the handoff and the
\* closers are at one of their steps.
PtyTypeOK == /\ \A s \in Sides : /\ Len(term[s].writer.queue) <= WriterCap /\ Len(term[s].held) <= 1
                                 /\ term[s].pump \in {"none", "runs", "closes", "done"}
                                 /\ term[s].state \in {"none", "running", "quiescing", "quiesced", "released"}
             /\ Len(line.input) <= LineCap /\ line.group \subseteq Members /\ line.signal \in 0..3
             /\ hand.at \in {"none", "drain", "dup", "pump", "tardy", "loop", "quiesced", "adopted", "released", "done"}
             /\ term["old"].spare => hand.at \in {"quiesced", "adopted"}

\* What the child wrote is journaled once and in order, by whichever daemon has the line:
\* the pump journals a read before it looks at the quit channel, and the handoff cuts the
\* journal after the pump has ended.
Owner == IF term["new"].state = "none" THEN "old" ELSE "new"
OutputExactlyOnce == term[Owner].journal \o term[Owner].held \o line.unread = [i \in 1..line.made |-> i]

\* The child reads its input in the order it was admitted, and none of it twice.
InputInOrder == LET seen == line.got \o line.input IN
                \A i, j \in DOMAIN seen : i < j => seen[i] < seen[j]

\* Input that the writer held when a handoff began has reached the line when it is handed over, unless
\* the child was gone by then.
DrainedBeforeTransfer == hand.at \in {"quiesced", "adopted", "released"} /\ ~HungUp /\ hand.own =>
                             hand.mark \subseteq ToSet(line.got \o line.input)

\* The closed event is posted once, and not after a close by the user.
ClosedIsPostedOnce == \A s \in Sides : term[s].posts <= 1 /\ (term[s].silent => term[s].posts = 0)

\* A close that took the terminal's resources returns only with the child's group gone or
\* sent the signal that nobody survives, and in the daemon that started the child only
\* after it was reaped.
ClosedIsReaped == LET s == closer["user"].side IN
    CloserAt("user", "done") /\ term[s].silent => (s = "old" => line.reaped) /\ (HungUp \/ line.signal = 3)

\* Every close and every handoff ends.
TeardownEnds == []<>(\A c \in Callers : closer[c].at \in {"none", "done"}) /\ []<>(hand.at \in {"none", "done", "quiesced", "adopted"})

\* The line of a session carries what was written, once and in order, through closes and handoffs.
LineIsFaithful == /\ PtyTypeOK /\ OutputExactlyOnce /\ InputInOrder /\ DrainedBeforeTransfer
                  /\ ClosedIsPostedOnce /\ ClosedIsReaped

=============================================================================

----------------------------- MODULE AttachGate -----------------------------
(***************************************************************************)
(* Who answers a terminal query.  A program in the shell asks its terminal *)
(* questions in its output; the renderer answers by writing to the PTY.    *)
(* While a physical terminal is attached to the session, it shows the same *)
(* output and answers too, so the gate of terminal_attach_gate.go assigns  *)
(* each answer to one of them.                                             *)
(*                                                                         *)
(* Every output is taken to hold a query: output e is the e-th event of    *)
(* the journal.  The renderer applies outputs in order and its answers     *)
(* reach the gate in that order (Renderer); a renderer that is replaced    *)
(* replays without answering.  A physical terminal answers what it shows.  *)
(* The answers the gate holds are a set: it releases them in the order of  *)
(* their outputs.                                                          *)
(***************************************************************************)
EXTENDS Naturals, Sequences, FiniteSets

CONSTANTS
    Hosts,          \* clients that attach their physical terminal
    MaxOutput,      \* outputs of the shell
    Retained,       \* outputs the journal retains
    BatchCap,       \* outputs one read returns (rawAttachmentReadBytes)
    HeldCap,        \* answers the gate holds (rawAttachmentResponseLimit)
    MaxAttach,      \* attachments made
    MaxReplaced,    \* renderers replaced
    Nobody

ASSUME AttachAssumption ==
    /\ {MaxOutput, Retained, HeldCap, MaxAttach, MaxReplaced} \subseteq Nat
    /\ BatchCap \in Nat \ {0} /\ Nobody \notin Hosts

VARIABLES
    written,    \* outputs in the journal
    native,     \* the renderer: [applied, replies], replies on their way
    gate,       \* the fields of rawAttachmentGate
    host,       \* each client: where it is in its loop, and its cursor
    answers,    \* how often each query has been answered
    shown,      \* the outputs some physical terminal has shown
    dropped,    \* the answers of the renderer the gate has discarded
    orphaned,   \* outputs shown but not acknowledged when their attachment ended
    tries       \* [attach, replaced]: what the environment has used

attachVars == <<written, native, gate, host, answers, shown, dropped, orphaned, tries>>

NotAttached == [pc |-> "out", after |-> 0, through |-> 0, at |-> 0]

Answered(ids) == [e \in DOMAIN answers |-> IF e \in ids THEN answers[e] + 1 ELSE answers[e]]

(***************************************************************************)
(* The shell and the renderer.                                             *)
(***************************************************************************)
ShellWrites ==
    /\ written < MaxOutput
    /\ written' = written + 1
    /\ UNCHANGED <<native, gate, host, answers, shown, dropped, orphaned, tries>>

NativeApplies ==
    /\ native.applied < written
    /\ native' = [applied |-> native.applied + 1,
                  replies |-> Append(native.replies, native.applied + 1)]
    /\ UNCHANGED <<written, gate, host, answers, shown, dropped, orphaned, tries>>

\* A replacement replays the whole journal and answers nothing of it; what
\* the old worker had sent and the supervisor had not read is lost.
NativeReplaced ==
    /\ tries.replaced < MaxReplaced
    /\ tries' = [tries EXCEPT !.replaced = @ + 1]
    /\ native' = [applied |-> written, replies |-> <<>>]
    /\ UNCHANGED <<written, gate, host, answers, shown, dropped, orphaned>>

(***************************************************************************)
(* The gate.  Each action is one critical section of its mutex.            *)
(***************************************************************************)
Ended(g) == [g EXCEPT !.owner = Nobody, !.pending = FALSE, !.held = {},
                      !.suppressed = IF g.pending \/ @ > g.ack THEN @ ELSE g.ack]

\* endLocked delivers what no acknowledgement has given to the host.
Restored(g) == {e \in g.held : g.pending \/ e > g.ack}

End ==
    /\ gate' = Ended(gate)
    /\ orphaned' = orphaned \cup
         (IF gate.pending THEN {} ELSE {e \in shown : e > gate.ack})

\* An answer of the renderer is its own while nobody is attached, and for what
\* was written before the attachment; it is the host's once that showed it.
Mine(e) == gate.owner = Nobody \/ (gate.pending /\ e <= gate.start)

Discarded_Sent(e) ==
    e <= gate.suppressed \/ (~Mine(e) /\ ~gate.pending /\ e <= gate.sent)

Discarded(e) ==
    e <= gate.suppressed \/ (~Mine(e) /\ ~gate.pending /\ e <= gate.ack)

\* effect, for the answer that arrives next.
effect ==
    /\ native.replies # <<>>
    /\ native' = [native EXCEPT !.replies = Tail(@)]
    /\ LET e == Head(native.replies)
       IN \/ /\ Discarded(e)
             /\ dropped' = dropped \cup {e}
             /\ UNCHANGED <<gate, answers, orphaned>>
          \/ /\ ~Discarded(e) /\ Mine(e)
             /\ answers' = Answered({e})
             /\ UNCHANGED <<gate, dropped, orphaned>>
          \/ /\ ~Discarded(e) /\ ~Mine(e) /\ Cardinality(gate.held) >= HeldCap
             /\ End
             /\ answers' = Answered(Restored(gate) \cup {e})
             /\ UNCHANGED dropped
          \/ /\ ~Discarded(e) /\ ~Mine(e) /\ Cardinality(gate.held) < HeldCap
             /\ gate' = [gate EXCEPT !.held = @ \cup {e}]
             /\ UNCHANGED <<answers, dropped, orphaned>>
    /\ UNCHANGED <<written, host, shown, tries>>

\* AttachRaw: the attachment begins at the journal's last output ...
begin(h) ==
    /\ host[h].pc = "out" /\ tries.attach < MaxAttach
    /\ tries' = [tries EXCEPT !.attach = @ + 1]
    /\ IF gate.owner = Nobody
       THEN /\ gate' = [gate EXCEPT !.owner = h, !.pending = TRUE, !.start = written,
                                    !.ack = written, !.sent = written]
            /\ host' = [host EXCEPT ![h] = [NotAttached EXCEPT !.pc = "capturing"]]
       ELSE UNCHANGED <<gate, host>>
    /\ UNCHANGED <<written, native, answers, shown, dropped, orphaned>>

\* ... and takes effect at the output the captured screen ends with.  The
\* answers of that screen came before it on the worker's socket.
commit(h) ==
    /\ host[h].pc = "capturing" /\ gate.owner = h
    /\ native.applied >= gate.start /\ native.replies = <<>>
    /\ native.applied >= written - Retained
    /\ gate' = [gate EXCEPT !.pending = FALSE, !.ack = native.applied,
                            !.sent = native.applied,
                            !.held = {e \in @ : e > native.applied}]
    /\ answers' = Answered({e \in gate.held : e <= native.applied})
    /\ host' = [host EXCEPT ![h] = [pc |-> "ready", after |-> native.applied, through |-> 0,
                                    at |-> 0]]
    /\ UNCHANGED <<written, native, shown, dropped, orphaned, tries>>

\* The capture fails, times out, its caller is gone, or a flood of answers has
\* ended the attachment meanwhile.
CaptureRefused(h) ==
    /\ host[h].pc = "capturing"
    /\ IF gate.owner = h
       THEN End /\ answers' = Answered(Restored(gate))
       ELSE UNCHANGED <<gate, answers, orphaned>>
    /\ host' = [host EXCEPT ![h] = NotAttached]
    /\ UNCHANGED <<written, native, shown, dropped, tries>>

acknowledged(g, through) ==
    [g EXCEPT !.ack = through,
              !.suppressed = IF @ > through THEN @ ELSE through,
              !.held = {e \in @ : e > through}]

Valid(h) == gate.owner = h /\ ~gate.pending

\* ReadRaw, first part: the cursor of the request acknowledges what was shown.
acknowledge(h) ==
    /\ host[h].pc = "ready"
    /\ IF Valid(h) /\ host[h].after >= gate.ack /\ host[h].after <= gate.sent
       THEN /\ gate' = acknowledged(gate, host[h].after)
            /\ dropped' = dropped \cup {e \in gate.held : e <= host[h].after}
            /\ host' = [host EXCEPT ![h].pc = "reading"]
       ELSE /\ host' = [host EXCEPT ![h].pc = "leaving"]
            /\ UNCHANGED <<gate, dropped>>
    /\ UNCHANGED <<written, native, answers, shown, orphaned, tries>>

\* Second part: the journal is read; output that is no longer retained ends
\* the attachment.
readOutputAfter(h) ==
    /\ host[h].pc = "reading"
    /\ \/ /\ host[h].after >= written - Retained
          /\ \E n \in 0..BatchCap :
               /\ host[h].after + n <= written
               /\ n = BatchCap \/ host[h].after + n = written
               /\ host' = [host EXCEPT ![h] = [pc |-> "deliver", after |-> host[h].after,
                                               through |-> host[h].after + n, at |-> host[h].after]]
          /\ UNCHANGED <<gate, answers, orphaned>>
       \/ /\ host[h].after < written - Retained
          /\ host' = [host EXCEPT ![h].pc = "leaving"]
          /\ IF gate.owner = h
             THEN End /\ answers' = Answered(Restored(gate))
             ELSE UNCHANGED <<gate, answers, orphaned>>
    /\ UNCHANGED <<written, native, shown, dropped, tries>>

\* Third part: what the response will carry counts as sent.
delivered(h) ==
    /\ host[h].pc = "deliver"
    /\ IF Valid(h)
       THEN /\ gate' = [gate EXCEPT !.sent = IF @ > host[h].through THEN @ ELSE host[h].through]
            /\ host' = [host EXCEPT ![h].pc = "showing"]
       ELSE /\ host' = [host EXCEPT ![h].pc = "leaving"]
            /\ UNCHANGED gate
    /\ UNCHANGED <<written, native, answers, shown, dropped, orphaned, tries>>

(***************************************************************************)
(* The client with its physical terminal.                                  *)
(***************************************************************************)
\* One more output reaches the terminal, which answers it; the cursor moves
\* only when the whole batch is written.
Shows(h) ==
    /\ host[h].pc = "showing"
    /\ LET e == host[h].at + 1
       IN \/ /\ e > host[h].through
             /\ host' = [host EXCEPT ![h] = [pc |-> "ready", after |-> host[h].through,
                                             through |-> 0, at |-> 0]]
             /\ UNCHANGED <<shown, answers, orphaned>>
          \/ /\ e <= host[h].through
             /\ host' = [host EXCEPT ![h].at = e]
             /\ shown' = shown \cup {e}
             /\ answers' = Answered({e})
             /\ orphaned' = IF Valid(h) THEN orphaned ELSE orphaned \cup {e}
    /\ UNCHANGED <<written, native, gate, dropped, tries>>

\* The detach key, or an output the terminal does not take: the loop ends and
\* its deferred call acknowledges what was shown in full.
Leaves(h) ==
    /\ host[h].pc \in {"ready", "showing"}
    /\ host' = [host EXCEPT ![h] = [NotAttached EXCEPT !.pc = "leaving", !.after = host[h].after]]
    /\ UNCHANGED <<written, native, gate, answers, shown, dropped, orphaned, tries>>

DetachRaw(h) ==
    /\ host[h].pc = "leaving"
    /\ host' = [host EXCEPT ![h] = NotAttached]
    /\ IF Valid(h) /\ host[h].after >= gate.ack /\ host[h].after <= gate.sent
       THEN LET g == acknowledged(gate, host[h].after)
            IN /\ gate' = Ended(g)
               /\ dropped' = dropped \cup {e \in gate.held : e <= host[h].after}
               /\ answers' = Answered(Restored(g))
               /\ orphaned' = orphaned \cup {e \in shown : e > g.ack}
       ELSE UNCHANGED <<gate, dropped, answers, orphaned>>
    /\ UNCHANGED <<written, native, shown, tries>>

\* The client dies without a word.
HostDies(h) ==
    /\ host[h].pc \notin {"out", "capturing"}
    /\ host' = [host EXCEPT ![h] = NotAttached]
    /\ UNCHANGED <<written, native, gate, answers, shown, dropped, orphaned, tries>>

\* watchRawAttachment: its peer is gone, or has not read for the lease.
watchRawAttachment ==
    /\ gate.owner # Nobody /\ ~gate.pending
    /\ End
    /\ answers' = Answered(Restored(gate))
    /\ UNCHANGED <<written, native, host, shown, dropped, tries>>

AttachInit ==
    /\ written = 0
    /\ native = [applied |-> 0, replies |-> <<>>]
    /\ gate = [owner |-> Nobody, pending |-> FALSE, start |-> 0, ack |-> 0, sent |-> 0,
               suppressed |-> 0, held |-> {}]
    /\ host = [h \in Hosts |-> NotAttached]
    /\ answers = [e \in 1..MaxOutput |-> 0]
    /\ shown = {} /\ dropped = {} /\ orphaned = {}
    /\ tries = [attach |-> 0, replaced |-> 0]

HostStep(h) ==
    \/ begin(h) \/ commit(h) \/ CaptureRefused(h) \/ acknowledge(h) \/ readOutputAfter(h)
    \/ delivered(h) \/ Shows(h) \/ Leaves(h) \/ DetachRaw(h) \/ HostDies(h)

AttachNext ==
    \/ ShellWrites \/ NativeApplies \/ NativeReplaced \/ effect \/ watchRawAttachment
    \/ \E h \in Hosts : HostStep(h)

\* The reader of the worker's socket runs, a capture ends by its deadline, and
\* an attachment without a live client is ended by its watcher.
AttachFairness ==
    /\ WF_attachVars(effect)
    /\ WF_attachVars(watchRawAttachment)
    /\ \A h \in Hosts : WF_attachVars(CaptureRefused(h))

AttachSpec == AttachInit /\ [][AttachNext]_attachVars /\ AttachFairness

(***************************************************************************)
(* What is checked.                                                        *)
(***************************************************************************)
\* The stages of the hosts and the sequences of the gate, which nothing is left in when nobody owns it.
AttachTypeOK ==
    /\ gate.owner \in Hosts \cup {Nobody}
    /\ gate.start <= written /\ gate.ack <= gate.sent /\ gate.sent <= written
    /\ gate.owner = Nobody => gate.held = {} /\ ~gate.pending
    /\ Cardinality(gate.held) <= HeldCap
    /\ \A h \in Hosts : host[h].pc \in
         {"out", "capturing", "ready", "reading", "deliver", "showing", "leaving"}

\* A query is answered at most once, by the renderer or by one physical
\* terminal, except where a physical terminal showed the output and went away
\* before it could say so.
AnsweredOnce == \A e \in 1..MaxOutput : answers[e] <= 1 \/ e \in orphaned

\* An answer of the renderer is discarded only for output that a physical
\* terminal has shown, and so has answered: no query is silenced.
NoQuerySilenced == dropped \subseteq shown

\* Nothing is held forever: what the gate holds is delivered or discarded,
\* whatever the attached client does (terminal_attach_gate.go:150).
HeldIsReleased == []<>(gate.held = {})

\* Every query of the shell that gets an answer gets one, and none is left without by the gate.
QueriesAnsweredOnce == AttachTypeOK /\ AnsweredOnce /\ NoQuerySilenced

=============================================================================

----------------------------- MODULE MCTerminal -----------------------------
(***************************************************************************)
(* A node and its terminal, for TLC: the commands that make and unmake a   *)
(* node (NodeLifecycle), the renderer of a terminal session (Renderer),    *)
(* the gate of an attached physical terminal (AttachGate), the process     *)
(* side of the session (Pty) and the daemon that holds them all            *)
(* (Ownership).  They share no state, so a history exercises one of them   *)
(* and finds the others at rest.                                           *)
(***************************************************************************)
EXTENDS NodeLifecycle, Renderer, AttachGate, Pty, Ownership

VARIABLE part  \* the component this history exercises

NoBudget == [output |-> 0, resize |-> 0, fault |-> 0, expiry |-> 0, capture |-> 0,
             manual |-> 0, handoff |-> 0, skew |-> 0, poison |-> {}]

MCBudgets ==
    { [NoBudget EXCEPT !.output = 3, !.fault = 1],
      [NoBudget EXCEPT !.output = 2, !.resize = 1, !.fault = 1],
      [NoBudget EXCEPT !.output = 1, !.resize = 2, !.manual = 1],
      [NoBudget EXCEPT !.output = 3, !.capture = 1, !.manual = 1],
      [NoBudget EXCEPT !.output = 2, !.poison = {1}, !.expiry = 1],
      [NoBudget EXCEPT !.output = 2, !.capture = 1, !.handoff = 1],
      [NoBudget EXCEPT !.output = 1, !.resize = 1, !.handoff = 1, !.fault = 1],
      [NoBudget EXCEPT !.output = 1, !.skew = 1, !.fault = 1] }

\* A terminal that has been closed.
ClosedRenderer ==
    /\ journal = NewJournal
    /\ pump = Sender("stopped") /\ resizer = Sender("idle")
    /\ sup = [NewSupervisor EXCEPT !.closed = TRUE] /\ runner = IdleRunner
    /\ worker = NoWorker /\ decoding = {} /\ cache = NoCache
    /\ capture = IdleCapture /\ serial = 0 /\ skewed = FALSE /\ left = NoBudget

\* What the process side of a terminal may do: the pieces of input and output, the
\* members of the child's group that end, the closes, the handoffs and their failures,
\* and the signal that ends each member.
MCMembers == {"shell", "kid"}
NoPty == [keys |-> 0, out |-> 0, exit |-> 0, close |-> 0, hand |-> 0, fail |-> 0, tough |-> [m \in MCMembers |-> 1]]
PtyHistories ==
    { [NoPty EXCEPT !.out = 3, !.hand = 1, !.fail = 1],
      [NoPty EXCEPT !.keys = 3, !.hand = 1, !.fail = 1],
      [NoPty EXCEPT !.exit = 2, !.out = 1, !.close = 1, !.keys = 1],
      [NoPty EXCEPT !.exit = 2, !.hand = 1, !.fail = 1],
      [NoPty EXCEPT !.exit = 1, !.close = 1, !.tough = [m \in MCMembers |-> IF m = "kid" THEN 3 ELSE 2]],
      [NoPty EXCEPT !.hand = 2, !.keys = 2, !.fail = 1, !.out = 1],
      [NoPty EXCEPT !.hand = 1, !.out = 1, !.close = 1] }
MCPtyBudgets == PtyHistories \cup {NoPty}

\* The commands about the daemon: what two of them ask, the live owner of the home or the dead
\* one that left its files, and the crashes, stalls and slow deadlines.  A lone start over
\* leftovers, and a calm history in which nothing fails, are promised more.
NoOwn == [asks |-> [x |-> "none", y |-> "none"], owner |-> "none", left |-> "none", version |-> "cur",
          crash |-> 0, stall |-> 0, slow |-> 0, alone |-> FALSE, calm |-> FALSE]
Left(a, b) == [NoOwn EXCEPT !.asks = [x |-> a, y |-> b], !.left = "p"]
Owned(a, b) == [Left(a, b) EXCEPT !.owner = "p"]
OwnHistories ==
    { [Left("start", "none") EXCEPT !.alone = TRUE],
      [Left("start", "start") EXCEPT !.calm = TRUE],
      [Left("start", "start") EXCEPT !.slow = 1],
      [Left("connect", "connect") EXCEPT !.calm = TRUE],
      [Left("connect", "tui") EXCEPT !.calm = TRUE],
      [Left("connect", "update") EXCEPT !.version = "prior"],
      [Owned("restart", "restart") EXCEPT !.calm = TRUE],
      [Owned("restart", "start") EXCEPT !.calm = TRUE],
      [Owned("restart", "start") EXCEPT !.stall = 1],
      [Owned("restart", "start") EXCEPT !.crash = 1],
      [Owned("restart", "stop") EXCEPT !.stall = 1],
      [Owned("restart", "none") EXCEPT !.slow = 2],
      [Owned("start", "stop") EXCEPT !.version = "legacy", !.stall = 1],
      [Owned("start", "update") EXCEPT !.version = "legacy"],
      [Owned("start", "update") EXCEPT !.version = "prior", !.stall = 1] }
MCOwnBudgets == OwnHistories \cup {NoOwn}

\* The home is empty, nobody is attached and the child is silent in the initial states of
\* the others, which nothing obliges to move.
TerminalsInit ==
    /\ part \in {"node", "renderer", "attachment", "process", "owner"}
    /\ Init /\ AttachInit /\ PtyInit /\ OwnInit
    /\ part = "process" <=> ptyLeft # NoPty
    /\ part = "owner" <=> ownLeft # NoOwn
    /\ IF part = "renderer" THEN RendererInit ELSE ClosedRenderer

terminalsVars == <<part, vars, rendererVars, attachVars, ptyVars, ownVars>>
TerminalsNext ==
    /\ \/ part = "node" /\ Next /\ UNCHANGED <<rendererVars, attachVars, ptyVars, ownVars>>
       \/ part = "renderer" /\ RendererNext /\ UNCHANGED <<vars, attachVars, ptyVars, ownVars>>
       \/ part = "attachment" /\ AttachNext /\ UNCHANGED <<vars, rendererVars, ptyVars, ownVars>>
       \/ part = "process" /\ PtyNext /\ UNCHANGED <<vars, rendererVars, attachVars, ownVars>>
       \/ part = "owner" /\ OwnNext /\ UNCHANGED <<vars, rendererVars, attachVars, ptyVars>>
    /\ UNCHANGED part

\* The fairness of each component, in the histories that exercise it.
NodeWorks == \A p \in Procs : WF_vars(part = "node" /\ Step(p))
RendererWorks ==
    /\ WF_rendererVars(part = "renderer" /\ (SendOutput \/ SendGraceExpires \/ NotifyOutput))
    /\ WF_rendererVars(part = "renderer" /\ TryResize)
    /\ WF_rendererVars(part = "renderer" /\ SupervisorDue)
    /\ WF_rendererVars(part = "renderer" /\ WorkerStep)
    /\ WF_rendererVars(part = "renderer" /\ AdmitFrame)
    /\ WF_rendererVars(part = "renderer" /\ PublishFrame)
    /\ WF_rendererVars(part = "renderer" /\ (KeepCheckpoint \/ CaptureFails))
    /\ WF_rendererVars(part = "renderer" /\ skewed /\ SkewWorker)
AttachWorks ==
    /\ WF_attachVars(part = "attachment" /\ effect)
    /\ WF_attachVars(part = "attachment" /\ watchRawAttachment)
    /\ \A h \in Hosts : WF_attachVars(part = "attachment" /\ CaptureRefused(h))
ProcessWorks ==
    /\ WF_ptyVars(part = "process" /\ ChildReads) /\ WF_ptyVars(part = "process" /\ wait)
    /\ WF_ptyVars(part = "process" /\ HandoffWork)
    /\ \A m \in Members : WF_ptyVars(part = "process" /\ Dies(m))
    /\ \A s \in Sides : /\ WF_ptyVars(part = "process" /\ WriterWork(s))
                        /\ WF_ptyVars(part = "process" /\ PumpWork(s))
    /\ \A c \in Callers : WF_ptyVars(part = "process" /\ CloseWork(c))
OwnerWorks ==
    /\ \A d \in Processes : WF_ownVars(part = "owner" /\ DaemonWork(d))
    /\ \A c \in Clients : WF_ownVars(part = "owner" /\ CommandWork(c))

TerminalsSpec == /\ TerminalsInit /\ [][TerminalsNext]_terminalsVars
                 /\ NodeWorks /\ RendererWorks /\ AttachWorks /\ ProcessWorks /\ OwnerWorks

\* Whatever fails, everything begun comes to its end: the commands of a node return, the screen catches
\* up with the shell and a renderer given up is tried again, what the gate holds is released, closes and
\* handoffs end, and the commands about the daemon return.
TerminalsSettle == /\ OperationsReturn /\ EventuallyShown /\ DegradedIsRetried
                   /\ HeldIsReleased /\ TeardownEnds /\ CommandsReturn


\* What a shell wrote reaches the screen: journaled once and in order, and drawn in full or marked.
SessionIsFaithful == ScreenIsTrue /\ LineIsFaithful
=============================================================================

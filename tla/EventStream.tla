---------------------------- MODULE EventStream ----------------------------
(***************************************************************************)
(* How a TUI window follows the tabs of the daemon: Server.Broadcast, the  *)
(* heartbeat and the subscription cut (daemon/server.go), the client's     *)
(* outbound queue, the connection supervisor (tui_daemon_connection.go)    *)
(* and the event loop that owns the session map (tui_sessions.go).         *)
(*                                                                         *)
(* The daemon lists or unlists a tab, and only afterwards broadcasts it:   *)
(* a broadcast takes its revision under s.mu and pushes its frame after    *)
(* releasing it, holding the publication lock for reading.  One window is  *)
(* modelled; each has a queue of its own.  Popping a frame and reading it  *)
(* from the socket are one step; frames of a failed connection may still   *)
(* be read until the client sees the end of the stream.  Only membership   *)
(* is kept of a tab; TargetTabsChanged, which makes the window read the    *)
(* order again, stands for every broadcast that leaves membership alone.   *)
(***************************************************************************)
EXTENDS Naturals, FiniteSets, SequencesExt

CONSTANTS Tabs,
          QueueCap,        \* frames of the outbound queue
          TuiCap,          \* events of the window's own queue
          Attempts,        \* captures between equal revisions before the exclusive one
          MaxChanges,      \* tabs opened or closed, stops included
          MaxTicks,        \* heartbeats sent
          MaxFaults,       \* crashes, lost connections, failed or late installations
          HeartbeatRaces   \* whether a heartbeat may fall between assigning and pushing

ASSUME BoundsAssumption == /\ {QueueCap, TuiCap} \subseteq Nat \ {0}
                           /\ {Attempts, MaxChanges, MaxTicks, MaxFaults} \subseteq Nat
ASSUME HeartbeatRacesAssumption == HeartbeatRaces \in BOOLEAN

VARIABLES up,          \* whether the daemon process runs
          tabs,        \* the terminals it lists
          revision,
          pubs,        \* the goroutines that change a tab and broadcast it
          heart,       \* the heartbeat being pushed
          sub,         \* the goroutine serving events.subscribe
          conn,        \* the window's event connection, as the daemon holds it
          cl,          \* the supervisor
          tuiq,        \* events posted to the window's loop
          view,        \* the tabs the window shows
          ready,       \* daemonReady
          ticks, faults

daemon == <<up, tabs, revision, pubs, heart>>
window == <<tuiq, view, ready>>
vars == <<daemon, sub, conn, cl, window, ticks, faults>>

Stop == <<"daemon", "stop">>
Publishers == (Tabs \X {"open", "close"}) \cup {Stop}
Idle == [pc |-> "idle", rest |-> <<>>, rev |-> 0, to |-> FALSE]
NoSub == [pc |-> "none", before |-> 0, at |-> 0, state |-> {}, tries |-> 0]
NoConn == [open |-> FALSE, subscribed |-> FALSE, high |-> <<>>, low |-> <<>>]
Offline == [pc |-> "dial", seq |-> 0, told |-> {}, cut |-> {}, applied |-> FALSE]

Init == /\ up = TRUE
        /\ tabs = {} /\ revision = 0
        /\ pubs = [p \in Publishers |-> Idle]
        /\ heart = Idle
        /\ sub = NoSub /\ conn = NoConn /\ cl = Offline
        /\ tuiq = <<>> /\ view = {} /\ ready = TRUE
        /\ ticks = 0 /\ faults = 0

-----------------------------------------------------------------------------
(* The outbound queue: producers never block, a client that cannot take    *)
(* another frame loses its connection.                                     *)

Full(c) == Len(c.high) + Len(c.low) >= QueueCap

\* captured says whether the producer counted this connection among its recipients.
PushLow(captured, frame) ==
  conn' = CASE ~captured \/ ~conn.open -> conn
            [] captured /\ conn.open /\ Full(conn) -> [conn EXCEPT !.open = FALSE]
            [] OTHER -> [conn EXCEPT !.low = Append(@, frame)]

Recipient == conn.open /\ conn.subscribed

-----------------------------------------------------------------------------
(* Changing a tab, and Broadcast.                                          *)

Changes(p, kinds) ==
  /\ up /\ pubs[p].pc = "idle"
  /\ Cardinality({q \in Publishers : pubs[q].pc # "idle"}) < MaxChanges
  /\ pubs' = [pubs EXCEPT ![p] = [Idle EXCEPT !.pc = "changed", !.rest = kinds]]
  /\ UNCHANGED <<up, revision, heart, sub, conn, cl, window, ticks, faults>>

OpenTab(t) ==
  /\ Changes(<<t, "open">>, <<"created", "order">>)
  /\ tabs' = tabs \cup {t}

CloseTab(t) ==
  /\ t \in tabs
  /\ Changes(<<t, "close">>, <<"closed", "order">>)
  /\ tabs' = tabs \ {t}

ShellExit(t) ==
  /\ t \in tabs
  /\ Changes(<<t, "close">>, <<"closed">>)
  /\ tabs' = tabs \ {t}

StopDaemon ==
  /\ Changes(Stop, <<"shutdown">>)
  /\ UNCHANGED tabs

\* publication is held for reading by a broadcast that has its revision, and
\* for writing by the capture of last resort.
Cutting == sub.pc \in {"cut", "enqueue_cut"}
Publishing == {p \in Publishers : pubs[p].pc = "push"}

Assign(p) ==
  /\ pubs[p].pc = "changed" /\ ~Cutting
  /\ revision' = revision + 1
  /\ pubs' = [pubs EXCEPT ![p].pc = "push", ![p].rev = revision + 1, ![p].to = Recipient]
  /\ UNCHANGED <<up, tabs, heart, sub, conn, cl, window, ticks, faults>>

Push(p) ==
  /\ pubs[p].pc = "push"
  /\ PushLow(pubs[p].to, [kind |-> Head(pubs[p].rest), tab |-> p[1], rev |-> pubs[p].rev])
  /\ pubs' = [pubs EXCEPT ![p] = [Idle EXCEPT !.pc = IF Len(pubs[p].rest) = 1 THEN "done" ELSE "changed",
                                             !.rest = Tail(pubs[p].rest)]]
  /\ UNCHANGED <<up, tabs, revision, heart, sub, cl, window, ticks, faults>>

-----------------------------------------------------------------------------
(* heartbeatLoop: samples the revision under s.mu, pushes without any lock.*)

Heartbeat ==
  /\ up /\ heart.pc = "idle" /\ ticks < MaxTicks
  /\ HeartbeatRaces \/ Publishing = {}
  /\ heart' = [Idle EXCEPT !.pc = "push", !.rev = revision, !.to = Recipient]
  /\ ticks' = ticks + 1
  /\ UNCHANGED <<up, tabs, revision, pubs, sub, conn, cl, window, faults>>

HeartbeatPush ==
  /\ heart.pc = "push"
  /\ PushLow(heart.to, [kind |-> "heartbeat", tab |-> "none", rev |-> heart.rev])
  /\ heart' = Idle
  /\ UNCHANGED <<up, tabs, revision, pubs, sub, cl, window, ticks, faults>>

-----------------------------------------------------------------------------
(* subscribe: capture between two equal revisions, else hold publication.  *)

SubscribeReads ==
  /\ sub.pc = "before" /\ sub.tries < Attempts
  /\ sub' = [sub EXCEPT !.pc = "capture", !.before = revision]
  /\ UNCHANGED <<daemon, conn, cl, window, ticks, faults>>

SubscribeCaptures ==
  /\ sub.pc = "capture"
  /\ sub' = [sub EXCEPT !.pc = "enqueue", !.state = tabs, !.at = revision]
  /\ UNCHANGED <<daemon, conn, cl, window, ticks, faults>>

\* enqueueSyncLocked
EnqueueSync(rev) ==
  /\ conn' = IF conn.open THEN [conn EXCEPT !.high = <<[rev |-> rev, state |-> sub.state, at |-> sub.at]>>,
                                            !.subscribed = TRUE]
                          ELSE conn
  /\ sub' = NoSub

\* Mutant: the revision is not compared after the capture.
SubscribeEnqueues_Unchecked ==
  /\ sub.pc = "enqueue"
  /\ EnqueueSync(sub.before)
  /\ UNCHANGED <<daemon, cl, window, ticks, faults>>

SubscribeEnqueues ==
  /\ sub.pc = "enqueue"
  /\ \/ revision = sub.before /\ EnqueueSync(sub.before)
     \/ revision # sub.before /\ sub' = [NoSub EXCEPT !.pc = "before", !.tries = sub.tries + 1] /\ UNCHANGED conn
  /\ UNCHANGED <<daemon, cl, window, ticks, faults>>

\* captureSynchronizedCut
CutLocks ==
  /\ sub.pc = "before" /\ sub.tries >= Attempts /\ Publishing = {}
  /\ sub' = [sub EXCEPT !.pc = "cut"]
  /\ UNCHANGED <<daemon, conn, cl, window, ticks, faults>>

CutCaptures ==
  /\ sub.pc = "cut"
  /\ sub' = [sub EXCEPT !.pc = "enqueue_cut", !.state = tabs, !.at = revision]
  /\ UNCHANGED <<daemon, conn, cl, window, ticks, faults>>

CutEnqueues ==
  /\ sub.pc = "enqueue_cut"
  /\ EnqueueSync(revision)
  /\ UNCHANGED <<daemon, cl, window, ticks, faults>>

-----------------------------------------------------------------------------
(* The end and the start of a daemon process: its tabs are kept (see       *)
(* DaemonHost), its revisions start again.  A connection never spans two   *)
(* processes, so the epochs the supervisor compares are left out.          *)

Down ==
  /\ up' = FALSE
  /\ pubs' = [p \in Publishers |-> IF pubs[p].pc = "idle" THEN Idle ELSE [Idle EXCEPT !.pc = "over"]]
  /\ heart' = Idle /\ sub' = NoSub
  /\ conn' = [conn EXCEPT !.open = FALSE]
  /\ UNCHANGED <<tabs, revision, cl, window, ticks>>

Stopped == /\ up /\ pubs[Stop].pc = "done"
           /\ Down /\ UNCHANGED faults

Crash == /\ up /\ faults < MaxFaults
         /\ Down /\ faults' = faults + 1

StartDaemon ==
  /\ ~up
  /\ up' = TRUE /\ revision' = 0
  /\ UNCHANGED <<tabs, pubs, heart, sub, conn, cl, window, ticks, faults>>

-----------------------------------------------------------------------------
(* The supervisor.  When it gives a connection up daemonReady falls and it *)
(* dials again; a frame or an installation still on its way then belongs   *)
(* to a connection, or a wait, that is over.                               *)

Disconnect ==
  /\ cl' = Offline /\ conn' = NoConn /\ sub' = NoSub
  /\ pubs' = [p \in Publishers |-> [pubs[p] EXCEPT !.to = FALSE]]
  /\ heart' = [heart EXCEPT !.to = FALSE]
  /\ tuiq' = [i \in DOMAIN tuiq |-> [tuiq[i] EXCEPT !.stale = TRUE]]
  /\ ready' = FALSE
  /\ UNCHANGED <<up, tabs, revision, view, ticks>>

Dial ==
  /\ cl.pc = "dial" /\ up /\ pubs[Stop].pc # "done"
  /\ cl' = [cl EXCEPT !.pc = "subscribe"]
  /\ conn' = [NoConn EXCEPT !.open = TRUE]
  /\ sub' = [NoSub EXCEPT !.pc = "before"]
  /\ UNCHANGED <<daemon, window, ticks, faults>>

Synchronized ==
  /\ cl.pc = "subscribe" /\ conn.high # <<>>
  /\ LET sync == Head(conn.high)
     IN cl' = [cl EXCEPT !.pc = "prepare", !.seq = sync.rev,
                         !.told = 1..sync.at, !.cut = sync.state]
  /\ conn' = [conn EXCEPT !.high = <<>>]
  /\ UNCHANGED <<daemon, sub, window, ticks, faults>>

\* prepareDaemonSynchronization: the request connection answers and the seat
\* is settled; postCompletion waits for room in the window's queue.
Prepare ==
  /\ cl.pc = "prepare" /\ Len(tuiq) < TuiCap
  /\ tuiq' = Append(tuiq, [kind |-> "sync", tab |-> "none", cut |-> cl.cut, stale |-> FALSE])
  /\ cl' = [cl EXCEPT !.pc = "wait", !.cut = {}]
  /\ UNCHANGED <<daemon, sub, conn, view, ready, ticks, faults>>

Installed ==
  /\ cl.pc = "wait" /\ cl.applied
  /\ cl' = [cl EXCEPT !.pc = "ready", !.applied = FALSE]
  /\ UNCHANGED <<daemon, sub, conn, window, ticks, faults>>

\* Mutant: the end of the stream is only seen once events are read.
EndOfStream_WhenReady ==
  /\ cl.pc = "ready" /\ ~conn.open
  /\ Disconnect /\ UNCHANGED faults

\* The connection ends: the daemon failed it or went down.
EndOfStream ==
  /\ cl.pc \in {"subscribe", "ready"} /\ ~conn.open
  /\ Disconnect /\ UNCHANGED faults

\* A lost connection, three missed heartbeats, a request connection that does
\* not answer, an installation the window's loop did not reach in time.
GiveUp ==
  /\ cl.pc # "dial" /\ faults < MaxFaults
  /\ Disconnect /\ faults' = faults + 1

\* handleDaemonEvent: postCompletion waits for room, postEvent drops the event.
Post(frame) ==
  /\ frame.kind \in {"created", "order"} => Len(tuiq) < TuiCap
  /\ tuiq' = IF frame.kind \in {"created", "closed"} /\ Len(tuiq) < TuiCap
               THEN Append(tuiq, [kind |-> frame.kind, tab |-> frame.tab, cut |-> {}, stale |-> FALSE])
               ELSE tuiq

\* The window is told of the event; a heartbeat only moves the sequence.
Takes(frame) ==
  /\ Post(frame)
  /\ cl' = [cl EXCEPT !.seq = frame.rev, !.told = IF frame.kind = "heartbeat" THEN @ ELSE @ \cup {frame.rev}]
  /\ conn' = [conn EXCEPT !.low = Tail(@)]

\* Mutant: an event beyond the next one is taken without a gap being seen.
Apply_AnyLater ==
  /\ cl.pc = "ready" /\ conn.low # <<>>
  /\ Head(conn.low).rev > cl.seq /\ Head(conn.low).kind # "shutdown"
  /\ Takes(Head(conn.low))
  /\ UNCHANGED <<daemon, sub, view, ready, ticks, faults>>

Apply ==
  /\ cl.pc = "ready" /\ conn.low # <<>>
  /\ Head(conn.low).rev = cl.seq + 1 /\ Head(conn.low).kind # "shutdown"
  /\ Takes(Head(conn.low))
  /\ UNCHANGED <<daemon, sub, view, ready, ticks, faults>>

Skip ==
  /\ cl.pc = "ready" /\ conn.low # <<>>
  /\ Head(conn.low).rev <= cl.seq
  /\ conn' = [conn EXCEPT !.low = Tail(@)]
  /\ UNCHANGED <<daemon, sub, cl, window, ticks, faults>>

\* A gap, or the daemon's farewell.
Reconnect ==
  /\ cl.pc = "ready" /\ conn.low # <<>>
  /\ \/ Head(conn.low).rev > cl.seq + 1
     \/ Head(conn.low).rev = cl.seq + 1 /\ Head(conn.low).kind = "shutdown"
  /\ Disconnect /\ UNCHANGED faults

-----------------------------------------------------------------------------
(* The window's event loop.                                                *)

TuiStep ==
  /\ tuiq # <<>>
  /\ tuiq' = Tail(tuiq)
  /\ LET e == Head(tuiq)
     IN \/ e.kind = "sync" /\ view' = e.cut /\ ready' = TRUE
           /\ cl' = IF ~e.stale THEN [cl EXCEPT !.applied = TRUE] ELSE cl
        \/ e.kind = "created" /\ view' = view \cup {e.tab} /\ UNCHANGED <<ready, cl>>
        \/ e.kind = "closed" /\ view' = view \ {e.tab} /\ UNCHANGED <<ready, cl>>
  /\ UNCHANGED <<daemon, sub, conn, ticks, faults>>

-----------------------------------------------------------------------------
Publish == \E p \in Publishers : Assign(p) \/ Push(p)
Subscribe == \/ SubscribeReads \/ SubscribeCaptures \/ SubscribeEnqueues
             \/ CutLocks \/ CutCaptures \/ CutEnqueues
Supervise == \/ Dial \/ Synchronized \/ Prepare \/ Installed \/ EndOfStream
             \/ Apply \/ Skip \/ Reconnect

Next == \/ \E t \in Tabs : OpenTab(t) \/ CloseTab(t) \/ ShellExit(t)
        \/ StopDaemon \/ Stopped \/ Crash \/ StartDaemon
        \/ Publish \/ Heartbeat \/ HeartbeatPush \/ Subscribe
        \/ Supervise \/ GiveUp \/ TuiStep

\* Goroutines that can run do; nothing makes a tab change, a heartbeat fall
\* or a daemon start.
Fairness == /\ \A p \in Publishers : WF_vars(Assign(p)) /\ WF_vars(Push(p))
            /\ WF_vars(HeartbeatPush) /\ WF_vars(Subscribe)
            /\ WF_vars(Supervise) /\ WF_vars(TuiStep) /\ WF_vars(Stopped)

Spec == Init /\ [][Next]_vars /\ Fairness
-----------------------------------------------------------------------------
Frames == [kind : {"created", "closed", "order", "shutdown", "heartbeat"}, tab : Tabs \cup {"daemon", "none"}, rev : Nat]

\* The state of the daemon, the connection and the window has the shape the
\* code gives it; the queues never exceed their bounds.
TypeOK ==
  /\ up \in BOOLEAN /\ ready \in BOOLEAN
  /\ tabs \subseteq Tabs /\ view \subseteq Tabs
  /\ revision \in Nat
  /\ \A p \in Publishers : pubs[p].pc \in {"idle", "changed", "push", "done", "over"}
  /\ heart.pc \in {"idle", "push"}
  /\ sub.pc \in {"none", "before", "capture", "enqueue", "cut", "enqueue_cut"} /\ sub.tries <= Attempts
  /\ Len(conn.high) + Len(conn.low) <= QueueCap
  /\ \A i \in DOMAIN conn.low : conn.low[i] \in Frames
  /\ cl.pc \in {"dial", "subscribe", "prepare", "wait", "ready"}
  /\ cl.seq \in Nat /\ cl.told \subseteq Nat
  /\ Len(tuiq) <= TuiCap

\* The supervisor's sequence is a promise: every event up to it was in the
\* cut the window installs or was handed to the window.  A lost or reordered
\* event therefore shows as a gap, and a gap as a new cut.
NoEventSkipped == cl.pc \in {"prepare", "wait", "ready"} => 1..cl.seq \subseteq cl.told

\* Once nothing is on its way, a ready window shows every tab the daemon
\* lists: no interleaving of opening a tab with capturing the cut, two
\* broadcasts, a full queue or a restart hides a tab.
Settled == /\ up /\ \A p \in Publishers : pubs[p].pc \in {"idle", "done", "over"}
           /\ cl.pc = "ready" /\ conn.open /\ conn.low = <<>> /\ tuiq = <<>>
NoMissingTab == Settled => tabs \subseteq view

\* A window always catches up again while a daemon runs: whatever fails, the
\* supervisor comes back to ready at the daemon's current revision with
\* daemonReady set, so that its terminal calls are let through.
CatchesUp == []<>(~up \/ (cl.pc = "ready" /\ cl.seq = revision /\ ready))
====

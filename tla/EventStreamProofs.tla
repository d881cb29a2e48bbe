------------------------- MODULE EventStreamProofs --------------------------
(***************************************************************************)
(* Why a window that follows the daemon's events misses none: the proof,   *)
(* for any number of tabs, queues of any size and histories of any length, *)
(* that no event is skipped and that a window at rest shows every tab, as  *)
(* long as no heartbeat samples the revision of an event that is not yet   *)
(* in the queue.                                                           *)
(***************************************************************************)
EXTENDS EventStreamQueue

\* Most leaves are left to Zenon; those that need arithmetic cite SMT.
USE Zenon

-----------------------------------------------------------------------------
(* The tabs, the goroutines that change them and the cut.                  *)

TabChange == StopDaemon \/ \E t \in Tabs : OpenTab(t) \/ CloseTab(t) \/ ShellExit(t)

\* What changing the tabs does: only a tab never opened before is opened, and
\* then its broadcast begins; only a listed tab is closed.
LEMMA EffectOfChange ==
  ASSUME Types, TabChange
  PROVE  /\ \A p \in Publishers : pubs[p].pc # "idle" => pubs'[p] = pubs[p]
         /\ \A p \in Publishers : pubs'[p] = pubs[p] \/ pubs'[p].pc = "changed"
         /\ \A t \in Tabs : t \in tabs' => t \in tabs \/ (pubs[<<t, "open">>].pc = "idle" /\ Unsaid(t)')
         /\ \A t \in Tabs : pubs'[<<t, "close">>].pc # "idle" =>
              pubs[<<t, "close">>].pc # "idle" \/ (t \in tabs /\ t \notin tabs')
         /\ tabs' \subseteq Tabs
         /\ UNCHANGED <<up, revision, heart, sub, conn, cl, window, ticks, faults>>
<1>1. ASSUME NEW p \in Publishers, NEW kinds, Changes(p, kinds)
      PROVE  /\ \A q \in Publishers : pubs[q].pc # "idle" => pubs'[q] = pubs[q]
             /\ \A q \in Publishers : pubs'[q] = pubs[q] \/ pubs'[q].pc = "changed"
             /\ \A q \in Publishers : q # p => pubs'[q] = pubs[q]
             /\ pubs[p].pc = "idle" /\ pubs'[p].pc = "changed" /\ pubs'[p].rest = kinds
             /\ UNCHANGED <<up, revision, heart, sub, conn, cl, window, ticks, faults>>
  BY <1>1 DEF Changes, Types, Publications, Idle
<1>2. CASE StopDaemon
  <2>1. Stop \in Publishers /\ \A t \in Tabs : <<t, "close">> \in Publishers
    BY PublisherFacts
  <2>3. \A t \in Tabs : <<t, "close">> # Stop
    BY SMT DEF Stop
  <2>2. Changes(Stop, <<"shutdown">>) /\ tabs' = tabs
    BY <1>2 DEF StopDaemon
  <2> QED BY <1>1, <2>1, <2>2, <2>3 DEF Types
<1>3. ASSUME NEW t \in Tabs, OpenTab(t)
      PROVE  /\ \A p \in Publishers : pubs[p].pc # "idle" => pubs'[p] = pubs[p]
             /\ \A p \in Publishers : pubs'[p] = pubs[p] \/ pubs'[p].pc = "changed"
             /\ \A u \in Tabs : u \in tabs' => u \in tabs \/ (pubs[<<u, "open">>].pc = "idle" /\ Unsaid(u)')
             /\ \A u \in Tabs : pubs'[<<u, "close">>].pc # "idle" =>
                  pubs[<<u, "close">>].pc # "idle" \/ (u \in tabs /\ u \notin tabs')
             /\ tabs' \subseteq Tabs
             /\ UNCHANGED <<up, revision, heart, sub, conn, cl, window, ticks, faults>>
  <2>1. <<t, "open">> \in Publishers /\ \A u \in Tabs : <<u, "close">> \in Publishers
    BY PublisherFacts
  <2>4. <<"created", "order">>[1] = "created" /\ \A u \in Tabs : <<u, "close">> # <<t, "open">>
    BY SMT
  <2>2. Changes(<<t, "open">>, <<"created", "order">>) /\ tabs' = tabs \cup {t}
    BY <1>3 DEF OpenTab
  <2>3. Unsaid(t)' /\ pubs[<<t, "open">>].pc = "idle"
    BY <1>1, <2>1, <2>2, <2>4 DEF Unsaid
  <2> QED BY <1>1, <2>1, <2>2, <2>3, <2>4 DEF Types
<1>4. ASSUME NEW t \in Tabs, CloseTab(t) \/ ShellExit(t)
      PROVE  /\ \A p \in Publishers : pubs[p].pc # "idle" => pubs'[p] = pubs[p]
             /\ \A p \in Publishers : pubs'[p] = pubs[p] \/ pubs'[p].pc = "changed"
             /\ \A u \in Tabs : u \in tabs' => u \in tabs \/ (pubs[<<u, "open">>].pc = "idle" /\ Unsaid(u)')
             /\ \A u \in Tabs : pubs'[<<u, "close">>].pc # "idle" =>
                  pubs[<<u, "close">>].pc # "idle" \/ (u \in tabs /\ u \notin tabs')
             /\ tabs' \subseteq Tabs
             /\ UNCHANGED <<up, revision, heart, sub, conn, cl, window, ticks, faults>>
  <2>1. \A u \in Tabs : <<u, "close">> \in Publishers
    BY PublisherFacts
  <2>3. \A u \in Tabs : u # t => <<u, "close">> # <<t, "close">>
    BY SMT
  <2>2. PICK kinds : Changes(<<t, "close">>, kinds) /\ tabs' = tabs \ {t} /\ t \in tabs
    BY <1>4 DEF CloseTab, ShellExit
  <2> QED BY <1>1, <2>1, <2>2, <2>3 DEF Types
<1> QED BY <1>2, <1>3, <1>4 DEF TabChange

\* The goroutine of a broadcast only ever moves on.
LEMMA NeverAgain ==
  ASSUME Types, [Next]_vars
  PROVE  /\ \A p \in Publishers : pubs[p].pc # "idle" => pubs'[p].pc # "idle"
         /\ TabChange \/ (tabs' = tabs /\ \A p \in Publishers : pubs[p].pc = "idle" => pubs'[p].pc = "idle")
<1>1. CASE TabChange
  BY <1>1, EffectOfChange
<1>2. CASE Down
  BY <1>2 DEF Down, Idle
<1>3. CASE Disconnect
  BY <1>3 DEF Disconnect, Types, Publications, Publication
<1>4. CASE \E p \in Publishers : Assign(p)
  BY <1>4, SMT DEF Assign, Types, Publications, Publication
<1>5. CASE \E p \in Publishers : Push(p)
  BY <1>5, SMT DEF Push, Types, Publications, Idle
<1>6. CASE UNCHANGED <<tabs, pubs>>
  BY <1>6
<1>7. Next => \/ TabChange \/ Down \/ Disconnect \/ UNCHANGED <<tabs, pubs>>
              \/ \E p \in Publishers : Assign(p) \/ Push(p)
  BY DEF Next, TabChange, Stopped, Crash, StartDaemon, Publish, Heartbeat, HeartbeatPush, Subscribe,
         SubscribeReads, SubscribeCaptures, SubscribeEnqueues, CutLocks, CutCaptures, CutEnqueues,
         Supervise, Dial, Synchronized, Prepare, Installed, EndOfStream, Apply, Skip, Reconnect, GiveUp, TuiStep, daemon
<1> QED BY <1>1, <1>2, <1>3, <1>4, <1>5, <1>6, <1>7 DEF vars, daemon

LEMMA GoneStays ==
  ASSUME Types, Closures, [Next]_vars
  PROVE  /\ \A t \in Tabs : Gone(t) => Gone(t)'
         /\ \A t \in tabs' : pubs'[<<t, "open">>].pc # "idle"
         /\ \A t \in Tabs : pubs'[<<t, "close">>].pc # "idle" => Gone(t)'
<1>1. \A t \in Tabs : <<t, "open">> \in Publishers /\ <<t, "close">> \in Publishers
  BY PublisherFacts
<1>2. CASE TabChange
  <2>1. \A t \in Tabs : Gone(t) => Gone(t)'
    BY <1>1, <1>2, EffectOfChange DEF Gone
  <2>2. \A t \in tabs' : pubs'[<<t, "open">>].pc # "idle"
    <3>1. ASSUME NEW t \in Tabs, t \in tabs PROVE pubs'[<<t, "open">>].pc # "idle"
      BY <1>1, <1>2, <3>1, NeverAgain DEF Closures
    <3>2. ASSUME NEW t \in Tabs, Unsaid(t)' PROVE pubs'[<<t, "open">>].pc # "idle"
      BY <3>2 DEF Unsaid
    <3> QED BY <1>2, <3>1, <3>2, EffectOfChange
  <2>3. \A t \in Tabs : pubs'[<<t, "close">>].pc # "idle" => Gone(t)'
    BY <1>1, <1>2, <2>1, EffectOfChange, SMT DEF Closures, Gone
  <2> QED BY <2>1, <2>2, <2>3
<1>3. CASE ~TabChange
  <2>1. /\ tabs' = tabs /\ \A p \in Publishers : pubs[p].pc # "idle" <=> pubs'[p].pc # "idle"
    BY <1>3, NeverAgain
  <2> QED BY <1>1, <2>1 DEF Closures, Gone, Types
<1> QED BY <1>2, <1>3

\* A tab's opening stays unsaid until a revision is taken for it.
LEMMA UnsaidStays ==
  ASSUME Types, Linked, [Next]_vars, revision' = revision, sub.pc # "none", sub'.pc # "none"
  PROVE  \A t \in tabs' : Unsaid(t)' \/ (t \in tabs /\ (Unsaid(t) => Unsaid(t)'))
<1>1. \A t \in Tabs : <<t, "open">> \in Publishers
  BY PublisherFacts
<1>2. CASE TabChange
  BY <1>1, <1>2, EffectOfChange DEF Unsaid
<1>3. CASE \E p \in Publishers : Push(p)
  <2>1. PICK p \in Publishers : Push(p)
    BY <1>3
  <2>2. pubs[p].pc = "push" /\ tabs' = tabs /\ \A q \in Publishers : q # p => pubs'[q] = pubs[q]
    BY <2>1 DEF Push, Types, Publications
  <2> QED BY <1>1, <2>2 DEF Unsaid, Types
<1>4. CASE \E p \in Publishers : Assign(p)
  <2>1. revision' = revision + 1 /\ revision \in Nat
    BY <1>4 DEF Assign, Types
  <2>2. revision' # revision
    BY <2>1, SMT
  <2> QED BY <2>2
<1>5. CASE UNCHANGED <<tabs, pubs>>
  BY <1>5 DEF Unsaid
<1>6. CASE Down \/ Disconnect
  BY <1>6, SMT DEF Down, Disconnect, NoSub
<1>7. Next => \/ TabChange \/ Down \/ Disconnect \/ UNCHANGED <<tabs, pubs>>
              \/ \E p \in Publishers : Assign(p) \/ Push(p)
  BY DEF Next, TabChange, Stopped, Crash, StartDaemon, Publish, Heartbeat, HeartbeatPush, Subscribe,
         SubscribeReads, SubscribeCaptures, SubscribeEnqueues, CutLocks, CutCaptures, CutEnqueues,
         Supervise, Dial, Synchronized, Prepare, Installed, EndOfStream, Apply, Skip, Reconnect, GiveUp, TuiStep, daemon
<1> QED BY <1>2, <1>3, <1>4, <1>5, <1>6, <1>7 DEF vars, daemon

LEMMA CapturedInit == Init => Captured /\ Closures /\ Covered /\ NoEventSkipped
<1>1. DOMAIN <<>> = {}
  BY SMT
<1> SUFFICES ASSUME Init PROVE Captured /\ Closures /\ Covered /\ NoEventSkipped
  OBVIOUS
<1>2. Captured
  BY <1>1 DEF Init, Captured, NoSub, NoConn
<1>3. \A t \in Tabs : pubs[<<t, "close">>].pc = "idle"
  BY PublisherFacts DEF Init, Idle
<1>4. Closures
  BY <1>1, <1>3 DEF Init, Closures, NoConn
<1>5. Covered
  BY DEF Init, Covered
<1>6. NoEventSkipped
  BY DEF Init, NoEventSkipped, Offline
<1> QED BY <1>2, <1>4, <1>5, <1>6

\* While the capture lasts nothing but a broadcast moves the revision, and
\* the capture of last resort excludes even that.
LEMMA CapturedFrame ==
  ASSUME Types, Linked, Captured, [Next]_vars, sub' = sub, conn'.high = conn.high \/ conn'.high = <<>>
  PROVE  Captured'
<1>1. \A i \in DOMAIN conn'.high : conn'.high[i].rev <= conn'.high[i].at
  <2>1. DOMAIN <<>> = {}
    BY SMT
  <2> QED BY <2>1 DEF Captured
<1>2. CASE sub.pc = "none"
  BY <1>1, <1>2 DEF Captured
<1>3. CASE sub.pc # "none" /\ revision' = revision
  BY <1>1, <1>3, UnsaidStays DEF Captured
<1>4. CASE \E p \in Publishers : Assign(p)
  <2>1. revision' = revision + 1 /\ revision \in Nat /\ ~Cutting /\ sub.before \in Nat /\ sub.at \in Nat
    BY <1>4 DEF Assign, Types, Subscription
  <2>2. sub.pc \in {"capture", "enqueue"} => sub.before <= revision' /\ revision' # sub.before
    BY <2>1, SMT DEF Captured
  <2>3. sub.pc = "enqueue" => sub.before <= sub.at /\ sub.at <= revision'
    BY <2>1, SMT DEF Captured
  <2>4. sub.pc # "enqueue_cut"
    BY <2>1 DEF Cutting
  <2> QED BY <1>1, <2>2, <2>3, <2>4 DEF Captured
<1>5. CASE StartDaemon
  <2>1. sub.pc = "none"
    BY <1>5 DEF StartDaemon, Linked
  <2> QED BY <1>2, <2>1
<1>6. \/ revision' = revision \/ StartDaemon \/ \E p \in Publishers : Assign(p)
  BY DEF vars, Next, OpenTab, CloseTab, ShellExit, StopDaemon, Changes, Stopped, Crash, Down, Publish, Push,
         Heartbeat, HeartbeatPush, Subscribe,
         SubscribeReads, SubscribeCaptures, SubscribeEnqueues, CutLocks, CutCaptures, CutEnqueues,
         Supervise, Dial, Synchronized, Prepare, Installed, EndOfStream, Apply, Skip, Reconnect, GiveUp, Disconnect,
         TuiStep, daemon
<1> QED BY <1>2, <1>3, <1>4, <1>5, <1>6

LEMMA CapturedStep ==
  ASSUME Types, Linked, Captured, [Next]_vars
  PROVE  Captured'
<1>1. DOMAIN <<>> = {}
  BY SMT
<1>2. CASE sub' = sub /\ (conn'.high = conn.high \/ conn'.high = <<>>)
  BY <1>2, CapturedFrame
<1>3. CASE sub'.pc \in {"none", "before", "cut"} /\ (conn'.high = conn.high \/ conn'.high = <<>>)
  BY <1>1, <1>3 DEF Captured
<1>4. CASE SubscribeReads
  <2>1. sub'.pc = "capture" /\ sub'.before = revision /\ conn' = conn /\ revision' = revision
    BY <1>4 DEF SubscribeReads, daemon, Types, Subscription
  <2>2. revision <= revision
    BY SMT DEF Types
  <2> QED BY <2>1, <2>2 DEF Captured
<1>5. CASE SubscribeCaptures
  <2>1. /\ sub'.pc = "enqueue" /\ sub.pc = "capture" /\ sub'.before = sub.before /\ sub'.at = revision /\ sub'.state = tabs
        /\ conn' = conn /\ revision' = revision /\ tabs' = tabs
    BY <1>5 DEF SubscribeCaptures, daemon, Types, Subscription
  <2>2. revision <= revision
    BY SMT DEF Types
  <2> QED BY <2>1, <2>2 DEF Captured
<1>6. CASE CutCaptures
  <2>1. /\ sub'.pc = "enqueue_cut" /\ sub'.at = revision /\ sub'.state = tabs
        /\ conn' = conn /\ revision' = revision /\ tabs' = tabs
    BY <1>6 DEF CutCaptures, daemon, Types, Subscription
  <2> QED BY <2>1 DEF Captured
<1>7. ASSUME NEW rev, EnqueueSync(rev), rev <= sub.at PROVE Captured'
  <2>1. sub'.pc = "none" /\ (conn' = conn \/ conn'.high = <<[rev |-> rev, state |-> sub.state, at |-> sub.at]>>)
    BY <1>7 DEF EnqueueSync, NoSub, Types, Connection
  <2>2. CASE conn' = conn
    BY <2>1, <2>2 DEF Captured
  <2>3. CASE conn'.high = <<[rev |-> rev, state |-> sub.state, at |-> sub.at]>>
    <3>1. DOMAIN conn'.high = {1} /\ conn'.high[1] = [rev |-> rev, state |-> sub.state, at |-> sub.at]
      BY <2>3, SMT
    <3> QED BY <1>7, <2>1, <3>1, SMT DEF Captured
  <2> QED BY <2>1, <2>2, <2>3
<1>8. CASE SubscribeEnqueues
  <2>1. CASE EnqueueSync(sub.before)
    BY <1>7, <1>8, <2>1 DEF SubscribeEnqueues, Captured
  <2>2. CASE sub'.pc = "before" /\ conn' = conn
    BY <1>3, <2>2
  <2> QED BY <1>8, <2>1, <2>2 DEF SubscribeEnqueues, NoSub
<1>9. CASE CutEnqueues
  <2>1. EnqueueSync(revision) /\ sub.at = revision /\ revision <= revision
    BY <1>9, SMT DEF CutEnqueues, Captured, Types
  <2> QED BY <1>7, <2>1
<1>10. CASE Down \/ Disconnect
  <2>1. sub'.pc = "none" /\ (conn'.high = conn.high \/ conn'.high = <<>>)
    BY <1>10, SMT DEF Down, Disconnect, NoSub, NoConn, Types, Connection
  <2> QED BY <1>3, <2>1
<1>11. CASE Dial
  <2>1. sub'.pc = "before" /\ conn'.high = <<>>
    BY <1>11 DEF Dial, NoSub, NoConn
  <2> QED BY <1>3, <2>1
<1>12. CASE CutLocks
  <2>1. sub'.pc = "cut" /\ conn' = conn
    BY <1>12 DEF CutLocks, Types, Subscription
  <2> QED BY <1>3, <2>1
<1>13. CASE \E captured, frame : PushLow(captured, frame) /\ sub' = sub
  <2>1. conn'.high = conn.high
    BY <1>13, SMT DEF PushLow, Types, Connection
  <2> QED BY <1>2, <1>13, <2>1
<1>14. CASE Synchronized \/ Apply \/ Skip
  <2>1. sub' = sub /\ (conn'.high = conn.high \/ conn'.high = <<>>)
    BY <1>14 DEF Synchronized, Apply, Skip, Takes, Types, Connection
  <2> QED BY <1>2, <2>1
<1>15. Next => \/ Down \/ Disconnect \/ Dial \/ CutLocks \/ Synchronized \/ Apply \/ Skip \/ SubscribeReads
               \/ SubscribeCaptures \/ SubscribeEnqueues \/ CutCaptures \/ CutEnqueues
               \/ \E captured, frame : PushLow(captured, frame) /\ sub' = sub
               \/ UNCHANGED <<sub, conn>>
  BY DEF Next, OpenTab, CloseTab, ShellExit, StopDaemon, Changes, Stopped, Crash, StartDaemon, Publish, Assign, Push,
         Heartbeat, HeartbeatPush, Subscribe, Supervise, Prepare, Installed, EndOfStream, Reconnect, GiveUp, TuiStep
<1> QED BY <1>2, <1>4, <1>5, <1>6, <1>8, <1>9, <1>10, <1>11, <1>12, <1>13, <1>14, <1>15 DEF vars

-----------------------------------------------------------------------------
(* What is said about a closed tab.                                        *)

\* Where the frames in the queue and the notices of the window come from.
LEMMA FrameOrigin ==
  ASSUME Types, [Next]_vars
  PROVE  \A i \in DOMAIN conn'.low :
           \/ \E j \in DOMAIN conn.low : conn'.low[i] = conn.low[j]
           \/ conn'.low[i].kind = "heartbeat"
           \/ \E p \in Publishers : /\ pubs[p].pc = "push" /\ conn'.low[i].kind \in KindsOf(p)
                                    /\ conn'.low[i].tab = p[1]
<1>1. DOMAIN <<>> = {} /\ conn \in Connection
  BY SMT DEF Types
<1>2. CASE conn'.low = conn.low \/ conn'.low = <<>>
  BY <1>1, <1>2
<1>3. ASSUME NEW f \in Frames, conn'.low = Append(conn.low, f)
      PROVE  \A i \in DOMAIN conn'.low : conn'.low[i] = f \/ \E j \in DOMAIN conn.low : conn'.low[i] = conn.low[j]
  <2>1. /\ Len(conn.low) \in Nat /\ DOMAIN conn.low = 1..Len(conn.low) /\ DOMAIN conn'.low = 1..Len(conn.low) + 1
        /\ \A i \in 1..Len(conn.low) : conn'.low[i] = conn.low[i]
        /\ conn'.low[Len(conn.low) + 1] = f
    BY <1>1, <1>3, QueueAppend
  <2>2. \A i \in 1..Len(conn.low) + 1 : i \in 1..Len(conn.low) \/ i = Len(conn.low) + 1
    BY <2>1, SMT
  <2> QED BY <2>1, <2>2
<1>4. CASE \E p \in Publishers : Push(p)
  <2>1. PICK p \in Publishers : Push(p)
    BY <1>4
  <2>2. PICK f \in Frames :
          /\ f.kind \in KindsOf(p) /\ f.tab = p[1] /\ pubs[p].pc = "push"
          /\ conn' = conn \/ conn'.low = conn.low \/ conn'.low = Append(conn.low, f)
    BY <2>1, EffectOfPush
  <2> QED BY <1>2, <1>3, <2>2
<1>5. CASE HeartbeatPush
  <2> DEFINE f == [kind |-> "heartbeat", tab |-> "none", rev |-> heart.rev]
  <2>1. f \in Frames /\ heart.to \in BOOLEAN /\ f.kind = "heartbeat" /\ PushLow(heart.to, f)
    BY <1>5 DEF Types, Beat, Frames, HeartbeatPush
  <2> HIDE DEF f
  <2>2. conn' = conn \/ conn' = [conn EXCEPT !.open = FALSE] \/ conn' = [conn EXCEPT !.low = Append(conn.low, f)]
    BY <1>1, <2>1, PushEffect
  <2>3. conn'.low = conn.low \/ conn'.low = Append(conn.low, f)
    BY <1>1, <2>2 DEF Connection
  <2> QED BY <1>2, <1>3, <2>1, <2>3
<1>6. CASE Apply \/ Skip
  <2>1. conn'.low = Tail(conn.low) /\ conn.low # <<>>
    BY <1>1, <1>6 DEF Apply, Skip, Takes, Connection
  <2>2. /\ DOMAIN conn.low = 1..Len(conn.low) /\ DOMAIN conn'.low = 1..Len(conn.low) - 1
        /\ \A i \in 1..Len(conn.low) - 1 : conn'.low[i] = conn.low[i + 1] /\ i + 1 \in 1..Len(conn.low)
    BY <1>1, <2>1, QueueTail
  <2> QED BY <2>2
<1>7. CASE Down \/ Disconnect \/ Dial \/ Synchronized \/ SubscribeEnqueues \/ CutEnqueues
  <2>1. conn'.low = conn.low \/ conn'.low = <<>>
    <3>1. CASE Down \/ Synchronized
      BY <1>1, <3>1 DEF Down, Synchronized, Connection
    <3>2. CASE Disconnect \/ Dial
      BY <3>2, SMT DEF Disconnect, Dial, NoConn
    <3>3. CASE SubscribeEnqueues \/ CutEnqueues
      BY <1>1, <3>3 DEF SubscribeEnqueues, CutEnqueues, EnqueueSync, Connection
    <3> QED BY <1>7, <3>1, <3>2, <3>3
  <2> QED BY <1>2, <2>1
<1>8. Next => \/ Down \/ Disconnect \/ Dial \/ Synchronized \/ SubscribeEnqueues \/ CutEnqueues \/ Apply \/ Skip
              \/ HeartbeatPush \/ (\E p \in Publishers : Push(p)) \/ UNCHANGED conn
  BY DEF Next, OpenTab, CloseTab, ShellExit, StopDaemon, Changes, Stopped, Crash, StartDaemon, Publish, Assign,
         Heartbeat, Subscribe, SubscribeReads, SubscribeCaptures, CutLocks, CutCaptures,
         Supervise, Prepare, Installed, EndOfStream, Reconnect, GiveUp, TuiStep
<1> QED BY <1>2, <1>4, <1>5, <1>6, <1>7, <1>8 DEF vars

LEMMA NoticeOrigin ==
  ASSUME Types, [Next]_vars
  PROVE  \A i \in DOMAIN tuiq' :
           \/ \E j \in DOMAIN tuiq : tuiq'[i].kind = tuiq[j].kind /\ tuiq'[i].tab = tuiq[j].tab
           \/ tuiq'[i].kind = "sync"
           \/ \E j \in DOMAIN conn.low : tuiq'[i].kind = conn.low[j].kind /\ tuiq'[i].tab = conn.low[j].tab
<1>1. tuiq \in Seq(Notices) /\ conn \in Connection
  BY DEF Types
<1>2. CASE tuiq' = tuiq
  BY <1>2
<1>3. ASSUME NEW e \in Notices, tuiq' = Append(tuiq, e)
      PROVE  \A i \in DOMAIN tuiq' : tuiq'[i] = e \/ \E j \in DOMAIN tuiq : tuiq'[i] = tuiq[j]
  <2>1. /\ Len(tuiq) \in Nat /\ DOMAIN tuiq = 1..Len(tuiq) /\ DOMAIN tuiq' = 1..Len(tuiq) + 1
        /\ \A i \in 1..Len(tuiq) : tuiq'[i] = tuiq[i]
        /\ tuiq'[Len(tuiq) + 1] = e
    BY <1>1, <1>3, AppendFacts, SMT
  <2>2. \A i \in 1..Len(tuiq) + 1 : i \in 1..Len(tuiq) \/ i = Len(tuiq) + 1
    BY <2>1, SMT
  <2> QED BY <2>1, <2>2
<1>4. CASE Prepare
  <2> DEFINE e == [kind |-> "sync", tab |-> "none", cut |-> cl.cut, stale |-> FALSE]
  <2>1. e \in Notices /\ e.kind = "sync" /\ tuiq' = Append(tuiq, e)
    BY <1>4 DEF Prepare, Notices, Types, Supervisor
  <2> HIDE DEF e
  <2> QED BY <1>3, <2>1
<1>5. CASE Apply
  <2> DEFINE e == [kind |-> conn.low[1].kind, tab |-> conn.low[1].tab, cut |-> {}, stale |-> FALSE]
  <2>1. conn.low # <<>> /\ Post(Head(conn.low))
    BY <1>5 DEF Apply, Takes
  <2>2. Head(conn.low) = conn.low[1] /\ 1 \in DOMAIN conn.low /\ conn.low[1] \in Frames
    BY <1>1, <2>1, SMT DEF Connection
  <2>3. conn.low[1].tab \in Tabs \cup {"daemon", "none"}
    BY <2>2 DEF Frames
  <2>4. \/ tuiq' = tuiq
        \/ tuiq' = Append(tuiq, e) /\ e \in Notices
    BY <2>1, <2>2, <2>3 DEF Post, Notices
  <2>5. e.kind = conn.low[1].kind /\ e.tab = conn.low[1].tab
    OBVIOUS
  <2> HIDE DEF e
  <2> QED BY <1>2, <1>3, <2>2, <2>4, <2>5
<1>6. CASE TuiStep
  <2>1. tuiq # <<>> /\ tuiq' = Tail(tuiq)
    BY <1>6 DEF TuiStep
  <2>2. /\ Len(tuiq) \in Nat /\ DOMAIN tuiq = 1..Len(tuiq) /\ DOMAIN tuiq' = 1..Len(tuiq) - 1
        /\ \A i \in 1..Len(tuiq) - 1 : tuiq'[i] = tuiq[i + 1]
    BY <1>1, <2>1, TailFacts
  <2>3. \A i \in 1..Len(tuiq) - 1 : i + 1 \in 1..Len(tuiq)
    BY <2>2, SMT
  <2> QED BY <2>2, <2>3
<1>7. CASE Disconnect
  <2>1. \A n \in Notices : [n EXCEPT !.stale = TRUE].kind = n.kind /\ [n EXCEPT !.stale = TRUE].tab = n.tab
    BY DEF Notices
  <2>2. \A i \in DOMAIN tuiq : tuiq[i] \in Notices
    BY <1>1, SMT
  <2>3. DOMAIN tuiq' = DOMAIN tuiq /\ \A i \in DOMAIN tuiq : tuiq'[i] = [tuiq[i] EXCEPT !.stale = TRUE]
    BY <1>7 DEF Disconnect
  <2>4. ASSUME NEW i \in DOMAIN tuiq' PROVE tuiq'[i].kind = tuiq[i].kind /\ tuiq'[i].tab = tuiq[i].tab
    <3>1. tuiq[i] \in Notices /\ tuiq'[i] = [tuiq[i] EXCEPT !.stale = TRUE]
      BY <2>2, <2>3
    <3> QED BY <2>1, <3>1
  <2> QED BY <2>3, <2>4
<1>8. Next => Prepare \/ Apply \/ TuiStep \/ Disconnect \/ tuiq' = tuiq
  BY DEF Next, OpenTab, CloseTab, ShellExit, StopDaemon, Changes, Stopped, Crash, Down, StartDaemon, Publish, Assign, Push,
         Heartbeat, HeartbeatPush, Subscribe, SubscribeReads, SubscribeCaptures, SubscribeEnqueues, CutLocks, CutCaptures,
         CutEnqueues, Supervise, Dial, Synchronized, Installed, EndOfStream, Skip, Reconnect, GiveUp, window
<1> QED BY <1>2, <1>4, <1>5, <1>6, <1>7, <1>8 DEF vars, window

LEMMA ClosuresStep ==
  ASSUME Types, Closures, [Next]_vars
  PROVE  Closures'
<1>1. /\ \A t \in Tabs : Gone(t) => Gone(t)'
      /\ \A t \in tabs' : pubs'[<<t, "open">>].pc # "idle"
      /\ \A t \in Tabs : pubs'[<<t, "close">>].pc # "idle" => Gone(t)'
  BY GoneStays
<1>2. ASSUME NEW i \in DOMAIN conn'.low, conn'.low[i].kind \in {"created", "closed"}
      PROVE  /\ conn'.low[i].tab \in Tabs
             /\ conn'.low[i].kind = "closed" => Gone(conn'.low[i].tab)
  <2>1. CASE \E j \in DOMAIN conn.low : conn'.low[i] = conn.low[j]
    BY <1>2, <2>1 DEF Closures
  <2>2. CASE \E p \in Publishers : /\ pubs[p].pc = "push" /\ conn'.low[i].kind \in KindsOf(p)
                                   /\ conn'.low[i].tab = p[1]
    <3>1. PICK p \in Publishers : /\ pubs[p].pc = "push" /\ conn'.low[i].kind \in KindsOf(p)
                                  /\ conn'.low[i].tab = p[1]
      BY <2>2
    <3>2. CASE conn'.low[i].kind = "created"
      BY <3>1, <3>2, PublisherFacts
    <3>3. CASE conn'.low[i].kind = "closed"
      <4>1. p[1] \in Tabs /\ p = <<p[1], "close">>
        BY <3>1, <3>3, PublisherFacts
      <4>2. pubs[<<p[1], "close">>].pc # "idle"
        BY <3>1, <4>1
      <4> QED BY <3>1, <4>1, <4>2 DEF Closures
    <3> QED BY <1>2, <3>2, <3>3
  <2> QED BY <1>2, <2>1, <2>2, FrameOrigin
<1>3. ASSUME NEW i \in DOMAIN tuiq', tuiq'[i].kind \in {"created", "closed"}
      PROVE  /\ tuiq'[i].tab \in Tabs
             /\ tuiq'[i].kind = "closed" => Gone(tuiq'[i].tab)
  BY <1>3, NoticeOrigin DEF Closures
<1>4. view' \subseteq Tabs
  <2>1. CASE TuiStep
    <3>1. tuiq # <<>> /\ Head(tuiq) = tuiq[1] /\ 1 \in DOMAIN tuiq /\ tuiq[1] \in Notices
      BY <2>1, SMT DEF TuiStep, Types
    <3>2. tuiq[1].cut \subseteq Tabs
      BY <3>1 DEF Notices
    <3> QED BY <2>1, <3>1, <3>2 DEF TuiStep, Closures
  <2>2. CASE view' = view
    BY <2>2 DEF Closures
  <2>3. Next => TuiStep \/ view' = view
    BY DEF Next, OpenTab, CloseTab, ShellExit, StopDaemon, Changes, Stopped, Crash, Down, StartDaemon, Publish, Assign,
         Push, Heartbeat, HeartbeatPush, Subscribe, SubscribeReads, SubscribeCaptures, SubscribeEnqueues, CutLocks,
         CutCaptures, CutEnqueues, Supervise, Dial, Synchronized, Prepare, Installed, EndOfStream, Disconnect, Apply, Skip,
         Reconnect, GiveUp, window
  <2> QED BY <2>1, <2>2, <2>3 DEF vars, window
<1>5. \A i \in DOMAIN conn'.low : conn'.low[i].kind = "closed" => Gone(conn.low[i].tab)'
  <2> SUFFICES ASSUME NEW i \in DOMAIN conn'.low, conn'.low[i].kind = "closed" PROVE Gone(conn.low[i].tab)'
    OBVIOUS
  <2> DEFINE t == conn'.low[i].tab
  <2>1. t \in Tabs /\ Gone(t)
    BY <1>2
  <2>2. t \notin tabs' /\ pubs'[<<t, "open">>].pc # "idle"
    <3> HIDE DEF t
    <3> QED BY <1>1, <2>1 DEF Gone
  <2> QED BY <2>2 DEF Gone
<1>6. \A i \in DOMAIN tuiq' : tuiq'[i].kind = "closed" => Gone(tuiq[i].tab)'
  <2> SUFFICES ASSUME NEW i \in DOMAIN tuiq', tuiq'[i].kind = "closed" PROVE Gone(tuiq[i].tab)'
    OBVIOUS
  <2> DEFINE t == tuiq'[i].tab
  <2>1. t \in Tabs /\ Gone(t)
    BY <1>3
  <2>2. t \notin tabs' /\ pubs'[<<t, "open">>].pc # "idle"
    <3> HIDE DEF t
    <3> QED BY <1>1, <2>1 DEF Gone
  <2> QED BY <2>2 DEF Gone
<1> QED BY <1>1, <1>2, <1>3, <1>4, <1>5, <1>6 DEF Closures

-----------------------------------------------------------------------------
(* Every listed tab is shown or on its way.                                *)

\* A step after which the connection carries what it carried before.
LEMMA ComingStays ==
  ASSUME NEW t \in Tabs, Coming(t), Base' = Base,
         Unsaid(t) => Unsaid(t)',
         Pushing(<<t, "open">>) => Pushing(<<t, "open">>)' /\ pubs'[<<t, "open">>] = pubs[<<t, "open">>],
         \A i \in DOMAIN conn.low : i \in DOMAIN conn'.low /\ conn'.low[i] = conn.low[i]
  PROVE  Coming(t)'
BY DEF Coming

LEMMA CoveredFrame ==
  ASSUME Types, Covered, NEW t \in tabs', t \in tabs,
         conn.open, conn.subscribed, conn'.high = conn.high, Coming(t) => Coming(t)', UNCHANGED <<cl, tuiq, view>>
  PROVE  \/ Coming(t)'
         \/ cl'.pc = "subscribe" /\ t \in conn'.high[1].state
         \/ cl'.pc = "prepare" /\ t \in cl'.cut
         \/ cl'.pc \in {"wait", "ready"} /\ WillShow(t)'
BY DEF Covered, WillShow, KeptFrom

LEMMA CoveredOfChange ==
  ASSUME Types, Covered, TabChange
  PROVE  Covered'
<1> SUFFICES ASSUME conn'.open, conn'.subscribed, NEW t \in tabs'
             PROVE  \/ Coming(t)'
                    \/ cl'.pc = "subscribe" /\ t \in conn'.high[1].state
                    \/ cl'.pc = "prepare" /\ t \in cl'.cut
                    \/ cl'.pc \in {"wait", "ready"} /\ WillShow(t)'
  BY DEF Covered
<1>1. /\ t \in Tabs /\ UNCHANGED <<conn, cl, tuiq, view>> /\ <<t, "open">> \in Publishers
      /\ pubs[<<t, "open">>].pc # "idle" => pubs'[<<t, "open">>] = pubs[<<t, "open">>]
      /\ t \in tabs \/ Unsaid(t)'
  BY EffectOfChange, PublisherFacts DEF window
<1>2. CASE Unsaid(t)'
  BY <1>2 DEF Coming
<1>3. CASE t \in tabs
  <2>1. Base' = Base
    BY <1>1 DEF Base
  <2>2. Unsaid(t) => Unsaid(t)'
    BY <1>1 DEF Unsaid
  <2>3. Pushing(<<t, "open">>) => Pushing(<<t, "open">>)' /\ pubs'[<<t, "open">>] = pubs[<<t, "open">>]
    BY <1>1 DEF Pushing
  <2>4. Coming(t) => Coming(t)'
    BY <1>1, <2>1, <2>2, <2>3, ComingStays
  <2> QED BY <1>1, <1>3, <2>4, CoveredFrame
<1> QED BY <1>1, <1>2, <1>3

LEMMA CoveredOfAssign ==
  ASSUME Types, Covered, NEW p \in Publishers, Assign(p)
  PROVE  Covered'
<1> SUFFICES ASSUME conn'.open, conn'.subscribed, NEW t \in tabs'
             PROVE  \/ Coming(t)'
                    \/ cl'.pc = "subscribe" /\ t \in conn'.high[1].state
                    \/ cl'.pc = "prepare" /\ t \in cl'.cut
                    \/ cl'.pc \in {"wait", "ready"} /\ WillShow(t)'
  BY DEF Covered
<1>1. /\ tabs' = tabs /\ UNCHANGED <<conn, cl, tuiq, view>> /\ pubs[p].pc = "changed"
      /\ pubs'[p].pc = "push" /\ pubs'[p].to = Recipient /\ pubs'[p].rest = pubs[p].rest
      /\ \A q \in Publishers : q # p => pubs'[q] = pubs[q]
  BY DEF Assign, Types, Publications, Publication, window
<1>2. t \in Tabs /\ t \in tabs /\ <<t, "open">> \in Publishers
  BY <1>1, PublisherFacts DEF Types
<1>3. Recipient
  BY <1>1 DEF Recipient
<1>4. Base' = Base
  BY <1>1 DEF Base
<1>5. Coming(t) => Coming(t)'
  <2>1. CASE <<t, "open">> = p
    <3>1. Unsaid(t) => Pushing(<<t, "open">>)' /\ pubs'[<<t, "open">>].rest[1] = "created"
      BY <1>1, <1>3, <2>1 DEF Unsaid, Pushing
    <3>2. ~Pushing(<<t, "open">>)
      BY <1>1, <2>1 DEF Pushing
    <3> QED BY <1>1, <1>4, <3>1, <3>2 DEF Coming
  <2>2. CASE <<t, "open">> # p
    <3>1. pubs'[<<t, "open">>] = pubs[<<t, "open">>]
      BY <1>1, <1>2, <2>2
    <3> QED BY <1>1, <1>2, <1>4, <3>1, ComingStays DEF Unsaid, Pushing
  <2> QED BY <2>1, <2>2
<1> QED BY <1>1, <1>2, <1>5, CoveredFrame

LEMMA CoveredOfPush ==
  ASSUME Types, Linked, Pending, Covered, NEW p \in Publishers, Push(p)
  PROVE  Covered'
<1> SUFFICES ASSUME conn'.open, conn'.subscribed, NEW t \in tabs'
             PROVE  \/ Coming(t)'
                    \/ cl'.pc = "subscribe" /\ t \in conn'.high[1].state
                    \/ cl'.pc = "prepare" /\ t \in cl'.cut
                    \/ cl'.pc \in {"wait", "ready"} /\ WillShow(t)'
  BY DEF Covered
<1>1. PICK f \in Frames :
        /\ f.kind = pubs[p].rest[1] /\ f.tab = p[1] /\ f.rev = pubs[p].rev
        /\ pubs[p].pc = "push" /\ UNCHANGED cl
        /\ \A q \in Publishers : q # p => pubs'[q] = pubs[q]
        /\ \/ conn' = conn /\ ~(pubs[p].to /\ conn.open)
           \/ ~conn'.open
           \/ /\ pubs[p].to /\ conn.open /\ conn'.low = Append(conn.low, f) /\ conn'.high = conn.high
              /\ conn'.subscribed = conn.subscribed
  BY EffectOfPush
<1>2. t \in Tabs /\ t \in tabs /\ <<t, "open">> \in Publishers /\ UNCHANGED <<tuiq, view>>
  BY PublisherFacts DEF Types, Push, window
<1>3. Base' = Base /\ conn'.high = conn.high /\ conn.open /\ conn.subscribed
  BY <1>1 DEF Base
<1>4. /\ \A i \in DOMAIN conn.low : i \in DOMAIN conn'.low /\ conn'.low[i] = conn.low[i]
      /\ pubs[p].to => \E i \in DOMAIN conn'.low : conn'.low[i] = f
  <2>1. CASE conn' = conn /\ ~pubs[p].to
    BY <2>1
  <2>2. CASE conn'.low = Append(conn.low, f)
    <3>1. /\ Len(conn.low) \in Nat /\ DOMAIN conn.low = 1..Len(conn.low) /\ DOMAIN conn'.low = 1..Len(conn.low) + 1
          /\ \A i \in 1..Len(conn.low) : conn'.low[i] = conn.low[i]
          /\ conn'.low[Len(conn.low) + 1] = f
      BY <2>2, QueueAppend DEF Types
    <3>2. Len(conn.low) + 1 \in 1..Len(conn.low) + 1 /\ \A i \in 1..Len(conn.low) : i \in 1..Len(conn.low) + 1
      BY <3>1, SMT
    <3> QED BY <3>1, <3>2
  <2> QED BY <1>1, <1>3, <2>1, <2>2
<1>5. Coming(t) => Coming(t)'
  <2>1. CASE <<t, "open">> # p
    <3>1. pubs'[<<t, "open">>] = pubs[<<t, "open">>]
      BY <1>1, <1>2, <2>1
    <3> QED BY <1>2, <1>3, <1>4, <3>1, ComingStays DEF Unsaid, Pushing
  <2>2. CASE <<t, "open">> = p
    <3>1. ~Unsaid(t)
      BY <1>1, <2>2 DEF Unsaid
    <3>2. CASE Pushing(<<t, "open">>) /\ pubs[<<t, "open">>].rest[1] = "created"
      <4>1. f.kind = "created" /\ f.tab = t /\ f.rev > Base /\ pubs[p].to
        <5>1. p[1] = t
          BY <2>2, SMT
        <5>2. Pushing(p) /\ pubs[p].rest[1] = "created"
          BY <2>2, <3>2
        <5> QED BY <1>1, <1>3, <5>1, <5>2 DEF Pending, Pushing
      <4> QED BY <1>3, <1>4, <4>1 DEF Coming
    <3>3. CASE \E i \in DOMAIN conn.low : conn.low[i].kind = "created" /\ conn.low[i].tab = t /\ conn.low[i].rev > Base
      BY <1>3, <1>4, <3>3 DEF Coming
    <3> QED BY <3>1, <3>2, <3>3 DEF Coming
  <2> QED BY <2>1, <2>2
<1> QED BY <1>1, <1>2, <1>3, <1>5, CoveredFrame

LEMMA CoveredOfBeat ==
  ASSUME Types, Covered, HeartbeatPush
  PROVE  Covered'
<1> SUFFICES ASSUME conn'.open, conn'.subscribed, NEW t \in tabs'
             PROVE  \/ Coming(t)'
                    \/ cl'.pc = "subscribe" /\ t \in conn'.high[1].state
                    \/ cl'.pc = "prepare" /\ t \in cl'.cut
                    \/ cl'.pc \in {"wait", "ready"} /\ WillShow(t)'
  BY DEF Covered
<1> DEFINE f == [kind |-> "heartbeat", tab |-> "none", rev |-> heart.rev]
<1>1. f \in Frames /\ heart.to \in BOOLEAN /\ PushLow(heart.to, f) /\ UNCHANGED <<cl, pubs, tabs, tuiq, view>>
  BY DEF Types, Beat, Frames, HeartbeatPush, window
<1> HIDE DEF f
<1>2. \/ conn' = conn
      \/ conn.open /\ conn'.low = Append(conn.low, f) /\ conn'.high = conn.high /\ conn'.subscribed = conn.subscribed
  BY <1>1, PushEffect DEF Types, Connection
<1>3. Base' = Base /\ conn'.high = conn.high /\ conn.open /\ conn.subscribed /\ t \in Tabs /\ t \in tabs
  BY <1>1, <1>2 DEF Base, Types
<1>4. \A i \in DOMAIN conn.low : i \in DOMAIN conn'.low /\ conn'.low[i] = conn.low[i]
  <2>1. CASE conn'.low = Append(conn.low, f)
    <3>1. /\ Len(conn.low) \in Nat /\ DOMAIN conn.low = 1..Len(conn.low) /\ DOMAIN conn'.low = 1..Len(conn.low) + 1
          /\ \A i \in 1..Len(conn.low) : conn'.low[i] = conn.low[i]
      BY <1>1, <2>1, QueueAppend DEF Types
    <3>2. \A i \in 1..Len(conn.low) : i \in 1..Len(conn.low) + 1
      BY <3>1, SMT
    <3> QED BY <3>1, <3>2
  <2> QED BY <1>2, <2>1
<1>5. Coming(t) => Coming(t)'
  BY <1>1, <1>3, <1>4, ComingStays DEF Unsaid, Pushing
<1> QED BY <1>1, <1>3, <1>5, CoveredFrame

LEMMA CoveredOfEnqueue ==
  ASSUME Types, Linked, Captured, SubscribeEnqueues \/ CutEnqueues
  PROVE  Covered'
<1> SUFFICES ASSUME conn'.open, conn'.subscribed, NEW t \in tabs'
             PROVE  \/ Coming(t)'
                    \/ cl'.pc = "subscribe" /\ t \in conn'.high[1].state
                    \/ cl'.pc = "prepare" /\ t \in cl'.cut
                    \/ cl'.pc \in {"wait", "ready"} /\ WillShow(t)'
  BY DEF Covered
<1>1. sub.pc \in {"enqueue", "enqueue_cut"} /\ UNCHANGED <<tabs, pubs, cl>>
  BY DEF SubscribeEnqueues, CutEnqueues, daemon
<1>2. cl.pc = "subscribe" /\ ~conn.subscribed
  BY <1>1 DEF Linked
<1>3. EnqueueSync(revision) /\ \A u \in tabs : u \in sub.state \/ Unsaid(u)
  BY <1>2 DEF SubscribeEnqueues, CutEnqueues, Captured
<1>4. conn'.high = <<[rev |-> revision, state |-> sub.state, at |-> sub.at]>>
  BY <1>2, <1>3 DEF EnqueueSync, Types, Connection
<1>5. conn'.high[1].state = sub.state
  BY <1>4, SMT
<1> QED BY <1>1, <1>2, <1>3, <1>5 DEF Coming, Unsaid

\* A step of the supervisor that leaves the queue alone.
LEMMA ComingOfSupervisor ==
  ASSUME Types, NEW t \in Tabs, Coming(t), pubs' = pubs, conn'.low = conn.low, Base' = Base
  PROVE  Coming(t)'
BY DEF Coming, Unsaid, Pushing

LEMMA CoveredOfSynchronized ==
  ASSUME Types, Linked, Covered, Synchronized
  PROVE  Covered'
<1> SUFFICES ASSUME conn'.open, conn'.subscribed, NEW t \in tabs'
             PROVE  \/ Coming(t)'
                    \/ cl'.pc = "subscribe" /\ t \in conn'.high[1].state
                    \/ cl'.pc = "prepare" /\ t \in cl'.cut
                    \/ cl'.pc \in {"wait", "ready"} /\ WillShow(t)'
  BY DEF Covered
<1>1. /\ cl.pc = "subscribe" /\ cl'.pc = "prepare" /\ cl'.seq = Head(conn.high).rev /\ cl'.cut = Head(conn.high).state
      /\ UNCHANGED <<pubs, tabs>> /\ conn'.low = conn.low /\ conn'.open = conn.open
      /\ conn'.subscribed = conn.subscribed /\ conn.high # <<>>
  BY DEF Synchronized, Types, Supervisor, Connection, daemon
<1>2. Head(conn.high) = conn.high[1]
  BY <1>1, TailFacts DEF Types, Connection
<1>3. Base' = Base /\ t \in Tabs
  BY <1>1, <1>2 DEF Base, Types
<1>4. Coming(t) => Coming(t)'
  BY <1>1, <1>3, ComingOfSupervisor
<1> QED BY <1>1, <1>2, <1>4 DEF Covered

LEMMA CoveredOfPrepare ==
  ASSUME Types, Covered, Prepare
  PROVE  Covered'
<1> SUFFICES ASSUME conn'.open, conn'.subscribed, NEW t \in tabs'
             PROVE  \/ Coming(t)'
                    \/ cl'.pc = "subscribe" /\ t \in conn'.high[1].state
                    \/ cl'.pc = "prepare" /\ t \in cl'.cut
                    \/ cl'.pc \in {"wait", "ready"} /\ WillShow(t)'
  BY DEF Covered
<1> DEFINE e == [kind |-> "sync", tab |-> "none", cut |-> cl.cut, stale |-> FALSE]
<1>1. /\ cl.pc = "prepare" /\ cl'.pc = "wait" /\ cl'.seq = cl.seq /\ UNCHANGED <<pubs, tabs, conn, view>>
      /\ tuiq' = Append(tuiq, e) /\ e \in Notices /\ e.kind = "sync" /\ e.cut = cl.cut
  BY DEF Prepare, daemon, Types, Supervisor, Notices
<1> HIDE DEF e
<1>2. Base' = Base /\ t \in Tabs
  BY <1>1 DEF Base, Types
<1>3. Coming(t) => Coming(t)'
  BY <1>1, <1>2, ComingOfSupervisor
<1>4. ASSUME t \in cl.cut PROVE WillShow(t)'
  <2>1. Len(tuiq) \in Nat /\ DOMAIN tuiq' = 1..Len(tuiq) + 1 /\ tuiq'[Len(tuiq) + 1] = e
    BY <1>1, AppendFacts, SMT DEF Types
  <2>2. Len(tuiq) + 1 \in DOMAIN tuiq' /\ \A j \in DOMAIN tuiq' : ~(j > Len(tuiq) + 1)
    BY <2>1, SMT
  <2> DEFINE n == Len(tuiq) + 1
  <2>3. n \in DOMAIN tuiq' /\ tuiq'[n].kind = "sync" /\ t \in tuiq'[n].cut
    BY <1>1, <1>4, <2>1, <2>2
  <2>4. \A j \in DOMAIN tuiq' : j > n /\ tuiq'[j].kind = "sync" => t \in tuiq'[j].cut
    BY <2>2
  <2> HIDE DEF n
  <2> QED BY <2>3, <2>4 DEF WillShow, KeptFrom
<1> QED BY <1>1, <1>3, <1>4 DEF Covered

LEMMA CoveredOfInstalled ==
  ASSUME Types, Covered, Installed
  PROVE  Covered'
<1> SUFFICES ASSUME conn'.open, conn'.subscribed, NEW t \in tabs'
             PROVE  \/ Coming(t)'
                    \/ cl'.pc = "subscribe" /\ t \in conn'.high[1].state
                    \/ cl'.pc = "prepare" /\ t \in cl'.cut
                    \/ cl'.pc \in {"wait", "ready"} /\ WillShow(t)'
  BY DEF Covered
<1>1. /\ cl.pc = "wait" /\ cl'.pc = "ready" /\ cl'.seq = cl.seq /\ UNCHANGED <<pubs, tabs, conn, view, tuiq>>
  BY DEF Installed, daemon, window, Types, Supervisor
<1>2. Base' = Base /\ t \in Tabs
  BY <1>1 DEF Base, Types
<1>3. Coming(t) => Coming(t)'
  BY <1>1, <1>2, ComingOfSupervisor
<1>4. WillShow(t) => WillShow(t)'
  BY <1>1 DEF WillShow, KeptFrom
<1> QED BY <1>1, <1>3, <1>4 DEF Covered

\* The window keeps what it will show when a notice other than a cut is posted.
LEMMA WillShowAppend ==
  ASSUME Types, NEW t, NEW e \in Notices, e.kind # "sync", tuiq' = Append(tuiq, e), view' = view
  PROVE  /\ WillShow(t) => WillShow(t)'
         /\ e.kind = "created" /\ e.tab = t => WillShow(t)'
<1>1. /\ Len(tuiq) \in Nat /\ DOMAIN tuiq = 1..Len(tuiq) /\ DOMAIN tuiq' = 1..Len(tuiq) + 1
      /\ \A i \in 1..Len(tuiq) : tuiq'[i] = tuiq[i]
      /\ tuiq'[Len(tuiq) + 1] = e
  BY AppendFacts, SMT DEF Types
<1>2. /\ \A i \in DOMAIN tuiq' : i \in DOMAIN tuiq \/ i = Len(tuiq) + 1
      /\ \A i \in DOMAIN tuiq : i \in DOMAIN tuiq'
      /\ Len(tuiq) + 1 \in DOMAIN tuiq' /\ \A i \in DOMAIN tuiq' : ~(i > Len(tuiq) + 1)
  BY <1>1, SMT
<1>3. /\ \A i \in DOMAIN tuiq : tuiq'[i] = tuiq[i]
      /\ \A j \in DOMAIN tuiq' : tuiq'[j].kind = "sync" => j \in DOMAIN tuiq /\ tuiq'[j] = tuiq[j]
  BY <1>1, <1>2
<1>4. \A i : KeptFrom(t, i) => KeptFrom(t, i)'
  BY <1>3 DEF KeptFrom
<1>5. WillShow(t) => WillShow(t)'
  BY <1>2, <1>3, <1>4 DEF WillShow
<1>6. ASSUME e.kind = "created", e.tab = t PROVE WillShow(t)'
  <2> DEFINE n == Len(tuiq) + 1
  <2>1. n \in DOMAIN tuiq' /\ tuiq'[n] = e
    BY <1>1, <1>2
  <2>2. \A j \in DOMAIN tuiq' : j > n /\ tuiq'[j].kind = "sync" => t \in tuiq'[j].cut
    BY <1>2
  <2> HIDE DEF n
  <2> QED BY <1>6, <2>1, <2>2 DEF WillShow, KeptFrom
<1> QED BY <1>5, <1>6

LEMMA CoveredOfRead ==
  ASSUME Types, Linked, Pending, BeatsFollow, Covered, Apply \/ Skip
  PROVE  Covered'
<1> SUFFICES ASSUME conn'.open, conn'.subscribed, NEW t \in tabs'
             PROVE  \/ Coming(t)'
                    \/ cl'.pc = "subscribe" /\ t \in conn'.high[1].state
                    \/ cl'.pc = "prepare" /\ t \in cl'.cut
                    \/ cl'.pc \in {"wait", "ready"} /\ WillShow(t)'
  BY DEF Covered
<1> DEFINE f == conn.low[1]
<1>1. /\ cl.pc = "ready" /\ cl'.pc = "ready" /\ conn.low # <<>> /\ UNCHANGED <<pubs, tabs, view>>
      /\ conn'.low = Tail(conn.low) /\ conn'.open = conn.open /\ conn'.subscribed = conn.subscribed
      /\ \/ cl'.seq = Head(conn.low).rev /\ Head(conn.low).rev = cl.seq + 1 /\ Post(Head(conn.low))
         \/ cl'.seq = cl.seq /\ Head(conn.low).rev <= cl.seq /\ tuiq' = tuiq
  BY DEF Apply, Skip, Takes, Types, Supervisor, Connection, daemon, window
<1>2. /\ Len(conn.low) \in Nat /\ DOMAIN conn.low = 1..Len(conn.low) /\ DOMAIN conn'.low = 1..Len(conn.low) - 1
      /\ \A i \in 1..Len(conn.low) : i # 1 => i - 1 \in 1..Len(conn.low) - 1 /\ conn'.low[i - 1] = conn.low[i]
      /\ 1 \in 1..Len(conn.low) /\ Head(conn.low) = f /\ f \in Frames
  BY <1>1, QueueTail DEF Types
<1>3. Base = cl.seq /\ Base' = cl'.seq /\ cl.seq \in Nat /\ f.rev \in Nat /\ t \in Tabs
  BY <1>1, <1>2 DEF Base, Types, Supervisor, Frames
<1>4. \/ Base' = Base + 1 /\ f.rev = Base' /\ IsEvent(f) /\ Post(f)
      \/ Base' = Base /\ f.rev <= Base /\ tuiq' = tuiq
  BY <1>1, <1>2, <1>3, NextIsEvent
<1>5. ASSUME WillShow(t) \/ (f.kind = "created" /\ f.tab = t /\ f.rev > Base) PROVE WillShow(t)'
  <2>1. CASE tuiq' = tuiq /\ WillShow(t)
    BY <1>1, <2>1 DEF WillShow, KeptFrom
  <2>2. CASE Post(f)
    <3> DEFINE e == [kind |-> f.kind, tab |-> f.tab, cut |-> {}, stale |-> FALSE]
    <3>1. \/ tuiq' = tuiq /\ f.kind # "created"
          \/ tuiq' = Append(tuiq, e) /\ f.kind \in {"created", "closed"}
      BY <2>2 DEF Post
    <3>2. f.kind \in {"created", "closed"} => e \in Notices
      BY <1>2 DEF Notices, Frames
    <3>3. e.kind = f.kind /\ e.tab = f.tab
      OBVIOUS
    <3> HIDE DEF e, f
    <3> QED BY <1>1, <1>5, <2>1, <3>1, <3>2, <3>3, WillShowAppend
  <2>3. CASE Base' = Base /\ f.rev <= Base /\ tuiq' = tuiq
    <3>1. ~(f.rev > Base)
      BY <1>3, <2>3, SMT
    <3> QED BY <1>5, <2>1, <2>3, <3>1
  <2> QED BY <1>4, <2>2, <2>3
<1>6. ASSUME NEW i \in DOMAIN conn.low, conn.low[i].kind = "created", conn.low[i].tab = t, conn.low[i].rev > Base, i # 1
      PROVE  Coming(t)'
  <2>1. i - 1 \in DOMAIN conn'.low /\ conn'.low[i - 1] = conn.low[i] /\ conn.low[i].rev \in Nat
    BY <1>2, <1>6, QueueType
  <2>2. conn.low[i].rev > Base'
    <3>1. IsEvent(f) => conn.low[i].rev # f.rev
      BY <1>1, <1>2, <1>6 DEF Pending, IsEvent
    <3> HIDE DEF f
    <3> QED BY <1>3, <1>4, <1>6, <2>1, <3>1, SMT
  <2> DEFINE n == i - 1
  <2>3. n \in DOMAIN conn'.low /\ conn'.low[n] = conn.low[i]
    BY <2>1
  <2> HIDE DEF n
  <2> QED BY <1>6, <2>2, <2>3 DEF Coming
<1>7. Unsaid(t) => Coming(t)'
  BY <1>1 DEF Coming, Unsaid
<1>8. Pushing(<<t, "open">>) /\ pubs[<<t, "open">>].rest[1] = "created" => Coming(t)'
  BY <1>1 DEF Coming, Pushing
<1>9. Coming(t) \/ WillShow(t)
  BY <1>1 DEF Covered
<1> QED BY <1>1, <1>2, <1>5, <1>6, <1>7, <1>8, <1>9 DEF Coming

LEMMA CoveredOfTui ==
  ASSUME Types, Closures, Covered, TuiStep
  PROVE  Covered'
<1> SUFFICES ASSUME conn'.open, conn'.subscribed, NEW t \in tabs'
             PROVE  \/ Coming(t)'
                    \/ cl'.pc = "subscribe" /\ t \in conn'.high[1].state
                    \/ cl'.pc = "prepare" /\ t \in cl'.cut
                    \/ cl'.pc \in {"wait", "ready"} /\ WillShow(t)'
  BY DEF Covered
<1> DEFINE e == tuiq[1]
<1>1. /\ tuiq # <<>> /\ tuiq' = Tail(tuiq) /\ UNCHANGED <<pubs, tabs, conn>>
      /\ cl'.pc = cl.pc /\ cl'.seq = cl.seq /\ cl'.cut = cl.cut
      /\ \/ Head(tuiq).kind = "sync" /\ view' = Head(tuiq).cut
         \/ Head(tuiq).kind = "created" /\ view' = view \cup {Head(tuiq).tab}
         \/ Head(tuiq).kind = "closed" /\ view' = view \ {Head(tuiq).tab}
  BY DEF TuiStep, Types, Supervisor, daemon
<1>2. /\ Len(tuiq) \in Nat /\ Len(tuiq) > 0 /\ DOMAIN tuiq = 1..Len(tuiq) /\ Head(tuiq) = e
      /\ DOMAIN tuiq' = 1..Len(tuiq) - 1
      /\ \A i \in 1..Len(tuiq) - 1 : tuiq'[i] = tuiq[i + 1]
  BY <1>1, TailFacts, SMT DEF Types
<1>3. /\ 1 \in DOMAIN tuiq /\ 1 > 0
      /\ \A i \in DOMAIN tuiq : i # 1 => i - 1 \in DOMAIN tuiq' /\ i - 1 + 1 = i
      /\ \A i \in DOMAIN tuiq' : i + 1 \in DOMAIN tuiq
      /\ \A i \in DOMAIN tuiq, j \in DOMAIN tuiq' : j > i - 1 => j + 1 > i
      /\ \A j \in DOMAIN tuiq' : j > 0 => j + 1 > 1 /\ j + 1 > 0
  BY <1>2, SMT
<1>4. ASSUME NEW i \in DOMAIN tuiq, KeptFrom(t, i)
      PROVE  \A j \in DOMAIN tuiq' : j > i - 1 /\ tuiq'[j].kind = "sync" => t \in tuiq'[j].cut
  <2> SUFFICES ASSUME NEW j \in DOMAIN tuiq', j > i - 1, tuiq'[j].kind = "sync" PROVE t \in tuiq'[j].cut
    OBVIOUS
  <2> DEFINE m == j + 1
  <2>1. m \in DOMAIN tuiq /\ m > i /\ tuiq'[j] = tuiq[m]
    BY <1>2, <1>3
  <2> HIDE DEF m
  <2> QED BY <1>4, <2>1 DEF KeptFrom
<1>5. ASSUME KeptFrom(t, 0) \/ KeptFrom(t, 1) PROVE KeptFrom(t, 0)'
  <2>1. ASSUME NEW j \in DOMAIN tuiq', j > 0, tuiq'[j].kind = "sync" PROVE t \in tuiq'[j].cut
    <3> DEFINE m == j + 1
    <3>1. m \in DOMAIN tuiq /\ m > 1 /\ m > 0 /\ tuiq'[j] = tuiq[m]
      BY <1>2, <1>3, <2>1
    <3> HIDE DEF m
    <3> QED BY <1>5, <2>1, <3>1 DEF KeptFrom
  <2> QED BY <2>1 DEF KeptFrom
<1>6. e.kind = "closed" => e.tab # t
  BY <1>1, <1>3 DEF Closures, Gone
<1>7. ASSUME t \in view, KeptFrom(t, 0) PROVE WillShow(t)'
  <2>1. e.kind = "sync" => t \in e.cut
    BY <1>3, <1>7 DEF KeptFrom
  <2>2. t \in view'
    BY <1>1, <1>2, <1>6, <1>7, <2>1
  <2> QED BY <1>5, <1>7, <2>2 DEF WillShow
<1>8. ASSUME NEW i \in DOMAIN tuiq, KeptFrom(t, i),
             \/ tuiq[i].kind = "created" /\ tuiq[i].tab = t
             \/ tuiq[i].kind = "sync" /\ t \in tuiq[i].cut
      PROVE  WillShow(t)'
  <2>1. CASE i = 1
    <3>1. t \in view'
      BY <1>1, <1>2, <1>8, <2>1
    <3> QED BY <1>5, <1>8, <2>1, <3>1 DEF WillShow
  <2>2. CASE i # 1
    <3> DEFINE n == i - 1
    <3>1. n \in DOMAIN tuiq' /\ tuiq'[n] = tuiq[i]
      BY <1>2, <1>3, <2>2
    <3>2. \A j \in DOMAIN tuiq' : j > n /\ tuiq'[j].kind = "sync" => t \in tuiq'[j].cut
      BY <1>4, <1>8
    <3> HIDE DEF n
    <3> QED BY <1>8, <3>1, <3>2 DEF WillShow, KeptFrom
  <2> QED BY <2>1, <2>2
<1>9. WillShow(t) => WillShow(t)'
  BY <1>7, <1>8 DEF WillShow
<1>10. Base' = Base /\ t \in Tabs
  BY <1>1 DEF Base, Types
<1>11. Coming(t) => Coming(t)'
  BY <1>1, <1>10, ComingOfSupervisor
<1> QED BY <1>1, <1>9, <1>11 DEF Covered

LEMMA CoveredStep ==
  ASSUME Types, Linked, Pending, BeatsFollow, Captured, Closures, Covered, [Next]_vars
  PROVE  Covered'
<1>1. CASE Down \/ Disconnect \/ Dial
  BY <1>1, SMT DEF Down, Disconnect, Dial, NoConn, Types, Connection, Covered
<1>2. CASE StartDaemon
  BY <1>2 DEF StartDaemon, Linked, Covered
<1>3. CASE UNCHANGED <<tabs, pubs, conn, cl, tuiq, view>>
  <2>1. \A t \in Tabs : Coming(t) => Coming(t)'
    BY <1>3 DEF Coming, Unsaid, Pushing, Base
  <2>2. \A t \in tabs : t \in Tabs
    BY DEF Types
  <2>3. \A t : WillShow(t) => WillShow(t)'
    BY <1>3 DEF WillShow, KeptFrom
  <2> QED BY <1>3, <2>1, <2>2, <2>3 DEF Covered
<1>4. Next => \/ TabChange \/ Down \/ Disconnect \/ Dial \/ StartDaemon \/ HeartbeatPush
              \/ \E p \in Publishers : Assign(p) \/ Push(p)
              \/ SubscribeEnqueues \/ CutEnqueues \/ Synchronized \/ Prepare \/ Installed \/ Apply \/ Skip \/ TuiStep
              \/ UNCHANGED <<tabs, pubs, conn, cl, tuiq, view>>
  BY DEF Next, TabChange, Stopped, Crash, Publish, Heartbeat, Subscribe, SubscribeReads, SubscribeCaptures,
         CutLocks, CutCaptures, Supervise, EndOfStream, Reconnect, GiveUp, daemon, window
<1>5. CASE \E p \in Publishers : Assign(p) \/ Push(p)
  BY <1>5, CoveredOfAssign, CoveredOfPush
<1> QED BY <1>1, <1>2, <1>3, <1>4, <1>5, CoveredOfChange, CoveredOfBeat, CoveredOfEnqueue, CoveredOfSynchronized,
           CoveredOfPrepare, CoveredOfInstalled, CoveredOfRead, CoveredOfTui DEF vars, daemon, window

-----------------------------------------------------------------------------
(* The sequence is a promise.                                              *)

LEMMA SkippedStep ==
  ASSUME Types, Linked, BeatsFollow, Captured, NoEventSkipped, [Next]_vars
  PROVE  NoEventSkipped'
<1>1. CASE cl' = cl \/ cl'.pc \in {"dial", "subscribe"}
  BY <1>1 DEF NoEventSkipped
<1>2. CASE Synchronized
  <2>1. cl'.seq = Head(conn.high).rev /\ cl'.told = 1..Head(conn.high).at /\ conn.high # <<>>
    BY <1>2 DEF Synchronized, Types, Supervisor
  <2>2. Head(conn.high) = conn.high[1] /\ 1 \in DOMAIN conn.high /\ conn.high[1] \in Syncs
    BY <2>1, SMT DEF Types, Connection
  <2>3. conn.high[1].rev <= conn.high[1].at /\ conn.high[1].rev \in Nat /\ conn.high[1].at \in Nat
    BY <2>2 DEF Captured, Syncs
  <2>4. 1..conn.high[1].rev \subseteq 1..conn.high[1].at
    BY <2>3, SMT
  <2> QED BY <2>1, <2>2, <2>4 DEF NoEventSkipped
<1>3. CASE Prepare \/ Installed \/ TuiStep
  <2>1. cl'.seq = cl.seq /\ cl'.told = cl.told /\ (cl'.pc = cl.pc \/ cl.pc \in {"prepare", "wait"})
    BY <1>3 DEF Prepare, Installed, TuiStep, Types, Supervisor
  <2> QED BY <2>1 DEF NoEventSkipped
<1>4. CASE Apply
  <2>1. /\ cl.pc = "ready" /\ conn.low # <<>> /\ Head(conn.low).rev = cl.seq + 1 /\ cl'.seq = Head(conn.low).rev
        /\ cl'.told = IF Head(conn.low).kind = "heartbeat" THEN cl.told ELSE cl.told \cup {Head(conn.low).rev}
    BY <1>4 DEF Apply, Takes, Types, Supervisor
  <2>2. Head(conn.low) = conn.low[1]
    BY <2>1, TailFacts DEF Types, Connection
  <2>3. conn.low[1].kind # "heartbeat"
    BY <2>1, <2>2, NextIsEvent DEF IsEvent
  <2>4. cl'.seq = cl.seq + 1 /\ cl'.told = cl.told \cup {cl.seq + 1} /\ cl.seq \in Nat
    BY <2>1, <2>2, <2>3 DEF Types, Supervisor
  <2>5. 1..cl.seq \subseteq cl.told
    BY <2>1 DEF NoEventSkipped
  <2>6. 1..cl'.seq \subseteq cl'.told
    BY <2>4, <2>5, SMT
  <2> QED BY <2>6 DEF NoEventSkipped
<1>5. CASE Disconnect \/ Dial
  <2>1. cl'.pc \in {"dial", "subscribe"}
    BY <1>5, SMT DEF Disconnect, Dial, Offline, Types, Supervisor
  <2> QED BY <1>1, <2>1
<1>6. Next => Synchronized \/ Prepare \/ Installed \/ TuiStep \/ Apply \/ Disconnect \/ Dial \/ cl' = cl
  BY DEF Next, OpenTab, CloseTab, ShellExit, StopDaemon, Changes, Stopped, Crash, Down, StartDaemon, Publish, Assign, Push,
         Heartbeat, HeartbeatPush, Subscribe, SubscribeReads, SubscribeCaptures, SubscribeEnqueues, CutLocks, CutCaptures,
         CutEnqueues, Supervise, EndOfStream, Skip, Reconnect, GiveUp
<1> QED BY <1>1, <1>2, <1>3, <1>4, <1>5, <1>6 DEF vars

-----------------------------------------------------------------------------
(* The theorems.                                                           *)

\* The conjunction is inductive, as long as no heartbeat samples the revision
\* of an event that is still to be pushed.
THEOREM StreamInvariant ==
  ASSUME ~HeartbeatRaces
  PROVE  Spec => []IInv
<1>1. Init => IInv
  BY TypesInit, LinkedInit, RevisedInit, CapturedInit DEF IInv
<1>2. IInv /\ [Next]_vars => IInv'
  <2> SUFFICES ASSUME IInv, [Next]_vars PROVE IInv'
    OBVIOUS
  <2>1. Types /\ Linked /\ Revised /\ Pending /\ BeatsFollow /\ Captured /\ Closures /\ Covered /\ NoEventSkipped
    BY DEF IInv
  <2>2. Types' /\ Linked' /\ Revised'
    BY <2>1, TypesStep, LinkedStep, RevisedStep
  <2>3. Pending' /\ BeatsFollow'
    BY <2>1, QueueStep
  <2>4. Captured' /\ Closures'
    BY <2>1, CapturedStep, ClosuresStep
  <2>5. Covered' /\ NoEventSkipped'
    BY <2>1, CoveredStep, SkippedStep
  <2> QED BY <2>2, <2>3, <2>4, <2>5 DEF IInv
<1> QED BY <1>1, <1>2, PTL DEF Spec

\* Every event up to the supervisor's sequence was in the cut the window
\* installs or was handed to the window (ensureSequence and the subscription
\* cut), whatever connections fail and however broadcasts interleave.
THEOREM NoEventIsSkipped ==
  ASSUME ~HeartbeatRaces
  PROVE  Spec => []NoEventSkipped
<1>1. IInv => NoEventSkipped
  BY DEF IInv
<1> QED BY <1>1, StreamInvariant, PTL

\* A window at rest shows every tab the daemon lists.
THEOREM NoTabIsMissing ==
  ASSUME ~HeartbeatRaces
  PROVE  Spec => []NoMissingTab
<1>1. IInv => NoMissingTab
  <2> SUFFICES ASSUME IInv, Settled, NEW t \in tabs PROVE t \in view
    BY DEF NoMissingTab
  <2>1. DOMAIN <<>> = {}
    BY SMT
  <2>2. Types /\ Linked /\ Covered /\ t \in Tabs
    BY DEF IInv, Types
  <2>3. <<t, "open">> \in Publishers
    BY <2>2, PublisherFacts
  <2>4. /\ pubs[<<t, "open">>].pc \in {"idle", "done", "over"} /\ cl.pc = "ready" /\ conn.open
        /\ conn.low = <<>> /\ tuiq = <<>>
    BY <2>3 DEF Settled
  <2>5. ~Coming(t)
    BY <2>1, <2>4 DEF Coming, Unsaid, Pushing
  <2>6. conn.subscribed
    BY <2>2, <2>4 DEF Linked
  <2>7. WillShow(t)
    BY <2>2, <2>4, <2>5, <2>6 DEF Covered
  <2> QED BY <2>1, <2>4, <2>7 DEF WillShow
<1> QED BY <1>1, StreamInvariant, PTL

=============================================================================

-------------------------- MODULE EventStreamQueue --------------------------
(***************************************************************************)
(* The inductive invariant of the event stream, and the proof of its first *)
(* half: what the messages look like, that a connection has one            *)
(* subscription, and that the revisions in a queue never go back.          *)
(***************************************************************************)
EXTENDS EventStream, TLAPS

\* Most leaves are left to Zenon; those that need arithmetic cite SMT.
USE Zenon

-----------------------------------------------------------------------------
(* What the messages look like.                                            *)

\* The events a goroutine broadcasts.
KindsOf(p) == CASE p[2] = "open" -> {"created", "order"}
                [] p[2] = "close" -> {"closed", "order"}
                [] OTHER -> {"shutdown"}
Publication(p) == [pc : {"idle", "changed", "push", "done", "over"}, rest : Seq(KindsOf(p)),
                   rev : Nat, to : BOOLEAN]
Beat == [pc : {"idle", "push"}, rest : {<<>>}, rev : Nat, to : BOOLEAN]
Subscription == [pc : {"none", "before", "capture", "enqueue", "cut", "enqueue_cut"},
                 before : Nat, at : Nat, state : SUBSET Tabs, tries : Nat]
Syncs == [rev : Nat, state : SUBSET Tabs, at : Nat]
Connection == [open : BOOLEAN, subscribed : BOOLEAN, high : Seq(Syncs), low : Seq(Frames)]
Supervisor == [pc : {"dial", "subscribe", "prepare", "wait", "ready"}, seq : Nat,
               told : SUBSET Nat, cut : SUBSET Tabs, applied : BOOLEAN]
Notices == [kind : {"sync", "created", "closed"}, tab : Tabs \cup {"daemon", "none"},
            cut : SUBSET Tabs, stale : BOOLEAN]

\* A broadcast under way has an event to send.
Publications ==
  /\ DOMAIN pubs = Publishers
  /\ \A p \in Publishers : /\ pubs[p] \in Publication(p)
                           /\ pubs[p].pc \in {"changed", "push"} => pubs[p].rest # <<>>

\* Every variable has its type.
Types ==
  /\ up \in BOOLEAN /\ ready \in BOOLEAN
  /\ tabs \subseteq Tabs
  /\ revision \in Nat /\ ticks \in Nat /\ faults \in Nat
  /\ Publications
  /\ heart \in Beat
  /\ sub \in Subscription /\ sub.tries <= Attempts
  /\ sub.pc \in {"capture", "enqueue"} => sub.tries < Attempts
  /\ conn \in Connection
  /\ cl \in Supervisor
  /\ tuiq \in Seq(Notices)

IsEvent(f) == f.kind # "heartbeat"

-----------------------------------------------------------------------------
(* The inductive invariant.                                                *)

\* A connection carries frames once it is subscribed, and it is subscribed by
\* the cut that its supervisor has read or finds at the head of the queue.
Linked ==
  /\ conn.open => up
  /\ ~up => heart.pc = "idle" /\ \A p \in Publishers : pubs[p].pc \in {"idle", "over"}
  /\ cl.pc = "dial" => ~conn.open /\ ~conn.subscribed
  /\ ~conn.subscribed => /\ conn.high = <<>> /\ conn.low = <<>>
                         /\ ~heart.to /\ \A p \in Publishers : ~pubs[p].to
  /\ cl.pc \in {"prepare", "wait", "ready"} => conn.subscribed /\ conn.high = <<>>
  /\ cl.pc = "subscribe" /\ conn.subscribed => conn.high # <<>>
  /\ Len(conn.high) <= 1
  /\ sub.pc # "none" => cl.pc = "subscribe" /\ conn.open /\ ~conn.subscribed

\* The revision the window is at, or will be at once it has the cut.
Base == IF cl.pc = "subscribe" THEN conn.high[1].rev ELSE cl.seq

Pushing(p) == pubs[p].pc = "push" /\ pubs[p].to
Queued(k) == \E i \in DOMAIN conn.low : IsEvent(conn.low[i]) /\ conn.low[i].rev = k

\* Every revision is one event, and a heartbeat under way is older than every
\* broadcast under way.
Revised ==
  /\ \A p \in Publishers : pubs[p].pc = "push" => pubs[p].rev <= revision
  /\ \A p, q \in Publishers :
       p # q /\ pubs[p].pc = "push" /\ pubs[q].pc = "push" => pubs[p].rev # pubs[q].rev
  /\ heart.pc = "push" =>
       /\ heart.rev <= revision
       /\ \A p \in Publishers : pubs[p].pc = "push" => pubs[p].rev > heart.rev

\* The events after the window's revision are in its queue or in the hands of
\* a broadcast, none of them twice.
Pending ==
  conn.open /\ conn.subscribed =>
    /\ Base <= revision
    /\ \A i \in DOMAIN conn.low : conn.low[i].rev <= revision
    /\ \A i, j \in DOMAIN conn.low :
         i # j /\ IsEvent(conn.low[i]) /\ IsEvent(conn.low[j]) => conn.low[i].rev # conn.low[j].rev
    /\ \A p \in Publishers : Pushing(p) => pubs[p].rev > Base /\ ~Queued(pubs[p].rev)
    /\ \A k \in Nat : Base < k /\ k <= revision =>
         Queued(k) \/ \E p \in Publishers : Pushing(p) /\ pubs[p].rev = k

\* A heartbeat in the queue is preceded by every event it may not overtake.
BeatsFollow ==
  conn.subscribed =>
    \A i \in DOMAIN conn.low : ~IsEvent(conn.low[i]) =>
      \A k \in Nat : Base < k /\ k <= conn.low[i].rev =>
        \E j \in DOMAIN conn.low : j < i /\ IsEvent(conn.low[j]) /\ conn.low[j].rev = k

\* A tab whose opening no revision stands for yet.
Unsaid(t) == pubs[<<t, "open">>].pc = "changed" /\ pubs[<<t, "open">>].rest[1] = "created"

\* The cut is no older than the revision it is announced with, and lacks only
\* tabs whose event is still to come.
Captured ==
  /\ sub.pc \in {"capture", "enqueue"} => sub.before <= revision
  /\ sub.pc = "enqueue" => /\ sub.before <= sub.at /\ sub.at <= revision
                           /\ revision = sub.before => \A t \in tabs : t \in sub.state \/ Unsaid(t)
  /\ sub.pc = "enqueue_cut" => sub.at = revision /\ \A t \in tabs : t \in sub.state \/ Unsaid(t)
  /\ \A i \in DOMAIN conn.high : conn.high[i].rev <= conn.high[i].at

\* A tab that was closed is never opened again, and only of such a tab does a
\* closing event exist.
Gone(t) == t \notin tabs /\ pubs[<<t, "open">>].pc # "idle"
Closures ==
  /\ view \subseteq Tabs
  /\ \A t \in tabs : pubs[<<t, "open">>].pc # "idle"
  /\ \A t \in Tabs : pubs[<<t, "close">>].pc # "idle" => Gone(t)
  /\ \A i \in DOMAIN conn.low : conn.low[i].kind \in {"created", "closed"} => conn.low[i].tab \in Tabs
  /\ \A i \in DOMAIN conn.low : conn.low[i].kind = "closed" => Gone(conn.low[i].tab)
  /\ \A i \in DOMAIN tuiq : tuiq[i].kind \in {"created", "closed"} => tuiq[i].tab \in Tabs
  /\ \A i \in DOMAIN tuiq : tuiq[i].kind = "closed" => Gone(tuiq[i].tab)

\* The event that announces a tab is still to come ...
Coming(t) ==
  \/ Unsaid(t)
  \/ Pushing(<<t, "open">>) /\ pubs[<<t, "open">>].rest[1] = "created"
  \/ \E i \in DOMAIN conn.low : /\ conn.low[i].kind = "created" /\ conn.low[i].tab = t
                                /\ conn.low[i].rev > Base
\* ... or the window, which replaces its tabs by every cut it installs, will
\* show the tab when it has handled what is in its queue.
KeptFrom(t, i) == \A j \in DOMAIN tuiq : j > i /\ tuiq[j].kind = "sync" => t \in tuiq[j].cut
WillShow(t) ==
  \/ t \in view /\ KeptFrom(t, 0)
  \/ \E i \in DOMAIN tuiq : /\ \/ tuiq[i].kind = "created" /\ tuiq[i].tab = t
                               \/ tuiq[i].kind = "sync" /\ t \in tuiq[i].cut
                            /\ KeptFrom(t, i)
Covered ==
  conn.open /\ conn.subscribed =>
    \A t \in tabs :
      \/ Coming(t)
      \/ cl.pc = "subscribe" /\ t \in conn.high[1].state
      \/ cl.pc = "prepare" /\ t \in cl.cut
      \/ cl.pc \in {"wait", "ready"} /\ WillShow(t)

IInv == Types /\ Linked /\ Revised /\ Pending /\ BeatsFollow /\ Captured /\ Closures /\ Covered /\ NoEventSkipped

-----------------------------------------------------------------------------
(* Types.                                                                  *)

LEMMA PublisherFacts ==
  /\ Stop \in Publishers
  /\ \A t \in Tabs : <<t, "open">> \in Publishers /\ <<t, "close">> \in Publishers
  /\ \A p \in Publishers : p[1] \in Tabs \cup {"daemon"}
  /\ \A p \in Publishers : p[2] = "open" => p[1] \in Tabs /\ p = <<p[1], "open">>
  /\ \A p \in Publishers : p[2] = "close" => p[1] \in Tabs /\ p = <<p[1], "close">>
  /\ \A t : KindsOf(<<t, "open">>) = {"created", "order"} /\ KindsOf(<<t, "close">>) = {"closed", "order"}
  /\ KindsOf(Stop) = {"shutdown"}
  /\ \A p \in Publishers : /\ KindsOf(p) \subseteq {"created", "closed", "order", "shutdown"}
                           /\ "created" \in KindsOf(p) => p[2] = "open"
                           /\ "closed" \in KindsOf(p) => p[2] = "close"
BY SMT DEF Publishers, Stop, KindsOf

LEMMA BoundFacts == Attempts \in Nat /\ QueueCap \in Nat /\ QueueCap > 0 /\ TuiCap \in Nat /\ TuiCap > 0
BY BoundsAssumption, SMT

\* A sequence without its first element.
LEMMA TailFacts ==
  ASSUME NEW S, NEW s \in Seq(S), s # <<>>
  PROVE  /\ Len(s) \in Nat /\ Len(s) > 0 /\ DOMAIN s = 1..Len(s) /\ Head(s) = s[1] /\ s[1] \in S
         /\ Tail(s) \in Seq(S) /\ Len(Tail(s)) = Len(s) - 1 /\ DOMAIN Tail(s) = 1..Len(s) - 1
         /\ \A i \in 1..Len(s) - 1 : Tail(s)[i] = s[i + 1]
         /\ Len(s) # 1 => Tail(s) # <<>>
<1>1. /\ Len(s) \in Nat /\ Len(s) > 0 /\ DOMAIN s = 1..Len(s) /\ Head(s) = s[1] /\ s[1] \in S
  BY SMT
<1>2. /\ Tail(s) \in Seq(S) /\ Len(Tail(s)) = Len(s) - 1
      /\ \A i \in 1..Len(s) - 1 : Tail(s)[i] = s[i + 1]
  BY <1>1, SMT
<1>3. DOMAIN Tail(s) = 1..Len(s) - 1
  BY <1>2, SMT
<1>4. Len(s) # 1 => Tail(s) # <<>>
  <2>1. \A n \in Nat : n > 0 /\ n # 1 => n - 1 # 0
    BY SMT
  <2>2. Len(s) # 1 => Len(Tail(s)) # 0
    BY <1>1, <1>2, <2>1, Zenon
  <2>3. Len(<<>>) = 0
    OBVIOUS
  <2> QED BY <2>2, <2>3, Zenon
<1> QED BY <1>1, <1>2, <1>3, <1>4

\* A sequence with one more element.
LEMMA AppendFacts ==
  ASSUME NEW S, NEW s \in Seq(S), NEW e \in S
  PROVE  /\ Len(s) \in Nat /\ DOMAIN s = 1..Len(s)
         /\ Append(s, e) \in Seq(S) /\ Len(Append(s, e)) = Len(s) + 1
         /\ DOMAIN Append(s, e) = 1..Len(s) + 1
         /\ \A i \in 1..Len(s) : Append(s, e)[i] = s[i]
         /\ Append(s, e)[Len(s) + 1] = e
BY SMT

LEMMA IdleFacts ==
  /\ \A p \in Publishers : Idle \in Publication(p) /\ [Idle EXCEPT !.pc = "over"] \in Publication(p)
  /\ Idle \in Beat /\ NoSub \in Subscription /\ NoConn \in Connection /\ Offline \in Supervisor
  /\ Idle.pc = "idle" /\ NoSub.tries = 0 /\ NoSub.pc = "none"
<1>1. \A p \in Publishers : Idle \in Publication(p) /\ [Idle EXCEPT !.pc = "over"] \in Publication(p)
  <2>1. \A p \in Publishers : <<>> \in Seq(KindsOf(p))
    BY SMT
  <2>2. \A p \in Publishers : Idle \in Publication(p)
    BY <2>1 DEF Idle, Publication
  <2>3. ASSUME NEW p \in Publishers, NEW r \in Publication(p) PROVE [r EXCEPT !.pc = "over"] \in Publication(p)
    BY DEF Publication
  <2> QED BY <2>2, <2>3
<1>2. Idle \in Beat
  BY DEF Idle, Beat
<1>3. NoSub \in Subscription
  BY DEF NoSub, Subscription
<1>4. NoConn \in Connection
  <2>1. <<>> \in Seq(Syncs) /\ <<>> \in Seq(Frames)
    BY SMT
  <2> QED BY <2>1 DEF NoConn, Connection
<1>5. Offline \in Supervisor
  BY DEF Offline, Supervisor
<1> QED BY <1>1, <1>2, <1>3, <1>4, <1>5 DEF Idle, NoSub

LEMMA TypesInit == Init => Types
<1> SUFFICES ASSUME Init PROVE Types
  OBVIOUS
<1>1. \A p \in Publishers : pubs[p] \in Publication(p) /\ pubs[p].pc = "idle"
  BY IdleFacts DEF Init
<1>2. tuiq \in Seq(Notices)
  BY SMT DEF Init
<1> QED BY <1>1, <1>2, IdleFacts, BoundFacts, SMT DEF Init, Types, Publications

\* What pushing a frame does to the connection.
LEMMA PushEffect ==
  ASSUME conn \in Connection, NEW captured \in BOOLEAN, NEW frame \in Frames, PushLow(captured, frame)
  PROVE  /\ conn' \in Connection
         /\ \/ conn' = conn /\ ~(captured /\ conn.open)
            \/ captured /\ conn.open /\ conn' = [conn EXCEPT !.open = FALSE]
            \/ captured /\ conn.open /\ ~Full(conn) /\ conn' = [conn EXCEPT !.low = Append(conn.low, frame)]
<1>1. CASE ~captured \/ ~conn.open
  BY <1>1 DEF PushLow
<1>2. CASE captured /\ conn.open /\ Full(conn)
  BY <1>2 DEF PushLow, Connection
<1>3. CASE captured /\ conn.open /\ ~Full(conn)
  <2>1. conn' = [conn EXCEPT !.low = Append(conn.low, frame)]
    BY <1>3 DEF PushLow
  <2>2. Append(conn.low, frame) \in Seq(Frames)
    BY SMT DEF Connection
  <2> QED BY <1>3, <2>1, <2>2 DEF Connection
<1> QED BY <1>1, <1>2, <1>3 DEF Connection


LEMMA PublicationsStep ==
  ASSUME Types, NEW p \in Publishers, NEW r \in Publication(p),
         r.pc \in {"changed", "push"} => r.rest # <<>>, pubs' = [pubs EXCEPT ![p] = r]
  PROVE  Publications'
BY DEF Types, Publications

LEMMA TypesOfChange ==
  ASSUME Types, NEW p \in Publishers, NEW kinds \in Seq(KindsOf(p)), kinds # <<>>, Changes(p, kinds), tabs' \subseteq Tabs
  PROVE  Types'
<1> DEFINE r == [Idle EXCEPT !.pc = "changed", !.rest = kinds]
<1>1. r \in Publication(p) /\ r.rest # <<>>
  BY DEF Publication, Idle
<1>2. Publications'
  <2> HIDE DEF r
  <2> QED BY <1>1, PublicationsStep DEF Changes, r
<1> QED BY <1>2 DEF Changes, Types, window

LEMMA TypesOfDown ==
  ASSUME Types, Down, faults' \in Nat
  PROVE  Types'
<1>1. Publications'
  BY IdleFacts DEF Down, Types, Publications, Idle
<1>2. conn' \in Connection
  BY DEF Down, Types, Connection
<1>3. sub' \in Subscription /\ sub'.tries <= Attempts /\ sub'.pc = "none" /\ heart' \in Beat
  BY IdleFacts, BoundFacts, SMT DEF Down
<1> QED BY <1>1, <1>2, <1>3 DEF Down, Types, window

LEMMA TypesOfDisconnect ==
  ASSUME Types, Disconnect, faults' \in Nat
  PROVE  Types'
<1>1. Publications'
  BY DEF Disconnect, Types, Publications, Publication
<1>2. heart' \in Beat
  BY DEF Disconnect, Types, Beat
<1>3. tuiq' \in Seq(Notices)
  <2>1. DOMAIN tuiq = 1..Len(tuiq) /\ Len(tuiq) \in Nat
    BY SMT DEF Types
  <2>2. \A i \in 1..Len(tuiq) : [tuiq[i] EXCEPT !.stale = TRUE] \in Notices
    <3>1. \A n \in Notices : [n EXCEPT !.stale = TRUE] \in Notices
      BY DEF Notices
    <3>2. \A i \in 1..Len(tuiq) : tuiq[i] \in Notices
      BY SMT DEF Types
    <3> QED BY <3>1, <3>2
  <2> QED BY <2>1, <2>2, SMT DEF Disconnect
<1>4. /\ sub' \in Subscription /\ sub'.tries <= Attempts /\ sub'.pc = "none"
      /\ conn' \in Connection /\ cl' \in Supervisor
  BY IdleFacts, BoundFacts, SMT DEF Disconnect
<1> QED BY <1>1, <1>2, <1>3, <1>4 DEF Disconnect, Types

\* The frame a broadcast pushes.
LEMMA FrameOfPush ==
  ASSUME Types, NEW p \in Publishers, pubs[p].pc = "push"
  PROVE  /\ pubs[p].rest \in Seq(KindsOf(p)) /\ pubs[p].rest # <<>> /\ pubs[p].to \in BOOLEAN /\ pubs[p].rev \in Nat
         /\ Head(pubs[p].rest) = pubs[p].rest[1] /\ pubs[p].rest[1] \in KindsOf(p)
         /\ [kind |-> Head(pubs[p].rest), tab |-> p[1], rev |-> pubs[p].rev] \in Frames
<1>1. pubs[p].rest \in Seq(KindsOf(p)) /\ pubs[p].rest # <<>> /\ pubs[p].to \in BOOLEAN /\ pubs[p].rev \in Nat
  BY DEF Types, Publications, Publication
<1>2. Head(pubs[p].rest) = pubs[p].rest[1] /\ pubs[p].rest[1] \in KindsOf(p)
  BY <1>1, TailFacts
<1>3. /\ pubs[p].rest[1] \in {"created", "closed", "order", "shutdown"}
      /\ p[1] \in Tabs \cup {"daemon", "none"}
  BY <1>2, PublisherFacts
<1> QED BY <1>1, <1>2, <1>3 DEF Frames

LEMMA TypesOfPush ==
  ASSUME Types, NEW p \in Publishers, Push(p)
  PROVE  Types'
<1> DEFINE r == [Idle EXCEPT !.pc = IF Len(pubs[p].rest) = 1 THEN "done" ELSE "changed",
                             !.rest = Tail(pubs[p].rest)]
           f == [kind |-> Head(pubs[p].rest), tab |-> p[1], rev |-> pubs[p].rev]
<1>1. /\ pubs[p].rest \in Seq(KindsOf(p)) /\ pubs[p].rest # <<>> /\ pubs[p].to \in BOOLEAN /\ pubs[p].rev \in Nat
      /\ f \in Frames
  BY FrameOfPush DEF Push
<1>2. r \in Publication(p) /\ (r.pc = "changed" => r.rest # <<>>) /\ r.pc # "push"
  <2>1. Tail(pubs[p].rest) \in Seq(KindsOf(p)) /\ (Len(pubs[p].rest) # 1 => Tail(pubs[p].rest) # <<>>)
    BY <1>1, TailFacts
  <2>2. Idle \in Publication(p)
    BY IdleFacts
  <2> QED BY <2>1, <2>2 DEF Publication
<1>3. Publications'
  <2>1. pubs' = [pubs EXCEPT ![p] = r]
    BY DEF Push
  <2> HIDE DEF r
  <2> QED BY <1>2, <2>1, PublicationsStep
<1>4. conn' \in Connection
  <2>1. PushLow(pubs[p].to, f)
    BY DEF Push
  <2> HIDE DEF f
  <2> QED BY <1>1, <2>1, PushEffect DEF Types
<1> QED BY <1>3, <1>4 DEF Push, Types, window

LEMMA TypesStep ==
  ASSUME Types, [Next]_vars
  PROVE  Types'
<1> USE DEF window, daemon
<1>1. CASE \E t \in Tabs : OpenTab(t)
  <2>1. PICK t \in Tabs : OpenTab(t)
    BY <1>1
  <2>2. <<"created", "order">> \in Seq(KindsOf(<<t, "open">>)) /\ <<"created", "order">> # <<>>
    BY PublisherFacts, SMT
  <2> QED BY <2>1, <2>2, PublisherFacts, TypesOfChange DEF OpenTab, Types
<1>2. CASE \E t \in Tabs : CloseTab(t)
  <2>1. PICK t \in Tabs : CloseTab(t)
    BY <1>2
  <2>2. <<"closed", "order">> \in Seq(KindsOf(<<t, "close">>)) /\ <<"closed", "order">> # <<>>
    BY PublisherFacts, SMT
  <2> QED BY <2>1, <2>2, PublisherFacts, TypesOfChange DEF CloseTab, Types
<1>3. CASE \E t \in Tabs : ShellExit(t)
  <2>1. PICK t \in Tabs : ShellExit(t)
    BY <1>3
  <2>2. <<"closed">> \in Seq(KindsOf(<<t, "close">>)) /\ <<"closed">> # <<>>
    BY PublisherFacts, SMT
  <2> QED BY <2>1, <2>2, PublisherFacts, TypesOfChange DEF ShellExit, Types
<1>4. CASE StopDaemon
  <2>1. <<"shutdown">> \in Seq(KindsOf(Stop)) /\ <<"shutdown">> # <<>>
    BY PublisherFacts, SMT
  <2> QED BY <1>4, <2>1, PublisherFacts, TypesOfChange DEF StopDaemon, Types
<1>5. CASE Stopped \/ Crash
  BY <1>5, TypesOfDown, SMT DEF Stopped, Crash, Types
<1>6. CASE StartDaemon
  BY <1>6 DEF StartDaemon, Types, Publications
<1>7. CASE \E p \in Publishers : Assign(p)
  <2>1. PICK p \in Publishers : Assign(p)
    BY <1>7
  <2> DEFINE r == [pubs[p] EXCEPT !.pc = "push", !.rev = revision + 1, !.to = Recipient]
  <2>2. pubs' = [pubs EXCEPT ![p] = r]
    BY <2>1 DEF Assign
  <2>3. r \in Publication(p) /\ r.rest # <<>>
    <3>1. pubs[p] \in Publication(p) /\ pubs[p].rest # <<>> /\ revision + 1 \in Nat /\ Recipient \in BOOLEAN
      BY <2>1, SMT DEF Assign, Types, Publications, Recipient, Connection
    <3> QED BY <3>1 DEF Publication
  <2>4. Publications'
    <3> HIDE DEF r
    <3> QED BY <2>2, <2>3, PublicationsStep
  <2> QED BY <2>1, <2>4, SMT DEF Assign, Types
<1>8. CASE \E p \in Publishers : Push(p)
  BY <1>8, TypesOfPush
<1>9. CASE Heartbeat
  <2>1. Recipient \in BOOLEAN
    BY DEF Types, Recipient, Connection
  <2>2. heart' \in Beat
    BY <1>9, <2>1, IdleFacts DEF Heartbeat, Types, Beat
  <2> QED BY <1>9, <2>2, SMT DEF Heartbeat, Types, Publications
<1>10. CASE HeartbeatPush
  <2> DEFINE f == [kind |-> "heartbeat", tab |-> "none", rev |-> heart.rev]
  <2>1. f \in Frames /\ heart.to \in BOOLEAN /\ PushLow(heart.to, f)
    BY <1>10 DEF Types, Beat, Frames, HeartbeatPush
  <2>2. conn' \in Connection
    <3> HIDE DEF f
    <3> QED BY <2>1, PushEffect DEF Types
  <2> QED BY <1>10, <2>2, IdleFacts DEF HeartbeatPush, Types, Publications
<1>11. CASE SubscribeReads \/ SubscribeCaptures \/ CutLocks \/ CutCaptures
  BY <1>11 DEF SubscribeReads, SubscribeCaptures, CutLocks, CutCaptures, Types, Publications, Subscription
<1>12. CASE SubscribeEnqueues \/ CutEnqueues
  <2>1. ASSUME NEW rev \in Nat, EnqueueSync(rev) PROVE conn' \in Connection
    <3>1. <<[rev |-> rev, state |-> sub.state, at |-> sub.at]>> \in Seq(Syncs)
      BY SMT DEF Types, Subscription, Syncs
    <3> QED BY <2>1, <3>1 DEF EnqueueSync, Types, Connection
  <2>2. conn' \in Connection
    BY <1>12, <2>1 DEF SubscribeEnqueues, CutEnqueues, Types, Subscription
  <2>3. sub' = NoSub \/ (sub' = [NoSub EXCEPT !.pc = "before", !.tries = sub.tries + 1] /\ sub.pc = "enqueue")
    BY <1>12 DEF SubscribeEnqueues, CutEnqueues, EnqueueSync
  <2>4. /\ sub' \in Subscription /\ sub'.tries <= Attempts
        /\ sub'.pc \notin {"capture", "enqueue"}
    <3>1. CASE sub' = NoSub
      BY <3>1, IdleFacts, BoundFacts, SMT
    <3>2. CASE sub' = [NoSub EXCEPT !.pc = "before", !.tries = sub.tries + 1] /\ sub.pc = "enqueue"
      <4>1. sub.tries \in Nat /\ sub.tries + 1 <= Attempts
        BY <3>2, BoundFacts, SMT DEF Types, Subscription
      <4>2. ASSUME NEW n \in Nat, NEW r, r = [NoSub EXCEPT !.pc = "before", !.tries = n]
            PROVE  r \in Subscription /\ r.tries = n /\ r.pc = "before"
        BY <4>2 DEF NoSub, Subscription
      <4>3. sub.tries + 1 \in Nat
        BY <4>1, SMT
      <4>4. sub' \in Subscription /\ sub'.tries = sub.tries + 1 /\ sub'.pc = "before"
        BY <3>2, <4>2, <4>3
      <4> QED BY <4>1, <4>4
    <3> QED BY <2>3, <3>1, <3>2
  <2> QED BY <1>12, <2>2, <2>4 DEF SubscribeEnqueues, CutEnqueues, Types, Publications
<1>13. CASE Dial
  <2>1. cl' \in Supervisor
    BY <1>13 DEF Dial, Types, Supervisor
  <2>2. conn' \in Connection
    BY <1>13, IdleFacts DEF Dial, Connection
  <2>3. sub' \in Subscription /\ sub'.tries = 0 /\ sub'.pc = "before"
    BY <1>13, IdleFacts DEF Dial, Subscription
  <2> QED BY <1>13, <2>1, <2>2, <2>3, BoundFacts, SMT DEF Dial, Types, Publications
<1>14. CASE Synchronized
  <2>1. Head(conn.high) \in Syncs
    BY <1>14, SMT DEF Synchronized, Types, Connection
  <2>2. cl' \in Supervisor
    <3> DEFINE sync == Head(conn.high)
    <3>1. sync.rev \in Nat /\ 1..sync.at \subseteq Nat /\ sync.state \in SUBSET Tabs
      BY <2>1, SMT DEF Syncs
    <3>2. cl' = [cl EXCEPT !.pc = "prepare", !.seq = sync.rev, !.told = 1..sync.at, !.cut = sync.state]
      BY <1>14 DEF Synchronized
    <3> HIDE DEF sync
    <3> QED BY <3>1, <3>2 DEF Types, Supervisor
  <2>3. conn' \in Connection
    <3>1. <<>> \in Seq(Syncs)
      BY SMT
    <3> QED BY <1>14, <3>1 DEF Synchronized, Types, Connection
  <2> QED BY <1>14, <2>2, <2>3 DEF Synchronized, Types, Publications
<1>15. CASE Prepare
  <2>1. [kind |-> "sync", tab |-> "none", cut |-> cl.cut, stale |-> FALSE] \in Notices
    BY DEF Types, Notices, Supervisor
  <2>2. tuiq' \in Seq(Notices)
    BY <1>15, <2>1, SMT DEF Prepare, Types
  <2>3. cl' \in Supervisor
    BY <1>15 DEF Prepare, Types, Supervisor
  <2> QED BY <1>15, <2>2, <2>3 DEF Prepare, Types, Publications
<1>16. CASE Installed
  BY <1>16 DEF Installed, Types, Publications, Supervisor
<1>17. CASE EndOfStream \/ Reconnect \/ GiveUp
  BY <1>17, TypesOfDisconnect, SMT DEF EndOfStream, Reconnect, GiveUp, Types
<1>18. CASE Apply
  <2>1. Head(conn.low) \in Frames /\ Tail(conn.low) \in Seq(Frames)
    BY <1>18, SMT DEF Apply, Types, Connection
  <2> DEFINE f == Head(conn.low)
             n == [kind |-> f.kind, tab |-> f.tab, cut |-> {}, stale |-> FALSE]
  <2>2. f.kind \in {"created", "closed"} => n \in Notices
    BY <2>1 DEF Frames, Notices
  <2>3. tuiq' = tuiq \/ (f.kind \in {"created", "closed"} /\ tuiq' = Append(tuiq, n))
    BY <1>18 DEF Apply, Takes, Post
  <2>4. tuiq' \in Seq(Notices)
    <3> HIDE DEF n, f
    <3> QED BY <2>2, <2>3, SMT DEF Types
  <2>5. cl' \in Supervisor
    BY <1>18, <2>1 DEF Apply, Takes, Types, Supervisor, Frames
  <2>6. conn' \in Connection
    BY <1>18, <2>1 DEF Apply, Takes, Types, Connection
  <2> QED BY <1>18, <2>4, <2>5, <2>6 DEF Apply, Types, Publications
<1>19. CASE Skip
  <2>1. conn' \in Connection
    <3>1. Tail(conn.low) \in Seq(Frames)
      BY <1>19, SMT DEF Skip, Types, Connection
    <3> QED BY <1>19, <3>1 DEF Skip, Types, Connection
  <2> QED BY <1>19, <2>1 DEF Skip, Types, Publications
<1>20. CASE TuiStep
  <2>1. Head(tuiq) \in Notices /\ Tail(tuiq) \in Seq(Notices)
    BY <1>20, SMT DEF TuiStep, Types
  <2>2. cl' \in Supervisor
    BY <1>20 DEF TuiStep, Types, Supervisor
  <2> QED BY <1>20, <2>1, <2>2 DEF TuiStep, Types, Publications, Notices
<1>21. CASE UNCHANGED vars
  BY <1>21 DEF vars, Types, Publications
<1> QED BY <1>1, <1>2, <1>3, <1>4, <1>5, <1>6, <1>7, <1>8, <1>9, <1>10, <1>11, <1>12, <1>13, <1>14, <1>15, <1>16,
           <1>17, <1>18, <1>19, <1>20, <1>21 DEF Next, Publish, Subscribe, Supervise

-----------------------------------------------------------------------------
(* The connection.                                                         *)

LEMMA LinkedInit == Init => Linked
<1>1. Len(<<>>) = 0
  OBVIOUS
<1> QED BY <1>1, SMT DEF Init, Linked, NoConn, Idle, NoSub, Offline

LEMMA LinkedOfPush ==
  ASSUME Types, Linked, NEW captured \in BOOLEAN, NEW frame \in Frames, PushLow(captured, frame),
         captured => conn.subscribed,
         UNCHANGED <<up, cl, sub>>,
         heart'.to => heart.to, \A p \in Publishers : pubs'[p].to => pubs[p].to,
         ~up => heart'.pc = "idle" /\ \A p \in Publishers : pubs'[p].pc \in {"idle", "over"}
  PROVE  Linked'
<1>1. /\ conn'.subscribed = conn.subscribed /\ conn'.high = conn.high
      /\ conn'.open => conn.open
      /\ ~conn.subscribed => conn'.low = conn.low
      /\ sub.pc # "none" => conn'.open = conn.open
  <2>1. /\ \/ conn' = conn
           \/ captured /\ conn' = [conn EXCEPT !.open = FALSE]
           \/ captured /\ conn' = [conn EXCEPT !.low = Append(conn.low, frame)]
        /\ conn \in Connection
    BY PushEffect DEF Types
  <2> QED BY <2>1 DEF Connection, Linked
<1> QED BY <1>1 DEF Linked

LEMMA LinkedOfDown ==
  ASSUME Types, Linked, Down
  PROVE  Linked'
<1>1. /\ ~conn'.open /\ conn'.subscribed = conn.subscribed /\ conn'.high = conn.high /\ conn'.low = conn.low
      /\ sub'.pc = "none" /\ heart'.pc = "idle" /\ ~heart'.to /\ cl' = cl
  BY DEF Down, Types, Connection, NoSub, Idle
<1>2. \A p \in Publishers : pubs'[p].pc \in {"idle", "over"} /\ ~pubs'[p].to
  BY DEF Down, Idle
<1> QED BY <1>1, <1>2 DEF Linked

LEMMA LinkedOfDisconnect ==
  ASSUME Types, Linked, Disconnect
  PROVE  Linked'
<1>1. /\ ~conn'.open /\ ~conn'.subscribed /\ conn'.high = <<>> /\ conn'.low = <<>>
      /\ sub'.pc = "none" /\ cl'.pc = "dial" /\ ~heart'.to /\ heart'.pc = heart.pc /\ up' = up
  BY DEF Disconnect, NoConn, NoSub, Offline, Types, Beat
<1>2. \A p \in Publishers : pubs'[p].pc = pubs[p].pc /\ ~pubs'[p].to
  BY DEF Disconnect, Types, Publications, Publication
<1>3. Len(<<>>) = 0
  OBVIOUS
<1> QED BY <1>1, <1>2, <1>3, SMT DEF Linked

\* A tab is changed: the broadcast that begins has no recipient yet.
LEMMA LinkedOfChange ==
  ASSUME Types, Linked, NEW p \in Publishers, NEW kinds, Changes(p, kinds)
  PROVE  Linked'
<1>1. /\ UNCHANGED <<up, heart, sub, conn, cl>> /\ up
      /\ \A q \in Publishers : pubs'[q].to => pubs[q].to
  BY DEF Changes, Idle, Types, Publications
<1> QED BY <1>1 DEF Linked

LEMMA LinkedStep ==
  ASSUME Types, Linked, [Next]_vars
  PROVE  Linked'
<1> USE DEF window, daemon
<1>1. CASE \E t \in Tabs : OpenTab(t) \/ CloseTab(t) \/ ShellExit(t)
  BY <1>1, LinkedOfChange, PublisherFacts DEF OpenTab, CloseTab, ShellExit
<1>2. CASE StopDaemon
  BY <1>2, LinkedOfChange, PublisherFacts DEF StopDaemon
<1>3. CASE Stopped \/ Crash
  BY <1>3, LinkedOfDown DEF Stopped, Crash
<1>4. CASE StartDaemon
  BY <1>4 DEF StartDaemon, Linked
<1>5. CASE \E p \in Publishers : Assign(p)
  <2>1. PICK p \in Publishers : Assign(p)
    BY <1>5
  <2>2. UNCHANGED <<up, heart, sub, conn, cl>> /\ up
    BY <2>1 DEF Assign, Linked
  <2>3. \A q \in Publishers : pubs'[q].to => pubs[q].to \/ conn.subscribed
    BY <2>1 DEF Assign, Types, Publications, Publication, Recipient
  <2> QED BY <2>2, <2>3 DEF Linked
<1>6. CASE \E p \in Publishers : Push(p)
  <2>1. PICK p \in Publishers : Push(p)
    BY <1>6
  <2> DEFINE f == [kind |-> Head(pubs[p].rest), tab |-> p[1], rev |-> pubs[p].rev]
  <2>2. f \in Frames /\ pubs[p].to \in BOOLEAN
    BY <2>1, FrameOfPush DEF Push
  <2>3. /\ PushLow(pubs[p].to, f) /\ pubs[p].pc = "push" /\ UNCHANGED <<up, cl, sub, heart>>
        /\ \A q \in Publishers : pubs'[q].to => pubs[q].to
    BY <2>1 DEF Push, Types, Publications, Idle
  <2> HIDE DEF f
  <2> QED BY <2>2, <2>3, LinkedOfPush DEF Linked
<1>7. CASE Heartbeat
  BY <1>7 DEF Heartbeat, Linked, Recipient, Idle
<1>8. CASE HeartbeatPush
  <2> DEFINE f == [kind |-> "heartbeat", tab |-> "none", rev |-> heart.rev]
  <2>1. f \in Frames /\ heart.to \in BOOLEAN
    BY <1>8 DEF Types, Beat, Frames
  <2>2. /\ PushLow(heart.to, f) /\ heart.pc = "push" /\ UNCHANGED <<up, cl, sub, pubs>>
        /\ heart'.pc = "idle" /\ ~heart'.to
    BY <1>8 DEF HeartbeatPush, Idle
  <2> HIDE DEF f
  <2> QED BY <2>1, <2>2, LinkedOfPush DEF Linked
<1>9. CASE SubscribeReads \/ SubscribeCaptures \/ CutLocks \/ CutCaptures
  BY <1>9 DEF SubscribeReads, SubscribeCaptures, CutLocks, CutCaptures, Types, Subscription, Linked
<1>10. CASE SubscribeEnqueues \/ CutEnqueues
  <2>1. sub.pc # "none" /\ UNCHANGED <<up, cl, pubs, heart>>
    BY <1>10 DEF SubscribeEnqueues, CutEnqueues
  <2>2. cl.pc = "subscribe" /\ conn.open /\ ~conn.subscribed
    BY <2>1 DEF Linked
  <2>3. ASSUME NEW rev \in Nat, EnqueueSync(rev) PROVE Linked'
    <3>1. /\ conn'.open /\ conn'.subscribed /\ Len(conn'.high) = 1 /\ conn'.high # <<>> /\ sub'.pc = "none"
      BY <2>2, <2>3 DEF EnqueueSync, Types, Connection, NoSub
    <3> QED BY <2>1, <2>2, <3>1, SMT DEF Linked
  <2>4. CASE UNCHANGED conn
    BY <2>1, <2>2, <2>4 DEF Linked
  <2> QED BY <1>10, <2>3, <2>4 DEF SubscribeEnqueues, CutEnqueues, Types, Subscription
<1>11. CASE Dial
  <2>1. /\ conn'.open /\ ~conn'.subscribed /\ conn'.high = <<>> /\ conn'.low = <<>> /\ up /\ cl'.pc = "subscribe"
        /\ UNCHANGED <<up, heart, pubs>> /\ ~conn.subscribed
    BY <1>11 DEF Dial, NoConn, Types, Supervisor, Linked
  <2>2. Len(<<>>) = 0
    OBVIOUS
  <2> QED BY <2>1, <2>2 DEF Linked
<1>12. CASE Synchronized
  <2>1. /\ cl'.pc = "prepare" /\ conn'.high = <<>> /\ conn'.low = conn.low /\ conn'.open = conn.open
        /\ conn'.subscribed = conn.subscribed /\ conn.subscribed /\ UNCHANGED <<up, heart, pubs, sub>>
    BY <1>12 DEF Synchronized, Types, Supervisor, Connection, Linked
  <2>2. Len(<<>>) = 0
    OBVIOUS
  <2> QED BY <2>1, <2>2, SMT DEF Linked
<1>13. CASE Prepare \/ Installed
  BY <1>13 DEF Prepare, Installed, Types, Supervisor, Linked
<1>14. CASE EndOfStream \/ Reconnect \/ GiveUp
  BY <1>14, LinkedOfDisconnect DEF EndOfStream, Reconnect, GiveUp
<1>15. CASE Apply \/ Skip
  <2>1. /\ cl.pc = "ready" /\ cl'.pc = "ready" /\ conn'.high = conn.high /\ conn'.open = conn.open
        /\ conn'.subscribed = conn.subscribed /\ UNCHANGED <<up, heart, pubs, sub>>
    BY <1>15 DEF Apply, Skip, Takes, Types, Supervisor, Connection
  <2> QED BY <2>1 DEF Linked
<1>16. CASE TuiStep
  BY <1>16 DEF TuiStep, Types, Supervisor, Linked
<1>17. CASE UNCHANGED vars
  BY <1>17 DEF vars, Linked
<1> QED BY <1>1, <1>2, <1>3, <1>4, <1>5, <1>6, <1>7, <1>8, <1>9, <1>10, <1>11, <1>12, <1>13, <1>14, <1>15, <1>16,
           <1>17 DEF Next, Publish, Subscribe, Supervise

-----------------------------------------------------------------------------
(* Revisions.                                                              *)

LEMMA RevisedInit == Init => Revised /\ Pending /\ BeatsFollow
BY SMT DEF Init, Revised, Pending, BeatsFollow, Idle, NoConn

\* A step that begins no broadcast and no heartbeat.
LEMMA RevisedFrame ==
  ASSUME Revised, revision' = revision,
         \A p \in Publishers : pubs'[p].pc = "push" => pubs[p].pc = "push" /\ pubs'[p].rev = pubs[p].rev,
         heart'.pc = "push" => heart.pc = "push" /\ heart'.rev = heart.rev
  PROVE  Revised'
BY DEF Revised

LEMMA RevisedStep ==
  ASSUME ~HeartbeatRaces, Types, Linked, Revised, [Next]_vars
  PROVE  Revised'
<1> USE DEF window, daemon
<1>1. CASE \E p \in Publishers : \E kinds : Changes(p, kinds)
  <2>0. PICK p \in Publishers : \E kinds : Changes(p, kinds)
    BY <1>1
  <2>1. PICK kinds : Changes(p, kinds)
    BY <2>0
  <2>2. \A q \in Publishers : pubs'[q].pc = "push" => pubs[q].pc = "push" /\ pubs'[q].rev = pubs[q].rev
    BY <2>1 DEF Changes, Types, Publications, Idle
  <2> QED BY <2>1, <2>2, RevisedFrame DEF Changes
<1>2. CASE Down
  <2>1. \A q \in Publishers : pubs'[q].pc # "push"
    BY <1>2 DEF Down, Idle
  <2>2. heart'.pc # "push" /\ revision' = revision
    BY <1>2 DEF Down, Idle
  <2> QED BY <2>1, <2>2, RevisedFrame
<1>3. CASE StartDaemon
  <2>1. heart'.pc # "push" /\ \A q \in Publishers : pubs'[q].pc # "push"
    BY <1>3 DEF StartDaemon, Linked
  <2> QED BY <2>1 DEF Revised
<1>4. CASE \E p \in Publishers : Assign(p)
  <2>1. PICK p \in Publishers : Assign(p)
    BY <1>4
  <2>2. /\ revision \in Nat /\ revision' = revision + 1 /\ heart' = heart /\ heart.rev \in Nat
        /\ \A q \in Publishers : pubs[q].rev \in Nat
    BY <2>1 DEF Assign, Types, Publications, Publication, Beat
  <2>3. /\ pubs'[p].rev = revision + 1
        /\ \A q \in Publishers : q # p => pubs'[q] = pubs[q]
    BY <2>1 DEF Assign, Types, Publications, Publication
  <2> QED BY <2>2, <2>3, SMT DEF Revised
<1>5. CASE \E p \in Publishers : Push(p)
  <2>1. PICK p \in Publishers : Push(p)
    BY <1>5
  <2>2. \A q \in Publishers : pubs'[q].pc = "push" => pubs[q].pc = "push" /\ pubs'[q].rev = pubs[q].rev
    BY <2>1 DEF Push, Types, Publications, Idle
  <2> QED BY <2>1, <2>2, RevisedFrame DEF Push
<1>6. CASE Heartbeat
  <2>1. /\ \A q \in Publishers : pubs[q].pc # "push"
        /\ revision \in Nat /\ heart'.rev = revision /\ UNCHANGED <<revision, pubs>>
    BY <1>6 DEF Heartbeat, Publishing, Types, Idle
  <2> QED BY <2>1, SMT DEF Revised
<1>7. CASE HeartbeatPush
  <2>1. heart'.pc # "push" /\ UNCHANGED <<revision, pubs>>
    BY <1>7 DEF HeartbeatPush, Idle
  <2> QED BY <2>1, RevisedFrame
<1>8. CASE Disconnect
  <2>1. /\ revision' = revision /\ heart'.pc = heart.pc /\ heart'.rev = heart.rev
        /\ \A q \in Publishers : pubs'[q].pc = pubs[q].pc /\ pubs'[q].rev = pubs[q].rev
    BY <1>8 DEF Disconnect, Types, Publications, Publication, Beat
  <2> QED BY <2>1, RevisedFrame
<1>9. CASE UNCHANGED <<revision, pubs, heart>>
  BY <1>9, RevisedFrame
<1>10. Next => \/ \E p \in Publishers : \E kinds : Changes(p, kinds)
               \/ Down \/ StartDaemon \/ Disconnect \/ Heartbeat \/ HeartbeatPush
               \/ \E p \in Publishers : Assign(p) \/ Push(p)
               \/ UNCHANGED <<revision, pubs, heart>>
  BY PublisherFacts
     DEF Next, OpenTab, CloseTab, ShellExit, StopDaemon, Stopped, Crash, Publish, Subscribe, Supervise, GiveUp,
         TuiStep, SubscribeReads, SubscribeCaptures, SubscribeEnqueues, CutLocks, CutCaptures, CutEnqueues,
         Dial, Synchronized, Prepare, Installed, EndOfStream, Apply, Skip, Reconnect
<1> QED BY <1>1, <1>2, <1>3, <1>4, <1>5, <1>6, <1>7, <1>8, <1>9, <1>10 DEF vars

LEMMA QueueType ==
  ASSUME Types
  PROVE  \A i \in DOMAIN conn.low : conn.low[i] \in Frames /\ conn.low[i].rev \in Nat
<1>1. \A i \in DOMAIN conn.low : conn.low[i] \in Frames
  BY SMT DEF Types, Connection
<1> QED BY <1>1 DEF Frames

LEMMA BaseType ==
  ASSUME Types, Linked, conn.subscribed
  PROVE  Base \in Nat /\ cl.seq \in Nat
<1>1. cl.pc = "subscribe" => conn.high # <<>> /\ conn.high \in Seq(Syncs)
  BY DEF Types, Linked, Connection
<1>2. cl.pc = "subscribe" => conn.high[1] \in Syncs
  BY <1>1, TailFacts
<1> QED BY <1>2 DEF Base, Types, Syncs, Supervisor

\* The queue after a frame was pushed, and after one was read.
LEMMA QueueAppend ==
  ASSUME conn \in Connection, NEW f \in Frames, conn'.low = Append(conn.low, f)
  PROVE  /\ Len(conn.low) \in Nat /\ DOMAIN conn.low = 1..Len(conn.low) /\ DOMAIN conn'.low = 1..Len(conn.low) + 1
         /\ \A i \in 1..Len(conn.low) : conn'.low[i] = conn.low[i]
         /\ conn'.low[Len(conn.low) + 1] = f
         /\ \A k : Queued(k)' <=> Queued(k) \/ (IsEvent(f) /\ f.rev = k)
<1>1. /\ Len(conn.low) \in Nat /\ DOMAIN conn.low = 1..Len(conn.low) /\ DOMAIN conn'.low = 1..Len(conn.low) + 1
      /\ \A i \in 1..Len(conn.low) : conn'.low[i] = conn.low[i]
      /\ conn'.low[Len(conn.low) + 1] = f
  BY AppendFacts, SMT DEF Connection
<1> QED BY <1>1, SMT DEF Queued

LEMMA QueueTail ==
  ASSUME conn \in Connection, conn.low # <<>>, conn'.low = Tail(conn.low)
  PROVE  /\ Len(conn.low) \in Nat /\ DOMAIN conn.low = 1..Len(conn.low) /\ DOMAIN conn'.low = 1..Len(conn.low) - 1
         /\ \A i \in 1..Len(conn.low) - 1 : conn'.low[i] = conn.low[i + 1] /\ i + 1 \in 1..Len(conn.low)
         /\ \A i \in 1..Len(conn.low) : i # 1 => i - 1 \in 1..Len(conn.low) - 1 /\ conn'.low[i - 1] = conn.low[i]
         /\ 1 \in 1..Len(conn.low) /\ Head(conn.low) = conn.low[1] /\ conn.low[1] \in Frames
         /\ \A k : Queued(k)' => Queued(k)
         /\ \A k : Queued(k) /\ ~(IsEvent(conn.low[1]) /\ conn.low[1].rev = k) => Queued(k)'
<1>1. /\ Len(conn.low) \in Nat /\ Len(conn.low) > 0
      /\ DOMAIN conn.low = 1..Len(conn.low) /\ DOMAIN conn'.low = 1..Len(conn.low) - 1
      /\ \A i \in 1..Len(conn.low) - 1 : conn'.low[i] = conn.low[i + 1]
      /\ Head(conn.low) = conn.low[1] /\ conn.low[1] \in Frames
  BY TailFacts DEF Connection
<1>2. /\ \A i \in 1..Len(conn.low) - 1 : conn'.low[i] = conn.low[i + 1] /\ i + 1 \in 1..Len(conn.low)
      /\ \A i \in 1..Len(conn.low) : i # 1 => i - 1 \in 1..Len(conn.low) - 1 /\ conn'.low[i - 1] = conn.low[i]
      /\ 1 \in 1..Len(conn.low)
  <2>1. ASSUME NEW i \in 1..Len(conn.low), i # 1
        PROVE  i - 1 \in 1..Len(conn.low) - 1 /\ (i - 1) + 1 = i
    BY <1>1, <2>1, SMT
  <2>2. \A i \in 1..Len(conn.low) - 1 : i + 1 \in 1..Len(conn.low)
    BY <1>1, SMT
  <2>3. 1 \in 1..Len(conn.low)
    BY <1>1, SMT
  <2>4. ASSUME NEW i \in 1..Len(conn.low), i # 1
        PROVE  conn'.low[i - 1] = conn.low[i]
    BY <1>1, <2>1, <2>4
  <2> QED BY <1>1, <2>1, <2>2, <2>3, <2>4
<1>3. \A k : Queued(k)' => Queued(k)
  BY <1>1, <1>2, SMT DEF Queued
<1>4. ASSUME NEW k, Queued(k), ~(IsEvent(conn.low[1]) /\ conn.low[1].rev = k) PROVE Queued(k)'
  <2>1. PICK i \in 1..Len(conn.low) : IsEvent(conn.low[i]) /\ conn.low[i].rev = k
    BY <1>1, <1>4 DEF Queued
  <2>2. i - 1 \in DOMAIN conn'.low /\ conn'.low[i - 1] = conn.low[i]
    BY <1>1, <1>2, <1>4, <2>1
  <2> QED BY <2>1, <2>2 DEF Queued
<1> QED BY <1>1, <1>2, <1>3, <1>4

\* A step that leaves the queue and the broadcasts under way alone.
LEMMA PendingFrame ==
  ASSUME Pending, conn'.open /\ conn'.subscribed =>
           /\ conn.open /\ conn.subscribed /\ conn'.low = conn.low /\ Base' = Base /\ revision' = revision
           /\ \A p \in Publishers : Pushing(p) => Pushing(p)' /\ pubs'[p].rev = pubs[p].rev
           /\ \A p \in Publishers : Pushing(p)' => Pushing(p)
  PROVE  Pending'
<1> SUFFICES ASSUME conn'.open /\ conn'.subscribed
             PROVE  /\ Base' <= revision'
                    /\ \A i \in DOMAIN conn'.low : conn'.low[i].rev <= revision'
                    /\ \A i, j \in DOMAIN conn'.low :
                         i # j /\ IsEvent(conn'.low[i]) /\ IsEvent(conn'.low[j]) => conn'.low[i].rev # conn'.low[j].rev
                    /\ \A p \in Publishers : Pushing(p)' => pubs'[p].rev > Base' /\ ~Queued(pubs[p].rev)'
                    /\ \A k \in Nat : Base' < k /\ k <= revision' =>
                         Queued(k)' \/ \E p \in Publishers : Pushing(p)' /\ pubs'[p].rev = k
  BY DEF Pending
<1>1. /\ conn.open /\ conn.subscribed /\ conn'.low = conn.low /\ Base' = Base /\ revision' = revision
      /\ \A p \in Publishers : Pushing(p) => Pushing(p)' /\ pubs'[p].rev = pubs[p].rev
      /\ \A p \in Publishers : Pushing(p)' => Pushing(p)
  OBVIOUS
<1>2. \A k : Queued(k)' <=> Queued(k)
  BY <1>1 DEF Queued
<1> QED BY <1>1, <1>2, SMT DEF Pending

\* A cut was enqueued: nothing is pending.
LEMMA PendingFresh ==
  ASSUME Types, Base' = revision, revision' = revision, conn'.low = <<>>, \A p \in Publishers : ~pubs'[p].to
  PROVE  Pending' /\ BeatsFollow'
<1>1. DOMAIN conn'.low = {} /\ revision \in Nat
  BY SMT DEF Types
<1>2. \A p \in Publishers : ~Pushing(p)'
  BY DEF Pushing
<1>3. revision <= revision /\ \A k \in Nat : ~(revision < k /\ k <= revision)
  BY <1>1, SMT
<1> QED BY <1>1, <1>2, <1>3 DEF Pending, BeatsFollow

LEMMA PendingOfAssign ==
  ASSUME Types, Linked, Revised, Pending, NEW p \in Publishers, Assign(p)
  PROVE  Pending'
<1>1. /\ UNCHANGED <<conn, cl>> /\ revision' = revision + 1 /\ revision \in Nat
      /\ pubs'[p].rev = revision + 1 /\ pubs'[p].pc = "push" /\ pubs'[p].to = Recipient /\ ~Pushing(p)
      /\ \A q \in Publishers : q # p => pubs'[q] = pubs[q]
      /\ \A q \in Publishers : pubs[q].rev \in Nat
  BY DEF Assign, Types, Publications, Publication, Pushing
<1> SUFFICES ASSUME conn.open /\ conn.subscribed PROVE Pending'
  BY <1>1 DEF Pending
<1>2. Pushing(p)' /\ \A q \in Publishers : q # p => (Pushing(q)' <=> Pushing(q))
  BY <1>1 DEF Pushing, Recipient
<1>3. Base' = Base /\ \A k : Queued(k)' <=> Queued(k)
  BY <1>1 DEF Base, Queued
<1>4. Base \in Nat /\ Base <= revision
  BY BaseType DEF Pending
<1>5. ~Queued(revision + 1)
  <2>1. \A i \in DOMAIN conn.low : conn.low[i].rev \in Nat /\ conn.low[i].rev <= revision
    BY QueueType DEF Pending
  <2> QED BY <1>1, <2>1, SMT DEF Queued
<1>6. \A i \in DOMAIN conn.low : conn.low[i].rev <= revision'
  <2>1. \A i \in DOMAIN conn.low : conn.low[i].rev \in Nat /\ conn.low[i].rev <= revision
    BY QueueType DEF Pending
  <2> QED BY <1>1, <2>1, SMT
<1>7. ASSUME NEW q \in Publishers, Pushing(q)' PROVE pubs'[q].rev > Base' /\ ~Queued(pubs[q].rev)'
  <2>1. CASE q = p
    <3>1. pubs'[p].rev > Base
      BY <1>1, <1>4, SMT
    <3> QED BY <1>1, <1>3, <1>5, <2>1, <3>1
  <2>2. CASE q # p
    BY <1>1, <1>2, <1>3, <1>7, <2>2 DEF Pending
  <2> QED BY <2>1, <2>2
<1>8. ASSUME NEW k \in Nat, Base' < k, k <= revision'
      PROVE  Queued(k)' \/ \E q \in Publishers : Pushing(q)' /\ pubs'[q].rev = k
  <2>1. CASE k = revision + 1
    BY <1>1, <1>2, <2>1
  <2>2. CASE k # revision + 1
    <3>1. k <= revision
      BY <1>1, <1>8, <2>2, SMT
    <3>2. Queued(k) \/ \E q \in Publishers : Pushing(q) /\ pubs[q].rev = k
      BY <1>3, <1>8, <3>1 DEF Pending
    <3> QED BY <1>1, <1>2, <1>3, <3>2
  <2> QED BY <2>1, <2>2
<1>9. Base' <= revision'
  BY <1>1, <1>3, <1>4, SMT
<1> QED BY <1>1, <1>6, <1>7, <1>8, <1>9 DEF Pending

\* What a broadcast that pushes its event leaves behind.
LEMMA EffectOfPush ==
  ASSUME Types, NEW p \in Publishers, Push(p)
  PROVE  \E f \in Frames :
           /\ IsEvent(f) /\ f.kind = pubs[p].rest[1] /\ f.kind \in KindsOf(p) /\ f.tab = p[1] /\ f.rev = pubs[p].rev
           /\ pubs[p].pc = "push" /\ pubs'[p].pc # "push" /\ ~pubs'[p].to /\ UNCHANGED <<cl, revision>>
           /\ \A q \in Publishers : q # p => pubs'[q] = pubs[q]
           /\ \/ conn' = conn /\ ~(pubs[p].to /\ conn.open)
              \/ /\ ~conn'.open /\ conn'.low = conn.low /\ conn'.high = conn.high
                 /\ conn'.subscribed = conn.subscribed
              \/ /\ pubs[p].to /\ conn.open /\ conn'.open /\ conn'.low = Append(conn.low, f) /\ conn'.high = conn.high
                 /\ conn'.subscribed = conn.subscribed
<1> DEFINE f == [kind |-> Head(pubs[p].rest), tab |-> p[1], rev |-> pubs[p].rev]
<1>1. /\ f \in Frames /\ f.rev = pubs[p].rev /\ f.kind = pubs[p].rest[1] /\ f.kind \in KindsOf(p)
      /\ f.tab = p[1] /\ pubs[p].to \in BOOLEAN
  BY FrameOfPush DEF Push
<1>2. IsEvent(f)
  BY <1>1, PublisherFacts DEF IsEvent
<1>3. /\ PushLow(pubs[p].to, f) /\ pubs[p].pc = "push" /\ UNCHANGED <<cl, revision>>
      /\ pubs'[p].pc # "push" /\ ~pubs'[p].to
      /\ \A q \in Publishers : q # p => pubs'[q] = pubs[q]
  BY DEF Push, Types, Publications, Idle
<1> HIDE DEF f
<1>4. \/ conn' = conn /\ ~(pubs[p].to /\ conn.open)
      \/ pubs[p].to /\ conn.open /\ conn' = [conn EXCEPT !.open = FALSE]
      \/ pubs[p].to /\ conn.open /\ conn' = [conn EXCEPT !.low = Append(conn.low, f)]
  BY <1>1, <1>3, PushEffect DEF Types
<1>5. \/ conn' = conn /\ ~(pubs[p].to /\ conn.open)
      \/ /\ ~conn'.open /\ conn'.low = conn.low /\ conn'.high = conn.high
         /\ conn'.subscribed = conn.subscribed
      \/ /\ pubs[p].to /\ conn.open /\ conn'.open /\ conn'.low = Append(conn.low, f) /\ conn'.high = conn.high
         /\ conn'.subscribed = conn.subscribed
  BY <1>4 DEF Types, Connection
<1> QED BY <1>1, <1>2, <1>3, <1>5

\* An event reaches the queue: it leaves the hands of its broadcast.
LEMMA PendingOfPush ==
  ASSUME Types, Linked, Revised, Pending, NEW p \in Publishers, Push(p)
  PROVE  Pending'
<1>1. PICK f \in Frames :
        /\ IsEvent(f) /\ f.rev = pubs[p].rev
        /\ pubs[p].pc = "push" /\ pubs'[p].pc # "push" /\ ~pubs'[p].to /\ UNCHANGED <<cl, revision>>
        /\ \A q \in Publishers : q # p => pubs'[q] = pubs[q]
        /\ \/ conn' = conn /\ ~(pubs[p].to /\ conn.open)
           \/ ~conn'.open
           \/ /\ pubs[p].to /\ conn.open /\ conn'.low = Append(conn.low, f) /\ conn'.high = conn.high
              /\ conn'.subscribed = conn.subscribed
  BY EffectOfPush
<1>2. IsEvent(f)
  BY <1>1
<1>3. /\ pubs[p].pc = "push" /\ UNCHANGED <<cl, revision>>
      /\ pubs'[p].pc # "push" /\ ~pubs'[p].to
      /\ \A q \in Publishers : q # p => pubs'[q] = pubs[q]
  BY <1>1
<1>5. ~Pushing(p)' /\ \A q \in Publishers : q # p => (Pushing(q)' <=> Pushing(q))
  BY <1>3 DEF Pushing
<1>6. CASE conn' = conn /\ ~(pubs[p].to /\ conn.open)
  <2>1. Base' = Base
    BY <1>3, <1>6 DEF Base
  <2>2. conn.open => ~Pushing(p)
    BY <1>6 DEF Pushing
  <2> QED BY <1>3, <1>5, <1>6, <2>1, <2>2, PendingFrame
<1>7. CASE ~conn'.open
  BY <1>7 DEF Pending
<1>8. CASE /\ pubs[p].to /\ conn.open /\ conn'.low = Append(conn.low, f) /\ conn'.high = conn.high
           /\ conn'.subscribed = conn.subscribed
  <2> SUFFICES ASSUME conn.subscribed PROVE Pending'
    BY <1>8 DEF Pending
  <2> DEFINE n == Len(conn.low) + 1
  <2>1. /\ DOMAIN conn'.low = 1..n /\ \A i \in 1..n : i # n => i \in DOMAIN conn.low /\ conn'.low[i] = conn.low[i]
        /\ conn'.low[n] = f
        /\ \A k : Queued(k)' <=> Queued(k) \/ f.rev = k
    <3>1. conn \in Connection
      BY DEF Types
    <3>2. /\ Len(conn.low) \in Nat /\ DOMAIN conn.low = 1..Len(conn.low) /\ DOMAIN conn'.low = 1..Len(conn.low) + 1
          /\ \A i \in 1..Len(conn.low) : conn'.low[i] = conn.low[i]
          /\ conn'.low[Len(conn.low) + 1] = f
          /\ \A k : Queued(k)' <=> Queued(k) \/ f.rev = k
      BY <1>1, <1>2, <1>8, <3>1, QueueAppend
    <3> QED BY <3>2, SMT
  <2> HIDE DEF n
  <2>2. Base' = Base
    BY <1>3, <1>8 DEF Base
  <2>3. pubs[p].rev <= revision /\ ~Queued(pubs[p].rev) /\ pubs[p].rev > Base
    BY <1>3, <1>8 DEF Revised, Pending, Pushing
  <2>4. \A q \in Publishers : q # p /\ Pushing(q) => pubs[q].rev # pubs[p].rev
    BY <1>3 DEF Revised, Pushing
  <2>5. \A i \in DOMAIN conn'.low : conn'.low[i].rev <= revision'
    BY <1>1, <1>3, <1>8, <2>1, <2>3, SMT DEF Pending
  <2>6. ASSUME NEW i \in DOMAIN conn'.low, NEW j \in DOMAIN conn'.low, i # j,
               IsEvent(conn'.low[i]), IsEvent(conn'.low[j])
        PROVE  conn'.low[i].rev # conn'.low[j].rev
    <3>1. CASE i # n /\ j # n
      BY <1>8, <2>1, <2>6, <3>1, SMT DEF Pending
    <3>2. CASE i = n
      BY <1>1, <2>1, <2>3, <2>6, <3>2 DEF Queued
    <3>3. CASE j = n
      BY <1>1, <2>1, <2>3, <2>6, <3>3 DEF Queued
    <3> QED BY <3>1, <3>2, <3>3
  <2>7. ASSUME NEW q \in Publishers, Pushing(q)' PROVE pubs'[q].rev > Base' /\ ~Queued(pubs[q].rev)'
    <3>1. q # p /\ Pushing(q) /\ pubs'[q].rev = pubs[q].rev
      BY <1>3, <1>5, <2>7
    <3> QED BY <1>1, <1>8, <2>1, <2>2, <2>4, <3>1 DEF Pending
  <2>8. ASSUME NEW k \in Nat, Base' < k, k <= revision'
        PROVE  Queued(k)' \/ \E q \in Publishers : Pushing(q)' /\ pubs'[q].rev = k
    <3>1. Queued(k) \/ \E q \in Publishers : Pushing(q) /\ pubs[q].rev = k
      BY <1>3, <1>8, <2>2, <2>8 DEF Pending
    <3> QED BY <1>1, <1>3, <1>5, <2>1, <3>1
  <2> QED BY <1>3, <1>8, <2>2, <2>5, <2>6, <2>7, <2>8 DEF Pending
<1> QED BY <1>1, <1>6, <1>7, <1>8

\* A frame reaches the queue: the events a heartbeat may not overtake are there.
LEMMA BeatsOfAppend ==
  ASSUME Types, BeatsFollow, NEW f \in Frames, conn.subscribed, conn'.low = Append(conn.low, f), Base' = Base,
         ~IsEvent(f) => \A k \in Nat : Base < k /\ k <= f.rev => Queued(k)
  PROVE  BeatsFollow'
<1> SUFFICES ASSUME NEW i \in DOMAIN conn'.low, ~IsEvent(conn'.low[i]),
                    NEW k \in Nat, Base < k, k <= conn'.low[i].rev
             PROVE  \E j \in DOMAIN conn'.low : j < i /\ IsEvent(conn'.low[j]) /\ conn'.low[j].rev = k
  BY DEF BeatsFollow
<1>1. /\ Len(conn.low) \in Nat /\ DOMAIN conn.low = 1..Len(conn.low) /\ DOMAIN conn'.low = 1..Len(conn.low) + 1
      /\ \A j \in 1..Len(conn.low) : conn'.low[j] = conn.low[j]
      /\ conn'.low[Len(conn.low) + 1] = f
  BY QueueAppend DEF Types
<1>2. \A j \in 1..Len(conn.low) : j \in 1..Len(conn.low) + 1 /\ j < Len(conn.low) + 1
  BY <1>1, SMT
<1>3. CASE i = Len(conn.low) + 1
  <2>1. PICK j \in 1..Len(conn.low) : IsEvent(conn.low[j]) /\ conn.low[j].rev = k
    BY <1>1, <1>3 DEF Queued
  <2> QED BY <1>1, <1>2, <1>3, <2>1
<1>4. CASE i # Len(conn.low) + 1
  <2>1. i \in 1..Len(conn.low)
    BY <1>1, <1>4, SMT
  <2>2. PICK j \in 1..Len(conn.low) : j < i /\ IsEvent(conn.low[j]) /\ conn.low[j].rev = k
    BY <1>1, <2>1, SMT DEF BeatsFollow
  <2> QED BY <1>1, <1>2, <2>2
<1> QED BY <1>3, <1>4

LEMMA BeatsOfPush ==
  ASSUME Types, Linked, BeatsFollow, NEW p \in Publishers, Push(p)
  PROVE  BeatsFollow'
<1>1. PICK f \in Frames :
        /\ IsEvent(f) /\ UNCHANGED cl
        /\ \/ conn' = conn
           \/ conn'.low = conn.low /\ conn'.high = conn.high /\ conn'.subscribed = conn.subscribed
           \/ /\ pubs[p].to /\ conn'.low = Append(conn.low, f) /\ conn'.high = conn.high
              /\ conn'.subscribed = conn.subscribed
  BY EffectOfPush
<1>2. Base' = Base
  BY <1>1 DEF Base
<1>3. CASE conn'.low = conn.low /\ conn'.subscribed = conn.subscribed
  BY <1>2, <1>3, SMT DEF BeatsFollow
<1>4. CASE pubs[p].to /\ conn'.low = Append(conn.low, f)
  BY <1>1, <1>2, <1>4, BeatsOfAppend DEF Linked
<1> QED BY <1>1, <1>3, <1>4

\* A frame is read that the window is past, or comes to.
LEMMA BeatsOfTail ==
  ASSUME Types, BeatsFollow, conn.subscribed, conn.low # <<>>, conn'.low = Tail(conn.low),
         Base \in Nat, Base' \in Nat, Base <= Base', conn.low[1].rev <= Base'
  PROVE  BeatsFollow'
<1> SUFFICES ASSUME NEW i \in DOMAIN conn'.low, ~IsEvent(conn'.low[i]),
                    NEW k \in Nat, Base' < k, k <= conn'.low[i].rev
             PROVE  \E j \in DOMAIN conn'.low : j < i /\ IsEvent(conn'.low[j]) /\ conn'.low[j].rev = k
  BY DEF BeatsFollow
<1>1. /\ Len(conn.low) \in Nat /\ DOMAIN conn.low = 1..Len(conn.low) /\ DOMAIN conn'.low = 1..Len(conn.low) - 1
      /\ \A j \in 1..Len(conn.low) - 1 : conn'.low[j] = conn.low[j + 1] /\ j + 1 \in 1..Len(conn.low)
      /\ \A j \in 1..Len(conn.low) : j # 1 => j - 1 \in 1..Len(conn.low) - 1 /\ conn'.low[j - 1] = conn.low[j]
      /\ conn.low[1] \in Frames
  BY QueueTail DEF Types
<1>2. Base < k
  BY SMT
<1>3. PICK j \in 1..Len(conn.low) : j < i + 1 /\ IsEvent(conn.low[j]) /\ conn.low[j].rev = k
  <2>1. i + 1 \in DOMAIN conn.low /\ ~IsEvent(conn.low[i + 1]) /\ k <= conn.low[i + 1].rev
    BY <1>1
  <2> DEFINE m == i + 1
  <2>2. m \in DOMAIN conn.low /\ ~IsEvent(conn.low[m]) /\ k <= conn.low[m].rev
    BY <2>1
  <2> HIDE DEF m
  <2>3. \E j \in DOMAIN conn.low : j < m /\ IsEvent(conn.low[j]) /\ conn.low[j].rev = k
    BY <1>2, <2>2 DEF BeatsFollow
  <2> QED BY <1>1, <2>3 DEF m
<1>4. j # 1
  BY <1>1, <1>3, SMT DEF Frames
<1>5. j - 1 < i
  BY <1>1, <1>3, SMT
<1> QED BY <1>1, <1>3, <1>4, <1>5

LEMMA PendingOfTail ==
  ASSUME Types, Pending, conn.subscribed, conn.low # <<>>, conn'.low = Tail(conn.low),
         conn'.open = conn.open, UNCHANGED <<pubs, revision>>,
         Base \in Nat, Base' \in Nat, Base <= Base', conn.low[1].rev <= Base',
         Base' = Base \/ (Base' = Base + 1 /\ IsEvent(conn.low[1]) /\ conn.low[1].rev = Base')
  PROVE  Pending'
<1> SUFFICES ASSUME conn.open PROVE Pending'
  BY DEF Pending
<1>1. /\ Len(conn.low) \in Nat /\ DOMAIN conn.low = 1..Len(conn.low) /\ DOMAIN conn'.low = 1..Len(conn.low) - 1
      /\ \A j \in 1..Len(conn.low) - 1 : conn'.low[j] = conn.low[j + 1] /\ j + 1 \in 1..Len(conn.low)
      /\ 1 \in 1..Len(conn.low) /\ conn.low[1] \in Frames
      /\ \A k : Queued(k)' => Queued(k)
      /\ \A k : Queued(k) /\ ~(IsEvent(conn.low[1]) /\ conn.low[1].rev = k) => Queued(k)'
  BY QueueTail DEF Types
<1>2. Base' <= revision' /\ revision \in Nat
  BY <1>1, SMT DEF Pending, Types
<1>3. \A i \in DOMAIN conn'.low : conn'.low[i].rev <= revision'
  BY <1>1 DEF Pending
<1>4. ASSUME NEW i \in DOMAIN conn'.low, NEW j \in DOMAIN conn'.low, i # j,
             IsEvent(conn'.low[i]), IsEvent(conn'.low[j])
      PROVE  conn'.low[i].rev # conn'.low[j].rev
  <2>1. i + 1 # j + 1
    BY <1>1, <1>4, SMT
  <2>2. /\ i + 1 \in DOMAIN conn.low /\ IsEvent(conn.low[i + 1]) /\ conn'.low[i] = conn.low[i + 1]
        /\ j + 1 \in DOMAIN conn.low /\ IsEvent(conn.low[j + 1]) /\ conn'.low[j] = conn.low[j + 1]
    BY <1>1, <1>4
  <2> QED BY <2>1, <2>2, SMT DEF Pending
<1>5. ASSUME NEW p \in Publishers, Pushing(p)' PROVE pubs'[p].rev > Base' /\ ~Queued(pubs[p].rev)'
  <2>1. Pushing(p) /\ pubs[p].rev > Base /\ ~Queued(pubs[p].rev) /\ pubs[p].rev \in Nat
    BY <1>5 DEF Pending, Pushing, Types, Publications, Publication
  <2>2. pubs[p].rev > Base'
    <3>1. CASE Base' = Base
      BY <2>1, <3>1
    <3>2. CASE Base' = Base + 1 /\ IsEvent(conn.low[1]) /\ conn.low[1].rev = Base'
      <4>1. pubs[p].rev # Base'
        BY <1>1, <2>1, <3>2 DEF Queued
      <4> QED BY <2>1, <3>2, <4>1, SMT
    <3> QED BY <3>1, <3>2
  <2> QED BY <1>1, <2>1, <2>2
<1>6. ASSUME NEW k \in Nat, Base' < k, k <= revision'
      PROVE  Queued(k)' \/ \E p \in Publishers : Pushing(p)' /\ pubs'[p].rev = k
  <2>1. Base < k /\ conn.low[1].rev # k
    BY <1>1, <1>6, SMT DEF Frames
  <2>2. Queued(k) \/ \E p \in Publishers : Pushing(p) /\ pubs[p].rev = k
    BY <1>6, <2>1 DEF Pending
  <2> QED BY <1>1, <2>1, <2>2 DEF Pushing
<1> QED BY <1>2, <1>3, <1>4, <1>5, <1>6 DEF Pending

\* The frame read next is an event if it is the next of the sequence.
LEMMA NextIsEvent ==
  ASSUME Types, Linked, BeatsFollow, cl.pc = "ready", conn.low # <<>>, conn.low[1].rev = cl.seq + 1
  PROVE  IsEvent(conn.low[1])
<1>1. Base = cl.seq /\ conn.subscribed /\ cl.seq \in Nat
  BY DEF Base, Linked, Types, Supervisor
<1>2. 1 \in DOMAIN conn.low /\ \A j \in DOMAIN conn.low : ~(j < 1)
  BY SMT DEF Types, Connection
<1>3. cl.seq + 1 \in Nat /\ cl.seq < cl.seq + 1 /\ cl.seq + 1 <= cl.seq + 1
  BY <1>1, SMT
<1> QED BY <1>1, <1>2, <1>3, SMT DEF BeatsFollow

\* A step that leaves the queue and the broadcasts under way alone.
LEMMA QueueFrame ==
  ASSUME Pending, BeatsFollow,
         conn'.subscribed => conn.subscribed /\ conn'.low = conn.low /\ Base' = Base,
         conn'.open => conn.open /\ revision' = revision,
         \A p \in Publishers : Pushing(p) => Pushing(p)' /\ pubs'[p].rev = pubs[p].rev,
         \A p \in Publishers : Pushing(p)' => Pushing(p)
  PROVE  Pending' /\ BeatsFollow'
<1>1. Pending'
  BY PendingFrame
<1>2. BeatsFollow'
  BY SMT DEF BeatsFollow
<1> QED BY <1>1, <1>2

LEMMA QueueOfBeat ==
  ASSUME Types, Linked, Revised, Pending, BeatsFollow, HeartbeatPush
  PROVE  Pending' /\ BeatsFollow'
<1> DEFINE f == [kind |-> "heartbeat", tab |-> "none", rev |-> heart.rev]
<1>1. /\ f \in Frames /\ heart.to \in BOOLEAN /\ f.rev = heart.rev /\ heart.rev \in Nat /\ ~IsEvent(f)
      /\ PushLow(heart.to, f) /\ heart.pc = "push" /\ UNCHANGED <<cl, pubs, revision>>
  BY DEF Types, Beat, Frames, IsEvent, HeartbeatPush
<1> HIDE DEF f
<1>2. conn \in Connection /\ DOMAIN conn = {"open", "subscribed", "high", "low"}
  BY DEF Types, Connection
<1>3. \A p \in Publishers : (Pushing(p)' <=> Pushing(p)) /\ pubs'[p].rev = pubs[p].rev
  BY <1>1 DEF Pushing
<1>4. CASE conn' = conn
  <2>1. Base' = Base
    BY <1>1, <1>4 DEF Base
  <2> QED BY <1>1, <1>3, <1>4, <2>1, QueueFrame
<1>5. CASE conn' = [conn EXCEPT !.open = FALSE]
  <2>1. ~conn'.open /\ conn'.low = conn.low /\ conn'.high = conn.high /\ conn'.subscribed = conn.subscribed
    BY <1>2, <1>5
  <2>2. Base' = Base
    BY <1>1, <2>1 DEF Base
  <2> QED BY <1>1, <1>3, <2>1, <2>2, QueueFrame
<1>6. CASE heart.to /\ conn.open /\ conn' = [conn EXCEPT !.low = Append(conn.low, f)]
  <2>1. /\ conn'.open /\ conn'.low = Append(conn.low, f) /\ conn'.high = conn.high
        /\ conn'.subscribed = conn.subscribed /\ conn.subscribed
    BY <1>2, <1>6 DEF Linked
  <2>2. Base' = Base
    BY <1>1, <2>1 DEF Base
  <2>3. /\ Len(conn.low) \in Nat /\ DOMAIN conn.low = 1..Len(conn.low) /\ DOMAIN conn'.low = 1..Len(conn.low) + 1
        /\ \A i \in 1..Len(conn.low) : conn'.low[i] = conn.low[i]
        /\ conn'.low[Len(conn.low) + 1] = f
        /\ \A k : Queued(k)' <=> Queued(k)
    BY <1>1, <1>2, <2>1, QueueAppend
  <2>4. \A i \in DOMAIN conn'.low : (i \in DOMAIN conn.low /\ conn'.low[i] = conn.low[i]) \/ conn'.low[i] = f
    BY <2>3, SMT
  <2>5. heart.rev <= revision /\ \A p \in Publishers : pubs[p].pc = "push" => pubs[p].rev > heart.rev
    BY <1>1 DEF Revised
  <2>6. Pending'
    <3>1. \A i \in DOMAIN conn'.low : conn'.low[i].rev <= revision'
      BY <1>1, <1>6, <2>1, <2>4, <2>5 DEF Pending
    <3>2. \A i, j \in DOMAIN conn'.low :
            i # j /\ IsEvent(conn'.low[i]) /\ IsEvent(conn'.low[j]) => conn'.low[i].rev # conn'.low[j].rev
      BY <1>1, <1>6, <2>1, <2>4, SMT DEF Pending
    <3>3. Base' <= revision'
      BY <1>1, <1>6, <2>1, <2>2 DEF Pending
    <3>4. \A p \in Publishers : Pushing(p)' => pubs'[p].rev > Base' /\ ~Queued(pubs[p].rev)'
      BY <1>3, <1>6, <2>1, <2>2, <2>3 DEF Pending
    <3>5. \A k \in Nat : Base' < k /\ k <= revision' =>
            Queued(k)' \/ \E p \in Publishers : Pushing(p)' /\ pubs'[p].rev = k
      BY <1>1, <1>3, <1>6, <2>1, <2>2, <2>3 DEF Pending
    <3> QED BY <3>1, <3>2, <3>3, <3>4, <3>5 DEF Pending
  <2>7. ASSUME NEW k \in Nat, Base < k, k <= heart.rev PROVE Queued(k)
    <3>1. k <= revision /\ \A p \in Publishers : pubs[p].pc = "push" /\ pubs[p].rev \in Nat => pubs[p].rev # k
      BY <1>1, <2>5, <2>7, SMT DEF Types
    <3>2. \A p \in Publishers : pubs[p].rev \in Nat
      BY DEF Types, Publications, Publication
    <3> QED BY <1>6, <2>1, <2>7, <3>1, <3>2 DEF Pending, Pushing
  <2> QED BY <1>1, <2>1, <2>2, <2>6, <2>7, BeatsOfAppend
<1> QED BY <1>1, <1>2, <1>4, <1>5, <1>6, PushEffect

LEMMA QueueOfRead ==
  ASSUME Types, Linked, Pending, BeatsFollow, Apply \/ Skip
  PROVE  Pending' /\ BeatsFollow'
<1>1. /\ cl.pc = "ready" /\ cl'.pc = "ready" /\ conn.low # <<>> /\ UNCHANGED <<pubs, revision>>
      /\ conn'.low = Tail(conn.low) /\ conn'.open = conn.open /\ conn'.subscribed = conn.subscribed
      /\ \/ cl'.seq = Head(conn.low).rev /\ Head(conn.low).rev = cl.seq + 1
         \/ cl'.seq = cl.seq /\ Head(conn.low).rev <= cl.seq
  BY DEF Apply, Skip, Takes, Types, Supervisor, Connection, daemon, window
<1>2. Head(conn.low) = conn.low[1] /\ conn.low[1].rev \in Nat /\ conn.subscribed
  BY <1>1, QueueTail, QueueType DEF Types, Linked
<1>3. Base = cl.seq /\ Base' = cl'.seq /\ cl.seq \in Nat
  BY <1>1 DEF Base, Types, Supervisor
<1>4. \/ Base' = Base + 1 /\ conn.low[1].rev = Base' /\ IsEvent(conn.low[1])
      \/ Base' = Base /\ conn.low[1].rev <= Base
  BY <1>1, <1>2, <1>3, NextIsEvent
<1>5. Base \in Nat /\ Base' \in Nat /\ Base <= Base' /\ conn.low[1].rev <= Base'
  BY <1>2, <1>3, <1>4, SMT
<1> QED BY <1>1, <1>2, <1>4, <1>5, BeatsOfTail, PendingOfTail

LEMMA QueueStep ==
  ASSUME Types, Linked, Revised, Pending, BeatsFollow, [Next]_vars
  PROVE  Pending' /\ BeatsFollow'
<1> USE DEF window, daemon
<1>1. CASE \E p \in Publishers : \E kinds : Changes(p, kinds)
  <2>0. PICK p \in Publishers : \E kinds : Changes(p, kinds)
    BY <1>1
  <2>1. PICK kinds : Changes(p, kinds)
    BY <2>0
  <2>2. \A q \in Publishers : (Pushing(q)' <=> Pushing(q)) /\ (Pushing(q) => pubs'[q].rev = pubs[q].rev)
    BY <2>1 DEF Changes, Types, Publications, Idle, Pushing
  <2>3. UNCHANGED <<conn, revision>> /\ Base' = Base
    BY <2>1 DEF Changes, Base
  <2> QED BY <2>2, <2>3, QueueFrame
<1>2. CASE Down
  <2>1. ~conn'.open /\ conn'.low = conn.low /\ conn'.high = conn.high /\ conn'.subscribed = conn.subscribed /\ cl' = cl
    BY <1>2 DEF Down, Types, Connection
  <2> QED BY <2>1, SMT DEF Pending, BeatsFollow, Base
<1>3. CASE StartDaemon
  <2>1. ~conn'.open /\ UNCHANGED <<conn, cl>>
    BY <1>3 DEF StartDaemon, Linked
  <2> QED BY <2>1, SMT DEF Pending, BeatsFollow, Base
<1>4. CASE \E p \in Publishers : Assign(p)
  <2>1. Pending'
    BY <1>4, PendingOfAssign
  <2>2. UNCHANGED <<conn, cl>>
    BY <1>4 DEF Assign
  <2> QED BY <2>1, <2>2, SMT DEF BeatsFollow, Base
<1>5. CASE \E p \in Publishers : Push(p)
  <2>1. Pending'
    BY <1>5, PendingOfPush
  <2>2. BeatsFollow'
    BY <1>5, BeatsOfPush
  <2> QED BY <2>1, <2>2
<1>6. CASE HeartbeatPush
  BY <1>6, QueueOfBeat
<1>7. CASE UNCHANGED <<conn, cl, pubs, revision>>
  <2>1. Base' = Base /\ \A p \in Publishers : (Pushing(p)' <=> Pushing(p)) /\ pubs'[p].rev = pubs[p].rev
    BY <1>7 DEF Base, Pushing
  <2> QED BY <1>7, <2>1, QueueFrame
<1>8. CASE SubscribeEnqueues \/ CutEnqueues
  <2>1. UNCHANGED <<cl, pubs, revision>> /\ sub.pc # "none"
    BY <1>8 DEF SubscribeEnqueues, CutEnqueues
  <2>2. cl.pc = "subscribe" /\ conn.open /\ ~conn.subscribed /\ conn.low = <<>> /\ \A p \in Publishers : ~pubs[p].to
    BY <2>1 DEF Linked
  <2>3. CASE UNCHANGED conn
    BY <2>2, <2>3 DEF Pending, BeatsFollow
  <2>4. CASE EnqueueSync(revision)
    <3>1. conn'.high[1].rev = revision /\ conn'.low = <<>>
      BY <2>2, <2>4 DEF EnqueueSync, Types, Connection
    <3>2. Base' = revision
      BY <2>1, <2>2, <3>1 DEF Base
    <3> QED BY <2>1, <2>2, <3>1, <3>2, PendingFresh
  <2> QED BY <1>8, <2>3, <2>4 DEF SubscribeEnqueues, CutEnqueues
<1>9. CASE Dial \/ Disconnect
  <2>1. ~conn'.subscribed
    BY <1>9, SMT DEF Dial, Disconnect, NoConn
  <2> QED BY <2>1 DEF Pending, BeatsFollow
<1>10. CASE Synchronized
  <2>1. /\ cl.pc = "subscribe" /\ cl'.pc = "prepare" /\ cl'.seq = Head(conn.high).rev /\ UNCHANGED <<pubs, revision>>
        /\ conn'.low = conn.low /\ conn'.open = conn.open /\ conn'.subscribed = conn.subscribed /\ conn.high # <<>>
    BY <1>10 DEF Synchronized, Types, Supervisor, Connection
  <2>2. Head(conn.high) = conn.high[1]
    BY <2>1, TailFacts DEF Types, Connection
  <2>3. Base' = Base /\ \A p \in Publishers : (Pushing(p)' <=> Pushing(p)) /\ pubs'[p].rev = pubs[p].rev
    BY <2>1, <2>2 DEF Base, Pushing
  <2> QED BY <2>1, <2>3, QueueFrame
<1>11. CASE Prepare \/ Installed \/ TuiStep
  <2>1. /\ UNCHANGED <<conn, pubs, revision>> /\ cl'.seq = cl.seq /\ (cl'.pc = "subscribe" <=> cl.pc = "subscribe")
    BY <1>11 DEF Prepare, Installed, TuiStep, Types, Supervisor
  <2>2. Base' = Base /\ \A p \in Publishers : (Pushing(p)' <=> Pushing(p)) /\ pubs'[p].rev = pubs[p].rev
    BY <2>1 DEF Base, Pushing
  <2> QED BY <2>1, <2>2, QueueFrame
<1>12. CASE Apply \/ Skip
  BY <1>12, QueueOfRead
<1>13. Next => \/ \E p \in Publishers : \E kinds : Changes(p, kinds)
               \/ Down \/ StartDaemon \/ Disconnect \/ HeartbeatPush
               \/ \E p \in Publishers : Assign(p) \/ Push(p)
               \/ SubscribeEnqueues \/ CutEnqueues \/ Dial \/ Synchronized
               \/ Prepare \/ Installed \/ TuiStep \/ Apply \/ Skip
               \/ UNCHANGED <<conn, cl, pubs, revision>>
  BY PublisherFacts
     DEF Next, OpenTab, CloseTab, ShellExit, StopDaemon, Stopped, Crash, Publish, Subscribe, Supervise, GiveUp,
         SubscribeReads, SubscribeCaptures, CutLocks, CutCaptures, EndOfStream, Reconnect, Heartbeat
<1> QED BY <1>1, <1>2, <1>3, <1>4, <1>5, <1>6, <1>7, <1>8, <1>9, <1>10, <1>11, <1>12, <1>13 DEF vars

=============================================================================

---------------------------- MODULE ActivityView ----------------------------
(***************************************************************************)
(* The activity view of a window: the ring of its own messages and their   *)
(* delivery to the daemon's journal (tui_activity_messages, tui_render),   *)
(* the pages of the history and their loads (tui_activity, activity_page), *)
(* and what opens from a row (tui_activity_terminal).                      *)
(*                                                                         *)
(* A row is a number: a message, or one of the two rows of an operation.   *)
(* A call to the daemon is "live" while its serial is the current one of   *)
(* its kind; a serial that moves on leaves the call stale.                 *)
(***************************************************************************)
EXTENDS Naturals, Sequences, FiniteSets, SequencesExt

CONSTANTS RingCap,      \* tuiMessageLogDefaultCap
          ViewBudgets   \* what may happen in a history; "sizes" are the rows a page may hold, its
                        \* limit or fewer when they are large, "kinds" what native events are about

VARIABLES feed,     \* the daemon: its journal, its operation, its rows newest first
          app,      \* the window
          asked,    \* the calls on their way
          news,     \* native events on their way
          avLeft
avVars == <<feed, app, asked, news, avLeft>>

Nothing == 0
OpDone == 100    \* the row of the operation, running or finished
OpAsked == 101   \* "requested"
Messages(rows) == SelectSeq(rows, LAMBDA r : r < OpDone)

AvLeft(f) == avLeft[f] > 0 /\ avLeft' = [avLeft EXCEPT ![f] = @ - 1]
NoPage == [for |-> Nothing, hist |-> <<>>, next |-> Nothing, running |-> FALSE, epoch |-> 0, through |-> 0, lost |-> FALSE]
NoAck == [epoch |-> 0, seq |-> 0]
Call(kind, key) == [kind |-> kind, key |-> key, live |-> TRUE, at |-> "sent", page |-> NoPage, ack |-> NoAck]
Cut(calls, kind) == {IF c.kind = kind THEN [c EXCEPT !.live = FALSE] ELSE c : c \in calls}

-----------------------------------------------------------------------------
\* The daemon.
OperationRuns(f) == f.op \in {"running", "canceling"}

\* The rows after the cursor; the last row kept is the next cursor unless it ends the history.
buildActivityPage(rows, running, before, size) ==
    LET lost  == before # Nothing /\ ~Contains(rows, before)
        start == IF before = Nothing \/ lost THEN 0 ELSE CHOOSE i \in DOMAIN rows : rows[i] = before
        end   == IF start + size > Len(rows) THEN Len(rows) ELSE start + size
    IN [NoPage EXCEPT !.for = before, !.running = running, !.lost = lost,
                      !.hist = IF lost THEN <<>> ELSE SubSeq(rows, start + 1, end),
                      !.next = IF ~lost /\ end > start /\ end < Len(rows) THEN rows[end] ELSE Nothing]

\* activity.list: without the journal the page has the operation's rows alone and no epoch.
Listed(before, size, journal) ==
    LET rows == IF journal THEN feed.rows ELSE SelectSeq(feed.rows, LAMBDA r : r >= OpDone)
        page == buildActivityPage(rows, OperationRuns(feed), before, size)
    IN IF journal THEN [page EXCEPT !.epoch = feed.epoch, !.through = feed.through] ELSE page

\* A row is dated when it is recorded; "made" is the clock, and a message's id the time it was made.
Dated(f, row) == [f EXCEPT !.rows = <<row>> \o @, !.time = (row :> f.made) @@ @, !.made = @ + 1]
Recorded(f, id, kind) == [Dated(f, id) EXCEPT !.through = @ + 1, !.seq = (id :> f.through + 1) @@ @,
                                              !.kind = (id :> kind) @@ @, !.kept = @ \cup {id}]

Answer(c, d) == asked' = (asked \ {c}) \cup {d}
Reaches(c) == c \in asked /\ c.at = "sent" /\ ~app.cutOff
ServeList(c) ==
    /\ Reaches(c) /\ c.kind = "load"
    /\ \E size \in avLeft.sizes, journal \in BOOLEAN :
          /\ IF journal THEN UNCHANGED avLeft ELSE AvLeft("journal")
          /\ Answer(c, [c EXCEPT !.at = "answered", !.page = Listed(c.key, size, journal)])
    /\ UNCHANGED <<feed, app, news>>
\* activity.append: the same id is recorded once.
ServeAppend(c) ==
    /\ Reaches(c) /\ c.kind = "deliver"
    /\ feed' = IF Contains(feed.rows, c.key) THEN feed ELSE Recorded(feed, c.key, "local")
    /\ Answer(c, [c EXCEPT !.at = "answered", !.ack = [epoch |-> feed'.epoch, seq |-> feed'.seq[c.key]]])
    /\ UNCHANGED <<app, news, avLeft>>
ServeOther(c) ==
    /\ Reaches(c) /\ c.kind \in {"attach", "raw", "cancel"}
    /\ feed' = IF c.kind = "cancel" /\ feed.op = "running" THEN [feed EXCEPT !.op = "canceling"] ELSE feed
    /\ Answer(c, [c EXCEPT !.at = "answered"]) /\ UNCHANGED <<app, news, avLeft>>
\* A call fails before the daemon saw it, or its reply is lost.
CallFails(c) ==
    /\ c \in asked /\ c.at # "failed"
    /\ IF app.cutOff THEN UNCHANGED avLeft ELSE AvLeft("fault")
    /\ Answer(c, [c EXCEPT !.at = "failed"]) /\ UNCHANGED <<feed, app, news>>

\* What the daemon records on its own: an event of a terminal or of a node, and its publication.
NativeAppends ==
    /\ AvLeft("native") /\ \E kind \in avLeft.kinds : feed' = Recorded(feed, feed.made, kind)
    /\ news' = IF app.cutOff THEN news ELSE Append(news, [epoch |-> feed'.epoch, seq |-> feed'.through])
    /\ UNCHANGED <<app, asked>>
OperationStarts == /\ feed.op = "none" /\ AvLeft("op") /\ feed' = [Dated(feed, OpAsked) EXCEPT !.op = "running"]
                   /\ UNCHANGED <<app, asked, news>>
OperationEnds == /\ OperationRuns(feed) /\ feed' = [Dated(feed, OpDone) EXCEPT !.op = "done"]
                 /\ UNCHANGED <<app, asked, news, avLeft>>
\* The oldest message leaves the journal.
Expires == /\ Messages(feed.rows) # <<>> /\ AvLeft("expire")
           /\ feed' = [feed EXCEPT !.rows = SelectSeq(@, LAMBDA r : r # Last(Messages(feed.rows)))]
           /\ UNCHANGED <<app, asked, news>>
\* Another process opens the journal: its epoch is new, it counts on from the last record it finds.
EpochChanges ==
    /\ AvLeft("epoch")
    /\ feed' = [feed EXCEPT !.epoch = @ + 1, !.through = IF Messages(feed.rows) = <<>> THEN 0 ELSE feed.seq[Messages(feed.rows)[1]]]
    /\ app' = [app EXCEPT !.cutOff = TRUE] /\ news' = <<>> /\ UNCHANGED asked
Disconnects == /\ ~app.cutOff /\ AvLeft("drop") /\ app' = [app EXCEPT !.cutOff = TRUE] /\ news' = <<>>
               /\ UNCHANGED <<feed, asked>>
Reconnects == /\ app.cutOff /\ app' = [app EXCEPT !.cutOff = FALSE] /\ UNCHANGED <<feed, asked, news, avLeft>>

-----------------------------------------------------------------------------
\* The window.  An operator on the window and its calls, w = [a |-> app, c |-> asked], is one function.
Win == [a |-> app, c |-> asked]
Becomes(w) == app' = w.a /\ asked' = w.c

\* The oldest message not yet acknowledged is the one to send.
Pending(ring) == SelectSeq(ring, LAMBDA e : e.ack = NoAck)
startActivityMessageDelivery(w) ==
    LET p == Pending(w.a.ring)
    IN IF w.a.sending \/ w.a.retry \/ w.a.cutOff \/ p = <<>> THEN w
       ELSE [a |-> [w.a EXCEPT !.sending = TRUE], c |-> Cut(w.c, "deliver") \cup {Call("deliver", p[1].id)}]

Evicted(ring) == IF Len(ring) > RingCap THEN Tail(ring) ELSE ring
pushMessage(w, id) == startActivityMessageDelivery([w EXCEPT !.a.ring = Evicted(Append(@, [id |-> id, ack |-> NoAck]))])
\* A message takes a fresh id.
Says(w) == /\ Becomes(pushMessage(w, feed.made)) /\ feed' = [feed EXCEPT !.made = @ + 1]

startActivityLoad(w) ==
    IF w.a.cutOff \/ w.a.loading THEN w
    ELSE [a |-> [w.a EXCEPT !.loading = TRUE], c |-> Cut(w.c, "load") \cup {Call("load", w.a.before)}]

\* The rows drawn, by date: the page's, and on the newest page the window's messages it does not yet cover.
Covered(e, a) == e.ack # NoAck /\ a.loaded /\ a.page.epoch # 0 /\ (e.ack.epoch # a.page.epoch \/ e.ack.seq <= a.page.through)
Overlay(a) == IF a.before # Nothing THEN <<>>
              ELSE SelectSeq(a.ring, LAMBDA e : ~Contains(a.page.hist, e.id) /\ ~Covered(e, a))
Loud(r) == r < OpDone /\ r \in DOMAIN feed.kind /\ feed.kind[r] # "local"
activityRows(a) ==
    LET local == [i \in DOMAIN Overlay(a) |-> [id |-> Overlay(a)[i].id,
                     at |-> IF Overlay(a)[i].ack = NoAck THEN Overlay(a)[i].id ELSE feed.time[Overlay(a)[i].id]]]
        paged == [i \in DOMAIN a.page.hist |-> [id |-> a.page.hist[i], at |-> feed.time[a.page.hist[i]]]]
        dated == SortSeq(paged \o local, LAMBDA x, y : x.at > y.at)
        all   == [i \in DOMAIN dated |-> dated[i].id]
    IN IF a.quiet THEN SelectSeq(all, Loud) ELSE all
Shown(a) == (IF a.page.running THEN <<OpDone>> ELSE <<>>) \o activityRows(a)

reconcileActivitySelection(w) ==
    IF Contains(Shown(w.a), w.a.selected) THEN w
    ELSE [w EXCEPT !.a.selected = IF activityRows(w.a) # <<>> THEN activityRows(w.a)[1]
                                  ELSE IF w.a.page.running THEN OpDone ELSE Nothing]

cancelActivityAttachment(w) ==
    [a |-> IF w.a.attaching THEN [w.a EXCEPT !.attaching = FALSE, !.raw = FALSE] ELSE w.a, c |-> Cut(w.c, "attach")]

-----------------------------------------------------------------------------
\* Events of the loop.
\* Something happens that the window reports.
setStatus == AvLeft("status") /\ Says(Win) /\ UNCHANGED news

\* A call past its deadline whose completion has not come is given up by the next tick.
Tick ==
    /\ UNCHANGED avLeft
    /\ Becomes(startActivityLoad(startActivityMessageDelivery(Win))) /\ UNCHANGED <<feed, news>>
LoadOverdue == /\ app.loading /\ AvLeft("slow")
               /\ Becomes(startActivityLoad([a |-> [app EXCEPT !.loading = FALSE], c |-> Cut(asked, "load")])) /\ UNCHANGED <<feed, news>>
DeliveryOverdue == /\ app.sending /\ AvLeft("slow")
                   /\ Becomes(startActivityMessageDelivery([a |-> [app EXCEPT !.sending = FALSE], c |-> Cut(asked, "deliver")]))
                   /\ UNCHANGED <<feed, news>>
RetryPasses == app.retry /\ app' = [app EXCEPT !.retry = FALSE] /\ UNCHANGED <<feed, asked, news, avLeft>>

Completes(c, kind) == c \in asked /\ c.kind = kind /\ c.at # "sent"
Rest(c) == [Win EXCEPT !.c = @ \ {c}]
applyActivityMessage(c) ==
    /\ Completes(c, "deliver")
    /\ Becomes(IF ~c.live THEN Rest(c)
               ELSE IF c.at = "failed" THEN [Rest(c) EXCEPT !.a.sending = FALSE, !.a.retry = TRUE]
               ELSE startActivityMessageDelivery([Rest(c) EXCEPT
                        !.a.sending = FALSE, !.a.retry = FALSE,
                        !.a.ring = [i \in DOMAIN @ |-> IF @[i].id = c.key THEN [@[i] EXCEPT !.ack = c.ack] ELSE @[i]]]))
    /\ UNCHANGED <<feed, news, avLeft>>

PageInstalled(w, c) == IF c.at = "failed" THEN [w EXCEPT !.a.loading = FALSE, !.a.loaded = TRUE]
                   ELSE reconcileActivitySelection([w EXCEPT !.a.loading = FALSE, !.a.loaded = TRUE, !.a.page = c.page])
applyActivityData_AnySerial(c) ==
    /\ Completes(c, "load") /\ Becomes(IF c.key = app.before THEN PageInstalled(Rest(c), c) ELSE Rest(c))
    /\ UNCHANGED <<feed, news, avLeft>>
applyActivityData(c) ==
    /\ Completes(c, "load") /\ Becomes(IF c.live /\ c.key = app.before THEN PageInstalled(Rest(c), c) ELSE Rest(c))
    /\ UNCHANGED <<feed, news, avLeft>>

\* An event of the journal is taken once and in order, and asks for a load.
applyNativeActivity ==
    /\ news # <<>> /\ news' = Tail(news) /\ UNCHANGED <<feed, avLeft>>
    /\ LET e == Head(news)
       IN Becomes(IF app.native.epoch = e.epoch /\ e.seq <= app.native.seq THEN Win
                  ELSE startActivityLoad([Win EXCEPT !.a.native = e]))
NewsLost == news # <<>> /\ AvLeft("lose") /\ news' = Tail(news) /\ UNCHANGED <<feed, app, asked>>

CanTurn(direction) == CASE direction = "older" -> app.page.next # Nothing
                        [] direction = "newer" -> app.previous # <<>> [] OTHER -> TRUE
Cursor(direction) == CASE direction = "older" -> app.page.next [] direction = "newer" -> Last(app.previous) [] OTHER -> Nothing
Trail(direction) == CASE direction = "older" -> Append(app.previous, app.before)
                      [] direction = "newer" -> Front(app.previous) [] OTHER -> <<>>
changeActivityPage(direction) ==
    /\ app.view = "activity" /\ AvLeft("page") /\ CanTurn(direction)
    /\ Becomes(startActivityLoad([a |-> [app EXCEPT !.previous = Trail(direction), !.before = Cursor(direction),
                                                    !.loading = FALSE, !.loaded = FALSE, !.selected = Nothing,
                                                    !.page = [@ EXCEPT !.hist = <<>>, !.next = Nothing]],
                                  c |-> Cut(asked, "load")]))
    /\ UNCHANGED <<feed, news>>

moveActivitySelection(delta) ==
    /\ app.view = "activity" /\ AvLeft("move") /\ Shown(app) # <<>>
    /\ LET rows  == Shown(app)
           index == IF Contains(rows, app.selected) THEN SelectInSeq(rows, LAMBDA r : r = app.selected) ELSE 0
           to    == IF delta = "up" THEN IF index <= 1 THEN 1 ELSE index - 1 ELSE IF index >= Len(rows) THEN Len(rows) ELSE index + 1
       IN app' = [app EXCEPT !.selected = rows[to]]
    /\ UNCHANGED <<feed, asked, news>>
\* The level filter, and likewise the query.
activityLevel == /\ app.view = "activity" /\ AvLeft("filter")
                 /\ Becomes(reconcileActivitySelection([Win EXCEPT !.a.quiet = ~@])) /\ UNCHANGED <<feed, news>>

\* A switch to the view loads it; another view leaves that to the ticks.
switchView ==
    /\ AvLeft("nav") /\ UNCHANGED <<feed, news>>
    /\ LET w == [cancelActivityAttachment(Win) EXCEPT !.a.jump = Nothing]
       IN \/ Becomes(startActivityLoad([w EXCEPT !.a.view = "activity"]))
          \/ Becomes([w EXCEPT !.a.view = "nodes"])
openNodeDetail(w) == [cancelActivityAttachment(w) EXCEPT !.a.view = "nodes"]

\* Enter on a row: a terminal is attached, a node that is not in view is looked up.
startActivityTerminal(row) ==
    IF app.cutOff THEN Says(Win)
    ELSE /\ LET w == cancelActivityAttachment(Win)
            IN Becomes(IF w.a.raw THEN w
                       ELSE [a |-> [w.a EXCEPT !.attaching = TRUE, !.raw = TRUE], c |-> w.c \cup {Call("attach", row)}])
         /\ UNCHANGED feed
openActivityNode ==
    /\ app.view = "activity" /\ AvLeft("open") /\ UNCHANGED news
    /\ Contains(Shown(app), app.selected) /\ app.selected \in DOMAIN feed.kind
    /\ \/ feed.kind[app.selected] = "terminal" /\ startActivityTerminal(app.selected)
       \/ feed.kind[app.selected] = "node" /\ UNCHANGED feed
          /\ \/ Becomes(openNodeDetail(Win))
             \/ Becomes([Win EXCEPT !.a.jump = app.selected])
\* The refresh asked for the jump ends: it failed, found the node, or found it gone.
finishActivityNodeJump ==
    /\ app.jump # Nothing /\ UNCHANGED <<news, avLeft>>
    /\ LET done == [Win EXCEPT !.a.jump = Nothing]
       IN \/ Becomes(done) /\ UNCHANGED feed
          \/ app.view = "activity" /\ Says(done)
          \/ app.view = "activity" /\ Becomes(openNodeDetail(done)) /\ UNCHANGED feed
activityBack == /\ app.view = "activity" /\ app.attaching /\ AvLeft("nav")
                /\ Becomes(cancelActivityAttachment(Win)) /\ UNCHANGED <<feed, news>>
finishActivityTerminal(c) ==
    /\ Completes(c, "attach") /\ UNCHANGED <<news, avLeft>>
    /\ LET done   == cancelActivityAttachment(Rest(c))
           wanted == app.view = "activity" /\ app.selected = c.key
       IN \/ ~(c.live /\ app.attaching) /\ Becomes(Rest(c)) /\ UNCHANGED feed
          \/ c.live /\ app.attaching /\ ~wanted /\ Becomes(done) /\ UNCHANGED feed
          \/ c.live /\ app.attaching /\ wanted /\ c.at = "answered" /\ Becomes([done EXCEPT !.a.opened = c.key]) /\ UNCHANGED feed
          \/ c.live /\ app.attaching /\ wanted /\ Says(done)

\* A shell opened from elsewhere shares the one slot.
startRawShell == /\ AvLeft("raw") /\ ~app.raw /\ UNCHANGED news
                 /\ Says([Win EXCEPT !.a.raw = TRUE, !.c = @ \cup {Call("raw", Nothing)}])
finishRawShell(c) ==
    /\ Completes(c, "raw") /\ UNCHANGED <<news, avLeft>>
    /\ \/ c.at = "answered" /\ Becomes([Rest(c) EXCEPT !.a.raw = FALSE]) /\ UNCHANGED feed
       \/ Says([Rest(c) EXCEPT !.a.raw = FALSE])

requestOperationCancel ==
    /\ app.view = "activity" /\ AvLeft("cancel") /\ app.page.running /\ app.selected = OpDone /\ ~app.canceling
    /\ Becomes([Win EXCEPT !.a.canceling = TRUE, !.c = @ \cup {Call("cancel", OpDone)}]) /\ UNCHANGED <<feed, news>>
finishActivityCancel(c) ==
    /\ Completes(c, "cancel") /\ UNCHANGED <<news, avLeft>>
    /\ Says(startActivityLoad([Rest(c) EXCEPT !.a.canceling = FALSE]))

-----------------------------------------------------------------------------
NewFeed == [epoch |-> 1, rows |-> <<>>, seq |-> <<>>, kind |-> <<>>, time |-> <<>>, through |-> 0, op |-> "none",
            made |-> 1, kept |-> {}]
NewApp == [ring |-> <<>>, sending |-> FALSE, retry |-> FALSE, cutOff |-> FALSE, view |-> "activity",
           before |-> Nothing, previous |-> <<>>, loaded |-> FALSE, loading |-> FALSE, page |-> NoPage, quiet |-> FALSE,
           selected |-> Nothing, canceling |-> FALSE, attaching |-> FALSE, raw |-> FALSE, opened |-> Nothing,
           jump |-> Nothing, native |-> [epoch |-> 0, seq |-> 0]]
AvInit == avLeft \in ViewBudgets /\ asked = {} /\ news = <<>> /\ feed = NewFeed /\ app = NewApp

ServeLists == \E c \in asked : ServeList(c)
ServeAppends == \E c \in asked : ServeAppend(c)
ServeOthers == \E c \in asked : ServeOther(c)
DataEvents == \E c \in asked : applyActivityData(c)
MessageEvents == \E c \in asked : applyActivityMessage(c)
OtherEvents == \E c \in asked : finishActivityTerminal(c) \/ finishRawShell(c) \/ finishActivityCancel(c)
AvNext ==
    \/ NativeAppends \/ OperationStarts \/ OperationEnds \/ Expires \/ EpochChanges \/ Disconnects \/ Reconnects
    \/ ServeLists \/ ServeAppends \/ ServeOthers \/ DataEvents \/ MessageEvents \/ OtherEvents \/ \E c \in asked : CallFails(c)
    \/ setStatus \/ Tick \/ LoadOverdue \/ DeliveryOverdue \/ RetryPasses \/ applyNativeActivity \/ NewsLost
    \/ \E d \in {"older", "newer", "first"} : changeActivityPage(d)
    \/ \E d \in {"up", "down"} : moveActivitySelection(d)
    \/ activityLevel \/ switchView \/ openActivityNode \/ finishActivityNodeJump \/ activityBack
    \/ startRawShell \/ requestOperationCancel

\* The loop ticks and takes its completions, the daemon answers or the call's context ends, the supervisor reconnects.
AvFairness == /\ WF_avVars(Tick) /\ WF_avVars(RetryPasses) /\ WF_avVars(Reconnects)
              /\ WF_avVars(DataEvents) /\ WF_avVars(MessageEvents) /\ WF_avVars(ServeLists) /\ WF_avVars(ServeAppends)
AvSpec == AvInit /\ [][AvNext]_avVars /\ AvFairness

-----------------------------------------------------------------------------
Rows == Nat
Pages == [for : Rows, hist : Seq(Rows), next : Rows, running : BOOLEAN, epoch : Nat, through : Nat, lost : BOOLEAN]
Acks == [epoch : Nat, seq : Nat]

\* The ring keeps at most tuiMessageLogDefaultCap messages, each acknowledged or not, a page at most
\* its limit of rows, and the view and its calls are of the kinds the window knows.
AvTypeOK ==
    /\ Len(app.ring) <= RingCap /\ \A i \in DOMAIN app.ring : app.ring[i].id \in Rows /\ app.ring[i].ack \in Acks
    /\ app.page \in Pages /\ \E size \in avLeft.sizes : Len(app.page.hist) <= size
    /\ app.view \in {"activity", "nodes"} /\ {app.before, app.selected, app.opened, app.jump} \subseteq Rows
    /\ \A c \in asked : c.kind \in {"load", "deliver", "attach", "raw", "cancel"} /\ c.at \in {"sent", "answered", "failed"}
    /\ feed.op \in {"none", "running", "canceling", "done"} /\ DOMAIN feed.seq = feed.kept

\* On the newest page every message of this window that the journal never held is drawn, and no row is
\* drawn twice, whatever replies were lost: a message that is recorded and still waits for its
\* acknowledgement is the page's row, not a second one (activityRows).
MessagesShownOnce ==
    LET rows == activityRows([app EXCEPT !.quiet = FALSE])
    IN /\ IsInjective(rows)
       /\ app.before = Nothing => \A i \in DOMAIN app.ring : app.ring[i].id \in feed.kept \/ Contains(rows, app.ring[i].id)

\* The rows drawn are those after the cursor the user moved to: a reply for a page that was left
\* never takes its place (applyActivityData, changeActivityPage).
PageIsAsked == app.page.hist # <<>> => app.page.for = app.before

\* Going to older pages never meets a row again: the cursors visited descend through the history,
\* from its newest end (buildActivityPage, changeActivityPage).
PagesDescend ==
    LET trail == Append(app.previous, app.before)
        place(r) == CHOOSE i \in DOMAIN feed.rows : feed.rows[i] = r
    IN /\ trail[1] = Nothing
       /\ \A i, j \in 2..Len(trail) :
             i < j => /\ trail[i] # trail[j]
                      /\ (Contains(feed.rows, trail[i]) /\ Contains(feed.rows, trail[j])) => place(trail[i]) < place(trail[j])

\* rawShellPending is set exactly while one shell, attached from a row or opened elsewhere, is on its
\* way, and an operation is marked as being cancelled exactly while one request is: a navigation that
\* revokes an attachment never leaves the window unable to open a shell (cancelActivityAttachment).
PendingIsReal ==
    LET open == {c \in asked : c.kind = "raw" \/ (c.kind = "attach" /\ c.live)}
    IN /\ app.raw <=> open # {}
       /\ Cardinality(open) <= 1
       /\ app.canceling <=> (\E c \in asked : c.kind = "cancel")

\* A session is attached only from the row the user still has selected in the activity view
\* (finishActivityTerminal).
AttachesSelected == app'.opened # app.opened => /\ app.view = "activity" /\ app'.opened = app.selected

\* A page read from the journal is never replaced by one read earlier: the epoch and, within an
\* epoch, the sequence it reaches only grow (startActivityLoad, applyActivityData).
PageNeverGoesBack ==
       app.page.epoch # 0 /\ app'.page.epoch # 0 =>
         \/ app'.page.epoch > app.page.epoch
         \/ app'.page.epoch = app.page.epoch /\ app'.page.through >= app.page.through

\* Every message the ring still holds is acknowledged again and again, in spite of lost replies,
\* failed writes, reconnections and late completions (startActivityMessageDelivery, applyActivityMessage).
MessagesDelivered == []<>(\A i \in DOMAIN app.ring : app.ring[i].ack # NoAck)

\* The view comes to show what the daemon has: its epoch, the last sequence, whether an operation runs
\* and the rows after its cursor (startActivityLoad).
ViewCatchesUp ==
    []<>(/\ app.page.epoch = feed.epoch /\ app.page.through = feed.through /\ app.page.running = OperationRuns(feed)
         /\ app.page.lost = (app.before # Nothing /\ ~Contains(feed.rows, app.before))
         /\ \E size \in avLeft.sizes : app.page.hist = buildActivityPage(feed.rows, FALSE, app.before, size).hist)
=============================================================================

------------------------------ MODULE MCEvents ------------------------------
(***************************************************************************)
(* What reaches a window, for TLC: the stream of terminal events           *)
(* (EventStream), the daemon's activity history (Activity), the view a     *)
(* window has of that history (ActivityView) and its views of the system   *)
(* and the ports (SystemView).  They share no state, so a history          *)
(* exercises one of them and finds the others at rest.                     *)
(***************************************************************************)
EXTENDS EventStream, Activity, ActivityView, SystemView

VARIABLE part  \* the component this history exercises

\* What may happen in a history of the journal: bells, a renderer that recovers, routes and
\* capacity that change, requests, expiry, failed writes, an update and its failure, a close.
NoAct == [bell |-> 0, reset |-> 0, route |-> 0, over |-> 0, client |-> 0, expire |-> 0, fault |-> 0,
          update |-> 0, fail |-> 0, close |-> 0, request |-> 0]
ActHistories ==
    { [NoAct EXCEPT !.bell = 2, !.update = 1, !.fail = 1, !.reset = 1],
      [NoAct EXCEPT !.bell = 4, !.update = 1],
      [NoAct EXCEPT !.bell = 1, !.client = 2, !.expire = 1, !.fault = 1],
      [NoAct EXCEPT !.bell = 1, !.client = 1, !.update = 1, !.fail = 1],
      [NoAct EXCEPT !.client = 4, !.fault = 2],
      [NoAct EXCEPT !.route = 1, !.update = 1, !.fail = 1],
      [NoAct EXCEPT !.route = 2, !.update = 1],
      [NoAct EXCEPT !.route = 2, !.request = 1],
      [NoAct EXCEPT !.over = 2, !.bell = 2, !.close = 1, !.fault = 1] }
MCActBudgets == ActHistories \cup {NoAct}

\* What may happen around a window: messages of its own and of the daemon, an operation, expiry,
\* new epochs, lost connections, replies, events and completions, and what the user does.
NoLook == [native |-> 0, op |-> 0, expire |-> 0, epoch |-> 0, drop |-> 0, fault |-> 0, journal |-> 0, status |-> 0,
           slow |-> 0, lose |-> 0, page |-> 0, move |-> 0, filter |-> 0, nav |-> 0, open |-> 0, raw |-> 0, cancel |-> 0,
           sizes |-> {2}, kinds |-> {"node"}]
LookHistories ==
    { [NoLook EXCEPT !.status = 2, !.fault = 1, !.epoch = 1],
      [NoLook EXCEPT !.status = 3],
      [NoLook EXCEPT !.status = 2, !.slow = 1],
      [NoLook EXCEPT !.native = 3, !.page = 2, !.sizes = {1}],
      [NoLook EXCEPT !.native = 2, !.page = 2, !.expire = 1, !.sizes = {1}],
      [NoLook EXCEPT !.native = 1, !.slow = 1, !.page = 1],
      [NoLook EXCEPT !.native = 2, !.open = 2, !.kinds = {"terminal"}],
      [NoLook EXCEPT !.native = 1, !.open = 1, !.nav = 1, !.fault = 1, !.kinds = {"terminal"}],
      [NoLook EXCEPT !.native = 1, !.open = 1, !.raw = 1, !.kinds = {"terminal"}],
      [NoLook EXCEPT !.raw = 1, !.nav = 1],
      [NoLook EXCEPT !.native = 1, !.open = 1, !.drop = 1, !.kinds = {"terminal"}],
      [NoLook EXCEPT !.native = 1, !.open = 1, !.nav = 1],
      [NoLook EXCEPT !.op = 1, !.cancel = 2, !.move = 1, !.fault = 1],
      [NoLook EXCEPT !.native = 1, !.status = 1, !.filter = 2, !.journal = 1],
      [NoLook EXCEPT !.native = 2, !.lose = 1, !.drop = 1] }
MCViewBudgets == LookHistories \cup {NoLook}

\* What may happen around the system and ports views: keys, cuts, the end of the window, failed
\* calls, changes on the daemon's side, and the loads whose interval passes.
NoSystem == [moves |-> 0, searches |-> 0, pins |-> 0, check |-> 0, update |-> 0, restart |-> 0, log |-> 0,
             capture |-> 0, outputs |-> 0, views |-> 0, repairs |-> 0, cuts |-> 0, ends |-> 0, faults |-> 0,
             changes |-> 0, due |-> {}]
SystemHistories ==
    { [NoSystem EXCEPT !.views = 1, !.repairs = 2, !.changes = 1, !.faults = 1, !.due = {"check"}],
      [NoSystem EXCEPT !.views = 2, !.update = 1, !.restart = 1, !.due = {"overview"}],
      [NoSystem EXCEPT !.views = 1, !.restart = 1, !.check = 1, !.cuts = 1, !.faults = 1, !.due = {"overview"}],
      [NoSystem EXCEPT !.views = 1, !.log = 2, !.capture = 2, !.faults = 1],
      [NoSystem EXCEPT !.views = 1, !.pins = 2, !.changes = 1, !.faults = 1, !.due = {"ports"}],
      [NoSystem EXCEPT !.views = 1, !.pins = 1, !.changes = 1, !.cuts = 1, !.due = {"ports"}],
      [NoSystem EXCEPT !.views = 1, !.searches = 1, !.changes = 2, !.due = {"ports"}],
      [NoSystem EXCEPT !.views = 1, !.changes = 1, !.moves = 2, !.due = {"ports"}],
      [NoSystem EXCEPT !.outputs = 2, !.changes = 1, !.faults = 1],
      [NoSystem EXCEPT !.views = 1, !.capture = 1, !.update = 1, !.repairs = 1, !.ends = 1] }
MCSystemBudgets == SystemHistories \cup {NoSystem}

\* A stream as Init has it, except that some of what may happen is over: heartbeats, faults, and
\* all publications but those that "may" begin.
Stream(running, fallen, failed, may) ==
    /\ up = running /\ tabs = {} /\ revision = 0 /\ heart = Idle
    /\ pubs = [p \in Publishers |-> IF p \in may THEN Idle ELSE [Idle EXCEPT !.pc = "over"]]
    /\ sub = NoSub /\ conn = NoConn /\ cl = Offline
    /\ tuiq = <<>> /\ view = {} /\ ready = running /\ ticks = fallen /\ faults = failed
\* A heartbeat or a fault beside two changes, or both beside one.
Opened == <<CHOOSE t \in Tabs : TRUE, "open">>
StreamInit ==
    \/ \E may \in {{Opened, <<Opened[1], "close">>}, {Opened, Stop}} : Stream(TRUE, 0, MaxFaults, may)
    \/ \E may \in {Tabs \X {"open"}, {Opened, Stop}} : Stream(TRUE, MaxTicks, 0, may)
    \/ Stream(TRUE, 0, 0, {Opened})
\* No daemon runs, and a window without one shows what it last read.
NoStream == Stream(FALSE, 0, 0, {})
NoWindow == /\ avLeft = NoLook /\ asked = {} /\ news = <<>>
            /\ feed = NewFeed /\ app = [NewApp EXCEPT !.page.epoch = NewFeed.epoch]

EventsInit ==
    /\ part \in {"stream", "journal", "view", "system"}
    /\ IF part = "stream" THEN StreamInit ELSE NoStream
    /\ ActInit /\ SvInit
    /\ IF part = "view" THEN AvInit ELSE NoWindow
    /\ part = "journal" <=> actLeft # NoAct
    /\ part = "view" <=> avLeft # NoLook
    /\ part = "system" <=> svLeft # NoSystem

eventsVars == <<part, vars, actVars, avVars, svVars>>
EventsNext ==
    /\ \/ part = "stream" /\ Next /\ UNCHANGED <<actVars, avVars, svVars>>
       \/ part = "journal" /\ ActNext /\ UNCHANGED <<vars, avVars, svVars>>
       \/ part = "view" /\ AvNext /\ UNCHANGED <<vars, actVars, svVars>>
       \/ part = "system" /\ SvNext /\ UNCHANGED <<vars, actVars, avVars>>
    /\ UNCHANGED part

\* The fairness of each component, in the histories that exercise it.
StreamWorks ==
    /\ \A p \in Publishers : WF_vars(part = "stream" /\ Assign(p)) /\ WF_vars(part = "stream" /\ Push(p))
    /\ WF_vars(part = "stream" /\ HeartbeatPush) /\ WF_vars(part = "stream" /\ Subscribe)
    /\ WF_vars(part = "stream" /\ Supervise) /\ WF_vars(part = "stream" /\ TuiStep) /\ WF_vars(part = "stream" /\ Stopped)
JournalWorks ==
    /\ WF_actVars(part = "journal" /\ UpdateWork)
    /\ \A p \in ViewSources : WF_actVars(part = "journal" /\ observeForwarding(p))
    /\ \A s \in SidesOf : /\ WF_actVars(part = "journal" /\ newActivityJournal(s)) /\ WF_actVars(part = "journal" /\ flush(s))
                         /\ WF_actVars(part = "journal" /\ observe(s)) /\ WF_actVars(part = "journal" /\ observeCapacity(s))
                         /\ WF_actVars(part = "journal" /\ publishActivity("loop", s))
ViewWorks ==
    /\ WF_avVars(part = "view" /\ Tick) /\ WF_avVars(part = "view" /\ RetryPasses) /\ WF_avVars(part = "view" /\ Reconnects)
    /\ WF_avVars(part = "view" /\ DataEvents) /\ WF_avVars(part = "view" /\ MessageEvents)
    /\ WF_avVars(part = "view" /\ ServeLists) /\ WF_avVars(part = "view" /\ ServeAppends)

SystemWorks ==
    /\ \A k \in Kinds : /\ WF_svVars(part = "system" /\ \E c \in Doing(k) : ApplyAnswer(c))
                        /\ WF_svVars(part = "system" /\ \E c \in Doing(k) : ServeCall(c))
    /\ WF_svVars(part = "system" /\ metricsTick) /\ WF_svVars(part = "system" /\ daemonSynchronized)

EventsSpec == /\ EventsInit /\ [][EventsNext]_eventsVars
              /\ StreamWorks /\ JournalWorks /\ ViewWorks /\ SystemWorks

\* The activity history and the window's view of it are honest: sequences are unique and bounded, each
\* bell and message is there once, what was left out is admitted, pages are the ones asked for, and
\* nothing is shown as pending that is not.
ActivityIsHonest ==
    /\ ActTypeOK /\ SequencesUnique /\ JournalBounded /\ EachBellOnce /\ OmissionsAdmitted /\ HistoryIsCurrent
    /\ AvTypeOK /\ MessagesShownOnce /\ PageIsAsked /\ PagesDescend /\ PendingIsReal

\* A view never goes back to an older page, attaches only what is selected, and keeps its selection on
\* a row it lists.
ViewsKeepTheirPlace == [][AttachesSelected /\ PageNeverGoesBack /\ SelectionIsListed]_eventsVars

\* A window catches up with its daemon whatever is lost on the way: the stream, the journal, the routes
\* in it, the activity view and its messages, the system views, and the repair that was asked for.
WindowsCatchUp ==
    /\ CatchesUp /\ PendingPersists /\ RoutesCatchUp /\ ViewCatchesUp /\ MessagesDelivered
    /\ RepairsHappen /\ SystemCatchesUp
=============================================================================

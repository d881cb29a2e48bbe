----------------------------- MODULE SystemView -----------------------------
(***************************************************************************)
(* The system and ports views of a window: doctor checks and repairs       *)
(* (tui_doctor), the daemon's overview (tui_system_daemon), its restart,   *)
(* update, log and diagnostic capture (tui_daemon_controls), the routes    *)
(* and their pins (tui_ports), an operation's output (tui_operation_output)*)
(* and the tick, navigation and link events that start and cancel them.    *)
(*                                                                         *)
(* What is read is a version number of the daemon's side, except the       *)
(* routes, which are a set. A call is "live" while its generation is the   *)
(* current one of its worker; the answer of any other is ignored.          *)
(***************************************************************************)
EXTENDS Naturals, FiniteSets

CONSTANTS Routes,         \* identities of port routes, numbers: a list is in their order
          SystemBudgets   \* what may happen in a history; "due" are the loads whose interval elapses in it

VARIABLES host,     \* the daemon's side: versions of its state, health and operation; its routes and pins
          win,      \* the window
          work,     \* its calls on their way
          svLeft
svVars == <<host, win, work, svLeft>>

NoRoute == 0
SvLeft(f) == svLeft[f] > 0 /\ svLeft' = [svLeft EXCEPT ![f] = @ - 1]
Reading == [routes |-> {}, version |-> 0]
Job(kind, key) == [kind |-> kind, key |-> key, route |-> NoRoute, live |-> TRUE, at |-> "sent", got |-> Reading]
\* A moved generation leaves the calls of its worker stale.
Drop(jobs, kind) == {IF c.kind = kind THEN [c EXCEPT !.live = FALSE] ELSE c : c \in jobs}
Doing(kind) == {c \in work : c.kind = kind}

NewSystem == [daemon |-> 0, health |-> 0, op |-> 0, pins |-> 0, routes |-> {}]
NewWindow == [view |-> "nodes", overlay |-> "none", linked |-> TRUE, ended |-> FALSE,
              check |-> [loading |-> FALSE, repairing |-> FALSE, queued |-> FALSE, report |-> 0],
              overview |-> [loading |-> FALSE, seen |-> 0],
              ports |-> [loading |-> FALSE, pinning |-> FALSE, rows |-> {}, pins |-> 0, selected |-> NoRoute,
                         query |-> Routes, searching |-> FALSE, beforeQuery |-> Routes, beforeSelected |-> NoRoute],
              lifecycle |-> "none", log |-> [loading |-> FALSE, seen |-> 0],
              capture |-> "none", output |-> [loading |-> FALSE, seen |-> 0],
              \* what is known to have happened: the versions confirmed to the user
              told |-> [daemon |-> 0, health |-> 0, pins |-> 0],
              owed |-> FALSE, captures |-> 0]

SvInit ==
    /\ host = NewSystem /\ win = NewWindow /\ work = {}
    /\ svLeft \in SystemBudgets

-----------------------------------------------------------------------------
\* The workers. Each takes the window and the calls and gives both back.
State(w, jobs) == [win |-> w, work |-> jobs]

\* One doctor worker; a repair asked during a check waits for it, during a repair it is that repair.
startDoctorCheck(s, repair, due) ==
    LET d == s.win.check IN
    IF d.loading THEN State([s.win EXCEPT !.check.queued = @ \/ (repair /\ ~d.repairing)], s.work)
    ELSE IF ~due THEN s
    ELSE State([s.win EXCEPT !.check.loading = TRUE, !.check.repairing = repair],
               s.work \cup {Job(IF repair THEN "repair" ELSE "check", "")})
cancelDoctorCheck(s) ==
    State([s.win EXCEPT !.check.loading = FALSE, !.check.queued = FALSE], Drop(Drop(s.work, "check"), "repair"))

cancelDaemonOverview(s) == State([s.win EXCEPT !.overview.loading = FALSE], Drop(s.work, "overview"))
startDaemonOverview(s, due) ==
    IF s.win.view # "system" THEN cancelDaemonOverview(s)
    ELSE IF ~s.win.linked \/ s.win.overview.loading \/ ~due THEN s
    ELSE State([s.win EXCEPT !.overview.loading = TRUE], s.work \cup {Job("overview", "")})

portsVisible(w) == w.view \in {"ports", "nodes"}
cancelPortsLoad(s) == State([s.win EXCEPT !.ports.loading = FALSE], Drop(s.work, "ports"))
startPortsLoad(s) ==
    IF ~portsVisible(s.win) THEN cancelPortsLoad(s)
    ELSE IF ~s.win.linked \/ s.win.ports.loading \/ s.win.ports.pinning THEN s
    ELSE State([s.win EXCEPT !.ports.loading = TRUE], s.work \cup {Job("ports", "")})

\* (v) load of the operation's output and of the daemon's log.
loadOutput(s) ==
    IF s.win.overlay # "output" \/ s.win.output.loading THEN s
    ELSE State([s.win EXCEPT !.output.loading = TRUE], s.work \cup {Job("output", "")})
loadLog(s) ==
    IF s.win.log.loading THEN s
    ELSE State([s.win EXCEPT !.log.loading = TRUE], s.work \cup {Job("log", "")})

Now == State(win, work)
Turns(s) == win' = s.win /\ work' = s.work
Alive == ~win.ended

-----------------------------------------------------------------------------
\* The routes shown, and the selection among them.
portRows(p) == p.rows \cap p.query
First(rows) == IF rows = {} THEN NoRoute ELSE CHOOSE r \in rows : \A o \in rows : r <= o
reconcilePortSelection(p) == IF p.selected \in portRows(p) THEN p ELSE [p EXCEPT !.selected = First(portRows(p))]

movePortSelection(down) ==
    LET p    == win.ports
        next == {r \in portRows(p) : IF down THEN r > p.selected ELSE r < p.selected}
        to   == IF next = {} THEN p.selected
                ELSE CHOOSE r \in next : \A o \in next : IF down THEN r <= o ELSE r >= o
    IN /\ Alive /\ win.view = "ports" /\ ~p.searching /\ portRows(p) # {} /\ p.selected \in portRows(p)
       /\ SvLeft("moves")
       /\ win' = [win EXCEPT !.ports.selected = to]
       /\ UNCHANGED <<host, work>>
\* A press selects the route drawn there, which a later answer may have taken off the list.
handlePortsMouse(r) ==
    /\ Alive /\ win.view = "ports" /\ SvLeft("moves")
    /\ win' = [win EXCEPT !.ports.selected = r]
    /\ UNCHANGED <<host, work>>

\* "ports.filter", then keys that change the query, then enter or escape.
openPortsSearch ==
    /\ Alive /\ win.view = "ports" /\ ~win.ports.searching /\ SvLeft("searches")
    /\ win' = [win EXCEPT !.ports.searching = TRUE, !.ports.beforeQuery = win.ports.query,
                          !.ports.beforeSelected = win.ports.selected]
    /\ UNCHANGED <<host, work>>
updatePortsInput(query) ==
    /\ Alive /\ win.view = "ports" /\ win.ports.searching
    /\ win' = [win EXCEPT !.ports = reconcilePortSelection([win.ports EXCEPT !.query = query])]
    /\ UNCHANGED <<host, work, svLeft>>
handlePortsSearchAction(cancel) ==
    LET p    == win.ports
        back == [p EXCEPT !.searching = FALSE, !.query = p.beforeQuery, !.selected = p.beforeSelected]
    IN /\ Alive /\ win.view = "ports" /\ p.searching
       /\ win' = [win EXCEPT !.ports = IF cancel THEN reconcilePortSelection(back)
                                       ELSE [p EXCEPT !.searching = FALSE]]
       /\ UNCHANGED <<host, work, svLeft>>

\* A pin first drops the load on its way, and no load starts until it has answered.
pinSelectedPort ==
    /\ Alive /\ win.view = "ports" /\ ~win.ports.searching
    /\ win.ports.selected \in portRows(win.ports) /\ ~win.ports.pinning /\ win.linked
    /\ SvLeft("pins")
    /\ LET s == cancelPortsLoad(Now) IN
       Turns(State([s.win EXCEPT !.ports.pinning = TRUE], s.work \cup {[Job("pin", "") EXCEPT !.route = win.ports.selected]}))
    /\ UNCHANGED host
\* "ports.refresh"
refreshPorts ==
    /\ Alive /\ win.view = "ports" /\ ~win.ports.searching
    /\ Turns(startPortsLoad(Now))
    /\ UNCHANGED <<host, svLeft>>

-----------------------------------------------------------------------------
\* Restart, update, log and capture.
startDaemonLifecycle(s, action) ==
    IF s.win.lifecycle # "none" THEN s
    ELSE State([s.win EXCEPT !.lifecycle = action], s.work \cup {Job("lifecycle", action)})

openDaemonLog(s) == loadLog(State([s.win EXCEPT !.overlay = "log"], s.work))
openDaemonCapture(s) ==
    IF s.win.capture = "loading" THEN State([s.win EXCEPT !.overlay = "capture"], s.work)
    ELSE State([s.win EXCEPT !.capture = "loading", !.overlay = "capture", !.captures = @ + 1],
               s.work \cup {Job("capture", "")})

runSystemDaemonAction(action) ==
    /\ Alive /\ win.view = "system" /\ win.overlay = "none" /\ SvLeft(action)
    /\ Turns(CASE action = "check" -> startDaemonOverview(Now, TRUE)
                 [] action = "update" -> startDaemonLifecycle(Now, "update")
                 [] action = "restart" -> IF win.lifecycle # "none" THEN Now
                                          ELSE State([win EXCEPT !.overlay = "restart"], work)
                 [] action = "log" -> openDaemonLog(Now)
                 [] action = "capture" -> openDaemonCapture(Now))
    /\ UNCHANGED host
SystemActions == {"check", "update", "restart", "log", "capture"}

\* The keys of an overlay: the restart dialog's submit, the log's reload, and close, which for an
\* operation's output also cancels its query.
confirmRestart ==
    /\ Alive /\ win.overlay = "restart"
    /\ Turns(startDaemonLifecycle(State([win EXCEPT !.overlay = "none"], work), "restart"))
    /\ UNCHANGED <<host, svLeft>>
reloadLog ==
    /\ Alive /\ win.overlay = "log" /\ SvLeft("log")
    /\ Turns(loadLog(Now))
    /\ UNCHANGED host
openOperationOutput ==
    /\ Alive /\ win.overlay = "none" /\ SvLeft("outputs")
    /\ Turns(loadOutput(State([win EXCEPT !.overlay = "output", !.output = [loading |-> FALSE, seen |-> 0]], work)))
    /\ UNCHANGED host
closeOverlay ==
    /\ Alive /\ win.overlay # "none"
    /\ Turns(State([win EXCEPT !.overlay = "none"], IF win.overlay = "output" THEN Drop(work, "output") ELSE work))
    /\ UNCHANGED <<host, svLeft>>

-----------------------------------------------------------------------------
\* What reaches the loop. A tick starts the loads whose interval has passed.
metricsTick ==
    LET due(load) == load \in svLeft.due
        ports     == IF due("ports") THEN startPortsLoad(Now) ELSE Now
    IN /\ Alive
       /\ Turns(loadOutput(startDoctorCheck(startDaemonOverview(ports, due("overview")), FALSE, due("check"))))
       /\ UNCHANGED <<host, svLeft>>

loadManagerData(s, repair) ==
    LET loads == startDaemonOverview(startPortsLoad(s), TRUE)
    IN IF s.win.view = "system" THEN startDoctorCheck(loads, repair, TRUE) ELSE loads
\* Another view, or the keys "system.refresh" and "system.repair".
changeView(view) ==
    /\ Alive /\ win.overlay = "none" /\ view # win.view /\ ~win.ports.searching /\ SvLeft("views")
    /\ Turns(loadManagerData(State([win EXCEPT !.view = view], work), FALSE))
    /\ UNCHANGED host
refreshSystem(repair) ==
    /\ Alive /\ win.view = "system" /\ win.overlay = "none" /\ SvLeft(IF repair THEN "repairs" ELSE "views")
    /\ Turns(loadManagerData(State([win EXCEPT !.owed = @ \/ (repair /\ ~win.check.repairing)], work), repair))
    /\ UNCHANGED host

daemonDisconnected ==
    /\ Alive /\ win.linked /\ SvLeft("cuts")
    /\ LET s == cancelDaemonOverview(cancelPortsLoad(Now)) IN Turns(State([s.win EXCEPT !.linked = FALSE], s.work))
    /\ UNCHANGED host
daemonSynchronized ==
    /\ Alive /\ ~win.linked
    /\ LET up == State([win EXCEPT !.linked = TRUE], work)
           ports == startPortsLoad(cancelPortsLoad(up))
       IN Turns(startDaemonOverview(cancelDaemonOverview(ports), TRUE))
    /\ UNCHANGED <<host, svLeft>>

\* The loop ends: the deferred cancels.
cancelDaemonWork(s) ==
    State([s.win EXCEPT !.lifecycle = "none", !.capture = "none", !.log.loading = FALSE],
          Drop(Drop(Drop(s.work, "lifecycle"), "capture"), "log"))
cancelPortsWork(s) == LET t == cancelPortsLoad(s) IN State(t.win, Drop(t.work, "pin"))
serveEnds ==
    /\ Alive /\ SvLeft("ends")
    /\ LET s == cancelDoctorCheck(cancelDaemonOverview(cancelPortsWork(cancelDaemonWork(Now))))
       IN Turns(State([s.win EXCEPT !.ended = TRUE, !.owed = FALSE, !.captures = 0], Drop(s.work, "output")))
    /\ UNCHANGED host

-----------------------------------------------------------------------------
\* The answers.
Answered(c) == c.at # "sent"
\* Of a stale call, nothing; of a live one, what its handler does.
Handles(c, s) == /\ Alive /\ Answered(c)
                 /\ Turns(IF c.live THEN State(s.win, s.work \ {c}) ELSE State(win, work \ {c}))
                 /\ UNCHANGED <<host, svLeft>>
Ok(c) == c.at = "served"

applyDoctorData(c) ==
    LET repair == c.kind = "repair"
        next   == [win EXCEPT !.check.loading = FALSE, !.check.repairing = FALSE, !.check.queued = FALSE,
                              !.check.report = IF Ok(c) THEN c.got.version ELSE @,
                              !.told.health = IF repair /\ Ok(c) THEN c.got.version ELSE @]
    IN Handles(c, IF win.check.queued THEN startDoctorCheck(State(next, work), TRUE, TRUE) ELSE State(next, work))

applyDaemonOverview(c) ==
    Handles(c, State([win EXCEPT !.overview.loading = FALSE,
                                 !.overview.seen = IF Ok(c) THEN c.got.version ELSE @], work))

\* An answer that finds the view gone is dropped whole: the next load clears "loading".
applyPortsData(c) ==
    LET p == [win.ports EXCEPT !.loading = FALSE]
        q == IF Ok(c) THEN reconcilePortSelection([p EXCEPT !.rows = c.got.routes, !.pins = c.got.version]) ELSE p
    IN Handles(c, State(IF portsVisible(win) THEN [win EXCEPT !.ports = q] ELSE win, work))
finishPortPin(c) ==
    LET next == [win EXCEPT !.ports.pinning = FALSE,
                            !.told.pins = IF Ok(c) THEN c.got.version ELSE @]
    IN Handles(c, startPortsLoad(State(next, work)))

\* A finished restart or update drops the overview on its way and asks for a new one.
applyDaemonLifecycle_Keeps(c) ==
    LET next == [win EXCEPT !.lifecycle = "none", !.told.daemon = IF Ok(c) THEN c.got.version ELSE @]
    IN Handles(c, startDaemonOverview(State(next, work), TRUE))
applyDaemonLifecycle(c) ==
    LET next == [win EXCEPT !.lifecycle = "none", !.told.daemon = IF Ok(c) THEN c.got.version ELSE @]
    IN Handles(c, startDaemonOverview(cancelDaemonOverview(State(next, work)), TRUE))

applyDaemonLog(c) ==
    Handles(c, State([win EXCEPT !.log.loading = FALSE, !.log.seen = IF Ok(c) THEN c.got.version ELSE @], work))
applyDaemonCapture(c) == Handles(c, State([win EXCEPT !.capture = "done", !.captures = @ - 1], work))
applyOperationOutput(c) ==
    Handles(c, State([win EXCEPT !.output.loading = FALSE, !.output.seen = IF Ok(c) THEN c.got.version ELSE @], work))

ApplyAnswer(c) == CASE c.kind \in {"check", "repair"} -> applyDoctorData(c)
              [] c.kind = "overview" -> applyDaemonOverview(c)
              [] c.kind = "ports" -> applyPortsData(c)
              [] c.kind = "pin" -> finishPortPin(c)
              [] c.kind = "lifecycle" -> applyDaemonLifecycle(c)
              [] c.kind = "log" -> applyDaemonLog(c)
              [] c.kind = "capture" -> applyDaemonCapture(c)
              [] c.kind = "output" -> applyOperationOutput(c)

-----------------------------------------------------------------------------
\* The daemon's side.
Replies(c, d) == work' = (work \ {c}) \cup {d}
Read(c) == CASE c.kind \in {"check", "repair"} -> [Reading EXCEPT !.version = host.health]
             [] c.kind \in {"overview", "log", "capture"} -> [Reading EXCEPT !.version = host.daemon]
             [] c.kind = "output" -> [Reading EXCEPT !.version = host.op]
             [] OTHER -> [routes |-> host.routes, version |-> host.pins]
\* A read answers with what there is; a repair re-checks after it.
ServeRead(c) ==
    /\ c.kind \notin {"pin", "lifecycle"} /\ c.at = (IF c.kind = "repair" THEN "repaired" ELSE "sent")
    /\ Replies(c, [c EXCEPT !.at = "served", !.got = Read(c)])
    /\ UNCHANGED <<host, win, svLeft>>
RunRepair(c) ==
    /\ c.kind = "repair" /\ c.at = "sent"
    /\ host' = [host EXCEPT !.health = @ + 1]
    /\ win' = [win EXCEPT !.owed = FALSE]
    /\ Replies(c, [c EXCEPT !.at = "repaired"])
    /\ UNCHANGED svLeft
ServePin(c) ==
    /\ c.kind = "pin" /\ c.at = "sent"
    /\ host' = IF c.route \in host.routes THEN [host EXCEPT !.pins = @ + 1] ELSE host
    /\ Replies(c, [c EXCEPT !.at = IF c.route \in host.routes THEN "served" ELSE "failed",
                            !.got.version = host'.pins])
    /\ UNCHANGED <<win, svLeft>>
RunLifecycle(c) ==
    /\ c.kind = "lifecycle" /\ c.at = "sent"
    /\ host' = [host EXCEPT !.daemon = @ + 1]
    /\ Replies(c, [c EXCEPT !.at = "served", !.got.version = host.daemon + 1])
    /\ UNCHANGED <<win, svLeft>>
\* A deadline, an error or a lost reply, with or without the effect.
Fail(c) ==
    /\ c.at # "failed" /\ SvLeft("faults")
    /\ Replies(c, [c EXCEPT !.at = "failed", !.got = Reading])
    /\ win' = [win EXCEPT !.owed = @ /\ c.kind # "repair"]
    /\ UNCHANGED host
HostChanges ==
    /\ SvLeft("changes")
    /\ \/ host' = [host EXCEPT !.daemon = @ + 1]
       \/ host' = [host EXCEPT !.health = @ + 1]
       \/ host' = [host EXCEPT !.op = @ + 1]
       \/ \E routes \in SUBSET Routes : host' = [host EXCEPT !.routes = routes]
    /\ UNCHANGED <<win, work>>

-----------------------------------------------------------------------------
UserActs ==
    \/ \E down \in BOOLEAN : movePortSelection(down)
    \/ \E r \in Routes : handlePortsMouse(r)
    \/ openPortsSearch
    \/ \E query \in SUBSET Routes : updatePortsInput(query)
    \/ \E cancel \in BOOLEAN : handlePortsSearchAction(cancel)
    \/ pinSelectedPort \/ refreshPorts
    \/ \E action \in SystemActions : runSystemDaemonAction(action)
    \/ confirmRestart \/ reloadLog \/ openOperationOutput \/ closeOverlay
    \/ \E view \in {"nodes", "ports", "system"} : changeView(view)
    \/ \E repair \in BOOLEAN : refreshSystem(repair)
    \/ serveEnds
ServeCall(c) == ServeRead(c) \/ RunRepair(c) \/ ServePin(c) \/ RunLifecycle(c)
Serve == \E c \in work : ServeCall(c)
SvNext ==
    \/ UserActs \/ Serve \/ HostChanges \/ daemonDisconnected \/ daemonSynchronized
    \/ metricsTick
    \/ \E c \in work : ApplyAnswer(c) \/ Fail(c)

Kinds == {"check", "repair", "overview", "ports", "pin", "lifecycle", "log", "capture", "output"}
\* Every call has a deadline and every answer is posted to the loop, which keeps its ticks; a
\* reconnecting client is synchronized in the end.
SvFairness ==
    /\ \A k \in Kinds : /\ WF_svVars(\E c \in Doing(k) : ApplyAnswer(c))
                        /\ WF_svVars(\E c \in Doing(k) : ServeCall(c))
    /\ WF_svVars(metricsTick) /\ WF_svVars(daemonSynchronized)
SvSpec == SvInit /\ [][SvNext]_svVars /\ SvFairness

-----------------------------------------------------------------------------
\* Every value the window and its calls take; a load that is not under way has no live call.
SvTypeOK ==
    /\ host.daemon \in Nat /\ host.health \in Nat /\ host.op \in Nat /\ host.pins \in Nat
    /\ host.routes \subseteq Routes
    /\ win.view \in {"nodes", "ports", "system"}
    /\ win.overlay \in {"none", "restart", "log", "capture", "output"}
    /\ win.ports.rows \subseteq Routes /\ win.ports.selected \in Routes \cup {NoRoute}
    /\ win.lifecycle \in {"none", "update", "restart"} /\ win.capture \in {"none", "loading", "done"}
    /\ \A c \in work : c.kind \in Kinds /\ c.at \in {"sent", "repaired", "served", "failed"}
    /\ \A c \in work : c.live => CASE c.kind = "overview" -> win.overview.loading
                                   [] c.kind = "ports" -> win.ports.loading
                                   [] c.kind = "pin" -> win.ports.pinning
                                   [] c.kind = "log" -> win.log.loading
                                   [] OTHER -> TRUE

\* At most one restart or update and one pin are under way, whatever the keys, ticks and dialogs in
\* between (startDaemonLifecycle, pinSelectedPort).
OneChange ==
    /\ Cardinality({c \in work : c.live /\ c.kind = "lifecycle"}) <= 1
    /\ Cardinality({c \in work : c.live /\ c.kind = "pin"}) <= 1

\* A capture closed and reopened is the same one, and its result is reported: each capture begun
\* and not yet reported has a call whose answer will be applied (openDaemonCapture).
CaptureReported == win.captures = Cardinality({c \in work : c.live /\ c.kind = "capture"})

\* The answers on their way that will be shown.
ToShow(kinds) == {c \in work : c.live /\ c.at = "served" /\ c.kind \in kinds}

\* Once a restart or update is reported complete, no overview read before it is shown: the one on
\* its way is dropped (applyDaemonLifecycle).
OverviewFollowsRestart == \A c \in ToShow({"overview"}) : c.got.version >= win.told.daemon

\* Once a pin is reported, no list of routes read before it is shown: the load on its way is
\* dropped, and none starts while the pin is (pinSelectedPort, startPortsLoad).
RoutesFollowPin == \A c \in ToShow({"ports"}) : c.got.version >= win.told.pins

\* Once a repair is reported, no report of a check made before it is shown (applyDoctorData).
ReportFollowsRepair == \A c \in ToShow({"check", "repair"}) : c.got.version >= win.told.health

\* Whatever changes the list, an answer, a query, or a search given up after the routes moved,
\* leaves the selection on a listed route, or on none when the list is empty (reconcilePortSelection).
SelectionIsListed ==
       portRows(win'.ports) # portRows(win.ports) =>
           win'.ports.selected \in portRows(win'.ports) \cup (IF portRows(win'.ports) = {} THEN {NoRoute} ELSE {})

\* A repair asked for while none is under way is run, also when a check was (queuedRepair).
RepairsHappen == []<>~win.owed

\* What is on screen catches up with the daemon's side, through failed loads, cuts and restarts.
SystemCatchesUp ==
    []<>(\/ win.ended
         \/ /\ "overview" \in svLeft.due /\ win.view = "system" => win.overview.seen = host.daemon
            /\ "ports" \in svLeft.due /\ portsVisible(win) => win.ports.rows = host.routes /\ win.ports.pins = host.pins
            /\ "check" \in svLeft.due => win.check.report = host.health
            /\ win.overlay = "output" => win.output.seen = host.op)

\* What the system and ports views show follows the changes made from them, and no change is lost
\* or made twice.
AnswersFollowChanges ==
    /\ SvTypeOK /\ OneChange /\ CaptureReported
    /\ OverviewFollowsRestart /\ RoutesFollowPin /\ ReportFollowsRepair

=============================================================================

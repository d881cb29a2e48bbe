------------------------------- MODULE Window -------------------------------
(***************************************************************************)
(* The event loop of one TUI window and everything it starts in the        *)
(* background: the node list reload with its generation and deadline       *)
(* (tui_app.go), live usage samples racing it, lifecycle operations        *)
(* (tui_operations.go), the loaders of a node's views (logs, spec,         *)
(* metrics, lifecycle, activity), the attachment queued for a startup      *)
(* (tui_lifecycle.go) and the tabs a terminal.open reply, a push or a      *)
(* synchronization installs (tui_sessions.go).                             *)
(*                                                                         *)
(* Every handler of the loop is one step.  A background load reads the     *)
(* daemon at one moment and its completion is handled at a later one, in   *)
(* any order; completions go through the blocking sink and are not lost.   *)
(* A generation or serial number is kept as whether a load still carries   *)
(* the current one.  The clock is an event: a deadline has passed or not.  *)
(* What a loader fetched is kept as whose node it belongs to; a terminal   *)
(* tab is named by its node, each of which is given one tab at most.       *)
(***************************************************************************)
EXTENDS Integers, Sequences, FiniteSets, SequencesExt

CONSTANTS WinNodes,
          Nothing,       \* no node
          Scoped,        \* the nodes of the directory the window was opened in
          MaxOps,        \* operations the daemon admits
          WinBudgets     \* how often each thing happens in a history

ASSUME WinAssumption == /\ Nothing \notin WinNodes /\ Scoped \subseteq WinNodes /\ MaxOps \in Nat
                        /\ WinBudgets \subseteq [shown : BOOLEAN, born : Nat, deleted : Nat, fail : Nat, stall : Nat, scope : Nat,
                                                 usage : Nat, epoch : Nat, op : Nat, other : Nat, nav : Nat,
                                                 queue : Nat, open : Nat, exit : Nat, sync : Nat,
                                                 nodes : SUBSET WinNodes, ready : SUBSET WinNodes,
                                                 follows : SUBSET {"logs", "spec", "metrics", "life", "act"}]

VARIABLES daemon,     \* the truth: nodes, samples, operations, tabs
          fleet,      \* the node list shown, and which node is selected
          refresh,    \* the reload in flight
          ops,        \* the operations this window tracks, and their completions
          page, views,\* the page shown and the loaders behind it
          queued,     \* the attachment queued for a startup
          attached,   \* the operation whose queued attachment was started last
          tabs,       \* the tabs shown, and what is on its way about them
          left

winVars == <<daemon, fleet, refresh, ops, page, views, queued, attached, tabs, left>>

NoOp == [id |-> 0, kind |-> "start", state |-> "none", node |-> Nothing]
NoSample == [at |-> 0, epoch |-> 0]
NoQueue == [node |-> Nothing, op |-> 0]
Loaders == {"logs", "spec", "metrics", "life"}
Unread == [node |-> Nothing, op |-> NoOp, running |-> {}, err |-> FALSE]
Empty(n) == [node |-> n, inFlight |-> FALSE, late |-> FALSE, gen |-> TRUE, loaded |-> FALSE, shows |-> Unread]
Spend(f) == left[f] > 0 /\ left' = [left EXCEPT ![f] = @ - 1]

Alive(n) == daemon.node[n] \in {"stopped", "ready"}
Active(op) == op.state \in {"running", "canceling"}

-----------------------------------------------------------------------------
\* The node list.  A load carries whether its generation is the current one.
Load(scope, prefer) == [cur |-> TRUE, scope |-> scope, prefer |-> prefer, read |-> FALSE, err |-> FALSE, rev |-> 0,
                        nodes |-> {}, ready |-> {}, usage |-> [n \in WinNodes |-> NoSample]]

(* A load that names a selection always starts; another one only when none *)
(* is in flight for this scope within its deadline.                        *)
startDataRefresh(r, scope, prefer) ==
    IF prefer = Nothing /\ r.inFlight /\ r.scope = scope /\ ~r.late THEN r
    ELSE [r EXCEPT !.inFlight = TRUE, !.late = FALSE, !.scope = scope,
                   !.loads = {[l EXCEPT !.cur = FALSE] : l \in @} \cup {Load(scope, prefer)}]

\* A running node carries the epoch of the samples even when it has none itself.
listedUsage(n) == IF daemon.sample[n].at = 0 THEN [at |-> 0, epoch |-> daemon.epoch] ELSE daemon.sample[n]

\* node.list as the daemon serves it, with the usage it holds at that moment.
loadTUIRefresh ==
    \E l \in {l \in refresh.loads : ~l.read} :
      \E failed \in BOOLEAN :
        LET shown == {n \in WinNodes : Alive(n) /\ (l.scope => n \in Scoped)}
            answer == IF failed THEN [l EXCEPT !.read = TRUE, !.err = TRUE]
                      ELSE [l EXCEPT !.read = TRUE, !.rev = daemon.rev, !.nodes = shown,
                                     !.ready = {n \in shown : daemon.node[n] = "ready"},
                                     !.usage = [n \in WinNodes |-> IF n \in shown /\ daemon.node[n] = "ready"
                                                                   THEN listedUsage(n) ELSE NoSample]]
        IN /\ IF failed THEN Spend("fail") ELSE UNCHANGED left
           /\ refresh' = [refresh EXCEPT !.loads = (@ \ {l}) \cup {answer}]
           /\ UNCHANGED <<daemon, fleet, ops, page, views, queued, attached, tabs>>

Stall == /\ Spend("stall")
         /\ \/ refresh.inFlight /\ ~refresh.late /\ refresh' = [refresh EXCEPT !.late = TRUE] /\ UNCHANGED views
            \/ \E v \in Loaders \cup {"act"} :
                 /\ views.at[v].inFlight /\ ~views.at[v].late
                 /\ views' = [views EXCEPT !.at[v].late = TRUE] /\ UNCHANGED refresh
         /\ UNCHANGED <<daemon, fleet, ops, page, queued, attached, tabs>>

-----------------------------------------------------------------------------
(* The loaders of a node's views.  A reply carries whether its serial and  *)
(* its navigation generation are still the current ones.  The loaders do   *)
(* not touch one another, and a history follows some of them.              *)
Reply(v, n) == [view |-> v, node |-> n, cur |-> TRUE, gen |-> TRUE, read |-> FALSE, data |-> Unread]
Visible(v, p) == CASE v = "logs" -> p = "logs" [] v = "metrics" -> p = "metrics" [] OTHER -> p # "fleet"

Revoke(vs, v) == [vs EXCEPT !.replies = {IF r.view = v THEN [r EXCEPT !.cur = FALSE] ELSE r : r \in @}]

\* cancelMetricsLoad keeps the serial; the other loaders advance it.
cancelLoad(vs, v) == LET off == [vs EXCEPT !.at[v].inFlight = FALSE]
                     IN IF v = "metrics" THEN off ELSE Revoke(off, v)

\* A deadline lets lifecycle and metrics loads be replaced, a navigation metrics loads.
Replaceable(l, v) == \/ v \in {"life", "metrics"} /\ l.late
                     \/ v = "metrics" /\ ~l.gen

\* A view that turns to another node starts empty.
Owned(vs, v, n) ==
    IF vs.at[v].node = n THEN vs ELSE [cancelLoad(vs, v) EXCEPT !.at[v] = Empty(n)]

startLoad(vs, v, p, n) ==
    IF ~Visible(v, p) THEN cancelLoad(vs, v)
    ELSE IF n = Nothing \/ v \notin left.follows THEN vs
    ELSE LET own == Owned(vs, v, n)
         IN IF own.at[v].inFlight /\ ~Replaceable(own.at[v], v) THEN own
            ELSE LET off == Revoke(own, v)
                 IN [off EXCEPT !.at[v].inFlight = TRUE, !.at[v].late = FALSE, !.at[v].gen = TRUE,
                                !.replies = @ \cup {Reply(v, n)}]

startActivityLoad(vs) ==
    LET timely == IF vs.at["act"].inFlight /\ vs.at["act"].late
                  THEN Revoke([vs EXCEPT !.at["act"].inFlight = FALSE], "act") ELSE vs
    IN IF timely.at["act"].inFlight \/ "act" \notin left.follows THEN timely
       ELSE [Revoke(timely, "act") EXCEPT !.at["act"].inFlight = TRUE, !.at["act"].late = FALSE,
                                          !.replies = @ \cup {Reply("act", Nothing)}]

cancelHidden(vs, p) ==
    FoldLeft(LAMBDA acc, v : IF Visible(v, p) THEN acc ELSE cancelLoad(acc, v), vs, <<"metrics", "logs", "spec", "life">>)

\* A navigation: hidden loads are cancelled, the generation advances, the page's loads start.
loadManagerData(vs, p, n) ==
    LET hidden == cancelHidden(vs, p)
        next == [hidden EXCEPT !.replies = {[r EXCEPT !.gen = FALSE] : r \in @}, !.at["metrics"].gen = FALSE]
        spec == startLoad(cancelLoad(next, "spec"), "spec", p, n)
        life == startActivityLoad(startLoad(cancelLoad(spec, "life"), "life", p, n))
    IN IF p = "logs" THEN startLoad(cancelLoad(life, "logs"), "logs", p, n)
       ELSE IF p = "metrics" THEN startLoad(life, "metrics", p, n) ELSE life

\* Leaving the node, or a load that finds another one selected, drops the queued attachment.
QueueAfter(q, p, n) == IF q.op # 0 /\ (p = "fleet" \/ q.node # n) THEN NoQueue ELSE q

ReadView(v) ==
    \E r \in {r \in views.replies : ~r.read /\ r.view = v} :
      \E failed \in BOOLEAN :
        /\ IF failed THEN Spend("fail") ELSE UNCHANGED left
        /\ views' = [views EXCEPT !.replies = (@ \ {r}) \cup
                        {[r EXCEPT !.read = TRUE,
                                   !.data = [node |-> r.node, err |-> failed,
                                             op |-> IF r.view = "life" /\ ~failed THEN daemon.op[r.node] ELSE NoOp,
                                             running |-> IF r.view = "act" /\ ~failed
                                                         THEN {daemon.op[n] : n \in {m \in WinNodes : Active(daemon.op[m])}}
                                                         ELSE {}]]}]
        /\ UNCHANGED <<daemon, fleet, refresh, ops, page, queued, attached, tabs>>

OfQueue(op, q) == op.id = q.op

(* finishQueuedLifecycleAttach: the outcome of the queued attachment given *)
(* the loaders and the list: kept, dropped or started.                     *)
QueueOutcome(vs, f, p, q) ==
    LET life == vs.at["life"]
        op == life.shows.op
        others == {o \in vs.at["act"].shows.running : o.node = q.node /\ o.id # q.op}
    IN CASE q.op = 0 -> "kept"
         [] p = "fleet" \/ q.node # f.selected -> "dropped"
         [] ~life.loaded \/ life.shows.err -> "kept"
         [] ~OfQueue(op, q) -> "dropped"
         [] op.state \in {"failed", "canceled", "canceling"} -> "dropped"
         [] op.state = "succeeded" /\ q.node \in f.ready /\ others # {} -> "dropped"
         [] op.state = "succeeded" /\ q.node \in f.ready -> "started"
         [] OTHER -> "kept"

finishQueuedLifecycleAttach(vs, f, q) ==
    LET outcome == QueueOutcome(vs, f, page, q)
    IN /\ queued' = IF outcome = "kept" THEN q ELSE NoQueue
       /\ attached' = IF outcome = "started" THEN q.op ELSE attached

applyView(v) ==
    \E r \in {r \in views.replies : r.read /\ r.view = v} :
      LET landed == [views EXCEPT !.replies = @ \ {r}]
          idle == [landed EXCEPT !.at[v].inFlight = FALSE]
          mine == CASE v = "act" -> TRUE
                    [] v \in {"spec", "life"} -> r.node = views.at[v].node /\ r.node = fleet.selected
                    [] OTHER -> r.node = views.at[v].node
          data == IF r.data.err THEN [views.at[v].shows EXCEPT !.err = TRUE] ELSE r.data
          done == IF ~r.cur THEN landed
                  ELSE IF v # "act" /\ (~Visible(v, page) \/ ~r.gen) THEN idle
                  ELSE IF mine THEN [idle EXCEPT !.at[v].loaded = TRUE, !.at[v].shows = data]
                  ELSE idle
      IN /\ views' = done
         /\ IF v = "life" /\ r.cur /\ r.gen /\ mine /\ Visible(v, page)
            THEN finishQueuedLifecycleAttach(done, fleet, queued)
            ELSE UNCHANGED <<queued, attached>>
         /\ UNCHANGED <<daemon, fleet, refresh, ops, page, tabs, left>>

\* tuiMetricsTickEvent: every second, each loader is given the chance to start.
metricsTick ==
    /\ views' = FoldLeft(LAMBDA acc, v : startLoad(acc, v, page, fleet.selected), startActivityLoad(views),
                         <<"metrics", "logs", "spec", "life">>)
    /\ queued' = IF page # "fleet" /\ fleet.selected # Nothing /\ views.at["life"].node # fleet.selected THEN NoQueue
                 ELSE QueueAfter(queued, page, IF page = "fleet" THEN fleet.selected ELSE queued.node)
    /\ UNCHANGED <<daemon, fleet, refresh, ops, page, attached, tabs, left>>

\* The user opens a page of a node, or goes back to the list.
Navigate(p, n) ==
    /\ Spend("nav") /\ n \in fleet.nodes
    /\ p = "fleet" => n = fleet.selected
    /\ page' = p
    /\ fleet' = [fleet EXCEPT !.selected = n]
    /\ views' = loadManagerData(views, p, n)
    /\ queued' = IF p # "fleet" /\ views.at["life"].node # n THEN NoQueue ELSE QueueAfter(queued, p, n)
    /\ UNCHANGED <<daemon, refresh, ops, attached, tabs>>

(* "node.shell" on a node that is starting: the attachment is bound to the *)
(* startup the window knows of; an older lifecycle reply is revoked.       *)
activeStartOperation ==
    LET life == views.at["life"]
        seen == {o \in views.at["act"].shows.running : o.node = fleet.selected /\ o.kind = "start"}
        known == life.node = fleet.selected /\ life.shows.op.kind = "start" /\ Active(life.shows.op)
    IN {o \in seen : o.id # life.shows.op.id} \cup {life.shows.op : o \in {x \in seen : x.id = life.shows.op.id /\ known}}
       \cup (IF seen = {} /\ known THEN {life.shows.op} ELSE {})

QueueAttach ==
    \E op \in activeStartOperation :
      /\ Spend("queue") /\ page # "fleet" /\ op.state = "running"
      /\ queued' = [node |-> op.node, op |-> op.id]
      /\ views' = IF views.at["life"].shows.op.id = op.id THEN views
                  ELSE startLoad([cancelLoad(views, "life") EXCEPT !.at["life"].loaded = FALSE], "life", page, fleet.selected)
      /\ UNCHANGED <<daemon, fleet, refresh, ops, page, attached, tabs>>

\* Back, with an attachment queued, only drops the queue; the startup goes on.
DropQueue ==
    /\ queued.op # 0 /\ page # "fleet" /\ Spend("nav")
    /\ queued' = NoQueue
    /\ UNCHANGED <<daemon, fleet, refresh, ops, page, views, attached, tabs>>

-----------------------------------------------------------------------------
(* Operations.  The completion is stored in the operation before its event *)
(* is posted, so that a reload tick can apply it first.                    *)
Latch(n, id) == [node |-> n, id |-> id, done |-> FALSE, err |-> FALSE, selected |-> fleet.selected]
conflictingOperation(n) == \E i \in DOMAIN ops.tracked : ops.tracked[i].node = n /\ ~ops.tracked[i].done

resultSelectionKey(o) == IF fleet.selected # Nothing /\ fleet.selected # o.selected THEN fleet.selected ELSE o.node

finishOperation_Twice(st, o) ==
    [tracked |-> SelectSeq(st.tracked, LAMBDA x : x.id # o.id),
     applied |-> [st.applied EXCEPT ![o.id] = @ + 1],
     refresh |-> IF o.err THEN st.refresh ELSE startDataRefresh(st.refresh, fleet.scope, resultSelectionKey(o))]

\* Untracks the operation, then applies its result: one reload, with a selection.
finishOperation(st, o) ==
    IF \A i \in DOMAIN st.tracked : st.tracked[i].id # o.id THEN st
    ELSE [tracked |-> SelectSeq(st.tracked, LAMBDA x : x.id # o.id),
          applied |-> [st.applied EXCEPT ![o.id] = @ + 1],
          refresh |-> IF o.err THEN st.refresh ELSE startDataRefresh(st.refresh, fleet.scope, resultSelectionKey(o))]

Loop == [tracked |-> ops.tracked, applied |-> ops.applied, refresh |-> refresh]
reapCompletedOperations == FoldLeft(finishOperation, Loop, SelectSeq(ops.tracked, LAMBDA o : o.done))

StartOperation(n, kind) ==
    /\ n \in fleet.nodes /\ ~conflictingOperation(n) /\ daemon.next <= MaxOps
    /\ IF kind = "start" THEN n \notin fleet.ready ELSE n \in fleet.ready
    /\ Spend("op")
    /\ LET id == daemon.next
           admitted == Alive(n) /\ ~Active(daemon.op[n])
       IN /\ daemon' = [daemon EXCEPT !.next = @ + 1,
                           !.op[n] = IF admitted THEN [id |-> id, kind |-> kind, state |-> "running", node |-> n] ELSE @]
          /\ ops' = [ops EXCEPT !.tracked = Append(@, [Latch(n, id) EXCEPT !.done = ~admitted, !.err = ~admitted]),
                                !.events = IF admitted THEN @
                                           ELSE @ \cup {[Latch(n, id) EXCEPT !.done = TRUE, !.err = TRUE]}]
    /\ UNCHANGED <<fleet, refresh, page, views, queued, attached, tabs>>

operationComplete ==
    \E o \in ops.events :
      LET st == finishOperation(Loop, o)
      IN /\ ops' = [tracked |-> st.tracked, applied |-> st.applied, events |-> ops.events \ {o}]
         /\ refresh' = st.refresh
         /\ UNCHANGED <<daemon, fleet, page, views, queued, attached, tabs, left>>

refreshTick_OnPush(pushed) ==
    LET st == reapCompletedOperations
    IN /\ pushed => refresh.timer
       /\ ops' = [ops EXCEPT !.tracked = st.tracked, !.applied = st.applied]
       /\ refresh' = IF pushed THEN [startDataRefresh(st.refresh, fleet.scope, Nothing) EXCEPT !.timer = FALSE]
                     ELSE st.refresh
       /\ views' = IF pushed THEN startActivityLoad(views) ELSE views
       /\ UNCHANGED <<daemon, fleet, page, queued, attached, tabs, left>>

\* tuiRefreshTickEvent and the debounced tuiNodesChangedEvent, which also reloads the activity.
refreshTick(pushed) ==
    LET st == reapCompletedOperations
    IN /\ pushed => refresh.timer
       /\ ops' = [ops EXCEPT !.tracked = st.tracked, !.applied = st.applied]
       /\ refresh' = [startDataRefresh(st.refresh, fleet.scope, Nothing) EXCEPT !.timer = @ /\ ~pushed]
       /\ views' = IF pushed THEN startActivityLoad(views) ELSE views
       /\ UNCHANGED <<daemon, fleet, page, queued, attached, tabs, left>>

-----------------------------------------------------------------------------
(* A pushed sample is merged only into a node the list holds, and only if  *)
(* it is not older than the newest one known of the same epoch.            *)
applyNodeUsage(f, n, sample) ==
    IF n \notin f.nodes \/ (sample.epoch = f.usage[n].epoch /\ sample.at < f.usage[n].at) THEN f
    ELSE [f EXCEPT !.usage[n] = sample]

\* A reload that carries older numbers than the last push does not regress them.
reconcileNodeUsage(f, l) ==
    [n \in WinNodes |->
       IF n \notin l.nodes THEN NoSample
       ELSE IF /\ n \in f.nodes /\ l.usage[n].at < f.usage[n].at
               /\ l.usage[n].epoch = f.usage[n].epoch \/ l.usage[n].at # 0
            THEN f.usage[n] ELSE l.usage[n]]

\* A target is gone only when the store confirms that its node is.
targetKeyStillExists(l, n) == n \in l.nodes \/ Alive(n)

replaceNodes(l, keep) ==
    IF keep \in l.nodes THEN {keep} ELSE IF l.nodes = {} THEN {Nothing} ELSE l.nodes

Applies_Late(l) == ~l.err

Applies(l) == l.cur /\ ~l.err

finishDataRefresh ==
    \E l \in {l \in refresh.loads : l.read} :
      LET rest == [refresh EXCEPT !.loads = @ \ {l}]
          keep == IF l.prefer # Nothing THEN l.prefer ELSE fleet.selected
          emptied == fleet.nodes # {} /\ l.nodes = {} /\ page = "fleet"
      IN /\ refresh' = IF l.cur THEN [rest EXCEPT !.inFlight = FALSE] ELSE rest
         /\ IF Applies(l)
            THEN \E selected \in replaceNodes(l, keep) :
                   LET shown == [fleet EXCEPT !.nodes = l.nodes, !.ready = l.ready, !.rev = l.rev, !.of = l.scope,
                                              !.usage = reconcileNodeUsage(fleet, l), !.selected = selected]
                   IN /\ fleet' = shown
                      /\ tabs' = [tabs EXCEPT !.view = {n \in @ : targetKeyStillExists(l, n)}]
                      /\ views' = IF emptied THEN loadManagerData(views, page, Nothing) ELSE views
                      /\ finishQueuedLifecycleAttach(views', shown, queued)
            ELSE UNCHANGED <<fleet, tabs, views, queued, attached>>
         /\ UNCHANGED <<daemon, ops, page, left>>

\* "scope.toggle"
ToggleScope ==
    /\ Spend("scope")
    /\ fleet' = [fleet EXCEPT !.scope = ~@]
    /\ refresh' = startDataRefresh(refresh, ~fleet.scope, Nothing)
    /\ UNCHANGED <<daemon, ops, page, views, queued, attached, tabs>>

-----------------------------------------------------------------------------
(* Tabs.  The reply to terminal.open and the pushed events come over two   *)
(* connections.                                                            *)
startDaemonTabOpen(n) ==
    /\ n \in fleet.ready /\ n \notin tabs.asked /\ Spend("open")
    /\ tabs' = [tabs EXCEPT !.asked = @ \cup {n}]
    /\ UNCHANGED <<daemon, fleet, refresh, ops, page, views, queued, attached>>

\* handleDaemonTerminalOpened: the reply installs the tab.
applyOpenedDaemonTab ==
    \E n \in tabs.opened :
      /\ tabs' = [tabs EXCEPT !.opened = @ \ {n}, !.view = @ \cup {n}]
      /\ UNCHANGED <<daemon, fleet, refresh, ops, page, views, queued, attached, left>>

handleDaemonEvent ==
    /\ tabs.stream # <<>>
    /\ LET e == Head(tabs.stream)
           taken == [tabs EXCEPT !.stream = Tail(@)]
       IN /\ tabs' = CASE e.kind = "created" -> [taken EXCEPT !.view = @ \cup {e.node}]
                        [] e.kind = "closed" -> [taken EXCEPT !.view = @ \ {e.node}]
                        [] OTHER -> taken
          /\ fleet' = IF e.kind = "usage" THEN applyNodeUsage(fleet, e.node, e.sample) ELSE fleet
    /\ UNCHANGED <<daemon, refresh, ops, page, views, queued, attached, left>>

\* A reconnect loses what was on its way and installs the daemon's own list.
replaceDaemonSessions ==
    /\ Spend("sync")
    /\ tabs' = [tabs EXCEPT !.stream = <<>>, !.view = daemon.tab]
    /\ UNCHANGED <<daemon, fleet, refresh, ops, page, views, queued, attached>>

-----------------------------------------------------------------------------
(* The daemon and the other clients, as this window meets them.  A change  *)
(* of a node arms the debounce timer, unless its push is lost.             *)
Event(kind, n, sample) == [kind |-> kind, node |-> n, sample |-> sample]
Changed(d) == /\ daemon' = [d EXCEPT !.rev = @ + 1]
              /\ \E push \in {refresh.timer, TRUE} : refresh' = [refresh EXCEPT !.timer = push]

Born(n) == /\ daemon.node[n] = "absent" /\ Spend("born")
           /\ Changed([daemon EXCEPT !.node[n] = "stopped"])
           /\ UNCHANGED <<fleet, ops, page, views, queued, attached, tabs>>

Delete(n) ==
    /\ Alive(n) /\ ~Active(daemon.op[n]) /\ Spend("deleted")
    /\ Changed([daemon EXCEPT !.node[n] = "deleted", !.tab = @ \ {n}])
    /\ tabs' = IF n \in daemon.tab THEN [tabs EXCEPT !.stream = Append(@, Event("closed", n, NoSample))] ELSE tabs
    /\ UNCHANGED <<fleet, ops, page, views, queued, attached>>

\* Another client's operation, or its cancellation.
OtherOperation(n, kind) ==
    /\ Alive(n) /\ ~Active(daemon.op[n]) /\ daemon.next <= MaxOps /\ Spend("other")
    /\ kind = "start" <=> daemon.node[n] = "stopped"
    /\ daemon' = [daemon EXCEPT !.next = @ + 1, !.op[n] = [id |-> daemon.next, kind |-> kind, state |-> "running", node |-> n]]
    /\ UNCHANGED <<fleet, refresh, ops, page, views, queued, attached, tabs>>

CancelOperation(n) ==
    /\ daemon.op[n].state = "running" /\ Spend("other")
    /\ daemon' = [daemon EXCEPT !.op[n].state = "canceling"]
    /\ UNCHANGED <<fleet, refresh, ops, page, views, queued, attached, tabs>>

\* An operation ends; a window that tracks it stores the completion and posts its event.
OperationEnds(n) ==
    LET op == daemon.op[n]
    IN /\ Active(op)
       /\ \E state \in IF op.state = "canceling" THEN {"canceled"} ELSE {"succeeded", "failed"} :
            LET ok == state = "succeeded"
                mine == {i \in DOMAIN ops.tracked : ops.tracked[i].id = op.id}
                Ended(o) == [o EXCEPT !.done = TRUE, !.err = ~ok]
            IN /\ Changed([daemon EXCEPT !.op[n].state = state,
                                         !.succeeded = IF ok THEN @ \cup {op.id} ELSE @,
                                         !.node[n] = IF ~ok THEN @ ELSE IF op.kind = "start" THEN "ready" ELSE "stopped"])
               /\ ops' = [ops EXCEPT !.tracked = [i \in DOMAIN @ |-> IF i \in mine THEN Ended(@[i]) ELSE @[i]],
                                     !.events = @ \cup {Ended(ops.tracked[i]) : i \in mine}]
       /\ UNCHANGED <<fleet, page, views, queued, attached, tabs, left>>

OpenTerminal(n) ==
    /\ n \in tabs.asked /\ daemon.node[n] = "ready"
    /\ daemon' = [daemon EXCEPT !.tab = @ \cup {n}]
    /\ tabs' = [tabs EXCEPT !.asked = @ \ {n}, !.opened = @ \cup {n}, !.stream = Append(@, Event("created", n, NoSample))]
    /\ UNCHANGED <<fleet, refresh, ops, page, views, queued, attached, left>>

ShellExit(n) ==
    /\ n \in daemon.tab /\ Spend("exit")
    /\ daemon' = [daemon EXCEPT !.tab = @ \ {n}]
    /\ tabs' = [tabs EXCEPT !.stream = Append(@, Event("closed", n, NoSample))]
    /\ UNCHANGED <<fleet, refresh, ops, page, views, queued, attached>>

recordNodeUsage(n) ==
    /\ daemon.node[n] = "ready" /\ Spend("usage")
    /\ LET epoch == IF daemon.epoch = 0 THEN daemon.last + 1 ELSE daemon.epoch
           sample == [at |-> daemon.clock + 1, epoch |-> epoch]
       IN /\ daemon' = [daemon EXCEPT !.clock = @ + 1, !.epoch = epoch, !.last = epoch, !.sample[n] = sample]
          /\ tabs' = [tabs EXCEPT !.stream = Append(@, Event("usage", n, sample))]
    /\ UNCHANGED <<fleet, refresh, ops, page, views, queued, attached>>

\* A new daemon has no samples and no epoch yet.
Replaced ==
    /\ Spend("epoch")
    /\ daemon' = [daemon EXCEPT !.epoch = 0, !.sample = [n \in WinNodes |-> NoSample]]
    /\ UNCHANGED <<fleet, refresh, ops, page, views, queued, attached, tabs>>

-----------------------------------------------------------------------------
WinInit ==
    \E b \in WinBudgets :
      LET nodes == b.nodes \cup b.ready
      IN /\ left = b
         /\ daemon = [node |-> [n \in WinNodes |-> IF n \in b.ready THEN "ready"
                                                  ELSE IF n \in nodes THEN "stopped" ELSE "absent"],
                      rev |-> 0, op |-> [n \in WinNodes |-> NoOp], next |-> 1, succeeded |-> {}, tab |-> {},
                      clock |-> 0, epoch |-> 0, last |-> 0, sample |-> [n \in WinNodes |-> NoSample]]
         /\ \E selected \in IF nodes = {} THEN {Nothing} ELSE nodes :
              fleet = [nodes |-> nodes, ready |-> b.ready, rev |-> 0, of |-> FALSE, scope |-> FALSE,
                       usage |-> [n \in WinNodes |-> NoSample], selected |-> selected]
         /\ refresh = [inFlight |-> FALSE, late |-> FALSE, scope |-> FALSE, loads |-> {}, timer |-> FALSE]
         /\ ops = [tracked |-> <<>>, applied |-> [i \in 1..MaxOps |-> 0], events |-> {}]
         /\ page = "fleet"
         /\ views = [at |-> [v \in Loaders \cup {"act"} |-> Empty(Nothing)], replies |-> {}]
         /\ queued = NoQueue /\ attached = 0
         /\ tabs = [view |-> {}, asked |-> {}, opened |-> {}, stream |-> <<>>]

Tick == left.shown /\ refreshTick(FALSE)
LoopStep == \/ finishDataRefresh \/ (\E v \in Loaders \cup {"act"} : applyView(v)) \/ operationComplete \/ applyOpenedDaemonTab \/ handleDaemonEvent
Background == loadTUIRefresh \/ \E v \in Loaders \cup {"act"} : ReadView(v)
User == \/ ToggleScope \/ QueueAttach \/ DropQueue
        \/ \E n \in WinNodes : \/ startDaemonTabOpen(n) \/ \E kind \in {"start", "stop"} : StartOperation(n, kind)
                             \/ \E p \in {"fleet", "overview", "logs", "metrics"} : Navigate(p, n)
Outside == \/ Stall \/ replaceDaemonSessions \/ Replaced
           \/ \E n \in WinNodes : \/ Born(n) \/ Delete(n) \/ CancelOperation(n) \/ ShellExit(n) \/ recordNodeUsage(n)
                                \/ \E kind \in {"start", "stop"} : OtherOperation(n, kind)
Daemon == \E n \in WinNodes : OperationEnds(n) \/ OpenTerminal(n)

WinNext == Tick \/ (left.shown /\ refreshTick(TRUE)) \/ metricsTick \/ LoopStep \/ Background \/ User \/ Outside \/ Daemon

(* The tickers run as long as the window does, the loop takes what is      *)
(* posted, a load answers within its timeout, and an operation ends.       *)
WinFairness == /\ WF_winVars(Tick) /\ WF_winVars(metricsTick)
               /\ WF_winVars(finishDataRefresh) /\ WF_winVars(operationComplete)
               /\ WF_winVars(applyOpenedDaemonTab) /\ WF_winVars(handleDaemonEvent)
               /\ WF_winVars(loadTUIRefresh)
               /\ \A v \in Loaders \cup {"act"} : WF_winVars(ReadView(v)) /\ WF_winVars(applyView(v))
               /\ \A n \in WinNodes : WF_winVars(OperationEnds(n))

WinSpec == WinInit /\ [][WinNext]_winVars /\ WinFairness

-----------------------------------------------------------------------------
OpRecords == [id : 0..MaxOps, kind : {"start", "stop"},
              state : {"none", "running", "canceling", "succeeded", "failed", "canceled"}, node : WinNodes \cup {Nothing}]

\* Every part of the window has its type, and one load at most carries the current generation.
WinTypeOK ==
    /\ daemon.op \in [WinNodes -> OpRecords]
    /\ fleet.nodes \subseteq WinNodes /\ fleet.ready \subseteq fleet.nodes
    /\ fleet.selected \in fleet.nodes \cup {Nothing}
    /\ page \in {"fleet", "overview", "logs", "metrics"}
    /\ Cardinality({l \in refresh.loads : l.cur}) = IF refresh.inFlight THEN 1 ELSE 0
    /\ queued \in [node : WinNodes \cup {Nothing}, op : 0..MaxOps]
    /\ tabs.view \subseteq WinNodes

(* However reloads overlap, the list shown is never replaced by one the    *)
(* daemon served earlier (startDataRefresh, finishDataRefresh).            *)
ListNeverGoesBack == fleet'.rev >= fleet.rev

(* The list shown is again and again the daemon's own, for the scope the   *)
(* user chose, even when pushes and reloads are lost or stall.             *)
ListCatchesUp == []<>(fleet.rev = daemon.rev /\ fleet.of = fleet.scope)

(* Within the samples of one daemon, the usage shown for a node is never   *)
(* replaced by an older sample or blanked, whichever of a push and a       *)
(* reload lands last (applyNodeUsage, reconcileNodeUsage).                 *)
UsageNeverRegresses ==
       \A n \in fleet.nodes \cap fleet'.nodes :
         fleet'.usage[n].epoch = fleet.usage[n].epoch => fleet'.usage[n].at >= fleet.usage[n].at

(* The result of an operation is applied once, whether its event or the    *)
(* sweep of a tick comes first (finishOperation, reapCompletedOperations). *)
AppliedOnce == \A i \in 1..MaxOps : ops.applied[i] <= 1

\* An operation that ended does not stay on its row (reapCompletedOperations).
OverlayClears == \A i \in 1..MaxOps : []<>(\A k \in DOMAIN ops.tracked : ops.tracked[k].id = i => ~ops.tracked[k].done)

(* What a node's view shows was fetched for the node the view is about,    *)
(* whatever replies come late (loadManagerData, apply...Data).             *)
NoForeignData == \A v \in Loaders : views.at[v].shows.node \in {Nothing, views.at[v].node}

(* A view that stays open is in the end about the selected node and loaded *)
(* although a reload may move the selection under it.                      *)
ViewFollowsSelection ==
    []<>(\/ page = "fleet" \/ fleet.selected = Nothing
         \/ \A v \in {v \in Loaders \cap left.follows : Visible(v, page)} : views.at[v].node = fleet.selected /\ views.at[v].loaded)

(* A queued attachment starts only for the startup it was queued for, once *)
(* that startup has succeeded, and on the node still selected.             *)
AttachesToItsStartup ==
       attached' # attached => /\ attached' = queued.op /\ attached' \in daemon.succeeded
                               /\ queued.node = fleet'.selected /\ page # "fleet"

(* A tab leaves the window only when the daemon no longer has it: a scoped *)
(* or late node list never closes the tab of a live node                   *)
(* (PruneStaleSessions, targetKeyStillExists).                             *)
TabsOutliveTheList == \A n \in tabs.view \ tabs'.view : n \notin daemon'.tab

\* A window never goes back: not to an older list or sample, not to the startup of another node, and
\* not from a tab the daemon still has.
NeverGoesBack == [][/\ ListNeverGoesBack /\ UsageNeverRegresses
                    /\ AttachesToItsStartup /\ TabsOutliveTheList]_winVars

=============================================================================

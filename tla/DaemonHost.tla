----------------------------- MODULE DaemonHost -----------------------------
(***************************************************************************)
(* The tabs of the daemon (internal/codelima/daemon_host.go): the ordered  *)
(* list of terminals, session.json that says which tabs to respawn, and    *)
(* the live update that hands every running shell to a successor process.  *)
(*                                                                         *)
(* Requests run concurrently, each a thread of one daemon; the goroutine   *)
(* that delivers a terminal's closed event is a thread too.  A daemon's    *)
(* own thread restores, imports or shuts down.  updateGate is held for     *)
(* reading by the threads in Gated and for writing while handoff.from is   *)
(* the daemon; persistMu is persistMu.  A tab is a terminal id, NodeOf its *)
(* target; labels, sizes and what a shell prints are left out (a resize    *)
(* only persists).  One update or start is in progress at a time.          *)
(***************************************************************************)
EXTENDS Naturals, FiniteSets, SequencesExt

CONSTANTS Daemons,   \* processes, each started or imported at most once
          Handlers,  \* threads for requests and closed events
          Tabs,
          NodeOf,    \* the node a tab belongs to
          Requests,  \* what is asked of the daemons in this instance
          Faults,    \* what may go wrong
          MaxAsks,   \* how many requests are made
          Straddle,  \* whether a request or event may straddle the end of a tab list
          None

ASSUME RequestsAssumption ==
  Requests \subseteq {"open", "close", "move", "resize", "delete", "update", "stop"}
ASSUME FaultsAssumption == Faults \subseteq {"crash", "restart_crash", "disk", "timeout", "import"}
ASSUME MaxAsksAssumption == MaxAsks \in Nat
ASSUME StraddleAssumption == Straddle \in BOOLEAN
ASSUME NodesAssumption == DOMAIN NodeOf = Tabs

VARIABLES proc,       \* what a daemon process is doing
          lock,       \* the owner of _locks/daemon.lock
          sock,       \* the daemon that bound the socket files, dead or alive
          session,    \* session.json
          mem,        \* terminals in terminalOrder
          pump,       \* the PTYs a daemon reads
          held,       \* the PTYs it has a descriptor of
          dying,      \* runtimes to be torn down after the reply
          shell,      \* none, alive or dead
          tomb,       \* deleted nodes
          replaced,   \* daemons whose host.replaced is set
          thread,     \* of handlers, and of the daemons themselves
          persistMu,
          handoff,    \* the update in progress: the exporter's state and the connection
          asks,       \* requests made so far
          want,       \* tabs announced, not closed, whose shell did not end (history)
          purged,     \* nodes whose deletion closed their tabs (history)
          spoiled     \* whether the last write of session.json failed (history)

disk == <<session, spoiled>>
tabs == <<mem, pump, held, dying, shell>>
vars == <<proc, lock, sock, disk, tabs, tomb, replaced, thread, persistMu, handoff, asks, want, purged>>

Nodes == {NodeOf[t] : t \in Tabs}
Gated == {"open", "close", "move", "delete"}

Idle == [op |-> "idle", at |-> "idle", host |-> None, tab |-> None, todo |-> <<>>, list |-> <<>>]
Job(op, d, t) == [Idle EXCEPT !.op = op, !.at = "persist", !.host = d, !.tab = t]
NoHandoff == [from |-> None, to |-> None, at |-> "idle", todo |-> <<>>, quiesced |-> <<>>,
              manifest |-> <<>>, msg |-> "none"]

Alive(d) == proc[d] \notin {"absent", "gone"}
Without(s, S) == SelectSeq(s, LAMBDA t : t \notin S)
At(x, l) == thread' = [thread EXCEPT ![x].at = l]
Ends(x) == thread' = [thread EXCEPT ![x] = Idle]

Init == /\ proc = [d \in Daemons |-> "absent"]
        /\ lock = None /\ sock = None
        /\ session = <<>> /\ spoiled = FALSE
        /\ mem = [d \in Daemons |-> <<>>]
        /\ pump = [d \in Daemons |-> {}]
        /\ held = [d \in Daemons |-> {}]
        /\ dying = [d \in Daemons |-> {}]
        /\ shell = [t \in Tabs |-> "none"]
        /\ tomb = {} /\ replaced = {}
        /\ thread = [x \in Handlers \cup Daemons |-> Idle]
        /\ persistMu = [d \in Daemons |-> None]
        /\ handoff = NoHandoff
        /\ asks = 0
        /\ want = {} /\ purged = {}

-----------------------------------------------------------------------------
(* persist: the test of replaced comes before persistMu is taken.          *)

\* Mutant: a replaced daemon persists on its way out.
PersistCheck_Always(x) ==
  /\ thread[x].at = "persist"
  /\ At(x, "lock")
  /\ UNCHANGED <<proc, lock, sock, disk, tabs, tomb, replaced, persistMu, handoff, asks, want, purged>>

PersistCheck(x) ==
  /\ thread[x].at = "persist"
  /\ At(x, IF thread[x].host \in replaced THEN "saved" ELSE "lock")
  /\ UNCHANGED <<proc, lock, sock, disk, tabs, tomb, replaced, persistMu, handoff, asks, want, purged>>

PersistCapture(x) ==
  /\ thread[x].at = "lock"
  /\ persistMu[thread[x].host] = None
  /\ persistMu' = [persistMu EXCEPT ![thread[x].host] = x]
  /\ thread' = [thread EXCEPT ![x].at = "write", ![x].list = mem[thread[x].host]]
  /\ UNCHANGED <<proc, lock, sock, disk, tabs, tomb, replaced, handoff, asks, want, purged>>

\* The write is an atomic replacement.  It may fail; only the requests that react to that do so here.
PersistWrite(x) ==
  /\ thread[x].at = "write"
  /\ \E ok \in {TRUE} \cup (IF "disk" \in Faults /\ thread[x].op \in {"open", "import"} THEN {FALSE} ELSE {}) :
       /\ session' = IF ok THEN thread[x].list ELSE session
       /\ spoiled' = ~ok
       /\ thread' = [thread EXCEPT ![x].at = IF ok THEN "saved" ELSE "failed", ![x].list = <<>>]
  /\ persistMu' = [persistMu EXCEPT ![thread[x].host] = None]
  /\ UNCHANGED <<proc, lock, sock, tabs, tomb, replaced, handoff, asks, want, purged>>

-----------------------------------------------------------------------------
(* Requests that change the tab list, and closed events.                   *)

Ask(op) == op \in Requests /\ asks < MaxAsks /\ asks' = asks + 1

\* A handler is free, the daemon has a connection, and the update barrier lets op in.
Admits(h, d, op) ==
  /\ thread[h] = Idle
  /\ proc[d] = "serving"
  /\ Ask(op)
  /\ op \in Gated => handoff.from # d /\ d \notin replaced
  /\ Straddle \/ handoff.from # d \/ handoff.at # "committed"

Launch(d, t) ==
  /\ shell' = [shell EXCEPT ![t] = "alive"]
  /\ held' = [held EXCEPT ![d] = @ \cup {t}]
  /\ pump' = [pump EXCEPT ![d] = @ \cup {t}]

\* openTerminal starts the shell before the tab is listed ...
Open(h, d, t) ==
  /\ Admits(h, d, "open")
  /\ shell[t] = "none" /\ NodeOf[t] \notin tomb
  /\ Launch(d, t)
  /\ thread' = [thread EXCEPT ![h] = [Job("open", d, t) EXCEPT !.at = "started"]]
  /\ UNCHANGED <<proc, lock, sock, disk, mem, dying, tomb, replaced, persistMu, handoff, want, purged>>

\* ... and looks at the node again under mu when it lists it.
Publish(h) ==
  LET d == thread[h].host
      t == thread[h].tab
  IN /\ thread[h].at = "started"
     /\ IF NodeOf[t] \in tomb
        THEN /\ dying' = [dying EXCEPT ![d] = @ \cup {t}]
             /\ Ends(h)
             /\ UNCHANGED mem
        ELSE /\ mem' = [mem EXCEPT ![d] = Append(@, t)]
             /\ At(h, "persist")
             /\ UNCHANGED dying
     /\ UNCHANGED <<proc, lock, sock, disk, pump, held, shell, tomb, replaced, persistMu, handoff,
                    asks, want, purged>>

\* Takes tabs off the list; the runtimes end after the reply (closeTerminalRuntimeAsync).
Unlist(d, S) ==
  /\ mem' = [mem EXCEPT ![d] = Without(@, S)]
  /\ dying' = [dying EXCEPT ![d] = @ \cup (S \cap ToSet(mem[d]))]
  /\ want' = want \ S

CloseTab(h, d, t) ==
  /\ Admits(h, d, "close")
  /\ t \in ToSet(mem[d])
  /\ Unlist(d, {t})
  /\ thread' = [thread EXCEPT ![h] = Job("close", d, t)]
  /\ UNCHANGED <<proc, lock, sock, disk, pump, held, shell, tomb, replaced, persistMu, handoff, purged>>

\* moveTerminal: past the next tab of the same node.
Move(h, d, t) ==
  LET m == mem[d]
      i == CHOOSE k \in DOMAIN m : m[k] = t
      Later == {k \in DOMAIN m : k > i /\ NodeOf[m[k]] = NodeOf[t]}
      j == CHOOSE k \in Later : \A l \in Later : k <= l
  IN /\ Admits(h, d, "move")
     /\ t \in ToSet(m) /\ Later # {}
     /\ mem' = [mem EXCEPT ![d][i] = m[j], ![d][j] = t]
     /\ thread' = [thread EXCEPT ![h] = Job("move", d, t)]
     /\ UNCHANGED <<proc, lock, sock, disk, pump, held, dying, shell, tomb, replaced, persistMu,
                    handoff, want, purged>>

\* terminal.resize persists the list too, without the barrier.
Resize(h, d, t) ==
  /\ Admits(h, d, "resize")
  /\ t \in ToSet(mem[d])
  /\ thread' = [thread EXCEPT ![h] = Job("resize", d, t)]
  /\ UNCHANGED <<proc, lock, sock, disk, tabs, tomb, replaced, persistMu, handoff, want, purged>>

\* A node operation of the daemon deletes a node, then closes its tabs.
DeleteNode(h, d, t) ==
  /\ Admits(h, d, "delete")
  /\ NodeOf[t] \notin tomb
  /\ tomb' = tomb \cup {NodeOf[t]}
  /\ thread' = [thread EXCEPT ![h] = [Job("delete", d, t) EXCEPT !.at = "tombstone"]]
  /\ UNCHANGED <<proc, lock, sock, disk, tabs, replaced, persistMu, handoff, want, purged>>

CloseDeletedTabs(h) ==
  LET d == thread[h].host
  IN /\ thread[h].at = "tombstone"
     /\ handoff.from # d
     /\ Unlist(d, {t \in ToSet(mem[d]) : NodeOf[t] = NodeOf[thread[h].tab]})
     /\ At(h, "persist")
     /\ UNCHANGED <<proc, lock, sock, disk, pump, held, shell, tomb, replaced, persistMu, handoff,
                    asks, purged>>

\* The end of a request.  A tab that could not be saved is closed again.
Reply(h) ==
  LET d == thread[h].host
      t == thread[h].tab
      op == thread[h].op
  IN /\ h \in Handlers
     /\ \/ /\ op = "open" /\ thread[h].at = "failed"
           /\ t \in ToSet(mem[d])
           /\ Unlist(d, {t})
           /\ thread' = [thread EXCEPT ![h] = Job("close", d, t)]
           /\ UNCHANGED purged
        \/ /\ thread[h].at \in {"saved", "failed"}
           /\ op = "open" /\ thread[h].at = "failed" => t \notin ToSet(mem[d])
           /\ want' = IF op = "open" /\ t \in ToSet(mem[d]) /\ shell[t] = "alive" THEN want \cup {t} ELSE want
           /\ purged' = IF op = "delete" THEN purged \cup {NodeOf[t]} ELSE purged
           /\ Ends(h)
           /\ UNCHANGED <<mem, dying>>
     /\ UNCHANGED <<proc, lock, sock, disk, pump, held, shell, tomb, replaced, persistMu, handoff, asks>>

\* A shell ends by itself.  Without Straddle it does so only while its reader lists the tab.
ShellExit(t) ==
  /\ shell[t] = "alive"
  /\ Straddle \/ \A d \in Daemons : t \in pump[d] => t \in ToSet(mem[d])
  /\ shell' = [shell EXCEPT ![t] = "dead"]
  /\ want' = want \ {t}
  /\ UNCHANGED <<proc, lock, sock, disk, mem, pump, held, dying, tomb, replaced, thread, persistMu,
                 handoff, asks, purged>>

\* readPump meets the end of the PTY and handleTerminalEvent takes the tab off the list.
ClosedEvent(h, d, t) ==
  /\ thread[h] = Idle
  /\ t \in pump[d] /\ shell[t] = "dead"
  /\ pump' = [pump EXCEPT ![d] = @ \ {t}]
  /\ held' = [held EXCEPT ![d] = @ \ {t}]
  /\ mem' = [mem EXCEPT ![d] = Without(@, {t})]
  /\ thread' = [thread EXCEPT ![h] = Job("closed", d, t)]
  /\ UNCHANGED <<proc, lock, sock, disk, dying, shell, tomb, replaced, persistMu, handoff, asks, want, purged>>

\* Close of a runtime stops the pump first, so that the end of the shell posts no event.
Teardown(d, t) ==
  /\ t \in dying[d]
  /\ dying' = [dying EXCEPT ![d] = @ \ {t}]
  /\ pump' = [pump EXCEPT ![d] = @ \ {t}]
  /\ held' = [held EXCEPT ![d] = @ \ {t}]
  /\ shell' = [shell EXCEPT ![t] = "dead"]
  /\ UNCHANGED <<proc, lock, sock, disk, mem, tomb, replaced, thread, persistMu, handoff, asks, want, purged>>

-----------------------------------------------------------------------------
(* The life of a process.                                                  *)

\* A shell whose last descriptor is closed is hung up.
HungUp(d, S) ==
  [t \in Tabs |-> IF t \in S /\ \A e \in Daemons \ {d} : t \notin held[e] THEN "dead" ELSE shell[t]]

\* A process ends: the kernel drops its lock and its descriptors.  The socket files stay unless the daemon removed them.
Dies(d, cleans) ==
  /\ proc' = [proc EXCEPT ![d] = "gone"]
  /\ lock' = IF lock = d THEN None ELSE lock
  /\ sock' = IF cleans THEN None ELSE sock
  /\ mem' = [mem EXCEPT ![d] = <<>>]
  /\ pump' = [pump EXCEPT ![d] = {}]
  /\ held' = [held EXCEPT ![d] = {}]
  /\ dying' = [dying EXCEPT ![d] = {}]
  /\ shell' = HungUp(d, held[d])
  /\ thread' = [x \in DOMAIN thread |-> IF thread[x].host = d THEN Idle ELSE thread[x]]
  /\ persistMu' = [persistMu EXCEPT ![d] = None]

\* startDaemon and runDaemon, when no daemon is left: the session is restored first.
Start(d) ==
  /\ proc[d] = "absent" /\ \A e \in Daemons : ~Alive(e)
  /\ proc' = [proc EXCEPT ![d] = "restoring"]
  /\ thread' = [thread EXCEPT ![d] = [Job("restore", d, None) EXCEPT !.at = "next", !.todo = session]]
  /\ UNCHANGED <<lock, sock, disk, tabs, tomb, replaced, persistMu, handoff, asks, want, purged>>

\* restoreSession opens one saved tab after another; each open persists the list so far.
Restore(d) ==
  LET t == Head(thread[d].todo)
  IN /\ thread[d].at = "next" /\ thread[d].todo # <<>>
     /\ IF NodeOf[t] \in tomb
        THEN /\ thread' = [thread EXCEPT ![d].todo = Tail(@)]
             /\ want' = want \ {t}
             /\ UNCHANGED <<mem, pump, held, shell>>
        ELSE /\ Launch(d, t)
             /\ mem' = [mem EXCEPT ![d] = Append(@, t)]
             /\ thread' = [thread EXCEPT ![d].todo = Tail(@), ![d].tab = t, ![d].at = "persist"]
             /\ want' = want \cup {t}
     /\ UNCHANGED <<proc, lock, sock, disk, dying, tomb, replaced, persistMu, handoff, asks, purged>>

RestoreNext(d) ==
  /\ thread[d].op = "restore" /\ thread[d].at = "saved"
  /\ At(d, IF proc[d] = "binding" THEN "bind" ELSE "next")
  /\ UNCHANGED <<proc, lock, sock, disk, tabs, tomb, replaced, persistMu, handoff, asks, want, purged>>

\* The list is persisted once more, then server.prepare takes the lock and binds.
RestoreEnds(d) ==
  /\ thread[d].at = "next" /\ thread[d].todo = <<>>
  /\ proc' = [proc EXCEPT ![d] = "binding"]
  /\ thread' = [thread EXCEPT ![d].at = "persist", ![d].tab = None]
  /\ UNCHANGED <<lock, sock, disk, tabs, tomb, replaced, persistMu, handoff, asks, want, purged>>

Bind(d) ==
  /\ thread[d].op = "restore" /\ thread[d].at = "bind"
  /\ lock = None
  /\ lock' = d /\ sock' = d
  /\ proc' = [proc EXCEPT ![d] = "serving"]
  /\ Ends(d)
  /\ UNCHANGED <<disk, tabs, tomb, replaced, persistMu, handoff, asks, want, purged>>

\* Server.Stop: no more requests, and Run closes the host, which persists first.
\* Requests that are being served are not waited for.
Stops(d) ==
  /\ proc' = [proc EXCEPT ![d] = "closing"]
  /\ thread' = [thread EXCEPT ![d] = Job("stop", d, None)]

\* daemon.stop removes the socket files before it answers.
Stop(d) ==
  /\ Ask("stop")
  /\ proc[d] = "serving"
  /\ Straddle \/ handoff.from # d
  /\ Stops(d)
  /\ sock' = None
  /\ UNCHANGED <<lock, disk, tabs, tomb, replaced, persistMu, handoff, want, purged>>

\* Nothing is on its way that would persist a list this daemon no longer has.
Settled(d) == /\ \A h \in Handlers : thread[h].host # d
              /\ \A t \in pump[d] : shell[t] = "alive"

\* daemonHost.Close empties the list and closes every runtime.
EmptyTabs(d) ==
  /\ thread[d].op = "stop" /\ thread[d].at \in {"saved", "failed"}
  /\ Straddle \/ Settled(d)
  /\ mem' = [mem EXCEPT ![d] = <<>>]
  /\ dying' = [dying EXCEPT ![d] = @ \cup ToSet(mem[d])]
  /\ At(d, "teardown")
  /\ UNCHANGED <<proc, lock, sock, disk, pump, held, shell, tomb, replaced, persistMu, handoff, asks, want,
                 purged>>

Exits(d) ==
  /\ thread[d].at = "teardown" /\ dying[d] = {}
  /\ Dies(d, d \notin replaced)
  /\ UNCHANGED <<disk, tomb, replaced, handoff, asks, want, purged>>

\* What is left of an update when one end of its connection dies.
HandoffAfter(d) ==
  LET other == IF handoff.from = d THEN handoff.to ELSE handoff.from
  IN IF d \in {handoff.from, handoff.to}
        /\ (other = None \/ ~Alive(other) \/ (other = handoff.to /\ proc[other] \in {"serving", "closing"}))
     THEN NoHandoff ELSE handoff

Crash(d) ==
  /\ "crash" \in Faults
  /\ Alive(d)
  /\ proc[d] \in {"restoring", "binding"} => "restart_crash" \in Faults
  /\ Dies(d, FALSE)
  /\ handoff' = HandoffAfter(d)
  /\ UNCHANGED <<disk, tomb, replaced, asks, want, purged>>

-----------------------------------------------------------------------------
(* daemon.update: the exporter.                                            *)

Deleting(d) == \E h \in Handlers : thread[h].op = "delete" /\ thread[h].host = d
Readers(d) == \E h \in Handlers : thread[h].op \in Gated /\ thread[h].host = d

Update(d) ==
  /\ Ask("update")
  /\ proc[d] = "serving" /\ d \notin replaced
  /\ handoff = NoHandoff
  /\ ~Readers(d) /\ ~Deleting(d)
  /\ handoff' = [NoHandoff EXCEPT !.from = d, !.at = "quiesce", !.todo = mem[d]]
  /\ UNCHANGED <<proc, lock, sock, disk, tabs, tomb, replaced, thread, persistMu, want, purged>>

\* BeginHandoff stops one pump; it fails for a runtime that has ended.
Quiesce(d) ==
  LET t == Head(handoff.todo)
  IN /\ handoff.from = d /\ handoff.at = "quiesce" /\ handoff.todo # <<>>
     /\ IF t \in pump[d]
        THEN /\ handoff' = [handoff EXCEPT !.todo = Tail(@), !.quiesced = Append(@, t)]
             /\ pump' = [pump EXCEPT ![d] = @ \ {t}]
        ELSE /\ handoff' = [handoff EXCEPT !.at = "rollback", !.todo = <<>>]
             /\ UNCHANGED pump
     /\ UNCHANGED <<proc, lock, sock, disk, mem, held, dying, shell, tomb, replaced, thread, persistMu,
                    asks, want, purged>>

Spawn(d, i) ==
  /\ handoff.from = d /\ handoff.at = "quiesce" /\ handoff.todo = <<>>
  /\ proc[i] = "absent"
  /\ proc' = [proc EXCEPT ![i] = "importing"]
  /\ thread' = [thread EXCEPT ![i] = [Job("import", i, None) EXCEPT !.at = "dial"]]
  /\ handoff' = [handoff EXCEPT !.at = "accept", !.to = i]
  /\ UNCHANGED <<lock, sock, disk, tabs, tomb, replaced, persistMu, asks, want, purged>>

\* The manifest has the list of now and the runtimes that were quiesced; the descriptors follow.
SendManifest(d) ==
  /\ handoff.from = d /\ handoff.at = "accept" /\ Alive(handoff.to)
  /\ handoff' = [handoff EXCEPT !.at = "ready", !.manifest = mem[d], !.msg = "manifest"]
  /\ held' = [held EXCEPT ![handoff.to] = ToSet(handoff.quiesced)]
  /\ UNCHANGED <<proc, lock, sock, disk, mem, pump, dying, shell, tomb, replaced, thread, persistMu,
                 asks, want, purged>>

\* prepareReplacement gives up the lock and the sockets; then the importer is told to commit.
PrepareReplacement(d) ==
  /\ handoff.from = d /\ handoff.at = "ready" /\ handoff.msg = "ready"
  /\ Straddle \/ Settled(d)
  /\ lock' = None /\ sock' = None
  /\ handoff' = [handoff EXCEPT !.at = "committed", !.msg = "commit"]
  /\ UNCHANGED <<proc, disk, tabs, tomb, replaced, thread, persistMu, asks, want, purged>>

\* The importer committed: this daemon has no tabs any more, and stops.
Committed(d) ==
  /\ handoff.from = d /\ handoff.at = "committed" /\ handoff.msg = "committed"
  /\ replaced' = replaced \cup {d}
  /\ mem' = [mem EXCEPT ![d] = Without(@, ToSet(handoff.quiesced))]
  /\ held' = [held EXCEPT ![d] = @ \ ToSet(handoff.quiesced)]
  /\ shell' = HungUp(d, ToSet(handoff.quiesced))
  /\ handoff' = NoHandoff
  /\ Stops(d)
  /\ UNCHANGED <<lock, sock, disk, pump, dying, tomb, persistMu, asks, want, purged>>

\* Mutant: the importer is left running.
Abort_NoKill(d) ==
  /\ handoff.from = d /\ handoff.at \in {"accept", "ready", "committed"}
  /\ \/ handoff.msg = "failed"
     \/ ~Alive(handoff.to) /\ handoff.msg # "committed"
     \/ "timeout" \in Faults /\ handoff.msg \notin {"ready", "committed"}
  /\ handoff' = [handoff EXCEPT !.at = IF @ = "committed" THEN "resume" ELSE "rollback", !.to = None,
                                !.msg = "none", !.manifest = <<>>]
  /\ UNCHANGED <<proc, lock, sock, tabs, thread, persistMu, disk, tomb, replaced, asks, want, purged>>

\* "failed", the end of the connection, or 30 seconds without a word: the importer is killed
\* and reaped.
Abort(d) ==
  /\ handoff.from = d /\ handoff.at \in {"accept", "ready", "committed"}
  /\ \/ handoff.msg = "failed"
     \/ ~Alive(handoff.to) /\ handoff.msg # "committed"
     \/ "timeout" \in Faults /\ handoff.msg \notin {"ready", "committed"}
  /\ IF Alive(handoff.to) THEN Dies(handoff.to, FALSE)
     ELSE UNCHANGED <<proc, lock, sock, tabs, thread, persistMu>>
  /\ handoff' = [handoff EXCEPT !.at = IF @ = "committed" THEN "resume" ELSE "rollback", !.to = None,
                                !.msg = "none", !.manifest = <<>>]
  /\ UNCHANGED <<disk, tomb, replaced, asks, want, purged>>

\* ResumeAfterReplacement binds again, unless the path is still bound; else the daemon retires.
Resume(d) ==
  /\ handoff.from = d /\ handoff.at = "resume"
  /\ handoff' = [handoff EXCEPT !.at = "rollback"]
  /\ IF lock = None /\ sock = None
     THEN /\ lock' = d /\ sock' = d
          /\ UNCHANGED <<proc, replaced, thread>>
     ELSE /\ replaced' = replaced \cup {d}
          /\ Stops(d)
          /\ UNCHANGED <<lock, sock>>
  /\ UNCHANGED <<disk, tabs, tomb, persistMu, asks, want, purged>>

\* Mutant: the pumps stay quiesced.
Rollback_Quiet(d) ==
  /\ handoff.from = d /\ handoff.at = "rollback"
  /\ handoff' = NoHandoff
  /\ UNCHANGED <<proc, lock, sock, disk, tabs, tomb, replaced, thread, persistMu, asks, want, purged>>

\* RollbackHandoff starts the pumps again and the barrier opens.
Rollback(d) ==
  /\ handoff.from = d /\ handoff.at = "rollback"
  /\ pump' = [pump EXCEPT ![d] = @ \cup (ToSet(handoff.quiesced) \cap held[d])]
  /\ handoff' = NoHandoff
  /\ UNCHANGED <<proc, lock, sock, disk, mem, held, dying, shell, tomb, replaced, thread, persistMu,
                 asks, want, purged>>

-----------------------------------------------------------------------------
(* runDaemonImport: the importer.                                          *)

Importing(i, l) == thread[i].op = "import" /\ thread[i].at = l /\ handoff.to = i

\* The importer ends, with or without a word to the exporter.
GivesUp(i, word) ==
  /\ Dies(i, FALSE)
  /\ handoff' = IF Alive(handoff.from) THEN [handoff EXCEPT !.msg = word] ELSE NoHandoff

\* adoptHandoffTerminals wants every runtime in the manifest's session, and keeps its order.
Adopt(i) ==
  /\ Importing(i, "dial") /\ handoff.msg = "manifest"
  /\ IF ~(ToSet(handoff.quiesced) \subseteq ToSet(handoff.manifest))
     THEN GivesUp(i, "failed")
     ELSE /\ mem' = [mem EXCEPT ![i] = SelectSeq(handoff.manifest, LAMBDA t : t \in ToSet(handoff.quiesced))]
          /\ At(i, "commit")
          /\ handoff' = [handoff EXCEPT !.msg = "ready"]
          /\ UNCHANGED <<proc, lock, sock, pump, held, dying, shell, persistMu>>
  /\ UNCHANGED <<disk, tomb, replaced, asks, want, purged>>

\* ActivateAfterHandoff: the importer reads the PTYs, then writes session.json.
Activate(i) ==
  /\ Importing(i, "commit") /\ handoff.msg = "commit"
  /\ pump' = [pump EXCEPT ![i] = ToSet(mem[i])]
  /\ handoff' = [handoff EXCEPT !.msg = "none"]
  /\ At(i, "persist")
  /\ UNCHANGED <<proc, lock, sock, disk, mem, held, dying, shell, tomb, replaced, persistMu, asks, want, purged>>

\* Run binds what the exporter gave up.
BindImport(i) ==
  /\ Importing(i, "saved")
  /\ lock = None
  /\ lock' = i /\ sock' = i
  /\ At(i, "ping")
  /\ UNCHANGED <<proc, disk, tabs, tomb, replaced, persistMu, handoff, asks, want, purged>>

\* The importer answers its own ping and says so; without an exporter to tell it stops.
SayCommitted(i) ==
  /\ Importing(i, "ping")
  /\ IF Alive(handoff.from)
     THEN /\ handoff' = [handoff EXCEPT !.msg = "committed"]
          /\ proc' = [proc EXCEPT ![i] = "serving"]
          /\ Ends(i)
     ELSE /\ handoff' = NoHandoff
          /\ Stops(i)
  /\ UNCHANGED <<lock, sock, disk, tabs, tomb, replaced, persistMu, asks, want, purged>>

\* A failed write, a renderer or a subsystem that does not start, or the exporter's end.
ImportFails(i) ==
  /\ handoff.to = i /\ thread[i].op = "import"
  /\ \/ thread[i].at = "failed" /\ GivesUp(i, "failed")
     \/ "import" \in Faults /\ thread[i].at = "dial" /\ GivesUp(i, "failed")
     \/ "import" \in Faults /\ thread[i].at = "saved" /\ GivesUp(i, "none")
     \/ ~Alive(handoff.from) /\ thread[i].at \in {"dial", "commit"} /\ GivesUp(i, "none")
  /\ UNCHANGED <<disk, tomb, replaced, asks, want, purged>>

-----------------------------------------------------------------------------
Persist(x) == PersistCheck(x) \/ PersistCapture(x) \/ PersistWrite(x)
Request(h, d, t) == \/ Open(h, d, t) \/ CloseTab(h, d, t) \/ Move(h, d, t)
                    \/ Resize(h, d, t) \/ DeleteNode(h, d, t)
Serve(h) == Publish(h) \/ CloseDeletedTabs(h) \/ Reply(h)
Life(d) == Restore(d) \/ RestoreNext(d) \/ RestoreEnds(d) \/ Bind(d) \/ EmptyTabs(d) \/ Exits(d)
Export(d) == \/ Quiesce(d) \/ SendManifest(d) \/ PrepareReplacement(d) \/ Committed(d)
             \/ Abort(d) \/ Resume(d) \/ Rollback(d) \/ \E i \in Daemons : Spawn(d, i)
Import(i) == Adopt(i) \/ Activate(i) \/ BindImport(i) \/ SayCommitted(i) \/ ImportFails(i)

Next == \/ \E x \in Handlers \cup Daemons : Persist(x)
        \/ \E h \in Handlers : Serve(h)
        \/ \E h \in Handlers, d \in Daemons, t \in Tabs : Request(h, d, t) \/ ClosedEvent(h, d, t)
        \/ \E t \in Tabs : ShellExit(t)
        \/ \E d \in Daemons, t \in Tabs : Teardown(d, t)
        \/ \E d \in Daemons : Start(d) \/ Stop(d) \/ Crash(d) \/ Update(d)
        \/ \E d \in Daemons : Life(d) \/ Export(d) \/ Import(d)

Spec == Init /\ [][Next]_vars

-----------------------------------------------------------------------------
Thread == [op: {"idle", "open", "close", "move", "resize", "delete", "closed", "restore", "stop", "import"},
           at: {"idle", "started", "tombstone", "persist", "lock", "write", "saved", "failed", "next", "bind",
                "teardown", "dial", "commit", "ping"},
           host: Daemons \cup {None}, tab: Tabs \cup {None},
           todo: SeqOf(Tabs, Cardinality(Tabs)), list: SeqOf(Tabs, Cardinality(Tabs))]

\* The variables have their types, and a tab is listed once.
TypeOK ==
  /\ proc \in [Daemons -> {"absent", "restoring", "binding", "serving", "importing", "closing", "gone"}]
  /\ lock \in Daemons \cup {None} /\ sock \in Daemons \cup {None}
  /\ session \in SeqOf(Tabs, Cardinality(Tabs)) /\ spoiled \in BOOLEAN
  /\ \A d \in Daemons : mem[d] \in SeqOf(Tabs, Cardinality(Tabs)) /\ Cardinality(ToSet(mem[d])) = Len(mem[d])
  /\ pump \in [Daemons -> SUBSET Tabs] /\ held \in [Daemons -> SUBSET Tabs]
  /\ dying \in [Daemons -> SUBSET Tabs]
  /\ shell \in [Tabs -> {"none", "alive", "dead"}]
  /\ thread \in [Handlers \cup Daemons -> Thread]
  /\ persistMu \in [Daemons -> Handlers \cup Daemons \cup {None}]
  /\ asks \in 0..MaxAsks
  /\ replaced \subseteq Daemons /\ tomb \subseteq Nodes /\ want \subseteq Tabs /\ purged \subseteq tomb

\* At most one process reads a PTY: the exporter stops its pump before the descriptor
\* travels, and starts it again only when the importer it killed is reaped.
OneReader == \A t \in Tabs : Cardinality({d \in Daemons : t \in pump[d]}) <= 1

Restoring(t) == \E d \in Daemons : proc[d] = "restoring" /\ (t \in ToSet(thread[d].todo) \/ t = thread[d].tab)

\* Recovery intent: whenever every process were to die now, session.json names each tab the
\* user has (daemon_host.go: "a crash in between must still find every handed-off tab on disk").
\* While a session is being restored, the rest of it is with the process that restores.
SessionCovers == \A t \in want : t \in ToSet(session) \/ Restoring(t)

Owns(d) == proc[d] = "serving" /\ d \notin replaced /\ handoff = NoHandoff

\* An update loses no tab, whether it commits or rolls back: a daemon that serves and is not
\* being updated lists and reads every tab the user has.
NoTabLost == \A d \in Daemons : Owns(d) => want \subseteq (ToSet(mem[d]) \cap pump[d])

\* When nothing is in progress and no listed shell has ended, session.json is the list of the
\* daemon, in its order, unless the last write of it failed.
SessionIsList ==
  \A d \in Daemons :
    /\ Owns(d) /\ ~spoiled
    /\ \A x \in DOMAIN thread : thread[x].host # d
    /\ \A t \in ToSet(mem[d]) : shell[t] = "alive"
    => session = mem[d]

\* Once the deletion of a node has closed its tabs the daemon lists none of them again, though
\* an open may have begun before the deletion (daemon_host.go: "either this entry is published
\* first and removed there, or the tombstone rejects it").  An exporter that waits for the
\* importer's last word is excepted.
DeletedHaveNoTabs ==
  \A d \in Daemons : handoff.from # d => \A t \in ToSet(mem[d]) : NodeOf[t] \notin purged

\* Nothing a daemon does to its list loses, forgets or revives a tab.
TabsAreKept == TypeOK /\ NoTabLost /\ SessionIsList /\ DeletedHaveNoTabs

=============================================================================

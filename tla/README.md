# codelima in TLA+

codelima manages Lima virtual machines ("nodes"): a command line, a terminal
user interface and a private daemon share one metadata home on disk. This
directory models its concurrent parts, checks them with TLC on small instances,
and proves the most important results with TLAPS for every instance.

## The system

```
 CLI process ----+                    +---- TUI window: event loop, sessions,
                 |  Unix sockets      |     connection supervisor
 TUI window -----+---- daemon --------+
                        |  request server: seat, lanes, events, heartbeat
                        |  node operations: receipts in _operations/
                        |  host: tabs, session.json, live update
                        |    per tab: PTY, journal, renderer supervisor -- renderer worker process
                        |  port forwarder: SSH peers, routes, pins; runtime observer
                        v
 service: node lifecycle, templates, environments, bootstrap, environment tests
   |                                   |
   v                                   v
 metadata home: node records,        Lima (limactl), one VM per node
 indexes, flocks, liveness tokens
```

A command runs in the daemon or, without one, in the CLI process itself, so any
number of processes work on one metadata home. They exclude each other with
flocks for short sections (`locks.go`) and with a liveness token per node for
whole operations, which may take minutes. The daemon turns requests into
durable operations, owns the shells of all tabs, and can replace itself by a new
binary without losing them. Windows come and go and follow the daemon through
sequenced events.

| Part | Source | Module | State |
|---|---|---|---|
| Node lifecycle | `service.go`, `node_restart.go`, `store.go`, `lima.go` | NodeLifecycle | modelled, proved |
| Metadata locks and sections, seeding | `locks.go`, `service.go`, `store.go`, `configuration_service.go`, ... | LockSet | modelled, proved |
| Daemon-owned operations, batches | `node_operations.go`, `node_batch.go` | NodeOperations, OperationReceipts | modelled |
| Tabs, session file, live update | `daemon_host.go`, `daemon_terminal_isolated.go`, `daemon/server.go` | DaemonHost | partly |
| Events: broadcast, heartbeat, subscription, window | `daemon/server.go`, `tui_daemon_connection.go`, `tui_sessions.go` | EventStream | modelled |
| Renderer supervision, journal | `renderer_*.go` | Renderer | planned |
| Raw attachment | `terminal_attach_gate.go`, `daemon_terminal_attach.go` | AttachGate | planned |
| Requests, seat, lanes, client | `daemon/server.go`, `daemon/dispatch.go`, `daemonclient/client.go` | Seat | planned |
| Port forwarding, runtime observer | `dynamic_forwarding.go`, `forwarding_policy.go`, `lima_observer.go` | Forwarding | planned |
| Environment tests | `environment_test_run.go` | EnvironmentTest | planned |
| Bootstrap steps and retry | `bootstrap_steps.go`, `auth_import.go` | Bootstrap | planned |
| Templates, environments, record cache | `store*.go`, `configuration_service.go` | Catalog | planned |
| Window: refreshes, tab order, dialogs in flight | `tui_*.go` | Window | planned |
| Activity journal, metrics history | `activity_journal.go`, `metrics_history.go` | History | planned |
| Terminal emulation, logs, CLI, release tooling | `internal/ghostty`, `logging.go`, `cli*.go`, `internal/release` | none | native code, formatting or sequential I/O |

Paths are below `internal/codelima/` unless they start with `internal/`.
`PROJECT.json` lists every source file under its part, the lines each definition
stands for, and the hazards of each part with the properties that would show
them.

## The modules

Each component module has its Init, one action per step of the code, `Next`,
`Spec` and its properties; its `MC` module only names the values of constants.
Operators called `X_Something` placed before `X` are variants of `X` with a
plausible mistake; they are not used by any specification and serve to show that
the properties can fail. What may go wrong, and what is assumed of the users, is
a constant set, so that each configuration says which faults it includes.

### NodeLifecycle

A process is one running command. State: `node` (what `nodes/<id>/` holds: no
directory, a reservation, a record with its status), `byInstance` (the name
index), `token` (holders of the liveness tokens), `vm` (the Lima instances),
`fresh` (ids not yet used), and for each process its step `pc` and locals `op`.

A locked section of the code is one step (LockSet is why this is sound); every
runtime call, and every gap between two sections, separates steps, and a
process may die in any gap, which drops its tokens and leaves its status and
instance behind. `FirstStep` claims the token; the `Start*`, `Stop*`, `Delete*`
actions follow the code from the claim to the last save; `CreateReserve`,
`CloneReserve`, `NewCheck`, `NewVM`, `NewCommit`, `UndoVM`, `UndoMetadata` are the
making of a node with its rollback; `Cleanup*` and `Repair*` are
`cleanup-incomplete` and `doctor --repair`. A runtime command may fail having
done its work or not. The guest's bootstrap is one step that succeeds or fails;
ports, workspaces and the contents of templates are left out.

Properties: `NoLostUpdate` (the copy saved after unlocked work is not stale),
`LiveOperationUndisturbed`, `NodeHasItsInstance`, `OneNodePerName`,
`NoOrphanInstance` (every instance has a record or reservation that leads to
it), `RecordKept` (no committed record is removed), `OperationsReturn`.

The code leaves two uses open that break instance ownership; the constant
`Usage` excludes them where a configuration asks for what holds otherwise:
`"live targets"` (no operation on an already deleted node) and `"quiet cleanup"`
(cleanup-incomplete does not overlap the making of a node). Two configurations
show what happens without them, see Findings.

### LockSet

A lock is its place in the acquisition order and stands for the metadata it
protects. Processes take the set of a section one flock at a time, by polling,
may be cancelled while they wait or die at any point; a section reads, then
writes. `seedAndRepair` with its stamp check, the nested per-node acquisition and
the pass over environments and nodes is modelled step by step. Properties:
`OrderedAcquisition`, `NoLostUpdate` (sections are atomic), `SeededOnce`,
`SomebodyEnters` (waiting processes never block each other for good; a single
one may be overtaken for ever, because a polled flock has no queue).

### NodeOperations and OperationReceipts

The daemon's operation manager: `Submit` looks at the records twice, with the
resolution of names in between outside the mutex; `Admit` reserves keys, writes
the receipt and starts the worker; the worker runs service calls, saves phases,
and settles; `Cancel`, `Close`, crash and recovery may come at any time, and
every write of a receipt may fail before or after it took effect. A batch owns
the keys of all its members and begins them as slots become free. Properties:
`AtMostOnce`, `Exclusive`, `AcceptedIsDurable`, `CancelStops`, `NoFalseSuccess`,
`MembersAgree`, `WithinLimits`, `Settles`.

`OperationReceipts` is what a client may rely on: a receipt, once given, moves
only along running, canceling, an outcome; an outcome is final unless the daemon
forgets it after the retention period. `KeepsPromise` is the refinement: the
manager implements it under the mapping that reads a receipt from memory while
the daemon is up and from disk while it is down.

### DaemonHost

Two daemon processes, their lists of tabs, `session.json`, the PTY descriptors
and reading pumps of each, threads for requests and closed events, and every
step of the live update of exporter and importer: barrier, quiescing, spawn,
manifest, release of the listeners, adoption, bind, `committed`, and the rollback
from every point. Properties: `OneReader` (never two daemons reading one PTY),
`NoTabLost` (a tab whose shell lives and that nobody closed stays owned by
somebody), `SessionCovers` (session.json names the user's tabs whenever no daemon
serves), `SessionIsList` (it is the current list when nothing is in flight),
`DeletedHaveNoTabs`.

`Straddle = FALSE` assumes that no resize or closed event that already tested
`replaced` waits while a daemon empties its list; `late_persist` shows what
happens if one does.

### EventStream

One window, one daemon (started again after a stop or crash), publishers that
first change the tabs and then broadcast, the heartbeat, the subscription with
bounded optimistic captures and the exclusive one, the outbound queue with its
bound and two priorities, the connection supervisor, and the window's own queue
and loop. Properties: `NoEventSkipped` (whatever the window's sequence has
passed, the window was told), `NoMissingTab` (a settled, ready window shows every
tab), `CatchesUp` (a window always gets ready again, or the daemon is down).

`HeartbeatRaces = FALSE` assumes that no heartbeat is queued between a
broadcast's revision and its frame; `heartbeat_overtakes` drops it. Left out: the
request connection with the optimistic open, the order of tabs, clipboard events
(which carry no sequence) and the epoch (a connection never spans two
processes).

## What the runs show

| Run | Instance | Result |
|---|---|---|
| `lifecycle` | 2 processes, 3 ids, 2 names, all nine commands, both usage assumptions | safety holds |
| `lifecycle_live` | 2 processes, 2 ids, 1 name; create, delete, cleanup, repair; no usage assumption; fair | safety and termination hold |
| `cleanup_race` | as above without "quiet cleanup" | `CleanupSparesNodes` fails |
| `stale_delete` | without "live targets" | `DeleteSparesOthers` fails |
| `locks` | 2 processes, 2 nodes, every section, cancels and crashes; fair | holds |
| `ops_single` | 2 connections, create, clone with start, stop, delete, one id used twice; service failures and crashes | holds |
| `ops_faults` | 1 node, every kind of fault | holds, refines OperationReceipts |
| `ops_batch` | a batch of two beside a single operation, limits of 2, shutdowns; fair | holds |
| `host` | 2 daemons, 2 tabs of one node, 2 handlers, at most 4 requests, all faults | holds |
| `late_persist` | open, resize and update, straddling allowed | `SessionCovers` fails |
| `events` | 2 tabs, 2 changes, 1 heartbeat, 1 fault, queues of 2 and 1; fair | holds |
| `heartbeat_overtakes` | no fault, heartbeat may race | `NoMissingTab` fails |

Why these bounds are enough to be interesting. Two processes and one shared name
already produce every pairwise overlap of two operations; a third id lets a
clone and a create compete with an existing node. Two nodes give the lock order
a per-node part with more than one element. One id used by two requests, and two
connections, reach every interleaving of the two looks of `Submit`. Two daemons
are all an update involves; `MaxAsks` = 4 requests is an open, a second one, and
two that overlap with the update. Two changes are needed for two broadcasts to
overtake each other; a queue of two frames is full with both of them; one capture
attempt makes the exclusive cut reachable.

Deadlock checking is off where the instance bounds the number of requests or the
system may rest (all of them): absence of blocking is stated by the liveness
properties instead.

Fairness. `lifecycle_live`: a process that is not dead takes its next step, since
runtime commands have timeouts and flocks are polled under a context; nothing
makes anybody issue a command. `locks`: the same, and a process whose lock is free
eventually gets some lock. `ops_batch`: workers go on and a daemon with unfinished
receipts is started again, which is what a waiting client does. `events`: every
goroutine that can run does, and the supervisor redials; nothing forces a daemon
to be started. No fairness is asked of faults, crashes or users.

## Findings

* `cleanup_race`: `NodeCleanupIncomplete` (service.go:1241) deletes an instance
  on the strength of a scan made before it claimed the token; a create that
  commits in between loses its VM. The metadata is checked again, the instance is
  not.
* `stale_delete`: `deleteNode` (service.go:2076) accepts a tombstone and deletes
  the instance that has its old name now. The environment test code guards
  against exactly this.
* `late_persist`: `persist` (daemon_host.go:1192) tests `replaced` before it waits
  for the mutex under which it reads the list; a resize can write the empty list
  over the successor's session.
* `heartbeat_overtakes`: `heartbeatLoop` (daemon/server.go:314) may queue revision
  N before event N; the window then skips event N as old. `plans/sep_7_plan.md`
  R01 names the same ordering.

## What is proved

`NodeLifecycleProofs`, for every set of processes, ids, names and commands, with
no usage assumption: `TypeCorrect`, `TokenProtects` (`LiveOperationUndisturbed`),
`NoUpdateLost` (`NoLostUpdate`), `RecordsAreKept` (`RecordKept`). They assume only
that the constants name existing commands and that `None` is none of the values.
The inductive invariant is `IndInv`: the types; an id not handed out yet is
absent, has no token and occurs in no operation (`FreshUnknown`); and for each
process `Own(p)`, what the token buys it at each step: which tokens it holds, the
status its node has, that its copy equals the record up to that status, and that
a reservation it is turning into a node is still its own. None of the stated
properties is inductive alone: that nobody else writes a record follows from
token ownership, that cleanup removes no committed record follows from its
re-check under the lock together with the token it holds. `NextInv` has one step
per action.

`LockSetProofs`, for every set of processes, nodes and sections: `TypeCorrect`,
`Ordered` (`OrderedAcquisition`: no circular wait can arise) and `SectionsAtomic`
(`NoLostUpdate`). `OrderInv` says for each label which locks a process holds and
still wants (the per-node locks come after all global ones); `AtomInv` adds that
what a process has read is covered by locks it holds or, for the list of nodes
the seed pass works through, by the global nodes lock.

Only model-checked: every liveness property (temporal reasoning under fairness is
out of the provers' reach here); `NodeHasItsInstance`, `OneNodePerName`,
`NoOrphanInstance`, `SeededOnce`; NodeOperations with its refinement; DaemonHost;
EventStream.

## Plan

In this order; each step adds a module, its configuration and its properties.

1. Renderer: journal ids, trimming and coalesced resizes; start, replay and
   `replayThrough`; the worker's reorder buffer; frames of old generations;
   restart budget, poison escape, degraded mode with its retry; answers to
   queries. No event is lost, repeated or reordered across restarts; degraded is
   never for ever. Abstract specification: a terminal that applies the output in
   order.
2. Seat: takeover against latest-value lanes, ordered input lanes, pending calls
   of the client across reconnects; a resize of a window without the seat is
   never applied after the takeover.
3. AttachGate: an application's query is answered exactly once.
4. Forwarding with the runtime observer: membership, peers, lapsed routes, the
   claimant of a port, pins across live updates.
5. EnvironmentTest and Bootstrap: retried cleanup, resumed steps; composed with
   NodeLifecycle.
6. Catalog, Window, History: references between templates and environments;
   overlapping refreshes and tab order; bounded logs as algorithms checked
   against a reference definition.
7. Theorems: `AtMostOnce`, `Exclusive` and the refinement of NodeOperations;
   `OneReader` of DaemonHost; `NoEventSkipped` of EventStream; the instance
   invariants of NodeLifecycle.

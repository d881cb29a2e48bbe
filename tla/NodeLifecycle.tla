--------------------------- MODULE NodeLifecycle ---------------------------
(***************************************************************************)
(* The node lifecycle of internal/codelima/service.go: node create, start, *)
(* retry, stop, restart, delete, clone, cleanup-incomplete and the         *)
(* stale-claim repair of doctor, run by concurrent processes over one      *)
(* metadata home and one Lima runtime.                                     *)
(*                                                                         *)
(* A process is one running command: a daemon operation, a CLI process or  *)
(* an SDK caller.  It holds a metadata flock only inside one step of this  *)
(* model (module LockSet says why such a section is atomic); every runtime *)
(* call, and every gap between two locked sections, is a step of its own.  *)
(* A node's liveness token (locks.go) is held across the steps of an       *)
(* operation and is dropped by the kernel when the process dies.           *)
(***************************************************************************)
EXTENDS Integers, FiniteSets

CONSTANTS Procs,   \* running commands
          Ids,     \* node ids; newID() never returns the same one twice
          Names,   \* node slugs; the sandbox name is the slug (service.go:2349)
          Kinds,   \* the commands this instance runs
          Usage,   \* what is assumed of how commands are used; {} is the code alone
          None     \* no id, no process, no name

ASSUME KindsAssumption ==
  Kinds \subseteq {"create", "start", "retry", "stop", "restart", "delete",
                   "clone", "cleanup", "repair"}

\* The code enforces neither assumption:
\*   "live targets"   no operation gets hold of a node that is already deleted;
\*   "quiet cleanup"  cleanup-incomplete never overlaps the making of a node.
ASSUME UsageAssumption == Usage \subseteq {"live targets", "quiet cleanup"}

ASSUME NoneAssumption == None \notin Procs \cup Ids \cup Names

VARIABLES node,        \* what nodes/<id>/ holds: no directory, a reservation, a record
          byInstance,  \* _index/nodes/by-instance
          token,       \* who holds the liveness token of a node
          vm,          \* the Lima instances, by name
          fresh,       \* ids not handed out yet
          pc,          \* between which two steps of its operation a process is
          op           \* the local variables of that operation

vars == <<node, byInstance, token, vm, fresh, pc, op>>

-----------------------------------------------------------------------------
(* Statuses and records.                                                   *)

InFlight == {"provisioning", "registering", "terminating"}

Statuses == InFlight \cup {"created", "running", "stopped", "failed", "terminated"}

\* A directory without node.yaml is a reservation: it holds only sandbox.ref.
Absent == [status |-> "absent", slug |-> None, deleted |-> FALSE]
Reserved(s) == [status |-> "reserved", slug |-> s, deleted |-> FALSE]

Record == [status: Statuses \cup {"absent", "reserved"},
           slug: Names \cup {None}, deleted: BOOLEAN]

nodeMetadataExists(i) == node[i].status \in Statuses

AcceptsRuntimeSighting(status) == status \notin InFlight \cup {"failed", "terminated"}

\* ListNodes(FALSE): every readable record that is not a tombstone.
ListNodes == {i \in Ids : nodeMetadataExists(i) /\ ~node[i].deleted}

\* owner is a history field: the node an instance was made for.
NoVM == [owner |-> None, state |-> "none"]
VM == [owner: Ids \cup {None}, state: {"none", "stopped", "running"}]

Item == [id: Ids, name: Names \cup {None}]

OpRecord == [kind: Kinds \cup {None}, id: Ids \cup {None}, node: Record,
             prev: Statuses \cup {None}, child: Ids \cup {None}, name: Names \cup {None},
             wasRunning: BOOLEAN, todo: SUBSET Item, seen: SUBSET Names]

NoOp == [kind |-> None, id |-> None, node |-> Absent, prev |-> None,
         child |-> None, name |-> None, wasRunning |-> FALSE, todo |-> {}, seen |-> {}]

Init == /\ node = [i \in Ids |-> Absent]
        /\ byInstance = [n \in Names |-> None]
        /\ token = [i \in Ids |-> None]
        /\ vm = [n \in Names |-> NoVM]
        /\ fresh = Ids
        /\ pc = [p \in Procs |-> "idle"]
        /\ op = [p \in Procs |-> NoOp]

-----------------------------------------------------------------------------
(* The pieces operations are made of.                                      *)

\* The labels of a process: between which two steps of its operation it is.
Starting == {"start_observe", "start_boot", "start_guest", "start_commit"}
Stopping == {"stop_observe", "stop_vm", "stop_confirm"}
Deleting == {"delete_vm", "delete_commit"}
Making == {"new_check", "new_vm", "clone_settle", "new_commit", "undo_vm", "undo_metadata"}
Cleaning == {"cleanup_list", "cleanup_item", "cleanup_vm", "cleanup_metadata"}
Cloning == {"clone_observe", "clone_stop", "clone_reserve", "clone_restart"}

Labels == {"idle", "claim", "start_begin", "stop_begin", "delete_begin", "clone_begin",
           "reconcile", "repair_item", "repair_fix"}
            \cup Starting \cup Stopping \cup Deleting \cup Cloning \cup Making \cup Cleaning

At(p, label) == pc[p] = label

Goto(p, label) == pc' = [pc EXCEPT ![p] = label] /\ UNCHANGED op

Move(p, label, o) == /\ pc' = [pc EXCEPT ![p] = label]
                     /\ op' = [op EXCEPT ![p] = o]

Released(p) == [i \in Ids |-> IF token[i] = p THEN None ELSE token[i]]

\* The operation returns: its deferred token releases run.
Return(p) == Move(p, "idle", NoOp) /\ token' = Released(p)

\* Store.SaveNode: the record, then its index entry, which a tombstone gives up.
SaveNode(i, rec) ==
  /\ node' = [node EXCEPT ![i] = rec]
  /\ byInstance' = [byInstance EXCEPT ![rec.slug] =
                      IF rec.deleted \/ rec.status = "terminated" THEN None ELSE i]

\* Store.RemoveIncompleteNodeMetadata: the index entry goes whoever owns it.
RemoveIncompleteNodeMetadata(i, n) ==
  /\ node' = [node EXCEPT ![i] = Absent]
  /\ byInstance' = [byInstance EXCEPT ![n] = None]

\* recoverStaleNodeClaim: the record it leaves, and the save it makes of it.
Recovered(rec) == IF rec.status \in InFlight THEN [rec EXCEPT !.status = "failed"] ELSE rec
RecoverStaleNodeClaim(i) ==
  IF node[i].status \in InFlight
  THEN SaveNode(i, Recovered(node[i]))
  ELSE UNCHANGED <<node, byInstance>>

\* reconcileNodeWithObservations for an instance observed in state s.
Reconciled(rec, s) ==
  IF s \in {"running", "stopped"} /\ AcceptsRuntimeSighting(rec.status)
  THEN [rec EXCEPT !.status = s] ELSE rec

\* What a cached List may say of an instance: it exists, its state may be old.
CachedStates(n) == IF vm[n].state = "none" THEN {"none"} ELSE {"stopped", "running"}

\* A failed runtime command may have done its work before it failed.
SetState(n, s) == vm' = [vm EXCEPT ![n].state = s]
MaySetState(n, s) == vm' = vm \/ SetState(n, s)

SandboxDelete(n) == vm' = [vm EXCEPT ![n] = NoVM]

\* LimaClient.Delete stops a running instance before it removes it, and either
\* command may fail.
SandboxDeleteFails(n) == MaySetState(n, IF vm[n].state = "none" THEN "none" ELSE "stopped")

-----------------------------------------------------------------------------
(* Resolving a node takes no lock; NodeByIDOrSlug falls back to tombstones. *)

Resolve(p, k, i) ==
  /\ At(p, "idle")
  /\ k \in Kinds \cap {"start", "retry", "stop", "restart", "delete", "clone"}
  /\ nodeMetadataExists(i)
  /\ Move(p, "claim", [NoOp EXCEPT !.kind = k, !.id = i])
  /\ UNCHANGED <<node, byInstance, token, vm, fresh>>

FirstStep(k) ==
  CASE k \in {"start", "retry"} -> "start_begin"
    [] k \in {"stop", "restart"} -> "stop_begin"
    [] k = "delete" -> "delete_begin"
    [] k = "clone" -> "clone_begin"

\* claimNodeOperation fails fast.  It is also refused while another process
\* probes the token (nodeOperationClaimed takes the flock to look at it).
ClaimNodeOperation(p) ==
  LET i == op[p].id IN
  /\ At(p, "claim")
  /\ \/ /\ token[i] = None
        /\ "live targets" \in Usage => ~node[i].deleted
        /\ token' = [token EXCEPT ![i] = p]
        /\ Goto(p, FirstStep(op[p].kind))
     \/ Return(p)
  /\ UNCHANGED <<node, byInstance, vm, fresh>>

-----------------------------------------------------------------------------
(* node start, node retry, and the second half of node restart.            *)

\* A section whose lock is not acquired leaves the record as it is; a retry of
\* a node that has not failed, or a step list that cannot be resumed, is
\* refused after a stale claim was recovered.  (An event that cannot be
\* appended after a save returns with the save made, as Crash does.)
StartBegin(p) ==
  LET i == op[p].id
      rec == Recovered(node[i])
  IN
  /\ At(p, "start_begin")
  /\ \/ /\ op[p].kind = "retry" => rec.status = "failed"
        /\ SaveNode(i, [rec EXCEPT !.status = "provisioning"])
        /\ Move(p, "start_observe", [op[p] EXCEPT !.prev = rec.status,
                                                  !.node = [rec EXCEPT !.status = "provisioning"]])
        /\ UNCHANGED token
     \/ RecoverStaleNodeClaim(i) /\ Return(p)
     \/ UNCHANGED <<node, byInstance>> /\ Return(p)
  /\ UNCHANGED <<vm, fresh>>

\* restoreNodeStatus, then the error return.
RestoreNodeStatus(p) ==
  LET i == op[p].id IN
  /\ \/ node[i].status \in InFlight /\ SaveNode(i, [node[i] EXCEPT !.status = op[p].prev])
     \/ UNCHANGED <<node, byInstance>>
  /\ Return(p)

\* The uncached observation that decides whether to boot.
StartObserve(p) ==
  /\ At(p, "start_observe")
  /\ \/ /\ Goto(p, IF vm[op[p].node.slug].state = "running"
                   THEN "start_guest" ELSE "start_boot")
        /\ UNCHANGED <<node, byInstance, token>>
     \/ RestoreNodeStatus(p)
  /\ UNCHANGED <<vm, fresh>>

\* ensureNodeHostPortsAvailable, PrepareApplicationForwarding with its save,
\* and the boot.  A save that fails returns without restoring the status.
StartBoot(p) ==
  LET n == op[p].node.slug IN
  /\ At(p, "start_boot")
  /\ \/ /\ vm[n].state # "none"
        /\ SetState(n, "running")
        /\ SaveNode(op[p].id, op[p].node)
        /\ Goto(p, "start_guest")
        /\ UNCHANGED token
     \/ /\ IF vm[n].state = "none" THEN UNCHANGED vm ELSE MaySetState(n, "running")
        /\ RestoreNodeStatus(p)
     \/ UNCHANGED <<node, byInstance, vm>> /\ Return(p)
  /\ UNCHANGED fresh

\* Credentials, workspace, bootstrap and validation, whose own steps change
\* nothing another operation reads.  recordNodeStartRollback records a failure.
StartGuest(p) ==
  /\ At(p, "start_guest")
  /\ \/ /\ SaveNode(op[p].id, op[p].node)
        /\ Goto(p, "start_commit")
        /\ UNCHANGED token
     \/ /\ SaveNode(op[p].id, [op[p].node EXCEPT !.status = "failed"])
        /\ Return(p)
     \/ UNCHANGED <<node, byInstance>> /\ Return(p)
  /\ UNCHANGED <<vm, fresh>>

StartCommit(p) ==
  LET rec == [op[p].node EXCEPT !.status = "running"] IN
  /\ At(p, "start_commit")
  /\ \/ /\ SaveNode(op[p].id, rec)
        /\ Move(p, "reconcile", [op[p] EXCEPT !.node = rec])
        /\ UNCHANGED token
     \/ UNCHANGED <<node, byInstance>> /\ Return(p)
  /\ UNCHANGED <<vm, fresh>>

\* reconcileNodePersisted at the end of a start and of a clone's restart: it
\* saves the copy of the record this process holds.
ReconcilePersisted(p) ==
  LET rec == op[p].node IN
  /\ At(p, "reconcile")
  /\ \/ \E s \in CachedStates(rec.slug) : SaveNode(op[p].id, Reconciled(rec, s))
     \/ UNCHANGED <<node, byInstance>>
  /\ Return(p)
  /\ UNCHANGED <<vm, fresh>>

-----------------------------------------------------------------------------
(* node stop, and the first half of node restart.                          *)

StopBegin(p) ==
  LET i == op[p].id
      rec == Recovered(node[i])
  IN
  /\ At(p, "stop_begin")
  /\ \/ /\ RecoverStaleNodeClaim(i)
        /\ Move(p, "stop_observe", [op[p] EXCEPT !.node = rec])
        /\ UNCHANGED token
     \/ UNCHANGED <<node, byInstance>> /\ Return(p)
  /\ UNCHANGED <<vm, fresh>>

\* Mutant of StopDone: a restart gives its token back between stop and start.
StopDone_RestartReleases(p) ==
  /\ SaveNode(op[p].id, [op[p].node EXCEPT !.status = "stopped"])
  /\ IF op[p].kind = "restart"
     THEN Goto(p, "start_begin") /\ token' = Released(p)
     ELSE Return(p)

\* nodeStopClaimed has saved the stopped record; a restart goes on to start.
StopDone(p) ==
  /\ SaveNode(op[p].id, [op[p].node EXCEPT !.status = "stopped"])
  /\ IF op[p].kind = "restart"
     THEN Goto(p, "start_begin") /\ UNCHANGED token
     ELSE Return(p)

StopObserve(p) ==
  LET s == vm[op[p].node.slug].state IN
  /\ At(p, "stop_observe")
  /\ \/ s # "running" /\ StopDone(p)
     \/ /\ s = "running"
        /\ Move(p, "stop_vm", [op[p] EXCEPT !.node = Reconciled(@, s)])
        /\ UNCHANGED <<node, byInstance, token>>
     \/ UNCHANGED <<node, byInstance>> /\ Return(p)
  /\ UNCHANGED <<vm, fresh>>

StopVM(p) ==
  LET n == op[p].node.slug IN
  /\ At(p, "stop_vm")
  /\ \/ vm[n].state # "none" /\ SetState(n, "stopped") /\ Goto(p, "stop_confirm") /\ UNCHANGED token
     \/ (IF vm[n].state = "none" THEN UNCHANGED vm ELSE MaySetState(n, "stopped")) /\ Return(p)
  /\ UNCHANGED <<node, byInstance, fresh>>

\* The second uncached observation must confirm the stop.
StopConfirm(p) ==
  /\ At(p, "stop_confirm")
  /\ \/ vm[op[p].node.slug].state # "running" /\ StopDone(p)
     \/ UNCHANGED <<node, byInstance>> /\ Return(p)
  /\ UNCHANGED <<vm, fresh>>

-----------------------------------------------------------------------------
(* node delete.                                                            *)

DeleteBegin(p) ==
  LET i == op[p].id
      rec == [node[i] EXCEPT !.status = "terminating"]
  IN
  /\ At(p, "delete_begin")
  /\ \/ /\ SaveNode(i, rec)
        /\ Move(p, "delete_vm", [op[p] EXCEPT !.node = rec])
        /\ UNCHANGED token
     \/ UNCHANGED <<node, byInstance>> /\ Return(p)
  /\ UNCHANGED <<vm, fresh>>

\* A failed delete keeps the record terminating and gives the token back.
DeleteVM(p) ==
  LET n == op[p].node.slug IN
  /\ At(p, "delete_vm")
  /\ \/ SandboxDelete(n) /\ Goto(p, "delete_commit") /\ UNCHANGED token
     \/ SandboxDeleteFails(n) /\ Return(p)
  /\ UNCHANGED <<node, byInstance, fresh>>

DeleteCommit(p) ==
  /\ At(p, "delete_commit")
  /\ \/ SaveNode(op[p].id, [op[p].node EXCEPT !.status = "terminated", !.deleted = TRUE])
     \/ UNCHANGED <<node, byInstance>>
  /\ Return(p)
  /\ UNCHANGED <<vm, fresh>>

-----------------------------------------------------------------------------
(* node create, and the child half of node clone.                          *)

\* ensureUniqueNodeSlug and generateSandboxName (whose scan of the records adds
\* nothing to the slug's, the sandbox name being the slug).
NameAvailable(s) ==
  /\ \A i \in ListNodes : node[i].slug # s
  /\ byInstance[s] = None

\* The cross-node section, under the global nodes lock: name the node, claim
\* its token, write the reservation.
ReserveNode(p, i, s) ==
  /\ "quiet cleanup" \in Usage => \A q \in Procs : pc[q] \notin Cleaning
  /\ i \in fresh
  /\ NameAvailable(s)
  /\ fresh' = fresh \ {i}
  /\ token' = [token EXCEPT ![i] = p]
  /\ node' = [node EXCEPT ![i] = Reserved(s)]
  /\ byInstance' = [byInstance EXCEPT ![s] = i]

CreateReserve(p, i, s) ==
  /\ At(p, "idle")
  /\ "create" \in Kinds
  /\ ReserveNode(p, i, s)
  /\ Move(p, "new_check", [NoOp EXCEPT !.kind = "create", !.child = i, !.name = s])
  /\ UNCHANGED vm

\* What is left of the operation once the new node is committed or undone:
\* the child's token goes first, then a clone owes its source a restart.
NewNodeDone(p) ==
  IF op[p].wasRunning
  THEN /\ token' = [token EXCEPT ![op[p].child] = None]
       /\ Move(p, "clone_restart", [op[p] EXCEPT !.child = None, !.name = None])
  ELSE Return(p)

\* Create and Clone list the runtime first.  Whatever fails before the limactl
\* command fails without the runtimeMutationError marker, so the rollback
\* removes metadata only.
NewCheck(p) ==
  LET sourceMissing == op[p].kind = "clone" /\ vm[op[p].node.slug].state = "none"
      taken == vm[op[p].name].state # "none"
  IN
  /\ At(p, "new_check")
  /\ \/ ~sourceMissing /\ ~taken /\ Goto(p, "new_vm")
     \/ Goto(p, "undo_metadata")
  /\ UNCHANGED <<node, byInstance, token, vm, fresh>>

\* The limactl command.  It refuses a name that is in use, and a failure may
\* leave an instance behind: both come back marked as a possible mutation.
NewVM(p) ==
  LET n == op[p].name
      made == [owner |-> op[p].child, state |-> "stopped"]
  IN
  /\ At(p, "new_vm")
  /\ \/ /\ vm[n].state = "none"
        /\ vm' = [vm EXCEPT ![n] = made]
        /\ Goto(p, IF op[p].kind = "clone" THEN "clone_settle" ELSE "new_commit")
     \/ /\ vm' = vm \/ (vm[n].state = "none" /\ vm' = [vm EXCEPT ![n] = made])
        /\ Goto(p, "undo_vm")
  /\ UNCHANGED <<node, byInstance, token, fresh>>

\* A clone observes its child and stops it if it runs.
CloneSettle(p) ==
  /\ At(p, "clone_settle")
  /\ \/ SetState(op[p].name, "stopped") /\ Goto(p, "new_commit")
     \/ UNCHANGED vm /\ Goto(p, "undo_vm")
  /\ UNCHANGED <<node, byInstance, token, fresh>>

\* A created node is saved as created; a clone's child as it was observed.
NewStatuses(k) == IF k = "clone" THEN {"created", "stopped"} ELSE {"created"}

NewCommit(p) ==
  /\ At(p, "new_commit")
  /\ \/ /\ \E st \in NewStatuses(op[p].kind) :
             SaveNode(op[p].child, [status |-> st, slug |-> op[p].name, deleted |-> FALSE])
        /\ NewNodeDone(p)
     \/ Goto(p, "undo_vm") /\ UNCHANGED <<node, byInstance, token>>
  /\ UNCHANGED <<vm, fresh>>

\* Mutant of UndoVM: the metadata goes even if the instance could not be removed.
UndoVM_Forgets(p) ==
  /\ At(p, "undo_vm")
  /\ SandboxDelete(op[p].name) \/ SandboxDeleteFails(op[p].name)
  /\ Goto(p, "undo_metadata")
  /\ UNCHANGED <<node, byInstance, token, fresh>>

\* If the instance cannot be removed the reservation stays, so that
\* cleanup-incomplete can find the instance.
UndoVM(p) ==
  /\ At(p, "undo_vm")
  /\ \/ SandboxDelete(op[p].name) /\ Goto(p, "undo_metadata") /\ UNCHANGED token
     \/ SandboxDeleteFails(op[p].name) /\ NewNodeDone(p)
  /\ UNCHANGED <<node, byInstance, fresh>>

UndoMetadata(p) ==
  /\ At(p, "undo_metadata")
  /\ \/ RemoveIncompleteNodeMetadata(op[p].child, op[p].name)
     \/ UNCHANGED <<node, byInstance>>
  /\ NewNodeDone(p)
  /\ UNCHANGED <<vm, fresh>>

-----------------------------------------------------------------------------
(* node clone, the source half.                                            *)

CloneBegin(p) ==
  LET i == op[p].id
      rec == Recovered(node[i])
  IN
  /\ At(p, "clone_begin")
  /\ \/ /\ RecoverStaleNodeClaim(i)
        /\ Move(p, "clone_observe", [op[p] EXCEPT !.node = rec])
        /\ UNCHANGED token
     \/ UNCHANGED <<node, byInstance>> /\ Return(p)
  /\ UNCHANGED <<vm, fresh>>

CloneObserve(p) ==
  /\ At(p, "clone_observe")
  /\ \/ /\ \E s \in CachedStates(op[p].node.slug) :
             Move(p, IF s = "running" THEN "clone_stop" ELSE "clone_reserve",
                  [op[p] EXCEPT !.node = Reconciled(@, s)])
        /\ UNCHANGED token
     \/ Return(p)
  /\ UNCHANGED <<node, byInstance, vm, fresh>>

\* The restart is registered only once Stop has succeeded.
CloneStop(p) ==
  LET n == op[p].node.slug IN
  /\ At(p, "clone_stop")
  /\ \/ /\ vm[n].state # "none"
        /\ SetState(n, "stopped")
        /\ Move(p, "clone_reserve", [op[p] EXCEPT !.wasRunning = TRUE])
        /\ UNCHANGED token
     \/ (IF vm[n].state = "none" THEN UNCHANGED vm ELSE MaySetState(n, "stopped")) /\ Return(p)
  /\ UNCHANGED <<node, byInstance, fresh>>

CloneReserve(p, i, s) ==
  /\ At(p, "clone_reserve")
  /\ ReserveNode(p, i, s)
  /\ Move(p, "new_check", [op[p] EXCEPT !.child = i, !.name = s])
  /\ UNCHANGED vm

CloneReserveFails(p) ==
  /\ At(p, "clone_reserve")
  /\ IF op[p].wasRunning
     THEN Goto(p, "clone_restart") /\ UNCHANGED token
     ELSE Return(p)
  /\ UNCHANGED <<node, byInstance, vm, fresh>>

\* The source is put back on a fresh context, however the clone ended.
CloneRestart(p) ==
  LET n == op[p].node.slug IN
  /\ At(p, "clone_restart")
  /\ \/ vm[n].state # "none" /\ SetState(n, "running") /\ Goto(p, "reconcile") /\ UNCHANGED token
     \/ (IF vm[n].state = "none" THEN UNCHANGED vm ELSE MaySetState(n, "running")) /\ Return(p)
  /\ UNCHANGED <<node, byInstance, fresh>>

-----------------------------------------------------------------------------
(* node cleanup-incomplete --apply.                                        *)

Incomplete == {[id |-> i, name |-> node[i].slug] : i \in {j \in Ids : node[j].status = "reserved"}}

CleanupScan(p) ==
  /\ At(p, "idle")
  /\ "cleanup" \in Kinds
  /\ "quiet cleanup" \in Usage => \A q \in Procs : pc[q] \notin Making
  /\ Incomplete # {}
  /\ Move(p, "cleanup_list", [NoOp EXCEPT !.kind = "cleanup", !.todo = Incomplete])
  /\ UNCHANGED <<node, byInstance, token, vm, fresh>>

CleanupList(p) ==
  /\ At(p, "cleanup_list")
  /\ \/ /\ Move(p, "cleanup_item", [op[p] EXCEPT !.seen = {n \in Names : vm[n].state # "none"}])
        /\ UNCHANGED token
     \/ Return(p)
  /\ UNCHANGED <<node, byInstance, vm, fresh>>

\* Mutant of CleanupItem: a held token does not mean a live create.
CleanupItem_IgnoresToken(p, item) ==
  /\ At(p, "cleanup_item")
  /\ item \in op[p].todo
  /\ token' = [token EXCEPT ![item.id] = p]
  /\ Move(p, IF item.name \in op[p].seen THEN "cleanup_vm" ELSE "cleanup_metadata",
          [op[p] EXCEPT !.child = item.id, !.name = item.name, !.todo = @ \ {item}])
  /\ UNCHANGED <<node, byInstance, vm, fresh>>

\* The next item: a held token means a live create.
CleanupItem(p, item) ==
  /\ At(p, "cleanup_item")
  /\ item \in op[p].todo
  /\ \/ /\ token[item.id] = None
        /\ token' = [token EXCEPT ![item.id] = p]
        /\ Move(p, IF item.name \in op[p].seen THEN "cleanup_vm" ELSE "cleanup_metadata",
                [op[p] EXCEPT !.child = item.id, !.name = item.name, !.todo = @ \ {item}])
     \/ /\ token[item.id] # None
        /\ Move(p, "cleanup_item", [op[p] EXCEPT !.todo = @ \ {item}])
        /\ UNCHANGED token
  /\ UNCHANGED <<node, byInstance, vm, fresh>>

NextItem(p) ==
  /\ token' = [token EXCEPT ![op[p].child] = None]
  /\ Move(p, "cleanup_item", [op[p] EXCEPT !.child = None, !.name = None])

CleanupVM(p) ==
  LET n == op[p].name IN
  /\ At(p, "cleanup_vm")
  /\ \/ SandboxDelete(n) /\ Goto(p, "cleanup_metadata") /\ UNCHANGED token
     \/ SandboxDeleteFails(n) /\ NextItem(p)
  /\ UNCHANGED <<node, byInstance, fresh>>

\* Mutant of CleanupMetadata: no second look at node.yaml under the lock.
CleanupMetadata_NoRecheck(p) ==
  /\ At(p, "cleanup_metadata")
  /\ RemoveIncompleteNodeMetadata(op[p].child, op[p].name)
  /\ NextItem(p)
  /\ UNCHANGED <<vm, fresh>>

CleanupMetadata(p) ==
  LET i == op[p].child IN
  /\ At(p, "cleanup_metadata")
  /\ \/ /\ IF nodeMetadataExists(i)
           THEN UNCHANGED <<node, byInstance>>
           ELSE RemoveIncompleteNodeMetadata(i, op[p].name)
        /\ NextItem(p)
     \/ UNCHANGED <<node, byInstance>> /\ Return(p)
  /\ UNCHANGED <<vm, fresh>>

CleanupDone(p) ==
  /\ At(p, "cleanup_item")
  /\ op[p].todo = {}
  /\ Return(p)
  /\ UNCHANGED <<node, byInstance, vm, fresh>>

-----------------------------------------------------------------------------
(* doctor --repair: repairStaleNodeClaims.                                 *)

StaleClaims == {i \in Ids : node[i].status \in InFlight /\ token[i] = None}

\* staleNodeClaims scans without a lock.
RepairScan(p) ==
  /\ At(p, "idle")
  /\ "repair" \in Kinds
  /\ StaleClaims # {}
  /\ Move(p, "repair_item", [NoOp EXCEPT !.kind = "repair",
                               !.todo = {[id |-> i, name |-> node[i].slug] : i \in StaleClaims}])
  /\ UNCHANGED <<node, byInstance, token, vm, fresh>>

RepairItem(p, item) ==
  /\ At(p, "repair_item")
  /\ item \in op[p].todo
  /\ \/ /\ token[item.id] = None
        /\ token' = [token EXCEPT ![item.id] = p]
        /\ Move(p, "repair_fix", [op[p] EXCEPT !.child = item.id, !.todo = @ \ {item}])
     \/ /\ token[item.id] # None
        /\ Move(p, "repair_item", [op[p] EXCEPT !.todo = @ \ {item}])
        /\ UNCHANGED token
  /\ UNCHANGED <<node, byInstance, vm, fresh>>

RepairFix(p) ==
  LET i == op[p].child IN
  /\ At(p, "repair_fix")
  /\ \/ /\ IF node[i].status \in InFlight
           THEN SaveNode(i, Recovered(node[i])) ELSE UNCHANGED <<node, byInstance>>
        /\ token' = [token EXCEPT ![i] = None]
        /\ Move(p, "repair_item", [op[p] EXCEPT !.child = None])
     \/ UNCHANGED <<node, byInstance>> /\ Return(p)
  /\ UNCHANGED <<vm, fresh>>

RepairDone(p) ==
  /\ At(p, "repair_item")
  /\ op[p].todo = {}
  /\ Return(p)
  /\ UNCHANGED <<node, byInstance, vm, fresh>>

-----------------------------------------------------------------------------
(* The environment.                                                        *)

\* The process dies: its flocks and tokens go with it, the disk stays.
Crash(p) ==
  /\ ~At(p, "idle")
  /\ Return(p)
  /\ UNCHANGED <<node, byInstance, vm, fresh>>

\* A guest powers itself off.
PowerOff(n) ==
  /\ vm[n].state = "running"
  /\ SetState(n, "stopped")
  /\ UNCHANGED <<node, byInstance, token, fresh, pc, op>>

Step(p) ==
  \/ ClaimNodeOperation(p)
  \/ StartBegin(p) \/ StartObserve(p) \/ StartBoot(p) \/ StartGuest(p)
  \/ StartCommit(p) \/ ReconcilePersisted(p)
  \/ StopBegin(p) \/ StopObserve(p) \/ StopVM(p) \/ StopConfirm(p)
  \/ DeleteBegin(p) \/ DeleteVM(p) \/ DeleteCommit(p)
  \/ NewCheck(p) \/ NewVM(p) \/ CloneSettle(p) \/ NewCommit(p)
  \/ UndoVM(p) \/ UndoMetadata(p)
  \/ CloneBegin(p) \/ CloneObserve(p) \/ CloneStop(p)
  \/ \E i \in Ids, s \in Names : CloneReserve(p, i, s)
  \/ CloneReserveFails(p) \/ CloneRestart(p)
  \/ CleanupList(p) \/ \E item \in op[p].todo : CleanupItem(p, item)
  \/ CleanupVM(p) \/ CleanupMetadata(p) \/ CleanupDone(p)
  \/ \E item \in op[p].todo : RepairItem(p, item)
  \/ RepairFix(p) \/ RepairDone(p)

Request(p) ==
  \/ \E k \in Kinds, i \in Ids : Resolve(p, k, i)
  \/ \E i \in Ids, s \in Names : CreateReserve(p, i, s)
  \/ CleanupScan(p) \/ RepairScan(p)

Next ==
  \/ \E p \in Procs : Step(p) \/ Request(p) \/ Crash(p)
  \/ \E n \in Names : PowerOff(n)

Spec == Init /\ [][Next]_vars

\* Every step of an operation ends: runtime commands have timeouts, flocks are
\* polled under a context, and a process that is not dead is scheduled.
FairSpec == Spec /\ \A p \in Procs : WF_vars(Step(p))

-----------------------------------------------------------------------------
(* Properties.                                                             *)

\* The variables keep their shapes.
TypeOK ==
  /\ node \in [Ids -> Record]
  /\ byInstance \in [Names -> Ids \cup {None}]
  /\ token \in [Ids -> Procs \cup {None}]
  /\ vm \in [Names -> VM]
  /\ fresh \in SUBSET Ids
  /\ pc \in [Procs -> Labels]
  /\ op \in [Procs -> OpRecord]

\* The labels at which a process holds the token of its target, and of the
\* node it makes, cleans up or repairs.
HoldsTarget == Starting \cup Stopping \cup Deleting \cup Cloning
                 \cup {"start_begin", "stop_begin", "delete_begin", "clone_begin", "reconcile"}
HoldsChild == Making \cup {"cleanup_vm", "cleanup_metadata", "repair_fix"}

\* No one touches a node under a live operation.  While a start runs its
\* record stays provisioning, while a delete runs it stays terminating, and
\* while a create or clone runs its reservation stays in place: the repair of
\* stale claims, cleanup-incomplete and every other command keep away from it,
\* although the operation holds no lock (service.go:362, 1226, 566).
LiveOperationUndisturbed ==
  \A p \in Procs :
    /\ pc[p] \in Starting => node[op[p].id].status = "provisioning"
    /\ pc[p] \in Deleting => node[op[p].id].status = "terminating"
    /\ pc[p] \in Making => node[op[p].child] = Reserved(op[p].name)

\* No lost update.  An operation saves, after minutes of unlocked work, the
\* copy of the record it loaded at its start; nothing else was written to the
\* record meanwhile, except the status this operation itself left on it
\* (service.go:1600, 1750, 1873, 2080).
NoLostUpdate ==
  \A p \in Procs :
    pc[p] \in Starting \cup Stopping \cup Deleting \cup Cloning \cup {"reconcile"}
      => LET mine == op[p].node
             disk == node[op[p].id]
         IN /\ mine.slug = disk.slug /\ mine.deleted = disk.deleted
            /\ \/ mine.status = disk.status
               \/ pc[p] \notin Starting \cup Deleting /\ mine.status \in {"running", "stopped"}

\* A record is never lost: once node.yaml exists no rollback and no cleanup
\* removes the node's directory (service.go:1252).
RecordKept == [][\A i \in Ids : nodeMetadataExists(i) => nodeMetadataExists(i)']_vars

\* A node that was created, or was left running, still has the instance that
\* was made for it: no other command has destroyed or replaced that instance.
NodeHasItsInstance ==
  \A i \in ListNodes :
    node[i].status \in {"created", "running"} => vm[node[i].slug].owner = i

\* Two nodes never share an instance name: of all reservations and live
\* records, at most one has a given name (service.go:996, 2349).
OneNodePerName ==
  \A i, j \in Ids :
    /\ node[i].status # "absent" /\ ~node[i].deleted
    /\ node[j].status # "absent" /\ ~node[j].deleted
    /\ node[i].slug = node[j].slug
    => i = j

\* No instance is orphaned: whatever crashed and whatever failed, an instance
\* still has a directory on disk that names it, through which node delete or
\* cleanup-incomplete can remove it (service.go:1213).
NoOrphanInstance ==
  \A n \in Names :
    vm[n].state # "none" =>
      LET i == vm[n].owner
      IN node[i].status # "absent" /\ ~node[i].deleted /\ node[i].slug = n

\* Records and instances agree: each live node has its instance, each instance its node, and each
\* name one of either.
NodesMatchInstances == TypeOK /\ NodeHasItsInstance /\ OneNodePerName /\ NoOrphanInstance

\* cleanup-incomplete destroys only what an abandoned creation left behind.
\* service.go:1226: "An in-flight NodeCreate owns its reservation until it
\* completes."  service.go:1023: the token "tells cleanup-incomplete that this
\* reservation belongs to a live create rather than to a crashed one."
CleanupSparesNodes ==
  [][\A p \in Procs, n \in Names :
       At(p, "cleanup_vm") /\ vm[n].state # "none" /\ vm'[n].state = "none"
         => vm[n].owner \notin ListNodes]_vars

\* A command on one node never destroys the instance of another.
DeleteSparesOthers ==
  [][\A p \in Procs, n \in Names :
       At(p, "delete_vm") /\ vm[n].state # "none" /\ vm'[n].state = "none"
         => vm[n].owner = op[p].id]_vars

\* Every operation returns and gives its tokens back, whatever fails on the
\* way: no command holds a node for ever (locks.go:221).
OperationsReturn == \A p \in Procs : []<>At(p, "idle")

=============================================================================

--------------------------- MODULE NodeOperations ---------------------------
(***************************************************************************)
(* The daemon's lifecycle operations (internal/codelima/node_operations.go *)
(* and node_batch.go): a request is admitted under a client-chosen id, its *)
(* receipt is written to _operations/<id>.json, a worker runs the service  *)
(* call, and the receipt ends in an outcome.  A batch is a root receipt    *)
(* that owns the nodes of all its children.                                *)
(*                                                                         *)
(* A step is what one holder of nodeOperations.mu does, or one call of the *)
(* node service, which NodeLifecycle models and which is here the change   *)
(* of the node's VM.                                                       *)
(***************************************************************************)
EXTENDS Integers, FiniteSets

CONSTANTS Nodes, Slugs, SlugOf,  \* node ids, names, and the name of each node
          Plans,       \* what clients may submit and what may go wrong, one record per history
          Handlers,    \* connections that may submit at the same time
          Limit,       \* nodeOperationLimit
          Parallelism, \* nodeBatchParallelism
          None

Requests == UNION {p.requests : p \in Plans}
Ids == {r.id : r \in Requests}
Child(b, n) == <<b, n>>
Roots == {r.id : r \in {q \in Requests : q.kind = "batch"}}
Children == Roots \X Nodes
Ops == Ids \cup Children

Final == {"succeeded", "failed", "canceled", "interrupted"}
Unfinished == {"running", "canceling"}
NodeStates == {"none", "stopped", "running", "deleted"}

\* What a member of a batch may be, and the shape of requests and receipts.
NoMembers == <<>>
SingleKinds == {"start", "stop", "delete"}
Tables(S) == UNION {[T -> S] : T \in (SUBSET Nodes) \ {{}}}
AllRequests == [id : Ops, kind : SingleKinds \cup {"create", "clone", "batch"}, slug : Slugs \cup {None},
                child : Slugs \cup {None}, start : BOOLEAN, targets : Tables(SingleKinds) \cup {NoMembers}]
Receipts == [state : Final \cup Unfinished, request : AllRequests,
             member : Tables(Final \cup Unfinished \cup {"queued"}) \cup {NoMembers}]

ASSUME SlugAssumption == SlugOf \in [Nodes -> Slugs]
ASSUME LimitAssumption == Limit \in Nat /\ Parallelism \in Nat
\* A batch names its targets, and only a batch does; ids are not those of members.
ASSUME RequestsAssumption ==
  /\ Ids \cap Children = {}
  /\ \A r \in Requests :
       /\ r \in AllRequests
       /\ (r.kind = "batch") <=> (r.targets # NoMembers)
       /\ r.kind = "create" => r.slug \in Slugs
       /\ r.kind = "clone" => r.child \in Slugs
ASSUME NoneAssumption == None \notin Receipts /\ None \notin Nodes /\ None \notin {"canceled", "closed", "output"}
ASSUME FiniteAssumption == IsFiniteSet(Nodes) /\ IsFiniteSet(Ids)
ASSUME PlansAssumption ==
  \A p \in Plans : p.faults \subseteq {"disk", "service", "crash", "shutdown", "output", "retention"}

VARIABLES plan,     \* the history: [requests, faults]
          node,     \* the VM and record of each node, as the service leaves them
          daemon,   \* whether the operation manager is down, loading, up or closed
          disk,     \* the receipts under _operations
          rec,      \* nodeOperations.records
          active,   \* the records whose cancel function is set
          cause,    \* context.Cause of an operation's context
          keys,     \* what an operation has reserved
          pc, target, cleanup, failed,  \* its worker: step, NodeID, cleanupNodeID, err
          sub,      \* a handler between the two looks of Submit at the records
          todo,     \* what newNodeOperations has yet to load or project
          aged,     \* receipts past the retention period
          ran,      \* how often the service was called for an operation (history)
          acked,    \* operations whose receipt a client was given (history)
          worked    \* operations whose service call succeeded (history)

manager == <<rec, active, cause, keys, pc, target, cleanup, failed>>
history == <<ran, acked, worked>>
vars == <<node, daemon, disk, manager, sub, todo, aged, history>>

Receipt(state, request, member) == [state |-> state, request |-> request, member |-> member]

Init == /\ plan \in Plans
        /\ node \in [Nodes -> {"none", "stopped"}]
        /\ \A m, n \in Nodes : node[m] # "none" /\ node[n] # "none" /\ SlugOf[m] = SlugOf[n] => m = n
        /\ daemon = "up"
        /\ disk = [o \in Ops |-> None] /\ rec = [o \in Ops |-> None]
        /\ active = {} /\ cause = [o \in Ops |-> None] /\ keys = [o \in Ops |-> {}]
        /\ pc = [o \in Ops |-> "idle"] /\ target = [o \in Ops |-> None]
        /\ cleanup = [o \in Ops |-> None] /\ failed = [o \in Ops |-> FALSE]
        /\ sub = [h \in Handlers |-> None] /\ todo = {} /\ aged = {}
        /\ ran = [o \in Ops |-> 0] /\ acked = {} /\ worked = {}

-----------------------------------------------------------------------------
(* Receipts.                                                               *)

\* atomicfile.WriteFile: written; or not written and an error; or renamed
\* into place and an error all the same, when the directory cannot be synced.
Persist(o, receipt, ok) ==
  \/ ok /\ disk' = [disk EXCEPT ![o] = receipt]
  \/ ~ok /\ "disk" \in plan.faults /\ (disk' = disk \/ disk' = [disk EXCEPT ![o] = receipt])

\* operationExpired; a receipt gets old only when nothing runs under it, and
\* a week is longer than a batch takes to look at its children.
Age(o) ==
  /\ "retention" \in plan.faults /\ daemon = "up"
  /\ rec[o] # None /\ rec[o].state \in Final /\ o \notin active
  /\ o \in Children => o[1] \notin active
  /\ aged' = aged \cup {o}
  /\ UNCHANGED <<node, daemon, disk, manager, sub, todo, history>>

\* pruneLocked: an expired receipt is as if it had never been.  It stops at
\* the first file that cannot be removed.
Without(f, gone, absent) == [o \in Ops |-> IF o \in gone THEN absent ELSE f[o]]
Forget(gone) == /\ aged' = aged \ gone /\ acked' = acked \ gone /\ worked' = worked \ gone
                /\ ran' = Without(ran, gone, 0)
PruneFails(gone) == "disk" \in plan.faults /\ gone \subseteq aged /\ gone # aged

\* Mutant: everything that is over is pruned.
ListPage_All ==
  /\ daemon \in {"up", "closed"}
  /\ LET gone == {o \in Ops : rec[o] # None /\ rec[o].state \in Final} IN
       /\ Forget(gone)
       /\ rec' = Without(rec, gone, None) /\ disk' = Without(disk, gone, None)
  /\ UNCHANGED <<node, daemon, active, cause, keys, pc, target, cleanup, failed, sub, todo>>

\* ListPage prunes; the other queries change nothing.
ListPage ==
  /\ daemon \in {"up", "closed"} /\ aged # {}
  /\ \E gone \in SUBSET aged :
       /\ gone = aged \/ PruneFails(gone)
       /\ Forget(gone)
       /\ rec' = Without(rec, gone, None) /\ disk' = Without(disk, gone, None)
  /\ UNCHANGED <<node, daemon, active, cause, keys, pc, target, cleanup, failed, sub, todo>>

-----------------------------------------------------------------------------
(* Submit.                                                                 *)

Live(n) == node[n] \in {"stopped", "running"}

\* NodeByIDOrSlug: the live node of that name, or else a deleted one.
Named(slug, n) == /\ node[n] # "none" /\ SlugOf[n] = slug
                  /\ Live(n) \/ ~\E m \in Nodes : Live(m) /\ SlugOf[m] = slug

NodeKeys(n) == {<<"node", n>>, <<"slug", SlugOf[n]>>}

\* Mutant: a clone reserves its source only.
KeysOf_NoChild(r, n) ==
  CASE r.kind = "batch"  -> UNION {NodeKeys(m) : m \in DOMAIN r.targets}
    [] r.kind = "create" -> {<<"slug", r.slug>>}
    [] OTHER             -> NodeKeys(n)

\* normalize and prepareBatch: what the request reserves, and the node it is
\* about; a name is resolved once, here.
KeysOf(r, n) ==
  CASE r.kind = "batch"  -> UNION {NodeKeys(m) : m \in DOMAIN r.targets}
    [] r.kind = "create" -> {<<"slug", r.slug>>}
    [] r.kind = "clone"  -> NodeKeys(n) \cup {<<"slug", r.child>>}
    [] OTHER             -> NodeKeys(n)

Resolves(r, n) ==
  CASE r.kind = "batch"  -> n = None /\ \A m \in DOMAIN r.targets : Live(m)
    [] r.kind = "create" -> n = None
    [] OTHER             -> n \in Nodes /\ Named(r.slug, n)

Visible(o) == rec[o] # None /\ o \notin aged

\* The first look: a known id is answered before its target is resolved.
Submit(h, r) ==
  /\ daemon \in {"up", "closed"} /\ sub[h] = None
  /\ \/ /\ Visible(r.id)
        /\ acked' = IF rec[r.id].request = r THEN acked \cup {r.id} ELSE acked
        /\ UNCHANGED sub
     \/ /\ ~Visible(r.id)
        /\ \E n \in Nodes \cup {None} :
             Resolves(r, n) /\ sub' = [sub EXCEPT ![h] = [request |-> r, node |-> n]]
        /\ UNCHANGED acked
  /\ UNCHANGED <<node, daemon, disk, manager, todo, aged, ran, worked>>

Executing == {o \in active : rec[o].member = NoMembers}

\* What Submit asks of the other operations before it takes a request.
Conflicts(ks) == \E o \in active : keys[o] \cap ks # {}
Admits(r, ks) ==
  /\ ~Conflicts(ks)
  /\ Cardinality(active \ Children) < Limit
  /\ r.kind # "batch" => Cardinality(Executing) < Limit

\* A worker begins; its context has no cause yet.
Spawn(o, label, n, clean, ks) ==
  /\ pc' = [pc EXCEPT ![o] = label]
  /\ target' = [target EXCEPT ![o] = n]
  /\ keys' = [keys EXCEPT ![o] = ks]
  /\ active' = active \cup {o}
  /\ cleanup' = [cleanup EXCEPT ![o] = clean]
  /\ failed' = [failed EXCEPT ![o] = FALSE]
  /\ cause' = [cause EXCEPT ![o] = None]

\* Mutant: the second look at the records is left out.
Admit_Blind(h) ==
  /\ sub[h] # None /\ sub' = [sub EXCEPT ![h] = None]
  /\ LET r == sub[h].request
         o == r.id
         ks == KeysOf(r, sub[h].node)
         receipt == Receipt("running", r, [n \in DOMAIN r.targets |-> "queued"])
     IN /\ daemon = "up" /\ Admits(r, ks)
        /\ Persist(o, receipt, TRUE)
        /\ rec' = [rec EXCEPT ![o] = receipt]
        /\ Spawn(o, IF r.kind = "batch" THEN "batch" ELSE "phase", sub[h].node,
                 IF r.kind = "start" THEN sub[h].node ELSE None, ks)
        /\ acked' = acked \cup {o}
  /\ UNCHANGED <<node, daemon, todo, aged, ran, worked>>

\* The second look, the pruning and the admission; the receipt is on disk
\* before the worker exists.
Admit(h) ==
  /\ sub[h] # None /\ sub' = [sub EXCEPT ![h] = None]
  /\ LET r == sub[h].request
         o == r.id
         ks == KeysOf(r, sub[h].node)
         receipt == Receipt("running", r, [n \in DOMAIN r.targets |-> "queued"])
         pruned == Without(disk, aged, None)
         refused == UNCHANGED <<active, cause, keys, pc, target, cleanup, failed>>
     IN \/ /\ daemon = "closed"
           /\ UNCHANGED <<disk, manager, aged, history>>
        \/ /\ daemon = "up" /\ Visible(o)
           /\ acked' = IF rec[o].request = r THEN acked \cup {o} ELSE acked
           /\ UNCHANGED <<disk, manager, aged, ran, worked>>
        \/ /\ daemon = "up" /\ ~Visible(o)
           /\ \E gone \in SUBSET aged :
                /\ PruneFails(gone) /\ Forget(gone)
                /\ disk' = Without(disk, gone, None) /\ rec' = Without(rec, gone, None)
           /\ refused
        \/ /\ daemon = "up" /\ ~Visible(o) /\ Forget(aged)
           /\ rec' = Without(rec, aged, None)
           /\ \/ ~Admits(r, ks) /\ disk' = pruned
              \/ /\ Admits(r, ks) /\ "disk" \in plan.faults
                 /\ disk' \in {pruned, [pruned EXCEPT ![o] = receipt]}
           /\ refused
        \/ /\ daemon = "up" /\ ~Visible(o) /\ Admits(r, ks)
           /\ aged' = {} /\ ran' = Without(ran, aged, 0) /\ worked' = worked \ aged
           /\ acked' = (acked \ aged) \cup {o}
           /\ disk' = [pruned EXCEPT ![o] = receipt]
           /\ rec' = [Without(rec, aged, None) EXCEPT ![o] = receipt]
           /\ Spawn(o, IF r.kind = "batch" THEN "batch" ELSE "phase", sub[h].node,
                    IF r.kind = "start" THEN sub[h].node ELSE None, ks)
  /\ UNCHANGED <<node, daemon, todo>>

-----------------------------------------------------------------------------
(* run: the worker of an operation on one node.                            *)

SetState(o, state) == [rec[o] EXCEPT !.state = state]

\* advancePhase: no side effect begins before the phase is on disk; an
\* operation that is being cancelled goes no further.
Advance(o, next) ==
  \/ /\ rec[o].state # "running"
     /\ failed' = [failed EXCEPT ![o] = TRUE] /\ pc' = [pc EXCEPT ![o] = "finish"]
     /\ UNCHANGED disk
  \/ /\ rec[o].state = "running" /\ Persist(o, rec[o], TRUE)
     /\ pc' = [pc EXCEPT ![o] = next]
     /\ UNCHANGED failed
  \/ /\ rec[o].state = "running" /\ Persist(o, rec[o], FALSE)
     /\ failed' = [failed EXCEPT ![o] = TRUE] /\ pc' = [pc EXCEPT ![o] = "finish"]

FirstPhase(o) ==
  /\ pc[o] = "phase"
  /\ Advance(o, "call")
  /\ UNCHANGED <<node, daemon, rec, active, cause, keys, target, cleanup, sub, todo, aged, history>>

\* What the service may make of its node: the call works, or fails with
\* nothing done, or fails, is cancelled or loses its last write after the
\* work is done.
Serves(kind, n, state) ==
  \/ kind = "start" /\ Live(n) /\ state = "running"
  \/ kind = "stop" /\ Live(n) /\ state = "stopped"
  \/ kind = "delete" /\ node[n] # "none" /\ state = "deleted"

Fresh(slug, n) == node[n] = "none" /\ SlugOf[n] = slug /\ ~\E m \in Nodes : Live(m) /\ SlugOf[m] = slug

\* NodeStart, NodeStop and NodeDelete with the daemon's hook after it.
Call(o) ==
  /\ pc[o] = "call" /\ rec[o].request.kind \in {"start", "stop", "delete"}
  /\ ran' = [ran EXCEPT ![o] = @ + 1] /\ pc' = [pc EXCEPT ![o] = "finish"]
  /\ LET n == target[o] IN
       \/ /\ \E state \in NodeStates : /\ Serves(rec[o].request.kind, n, state)
                                       /\ node' = [node EXCEPT ![n] = state]
          /\ \/ worked' = worked \cup {o} /\ UNCHANGED failed
             \/ /\ "service" \in plan.faults
                /\ failed' = [failed EXCEPT ![o] = TRUE] /\ UNCHANGED worked
       \/ /\ "service" \in plan.faults \/ cause[o] # None \/ ~Live(n)
          /\ failed' = [failed EXCEPT ![o] = TRUE] /\ UNCHANGED <<node, worked>>
  /\ UNCHANGED <<daemon, disk, rec, active, cause, keys, target, cleanup, sub, todo, aged, acked>>

\* createNode and cloneNode; a request that also starts the node goes on.
Create(o) ==
  /\ pc[o] = "call" /\ rec[o].request.kind \in {"create", "clone"}
  /\ ran' = [ran EXCEPT ![o] = @ + 1]
  /\ LET r == rec[o].request
         slug == IF r.kind = "create" THEN r.slug ELSE r.child
         can == {n \in Nodes : Fresh(slug, n) /\ (r.kind = "clone" => Live(target[o]))}
     IN \/ \E n \in can :
             /\ node' = [node EXCEPT ![n] = "stopped"]
             /\ target' = [target EXCEPT ![o] = n]
             /\ worked' = IF r.start THEN worked ELSE worked \cup {o}
             /\ pc' = [pc EXCEPT ![o] = IF r.start THEN "bind" ELSE "finish"]
             /\ UNCHANGED failed
        \/ /\ "service" \in plan.faults \/ cause[o] # None \/ can = {}
           /\ failed' = [failed EXCEPT ![o] = TRUE] /\ pc' = [pc EXCEPT ![o] = "finish"]
           /\ UNCHANGED <<node, target, worked>>
  /\ UNCHANGED <<daemon, disk, rec, active, cause, keys, cleanup, sub, todo, aged, acked>>

\* Mutant: the created node is not the one a cancelled operation stops.
Bind_NoCleanup(o) ==
  /\ pc[o] = "bind" /\ pc' = [pc EXCEPT ![o] = "prepare"]
  /\ keys' = [keys EXCEPT ![o] = @ \cup {<<"node", target[o]>>}]
  /\ Persist(o, rec[o], TRUE)
  /\ UNCHANGED <<node, daemon, rec, active, cause, target, cleanup, failed, sub, todo, aged, history>>

\* bindCreatedNode: the new node's id is reserved and published.
Bind(o) ==
  /\ pc[o] = "bind"
  /\ keys' = [keys EXCEPT ![o] = @ \cup {<<"node", target[o]>>}]
  /\ \/ /\ Persist(o, rec[o], TRUE)
        /\ cleanup' = [cleanup EXCEPT ![o] = target[o]] /\ pc' = [pc EXCEPT ![o] = "prepare"]
        /\ UNCHANGED failed
     \/ /\ Persist(o, rec[o], FALSE)
        /\ failed' = [failed EXCEPT ![o] = TRUE] /\ pc' = [pc EXCEPT ![o] = "finish"]
        /\ UNCHANGED cleanup
  /\ UNCHANGED <<node, daemon, rec, active, cause, target, sub, todo, aged, history>>

Prepare(o) ==
  /\ pc[o] = "prepare"
  /\ Advance(o, "boot")
  /\ UNCHANGED <<node, daemon, rec, active, cause, keys, target, cleanup, sub, todo, aged, history>>

\* startCommittedNode.
Boot(o) ==
  /\ pc[o] = "boot" /\ pc' = [pc EXCEPT ![o] = "finish"]
  /\ \/ /\ Live(target[o]) /\ node' = [node EXCEPT ![target[o]] = "running"]
        /\ \/ worked' = worked \cup {o} /\ UNCHANGED failed
           \/ /\ "service" \in plan.faults
              /\ failed' = [failed EXCEPT ![o] = TRUE] /\ UNCHANGED worked
     \/ /\ "service" \in plan.faults \/ cause[o] # None \/ ~Live(target[o])
        /\ failed' = [failed EXCEPT ![o] = TRUE] /\ UNCHANGED <<node, worked>>
  /\ UNCHANGED <<daemon, disk, rec, active, cause, keys, target, cleanup, sub, todo, aged, ran, acked>>

\* The output of a running call cannot be saved: its context ends with that error.
FlushFails(o) ==
  /\ "output" \in plan.faults /\ o \in active /\ pc[o] \in {"call", "bind", "prepare", "boot", "finish"}
  /\ failed' = [failed EXCEPT ![o] = TRUE]
  /\ cause' = [cause EXCEPT ![o] = IF @ = None THEN "output" ELSE @]
  /\ UNCHANGED <<node, daemon, disk, rec, active, keys, pc, target, cleanup, sub, todo, aged, history>>

\* Mutant: the error of the call is dropped.
Outcome_Hopeful(o, err, stopped) ==
  CASE cause[o] = "closed"               -> "interrupted"
    [] cause[o] = "canceled" /\ stopped  -> "canceled"
    [] OTHER                             -> "succeeded"

\* The state run leaves: an explicit cancel counts if the VM could be stopped.
Outcome(o, err, stopped) ==
  CASE cause[o] = "closed"               -> "interrupted"
    [] cause[o] = "canceled" /\ stopped  -> "canceled"
    [] OTHER                             -> IF err THEN "failed" ELSE "succeeded"

\* A receipt that cannot be saved is failed in memory, whatever it was.
Settle(o, err, stopped) ==
  /\ active' = active \ {o} /\ pc' = [pc EXCEPT ![o] = "idle"]
  /\ \E ok \in BOOLEAN :
       /\ Persist(o, SetState(o, Outcome(o, err, stopped)), ok)
       /\ rec' = [rec EXCEPT ![o] = SetState(o, IF ok THEN Outcome(o, err, stopped) ELSE "failed")]
  /\ UNCHANGED <<daemon, cause, keys, target, cleanup, failed, sub, todo, aged, history>>

\* The service call has returned; a cancelled start has its VM stopped first,
\* with the reservation kept and the mutex released.
Finish(o) ==
  /\ pc[o] = "finish"
  /\ \/ /\ cause[o] = "canceled" /\ cleanup[o] # None
        /\ pc' = [pc EXCEPT ![o] = "stopping"]
        /\ UNCHANGED <<node, daemon, disk, rec, active, cause, keys, target, cleanup, failed,
                       sub, todo, aged, history>>
     \/ /\ ~(cause[o] = "canceled" /\ cleanup[o] # None)
        /\ Settle(o, failed[o], TRUE)
        /\ UNCHANGED node

StopVM(o) ==
  /\ pc[o] = "stopping"
  /\ \/ /\ Live(cleanup[o]) /\ node' = [node EXCEPT ![cleanup[o]] = "stopped"]
        /\ Settle(o, failed[o], TRUE)
     \/ /\ "service" \in plan.faults \/ ~Live(cleanup[o])
        /\ Settle(o, TRUE, FALSE)
        /\ UNCHANGED node

-----------------------------------------------------------------------------
(* Cancel, Close and the end of the daemon.                                *)

\* The contexts of a batch's children hang on that of the batch; the first
\* cause stays.
Cancelled(ops, why) ==
  LET reached == ops \cup {c \in Children : c[1] \in ops}
  IN [o \in Ops |-> IF o \in reached \cap active /\ cause[o] = None THEN why ELSE cause[o]]

Cancel(o) ==
  /\ daemon \in {"up", "closed"} /\ o \in active
  /\ \/ /\ Persist(o, SetState(o, "canceling"), TRUE)
        /\ rec' = [rec EXCEPT ![o] = SetState(o, "canceling")]
        /\ cause' = Cancelled({o}, "canceled")
     \/ /\ Persist(o, SetState(o, "canceling"), FALSE)
        /\ UNCHANGED <<rec, cause>>
  /\ UNCHANGED <<node, daemon, active, keys, pc, target, cleanup, failed, sub, todo, aged, history>>

Close ==
  /\ "shutdown" \in plan.faults /\ daemon = "up" /\ daemon' = "closed"
  /\ cause' = Cancelled(active, "closed")
  /\ UNCHANGED <<node, disk, rec, active, keys, pc, target, cleanup, failed, sub, todo, aged, history>>

\* The process is gone: after Close has waited long enough, or at any time.
Die ==
  /\ daemon # "down" /\ ("crash" \in plan.faults \/ daemon = "closed")
  /\ daemon' = "down" /\ todo' = {}
  /\ rec' = [o \in Ops |-> None] /\ active' = {} /\ cause' = [o \in Ops |-> None]
  /\ keys' = [o \in Ops |-> {}] /\ pc' = [o \in Ops |-> "idle"]
  /\ target' = [o \in Ops |-> None] /\ cleanup' = [o \in Ops |-> None]
  /\ failed' = [o \in Ops |-> FALSE]
  /\ sub' = [h \in Handlers |-> None]
  /\ UNCHANGED <<node, disk, aged, history>>

-----------------------------------------------------------------------------
(* runBatch.                                                               *)

\* Mutant: the members that wait are left to themselves when the batch ends.
Member_Waits(b, n) == IF rec[Child(b, n)] # None THEN rec[Child(b, n)].state ELSE rec[b].member[n]

\* What the root records of a member: the state of its child's record, or the
\* end of the root's context if it has not begun.
Member(b, n) ==
  LET c == Child(b, n)
      old == rec[b].member[n]
  IN IF rec[c] # None THEN rec[c].state
     ELSE CASE old = "queued" /\ cause[b] = "closed"    -> "interrupted"
            [] old = "queued" /\ cause[b] = "canceled"  -> "canceled"
            [] OTHER                                    -> old

ChildRequest(b, n) ==
  [rec[b].request EXCEPT !.id = Child(b, n), !.kind = rec[b].request.targets[n],
                         !.slug = SlugOf[n], !.targets = NoMembers]

\* Mutant: a batch counts its own children only, not the other operations.
Begins_Greedy(b, members, starts, unsaved) ==
  LET queued == {n \in DOMAIN members : members[n] = "queued"}
      running == {n \in DOMAIN members : members[n] \in Unfinished}
  IN /\ starts \subseteq queued /\ unsaved = {}
     /\ Cardinality(running) + Cardinality(starts) <= Parallelism
     /\ starts = queued \/ Cardinality(running) + Cardinality(starts) = Parallelism

\* The queued members this turn begins, some of which cannot be saved: as many
\* as the limits allow.
Begins(b, members, starts, unsaved) ==
  LET queued == {n \in DOMAIN members : members[n] = "queued"}
      running == {n \in DOMAIN members : members[n] \in Unfinished}
      room(k) == /\ Cardinality(running) + k <= Parallelism
                 /\ Cardinality(Executing) + k <= Limit
  IN /\ starts \cup unsaved \subseteq queued /\ starts \cap unsaved = {}
     /\ unsaved # {} => "disk" \in plan.faults /\ room(1)
     /\ starts # {} => room(Cardinality(starts))
     /\ starts \cup unsaved = queued \/ ~room(Cardinality(starts) + 1)

BatchOutcome(b, members) ==
  CASE cause[b] = "canceled" -> "canceled"
    [] cause[b] = "closed"   -> "interrupted"
    [] OTHER                 -> IF \A n \in DOMAIN members : members[n] = "succeeded"
                                  THEN "succeeded" ELSE "failed"

\* One turn of runBatch: look at the children, begin more, and note the rest.
Turn(b) ==
  /\ pc[b] = "batch"
  /\ \E starts, unsaved \in SUBSET Nodes :
       LET seen == [n \in DOMAIN rec[b].member |-> Member(b, n)]
           members == [n \in DOMAIN seen |-> IF n \in starts THEN "running"
                                             ELSE IF n \in unsaved THEN "failed" ELSE seen[n]]
           done == \A n \in DOMAIN members : members[n] \in Final
           begun == {Child(b, n) : n \in starts}
           root == [rec[b] EXCEPT !.member = members,
                                  !.state = IF done THEN BatchOutcome(b, members) ELSE @]
           child(c) == Receipt("running", ChildRequest(b, c[2]), NoMembers)
       IN /\ IF cause[b] = None THEN Begins(b, seen, starts, unsaved)
                                ELSE starts = {} /\ unsaved = {}
          /\ members # rec[b].member \/ done
          /\ \E saved \in BOOLEAN, torn \in SUBSET unsaved :
               LET children == begun \cup {Child(b, n) : n \in torn} IN
               /\ saved \/ "disk" \in plan.faults
               /\ \E written \in BOOLEAN :
                    /\ saved => written
                    /\ disk' = [o \in Ops |-> IF o = b THEN (IF written THEN root ELSE disk[o])
                                              ELSE IF o \in children THEN child(o) ELSE disk[o]]
               /\ rec' = [o \in Ops |->
                            IF o = b THEN [root EXCEPT !.state = IF done /\ ~saved THEN "failed" ELSE @]
                            ELSE IF o \in begun THEN child(o) ELSE rec[o]]
          /\ active' = (active \cup begun) \ (IF done THEN {b} ELSE {})
          /\ pc' = [o \in Ops |-> IF o \in begun THEN "phase"
                                  ELSE IF o = b /\ done THEN "idle" ELSE pc[o]]
          /\ target' = [o \in Ops |-> IF o \in begun THEN o[2] ELSE target[o]]
          /\ cleanup' = [o \in Ops |-> IF o \in begun THEN
                           (IF rec[b].request.targets[o[2]] = "start" THEN o[2] ELSE None) ELSE cleanup[o]]
  /\ UNCHANGED <<node, daemon, cause, keys, failed, sub, todo, aged, history>>

-----------------------------------------------------------------------------
(* newNodeOperations.                                                      *)

Restart ==
  /\ daemon = "down" /\ daemon' = "loading"
  /\ todo' = {o \in Ops : disk[o] # None}
  /\ UNCHANGED <<node, disk, manager, sub, aged, history>>

\* An expired receipt is removed, an unfinished one is interrupted.
Load(o) ==
  /\ daemon = "loading" /\ o \in todo
  /\ LET unfinished == disk[o].state \in Unfinished
         receipt == [disk[o] EXCEPT !.state = IF unfinished THEN "interrupted" ELSE @]
     IN \/ /\ o \in aged /\ ~unfinished
           /\ disk' = [disk EXCEPT ![o] = None] /\ Forget({o})
           /\ todo' = todo \ {o} /\ UNCHANGED <<daemon, rec>>
        \/ /\ ~(o \in aged /\ ~unfinished)
           /\ Persist(o, receipt, TRUE)
           /\ rec' = [rec EXCEPT ![o] = receipt]
           /\ todo' = todo \ {o} /\ UNCHANGED <<daemon, aged, history>>
        \/ /\ unfinished /\ Persist(o, receipt, FALSE)
           /\ daemon' = "down" /\ todo' = {}
           /\ rec' = [p \in Ops |-> None] /\ UNCHANGED <<aged, history>>
  /\ UNCHANGED <<node, active, cause, keys, pc, target, cleanup, failed, sub>>

\* recoverBatches begins when everything is loaded.
Loaded ==
  /\ daemon = "loading" /\ todo = {} /\ daemon' = "projecting"
  /\ todo' = {b \in Roots : rec[b] # None /\ rec[b].member # NoMembers /\ rec[b].state = "interrupted"}
  /\ UNCHANGED <<node, disk, manager, sub, aged, history>>

\* Mutant: recovery does not look at the children.
Project_Blind(b) ==
  /\ daemon = "projecting" /\ b \in todo
  /\ LET root == [rec[b] EXCEPT !.member =
                    [n \in DOMAIN rec[b].member |-> IF rec[b].member[n] \in Final
                                                     THEN rec[b].member[n] ELSE "interrupted"]]
     IN Persist(b, root, TRUE) /\ rec' = [rec EXCEPT ![b] = root]
  /\ todo' = todo \ {b}
  /\ UNCHANGED <<node, daemon, active, cause, keys, pc, target, cleanup, failed, sub, aged, history>>

\* The children that were saved say what became of them; the others were
\* interrupted, and nothing is done again.
Project(b) ==
  /\ daemon = "projecting" /\ b \in todo
  /\ LET project(n) == IF rec[Child(b, n)] # None THEN rec[Child(b, n)].state
                       ELSE IF rec[b].member[n] \in Final THEN rec[b].member[n] ELSE "interrupted"
         root == [rec[b] EXCEPT !.member = [n \in DOMAIN rec[b].member |-> project(n)]]
     IN \/ /\ Persist(b, root, TRUE)
           /\ rec' = [rec EXCEPT ![b] = root]
           /\ todo' = todo \ {b} /\ UNCHANGED daemon
        \/ /\ Persist(b, root, FALSE)
           /\ daemon' = "down" /\ todo' = {} /\ rec' = [p \in Ops |-> None]
  /\ UNCHANGED <<node, active, cause, keys, pc, target, cleanup, failed, sub, aged, history>>

Recovered ==
  /\ daemon = "projecting" /\ todo = {} /\ daemon' = "up"
  /\ UNCHANGED <<node, disk, manager, sub, todo, aged, history>>

-----------------------------------------------------------------------------

Work(o) == \/ FirstPhase(o) \/ Call(o) \/ Create(o) \/ Bind(o) \/ Prepare(o) \/ Boot(o)
           \/ Finish(o) \/ StopVM(o) \/ Turn(o)

Recovery == Restart \/ Loaded \/ Recovered \/ \E o \in Ops : Load(o) \/ Project(o)

Next == /\ \/ \E h \in Handlers : Admit(h) \/ \E r \in plan.requests : Submit(h, r)
           \/ \E o \in Ops : Work(o) \/ FlushFails(o) \/ Cancel(o) \/ Age(o)
           \/ ListPage \/ Close \/ Die \/ Recovery
        /\ UNCHANGED plan

Spec == Init /\ [][Next]_<<plan, vars>>

\* Every worker goes on: its service calls have timeouts, and runBatch ticks.
\* A client that waits for an operation brings the daemon back.
FairSpec == /\ Spec /\ WF_vars(Recovery) /\ \A o \in Ops : WF_vars(Work(o))

-----------------------------------------------------------------------------
(* Properties.                                                             *)

\* Records have their types; an operation has a worker as long as its cancel
\* function is set, and then it has no outcome yet.
TypeOK ==
  /\ node \in [Nodes -> NodeStates]
  /\ daemon \in {"up", "closed", "down", "loading", "projecting"}
  /\ \A o \in Ops : rec[o] # None => /\ rec[o].state \in Final \cup Unfinished
                                     /\ rec[o].request.id = o
  /\ \A o \in Ops : disk[o] # None => disk[o].state \in Final \cup Unfinished
  /\ \A o \in Ops : o \in active <=> pc[o] # "idle"
  /\ \A o \in active : rec[o] # None /\ rec[o].state \in Unfinished
  /\ todo \subseteq Ops /\ aged \subseteq Ops

\* The work of an operation is begun at most once, however often its request
\* is sent and the daemon restarts, until its receipt has expired ("a lost
\* response [must not become] a second operation", Submit).
AtMostOnce == \A o \in Ops : ran[o] <= 1

\* The operations of the daemon never work on one node at the same time: a
\* node in its first boot, a clone's source and the members of a batch
\* included (the keys of normalize, prepareBatch and bindCreatedNode).
WorksOn(o) == IF o \in active /\ pc[o] \in {"call", "bind", "prepare", "boot", "finish", "stopping"}
                THEN {target[o]} \ {None} ELSE {}
Exclusive == \A o, p \in Ops : o # p => WorksOn(o) \cap WorksOn(p) = {}

\* No more operations run than nodeOperationLimit, and no more members of one
\* batch than nodeBatchParallelism, however batches and single operations mix.
WithinLimits ==
  /\ Cardinality(Executing) <= Limit
  /\ \A b \in Roots : Cardinality({c \in Children \cap active : c[1] = b}) <= Parallelism

\* What a client was told of, or was begun, has a receipt that survives the
\* daemon: no crash can make an accepted operation unknown.
AcceptedIsDurable == \A o \in Ops : o \in acked \/ ran[o] > 0 => disk[o] # None

\* An operation that says it succeeded has: its service call did, or all the
\* members of the batch did, before and after a restart.
NoFalseSuccess ==
  \A o \in Ops : \A receipt \in {rec[o], disk[o]} :
    receipt # None /\ receipt.state = "succeeded" =>
      IF receipt.member = NoMembers THEN o \in worked
      ELSE \A n \in DOMAIN receipt.member :
             /\ receipt.member[n] = "succeeded"
             /\ Child(o, n) \in worked \/ disk[Child(o, n)] = None

\* When no write fails, what a finished batch says of a member is what that
\* member's own receipt says, also after a crash at any point of either
\* (runBatch, recoverBatches).
MembersAgree ==
  "disk" \notin plan.faults /\ daemon \in {"up", "closed"} =>
    \A b \in Roots : rec[b] # None /\ rec[b].state \in Final =>
      \A n \in DOMAIN rec[b].member :
        rec[Child(b, n)] # None => rec[b].member[n] = rec[Child(b, n)].state

\* An operation that starts a VM is "canceled" only if that VM is not running:
\* a stop that fails makes the operation "failed" (run).
StartsNode(o) ==
  LET r == rec[o].request IN
  \/ r.kind = "start"
  \/ r.kind = "create" /\ target[o] # None
  \/ r.kind = "clone" /\ r.child # r.slug /\ SlugOf[target[o]] = r.child
CancelStops ==
  [][\A o \in Ops : /\ rec[o] # None /\ rec[o].state \in Unfinished /\ StartsNode(o)
                    /\ rec'[o] # None /\ rec'[o].state = "canceled"
                    => node'[target[o]] # "running"]_vars

\* The receipts on disk are those of OperationReceipts: accepted, then one
\* outcome that stays until it expires, with the work begun at most once and
\* only before it.
Promise == INSTANCE OperationReceipts WITH
  Outcomes <- Final,
  phase <- [o \in Ops |-> IF disk[o] = None THEN "none"
                          ELSE IF disk[o].state \in Unfinished THEN "accepted" ELSE disk[o].state],
  known <- {o \in Ops : \E receipt \in {rec[o], disk[o]} : receipt # None /\ receipt.state \in Final},
  begun <- ran, expired <- aged
KeepsPromise == Promise!Spec

\* An accepted request gets an outcome on disk, a batch that is cancelled or
\* interrupted between its members too.
Settles == \A o \in Ids : disk[o] # None ~> (disk[o] = None \/ disk[o].state \in Final)

=============================================================================

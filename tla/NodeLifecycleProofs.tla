------------------------ MODULE NodeLifecycleProofs ------------------------
(***************************************************************************)
(* Proofs about NodeLifecycle, for every set of processes, ids and names,  *)
(* every choice of commands and every usage.                               *)
(***************************************************************************)
EXTENDS NodeLifecycle, TLAPS

(***************************************************************************)
(* The inductive invariant.  Own(p) is what process p may rely on between  *)
(* two of its steps: it holds the tokens its label says, so the records    *)
(* under them are as it left them.                                         *)
(***************************************************************************)
TargetKinds == {"start", "retry", "stop", "restart", "delete", "clone"}

Copies == Starting \cup Stopping \cup Deleting \cup Cloning \cup {"reconcile"}

Own(p) ==
  /\ pc[p] = "claim" =>
       op[p].id \in Ids /\ nodeMetadataExists(op[p].id) /\ op[p].kind \in TargetKinds
  /\ pc[p] \in HoldsTarget \/ (pc[p] \in Making /\ op[p].kind = "clone") =>
       op[p].id \in Ids /\ nodeMetadataExists(op[p].id) /\ token[op[p].id] = p
  /\ pc[p] \in HoldsChild => op[p].child \in Ids /\ token[op[p].child] = p
  /\ pc[p] \in Making => op[p].name \in Names /\ node[op[p].child] = Reserved(op[p].name)
  /\ pc[p] \in Starting => node[op[p].id].status = "provisioning" /\ op[p].prev \in Statuses
  /\ pc[p] \in Deleting => node[op[p].id].status = "terminating"
  /\ pc[p] \in Copies \/ (pc[p] \in Making /\ op[p].kind = "clone") =>
       /\ op[p].node.status \in Statuses
       /\ op[p].node.slug = node[op[p].id].slug
       /\ op[p].node.deleted = node[op[p].id].deleted
       /\ \/ op[p].node.status = node[op[p].id].status
          \/ /\ pc[p] \notin Starting \cup Deleting
             /\ op[p].node.status \in {"running", "stopped"}
  /\ pc[p] \in Cloning \cup {"clone_begin"} => op[p].kind = "clone"
  /\ op[p].wasRunning =>
       op[p].kind = "clone" /\ pc[p] \in Making \cup {"clone_reserve", "clone_restart", "reconcile"}

\* A fresh id is unknown to everyone.
FreshUnknown ==
  /\ \A i \in fresh : token[i] = None /\ node[i] = Absent
  /\ \A p \in Procs : \A item \in op[p].todo : item.id \notin fresh

IndInv == TypeOK /\ FreshUnknown /\ \A p \in Procs : Own(p)

-----------------------------------------------------------------------------
(* What the pieces of an action do.                                        *)

\* Setting a status keeps the rest of a record.
LEMMA RecordStatus ==
  ASSUME NEW rec \in Record, NEW st \in Statuses
  PROVE  /\ [rec EXCEPT !.status = st] \in Record
         /\ [rec EXCEPT !.status = st].status = st
         /\ [rec EXCEPT !.status = st].slug = rec.slug
         /\ [rec EXCEPT !.status = st].deleted = rec.deleted
  BY DEF Record

\* A recovered claim is the same record with a status of its own.
LEMMA RecoveredFacts ==
  ASSUME NEW rec \in Record, rec.status \in Statuses
  PROVE  /\ Recovered(rec) \in Record
         /\ Recovered(rec).status \in Statuses
         /\ Recovered(rec).slug = rec.slug
         /\ Recovered(rec).deleted = rec.deleted
  BY DEF Recovered, Record, Statuses, InFlight

\* Reconciling changes nothing but the status, to running or stopped.
LEMMA ReconciledFacts ==
  ASSUME NEW rec \in Record, rec.status \in Statuses, NEW s
  PROVE  /\ Reconciled(rec, s) \in Record
         /\ Reconciled(rec, s).status \in Statuses
         /\ Reconciled(rec, s).slug = rec.slug
         /\ Reconciled(rec, s).deleted = rec.deleted
         /\ Reconciled(rec, s).status = rec.status
              \/ Reconciled(rec, s).status \in {"running", "stopped"}
  BY DEF Reconciled, Record, Statuses

\* A save of a record under p's token.
LEMMA SaveFacts ==
  ASSUME TypeOK, FreshUnknown, NEW p \in Procs, NEW i \in Ids, token[i] = p,
         NEW rec \in Record, rec.status \in Statuses, SaveNode(i, rec)
  PROVE  /\ node' \in [Ids -> Record] /\ byInstance' \in [Names -> Ids \cup {None}]
         /\ node'[i] = rec /\ nodeMetadataExists(i)'
         /\ \A j \in Ids \ {i} : node'[j] = node[j]
         /\ i \notin fresh
         /\ \A j \in Ids : nodeMetadataExists(j) => nodeMetadataExists(j)'
  BY NoneAssumption DEF TypeOK, FreshUnknown, SaveNode, nodeMetadataExists

\* The return of an operation: everything p held is given back.
LEMMA ReturnFacts ==
  ASSUME TypeOK, NEW p \in Procs, Return(p)
  PROVE  /\ pc' \in [Procs -> Labels]
         /\ op' \in [Procs -> OpRecord]
         /\ token' \in [Ids -> Procs \cup {None}]
         /\ \A q \in Procs \ {p} : pc'[q] = pc[q] /\ op'[q] = op[q]
         /\ \A i \in Ids : token'[i] = token[i] \/ (token[i] = p /\ token'[i] = None)
         /\ op'[p].todo = {}
         /\ Own(p)'
<1>1. NoOp \in OpRecord
  BY DEF NoOp, OpRecord, Absent, Record, Item
<1>2. pc'[p] = "idle" /\ op'[p] = NoOp
  BY DEF TypeOK, Return, Move
<1>3. Own(p)'
  BY <1>2 DEF Own, NoOp, HoldsTarget, HoldsChild, Copies, Making, Starting, Stopping, Deleting, Cloning
<1> QED
  BY <1>1, <1>2, <1>3 DEF TypeOK, Return, Move, Released, Labels, NoOp

\* What a step of p has to establish for the invariant to survive it.
Good(p) ==
  /\ TypeOK'
  /\ \A q \in Procs \ {p} : pc'[q] = pc[q] /\ op'[q] = op[q]
  /\ \A i \in Ids : token'[i] = token[i] \/ token[i] \in {p, None}
  /\ \A i \in Ids : node'[i] = node[i] \/ token[i] = p \/ i \in fresh
  /\ \A i \in Ids : nodeMetadataExists(i) => nodeMetadataExists(i)'
  /\ fresh' \subseteq fresh
  /\ \A i \in fresh' : token'[i] = None /\ node'[i] = Absent
  /\ \A item \in op'[p].todo : item.id \notin fresh'
  /\ Own(p)'

\* The other processes lose nothing by a good step.
LEMMA GoodStep ==
  ASSUME IndInv, NEW p \in Procs, Good(p)
  PROVE  IndInv'
<1>1. FreshUnknown'
  BY DEF IndInv, FreshUnknown, Good
<1>2. ASSUME NEW q \in Procs \ {p}
      PROVE  Own(q)'
  <2>1. pc'[q] = pc[q] /\ op'[q] = op[q]
    BY DEF Good
  <2>2. \A i \in Ids : token[i] = q => token'[i] = q /\ node'[i] = node[i]
    BY NoneAssumption DEF Good, IndInv, FreshUnknown
  <2>3. \A i \in Ids : nodeMetadataExists(i) => nodeMetadataExists(i)'
    BY DEF Good
  <2>4. Own(q)
    BY DEF IndInv
  <2> QED
    BY <2>1, <2>2, <2>3, <2>4 DEF Own, HoldsTarget, HoldsChild, Copies, Making, Starting,
       Stopping, Deleting, Cloning
<1> QED
  BY <1>1, <1>2 DEF IndInv, Good

\* The empty home satisfies the invariant.
LEMMA InitInv == Init => IndInv
<1> SUFFICES ASSUME Init PROVE IndInv
  OBVIOUS
<1>1. TypeOK
  <2>1. NoOp \in OpRecord
    BY DEF NoOp, OpRecord, Absent, Record, Item
  <2> QED
    BY <2>1 DEF Init, TypeOK, Absent, NoVM, VM, Record, Labels
<1>2. FreshUnknown
  BY DEF Init, FreshUnknown, NoOp
<1>3. ASSUME NEW p \in Procs PROVE Own(p)
  BY DEF Init, Own, NoOp, HoldsTarget, HoldsChild, Copies, Making, Starting, Stopping, Deleting, Cloning
<1> QED
  BY <1>1, <1>2, <1>3 DEF IndInv

-----------------------------------------------------------------------------
(* The shapes a step can have: it saves a record under its token or not,   *)
(* and then goes on or returns.                                            *)

\* Runtime commands keep the instances typed.
LEMMA VmFacts ==
  ASSUME TypeOK, NEW n, NEW s \in {"none", "stopped", "running"},
         MaySetState(n, s) \/ SandboxDelete(n) \/ UNCHANGED vm
  PROVE  vm' \in [Names -> VM]
<1>1. NoVM \in VM
  BY DEF NoVM, VM
<1>2. \A m \in Names : [vm[m] EXCEPT !.state = s] \in VM
  BY DEF TypeOK, VM
<1> QED
  BY <1>1, <1>2 DEF TypeOK, MaySetState, SetState, SandboxDelete

\* The step returns and saves nothing.
LEMMA ReturnGood ==
  ASSUME IndInv, NEW p \in Procs, Return(p), UNCHANGED <<node, byInstance, fresh>>,
         vm' \in [Names -> VM]
  PROVE  Good(p)
<1> USE DEF IndInv
<1>1. /\ pc' \in [Procs -> Labels] /\ op' \in [Procs -> OpRecord]
      /\ token' \in [Ids -> Procs \cup {None}]
      /\ \A q \in Procs \ {p} : pc'[q] = pc[q] /\ op'[q] = op[q]
      /\ \A i \in Ids : token'[i] = token[i] \/ (token[i] = p /\ token'[i] = None)
      /\ op'[p].todo = {} /\ Own(p)'
  BY ReturnFacts
<1> QED
  BY <1>1 DEF TypeOK, Good, FreshUnknown, nodeMetadataExists

\* The step saves the record under its token and returns.
LEMMA SaveReturnGood ==
  ASSUME IndInv, NEW p \in Procs, NEW i \in Ids, token[i] = p,
         NEW rec \in Record, rec.status \in Statuses,
         SaveNode(i, rec), Return(p), UNCHANGED fresh, vm' \in [Names -> VM]
  PROVE  Good(p)
<1> USE DEF IndInv
<1>1. /\ pc' \in [Procs -> Labels] /\ op' \in [Procs -> OpRecord]
      /\ token' \in [Ids -> Procs \cup {None}]
      /\ \A q \in Procs \ {p} : pc'[q] = pc[q] /\ op'[q] = op[q]
      /\ \A j \in Ids : token'[j] = token[j] \/ (token[j] = p /\ token'[j] = None)
      /\ op'[p].todo = {} /\ Own(p)'
  BY ReturnFacts
<1>2. /\ node' \in [Ids -> Record] /\ byInstance' \in [Names -> Ids \cup {None}]
      /\ \A j \in Ids \ {i} : node'[j] = node[j]
      /\ i \notin fresh
      /\ \A j \in Ids : nodeMetadataExists(j) => nodeMetadataExists(j)'
  BY SaveFacts
<1> QED
  BY <1>1, <1>2 DEF TypeOK, Good, FreshUnknown

\* The step goes on and saves nothing.
LEMMA MoveGood ==
  ASSUME IndInv, NEW p \in Procs, NEW l \in Labels, NEW o \in OpRecord, Move(p, l, o),
         o.todo \subseteq op[p].todo,
         UNCHANGED <<node, byInstance, token, fresh>>, vm' \in [Names -> VM], Own(p)'
  PROVE  Good(p)
  BY DEF IndInv, TypeOK, Good, FreshUnknown, Move, nodeMetadataExists

\* The step goes on with the same local variables.
LEMMA GotoGood ==
  ASSUME IndInv, NEW p \in Procs, NEW l \in Labels, Goto(p, l),
         UNCHANGED <<node, byInstance, token, fresh>>, vm' \in [Names -> VM], Own(p)'
  PROVE  Good(p)
  BY DEF IndInv, TypeOK, Good, FreshUnknown, Goto, nodeMetadataExists

\* The step saves the record under its token and goes on.
LEMMA SaveMoveGood ==
  ASSUME IndInv, NEW p \in Procs, NEW i \in Ids, token[i] = p,
         NEW rec \in Record, rec.status \in Statuses, SaveNode(i, rec),
         NEW l \in Labels, NEW o \in OpRecord, Move(p, l, o), o.todo \subseteq op[p].todo,
         UNCHANGED <<token, fresh>>, vm' \in [Names -> VM], Own(p)'
  PROVE  Good(p)
<1>1. /\ node' \in [Ids -> Record] /\ byInstance' \in [Names -> Ids \cup {None}]
      /\ \A j \in Ids \ {i} : node'[j] = node[j]
      /\ i \notin fresh
      /\ \A j \in Ids : nodeMetadataExists(j) => nodeMetadataExists(j)'
  BY SaveFacts DEF IndInv
<1> QED
  BY <1>1 DEF IndInv, TypeOK, Good, FreshUnknown, Move

\* A Goto is a Move that keeps the local variables.
LEMMA GotoIsMove ==
  ASSUME TypeOK, NEW p \in Procs, NEW l, Goto(p, l)
  PROVE  op[p] \in OpRecord /\ Move(p, l, op[p])
  BY DEF TypeOK, Goto, Move

\* Replacing the copy of the record keeps the other local variables.
LEMMA OpNode ==
  ASSUME NEW o \in OpRecord, NEW rec \in Record
  PROVE  /\ [o EXCEPT !.node = rec] \in OpRecord
         /\ [o EXCEPT !.node = rec].node = rec
         /\ [o EXCEPT !.node = rec].id = o.id
         /\ [o EXCEPT !.node = rec].kind = o.kind
         /\ [o EXCEPT !.node = rec].todo = o.todo
         /\ [o EXCEPT !.node = rec].wasRunning = o.wasRunning
  BY DEF OpRecord

\* What p may rely on.
LEMMA OwnHolds ==
  ASSUME IndInv, NEW p \in Procs
  PROVE  Own(p) /\ op[p] \in OpRecord
  BY DEF IndInv, TypeOK

\* What p has to know at a label where it holds a copy of the record.
LEMMA CopyOwn ==
  ASSUME NEW p \in Procs, pc'[p] \in Stopping \cup Cloning \cup {"reconcile"},
         op'[p].id \in Ids, token'[op'[p].id] = p, node'[op'[p].id].status \in Statuses,
         op'[p].node.status \in Statuses,
         op'[p].node.slug = node'[op'[p].id].slug,
         op'[p].node.deleted = node'[op'[p].id].deleted,
         \/ op'[p].node.status = node'[op'[p].id].status
         \/ op'[p].node.status \in {"running", "stopped"},
         pc'[p] \in Cloning => op'[p].kind = "clone",
         op'[p].wasRunning =>
           op'[p].kind = "clone" /\ pc'[p] \in {"clone_reserve", "clone_restart", "reconcile"}
  PROVE  Own(p)'
  BY DEF Own, HoldsTarget, HoldsChild, Copies, Making, Starting, Stopping, Deleting, Cloning,
     nodeMetadataExists

\* The same while it makes a clone.
LEMMA MakingOwn ==
  ASSUME NEW p \in Procs, pc'[p] \in Making,
         op'[p].id \in Ids, token'[op'[p].id] = p, node'[op'[p].id].status \in Statuses,
         op'[p].node.status \in Statuses,
         op'[p].node.slug = node'[op'[p].id].slug,
         op'[p].node.deleted = node'[op'[p].id].deleted,
         \/ op'[p].node.status = node'[op'[p].id].status
         \/ op'[p].node.status \in {"running", "stopped"},
         op'[p].kind = "clone", op'[p].child \in Ids, token'[op'[p].child] = p,
         op'[p].name \in Names, node'[op'[p].child] = Reserved(op'[p].name)
  PROVE  Own(p)'
  BY DEF Own, HoldsTarget, HoldsChild, Copies, Making, Starting, Stopping, Deleting, Cloning,
     nodeMetadataExists

\* What p knows at a label where it holds its target's token.
LEMMA TargetFacts ==
  ASSUME IndInv, NEW p \in Procs, pc[p] \in HoldsTarget
  PROVE  /\ op[p].id \in Ids /\ token[op[p].id] = p
         /\ node[op[p].id] \in Record /\ node[op[p].id].status \in Statuses
         /\ op[p] \in OpRecord /\ op[p].node \in Record
<1>1. op[p].id \in Ids /\ token[op[p].id] = p /\ nodeMetadataExists(op[p].id)
  BY OwnHolds DEF Own
<1> QED
  BY <1>1, OwnHolds DEF IndInv, TypeOK, OpRecord, nodeMetadataExists

\* What p knows at a label where it holds a copy of the record.
LEMMA CopyFacts ==
  ASSUME IndInv, NEW p \in Procs, pc[p] \in Copies
  PROVE  /\ op[p].node \in Record /\ op[p].node.status \in Statuses
         /\ op[p].node.slug = node[op[p].id].slug
         /\ op[p].node.deleted = node[op[p].id].deleted
         /\ \/ op[p].node.status = node[op[p].id].status
            \/ pc[p] \notin Starting \cup Deleting /\ op[p].node.status \in {"running", "stopped"}
  BY OwnHolds DEF Own, OpRecord

\* The step takes a free token.
LEMMA ClaimGood ==
  ASSUME IndInv, NEW p \in Procs, NEW i \in Ids, token[i] = None, i \notin fresh,
         token' = [token EXCEPT ![i] = p],
         NEW l \in Labels, NEW o \in OpRecord, Move(p, l, o), o.todo \subseteq op[p].todo,
         UNCHANGED <<node, byInstance, vm, fresh>>, Own(p)'
  PROVE  Good(p)
  BY DEF IndInv, TypeOK, Good, FreshUnknown, Move, nodeMetadataExists

\* The step gives one token back, having saved the record under it or not.
LEMMA UnclaimGood ==
  ASSUME IndInv, NEW p \in Procs, NEW i \in Ids, token[i] = p,
         token' = [token EXCEPT ![i] = None],
         NEW l \in Labels, NEW o \in OpRecord, Move(p, l, o), o.todo \subseteq op[p].todo,
         UNCHANGED <<node, byInstance, fresh>>, vm' \in [Names -> VM], Own(p)'
  PROVE  Good(p)
  BY DEF IndInv, TypeOK, Good, FreshUnknown, Move, nodeMetadataExists

\* The step saves the record and gives its token back.
LEMMA SaveUnclaimGood ==
  ASSUME IndInv, NEW p \in Procs, NEW i \in Ids, token[i] = p,
         token' = [token EXCEPT ![i] = None],
         NEW rec \in Record, rec.status \in Statuses, SaveNode(i, rec),
         NEW l \in Labels, NEW o \in OpRecord, Move(p, l, o), o.todo \subseteq op[p].todo,
         UNCHANGED fresh, vm' \in [Names -> VM], Own(p)'
  PROVE  Good(p)
<1>1. /\ node' \in [Ids -> Record] /\ byInstance' \in [Names -> Ids \cup {None}]
      /\ \A j \in Ids \ {i} : node'[j] = node[j]
      /\ i \notin fresh
      /\ \A j \in Ids : nodeMetadataExists(j) => nodeMetadataExists(j)'
  BY SaveFacts DEF IndInv
<1> QED
  BY <1>1 DEF IndInv, TypeOK, Good, FreshUnknown, Move

-----------------------------------------------------------------------------
(* Start.                                                                  *)

\* StartBegin keeps the invariant.
LEMMA StartBeginGood ==
  ASSUME IndInv, NEW p \in Procs, StartBegin(p)
  PROVE  Good(p)
<1> DEFINE i == op[p].id
           rec == Recovered(node[i])
           new == [rec EXCEPT !.status = "provisioning"]
           o == [op[p] EXCEPT !.prev = rec.status, !.node = new]
<1>1. pc[p] = "start_begin" /\ vm' = vm /\ fresh' = fresh
  BY DEF StartBegin, At
<1>2. /\ i \in Ids /\ token[i] = p
      /\ node[i] \in Record /\ node[i].status \in Statuses
      /\ op[p] \in OpRecord /\ ~op[p].wasRunning
  BY <1>1 DEF IndInv, TypeOK, Own, HoldsTarget, Making, nodeMetadataExists
<1>3. rec \in Record /\ rec.status \in Statuses
  BY <1>2, RecoveredFacts
<1>4. new \in Record /\ new.status = "provisioning"
  BY <1>3, RecordStatus DEF Statuses, InFlight
<1>5. vm' \in [Names -> VM]
  BY <1>1 DEF IndInv, TypeOK
<1>6. CASE SaveNode(i, new) /\ Move(p, "start_observe", o) /\ UNCHANGED token
  <2>1. /\ o \in OpRecord /\ o.todo = op[p].todo /\ o.id = i /\ o.node = new
        /\ o.prev = rec.status /\ o.wasRunning = op[p].wasRunning
    <3> HIDE DEF new, rec
    <3> QED
      BY <1>2, <1>3, <1>4 DEF OpRecord
  <2>2. pc'[p] = "start_observe" /\ op'[p] = o
    BY <1>6 DEF Move, IndInv, TypeOK
  <2>3. node'[i] = new
    <3> HIDE DEF new
    <3> QED
      BY <1>2, <1>4, <1>6, SaveFacts, SMTT(20) DEF IndInv, Statuses, InFlight
  <2>4. Own(p)'
    <3> HIDE DEF o, new, rec
    <3> QED
    BY <1>2, <1>3, <1>4, <1>6, <2>1, <2>2, <2>3
       DEF Own, HoldsTarget, HoldsChild, Copies, Making, Starting, Stopping, Deleting, Cloning,
           nodeMetadataExists, Statuses, InFlight
  <2> QED
    BY <1>2, <1>1, <1>4, <1>5, <1>6, <2>1, <2>4, SaveMoveGood DEF Labels, Starting, Statuses, InFlight
<1>7. CASE RecoverStaleNodeClaim(i) /\ Return(p)
  BY <1>1, <1>2, <1>3, <1>5, <1>7, ReturnGood, SaveReturnGood DEF RecoverStaleNodeClaim
<1>8. CASE UNCHANGED <<node, byInstance>> /\ Return(p)
  BY <1>1, <1>5, <1>8, ReturnGood
<1> QED
  BY <1>6, <1>7, <1>8 DEF StartBegin

\* restoreNodeStatus acts on the record of the start that calls it.
LEMMA RestoreGood ==
  ASSUME IndInv, NEW p \in Procs, pc[p] \in Starting, RestoreNodeStatus(p),
         UNCHANGED fresh, vm' \in [Names -> VM]
  PROVE  Good(p)
<1> DEFINE i == op[p].id
           new == [node[i] EXCEPT !.status = op[p].prev]
<1>1. i \in Ids /\ token[i] = p /\ node[i] \in Record /\ op[p].prev \in Statuses
  BY TargetFacts DEF IndInv, Own, HoldsTarget
<1>2. new \in Record /\ new.status \in Statuses
  BY <1>1, RecordStatus
<1>3. CASE SaveNode(i, new)
  <2> HIDE DEF new
  <2> QED
    BY <1>1, <1>2, <1>3, SaveReturnGood DEF RestoreNodeStatus
<1>4. CASE UNCHANGED <<node, byInstance>>
  BY <1>4, ReturnGood DEF RestoreNodeStatus
<1> QED
  BY <1>3, <1>4 DEF RestoreNodeStatus

\* StartObserve keeps the invariant.
LEMMA StartObserveGood ==
  ASSUME IndInv, NEW p \in Procs, StartObserve(p)
  PROVE  Good(p)
<1>1. /\ pc[p] = "start_observe" /\ vm' = vm /\ fresh' = fresh /\ vm' \in [Names -> VM]
  BY DEF StartObserve, At, IndInv, TypeOK
<1>2. CASE RestoreNodeStatus(p)
  BY <1>1, <1>2, RestoreGood DEF Starting
<1>3. ASSUME NEW l \in {"start_guest", "start_boot"}, Goto(p, l),
             UNCHANGED <<node, byInstance, token>>
      PROVE  Good(p)
  <2>1. pc'[p] = l /\ op' = op
    BY <1>3 DEF Goto, IndInv, TypeOK
  <2>2. Own(p)'
    BY <1>1, <1>3, <2>1 DEF IndInv, Own, HoldsTarget, HoldsChild, Copies, Making, Starting,
       Stopping, Deleting, Cloning, nodeMetadataExists
  <2> QED
    BY <1>1, <1>3, <2>2, GotoGood DEF Labels, Starting
<1> QED
  BY <1>2, <1>3 DEF StartObserve

\* A start in progress saves its copy of the record.
LEMMA SaveCopyGotoGood ==
  ASSUME IndInv, NEW p \in Procs, pc[p] \in {"start_boot", "start_guest"},
         SaveNode(op[p].id, op[p].node), NEW l \in {"start_guest", "start_commit"}, Goto(p, l),
         UNCHANGED <<token, fresh>>, vm' \in [Names -> VM]
  PROVE  Good(p)
<1> DEFINE i == op[p].id
<1>1. i \in Ids /\ token[i] = p /\ op[p] \in OpRecord
  BY TargetFacts DEF HoldsTarget, Starting
<1>2. op[p].node \in Record /\ op[p].node.status = "provisioning"
  <2>1. node[i].status = "provisioning"
    BY OwnHolds DEF Starting, Own
  <2> QED
    BY <2>1, CopyFacts DEF Copies, Starting
<1>3. node'[i] = op[p].node
  BY <1>1, <1>2, SaveFacts DEF IndInv, Statuses, InFlight
<1>4. pc'[p] = l /\ op' = op /\ Move(p, l, op[p])
  BY GotoIsMove DEF Goto, IndInv, TypeOK
<1>5. Own(p)'
  BY <1>1, <1>2, <1>3, <1>4 DEF IndInv, Own, HoldsTarget, HoldsChild, Copies, Making, Starting,
     Stopping, Deleting, Cloning, nodeMetadataExists, Statuses, InFlight
<1> QED
  BY <1>1, <1>2, <1>4, <1>5, SaveMoveGood DEF Labels, Starting, Statuses, InFlight

\* StartBoot keeps the invariant.
LEMMA StartBootGood ==
  ASSUME IndInv, NEW p \in Procs, StartBoot(p)
  PROVE  Good(p)
<1> DEFINE n == op[p].node.slug
<1>1. pc[p] = "start_boot" /\ fresh' = fresh
  BY DEF StartBoot, At
<1>2. vm' \in [Names -> VM]
  BY VmFacts DEF StartBoot, IndInv, MaySetState
<1>3. CASE SaveNode(op[p].id, op[p].node) /\ Goto(p, "start_guest") /\ UNCHANGED token
  BY <1>1, <1>2, <1>3, SaveCopyGotoGood
<1>4. CASE RestoreNodeStatus(p)
  BY <1>1, <1>2, <1>4, RestoreGood DEF Starting
<1>5. CASE UNCHANGED <<node, byInstance, vm>> /\ Return(p)
  BY <1>1, <1>2, <1>5, ReturnGood
<1> QED
  BY <1>3, <1>4, <1>5 DEF StartBoot

\* StartGuest keeps the invariant.
LEMMA StartGuestGood ==
  ASSUME IndInv, NEW p \in Procs, StartGuest(p)
  PROVE  Good(p)
<1> DEFINE new == [op[p].node EXCEPT !.status = "failed"]
<1>1. pc[p] = "start_guest" /\ fresh' = fresh /\ vm' \in [Names -> VM]
  BY DEF StartGuest, At, IndInv, TypeOK
<1>2. op[p].id \in Ids /\ token[op[p].id] = p /\ new \in Record /\ new.status \in Statuses
  BY <1>1, TargetFacts, RecordStatus DEF HoldsTarget, Starting, Statuses
<1>3. CASE SaveNode(op[p].id, op[p].node) /\ Goto(p, "start_commit") /\ UNCHANGED token
  BY <1>1, <1>3, SaveCopyGotoGood
<1>4. CASE SaveNode(op[p].id, new) /\ Return(p)
  <2> HIDE DEF new
  <2> QED
    BY <1>1, <1>2, <1>4, SaveReturnGood
<1>5. CASE UNCHANGED <<node, byInstance>> /\ Return(p)
  BY <1>1, <1>5, ReturnGood
<1> QED
  BY <1>3, <1>4, <1>5 DEF StartGuest

\* StartCommit keeps the invariant.
LEMMA StartCommitGood ==
  ASSUME IndInv, NEW p \in Procs, StartCommit(p)
  PROVE  Good(p)
<1> DEFINE i == op[p].id
           new == [op[p].node EXCEPT !.status = "running"]
           o == [op[p] EXCEPT !.node = new]
<1>1. pc[p] = "start_commit" /\ fresh' = fresh /\ vm' \in [Names -> VM]
  BY DEF StartCommit, At, IndInv, TypeOK
<1>2. i \in Ids /\ token[i] = p /\ op[p] \in OpRecord /\ op[p].node \in Record /\ ~op[p].wasRunning
  BY <1>1, TargetFacts DEF HoldsTarget, Starting, IndInv, Own, Making
<1>3. new \in Record /\ new.status = "running"
  BY <1>2, RecordStatus DEF Statuses
<1>4. CASE SaveNode(i, new) /\ Move(p, "reconcile", o) /\ UNCHANGED token
  <2>1. /\ o \in OpRecord /\ o.node = new /\ o.id = i /\ o.todo = op[p].todo
        /\ o.wasRunning = op[p].wasRunning
    BY <1>2, <1>3, OpNode
  <2>2. pc'[p] = "reconcile" /\ op'[p] = o
    BY <1>4 DEF Move, IndInv, TypeOK
  <2> HIDE DEF o, new
  <2>3. node'[i] = new
    BY <1>2, <1>3, <1>4, SaveFacts DEF IndInv, Statuses
  <2>4. Own(p)'
    BY <1>2, <1>3, <1>4, <2>1, <2>2, <2>3 DEF Own, HoldsTarget, HoldsChild, Copies, Making,
       Starting, Stopping, Deleting, Cloning, nodeMetadataExists, Statuses
  <2> QED
    BY <1>1, <1>2, <1>3, <1>4, <2>1, <2>4, SaveMoveGood DEF Labels, Statuses
<1>5. CASE UNCHANGED <<node, byInstance>> /\ Return(p)
  BY <1>1, <1>5, ReturnGood
<1> QED
  BY <1>4, <1>5 DEF StartCommit

\* ReconcilePersisted keeps the invariant.
LEMMA ReconcilePersistedGood ==
  ASSUME IndInv, NEW p \in Procs, ReconcilePersisted(p)
  PROVE  Good(p)
<1>1. pc[p] = "reconcile" /\ fresh' = fresh /\ vm' \in [Names -> VM] /\ Return(p)
  BY DEF ReconcilePersisted, At, IndInv, TypeOK
<1>2. /\ op[p].id \in Ids /\ token[op[p].id] = p
      /\ op[p].node \in Record /\ op[p].node.status \in Statuses
  BY <1>1, TargetFacts, CopyFacts DEF HoldsTarget, Copies
<1>3. ASSUME NEW s, SaveNode(op[p].id, Reconciled(op[p].node, s))
      PROVE  Good(p)
  BY <1>1, <1>2, <1>3, ReconciledFacts, SaveReturnGood
<1>4. CASE UNCHANGED <<node, byInstance>>
  BY <1>1, <1>4, ReturnGood
<1> QED
  BY <1>3, <1>4 DEF ReconcilePersisted

-----------------------------------------------------------------------------
(* Stop and delete.                                                        *)

\* A stop or a clone begins by recovering a stale claim.
LEMMA RecoverMoveGood ==
  ASSUME IndInv, NEW p \in Procs, NEW l \in {"stop_observe", "clone_observe"},
         pc[p] \in HoldsTarget, ~op[p].wasRunning, l = "clone_observe" => op[p].kind = "clone",
         RecoverStaleNodeClaim(op[p].id),
         Move(p, l, [op[p] EXCEPT !.node = Recovered(node[op[p].id])]),
         UNCHANGED <<token, vm, fresh>>
  PROVE  Good(p)
<1> DEFINE i == op[p].id
           rec == Recovered(node[i])
           o == [op[p] EXCEPT !.node = rec]
<1>1. i \in Ids /\ token[i] = p /\ node[i] \in Record /\ node[i].status \in Statuses
      /\ op[p] \in OpRecord
  BY TargetFacts
<1>2. rec \in Record /\ rec.status \in Statuses
  BY <1>1, RecoveredFacts
<1>3. /\ o \in OpRecord /\ o.node = rec /\ o.id = i /\ o.kind = op[p].kind
      /\ o.todo = op[p].todo /\ o.wasRunning = op[p].wasRunning
  BY <1>1, <1>2, OpNode
<1>4. pc'[p] = l /\ op'[p] = o /\ vm' \in [Names -> VM]
  BY DEF Move, IndInv, TypeOK
<1>5. node'[i] = rec
  <2>1. CASE node[i].status \in InFlight
    BY <1>1, <1>2, <2>1, SaveFacts DEF RecoverStaleNodeClaim, IndInv
  <2>2. CASE node[i].status \notin InFlight
    BY <2>2 DEF RecoverStaleNodeClaim, Recovered
  <2> QED
    BY <2>1, <2>2
<1>6. Own(p)'
  <2> HIDE DEF o, rec
  <2> QED
    BY <1>1, <1>2, <1>3, <1>4, <1>5 DEF Own, HoldsTarget, HoldsChild, Copies, Making,
       Starting, Stopping, Deleting, Cloning, nodeMetadataExists
<1>7. CASE node[i].status \in InFlight
  <2>1. SaveNode(i, rec) /\ Move(p, l, o)
    BY <1>7 DEF RecoverStaleNodeClaim
  <2> HIDE DEF o, rec
  <2> QED
    BY <1>1, <1>2, <1>3, <1>4, <1>6, <2>1, SaveMoveGood DEF Labels, Stopping, Cloning
<1>8. CASE node[i].status \notin InFlight
  <2>1. UNCHANGED <<node, byInstance>> /\ Move(p, l, o)
    BY <1>8 DEF RecoverStaleNodeClaim
  <2> HIDE DEF o, rec
  <2> QED
    BY <1>1, <1>3, <1>4, <1>6, <2>1, MoveGood DEF Labels, Stopping, Cloning
<1> QED
  BY <1>7, <1>8

\* StopBegin keeps the invariant.
LEMMA StopBeginGood ==
  ASSUME IndInv, NEW p \in Procs, StopBegin(p)
  PROVE  Good(p)
<1>1. pc[p] = "stop_begin" /\ vm' = vm /\ fresh' = fresh /\ vm' \in [Names -> VM]
  BY DEF StopBegin, At, IndInv, TypeOK
<1>2. pc[p] \in HoldsTarget /\ ~op[p].wasRunning
  BY <1>1 DEF HoldsTarget, IndInv, Own, Making
<1>3. CASE UNCHANGED <<node, byInstance>> /\ Return(p)
  BY <1>1, <1>3, ReturnGood
<1>4. CASE /\ RecoverStaleNodeClaim(op[p].id)
           /\ Move(p, "stop_observe", [op[p] EXCEPT !.node = Recovered(node[op[p].id])])
           /\ UNCHANGED token
  BY <1>1, <1>2, <1>4, RecoverMoveGood
<1> QED
  BY <1>3, <1>4 DEF StopBegin

\* The save of a stopped record, and what follows it.
LEMMA StopDoneGood ==
  ASSUME IndInv, NEW p \in Procs, pc[p] \in Stopping, StopDone(p), UNCHANGED <<vm, fresh>>
  PROVE  Good(p)
<1> DEFINE i == op[p].id
           new == [op[p].node EXCEPT !.status = "stopped"]
<1>1. /\ i \in Ids /\ token[i] = p /\ op[p] \in OpRecord /\ op[p].node \in Record
      /\ ~op[p].wasRunning /\ vm' \in [Names -> VM]
  BY TargetFacts DEF HoldsTarget, IndInv, TypeOK, Own, Making, Stopping
<1>2. new \in Record /\ new.status = "stopped"
  BY <1>1, RecordStatus DEF Statuses
<1>3. SaveNode(i, new)
  BY DEF StopDone
<1> HIDE DEF new
<1>4. CASE Return(p)
  BY <1>1, <1>2, <1>3, <1>4, SaveReturnGood DEF Statuses
<1>5. CASE Goto(p, "start_begin") /\ UNCHANGED token
  <2>1. node'[i] = new
    BY <1>1, <1>2, <1>3, SaveFacts DEF IndInv, Statuses
  <2>2. pc'[p] = "start_begin" /\ op' = op /\ Move(p, "start_begin", op[p])
    BY <1>5, GotoIsMove DEF Goto, IndInv, TypeOK
  <2>3. Own(p)'
    BY <1>1, <1>2, <1>5, <2>1, <2>2 DEF Own, HoldsTarget, HoldsChild, Copies, Making,
       Starting, Stopping, Deleting, Cloning, nodeMetadataExists, Statuses
  <2> QED
    BY <1>1, <1>2, <1>3, <1>5, <2>2, <2>3, SaveMoveGood DEF Labels, Statuses
<1> QED
  BY <1>4, <1>5 DEF StopDone

\* StopObserve keeps the invariant.
LEMMA StopObserveGood ==
  ASSUME IndInv, NEW p \in Procs, StopObserve(p)
  PROVE  Good(p)
<1> DEFINE i == op[p].id
           s == vm[op[p].node.slug].state
           rec == Reconciled(op[p].node, s)
           o == [op[p] EXCEPT !.node = rec]
<1>1. pc[p] = "stop_observe" /\ vm' = vm /\ fresh' = fresh /\ vm' \in [Names -> VM]
  BY DEF StopObserve, At, IndInv, TypeOK
<1>2. CASE StopDone(p)
  BY <1>1, <1>2, StopDoneGood DEF Stopping
<1>3. CASE UNCHANGED <<node, byInstance>> /\ Return(p)
  BY <1>1, <1>3, ReturnGood
<1>4. CASE Move(p, "stop_vm", o) /\ UNCHANGED <<node, byInstance, token>>
  <2>1. /\ op[p] \in OpRecord /\ op[p].node \in Record /\ op[p].node.status \in Statuses
        /\ i \in Ids /\ token[i] = p /\ node[i].status \in Statuses
        /\ op[p].node.slug = node[i].slug /\ op[p].node.deleted = node[i].deleted
        /\ op[p].node.status = node[i].status \/ op[p].node.status \in {"running", "stopped"}
    BY <1>1, TargetFacts, CopyFacts DEF HoldsTarget, Copies, Stopping
  <2>6. ~op[p].wasRunning
    BY <1>1, OwnHolds DEF Own, Making
  <2>2. /\ rec \in Record /\ rec.status \in Statuses
        /\ rec.slug = op[p].node.slug /\ rec.deleted = op[p].node.deleted
        /\ rec.status = op[p].node.status \/ rec.status \in {"running", "stopped"}
    BY <2>1, ReconciledFacts
  <2>3. /\ o \in OpRecord /\ o.node = rec /\ o.id = i /\ o.kind = op[p].kind
        /\ o.todo = op[p].todo /\ o.wasRunning = op[p].wasRunning
    BY <2>1, <2>2, OpNode
  <2>4. pc'[p] = "stop_vm" /\ op'[p] = o
    BY <1>4 DEF Move, IndInv, TypeOK
  <2> HIDE DEF o, rec
  <2>5. Own(p)'
    BY <1>4, <2>1, <2>2, <2>3, <2>4, <2>6, CopyOwn DEF Stopping, Cloning
  <2> QED
    BY <1>1, <1>4, <2>3, <2>5, MoveGood DEF Labels, Stopping
<1> QED
  BY <1>2, <1>3, <1>4 DEF StopObserve

\* StopVM keeps the invariant.
LEMMA StopVMGood ==
  ASSUME IndInv, NEW p \in Procs, StopVM(p)
  PROVE  Good(p)
<1>1. pc[p] = "stop_vm" /\ fresh' = fresh /\ UNCHANGED <<node, byInstance>>
  BY DEF StopVM, At
<1>2. vm' \in [Names -> VM]
  BY VmFacts DEF StopVM, IndInv, MaySetState
<1>3. CASE Return(p)
  BY <1>1, <1>2, <1>3, ReturnGood
<1>4. CASE Goto(p, "stop_confirm") /\ UNCHANGED token
  <2>1. pc'[p] = "stop_confirm" /\ op' = op
    BY <1>4 DEF Goto, IndInv, TypeOK
  <2>2. Own(p)'
    BY <1>1, <1>4, <2>1 DEF IndInv, Own, HoldsTarget, HoldsChild, Copies, Making, Starting,
       Stopping, Deleting, Cloning, nodeMetadataExists
  <2> QED
    BY <1>1, <1>2, <1>4, <2>2, GotoGood DEF Labels, Stopping
<1> QED
  BY <1>3, <1>4 DEF StopVM

\* StopConfirm keeps the invariant.
LEMMA StopConfirmGood ==
  ASSUME IndInv, NEW p \in Procs, StopConfirm(p)
  PROVE  Good(p)
<1>1. pc[p] = "stop_confirm" /\ vm' = vm /\ fresh' = fresh /\ vm' \in [Names -> VM]
  BY DEF StopConfirm, At, IndInv, TypeOK
<1>2. CASE StopDone(p)
  BY <1>1, <1>2, StopDoneGood DEF Stopping
<1>3. CASE UNCHANGED <<node, byInstance>> /\ Return(p)
  BY <1>1, <1>3, ReturnGood
<1> QED
  BY <1>2, <1>3 DEF StopConfirm

\* DeleteBegin keeps the invariant.
LEMMA DeleteBeginGood ==
  ASSUME IndInv, NEW p \in Procs, DeleteBegin(p)
  PROVE  Good(p)
<1> DEFINE i == op[p].id
           new == [node[i] EXCEPT !.status = "terminating"]
           o == [op[p] EXCEPT !.node = new]
<1>1. pc[p] = "delete_begin" /\ vm' = vm /\ fresh' = fresh /\ vm' \in [Names -> VM]
  BY DEF DeleteBegin, At, IndInv, TypeOK
<1>2. /\ i \in Ids /\ token[i] = p /\ node[i] \in Record /\ op[p] \in OpRecord
      /\ ~op[p].wasRunning
  BY <1>1, TargetFacts DEF HoldsTarget, IndInv, Own, Making
<1>3. new \in Record /\ new.status = "terminating"
  BY <1>2, RecordStatus DEF Statuses, InFlight
<1>4. CASE UNCHANGED <<node, byInstance>> /\ Return(p)
  BY <1>1, <1>4, ReturnGood
<1>5. CASE SaveNode(i, new) /\ Move(p, "delete_vm", o) /\ UNCHANGED token
  <2>1. /\ o \in OpRecord /\ o.node = new /\ o.id = i /\ o.kind = op[p].kind
        /\ o.todo = op[p].todo /\ o.wasRunning = op[p].wasRunning
    BY <1>2, <1>3, OpNode
  <2>2. pc'[p] = "delete_vm" /\ op'[p] = o
    BY <1>5 DEF Move, IndInv, TypeOK
  <2> HIDE DEF o, new
  <2>3. node'[i] = new
    BY <1>2, <1>3, <1>5, SaveFacts DEF IndInv, Statuses, InFlight
  <2>4. Own(p)'
    BY <1>2, <1>3, <1>5, <2>1, <2>2, <2>3 DEF Own, HoldsTarget, HoldsChild, Copies, Making,
       Starting, Stopping, Deleting, Cloning, nodeMetadataExists, Statuses, InFlight
  <2> QED
    BY <1>1, <1>2, <1>3, <1>5, <2>1, <2>4, SaveMoveGood DEF Labels, Deleting, Statuses, InFlight
<1> QED
  BY <1>4, <1>5 DEF DeleteBegin

\* A delete, failed or not, keeps the instances typed.
LEMMA DeleteFailsVm ==
  ASSUME TypeOK, NEW n, SandboxDeleteFails(n) \/ SandboxDelete(n)
  PROVE  vm' \in [Names -> VM]
  BY VmFacts DEF SandboxDeleteFails

\* DeleteVM keeps the invariant.
LEMMA DeleteVMGood ==
  ASSUME IndInv, NEW p \in Procs, DeleteVM(p)
  PROVE  Good(p)
<1>1. pc[p] = "delete_vm" /\ fresh' = fresh /\ UNCHANGED <<node, byInstance>>
  BY DEF DeleteVM, At
<1>2. vm' \in [Names -> VM]
  BY DeleteFailsVm DEF DeleteVM, IndInv
<1>3. CASE Return(p)
  BY <1>1, <1>2, <1>3, ReturnGood
<1>4. CASE Goto(p, "delete_commit") /\ UNCHANGED token
  <2>1. pc'[p] = "delete_commit" /\ op' = op
    BY <1>4 DEF Goto, IndInv, TypeOK
  <2>2. Own(p)'
    BY <1>1, <1>4, <2>1 DEF IndInv, Own, HoldsTarget, HoldsChild, Copies, Making, Starting,
       Stopping, Deleting, Cloning, nodeMetadataExists
  <2> QED
    BY <1>1, <1>2, <1>4, <2>2, GotoGood DEF Labels, Deleting
<1> QED
  BY <1>3, <1>4 DEF DeleteVM

\* DeleteCommit keeps the invariant.
LEMMA DeleteCommitGood ==
  ASSUME IndInv, NEW p \in Procs, DeleteCommit(p)
  PROVE  Good(p)
<1> DEFINE new == [op[p].node EXCEPT !.status = "terminated", !.deleted = TRUE]
<1>1. /\ pc[p] = "delete_commit" /\ fresh' = fresh /\ vm' \in [Names -> VM] /\ Return(p)
  BY DEF DeleteCommit, At, IndInv, TypeOK
<1>2. op[p].id \in Ids /\ token[op[p].id] = p /\ op[p].node \in Record
  BY <1>1, TargetFacts DEF HoldsTarget, Deleting
<1>3. new \in Record /\ new.status \in Statuses
  BY <1>2 DEF Record, Statuses
<1>4. CASE SaveNode(op[p].id, new)
  <2> HIDE DEF new
  <2> QED
    BY <1>1, <1>2, <1>3, <1>4, SaveReturnGood
<1>5. CASE UNCHANGED <<node, byInstance>>
  BY <1>1, <1>5, ReturnGood
<1> QED
  BY <1>4, <1>5 DEF DeleteCommit

-----------------------------------------------------------------------------
(* The making of a node, by create and by clone.                           *)

\* What a reservation does to the metadata.
LEMMA ReserveFacts ==
  ASSUME IndInv, NEW p \in Procs, NEW i \in Ids, NEW s \in Names, ReserveNode(p, i, s)
  PROVE  /\ Reserved(s) \in Record /\ i \in fresh /\ fresh' = fresh \ {i}
         /\ node' = [node EXCEPT ![i] = Reserved(s)] /\ token' = [token EXCEPT ![i] = p]
         /\ node'[i] = Reserved(s) /\ token'[i] = p
         /\ byInstance' \in [Names -> Ids \cup {None}]
         /\ \A j \in Ids : nodeMetadataExists(j) => j # i
         /\ \A j \in Ids : token[j] # None => j # i
<1>1. i \in fresh /\ node[i] = Absent /\ token[i] = None
  BY DEF IndInv, FreshUnknown, ReserveNode
<1>2. ~nodeMetadataExists(i)
  BY <1>1 DEF nodeMetadataExists, Absent, Statuses, InFlight
<1>3. Reserved(s) \in Record
  BY DEF Reserved, Record
<1>4. /\ fresh' = fresh \ {i} /\ byInstance' \in [Names -> Ids \cup {None}]
      /\ node' = [node EXCEPT ![i] = Reserved(s)] /\ token' = [token EXCEPT ![i] = p]
      /\ node'[i] = Reserved(s) /\ token'[i] = p
  BY DEF IndInv, TypeOK, ReserveNode
<1> QED
  BY <1>1, <1>2, <1>3, <1>4

\* A reservation is good whoever makes it.
LEMMA ReserveGood ==
  ASSUME IndInv, NEW p \in Procs, NEW i \in Ids, NEW s \in Names, ReserveNode(p, i, s),
         NEW o \in OpRecord, Move(p, "new_check", o), o.todo \subseteq op[p].todo,
         UNCHANGED vm, Own(p)'
  PROVE  Good(p)
<1>1. /\ Reserved(s) \in Record /\ i \in fresh /\ fresh' = fresh \ {i}
      /\ node' = [node EXCEPT ![i] = Reserved(s)] /\ token' = [token EXCEPT ![i] = p]
      /\ byInstance' \in [Names -> Ids \cup {None}]
      /\ \A j \in Ids : nodeMetadataExists(j) => j # i
  BY ReserveFacts
<1>2. TypeOK'
  BY <1>1 DEF IndInv, TypeOK, Move, Labels, Making
<1>3. \A j \in Ids : nodeMetadataExists(j) => nodeMetadataExists(j)'
  BY <1>1 DEF IndInv, TypeOK, nodeMetadataExists
<1> QED
  BY <1>1, <1>2, <1>3 DEF IndInv, TypeOK, Good, FreshUnknown, Move

\* CreateReserve keeps the invariant.
LEMMA CreateReserveGood ==
  ASSUME IndInv, NEW p \in Procs, NEW i \in Ids, NEW s \in Names, CreateReserve(p, i, s)
  PROVE  Good(p)
<1> DEFINE o == [NoOp EXCEPT !.kind = "create", !.child = i, !.name = s]
<1>1. ReserveNode(p, i, s) /\ Move(p, "new_check", o) /\ vm' = vm /\ "create" \in Kinds
  BY DEF CreateReserve
<1>2. /\ o \in OpRecord /\ o.kind = "create" /\ o.child = i /\ o.name = s
      /\ o.todo = {} /\ ~o.wasRunning
  BY <1>1 DEF NoOp, OpRecord, Absent, Record, Item
<1>3. pc'[p] = "new_check" /\ op'[p] = o
  BY <1>1 DEF Move, IndInv, TypeOK
<1>4. node'[i] = Reserved(s) /\ token'[i] = p
  BY <1>1, ReserveFacts
<1> HIDE DEF o
<1>5. Own(p)'
  BY <1>2, <1>3, <1>4 DEF Own, HoldsTarget, HoldsChild, Copies, Making,
     Starting, Stopping, Deleting, Cloning
<1> QED
  BY <1>1, <1>2, <1>5, ReserveGood

\* CloneReserve keeps the invariant.
LEMMA CloneReserveGood ==
  ASSUME IndInv, NEW p \in Procs, NEW i \in Ids, NEW s \in Names, CloneReserve(p, i, s)
  PROVE  Good(p)
<1> DEFINE o == [op[p] EXCEPT !.child = i, !.name = s]
           t == op[p].id
<1>1. ReserveNode(p, i, s) /\ Move(p, "new_check", o) /\ vm' = vm /\ pc[p] = "clone_reserve"
  BY DEF CloneReserve, At
<1>2. /\ t \in Ids /\ token[t] = p /\ node[t].status \in Statuses /\ op[p] \in OpRecord
      /\ op[p].node.status \in Statuses
      /\ op[p].node.slug = node[t].slug /\ op[p].node.deleted = node[t].deleted
      /\ op[p].node.status = node[t].status \/ op[p].node.status \in {"running", "stopped"}
  BY <1>1, TargetFacts, CopyFacts DEF HoldsTarget, Copies, Cloning
<1>7. op[p].kind = "clone"
  BY <1>1, OwnHolds DEF Own, Cloning
<1>3. /\ o \in OpRecord /\ o.kind = op[p].kind /\ o.child = i /\ o.name = s /\ o.id = t
      /\ o.todo = op[p].todo /\ o.wasRunning = op[p].wasRunning /\ o.node = op[p].node
  BY <1>2 DEF OpRecord
<1>4. pc'[p] = "new_check" /\ op'[p] = o
  BY <1>1 DEF Move, IndInv, TypeOK
<1>5. /\ node'[i] = Reserved(s) /\ token'[i] = p /\ t # i
      /\ node'[t] = node[t] /\ token'[t] = p
  BY <1>1, <1>2, ReserveFacts DEF IndInv, TypeOK, nodeMetadataExists
<1> HIDE DEF o
<1>6. Own(p)'
  BY <1>2, <1>3, <1>4, <1>5, <1>7, MakingOwn DEF Making
<1> QED
  BY <1>1, <1>3, <1>6, ReserveGood

\* What p knows while it makes a node.
LEMMA MakingFacts ==
  ASSUME IndInv, NEW p \in Procs, pc[p] \in Making
  PROVE  /\ op[p] \in OpRecord /\ op[p].child \in Ids /\ op[p].name \in Names
         /\ token[op[p].child] = p /\ node[op[p].child] = Reserved(op[p].name)
         /\ ~nodeMetadataExists(op[p].child)
         /\ op[p].wasRunning => op[p].kind = "clone"
         /\ op[p].kind = "clone" =>
              op[p].id \in Ids /\ op[p].id # op[p].child
<1>1. /\ op[p].child \in Ids /\ token[op[p].child] = p /\ op[p].name \in Names
      /\ node[op[p].child] = Reserved(op[p].name)
      /\ op[p].wasRunning => op[p].kind = "clone"
  BY OwnHolds DEF Own, HoldsChild
<1>2. ~nodeMetadataExists(op[p].child)
  BY <1>1 DEF nodeMetadataExists, Reserved, Statuses, InFlight
<1>3. op[p].kind = "clone" => op[p].id \in Ids /\ nodeMetadataExists(op[p].id)
  BY OwnHolds DEF Own
<1> QED
  BY <1>1, <1>2, <1>3, OwnHolds

\* A step inside the making of a node that only moves on.
LEMMA MakingGotoGood ==
  ASSUME IndInv, NEW p \in Procs, pc[p] \in Making, NEW l \in Making, Goto(p, l),
         UNCHANGED <<node, byInstance, token, fresh>>, vm' \in [Names -> VM]
  PROVE  Good(p)
<1>1. pc'[p] = l /\ op' = op
  BY DEF Goto, IndInv, TypeOK
<1>2. Own(p)'
  BY <1>1 DEF IndInv, Own, HoldsTarget, HoldsChild, Copies, Making, Starting,
     Stopping, Deleting, Cloning, nodeMetadataExists
<1> QED
  BY <1>2, GotoGood DEF Labels

\* The end of the making of a node, whatever became of the new directory.
LEMMA NewNodeDoneGood ==
  ASSUME IndInv, NEW p \in Procs, pc[p] \in Making, NewNodeDone(p), UNCHANGED fresh,
         vm' \in [Names -> VM], node' \in [Ids -> Record],
         byInstance' \in [Names -> Ids \cup {None}],
         \A j \in Ids \ {op[p].child} : node'[j] = node[j]
  PROVE  Good(p)
<1> DEFINE c == op[p].child
           t == op[p].id
           o == [op[p] EXCEPT !.child = None, !.name = None]
<1>1. /\ op[p] \in OpRecord /\ c \in Ids /\ token[c] = p /\ c \notin fresh
      /\ ~nodeMetadataExists(c)
      /\ op[p].wasRunning => t \in Ids /\ t # c
  <2>1. token[c] = p /\ c \in Ids
    BY MakingFacts
  <2>2. c \notin fresh
    BY <2>1, NoneAssumption DEF IndInv, FreshUnknown
  <2> QED
    BY <2>1, <2>2, MakingFacts
<1>2. \A j \in Ids : nodeMetadataExists(j) => nodeMetadataExists(j)'
  BY <1>1 DEF nodeMetadataExists
<1>3. CASE Return(p)
  <2>1. /\ pc' \in [Procs -> Labels] /\ op' \in [Procs -> OpRecord]
        /\ token' \in [Ids -> Procs \cup {None}]
        /\ \A q \in Procs \ {p} : pc'[q] = pc[q] /\ op'[q] = op[q]
        /\ \A i \in Ids : token'[i] = token[i] \/ (token[i] = p /\ token'[i] = None)
        /\ op'[p].todo = {} /\ Own(p)'
    BY <1>3, ReturnFacts DEF IndInv
  <2> QED
    BY <1>1, <1>2, <2>1 DEF IndInv, TypeOK, Good, FreshUnknown
<1>4. CASE /\ op[p].wasRunning /\ token' = [token EXCEPT ![c] = None]
           /\ Move(p, "clone_restart", o)
  <2>1. /\ o \in OpRecord /\ o.kind = op[p].kind /\ o.id = t
        /\ o.todo = op[p].todo /\ o.wasRunning = op[p].wasRunning /\ o.node = op[p].node
    BY <1>1 DEF OpRecord
  <2>2. pc'[p] = "clone_restart" /\ op'[p] = o
    BY <1>4 DEF Move, IndInv, TypeOK
  <2>3. node'[t] = node[t] /\ token'[t] = token[t]
    BY <1>1, <1>4 DEF IndInv, TypeOK
  <2>4. TypeOK'
    BY <1>4, <2>1 DEF IndInv, TypeOK, Move, Labels, Cloning
  <2>5. Own(p)'
    <3>1. /\ op[p].kind = "clone" /\ token[t] = p /\ node[t].status \in Statuses
          /\ op[p].node.status \in Statuses
          /\ op[p].node.slug = node[t].slug /\ op[p].node.deleted = node[t].deleted
          /\ op[p].node.status = node[t].status \/ op[p].node.status \in {"running", "stopped"}
      <4>1. op[p].kind = "clone" /\ Own(p)
        BY <1>4, OwnHolds, MakingFacts
      <4> QED
        BY <4>1 DEF Own, nodeMetadataExists
    <3> HIDE DEF o
    <3>2. op'[p].id = t /\ op'[p].node = op[p].node /\ op'[p].kind = "clone"
      BY <2>1, <2>2, <3>1
    <3>3. pc'[p] \in Cloning /\ pc'[p] \in {"clone_reserve", "clone_restart", "reconcile"}
      BY <2>2 DEF Cloning
    <3>4. /\ op'[p].id \in Ids /\ token'[op'[p].id] = p
          /\ node'[op'[p].id].status \in Statuses /\ op'[p].node.status \in Statuses
          /\ op'[p].node.slug = node'[op'[p].id].slug
          /\ op'[p].node.deleted = node'[op'[p].id].deleted
          /\ \/ op'[p].node.status = node'[op'[p].id].status
             \/ op'[p].node.status \in {"running", "stopped"}
      BY <1>1, <1>4, <2>3, <3>1, <3>2
    <3> HIDE DEF t
    <3> QED
      BY <3>2, <3>3, <3>4, CopyOwn
  <2> HIDE DEF o
  <2> QED
    BY <1>1, <1>2, <1>4, <2>1, <2>2, <2>4, <2>5 DEF IndInv, TypeOK, Good, FreshUnknown, Move
<1> QED
  BY <1>3, <1>4 DEF NewNodeDone

\* NewCheck keeps the invariant.
LEMMA NewCheckGood ==
  ASSUME IndInv, NEW p \in Procs, NewCheck(p)
  PROVE  Good(p)
<1>1. /\ pc[p] \in Making /\ UNCHANGED <<node, byInstance, token, fresh>>
      /\ vm' \in [Names -> VM]
  BY DEF NewCheck, At, Making, IndInv, TypeOK
<1> QED
  BY <1>1, MakingGotoGood DEF NewCheck, Making

\* NewVM keeps the invariant.
LEMMA NewVMGood ==
  ASSUME IndInv, NEW p \in Procs, NewVM(p)
  PROVE  Good(p)
<1>1. pc[p] \in Making /\ UNCHANGED <<node, byInstance, token, fresh>>
  BY DEF NewVM, At, Making
<1>2. [owner |-> op[p].child, state |-> "stopped"] \in VM
  BY <1>1, MakingFacts DEF VM
<1>3. vm' \in [Names -> VM]
  BY <1>2 DEF NewVM, IndInv, TypeOK
<1> QED
  BY <1>1, <1>3, MakingGotoGood DEF NewVM, Making

\* CloneSettle keeps the invariant.
LEMMA CloneSettleGood ==
  ASSUME IndInv, NEW p \in Procs, CloneSettle(p)
  PROVE  Good(p)
<1>1. pc[p] \in Making /\ UNCHANGED <<node, byInstance, token, fresh>>
  BY DEF CloneSettle, At, Making
<1>2. vm' \in [Names -> VM]
  BY VmFacts DEF CloneSettle, IndInv, MaySetState
<1> QED
  BY <1>1, <1>2, MakingGotoGood DEF CloneSettle, Making

\* NewCommit keeps the invariant.
LEMMA NewCommitGood ==
  ASSUME IndInv, NEW p \in Procs, NewCommit(p)
  PROVE  Good(p)
<1>1. pc[p] \in Making /\ fresh' = fresh /\ vm' \in [Names -> VM]
  BY DEF NewCommit, At, Making, IndInv, TypeOK
<1>2. CASE Goto(p, "undo_vm") /\ UNCHANGED <<node, byInstance, token>>
  BY <1>1, <1>2, MakingGotoGood DEF Making
<1>3. ASSUME NEW st \in NewStatuses(op[p].kind), NewNodeDone(p),
             SaveNode(op[p].child, [status |-> st, slug |-> op[p].name, deleted |-> FALSE])
      PROVE  Good(p)
  <2> DEFINE rec == [status |-> st, slug |-> op[p].name, deleted |-> FALSE]
  <2>1. op[p].child \in Ids /\ token[op[p].child] = p /\ op[p].name \in Names
    BY <1>1, MakingFacts
  <2>2. rec \in Record /\ rec.status \in Statuses
    BY <2>1 DEF Record, Statuses, NewStatuses
  <2> HIDE DEF rec
  <2>3. /\ node' \in [Ids -> Record] /\ byInstance' \in [Names -> Ids \cup {None}]
        /\ \A j \in Ids \ {op[p].child} : node'[j] = node[j]
    BY <1>3, <2>1, <2>2, SaveFacts DEF IndInv, rec
  <2> QED
    BY <1>1, <1>3, <2>3, NewNodeDoneGood
<1> QED
  BY <1>2, <1>3 DEF NewCommit

\* UndoVM keeps the invariant.
LEMMA UndoVMGood ==
  ASSUME IndInv, NEW p \in Procs, UndoVM(p)
  PROVE  Good(p)
<1>1. pc[p] \in Making /\ fresh' = fresh /\ UNCHANGED <<node, byInstance>>
  BY DEF UndoVM, At, Making
<1>2. vm' \in [Names -> VM]
  BY DeleteFailsVm DEF UndoVM, IndInv
<1>3. CASE Goto(p, "undo_metadata") /\ UNCHANGED token
  BY <1>1, <1>2, <1>3, MakingGotoGood DEF Making
<1>4. CASE NewNodeDone(p)
  BY <1>1, <1>2, <1>4, NewNodeDoneGood DEF IndInv, TypeOK
<1> QED
  BY <1>3, <1>4 DEF UndoVM

\* The removal of a reservation.
LEMMA RemoveFacts ==
  ASSUME TypeOK, NEW i \in Ids, NEW n, RemoveIncompleteNodeMetadata(i, n)
  PROVE  /\ node' \in [Ids -> Record] /\ byInstance' \in [Names -> Ids \cup {None}]
         /\ \A j \in Ids \ {i} : node'[j] = node[j]
<1>1. Absent \in Record
  BY DEF Absent, Record
<1> QED
  BY <1>1 DEF TypeOK, RemoveIncompleteNodeMetadata

\* UndoMetadata keeps the invariant.
LEMMA UndoMetadataGood ==
  ASSUME IndInv, NEW p \in Procs, UndoMetadata(p)
  PROVE  Good(p)
<1>1. /\ pc[p] \in Making /\ fresh' = fresh /\ vm' \in [Names -> VM] /\ NewNodeDone(p)
  BY DEF UndoMetadata, At, Making, IndInv, TypeOK
<1>2. op[p].child \in Ids
  BY <1>1, MakingFacts
<1>3. /\ node' \in [Ids -> Record] /\ byInstance' \in [Names -> Ids \cup {None}]
      /\ \A j \in Ids \ {op[p].child} : node'[j] = node[j]
  BY <1>2, RemoveFacts DEF UndoMetadata, IndInv, TypeOK
<1> QED
  BY <1>1, <1>3, NewNodeDoneGood

-----------------------------------------------------------------------------
(* The source half of a clone.                                             *)

\* CloneBegin keeps the invariant.
LEMMA CloneBeginGood ==
  ASSUME IndInv, NEW p \in Procs, CloneBegin(p)
  PROVE  Good(p)
<1>1. pc[p] = "clone_begin" /\ vm' = vm /\ fresh' = fresh /\ vm' \in [Names -> VM]
  BY DEF CloneBegin, At, IndInv, TypeOK
<1>2. pc[p] \in HoldsTarget /\ ~op[p].wasRunning /\ op[p].kind = "clone"
  BY <1>1 DEF HoldsTarget, IndInv, Own, Making
<1>3. CASE UNCHANGED <<node, byInstance>> /\ Return(p)
  BY <1>1, <1>3, ReturnGood
<1>4. CASE /\ RecoverStaleNodeClaim(op[p].id)
           /\ Move(p, "clone_observe", [op[p] EXCEPT !.node = Recovered(node[op[p].id])])
           /\ UNCHANGED token
  BY <1>1, <1>2, <1>4, RecoverMoveGood
<1> QED
  BY <1>3, <1>4 DEF CloneBegin

\* CloneObserve keeps the invariant.
LEMMA CloneObserveGood ==
  ASSUME IndInv, NEW p \in Procs, CloneObserve(p)
  PROVE  Good(p)
<1>1. /\ pc[p] = "clone_observe" /\ UNCHANGED <<node, byInstance, vm, fresh>>
      /\ vm' \in [Names -> VM]
  BY DEF CloneObserve, At, IndInv, TypeOK
<1>2. CASE Return(p)
  BY <1>1, <1>2, ReturnGood
<1>3. ASSUME NEW s, NEW l \in {"clone_stop", "clone_reserve"}, UNCHANGED token,
             Move(p, l, [op[p] EXCEPT !.node = Reconciled(op[p].node, s)])
      PROVE  Good(p)
  <2> DEFINE rec == Reconciled(op[p].node, s)
             o == [op[p] EXCEPT !.node = rec]
  <2>1. op[p] \in OpRecord /\ op[p].node \in Record /\ op[p].node.status \in Statuses
    BY <1>1, TargetFacts, CopyFacts DEF HoldsTarget, Copies, Cloning
  <2>2. /\ rec \in Record /\ rec.status \in Statuses
        /\ rec.slug = op[p].node.slug /\ rec.deleted = op[p].node.deleted
        /\ rec.status = op[p].node.status \/ rec.status \in {"running", "stopped"}
    BY <2>1, ReconciledFacts
  <2>3. /\ o \in OpRecord /\ o.node = rec /\ o.id = op[p].id /\ o.kind = op[p].kind
        /\ o.todo = op[p].todo /\ o.wasRunning = op[p].wasRunning
    BY <2>1, <2>2, OpNode
  <2>4. pc'[p] = l /\ op'[p] = o
    BY <1>3 DEF Move, IndInv, TypeOK
  <2>5. Move(p, l, o)
    BY <1>3
  <2> HIDE DEF o, rec
  <2>6. Own(p)'
    <3>1. Own(p)
      BY OwnHolds
    <3> QED
      BY <1>1, <1>3, <2>2, <2>3, <2>4, <3>1, SMTT(20) DEF Own, HoldsTarget, HoldsChild, Copies,
         Making, Starting, Stopping, Deleting, Cloning, nodeMetadataExists
  <2> QED
    BY <1>1, <1>3, <2>3, <2>5, <2>6, MoveGood DEF Labels, Cloning
<1> QED
  BY <1>2, <1>3 DEF CloneObserve

\* CloneStop keeps the invariant.
LEMMA CloneStopGood ==
  ASSUME IndInv, NEW p \in Procs, CloneStop(p)
  PROVE  Good(p)
<1> DEFINE o == [op[p] EXCEPT !.wasRunning = TRUE]
<1>1. pc[p] = "clone_stop" /\ UNCHANGED <<node, byInstance, fresh>>
  BY DEF CloneStop, At
<1>2. vm' \in [Names -> VM]
  BY VmFacts DEF CloneStop, IndInv, MaySetState
<1>3. CASE Return(p)
  BY <1>1, <1>2, <1>3, ReturnGood
<1>4. CASE Move(p, "clone_reserve", o) /\ UNCHANGED token
  <2>1. /\ op[p] \in OpRecord /\ op[p].id \in Ids /\ token[op[p].id] = p
        /\ node[op[p].id].status \in Statuses /\ op[p].node.status \in Statuses
        /\ op[p].node.slug = node[op[p].id].slug /\ op[p].node.deleted = node[op[p].id].deleted
        /\ \/ op[p].node.status = node[op[p].id].status
           \/ op[p].node.status \in {"running", "stopped"}
    BY <1>1, TargetFacts, CopyFacts DEF HoldsTarget, Copies, Cloning
  <2>5. op[p].kind = "clone"
    BY <1>1, OwnHolds DEF Own, Cloning
  <2>2. /\ o \in OpRecord /\ o.node = op[p].node /\ o.id = op[p].id /\ o.kind = op[p].kind
        /\ o.todo = op[p].todo
    BY <2>1 DEF OpRecord
  <2>3. pc'[p] = "clone_reserve" /\ op'[p] = o
    BY <1>4 DEF Move, IndInv, TypeOK
  <2> HIDE DEF o
  <2>4. Own(p)'
    BY <1>1, <1>4, <2>1, <2>2, <2>3, <2>5, CopyOwn DEF Cloning
  <2> QED
    BY <1>1, <1>2, <1>4, <2>2, <2>4, MoveGood DEF Labels, Cloning
<1> QED
  BY <1>3, <1>4 DEF CloneStop

\* CloneReserveFails keeps the invariant.
LEMMA CloneReserveFailsGood ==
  ASSUME IndInv, NEW p \in Procs, CloneReserveFails(p)
  PROVE  Good(p)
<1>1. /\ pc[p] = "clone_reserve" /\ UNCHANGED <<node, byInstance, vm, fresh>>
      /\ vm' \in [Names -> VM]
  BY DEF CloneReserveFails, At, IndInv, TypeOK
<1>2. CASE Return(p)
  BY <1>1, <1>2, ReturnGood
<1>3. CASE Goto(p, "clone_restart") /\ UNCHANGED token
  <2>1. pc'[p] = "clone_restart" /\ op' = op
    BY <1>3 DEF Goto, IndInv, TypeOK
  <2>2. Own(p)'
    BY <1>1, <1>3, <2>1 DEF IndInv, Own, HoldsTarget, HoldsChild, Copies, Making, Starting,
       Stopping, Deleting, Cloning, nodeMetadataExists
  <2> QED
    BY <1>1, <1>3, <2>2, GotoGood DEF Labels, Cloning
<1> QED
  BY <1>2, <1>3 DEF CloneReserveFails

\* CloneRestart keeps the invariant.
LEMMA CloneRestartGood ==
  ASSUME IndInv, NEW p \in Procs, CloneRestart(p)
  PROVE  Good(p)
<1>1. pc[p] = "clone_restart" /\ UNCHANGED <<node, byInstance, fresh>>
  BY DEF CloneRestart, At
<1>2. vm' \in [Names -> VM]
  BY VmFacts DEF CloneRestart, IndInv, MaySetState
<1>3. CASE Return(p)
  BY <1>1, <1>2, <1>3, ReturnGood
<1>4. CASE Goto(p, "reconcile") /\ UNCHANGED token
  <2>1. pc'[p] = "reconcile" /\ op' = op
    BY <1>4 DEF Goto, IndInv, TypeOK
  <2>2. Own(p)'
    BY <1>1, <1>4, <2>1 DEF IndInv, Own, HoldsTarget, HoldsChild, Copies, Making, Starting,
       Stopping, Deleting, Cloning, nodeMetadataExists
  <2> QED
    BY <1>1, <1>2, <1>4, <2>2, GotoGood DEF Labels
<1> QED
  BY <1>3, <1>4 DEF CloneRestart

-----------------------------------------------------------------------------
(* cleanup-incomplete and the repair of stale claims.                      *)

\* A scan puts ids that exist on the work list of an idle process.
LEMMA ScanGood ==
  ASSUME IndInv, NEW p \in Procs, NEW l \in {"cleanup_list", "repair_item"},
         NEW k \in Kinds, NEW T \in SUBSET Ids, \A i \in T : node[i] # Absent,
         Move(p, l, [NoOp EXCEPT !.kind = k, !.todo = {[id |-> i, name |-> node[i].slug] : i \in T}]),
         UNCHANGED <<node, byInstance, token, vm, fresh>>
  PROVE  Good(p)
<1> DEFINE items == {[id |-> i, name |-> node[i].slug] : i \in T}
           o == [NoOp EXCEPT !.kind = k, !.todo = items]
<1>1. items \in SUBSET Item
  BY DEF IndInv, TypeOK, Item, Record
<1>2. \A item \in items : item.id \notin fresh
  BY DEF IndInv, FreshUnknown
<1> HIDE DEF items
<1>3. o \in OpRecord /\ o.todo = items /\ ~o.wasRunning
  BY <1>1 DEF NoOp, OpRecord, Absent, Record
<1>4. pc'[p] = l /\ op'[p] = o /\ Move(p, l, o)
  BY DEF Move, IndInv, TypeOK, items
<1> HIDE DEF o
<1>5. Own(p)'
  BY <1>3, <1>4 DEF Own, HoldsTarget, HoldsChild, Copies, Making,
     Starting, Stopping, Deleting, Cloning
<1> QED
  BY <1>2, <1>3, <1>4, <1>5
     DEF IndInv, TypeOK, Good, FreshUnknown, Move, nodeMetadataExists, Labels, Cleaning

\* CleanupScan keeps the invariant.
LEMMA CleanupScanGood ==
  ASSUME IndInv, NEW p \in Procs, CleanupScan(p)
  PROVE  Good(p)
<1> DEFINE T == {j \in Ids : node[j].status = "reserved"}
<1>1. \A i \in T : node[i] # Absent
  <2>1. Absent.status = "absent"
    BY DEF Absent
  <2> QED
    BY <2>1
<1>2. /\ Move(p, "cleanup_list", [NoOp EXCEPT !.kind = "cleanup",
                                   !.todo = {[id |-> i, name |-> node[i].slug] : i \in T}])
      /\ "cleanup" \in Kinds /\ T \in SUBSET Ids /\ UNCHANGED <<node, byInstance, token, vm, fresh>>
  BY DEF CleanupScan, Incomplete
<1> HIDE DEF T
<1> QED
  BY <1>1, <1>2, ScanGood

\* RepairScan keeps the invariant.
LEMMA RepairScanGood ==
  ASSUME IndInv, NEW p \in Procs, RepairScan(p)
  PROVE  Good(p)
<1>1. StaleClaims \in SUBSET Ids /\ \A i \in StaleClaims : node[i] # Absent
  BY DEF Absent, StaleClaims, InFlight
<1> HIDE DEF StaleClaims
<1> QED
  BY <1>1, ScanGood DEF RepairScan

\* A label at which a process holds nothing.
LEMMA FreeOwn ==
  ASSUME NEW p \in Procs, pc'[p] \in {"cleanup_list", "cleanup_item", "repair_item"},
         ~op'[p].wasRunning
  PROVE  Own(p)'
  BY DEF Own, HoldsTarget, HoldsChild, Copies, Making, Starting, Stopping, Deleting, Cloning

\* A label at which a process holds one item of its list.
LEMMA ItemOwn ==
  ASSUME NEW p \in Procs, pc'[p] \in {"cleanup_vm", "cleanup_metadata", "repair_fix"},
         ~op'[p].wasRunning, op'[p].child \in Ids, token'[op'[p].child] = p
  PROVE  Own(p)'
  BY DEF Own, HoldsTarget, HoldsChild, Copies, Making, Starting, Stopping, Deleting, Cloning

\* A cleanup and a repair owe nobody a restart.
LEMMA NotRunning ==
  ASSUME IndInv, NEW p \in Procs,
         pc[p] \in {"cleanup_list", "cleanup_item", "cleanup_vm", "cleanup_metadata",
                    "repair_item", "repair_fix"}
  PROVE  ~op[p].wasRunning /\ op[p] \in OpRecord
  BY OwnHolds DEF Own, Making

\* CleanupList keeps the invariant.
LEMMA CleanupListGood ==
  ASSUME IndInv, NEW p \in Procs, CleanupList(p)
  PROVE  Good(p)
<1> DEFINE o == [op[p] EXCEPT !.seen = {n \in Names : vm[n].state # "none"}]
<1>1. /\ pc[p] = "cleanup_list" /\ UNCHANGED <<node, byInstance, vm, fresh>>
      /\ vm' \in [Names -> VM]
  BY DEF CleanupList, At, IndInv, TypeOK
<1>2. CASE Return(p)
  BY <1>1, <1>2, ReturnGood
<1>3. CASE Move(p, "cleanup_item", o) /\ UNCHANGED token
  <2>1. o \in OpRecord /\ o.todo = op[p].todo /\ ~o.wasRunning
    BY <1>1, NotRunning DEF OpRecord
  <2>2. pc'[p] = "cleanup_item" /\ op'[p] = o
    BY <1>3 DEF Move, IndInv, TypeOK
  <2> HIDE DEF o
  <2>3. Own(p)'
    BY <2>1, <2>2, FreeOwn
  <2> QED
    BY <1>1, <1>3, <2>1, <2>3, MoveGood DEF Labels, Cleaning
<1> QED
  BY <1>2, <1>3 DEF CleanupList

\* The next item of a work list: its token is taken, or the item is skipped.
LEMMA TakeItemGood ==
  ASSUME IndInv, NEW p \in Procs, NEW item \in op[p].todo,
         pc[p] \in {"cleanup_item", "repair_item"},
         NEW o \in OpRecord, o.todo = op[p].todo \ {item}, ~o.wasRunning,
         UNCHANGED <<node, byInstance, vm, fresh>>,
         \/ /\ token[item.id] = None /\ token' = [token EXCEPT ![item.id] = p]
            /\ o.child = item.id
            /\ \E l \in {"cleanup_vm", "cleanup_metadata", "repair_fix"} : Move(p, l, o)
         \/ /\ UNCHANGED token
            /\ \E l \in {"cleanup_item", "repair_item"} : Move(p, l, o)
  PROVE  Good(p)
<1>1. item.id \in Ids /\ item.id \notin fresh /\ vm' \in [Names -> VM]
  BY DEF IndInv, TypeOK, FreshUnknown, OpRecord, Item
<1>2. ASSUME token[item.id] = None, token' = [token EXCEPT ![item.id] = p], o.child = item.id,
             NEW l \in {"cleanup_vm", "cleanup_metadata", "repair_fix"}, Move(p, l, o)
      PROVE  Good(p)
  <2>1. pc'[p] = l /\ op'[p] = o /\ token'[item.id] = p
    BY <1>1, <1>2 DEF Move, IndInv, TypeOK
  <2>2. Own(p)'
    BY <1>1, <1>2, <2>1, ItemOwn
  <2> QED
    BY <1>1, <1>2, <2>2, ClaimGood DEF Labels, Cleaning
<1>3. ASSUME UNCHANGED token, NEW l \in {"cleanup_item", "repair_item"}, Move(p, l, o)
      PROVE  Good(p)
  <2>1. pc'[p] = l /\ op'[p] = o
    BY <1>3 DEF Move, IndInv, TypeOK
  <2>2. Own(p)'
    BY <2>1, FreeOwn
  <2> QED
    BY <1>1, <1>3, <2>2, MoveGood DEF Labels, Cleaning
<1> QED
  BY <1>2, <1>3

\* CleanupItem keeps the invariant.
LEMMA CleanupItemGood ==
  ASSUME IndInv, NEW p \in Procs, NEW item \in op[p].todo, CleanupItem(p, item)
  PROVE  Good(p)
<1> DEFINE o1 == [op[p] EXCEPT !.child = item.id, !.name = item.name, !.todo = @ \ {item}]
           o2 == [op[p] EXCEPT !.todo = @ \ {item}]
<1>1. pc[p] = "cleanup_item" /\ UNCHANGED <<node, byInstance, vm, fresh>>
  BY DEF CleanupItem, At
<1>2. op[p] \in OpRecord /\ item \in Item /\ ~op[p].wasRunning
  BY <1>1, NotRunning DEF OpRecord
<1>3. o1 \in OpRecord /\ o1.todo = op[p].todo \ {item} /\ o1.child = item.id /\ ~o1.wasRunning
  BY <1>2 DEF OpRecord, Item
<1>4. o2 \in OpRecord /\ o2.todo = op[p].todo \ {item} /\ ~o2.wasRunning
  BY <1>2 DEF OpRecord
<1>5. \/ /\ token[item.id] = None /\ token' = [token EXCEPT ![item.id] = p]
         /\ \E l \in {"cleanup_vm", "cleanup_metadata", "repair_fix"} : Move(p, l, o1)
      \/ UNCHANGED token /\ \E l \in {"cleanup_item", "repair_item"} : Move(p, l, o2)
  BY DEF CleanupItem
<1> HIDE DEF o1, o2
<1> QED
  BY <1>1, <1>3, <1>4, <1>5, TakeItemGood

\* RepairItem keeps the invariant.
LEMMA RepairItemGood ==
  ASSUME IndInv, NEW p \in Procs, NEW item \in op[p].todo, RepairItem(p, item)
  PROVE  Good(p)
<1> DEFINE o1 == [op[p] EXCEPT !.child = item.id, !.todo = @ \ {item}]
           o2 == [op[p] EXCEPT !.todo = @ \ {item}]
<1>1. pc[p] = "repair_item" /\ UNCHANGED <<node, byInstance, vm, fresh>>
  BY DEF RepairItem, At
<1>2. op[p] \in OpRecord /\ item \in Item /\ ~op[p].wasRunning
  BY <1>1, NotRunning DEF OpRecord
<1>3. o1 \in OpRecord /\ o1.todo = op[p].todo \ {item} /\ o1.child = item.id /\ ~o1.wasRunning
  BY <1>2 DEF OpRecord, Item
<1>4. o2 \in OpRecord /\ o2.todo = op[p].todo \ {item} /\ ~o2.wasRunning
  BY <1>2 DEF OpRecord
<1>5. \/ /\ token[item.id] = None /\ token' = [token EXCEPT ![item.id] = p]
         /\ \E l \in {"cleanup_vm", "cleanup_metadata", "repair_fix"} : Move(p, l, o1)
      \/ UNCHANGED token /\ \E l \in {"cleanup_item", "repair_item"} : Move(p, l, o2)
  BY DEF RepairItem
<1> HIDE DEF o1, o2
<1> QED
  BY <1>1, <1>3, <1>4, <1>5, TakeItemGood

\* What p knows while it works on an item.
LEMMA ItemFacts ==
  ASSUME IndInv, NEW p \in Procs, pc[p] \in {"cleanup_vm", "cleanup_metadata", "repair_fix"}
  PROVE  /\ op[p].child \in Ids /\ token[op[p].child] = p /\ op[p].child \notin fresh
<1>1. op[p].child \in Ids /\ token[op[p].child] = p
  BY OwnHolds DEF Own, HoldsChild
<1> QED
  BY <1>1, NoneAssumption DEF IndInv, FreshUnknown

\* cleanup-incomplete is done with an item.
LEMMA NextItemGood ==
  ASSUME IndInv, NEW p \in Procs, pc[p] \in {"cleanup_vm", "cleanup_metadata"}, NextItem(p),
         UNCHANGED fresh, vm' \in [Names -> VM], node' \in [Ids -> Record],
         byInstance' \in [Names -> Ids \cup {None}],
         \A j \in Ids \ {op[p].child} : node'[j] = node[j],
         nodeMetadataExists(op[p].child) => UNCHANGED node
  PROVE  Good(p)
<1> DEFINE c == op[p].child
           o == [op[p] EXCEPT !.child = None, !.name = None]
<1>1. c \in Ids /\ token[c] = p /\ c \notin fresh
  BY ItemFacts
<1>2. o \in OpRecord /\ o.todo = op[p].todo /\ ~o.wasRunning
  <2>1. op[p] \in OpRecord /\ ~op[p].wasRunning
    BY NotRunning
  <2> QED
    BY <2>1 DEF OpRecord
<1>3. pc'[p] = "cleanup_item" /\ op'[p] = o /\ Move(p, "cleanup_item", o)
      /\ token' = [token EXCEPT ![c] = None]
  BY DEF NextItem, Move, IndInv, TypeOK
<1> HIDE DEF o
<1>4. Own(p)'
  BY <1>2, <1>3, FreeOwn
<1>5. \A j \in Ids : nodeMetadataExists(j) => nodeMetadataExists(j)'
  BY DEF nodeMetadataExists
<1> QED
  BY <1>1, <1>2, <1>3, <1>4, <1>5 DEF IndInv, TypeOK, Good, FreshUnknown, Move, Labels, Cleaning

\* CleanupVM keeps the invariant.
LEMMA CleanupVMGood ==
  ASSUME IndInv, NEW p \in Procs, CleanupVM(p)
  PROVE  Good(p)
<1>1. pc[p] = "cleanup_vm" /\ fresh' = fresh /\ UNCHANGED <<node, byInstance>>
  BY DEF CleanupVM, At
<1>2. vm' \in [Names -> VM]
  BY DeleteFailsVm DEF CleanupVM, IndInv
<1>3. CASE NextItem(p)
  BY <1>1, <1>2, <1>3, NextItemGood DEF IndInv, TypeOK
<1>4. CASE Goto(p, "cleanup_metadata") /\ UNCHANGED token
  <2>1. pc'[p] = "cleanup_metadata" /\ op' = op
    BY <1>4 DEF Goto, IndInv, TypeOK
  <2>2. Own(p)'
    BY <1>1, <1>4, <2>1, ItemFacts, NotRunning, ItemOwn
  <2> QED
    BY <1>1, <1>2, <1>4, <2>2, GotoGood DEF Labels, Cleaning
<1> QED
  BY <1>3, <1>4 DEF CleanupVM

\* CleanupMetadata keeps the invariant.
LEMMA CleanupMetadataGood ==
  ASSUME IndInv, NEW p \in Procs, CleanupMetadata(p)
  PROVE  Good(p)
<1>1. pc[p] = "cleanup_metadata" /\ fresh' = fresh /\ vm' \in [Names -> VM]
  BY DEF CleanupMetadata, At, IndInv, TypeOK
<1>2. op[p].child \in Ids
  BY <1>1, ItemFacts
<1>3. CASE UNCHANGED <<node, byInstance>> /\ Return(p)
  BY <1>1, <1>3, ReturnGood
<1>4. CASE UNCHANGED <<node, byInstance>> /\ NextItem(p)
  BY <1>1, <1>4, NextItemGood DEF IndInv, TypeOK
<1>5. CASE /\ ~nodeMetadataExists(op[p].child)
           /\ RemoveIncompleteNodeMetadata(op[p].child, op[p].name) /\ NextItem(p)
  BY <1>1, <1>2, <1>5, RemoveFacts, NextItemGood DEF IndInv
<1> QED
  BY <1>3, <1>4, <1>5 DEF CleanupMetadata

\* RepairFix keeps the invariant.
LEMMA RepairFixGood ==
  ASSUME IndInv, NEW p \in Procs, RepairFix(p)
  PROVE  Good(p)
<1> DEFINE i == op[p].child
           rec == Recovered(node[i])
           o == [op[p] EXCEPT !.child = None]
<1>1. pc[p] = "repair_fix" /\ fresh' = fresh /\ vm' = vm /\ vm' \in [Names -> VM]
  BY DEF RepairFix, At, IndInv, TypeOK
<1>2. i \in Ids /\ token[i] = p /\ node[i] \in Record
  BY <1>1, ItemFacts DEF IndInv, TypeOK
<1>3. CASE UNCHANGED <<node, byInstance>> /\ Return(p)
  BY <1>1, <1>3, ReturnGood
<1>4. CASE /\ IF node[i].status \in InFlight
              THEN SaveNode(i, Recovered(node[i])) ELSE UNCHANGED <<node, byInstance>>
           /\ token' = [token EXCEPT ![i] = None]
           /\ Move(p, "repair_item", o)
  <2>1. o \in OpRecord /\ o.todo = op[p].todo /\ ~o.wasRunning
    BY <1>1, NotRunning DEF OpRecord
  <2>2. pc'[p] = "repair_item" /\ op'[p] = o
    BY <1>4 DEF Move, IndInv, TypeOK
  <2> HIDE DEF o
  <2>3. Own(p)'
    BY <2>1, <2>2, FreeOwn
  <2>4. CASE node[i].status \in InFlight
    <3>1. rec \in Record /\ rec.status \in Statuses
      BY <1>2, <2>4, RecoveredFacts DEF Statuses
    <3>2. SaveNode(i, rec)
      BY <1>4, <2>4
    <3> HIDE DEF rec
    <3> QED
      BY <1>1, <1>2, <1>4, <2>1, <2>3, <3>1, <3>2, SaveUnclaimGood DEF Labels
  <2>5. CASE node[i].status \notin InFlight
    BY <1>1, <1>2, <1>4, <2>1, <2>3, <2>5, UnclaimGood DEF Labels
  <2> QED
    BY <2>4, <2>5
<1> QED
  BY <1>3, <1>4 DEF RepairFix

-----------------------------------------------------------------------------
(* Requests and claims.                                                    *)

\* Resolve keeps the invariant.
LEMMA ResolveGood ==
  ASSUME IndInv, NEW p \in Procs, NEW k \in Kinds, NEW i \in Ids, Resolve(p, k, i)
  PROVE  Good(p)
<1> DEFINE o == [NoOp EXCEPT !.kind = k, !.id = i]
<1>1. /\ UNCHANGED <<node, byInstance, token, vm, fresh>> /\ vm' \in [Names -> VM]
      /\ k \in TargetKinds /\ nodeMetadataExists(i) /\ Move(p, "claim", o)
  BY DEF Resolve, TargetKinds, IndInv, TypeOK
<1>2. o \in OpRecord /\ o.kind = k /\ o.id = i /\ o.todo = {} /\ ~o.wasRunning
  BY DEF NoOp, OpRecord, Absent, Record, Item
<1>3. pc'[p] = "claim" /\ op'[p] = o
  BY <1>1 DEF Move, IndInv, TypeOK
<1> HIDE DEF o
<1>4. Own(p)'
  BY <1>1, <1>2, <1>3 DEF Own, HoldsTarget, HoldsChild, Copies, Making,
     Starting, Stopping, Deleting, Cloning, nodeMetadataExists
<1> QED
  BY <1>1, <1>2, <1>4, MoveGood DEF Labels

\* ClaimNodeOperation keeps the invariant.
LEMMA ClaimNodeOperationGood ==
  ASSUME IndInv, NEW p \in Procs, ClaimNodeOperation(p)
  PROVE  Good(p)
<1> DEFINE i == op[p].id
           l == FirstStep(op[p].kind)
<1>1. /\ pc[p] = "claim" /\ UNCHANGED <<node, byInstance, vm, fresh>>
      /\ vm' \in [Names -> VM]
  BY DEF ClaimNodeOperation, At, IndInv, TypeOK
<1>2. /\ i \in Ids /\ nodeMetadataExists(i) /\ op[p].kind \in TargetKinds /\ ~op[p].wasRunning
      /\ op[p] \in OpRecord
  BY <1>1, OwnHolds DEF Own, Making
<1>3. i \notin fresh
  <2>1. Absent.status \notin Statuses
    BY DEF Absent, Statuses, InFlight
  <2> QED
    BY <1>2, <2>1 DEF IndInv, FreshUnknown, nodeMetadataExists
<1>4. CASE Return(p)
  BY <1>1, <1>4, ReturnGood
<1>5. CASE token[i] = None /\ token' = [token EXCEPT ![i] = p] /\ Goto(p, l)
  <2>1. /\ l \in {"start_begin", "stop_begin", "delete_begin", "clone_begin"}
        /\ l = "clone_begin" => op[p].kind = "clone"
    BY <1>2 DEF FirstStep, TargetKinds
  <2> HIDE DEF l
  <2>2. pc'[p] = l /\ op' = op /\ Move(p, l, op[p]) /\ token'[i] = p
    BY <1>2, <1>5, GotoIsMove DEF Goto, IndInv, TypeOK
  <2>3. Own(p)'
    BY <1>1, <1>2, <2>1, <2>2 DEF Own, HoldsTarget, HoldsChild, Copies, Making,
       Starting, Stopping, Deleting, Cloning, nodeMetadataExists
  <2> QED
    BY <1>1, <1>2, <1>3, <1>5, <2>1, <2>2, <2>3, ClaimGood DEF Labels
<1> QED
  BY <1>4, <1>5 DEF ClaimNodeOperation

-----------------------------------------------------------------------------
(* The invariant and what follows from it.                                 *)

\* A process that dies, or has nothing left on its list, returns.
LEMMA StepReturnGood ==
  ASSUME IndInv, NEW p \in Procs, Crash(p) \/ CleanupDone(p) \/ RepairDone(p)
  PROVE  Good(p)
<1>1. Return(p) /\ UNCHANGED <<node, byInstance, vm, fresh>>
  BY DEF Crash, CleanupDone, RepairDone
<1> QED
  BY <1>1, ReturnGood DEF IndInv, TypeOK

\* Every step of an operation is good.
LEMMA StepGood ==
  ASSUME IndInv, NEW p \in Procs, Step(p)
  PROVE  Good(p)
  BY ClaimNodeOperationGood, StartBeginGood, StartObserveGood, StartBootGood, StartGuestGood,
     StartCommitGood, ReconcilePersistedGood, StopBeginGood, StopObserveGood, StopVMGood,
     StopConfirmGood, DeleteBeginGood, DeleteVMGood, DeleteCommitGood, NewCheckGood, NewVMGood,
     CloneSettleGood, NewCommitGood, UndoVMGood, UndoMetadataGood, CloneBeginGood,
     CloneObserveGood, CloneStopGood, CloneReserveGood, CloneReserveFailsGood, CloneRestartGood,
     CleanupListGood, CleanupItemGood, CleanupVMGood, CleanupMetadataGood, RepairItemGood,
     RepairFixGood, StepReturnGood DEF Step

\* Every request is good.
LEMMA RequestGood ==
  ASSUME IndInv, NEW p \in Procs, Request(p)
  PROVE  Good(p)
  BY ResolveGood, CreateReserveGood, CleanupScanGood, RepairScanGood DEF Request

\* A step that touches only the instances keeps the invariant.
LEMMA FrameInv ==
  ASSUME IndInv, UNCHANGED <<node, byInstance, token, fresh, pc, op>>, vm' \in [Names -> VM]
  PROVE  IndInv' /\ \A i \in Ids : nodeMetadataExists(i) => nodeMetadataExists(i)'
<1>1. TypeOK'
  BY DEF IndInv, TypeOK
<1>2. FreshUnknown'
  BY DEF IndInv, FreshUnknown
<1>3. ASSUME NEW p \in Procs PROVE Own(p)'
  <2>1. Own(p)
    BY OwnHolds
  <2> QED
    BY <2>1 DEF Own, nodeMetadataExists
<1> QED
  BY <1>1, <1>2, <1>3 DEF IndInv, nodeMetadataExists

\* Every step keeps the invariant and every committed record.
LEMMA NextInv ==
  ASSUME IndInv, [Next]_vars
  PROVE  IndInv' /\ \A i \in Ids : nodeMetadataExists(i) => nodeMetadataExists(i)'
<1>1. ASSUME NEW p \in Procs, Step(p) \/ Request(p) \/ Crash(p)
      PROVE  IndInv' /\ \A i \in Ids : nodeMetadataExists(i) => nodeMetadataExists(i)'
  BY <1>1, StepGood, RequestGood, StepReturnGood, GoodStep DEF Good
<1>2. ASSUME NEW n \in Names, PowerOff(n)
      PROVE  IndInv' /\ \A i \in Ids : nodeMetadataExists(i) => nodeMetadataExists(i)'
  <2>1. vm' \in [Names -> VM]
    BY <1>2, VmFacts DEF PowerOff, MaySetState, IndInv
  <2> QED
    BY <1>2, <2>1, FrameInv DEF PowerOff
<1>3. CASE UNCHANGED vars
  BY <1>3, FrameInv DEF vars, IndInv, TypeOK
<1> QED
  BY <1>1, <1>2, <1>3 DEF Next

\* The inductive invariant holds throughout.
LEMMA Invariant == Spec => []IndInv
<1>1. IndInv /\ [Next]_vars => IndInv'
  BY NextInv
<1> QED
  BY <1>1, InitInv, PTL DEF Spec

\* Type correctness, for every number of processes, nodes and names.
THEOREM TypeCorrect == Spec => []TypeOK
<1>1. IndInv => TypeOK
  BY DEF IndInv
<1> QED
  BY <1>1, Invariant, PTL

\* The liveness token protects a node from everyone else for as long as the
\* operation that holds it runs, at whatever step other commands crash or fail.
THEOREM TokenProtects == Spec => []LiveOperationUndisturbed
<1>1. IndInv => LiveOperationUndisturbed
  BY DEF IndInv, Own, LiveOperationUndisturbed
<1> QED
  BY <1>1, Invariant, PTL

\* The copy of the record an operation holds never goes stale, so the saves it
\* makes after its unlocked runtime calls undo nobody else's update.
THEOREM NoUpdateLost == Spec => []NoLostUpdate
<1>1. IndInv => NoLostUpdate
  BY DEF IndInv, Own, NoLostUpdate, Copies
<1> QED
  BY <1>1, Invariant, PTL

\* No rollback and no cleanup removes the directory of a node whose record
\* was committed.
THEOREM RecordsAreKept == Spec => RecordKept
<1>1. IndInv /\ [Next]_vars => [\A i \in Ids : nodeMetadataExists(i) => nodeMetadataExists(i)']_vars
  BY NextInv
<1> QED
  BY <1>1, Invariant, PTL DEF Spec, RecordKept

=============================================================================

------------------------ MODULE NodeOperationsProofs ------------------------
(***************************************************************************)
(* The invariant of the daemon's operations is inductive. So operations    *)
(* begin their work once, exclude each other, tell the truth, stop what a  *)
(* cancel leaves behind and stay within their limits, and their receipts   *)
(* implement OperationReceipts.                                            *)
(***************************************************************************)
EXTENDS NodeOperationsInvariants, FiniteSetTheorems

\* Few leaves need arithmetic; those that do, or that Zenon is slow on, cite SMT.
USE ZenonT(30)

-----------------------------------------------------------------------------
(* The limits.                                                             *)

LEMMA FiniteOps == IsFiniteSet(Ops) /\ IsFiniteSet(Nodes)
<1>1. IsFiniteSet(Roots)
  BY OpsFacts, FiniteAssumption, FS_Subset
<1>2. IsFiniteSet(Children)
  BY <1>1, FiniteAssumption, FS_Product DEF Children
<1> QED BY <1>2, FiniteAssumption, FS_Union DEF Ops

\* As many children of a batch as it has members.
LEMMA KidsBound ==
  ASSUME NEW b, NEW S, IsFiniteSet(S), NEW K, \A c \in K : c = Child(b, c[2]) /\ c[2] \in S
  PROVE  IsFiniteSet(K) /\ Cardinality(K) <= Cardinality(S)
<1> DEFINE f == [c \in K |-> c[2]]
<1>1. f \in [K -> S]
  OBVIOUS
<1>2. ASSUME NEW c \in K, NEW d \in K, f[c] = f[d] PROVE c = d
  BY <1>2
<1>3. f \in Injection(K, S)
  BY <1>1, <1>2 DEF Injection, IsInjective
<1> QED BY <1>3, FS_Injection

LEMMA FewerWithin ==
  ASSUME NEW S, IsFiniteSet(S), NEW T \in SUBSET S, NEW k \in Nat, Cardinality(S) <= k
  PROVE  Cardinality(T) <= k
BY FS_Subset, FS_CardinalityType, SMT

LEMMA LimitsInit == Init => WithinLimits
<1> SUFFICES ASSUME Init PROVE WithinLimits
  OBVIOUS
<1>1. Executing = {} /\ \A b \in Roots : {c \in Children \cap active : c[1] = b} = {}
  BY DEF Init, Executing
<1> QED BY <1>1, FS_EmptySet, LimitAssumption, SMT DEF WithinLimits

LEMMA LimitsStepOfRest ==
  ASSUME TypeInv, WithinLimits, active' \subseteq active,
         \A o \in active' : rec'[o].member = rec[o].member
  PROVE  WithinLimits'
<1>1. IsFiniteSet(active)
  BY FiniteOps, FS_Subset DEF TypeInv
<1>2. IsFiniteSet(Executing) /\ Executing' \subseteq Executing
  BY <1>1, FS_Subset DEF Executing
<1>3. Cardinality(Executing') <= Limit
  BY <1>2, FewerWithin, LimitAssumption DEF WithinLimits
<1>4. ASSUME NEW b \in Roots PROVE Cardinality({c \in Children \cap active' : c[1] = b}) <= Parallelism
  <2> DEFINE old == {c \in Children \cap active : c[1] = b}
             new == {c \in Children \cap active' : c[1] = b}
  <2>1. IsFiniteSet(old) /\ new \subseteq old
    BY <1>1, FS_Subset
  <2>2. Cardinality(old) <= Parallelism
    BY DEF WithinLimits
  <2> HIDE DEF old, new
  <2>3. Cardinality(new) <= Parallelism
    BY <2>1, <2>2, FewerWithin, LimitAssumption
  <2> QED BY <2>3 DEF new
<1> QED BY <1>3, <1>4 DEF WithinLimits

LEMMA LimitsStepOfAdmit ==
  ASSUME TypeInv, Shape, WorkInv, WithinLimits, NEW h \in Handlers, Admit(h)
  PROVE  WithinLimits'
<1> DEFINE r == sub[h].request
           n == sub[h].node
           o == r.id
<1>1. PICK gone \in SUBSET aged, answered, torn, begun \in BOOLEAN :
        /\ AdmitChoice(r, n, gone, answered, torn, begun)
        /\ AdmitEffect(r, n, gone, answered, torn, begun)
  BY AdmitFacts
<1>2. r \in Requests /\ o \in Ids /\ o \in Ops /\ o \notin Children
  BY AdmitFacts, OpsFacts DEF Submissions
<1>3. /\ \A p \in Ops : rec'[p] = IF begun /\ p = o THEN NewReceiptOf(r) ELSE IF p \in gone THEN None ELSE rec[p]
      /\ ~begun => active' = active
      /\ begun => active' = active \cup {o}
  BY <1>1 DEF AdmitEffect, Spawn
<1>4. \A p \in active : /\ p \in Ops /\ p \notin gone /\ (begun => p # o) /\ rec'[p] = rec[p]
  BY <1>1, <1>3, SMT DEF WorkInv, Worker, AdmitChoice, TypeInv, Visible
<1>5. CASE ~begun
  BY <1>3, <1>4, <1>5, LimitsStepOfRest
<1>6. CASE begun
  <2>1. \A b \in Roots : {c \in Children \cap active' : c[1] = b} = {c \in Children \cap active : c[1] = b}
    BY <1>2, <1>3, <1>6
  <2>2. IsFiniteSet(Executing)
    BY FiniteOps, FS_Subset DEF TypeInv, Executing
  <2>3. CASE r.kind = "batch"
    <3>1. DOMAIN r.targets # {}
      BY <1>2, <2>3, RequestsAssumption, RequestFacts
    <3>2. rec'[o].member = [m \in DOMAIN r.targets |-> "queued"]
      BY <1>2, <1>3, <1>6, SMT DEF NewReceiptOf, Receipt
    <3>3. rec'[o].member # NoMembers
      BY <3>1, <3>2, EmptyTable
    <3>4. Executing' = Executing
      BY <1>3, <1>4, <1>6, <3>3 DEF Executing
    <3> QED BY <2>1, <3>4 DEF WithinLimits
  <2>4. CASE r.kind # "batch"
    <3>1. Cardinality(Executing) < Limit
      BY <1>1, <1>6, <2>4 DEF AdmitChoice, Admits
    <3>2. Executing' \subseteq Executing \cup {o}
      BY <1>3, <1>4, <1>6 DEF Executing
    <3>3. /\ IsFiniteSet(Executing \cup {o}) /\ Cardinality(Executing) \in Nat
          /\ Cardinality(Executing \cup {o}) <= Cardinality(Executing) + 1
      <4>1. Cardinality(Executing) \in Nat
        BY <2>2, FS_CardinalityType
      <4>2. /\ IsFiniteSet(Executing \cup {o})
            /\ Cardinality(Executing \cup {o}) = IF o \in Executing THEN Cardinality(Executing)
                                                 ELSE Cardinality(Executing) + 1
        BY <2>2, FS_AddElement
      <4> QED BY <4>1, <4>2, SMT
    <3>4. IsFiniteSet(Executing \cup {o}) /\ Cardinality(Executing \cup {o}) \in Nat
      BY <3>3, FS_CardinalityType
    <3>5. Cardinality(Executing \cup {o}) <= Limit
      BY <3>1, <3>3, <3>4, LimitAssumption, SMT
    <3>6. Cardinality(Executing') <= Limit
      BY <3>2, <3>4, <3>5, FewerWithin, LimitAssumption
    <3> QED BY <2>1, <3>6 DEF WithinLimits
  <2> QED BY <2>3, <2>4
<1> QED BY <1>5, <1>6

LEMMA LimitsStepOfTurn ==
  ASSUME TypeInv, Shape, WorkInv, WithinLimits, NEW b \in Ops, Turn(b)
  PROVE  WithinLimits'
<1>1. /\ pc[b] = "batch" /\ rec[b] # None /\ rec[b].member # NoMembers /\ b \in active /\ rec[b] \in Receipts
  BY WorkerFacts DEF Turn
<1>2. PICK starts, unsaved, torn \in SUBSET Nodes, done, saved \in BOOLEAN,
           members \in [DOMAIN rec[b].member -> MemberStates] :
        /\ TurnChoice(b, starts, unsaved, torn, members)
        /\ TurnEffect(b, starts, torn, members, done, saved)
  BY <1>1, TurnFacts
<1>3. /\ b \in Roots /\ b \notin Children /\ \A n \in starts : FreshChild(b, n)
      /\ DOMAIN rec[b].member \subseteq Nodes
  BY <1>1, <1>2, TurnChildren
<1>4. /\ active' \subseteq active \cup Begun(b, starts)
      /\ \A o \in Ops : o # b /\ o \notin Begun(b, starts) => rec'[o] = rec[o]
      /\ rec'[b].member = members
  BY <1>2 DEF TurnEffect
<1>5. members # NoMembers
  BY <1>1, <1>2, <1>3, ReceiptFacts, EmptyTable
<1>6. Executing' \subseteq Executing \cup Begun(b, starts)
  BY <1>4, <1>5 DEF Executing, TypeInv
<1>7. /\ IsFiniteSet(starts) /\ Cardinality(starts) \in Nat /\ IsFiniteSet(Executing)
      /\ Cardinality(Executing) \in Nat
  BY FiniteOps, FS_Subset, FS_CardinalityType DEF TypeInv, Executing
<1>8. \A c \in Begun(b, starts) : c = Child(b, c[2]) /\ c[2] \in starts /\ c[1] = b /\ c \in Children
  BY <1>3, SMT DEF Begun, FreshChild
<1>9. IsFiniteSet(Begun(b, starts)) /\ Cardinality(Begun(b, starts)) <= Cardinality(starts)
  BY <1>7, <1>8, KidsBound
<1>10. Cardinality(Executing') <= Limit
  <2>1. CASE starts = {}
    <3>1. Executing' \subseteq Executing
      BY <1>6, <2>1 DEF Begun
    <3> QED BY <1>7, <3>1, FewerWithin, LimitAssumption DEF WithinLimits
  <2>2. CASE starts # {}
    <3>1. Cardinality(Executing) + Cardinality(starts) <= Limit
      BY <1>2, <2>2 DEF TurnChoice
    <3> DEFINE both == Executing \cup Begun(b, starts)
    <3>2. /\ IsFiniteSet(both) /\ Cardinality(both) \in Nat /\ Cardinality(Begun(b, starts)) \in Nat
          /\ Cardinality(Executing \cap Begun(b, starts)) \in Nat
          /\ Cardinality(both) = Cardinality(Executing) + Cardinality(Begun(b, starts))
                                  - Cardinality(Executing \cap Begun(b, starts))
      BY <1>7, <1>9, FS_Union, FS_CardinalityType, FS_Intersection
    <3>3. Cardinality(both) <= Limit
      BY <1>7, <1>9, <3>1, <3>2, LimitAssumption, SMT
    <3> QED BY <1>6, <3>2, <3>3, FewerWithin, LimitAssumption
  <2> QED BY <2>1, <2>2
<1>11. ASSUME NEW a \in Roots PROVE Cardinality({c \in Children \cap active' : c[1] = a}) <= Parallelism
  <2> DEFINE old == {c \in Children \cap active : c[1] = a}
             new == {c \in Children \cap active' : c[1] = a}
  <2>1. IsFiniteSet(old) /\ Cardinality(old) <= Parallelism
    BY FiniteOps, FS_Subset DEF TypeInv, WithinLimits
  <2>2. CASE a # b \/ starts = {}
    <3>1. new \subseteq old
      BY <1>4, <1>8, <2>2 DEF Begun
    <3> HIDE DEF old, new
    <3>2. Cardinality(new) <= Parallelism
      BY <2>1, <3>1, FewerWithin, LimitAssumption
    <3> QED BY <3>2 DEF new
  <2>3. CASE a = b /\ starts # {}
    <3> DEFINE running == {n \in DOMAIN rec[b].member : Member(b, n) \in Unfinished}
    <3>1. Cardinality(running) + Cardinality(starts) <= Parallelism
      BY <1>2, <2>3 DEF TurnChoice
    <3>2. ASSUME NEW c \in new PROVE c = Child(b, c[2]) /\ c[2] \in running \cup starts
      <4>1. CASE c \in Begun(b, starts)
        BY <1>8, <4>1
      <4>2. CASE c \in active
        <5>1. /\ c[2] \in DOMAIN rec[b].member /\ rec[c] # None /\ rec[c].state \in Unfinished
              /\ c = Child(b, c[2])
          BY <2>3, <3>2, <4>2, ChildParts DEF WorkInv, Worker
        <5>2. Member(b, c[2]) = rec[c].state
          BY <5>1 DEF Member
        <5> QED BY <5>1, <5>2
      <4> QED BY <1>4, <4>1, <4>2
    <3>3. IsFiniteSet(running) /\ Cardinality(running) \in Nat
      BY <1>3, FiniteOps, FS_Subset, FS_CardinalityType
    <3> HIDE DEF running, new
    <3>4. /\ IsFiniteSet(running \cup starts) /\ Cardinality(running \cup starts) \in Nat
          /\ Cardinality(running \cap starts) \in Nat
          /\ Cardinality(running \cup starts) = Cardinality(running) + Cardinality(starts)
                                                 - Cardinality(running \cap starts)
      BY <1>7, <3>3, FS_Union, FS_CardinalityType, FS_Intersection
    <3>5. Cardinality(new) <= Cardinality(running \cup starts) /\ Cardinality(new) \in Nat
      BY <3>2, <3>4, KidsBound, FS_CardinalityType
    <3>6. Cardinality(new) <= Parallelism
      BY <1>7, <3>1, <3>3, <3>4, <3>5, LimitAssumption, SMT
    <3> QED BY <3>6 DEF new
  <2> QED BY <2>2, <2>3
<1> QED BY <1>10, <1>11 DEF WithinLimits

LEMMA LimitsStep ==
  ASSUME TypeInv, Shape, WorkInv, WithinLimits, Next
  PROVE  WithinLimits'
<1>0. \A o \in active : o \in Ops
  BY DEF TypeInv
<1>1. ASSUME NEW h \in Handlers, Admit(h) PROVE WithinLimits'
  BY <1>1, LimitsStepOfAdmit
<1>2. ASSUME NEW h \in Handlers, NEW r \in plan.requests, Submit(h, r) PROVE WithinLimits'
  BY <1>2, SubmitFacts, LimitsStepOfRest DEF manager
<1>3. ASSUME NEW o \in Ops, FirstPhase(o) \/ Prepare(o) \/ FlushFails(o) \/ Age(o) PROVE WithinLimits'
  <2>1. UNCHANGED <<rec, active>>
    BY <1>3 DEF FirstPhase, Prepare, FlushFails, Age, manager
  <2> QED BY <2>1, LimitsStepOfRest
<1>4. ASSUME NEW o \in Ops, Call(o) \/ Create(o) \/ Bind(o) \/ Boot(o) PROVE WithinLimits'
  <2>1. UNCHANGED <<rec, active>>
    BY <1>4 DEF Call, Create, Bind, Boot
  <2> QED BY <2>1, LimitsStepOfRest
<1>5. ASSUME NEW o \in Ops, Finish(o) \/ StopVM(o) PROVE WithinLimits'
  <2>1. pc[o] \in {"finish", "stopping"} /\ failed[o] \in BOOLEAN
    BY <1>5 DEF Finish, StopVM, TypeInv
  <2>2. CASE UNCHANGED <<rec, active>>
    BY <2>2, LimitsStepOfRest
  <2>3. ASSUME NEW err \in BOOLEAN, NEW stopped \in BOOLEAN, Settle(o, err, stopped)
        PROVE  WithinLimits'
    <3>1. \A p \in Ops : p # o => rec'[p] = rec[p]
      BY <2>1, <2>3, SettleFacts, WorkerFacts, SMT
    <3>2. active' = active \ {o}
      BY <2>3 DEF Settle
    <3> QED BY <1>0, <3>1, <3>2, LimitsStepOfRest
  <2> QED BY <1>5, <2>1, <2>2, <2>3 DEF Finish, StopVM
<1>6. ASSUME NEW b \in Ops, Turn(b) PROVE WithinLimits'
  BY <1>6, LimitsStepOfTurn
<1>7. ASSUME NEW o \in Ops, Cancel(o) PROVE WithinLimits'
  <2>1. rec[o] # None
    BY <1>7 DEF Cancel, WorkInv, Worker
  <2>2. (\A p \in Ops : rec'[p].member = rec[p].member) /\ active' = active
    BY <1>7, <2>1, CancelFacts
  <2> QED BY <1>0, <2>2, LimitsStepOfRest
<1>8. CASE ListPage
  <2>1. PICK gone \in SUBSET aged :
           /\ \A p \in Ops : rec'[p] = IF p \in gone THEN None ELSE rec[p]
           /\ UNCHANGED active
    BY <1>8, ListPageFacts
  <2>2. \A p \in active : p \notin gone
    BY DEF WorkInv, Worker
  <2> QED BY <1>0, <2>1, <2>2, LimitsStepOfRest
<1>9. CASE Close
  BY <1>9, LimitsStepOfRest DEF Close
<1>10. CASE Die
  BY <1>10, LimitsStepOfRest DEF Die
<1>11. CASE Restart \/ Loaded \/ Recovered
  BY <1>11, LimitsStepOfRest DEF Restart, Loaded, Recovered, manager
<1>12. ASSUME NEW o \in Ops, Load(o) \/ Project(o) PROVE WithinLimits'
  <2>1. active = {} /\ active' = active
    BY <1>12 DEF Load, Project, WorkInv, Up
  <2> QED BY <2>1, LimitsStepOfRest
<1> QED BY <1>1, <1>2, <1>3, <1>4, <1>5, <1>6, <1>7, <1>8, <1>9, <1>10, <1>11, <1>12
        DEF Next, Work, Recovery

-----------------------------------------------------------------------------
(* What holds in every state.                                              *)

\* The step that makes a start "canceled" leaves its VM stopped.
LEMMA CancelStopsStep ==
  ASSUME TypeInv, Shape, WorkInv, CancelInv, Next, NEW o \in Ops,
         rec[o] # None, rec[o].state \in Unfinished, StartsNode(o),
         rec'[o] # None, rec'[o].state = "canceled"
  PROVE  node'[target[o]] # "running"
<1>0. rec[o].state # "canceled" /\ rec[o].request.kind # "batch"
  BY DEF Unfinished, StartsNode
<1> SUFFICES ASSUME \A p \in Ops : ~(Finish(p) \/ StopVM(p)) \/ p = o
             PROVE  rec'[o].state # "canceled" \/ node'[target[o]] # "running"
  <2>1. ASSUME NEW p \in Ops, Finish(p) \/ StopVM(p), p # o PROVE FALSE
    <3>1. pc[p] \in {"finish", "stopping"} /\ failed[p] \in BOOLEAN
      BY <2>1 DEF Finish, StopVM, TypeInv
    <3>2. ASSUME NEW err \in BOOLEAN, NEW stopped \in BOOLEAN, Settle(p, err, stopped) PROVE rec'[o] = rec[o]
      BY <2>1, <3>1, <3>2, SettleFacts, WorkerFacts, SMT
    <3> QED BY <1>0, <2>1, <3>1, <3>2 DEF Finish, StopVM
  <2> QED BY <2>1
<1>1. ASSUME NEW h \in Handlers, Admit(h) PROVE rec'[o].state # "canceled"
  <2>1. PICK gone \in SUBSET aged, answered, torn, begun \in BOOLEAN :
          AdmitEffect(sub[h].request, sub[h].node, gone, answered, torn, begun)
    BY <1>1, AdmitFacts, SMT
  <2>2. rec'[o] = NewReceiptOf(sub[h].request) \/ rec'[o] = rec[o]
    BY <2>1 DEF AdmitEffect
  <2> QED BY <1>0, <2>2, SMT DEF NewReceiptOf, Receipt
<1>2. ASSUME NEW h \in Handlers, NEW r \in plan.requests, Submit(h, r) PROVE rec'[o].state # "canceled"
  BY <1>0, <1>2, SubmitFacts DEF manager
<1>3. ASSUME NEW p \in Ops, FirstPhase(p) \/ Prepare(p) \/ FlushFails(p) \/ Age(p) PROVE rec'[o].state # "canceled"
  BY <1>0, <1>3 DEF FirstPhase, Prepare, FlushFails, Age, manager
<1>4. ASSUME NEW p \in Ops, Call(p) \/ Create(p) \/ Bind(p) \/ Boot(p) PROVE rec'[o].state # "canceled"
  BY <1>0, <1>4 DEF Call, Create, Bind, Boot
<1>5. ASSUME Finish(o) PROVE rec'[o].state # "canceled" \/ node'[target[o]] # "running"
  <2>1. pc[o] = "finish" /\ o \in active /\ failed[o] \in BOOLEAN
    BY <1>5, WorkerFacts DEF Finish, TypeInv
  <2>2. CASE UNCHANGED rec
    BY <1>0, <2>2
  <2>3. CASE ~(cause[o] = "canceled" /\ cleanup[o] # None) /\ Settle(o, failed[o], TRUE) /\ UNCHANGED node
    <3>1. rec'[o].state \in {Outcome(o, failed[o], TRUE), "failed"}
      BY <2>1, <2>3, SettleFacts
    <3>2. ASSUME rec'[o].state = "canceled" PROVE cause[o] = "canceled"
      BY <2>1, <3>1, <3>2, OutcomeFacts
    <3>3. cause[o] = "canceled" => node[target[o]] # "running"
      BY <2>1, <2>3 DEF CancelInv, Stoppable
    <3> QED BY <2>3, <3>2, <3>3
  <2> QED BY <1>5, <2>2, <2>3 DEF Finish
<1>6. ASSUME StopVM(o) PROVE rec'[o].state # "canceled" \/ node'[target[o]] # "running"
  <2>1. pc[o] = "stopping" /\ o \in active /\ failed[o] \in BOOLEAN
    BY <1>6, WorkerFacts DEF StopVM, TypeInv
  <2>2. cleanup[o] = target[o] /\ cleanup[o] \in Nodes
    BY <2>1, NoneAssumption DEF CancelInv, Stoppable, StartsNode, TypeInv
  <2>3. CASE node' = [node EXCEPT ![cleanup[o]] = "stopped"]
    BY <2>2, <2>3 DEF TypeInv
  <2>4. CASE Settle(o, TRUE, FALSE)
    <3>1. rec'[o].state \in {Outcome(o, TRUE, FALSE), "failed"}
      BY <2>1, <2>4, SettleFacts
    <3> QED BY <3>1, OutcomeFacts
  <2> QED BY <1>6, <2>3, <2>4 DEF StopVM
<1>7. ASSUME NEW b \in Ops, Turn(b) PROVE rec'[o].state # "canceled"
  <2>1. /\ pc[b] = "batch" /\ rec[b] # None /\ rec[b].member # NoMembers
    BY <1>7, WorkerFacts DEF Turn
  <2>2. PICK starts, unsaved, torn \in SUBSET Nodes, done, saved \in BOOLEAN,
             members \in [DOMAIN rec[b].member -> MemberStates] :
          /\ TurnChoice(b, starts, unsaved, torn, members)
          /\ TurnEffect(b, starts, torn, members, done, saved)
    BY <1>7, <2>1, TurnFacts
  <2>3. o # b /\ \A n \in starts : FreshChild(b, n)
    BY <1>0, <2>1, <2>2, TurnChildren, SMT
  <2>4. o \notin Begun(b, starts)
    BY <2>3, SMT DEF Begun, FreshChild
  <2> QED BY <1>0, <2>2, <2>3, <2>4 DEF TurnEffect
<1>8. ASSUME NEW p \in Ops, Cancel(p) PROVE rec'[o].state # "canceled"
  <2>1. rec[p] # None
    BY <1>8 DEF Cancel, WorkInv, Worker
  <2> QED BY <1>0, <1>8, <2>1, CancelFacts
<1>9. ASSUME ListPage PROVE rec'[o].state # "canceled"
  BY <1>0, <1>9, ListPageFacts
<1>10. ASSUME Close PROVE rec'[o].state # "canceled"
  BY <1>0, <1>10 DEF Close
<1>11. ASSUME Die PROVE rec'[o].state # "canceled"
  BY <1>11 DEF Die
<1>12. ASSUME Restart \/ Loaded \/ Recovered PROVE rec'[o].state # "canceled"
  BY <1>0, <1>12 DEF Restart, Loaded, Recovered, manager
<1>13. ASSUME NEW p \in Ops, Load(p) PROVE rec'[o].state # "canceled"
  <2>1. disk[p] # None /\ rec[p] = None
    BY <1>13 DEF Load, WorkInv
  <2>2. PICK how \in {"forgotten", "loaded", "stopped"} : LoadEffect(p, how)
    BY <1>13, <2>1, LoadFacts
  <2> QED BY <1>0, <2>1, <2>2 DEF LoadEffect
<1>14. ASSUME NEW b \in Ops, Project(b) PROVE rec'[o].state # "canceled"
  <2>1. b \in Roots /\ rec[b] # None /\ rec[b].member # NoMembers /\ rec[b].state = "interrupted"
    BY <1>14 DEF Project, WorkInv
  <2>2. PICK members \in [DOMAIN rec[b].member -> Final \cup Unfinished], saved \in BOOLEAN :
          ProjectEffect(b, members, saved)
    BY <1>14, <2>1, ProjectFacts
  <2> QED BY <1>0, <2>1, <2>2 DEF ProjectEffect
<1> QED BY <1>1, <1>2, <1>3, <1>4, <1>5, <1>6, <1>7, <1>8, <1>9, <1>10, <1>11, <1>12, <1>13, <1>14
        DEF Next, Work, Recovery

LEMMA Stutter ==
  ASSUME IInv, UNCHANGED <<plan, vars>>
  PROVE  IInv'
<1>1. UNCHANGED <<plan, node, daemon, disk, rec, active, cause, keys, pc, target, cleanup, failed,
                  sub, todo, aged, ran, acked, worked>>
  BY DEF vars, manager, history
<1>2. TypeInv' /\ Shape'
  BY <1>1 DEF IInv, TypeInv, Shape
<1>3. WorkInv'
  BY <1>1 DEF IInv, WorkInv, Worker, Relied, Known
<1>4. KeyInv'
  BY <1>1 DEF IInv, KeyInv, Reserves
<1>5. SuccessInv'
  BY <1>1, SMT DEF IInv, SuccessInv, Earned, Recorded, Waiting
<1>6. CancelInv'
  BY <1>1 DEF IInv, CancelInv, Stoppable, StartsNode
<1>7. WithinLimits'
  BY <1>1 DEF IInv, WithinLimits, Executing
<1>8. AgreeInv'
  BY <1>1 DEF IInv, AgreeInv, InStep, Closed, Agrees
<1> QED BY <1>2, <1>3, <1>4, <1>5, <1>6, <1>7, <1>8 DEF IInv

LEMMA Inductive ==
  ASSUME IInv, [Next]_<<plan, vars>>
  PROVE  IInv'
<1>1. CASE UNCHANGED <<plan, vars>>
  BY <1>1, Stutter
<1>2. CASE Next
  <2>1. TypeInv /\ Shape /\ WorkInv /\ KeyInv /\ SuccessInv /\ CancelInv /\ WithinLimits /\ AgreeInv
    BY DEF IInv
  <2>2. TypeInv' /\ Shape'
    BY <1>2, <2>1, TypeStep
  <2>3. WorkInv'
    BY <1>2, <2>1, <2>2, WorkStep
  <2>4. KeyInv'
    BY <1>2, <2>1, <2>2, KeyStep
  <2>5. SuccessInv'
    BY <1>2, <2>1, <2>2, SuccessStep
  <2>6. CancelInv'
    BY <1>2, <2>1, <2>2, CancelStep
  <2>7. WithinLimits'
    BY <1>2, <2>1, LimitsStep
  <2>8. AgreeInv'
    BY <1>2, <2>1, AgreeStep
  <2> QED BY <2>2, <2>3, <2>4, <2>5, <2>6, <2>7, <2>8 DEF IInv
<1> QED BY <1>1, <1>2

\* The inductive invariant of the daemon's operations.
THEOREM Invariance == Spec => []IInv
<1>1. Init => IInv
  BY TypeInit, WorkInit, KeyInit, SuccessInit, CancelInit, LimitsInit, AgreeInit DEF IInv
<1> QED BY <1>1, Inductive, PTL DEF Spec

\* Every record, worker and pending step of the manager has its shape (the
\* types of nodeOperations, and when a cancel function is set).
THEOREM OperationTypes == Spec => []TypeOK
<1>1. IInv => TypeOK
  <2> SUFFICES ASSUME IInv PROVE TypeOK
    OBVIOUS
  <2>1. TypeInv /\ Shape /\ WorkInv
    BY DEF IInv
  <2>2. \A o \in Ops : rec[o] # None => rec[o].state \in Final \cup Unfinished /\ rec[o].request.id = o
    BY <2>1, ReceiptFacts, SMT DEF TypeInv, Shape, Proper
  <2>3. \A o \in Ops : disk[o] # None => disk[o].state \in Final \cup Unfinished
    BY <2>1, ReceiptFacts DEF TypeInv
  <2> QED BY <2>1, <2>2, <2>3 DEF TypeOK, TypeInv, WorkInv, Worker, Up
<1> QED BY <1>1, Invariance, PTL

\* The work of an operation is begun at most once, whatever clients send
\* again and however often the daemon restarts (Submit, newNodeOperations).
THEOREM WorkIsBegunOnce == Spec => []AtMostOnce
<1>1. IInv => AtMostOnce
  BY DEF IInv, WorkInv, AtMostOnce
<1> QED BY <1>1, Invariance, PTL

\* An operation a client was told of, or whose work was begun, has a receipt
\* on disk until it expires: no crash makes it unknown.
THEOREM AcceptanceIsDurable == Spec => []AcceptedIsDurable
<1>1. IInv => AcceptedIsDurable
  BY DEF IInv, WorkInv, Relied, Known, AcceptedIsDurable
<1> QED BY <1>1, Invariance, PTL

\* No two operations, members of batches included, ever work on one node (the
\* keys of normalize, prepareBatch and bindCreatedNode).
THEOREM OperationsExclude == Spec => []Exclusive
<1>1. IInv => Exclusive
  <2> SUFFICES ASSUME IInv, NEW o \in Ops, NEW p \in Ops, o # p, NEW n \in WorksOn(o) \cap WorksOn(p)
               PROVE  FALSE
    BY DEF Exclusive
  <2>1. /\ o \in active /\ p \in active /\ pc[o] # "batch" /\ pc[p] # "batch"
        /\ target[o] # None /\ target[o] = target[p]
    BY DEF WorksOn
  <2> QED BY <2>1, Exclusion DEF IInv
<1> QED BY <1>1, Invariance, PTL

\* nodeOperationLimit and nodeBatchParallelism hold, however batches and
\* single operations mix (Submit, runBatch).
THEOREM LimitsHold == Spec => []WithinLimits
<1>1. IInv => WithinLimits
  BY DEF IInv
<1> QED BY <1>1, Invariance, PTL

\* An operation or batch that says it succeeded has, before and after a
\* restart and whatever writes fail (run, runBatch, recoverBatches).
THEOREM SuccessIsTrue == Spec => []NoFalseSuccess
<1>1. IInv => NoFalseSuccess
  <2> SUFFICES ASSUME IInv, NEW o \in Ops, NEW x \in {rec[o], disk[o]}, x # None, x.state = "succeeded"
               PROVE  IF x.member = NoMembers THEN o \in worked
                      ELSE \A n \in DOMAIN x.member :
                             /\ x.member[n] = "succeeded"
                             /\ Child(o, n) \in worked \/ disk[Child(o, n)] = None
    BY DEF NoFalseSuccess
  <2>1. Truthful(o, x, worked, disk)
    BY DEF IInv, SuccessInv, Recorded
  <2> QED BY <2>1 DEF Truthful
<1> QED BY <1>1, Invariance, PTL

\* Without faults of the disk, what a finished batch says of a member is what
\* the member's own receipt says, after a crash too (runBatch, recoverBatches).
THEOREM BatchesAgree == Spec => []MembersAgree
<1>1. IInv => MembersAgree
  <2> SUFFICES ASSUME IInv, "disk" \notin plan.faults, daemon \in {"up", "closed"}, NEW b \in Roots,
                      rec[b] # None, rec[b].state \in Final, NEW n \in DOMAIN rec[b].member,
                      rec[Child(b, n)] # None
               PROVE  rec[b].member[n] = rec[Child(b, n)].state
    BY DEF MembersAgree
  <2>1. InStep /\ TypeInv /\ (Closed(b) => Agrees(b)) /\ b \in Ops
    BY OpsFacts DEF IInv, AgreeInv
  <2>2. rec[b] = disk[b] /\ Closed(b)
    BY <2>1 DEF InStep, Closed, Up
  <2>3. Child(b, n) \in Ops
    BY <2>1, ReceiptFacts, ChildFacts, SMT DEF TypeInv
  <2>4. rec[Child(b, n)] = disk[Child(b, n)]
    BY <2>1, <2>3 DEF InStep
  <2> QED BY <2>1, <2>2, <2>4 DEF Agrees
<1> QED BY <1>1, Invariance, PTL

\* An operation that starts a VM becomes "canceled" only in a step that leaves
\* that VM stopped (run).
THEOREM CancelledStartsStop == Spec => CancelStops
<1>1. ASSUME IInv, [Next]_<<plan, vars>>
      PROVE  [\A o \in Ops : /\ rec[o] # None /\ rec[o].state \in Unfinished /\ StartsNode(o)
                             /\ rec'[o] # None /\ rec'[o].state = "canceled"
                             => node'[target[o]] # "running"]_vars
  <2>1. CASE Next
    BY <1>1, <2>1, CancelStopsStep DEF IInv
  <2>2. CASE UNCHANGED <<plan, vars>>
    BY <2>2
  <2> QED BY <1>1, <2>1, <2>2
<1> QED BY <1>1, Invariance, PTL DEF Spec, CancelStops

-----------------------------------------------------------------------------
(* The receipts implement OperationReceipts.                               *)

\* What OperationReceipts sees of a receipt, and what one of its steps does.
Phase(x) == IF x = None THEN "none" ELSE IF x.state \in Unfinished THEN "accepted" ELSE x.state
Moves(o) ==
  \/ Phase(disk'[o]) = Phase(disk[o]) /\ ran'[o] = ran[o]
  \/ Phase(disk[o]) = "none" /\ Phase(disk'[o]) = "accepted" /\ ran'[o] = ran[o]
  \/ Phase(disk[o]) = "accepted" /\ Phase(disk'[o]) = "accepted" /\ ran[o] = 0 /\ ran'[o] = 1
  \/ Phase(disk[o]) = "accepted" /\ Phase(disk'[o]) \in Final /\ ran'[o] = ran[o]
  \/ o \in aged /\ Phase(disk'[o]) \in {"none", "accepted"} /\ ran'[o] = 0

LEMMA PhaseFacts ==
  /\ Phase(None) = "none"
  /\ \A x : x # None /\ x.state \in Unfinished => Phase(x) = "accepted"
  /\ \A x : x # None /\ x.state \in Final => Phase(x) = x.state /\ Phase(x) \in Final
  /\ \A x \in Receipts \cup {None} : Phase(x) \in {"none", "accepted"} \cup Final
  /\ \A x \in Receipts : Phase(x) # "none"
BY ReceiptFacts DEF Phase, Final, Unfinished

\* A receipt that is nowhere in memory, while the daemon is up, is not over.
LEMMA Unseen ==
  ASSUME TypeInv, WorkInv, daemon \in Up, NEW o \in Ops, rec[o] = None
  PROVE  o \notin aged /\ Phase(disk[o]) \in {"none", "accepted"}
<1>1. ~Relied(o)
  BY DEF WorkInv, Known
<1>2. disk[o] \in Receipts \cup {None}
  BY DEF TypeInv
<1> QED BY <1>1, <1>2, PhaseFacts, ReceiptFacts DEF Relied

LEMMA MovesOfWorker ==
  ASSUME TypeInv, WorkInv, NEW o \in active,
         \A p \in Ops : p # o => disk'[p] = disk[p],
         disk'[o] # None, disk'[o].state \in Final \cup Unfinished, ran' = ran
  PROVE  \A p \in Ops : Moves(p)
<1>1. o \in Ops /\ Phase(disk[o]) = "accepted"
  BY PhaseFacts DEF TypeInv, WorkInv, Worker
<1>2. Phase(disk'[o]) = "accepted" \/ Phase(disk'[o]) \in Final
  BY PhaseFacts
<1> QED BY <1>1, <1>2 DEF Moves

LEMMA MovesOfAdmit ==
  ASSUME TypeInv, WorkInv, NEW h \in Handlers, Admit(h)
  PROVE  (\A p \in Ops : Moves(p)) /\ aged' \subseteq aged
<1> DEFINE r == sub[h].request
           o == r.id
           new == NewReceiptOf(r)
<1>1. PICK gone \in SUBSET aged, answered, torn, begun \in BOOLEAN :
        /\ AdmitChoice(r, sub[h].node, gone, answered, torn, begun)
        /\ AdmitEffect(r, sub[h].node, gone, answered, torn, begun)
  BY AdmitFacts
<1>2. r \in Requests /\ o \in Ids /\ o \in Ops /\ sub[h] # None
  BY AdmitFacts, OpsFacts DEF Submissions, Admit
<1>3. daemon \in Up
  BY <1>2 DEF WorkInv
<1>4. new # None /\ new.state = "running"
  BY <1>2, NewReceipt DEF NewReceiptOf
<1>5. Phase(new) = "accepted"
  BY <1>4, PhaseFacts DEF Unfinished
<1>6. /\ \A p \in Ops : disk'[p] = IF (torn \/ begun) /\ p = o THEN new ELSE IF p \in gone THEN None ELSE disk[p]
      /\ \A p \in Ops : ran'[p] = IF p \in gone THEN 0 ELSE ran[p]
      /\ aged' \subseteq aged
  BY <1>1 DEF AdmitEffect, ForgetEffect
<1> HIDE DEF new
<1>7. torn \/ begun => o \in gone \/ rec[o] = None
  BY <1>1 DEF AdmitChoice, Visible
<1>8. ASSUME NEW p \in Ops PROVE Moves(p)
  <2>1. CASE p \in gone
    BY <1>5, <1>6, <2>1, PhaseFacts DEF Moves
  <2>2. CASE p \notin gone /\ (torn \/ begun) /\ p = o
    <3>1. Phase(disk[p]) \in {"none", "accepted"}
      BY <1>2, <1>3, <1>7, <2>2, Unseen
    <3> QED BY <1>5, <1>6, <2>2, <3>1 DEF Moves
  <2>3. CASE p \notin gone /\ ~((torn \/ begun) /\ p = o)
    BY <1>6, <2>3 DEF Moves
  <2> QED BY <2>1, <2>2, <2>3
<1> QED BY <1>6, <1>8

LEMMA MovesOfTurn ==
  ASSUME TypeInv, Shape, WorkInv, NEW b \in Ops, Turn(b)
  PROVE  (\A p \in Ops : Moves(p)) /\ aged' = aged
<1>1. /\ pc[b] = "batch" /\ rec[b] # None /\ rec[b].member # NoMembers /\ b \in active /\ daemon \in Up
      /\ rec[b].state \in Unfinished /\ disk[b] # None /\ disk[b].state \in Unfinished
  BY WorkerFacts DEF Turn
<1>2. PICK starts, unsaved, torn \in SUBSET Nodes, done, saved \in BOOLEAN,
           members \in [DOMAIN rec[b].member -> MemberStates] :
        /\ TurnChoice(b, starts, unsaved, torn, members)
        /\ TurnEffect(b, starts, torn, members, done, saved)
  BY <1>1, TurnFacts
<1>3. \A n \in starts \cup torn : FreshChild(b, n)
  BY <1>1, <1>2, TurnChildren, SMT
<1>4. ran' = ran /\ aged' = aged
  BY <1>2 DEF TurnEffect, history
<1>5. disk'[b] # None /\ disk'[b].state \in Final \cup Unfinished
  BY <1>1, <1>2, BatchOutcomeFacts, SMT DEF TurnEffect
<1>6. Moves(b)
  BY <1>1, <1>4, <1>5, PhaseFacts DEF Moves
<1>7. ASSUME NEW n \in starts \cup torn PROVE Moves(Child(b, n))
  <2>1. /\ Child(b, n) \in Ops /\ rec[Child(b, n)] = None
        /\ NewKid(b, n) # None /\ NewKid(b, n).state \in Unfinished
    BY <1>3 DEF FreshChild, Unfinished
  <2>2. disk'[Child(b, n)] = NewKid(b, n)
    BY <1>2 DEF TurnEffect
  <2>3. Phase(disk'[Child(b, n)]) = "accepted"
    BY <2>1, <2>2, PhaseFacts
  <2>4. Phase(disk[Child(b, n)]) \in {"none", "accepted"}
    BY <1>1, <2>1, Unseen
  <2> QED BY <1>4, <2>3, <2>4 DEF Moves
<1>8. ASSUME NEW o \in Ops, o # b, o \notin Begun(b, starts \cup torn) PROVE Moves(o)
  BY <1>2, <1>4, <1>8 DEF TurnEffect, Moves
<1> QED BY <1>4, <1>6, <1>7, <1>8 DEF Begun

LEMMA MovesStep ==
  ASSUME TypeInv, Shape, WorkInv, CancelInv, Next, TypeInv', WorkInv'
  PROVE  /\ \A p \in Ops : Moves(p)
         /\ \A o \in aged' : o \in aged \/ (rec[o] # None /\ rec[o].state \in Final)
<1> DEFINE Old == \A o \in aged' : o \in aged \/ (rec[o] # None /\ rec[o].state \in Final)
           Goal == (\A p \in Ops : Moves(p)) /\ Old
<1> HIDE DEF Goal
<1>0. ASSUME UNCHANGED <<disk, ran>>, aged' \subseteq aged PROVE Goal
  BY <1>0 DEF Goal, Moves
<1>a. ASSUME \A p \in Ops : Moves(p), aged' \subseteq aged PROVE Goal
  BY <1>a DEF Goal
<1>b. \A o \in Ops : disk'[o] # None => disk'[o].state \in Final \cup Unfinished
  BY ReceiptFacts DEF TypeInv
<1>1. ASSUME NEW h \in Handlers, Admit(h) PROVE Goal
  BY <1>1, <1>a, MovesOfAdmit
<1>2. ASSUME NEW h \in Handlers, NEW r \in plan.requests, Submit(h, r) PROVE Goal
  BY <1>0, <1>2, SubmitFacts
<1>3. ASSUME NEW o \in Ops, FirstPhase(o) \/ Prepare(o) PROVE Goal
  <2>1. pc[o] \in {"phase", "prepare"} /\ UNCHANGED <<ran, aged>>
    BY <1>3 DEF FirstPhase, Prepare, history
  <2>2. PICK next \in {"call", "boot"} : Advance(o, next)
    BY <1>3 DEF FirstPhase, Prepare
  <2>3. rec[o] # None /\ next \in Labels /\ o \in active /\ disk[o] # None
    BY <2>1, WorkerFacts DEF Labels
  <2>4. (\A p \in Ops : p # o => disk'[p] = disk[p]) /\ disk'[o] # None
    BY <2>2, <2>3, AdvanceFacts
  <2> QED BY <1>a, <1>b, <2>1, <2>3, <2>4, MovesOfWorker
<1>4. ASSUME NEW o \in Ops, Call(o) \/ Create(o) PROVE Goal
  <2>1. /\ pc[o] = "call" /\ ran' = [ran EXCEPT ![o] = @ + 1] /\ UNCHANGED <<disk, aged>>
    BY <1>4 DEF Call, Create
  <2>2. Worker(o) /\ ran[o] = 0
    BY <2>1, WorkerFacts DEF Worker
  <2>3. Phase(disk[o]) = "accepted"
    BY <2>2, PhaseFacts DEF Worker
  <2>4. ran'[o] = 1 /\ \A p \in Ops : p # o => ran'[p] = ran[p]
    BY <2>1, <2>2, SMT DEF TypeInv
  <2> QED BY <1>a, <2>1, <2>2, <2>3, <2>4 DEF Moves
<1>5. ASSUME NEW o \in Ops, Bind(o) PROVE Goal
  <2>1. rec[o] # None /\ target[o] \in Nodes /\ o \in active /\ disk[o] # None
    BY <1>5, WorkerFacts DEF Bind, CancelInv, Stoppable
  <2>2. (\A p \in Ops : p # o => disk'[p] = disk[p]) /\ disk'[o] # None /\ UNCHANGED <<ran, aged>>
    BY <1>5, <2>1, BindFacts DEF history
  <2> QED BY <1>a, <1>b, <2>1, <2>2, MovesOfWorker
<1>6. ASSUME NEW o \in Ops, Boot(o) \/ FlushFails(o) PROVE Goal
  BY <1>0, <1>6 DEF Boot, FlushFails, history
<1>7. ASSUME NEW o \in Ops, Finish(o) \/ StopVM(o) PROVE Goal
  <2>1. pc[o] \in {"finish", "stopping"} /\ failed[o] \in BOOLEAN
    BY <1>7 DEF Finish, StopVM, TypeInv
  <2>2. o \in active /\ rec[o] # None /\ disk[o] # None
    BY <2>1, WorkerFacts
  <2>3. CASE UNCHANGED <<disk, ran, aged>>
    BY <1>0, <2>3
  <2>4. ASSUME NEW err \in BOOLEAN, NEW stopped \in BOOLEAN, Settle(o, err, stopped)
        PROVE  Goal
    <3>1. (\A p \in Ops : p # o => disk'[p] = disk[p]) /\ disk'[o] # None
      BY <2>2, <2>4, SettleFacts
    <3>2. UNCHANGED <<ran, aged>>
      BY <2>4 DEF Settle, history
    <3> QED BY <1>a, <1>b, <2>2, <3>1, <3>2, MovesOfWorker
  <2> QED BY <1>7, <2>1, <2>3, <2>4 DEF Finish, StopVM, history
<1>8. ASSUME NEW b \in Ops, Turn(b) PROVE Goal
  BY <1>a, <1>8, MovesOfTurn
<1>9. ASSUME NEW o \in Ops, Cancel(o) PROVE Goal
  <2>1. rec[o] # None /\ o \in active /\ disk[o] # None
    BY <1>9 DEF Cancel, WorkInv, Worker
  <2>2. (\A p \in Ops : p # o => disk'[p] = disk[p]) /\ disk'[o] # None /\ UNCHANGED <<ran, aged>>
    BY <1>9, <2>1, CancelFacts DEF history
  <2> QED BY <1>a, <1>b, <2>1, <2>2, MovesOfWorker
<1>10. ASSUME NEW o \in Ops, Age(o) PROVE Goal
  <2>1. UNCHANGED <<disk, ran>> /\ aged' = aged \cup {o} /\ rec[o] # None /\ rec[o].state \in Final
    BY <1>10 DEF Age, history
  <2> QED BY <2>1 DEF Goal, Moves
<1>11. ASSUME ListPage PROVE Goal
  <2>1. PICK gone \in SUBSET aged :
           /\ \A p \in Ops : disk'[p] = IF p \in gone THEN None ELSE disk[p]
           /\ \A p \in Ops : ran'[p] = IF p \in gone THEN 0 ELSE ran[p]
           /\ aged' \subseteq aged
    BY <1>11, ListPageFacts DEF ForgetEffect
  <2>2. \A p \in Ops : Moves(p)
    BY <2>1, PhaseFacts DEF Moves
  <2> QED BY <1>a, <2>1, <2>2
<1>12. ASSUME Close \/ Die \/ Restart \/ Loaded \/ Recovered PROVE Goal
  BY <1>0, <1>12 DEF Close, Die, Restart, Loaded, Recovered, history
<1>13. ASSUME NEW o \in Ops, Load(o) PROVE Goal
  <2>1. disk[o] # None /\ disk[o] \in Receipts
    BY <1>13, SMT DEF Load, WorkInv, TypeInv
  <2>2. PICK how \in {"forgotten", "loaded", "stopped"} : LoadEffect(o, how)
    BY <1>13, <2>1, LoadFacts
  <2>3. CASE how = "forgotten"
    <3>1. /\ \A p \in Ops : disk'[p] = IF p = o THEN None ELSE disk[p]
          /\ \A p \in Ops : ran'[p] = IF p = o THEN 0 ELSE ran[p]
          /\ o \in aged /\ aged' \subseteq aged
      BY <2>2, <2>3 DEF LoadEffect, ForgetEffect
    <3>2. \A p \in Ops : Moves(p)
      BY <3>1, PhaseFacts DEF Moves
    <3> QED BY <1>a, <3>1, <3>2
  <2>4. CASE how # "forgotten"
    <3>1. /\ \A p \in Ops : p # o => disk'[p] = disk[p]
          /\ disk'[o] = disk[o] \/ (disk'[o] # None /\ disk'[o].state = Interrupted(disk[o]))
          /\ UNCHANGED <<ran, aged>>
      BY <2>2, <2>4 DEF LoadEffect, history
    <3>2. disk[o].state \in Final \cup Unfinished
      BY <2>1, ReceiptFacts
    <3>3. CASE disk[o].state \in Unfinished
      <4>1. Phase(disk[o]) = "accepted" /\ (disk'[o] = disk[o] \/ Phase(disk'[o]) = "interrupted")
        BY <2>1, <3>1, <3>3, PhaseFacts DEF Interrupted, Final
      <4>2. \A p \in Ops : Moves(p)
        BY <3>1, <4>1 DEF Moves, Final
      <4> QED BY <1>a, <3>1, <4>2
    <3>4. CASE disk[o].state \in Final
      <4>1. Phase(disk'[o]) = Phase(disk[o])
        BY <2>1, <3>1, <3>4, PhaseFacts DEF Interrupted, Final, Unfinished
      <4>2. \A p \in Ops : Moves(p)
        BY <3>1, <4>1 DEF Moves
      <4> QED BY <1>a, <3>1, <4>2
    <3> QED BY <3>2, <3>3, <3>4
  <2> QED BY <2>3, <2>4
<1>14. ASSUME NEW b \in Ops, Project(b) PROVE Goal
  <2>1. /\ b \in Roots /\ rec[b] # None /\ rec[b].member # NoMembers /\ rec[b].state = "interrupted"
        /\ rec[b] = disk[b]
    BY <1>14 DEF Project, WorkInv
  <2>2. PICK members \in [DOMAIN rec[b].member -> Final \cup Unfinished], saved \in BOOLEAN :
          ProjectEffect(b, members, saved)
    BY <1>14, <2>1, ProjectFacts
  <2>3. /\ \A p \in Ops : p # b => disk'[p] = disk[p]
        /\ disk'[b] # None /\ disk'[b].state = "interrupted" /\ UNCHANGED <<ran, aged>>
    BY <2>1, <2>2 DEF ProjectEffect, history
  <2>4. Phase(disk'[b]) = Phase(disk[b])
    BY <2>1, <2>3, PhaseFacts DEF Final
  <2>5. \A p \in Ops : Moves(p)
    BY <2>3, <2>4 DEF Moves
  <2> QED BY <1>a, <2>3, <2>5
<1>15. Goal
  BY <1>1, <1>2, <1>3, <1>4, <1>5, <1>6, <1>7, <1>8, <1>9, <1>10, <1>11, <1>12, <1>13, <1>14
     DEF Next, Work, Recovery
<1> QED BY <1>15 DEF Goal

\* The receipts on disk are those of OperationReceipts: accepted, then one
\* outcome that stays until it expires, the work begun once and only before it.
THEOREM ReceiptsKeepTheirPromise == Spec => KeepsPromise
<1> DEFINE P == [o \in Ops |-> IF disk[o] = None THEN "none"
                               ELSE IF disk[o].state \in Unfinished THEN "accepted" ELSE disk[o].state]
           K == {o \in Ops : \E receipt \in {rec[o], disk[o]} : receipt # None /\ receipt.state \in Final}
<1>1. Init => Promise!Init
  BY SMT DEF Init, Promise!Init
<1>2. ASSUME IInv, IInv', [Next]_<<plan, vars>> PROVE [Promise!Next]_(Promise!vars)
  <2>1. CASE UNCHANGED <<plan, vars>>
    <3>1. UNCHANGED <<disk, rec, ran, aged>>
      BY <2>1 DEF vars, manager, history
    <3> QED BY <3>1 DEF Promise!vars
  <2>2. CASE Next
    <3>1. /\ TypeInv /\ Shape /\ WorkInv /\ CancelInv /\ TypeInv' /\ WorkInv'
      BY <1>2 DEF IInv
    <3>2. /\ \A p \in Ops : Moves(p)
          /\ \A o \in aged' : o \in aged \/ (rec[o] # None /\ rec[o].state \in Final)
      BY <2>2, <3>1, MovesStep
    <3>3. \A o \in Ops : P[o] = Phase(disk[o]) /\ P'[o] = Phase(disk'[o])
      BY DEF Phase
    <3>4. P' \in [Ops -> {"none", "accepted"} \cup Final]
      BY <3>1, PhaseFacts DEF TypeInv, Phase
    <3>5. ran' \in [Ops -> {0, 1}]
      BY <3>1, SMT DEF TypeInv, WorkInv
    <3>6. \A o \in K' : P'[o] # "none"
      <4>1. ASSUME NEW o \in K' PROVE o \in Ops /\ disk'[o] # None
        BY <3>1 DEF WorkInv, Relied, Known
      <4> QED BY <3>1, <3>3, <4>1, PhaseFacts, SMT DEF TypeInv
    <3>7. aged' \subseteq aged \cup K
      BY <3>1, <3>2 DEF TypeInv
    <3>8. ASSUME NEW o \in Ops
          PROVE  Promise!Idle(o) \/ Promise!Accept(o) \/ Promise!Begin(o) \/ Promise!Settle(o) \/ Promise!Forget(o)
      <4>1. Moves(o) /\ P[o] = Phase(disk[o]) /\ P'[o] = Phase(disk'[o])
        BY <3>2, <3>3
      <4> HIDE DEF P
      <4>2. \/ P'[o] = P[o] /\ ran'[o] = ran[o]
            \/ P[o] = "none" /\ P'[o] = "accepted" /\ ran'[o] = ran[o]
            \/ P[o] = "accepted" /\ P'[o] = "accepted" /\ ran[o] = 0 /\ ran'[o] = 1
            \/ P[o] = "accepted" /\ P'[o] \in Final /\ ran'[o] = ran[o]
            \/ o \in aged /\ P'[o] \in {"none", "accepted"} /\ ran'[o] = 0
        BY <4>1 DEF Moves
      <4> USE DEF P
      <4> QED BY <4>2 DEF Promise!Idle, Promise!Accept, Promise!Begin, Promise!Settle, Promise!Forget
    <3> QED BY <3>4, <3>5, <3>6, <3>7, <3>8 DEF Promise!Next
  <2> QED BY <1>2, <2>1, <2>2
<1> QED BY <1>1, <1>2, Invariance, PTL DEF Spec, KeepsPromise, Promise!Spec
=============================================================================

---------------------- MODULE NodeOperationsInvariants ----------------------
(***************************************************************************)
(* Operations exclude each other, a cancelled start leaves no VM behind, a *)
(* success on record is one, and a finished batch agrees with its members: *)
(* every step preserves the parts of the invariant that say so.            *)
(***************************************************************************)
EXTENDS NodeOperationsSteps

\* Few leaves need arithmetic; those that do, or that Zenon is slow on, cite SMT.
USE ZenonT(30)

-----------------------------------------------------------------------------
(* Reservations.                                                           *)

LEMMA KeyInit == Init => KeyInv
BY DEF Init, KeyInv

\* Nobody new, and nothing moves that a reservation is about.
LEMMA KeyStepOfRest ==
  ASSUME TypeInv, KeyInv, active' \subseteq active,
         \A o \in active' : /\ keys'[o] = keys[o] /\ target'[o] = target[o]
                            /\ rec'[o].request = rec[o].request
                            /\ DOMAIN rec'[o].member = DOMAIN rec[o].member
  PROVE  KeyInv'
<1>1. ASSUME NEW o \in active' \ Children PROVE Reserves(o)'
  BY <1>1 DEF KeyInv, Reserves
<1> QED BY <1>1 DEF KeyInv

LEMMA KeyStepOfAdmit ==
  ASSUME TypeInv, Shape, WorkInv, KeyInv, TypeInv', NEW h \in Handlers, Admit(h)
  PROVE  KeyInv'
<1>1. PICK gone \in SUBSET aged, answered, torn, begun \in BOOLEAN :
        /\ AdmitChoice(sub[h].request, sub[h].node, gone, answered, torn, begun)
        /\ AdmitEffect(sub[h].request, sub[h].node, gone, answered, torn, begun)
  BY AdmitFacts
<1> DEFINE r == sub[h].request
           n == sub[h].node
           o == r.id
           ks == KeysOf(r, n)
           x == NewReceiptOf(r)
<1>2. sub[h] \in Submissions
  BY AdmitFacts
<1>3. r \in Requests /\ o \in Ids /\ o \in Ops /\ o \notin Children
  BY <1>2, KeysFacts, OpsFacts
<1>4. x.request = r /\ x.member = [m \in DOMAIN r.targets |-> "queued"] /\ DOMAIN r.targets \subseteq Nodes
      /\ (r.kind # "batch" => DOMAIN r.targets = {})
  BY <1>3, NewReceipt, RequestsAssumption, RequestFacts, EmptyTable DEF NewReceiptOf
<1>5. /\ r.kind = "batch" =>
           /\ n = None
           /\ \A m \in DOMAIN r.targets : NodeKeys(m) \subseteq ks
           /\ \A k \in ks : \E m \in DOMAIN r.targets : k \in NodeKeys(m)
      /\ r.kind = "create" => n = None /\ ks = {<<"slug", r.slug>>}
      /\ r.kind \notin {"batch", "create"} =>
           n \in Nodes /\ SlugOf[n] = r.slug /\ NodeKeys(n) \subseteq ks
      /\ r.kind = "clone" => ks = NodeKeys(n) \cup {<<"slug", r.child>>}
      /\ r.kind \notin {"batch", "create", "clone"} => ks = NodeKeys(n)
  BY <1>2, KeysFacts
<1> HIDE DEF r, n, o, x, ks
<1>6. \A p \in active : p \in Ops /\ p \notin gone /\ (begun => p # o /\ keys[p] \cap ks = {})
  <2>1. \A p \in active : p \in Ops /\ p \notin aged /\ Visible(p)
    BY DEF WorkInv, Worker, TypeInv, Visible
  <2>2. begun => ~Visible(o) /\ Admits(r, ks)
    BY <1>1 DEF AdmitChoice, r, n, o, ks
  <2> QED BY <2>1, <2>2 DEF Admits, Conflicts
<1>7. /\ begun => /\ target' = [target EXCEPT ![o] = n] /\ keys' = [keys EXCEPT ![o] = ks]
                  /\ active' = active \cup {o}
      /\ ~begun => UNCHANGED <<active, target, keys>>
      /\ \A p \in Ops : rec'[p] = IF begun /\ p = o THEN x ELSE IF p \in gone THEN None ELSE rec[p]
  BY <1>1 DEF AdmitEffect, Spawn, r, n, o, ks, x
<1>8. \A p \in active : keys'[p] = keys[p] /\ target'[p] = target[p] /\ rec'[p] = rec[p]
  BY <1>6, <1>7 DEF TypeInv
<1>9. CASE ~begun
  BY <1>7, <1>8, <1>9, KeyStepOfRest
<1>10. CASE begun
  <2>1. keys'[o] = ks /\ target'[o] = n /\ rec'[o] = x
    BY <1>3, <1>7, <1>10 DEF TypeInv
  <2>2. \A m \in Nodes : <<"node", m>> \in ks => <<"slug", SlugOf[m]>> \in ks
    BY <1>5, SMT DEF NodeKeys
  <2>3. /\ n # None => <<"slug", SlugOf[n]>> \in ks
        /\ r.kind = "create" => <<"slug", r.slug>> \in ks
        /\ r.kind = "clone" => <<"slug", r.child>> \in ks
        /\ \A m \in DOMAIN x.member : <<"slug", SlugOf[m]>> \in ks
    BY <1>4, <1>5 DEF NodeKeys
  <2>4. ASSUME NEW p \in Ops, p = o PROVE Reserves(p)'
    BY <1>4, <2>1, <2>2, <2>3, <2>4 DEF Reserves
  <2>5. \A p \in active \ Children : Reserves(p)'
    BY <1>8 DEF KeyInv, Reserves
  <2>6. \A p \in active' \ Children : p \in active \ Children \/ p = o
    BY <1>7, <1>10
  <2>7. \A p, q \in active' \ Children : p # q => keys'[p] \cap keys'[q] = {}
    BY <1>6, <1>8, <2>1, <2>6, <1>10 DEF KeyInv
  <2>8. \A c \in active' \cap Children : target'[c] = c[2]
    BY <1>3, <1>7, <1>8, <1>10, SMT DEF KeyInv
  <2>9. \A p \in active' \ Children : Reserves(p)'
    BY <1>3, <2>4, <2>5, <2>6
  <2> QED BY <2>7, <2>8, <2>9 DEF KeyInv
<1> QED BY <1>9, <1>10

LEMMA KeyStepOfTurn ==
  ASSUME TypeInv, Shape, WorkInv, KeyInv, TypeInv', NEW b \in Ops, Turn(b)
  PROVE  KeyInv'
<1>1. /\ pc[b] = "batch" /\ rec[b] # None /\ rec[b].member # NoMembers /\ b \in active
  BY WorkerFacts DEF Turn
<1>2. PICK starts, unsaved, torn \in SUBSET Nodes, done, saved \in BOOLEAN,
           members \in [DOMAIN rec[b].member -> MemberStates] :
        /\ TurnChoice(b, starts, unsaved, torn, members)
        /\ TurnEffect(b, starts, torn, members, done, saved)
  BY <1>1, TurnFacts
<1>3. b \notin Children /\ \A n \in starts : FreshChild(b, n)
  BY <1>1, <1>2, TurnChildren
<1>4. \A o \in Begun(b, starts) : /\ o \in Children /\ o # b /\ o \notin active
                                  /\ target'[o] = o[2]
  BY <1>2, <1>3, SMT DEF Begun, FreshChild, TurnEffect
<1>5. /\ \A o \in Ops : o # b /\ o \notin Begun(b, starts) => rec'[o] = rec[o] /\ target'[o] = target[o]
      /\ target'[b] = target[b] /\ rec'[b].request = rec[b].request
      /\ DOMAIN rec'[b].member = DOMAIN rec[b].member
      /\ active' \subseteq active \cup Begun(b, starts) /\ keys' = keys
  BY <1>2 DEF TurnEffect
<1>6. \A o \in active : /\ o \in Ops /\ o \notin Begun(b, starts)
                        /\ target'[o] = target[o] /\ rec'[o].request = rec[o].request
                        /\ DOMAIN rec'[o].member = DOMAIN rec[o].member
  BY <1>4, <1>5 DEF TypeInv
<1>7. \A o \in active' \ Children : o \in active \ Children
  BY <1>4, <1>5
<1>8. ASSUME NEW o \in active' \ Children PROVE Reserves(o)'
  <2>1. Reserves(o)
    BY <1>7 DEF KeyInv
  <2> QED BY <1>5, <1>6, <1>7, <2>1 DEF Reserves
<1>9. ASSUME NEW c \in active' \cap Children PROVE target'[c] = c[2]
  BY <1>4, <1>5, <1>6 DEF KeyInv
<1>10. \A o, p \in active' \ Children : o # p => keys'[o] \cap keys'[p] = {}
  BY <1>5, <1>7 DEF KeyInv
<1> QED BY <1>8, <1>9, <1>10 DEF KeyInv

LEMMA KeyStep ==
  ASSUME TypeInv, Shape, WorkInv, KeyInv, CancelInv, Next, TypeInv', Shape'
  PROVE  KeyInv'
<1>1. ASSUME NEW h \in Handlers, Admit(h) PROVE KeyInv'
  BY <1>1, KeyStepOfAdmit
<1>2. ASSUME NEW h \in Handlers, NEW r \in plan.requests, Submit(h, r) PROVE KeyInv'
  <2>1. UNCHANGED <<rec, active, keys, target>>
    BY <1>2, SubmitFacts DEF manager
  <2> QED BY <2>1, KeyStepOfRest
<1>3. ASSUME NEW o \in Ops, FirstPhase(o) \/ Prepare(o) \/ FlushFails(o) \/ Age(o) PROVE KeyInv'
  <2>1. UNCHANGED <<rec, active, keys, target>>
    BY <1>3 DEF FirstPhase, Prepare, FlushFails, Age, manager
  <2> QED BY <2>1, KeyStepOfRest
<1>4. ASSUME NEW o \in Ops, Call(o) \/ Boot(o) PROVE KeyInv'
  <2>1. UNCHANGED <<rec, active, keys, target>>
    BY <1>4, CallFacts, BootFacts
  <2> QED BY <2>1, KeyStepOfRest
<1>5. ASSUME NEW o \in Ops, Create(o) PROVE KeyInv'
  <2> DEFINE r == rec[o].request
             slug == IF r.kind = "create" THEN r.slug ELSE r.child
  <2>1. /\ r.kind \in {"create", "clone"} /\ pc[o] = "call"
        /\ \A p \in Ops : p # o => target'[p] = target[p]
        /\ (target'[o] \in Nodes /\ SlugOf[target'[o]] = slug) \/ UNCHANGED target
        /\ UNCHANGED <<rec, active, keys>>
    BY <1>5, CreateFacts, SMT
  <2>2. o \in active /\ Proper(o, rec[o])
    BY <2>1, WorkerFacts DEF Shape
  <2>3. o \notin Children
    BY <2>1, <2>2 DEF Proper, SingleKinds
  <2>4. \A p \in active : p \in Ops
    BY DEF TypeInv
  <2>5. <<"slug", slug>> \in keys[o]
    BY <2>1, <2>2, <2>3 DEF KeyInv, Reserves
  <2>6. ASSUME NEW p \in active \ Children PROVE Reserves(p)'
    <3>1. Reserves(p)
      BY DEF KeyInv
    <3>2. target'[p] # None => <<"slug", SlugOf[target'[p]]>> \in keys[p]
      BY <2>1, <2>4, <2>5, <3>1 DEF Reserves
    <3> QED BY <2>1, <3>1, <3>2 DEF Reserves
  <2> QED BY <2>1, <2>3, <2>4, <2>6 DEF KeyInv
<1>6. ASSUME NEW o \in Ops, Bind(o) PROVE KeyInv'
  <2>1. /\ rec[o] # None /\ target[o] \in Nodes /\ o \in active /\ pc[o] = "bind" /\ Proper(o, rec[o])
        /\ rec[o].request.kind \in {"create", "clone"}
    BY <1>6, WorkerFacts DEF Bind, CancelInv, Stoppable, Shape
  <2>2. o \notin Children
    BY <2>1 DEF Proper, SingleKinds
  <2>3. /\ keys'[o] = keys[o] \cup {<<"node", target[o]>>}
        /\ \A p \in Ops : p # o => keys'[p] = keys[p]
        /\ UNCHANGED <<rec, active, target>>
    BY <1>6, <2>1, BindFacts
  <2>4. <<"slug", SlugOf[target[o]]>> \in keys[o]
    BY <2>1, <2>2, NoneAssumption DEF KeyInv, Reserves
  <2>5. ASSUME NEW p \in active \ Children, p # o PROVE <<"node", target[o]>> \notin keys[p]
    <3>1. Reserves(p) /\ keys[o] \cap keys[p] = {}
      BY <2>1, <2>2, <2>5 DEF KeyInv
    <3> QED BY <2>1, <2>4, <3>1 DEF Reserves
  <2>6. \A p \in active : p \in Ops
    BY DEF TypeInv
  <2>7. ASSUME NEW p \in active \ Children PROVE Reserves(p)'
    <3>1. Reserves(p)
      BY DEF KeyInv
    <3>2. CASE p = o
      BY <2>3, <2>4, <3>1, <3>2 DEF Reserves
    <3>3. CASE p # o
      BY <2>3, <2>6, <3>1, <3>3 DEF Reserves
    <3> QED BY <3>2, <3>3
  <2>8. \A p, q \in active \ Children : p # q => keys'[p] \cap keys'[q] = {}
    BY <2>3, <2>5, <2>6, SMT DEF KeyInv
  <2> QED BY <2>3, <2>7, <2>8 DEF KeyInv
<1>7. ASSUME NEW o \in Ops, Finish(o) \/ StopVM(o) PROVE KeyInv'
  <2>1. pc[o] \in {"finish", "stopping"}
    BY <1>7 DEF Finish, StopVM
  <2>2. CASE UNCHANGED <<rec, active, keys, target>>
    BY <2>2, KeyStepOfRest
  <2>3. ASSUME NEW err \in BOOLEAN, NEW stopped \in BOOLEAN, Settle(o, err, stopped)
        PROVE  KeyInv'
    <3>1. \A p \in Ops : p # o => rec'[p] = rec[p]
      BY <2>1, <2>3, SettleFacts, WorkerFacts, SMT
    <3>2. active' = active \ {o} /\ UNCHANGED <<keys, target>>
      BY <2>3 DEF Settle
    <3>3. \A p \in active' : p \in active /\ p # o /\ rec'[p] = rec[p]
      BY <3>1, <3>2 DEF TypeInv
    <3> QED BY <3>2, <3>3, KeyStepOfRest
  <2>4. failed[o] \in BOOLEAN
    BY DEF TypeInv
  <2> QED BY <1>7, <2>2, <2>3, <2>4 DEF Finish, StopVM
<1>8. ASSUME NEW b \in Ops, Turn(b) PROVE KeyInv'
  BY <1>8, KeyStepOfTurn
<1>9. ASSUME NEW o \in Ops, Cancel(o) PROVE KeyInv'
  <2>1. rec[o] # None
    BY <1>9 DEF Cancel, WorkInv, Worker
  <2>2. /\ \A p \in Ops : rec'[p].request = rec[p].request /\ rec'[p].member = rec[p].member
        /\ UNCHANGED <<active, keys, target>>
    BY <1>9, <2>1, CancelFacts
  <2> QED BY <2>2, KeyStepOfRest DEF TypeInv
<1>10. CASE ListPage
  <2>1. PICK gone \in SUBSET aged :
           /\ \A p \in Ops : rec'[p] = IF p \in gone THEN None ELSE rec[p]
           /\ UNCHANGED <<active, keys, target>>
    BY <1>10, ListPageFacts
  <2>2. \A p \in active : p \in Ops /\ p \notin gone
    BY DEF WorkInv, Worker, TypeInv
  <2> QED BY <2>1, <2>2, KeyStepOfRest
<1>11. CASE Close
  BY <1>11, KeyStepOfRest DEF Close
<1>12. CASE Die
  BY <1>12 DEF Die, KeyInv
<1>13. CASE Restart \/ Loaded \/ Recovered
  <2>1. UNCHANGED <<rec, active, keys, target>>
    BY <1>13 DEF Restart, Loaded, Recovered, manager
  <2> QED BY <2>1, KeyStepOfRest
<1>14. ASSUME NEW o \in Ops, Load(o) \/ Project(o) PROVE KeyInv'
  <2>1. active = {} /\ active' = active
    BY <1>14 DEF Load, Project, WorkInv, Up
  <2> QED BY <2>1 DEF KeyInv
<1> QED BY <1>1, <1>2, <1>3, <1>4, <1>5, <1>6, <1>7, <1>8, <1>9, <1>10, <1>11, <1>12, <1>13, <1>14
        DEF Next, Work, Recovery

-----------------------------------------------------------------------------
(* A cancelled start leaves no VM behind.                                  *)

\* How a worker moves on without getting another node.
Stays(o) ==
  /\ rec'[o].request = rec[o].request /\ target'[o] = target[o] /\ cleanup'[o] = cleanup[o]
  /\ cause'[o] = cause[o] \/ cause[o] = None
  /\ \/ pc'[o] \in {pc[o], "finish"}
     \/ pc[o] = "phase" /\ pc'[o] = "call"
     \/ pc[o] = "prepare" /\ pc'[o] = "boot"
     \/ pc'[o] = "stopping" /\ cause'[o] = "canceled" /\ cleanup[o] # None

LEMMA StayFacts ==
  ASSUME NEW o, Stoppable(o), Stays(o), NoneAssumption,
         StartsNode(o) /\ cleanup[o] = None => node'[target[o]] # "running"
  PROVE  Stoppable(o)'
<1> DEFINE r == rec[o].request
<1>1. rec'[o].request = r /\ target'[o] = target[o] /\ cleanup'[o] = cleanup[o]
  BY DEF Stays
<1>2. StartsNode(o)' = StartsNode(o)
  BY <1>1 DEF StartsNode
<1>3. pc'[o] \in {"phase", "call"} => pc[o] \in {"phase", "call"}
  BY DEF Stays
<1>4. /\ pc'[o] \in {"bind", "prepare", "boot"} => pc[o] \in {"bind", "prepare", "boot"}
      /\ pc'[o] \in {"prepare", "boot"} => pc[o] \in {"prepare", "boot"}
      /\ pc'[o] \in {"phase", "call", "bind"} => pc[o] \in {"phase", "call", "bind"}
  BY DEF Stays
<1>5. pc'[o] = "stopping" => cause'[o] = "canceled" /\ cleanup[o] # None
  BY DEF Stays, Stoppable
<1> QED BY <1>1, <1>2, <1>3, <1>4, <1>5 DEF Stoppable

LEMMA CancelStepOfRest ==
  ASSUME TypeInv, CancelInv, active' \subseteq active, \A o \in active' : Stays(o),
         \A n \in Nodes : node'[n] = "running" => node[n] = "running"
  PROVE  CancelInv'
<1>1. ASSUME NEW o \in active' PROVE Stoppable(o)'
  <2>1. Stoppable(o) /\ Stays(o) /\ o \in Ops
    BY DEF CancelInv, TypeInv
  <2>2. ASSUME StartsNode(o), cleanup[o] = None PROVE node'[target[o]] # "running"
    <3>1. target[o] \in Nodes
      BY <2>1, <2>2 DEF StartsNode, Stoppable, TypeInv
    <3> QED BY <2>1, <2>2, <3>1 DEF Stoppable
  <2> QED BY <2>1, <2>2, StayFacts, NoneAssumption
<1> QED BY <1>1 DEF CancelInv

\* Only its own worker starts the VM of a node that a worker is about.
LEMMA CancelStepOfVM ==
  ASSUME TypeInv, Shape, WorkInv, KeyInv, CancelInv, NEW o \in active,
         pc[o] # "batch", active' = active, \A p \in active : Stays(p),
         \A n \in Nodes : n # target[o] => node'[n] = node[n],
         StartsNode(o) => cleanup[o] # None
  PROVE  CancelInv'
<1>1. ASSUME NEW p \in active' PROVE Stoppable(p)'
  <2>1. Stoppable(p) /\ Stays(p) /\ p \in Ops /\ p \in active /\ Proper(p, rec[p]) /\ Worker(p)
    BY DEF CancelInv, TypeInv, Shape, WorkInv, Worker
  <2>2. ASSUME StartsNode(p), cleanup[p] = None PROVE node'[target[p]] # "running"
    <3>1. target[p] \in Nodes
      BY <2>1, <2>2 DEF StartsNode, Stoppable, TypeInv
    <3>2. p # o /\ target[p] # None
      BY <2>2, <3>1, NoneAssumption
    <3>3. pc[p] # "batch"
      BY <2>1, <2>2 DEF StartsNode, Proper, Worker
    <3>4. target[p] # target[o]
      BY <2>1, <3>2, <3>3, Exclusion
    <3> QED BY <2>1, <2>2, <3>1, <3>4 DEF Stoppable
  <2> QED BY <2>1, <2>2, StayFacts, NoneAssumption
<1> QED BY <1>1 DEF CancelInv

LEMMA CancelInit == Init => CancelInv
BY DEF Init, CancelInv

\* A worker that begins has the node of its request, and stops it if it starts it.
LEMMA StoppableNew ==
  ASSUME NEW o, pc'[o] \in {"batch", "phase"},
         LET r == rec'[o].request IN
         /\ r.kind \in {"batch", "create"} => target'[o] = None
         /\ r.kind \notin {"batch", "create"} => target'[o] \in Nodes
         /\ r.kind = "clone" => SlugOf[target'[o]] = r.slug
         /\ cleanup'[o] = IF r.kind = "start" THEN target'[o] ELSE None
  PROVE  Stoppable(o)'
<1> DEFINE r == rec'[o].request
<1>1. StartsNode(o)' => r.kind = "start"
  BY DEF StartsNode
<1>2. StartsNode(o)' => cleanup'[o] # None
  BY <1>1, NoneAssumption
<1> QED BY <1>2 DEF Stoppable

LEMMA CancelStepOfAdmit ==
  ASSUME TypeInv, Shape, WorkInv, CancelInv, NEW h \in Handlers, Admit(h)
  PROVE  CancelInv'
<1> DEFINE r == sub[h].request
           n == sub[h].node
           o == r.id
<1>1. PICK gone \in SUBSET aged, answered, torn, begun \in BOOLEAN :
        /\ AdmitChoice(r, n, gone, answered, torn, begun)
        /\ AdmitEffect(r, n, gone, answered, torn, begun)
  BY AdmitFacts
<1>2. /\ r \in Requests /\ o \in Ids /\ o \in Ops /\ n \in Nodes \cup {None}
      /\ IF r.kind \in {"batch", "create"} THEN n = None ELSE n \in Nodes /\ SlugOf[n] = r.slug
  BY AdmitFacts, OpsFacts DEF Submissions
<1>3. /\ \A p \in Ops : rec'[p] = IF begun /\ p = o THEN NewReceiptOf(r) ELSE IF p \in gone THEN None ELSE rec[p]
      /\ UNCHANGED node
      /\ ~begun => UNCHANGED <<active, cause, keys, pc, target, cleanup, failed>>
      /\ begun => Spawn(o, IF r.kind = "batch" THEN "batch" ELSE "phase", n,
                        IF r.kind = "start" THEN n ELSE None, KeysOf(r, n))
  BY <1>1 DEF AdmitEffect
<1>4. \A p \in active : p \in Ops /\ p \notin gone /\ (begun => p # o)
  BY <1>1, SMT DEF WorkInv, Worker, AdmitChoice, TypeInv, Visible
<1>5. ASSUME NEW p \in active PROVE Stoppable(p)'
  <2>1. Stays(p)
    <3>1. CASE begun
      BY <1>2, <1>3, <1>4, <3>1 DEF Spawn, Stays, TypeInv
    <3>2. CASE ~begun
      BY <1>3, <1>4, <3>2 DEF Stays
    <3> QED BY <3>1, <3>2
  <2>2. StartsNode(p) /\ cleanup[p] = None => node'[target[p]] # "running"
    BY <1>3 DEF CancelInv, Stoppable
  <2> QED BY <2>1, <2>2, StayFacts, NoneAssumption DEF CancelInv
<1>6. ASSUME begun, NEW p \in Ops, p = o PROVE Stoppable(p)'
  <2>1. rec'[p].request = r
    BY <1>2, <1>3, <1>6, SMT DEF NewReceiptOf, Receipt
  <2>2. /\ pc'[p] \in {"batch", "phase"} /\ target'[p] = n
        /\ cleanup'[p] = IF r.kind = "start" THEN n ELSE None
    BY <1>3, <1>6 DEF Spawn, TypeInv
  <2> QED BY <1>2, <2>1, <2>2, StoppableNew, SMT
<1>7. \A p \in active' : p \in active \/ (begun /\ p = o)
  BY <1>3 DEF Spawn
<1> QED BY <1>2, <1>5, <1>6, <1>7 DEF CancelInv

LEMMA CancelStepOfTurn ==
  ASSUME TypeInv, Shape, WorkInv, CancelInv, NEW b \in Ops, Turn(b)
  PROVE  CancelInv'
<1>1. /\ pc[b] = "batch" /\ rec[b] # None /\ rec[b].member # NoMembers /\ b \in active
  BY WorkerFacts DEF Turn
<1>2. PICK starts, unsaved, torn \in SUBSET Nodes, done, saved \in BOOLEAN,
           members \in [DOMAIN rec[b].member -> MemberStates] :
        /\ TurnChoice(b, starts, unsaved, torn, members)
        /\ TurnEffect(b, starts, torn, members, done, saved)
  BY <1>1, TurnFacts
<1>3. b \notin Children /\ \A n \in starts : FreshChild(b, n)
  BY <1>1, <1>2, TurnChildren
<1>4. ASSUME NEW o \in Begun(b, starts) PROVE Stoppable(o)'
  <2>1. PICK n \in starts : o = Child(b, n)
    BY DEF Begun
  <2>2. rec'[o] = NewKid(b, n) /\ n \in Nodes
    BY <1>2, <2>1 DEF TurnEffect
  <2>3. /\ pc'[o] = "phase" /\ target'[o] = n
        /\ cleanup'[o] = IF rec[b].request.targets[n] = "start" THEN n ELSE None
    BY <1>2, <2>1 DEF TurnEffect
  <2>4. /\ rec'[o].request.kind = rec[b].request.targets[n] /\ rec'[o].request.kind \in SingleKinds
    BY <1>3, <2>1, <2>2 DEF FreshChild
  <2> QED BY <2>2, <2>3, <2>4, StoppableNew, SMT DEF SingleKinds
<1>5. ASSUME NEW o \in active PROVE Stoppable(o)' \/ o \notin active'
  <2>1. o \in Ops /\ o \notin Begun(b, starts)
    BY <1>3, SMT DEF Begun, FreshChild, TypeInv
  <2>2. Stays(o) \/ o \notin active'
    <3>1. CASE o # b
      BY <1>2, <2>1, <3>1 DEF TurnEffect, Stays
    <3>2. CASE o = b /\ ~done
      BY <1>1, <1>2, <3>2 DEF TurnEffect, Stays
    <3>3. CASE o = b /\ done
      BY <1>2, <3>3 DEF TurnEffect
    <3> QED BY <3>1, <3>2, <3>3
  <2>3. StartsNode(o) /\ cleanup[o] = None => node'[target[o]] # "running"
    BY <1>2 DEF CancelInv, Stoppable, TurnEffect
  <2> QED BY <2>2, <2>3, StayFacts, NoneAssumption DEF CancelInv
<1>6. \A o \in active' : o \in active \/ o \in Begun(b, starts)
  BY <1>2 DEF TurnEffect
<1> QED BY <1>4, <1>5, <1>6 DEF CancelInv

LEMMA CancelStep ==
  ASSUME TypeInv, Shape, WorkInv, KeyInv, CancelInv, Next, TypeInv', Shape'
  PROVE  CancelInv'
<1>0. \A o \in active : o \in Ops
  BY DEF TypeInv
<1>1. ASSUME NEW h \in Handlers, Admit(h) PROVE CancelInv'
  BY <1>1, CancelStepOfAdmit
<1>2. ASSUME NEW h \in Handlers, NEW r \in plan.requests, Submit(h, r) PROVE CancelInv'
  <2>1. UNCHANGED <<node, manager>>
    BY <1>2, SubmitFacts
  <2>2. UNCHANGED <<node, rec, active, cause, pc, target, cleanup>>
    BY <2>1 DEF manager
  <2> QED BY <2>2, CancelStepOfRest DEF Stays
<1>3. ASSUME NEW o \in Ops, FirstPhase(o) \/ Prepare(o) PROVE CancelInv'
  <2>1. /\ pc[o] \in {"phase", "prepare"} /\ UNCHANGED <<node, rec, active, cause, target, cleanup>>
        /\ \E next \in {"call", "boot"} : /\ Advance(o, next)
                                          /\ pc[o] = "phase" => next = "call"
                                          /\ pc[o] = "prepare" => next = "boot"
    BY <1>3 DEF FirstPhase, Prepare
  <2>2. PICK next \in {"call", "boot"} : /\ Advance(o, next)
                                         /\ pc[o] = "phase" => next = "call"
                                         /\ pc[o] = "prepare" => next = "boot"
    BY <2>1
  <2>3. rec[o] # None /\ next \in Labels
    BY <2>1, WorkerFacts DEF Labels
  <2>4. /\ \A p \in Ops : p # o => pc'[p] = pc[p]
        /\ pc'[o] = next \/ pc'[o] = "finish"
    BY <2>2, <2>3, AdvanceFacts
  <2>5. \A p \in active : Stays(p)
    BY <1>0, <2>1, <2>2, <2>4 DEF Stays
  <2> QED BY <2>1, <2>5, CancelStepOfRest
<1>4. ASSUME NEW o \in Ops, Call(o) PROVE CancelInv'
  <2>1. /\ pc[o] = "call" /\ pc' = [pc EXCEPT ![o] = "finish"] /\ rec[o].request.kind \in SingleKinds
        /\ \A n \in Nodes : n # target[o] => node'[n] = node[n]
        /\ UNCHANGED <<rec, active, cause, target, cleanup>>
    BY <1>4, CallFacts
  <2>2. o \in active /\ pc[o] # "batch"
    BY <2>1, WorkerFacts
  <2>3. StartsNode(o) => cleanup[o] # None
    BY <2>1, <2>2, NoneAssumption, SMT DEF StartsNode, CancelInv, Stoppable, SingleKinds
  <2>4. \A p \in active : Stays(p)
    BY <1>0, <2>1 DEF Stays, TypeInv
  <2> QED BY <2>1, <2>2, <2>3, <2>4, CancelStepOfVM
<1>5. ASSUME NEW o \in Ops, Boot(o) PROVE CancelInv'
  <2>1. /\ pc[o] = "boot" /\ pc' = [pc EXCEPT ![o] = "finish"]
        /\ \A n \in Nodes : n # target[o] => node'[n] = node[n]
        /\ UNCHANGED <<rec, active, cause, target, cleanup>>
    BY <1>5, BootFacts
  <2>2. o \in active /\ pc[o] # "batch"
    BY <2>1, WorkerFacts
  <2>3. StartsNode(o) => cleanup[o] # None
    BY <2>1, <2>2, NoneAssumption, SMT DEF CancelInv, Stoppable
  <2>4. \A p \in active : Stays(p)
    BY <1>0, <2>1 DEF Stays, TypeInv
  <2> QED BY <2>1, <2>2, <2>3, <2>4, CancelStepOfVM
<1>6. ASSUME NEW o \in Ops, Create(o) PROVE CancelInv'
  <2> DEFINE r == rec[o].request
             slug == IF r.kind = "create" THEN r.slug ELSE r.child
  <2>1. /\ r.kind \in {"create", "clone"} /\ pc[o] = "call"
        /\ \A p \in Ops : p # o => pc'[p] = pc[p] /\ target'[p] = target[p]
        /\ \/ /\ target'[o] \in Nodes /\ SlugOf[target'[o]] = slug
              /\ node' = [node EXCEPT ![target'[o]] = "stopped"]
              /\ pc'[o] \in {"bind", "finish"}
           \/ pc'[o] = "finish" /\ UNCHANGED <<node, target>>
        /\ UNCHANGED <<rec, active, cause, cleanup>>
    <3> HIDE DEF slug
    <3>1. slug = IF r.kind = "create" THEN r.slug ELSE r.child
      BY DEF slug
    <3> QED BY <1>6, <3>1, CreateFacts, SMT
  <2>2. o \in active /\ Stoppable(o)
    BY <2>1, WorkerFacts DEF CancelInv
  <2>3. \A n \in Nodes : node'[n] = "running" => node[n] = "running"
    BY <2>1 DEF TypeInv
  <2>4. ASSUME NEW p \in active, p # o \/ (pc'[o] = "finish" /\ target' = target) PROVE Stoppable(p)'
    <3>1. Stays(p)
      BY <1>0, <2>1, <2>4 DEF Stays
    <3>2. Stoppable(p)
      BY DEF CancelInv
    <3>3. ASSUME StartsNode(p), cleanup[p] = None PROVE node'[target[p]] # "running"
      <4>1. target[p] \in Nodes
        BY <1>0, <3>2, <3>3 DEF StartsNode, Stoppable, TypeInv
      <4> QED BY <2>3, <3>2, <3>3, <4>1 DEF Stoppable
    <3> QED BY <3>1, <3>2, <3>3, StayFacts, NoneAssumption
  <2>5. ASSUME /\ target'[o] \in Nodes /\ SlugOf[target'[o]] = slug
               /\ node' = [node EXCEPT ![target'[o]] = "stopped"]
               /\ pc'[o] \in {"bind", "finish"}
        PROVE  Stoppable(o)'
    <3>1. cleanup'[o] = None /\ rec'[o].request = r /\ node'[target'[o]] # "running"
      BY <2>1, <2>2, <2>5 DEF Stoppable, TypeInv
    <3> QED BY <2>1, <2>5, <3>1 DEF Stoppable
  <2> QED BY <2>1, <2>4, <2>5 DEF CancelInv
<1>7. ASSUME NEW o \in Ops, Bind(o) PROVE CancelInv'
  <2>1. /\ rec[o] # None /\ target[o] \in Nodes /\ o \in active /\ Stoppable(o) /\ pc[o] = "bind"
        /\ rec[o].request.kind \in {"create", "clone"} /\ cleanup[o] = None
    BY <1>7, WorkerFacts DEF Bind, CancelInv, Stoppable
  <2>2. /\ \A p \in Ops : p # o => pc'[p] = pc[p] /\ cleanup'[p] = cleanup[p]
        /\ \/ pc'[o] = "prepare" /\ cleanup'[o] = target[o]
           \/ pc'[o] = "finish" /\ cleanup'[o] = cleanup[o]
        /\ UNCHANGED <<node, rec, active, cause, target>>
    BY <1>7, <2>1, BindFacts
  <2>3. ASSUME NEW p \in active, p # o \/ cleanup'[o] = cleanup[o] PROVE Stoppable(p)'
    <3>1. Stays(p)
      BY <1>0, <2>1, <2>2, <2>3, NoneAssumption DEF Stays
    <3>2. Stoppable(p) /\ (StartsNode(p) /\ cleanup[p] = None => node'[target[p]] # "running")
      BY <2>2 DEF CancelInv, Stoppable
    <3> QED BY <3>1, <3>2, StayFacts, NoneAssumption
  <2>4. ASSUME pc'[o] = "prepare", cleanup'[o] = target[o] PROVE Stoppable(o)'
    BY <2>1, <2>2, <2>4, NoneAssumption DEF Stoppable
  <2> QED BY <2>2, <2>3, <2>4 DEF CancelInv
<1>8. ASSUME NEW o \in Ops, Finish(o) \/ StopVM(o) PROVE CancelInv'
  <2>1. pc[o] \in {"finish", "stopping"}
    BY <1>8 DEF Finish, StopVM
  <2>2. /\ \/ UNCHANGED node
           \/ pc[o] = "stopping" /\ node' = [node EXCEPT ![cleanup[o]] = "stopped"]
        /\ \/ /\ cause[o] = "canceled" /\ cleanup[o] # None /\ pc' = [pc EXCEPT ![o] = "stopping"]
              /\ UNCHANGED <<rec, active, cause, target, cleanup>>
           \/ \E err, stopped \in BOOLEAN : Settle(o, err, stopped)
    <3>1. failed[o] \in BOOLEAN
      BY DEF TypeInv
    <3> QED BY <1>8, <3>1 DEF Finish, StopVM
  <2>3. \A n \in Nodes : node'[n] = "running" => node[n] = "running"
    BY <2>2 DEF TypeInv
  <2>4. CASE /\ cause[o] = "canceled" /\ cleanup[o] # None /\ pc' = [pc EXCEPT ![o] = "stopping"]
             /\ UNCHANGED <<rec, active, cause, target, cleanup>>
    <3>1. \A p \in active : Stays(p)
      BY <1>0, <2>4 DEF Stays, TypeInv
    <3> QED BY <2>3, <2>4, <3>1, CancelStepOfRest
  <2>5. ASSUME NEW err \in BOOLEAN, NEW stopped \in BOOLEAN, Settle(o, err, stopped)
        PROVE  CancelInv'
    <3>1. \A p \in Ops : p # o => rec'[p] = rec[p]
      BY <2>1, <2>5, SettleFacts, WorkerFacts, SMT
    <3>2. active' = active \ {o} /\ UNCHANGED <<cause, target, cleanup>> /\ pc' = [pc EXCEPT ![o] = "idle"]
      BY <2>5 DEF Settle
    <3>3. \A p \in active' : Stays(p)
      BY <1>0, <3>1, <3>2 DEF Stays, TypeInv
    <3> QED BY <2>3, <3>2, <3>3, CancelStepOfRest
  <2> QED BY <2>2, <2>4, <2>5
<1>9. ASSUME NEW b \in Ops, Turn(b) PROVE CancelInv'
  BY <1>9, CancelStepOfTurn
<1>10. ASSUME NEW o \in Ops, FlushFails(o) PROVE CancelInv'
  <2>1. /\ \A p \in Ops : cause'[p] = cause[p] \/ cause[p] = None
        /\ UNCHANGED <<node, rec, active, pc, target, cleanup>>
    BY <1>10 DEF FlushFails, TypeInv
  <2> QED BY <1>0, <2>1, CancelStepOfRest DEF Stays
<1>11. ASSUME NEW o \in Ops, Cancel(o) PROVE CancelInv'
  <2>1. rec[o] # None
    BY <1>11 DEF Cancel, WorkInv, Worker
  <2>2. /\ \A p \in Ops : rec'[p].request = rec[p].request
        /\ \A p \in Ops : cause'[p] = cause[p] \/ cause[p] = None
        /\ UNCHANGED <<node, active, pc, target, cleanup>>
    BY <1>11, <2>1, CancelFacts
  <2> QED BY <1>0, <2>2, CancelStepOfRest DEF Stays
<1>12. ASSUME NEW o \in Ops, Age(o) PROVE CancelInv'
  BY <1>12, CancelStepOfRest DEF Age, manager, Stays
<1>13. CASE ListPage
  <2>1. PICK gone \in SUBSET aged :
           /\ \A p \in Ops : rec'[p] = IF p \in gone THEN None ELSE rec[p]
           /\ UNCHANGED <<node, active, cause, pc, target, cleanup>>
    BY <1>13, ListPageFacts
  <2>2. \A p \in active : p \notin gone
    BY DEF WorkInv, Worker
  <2> QED BY <1>0, <2>1, <2>2, CancelStepOfRest DEF Stays
<1>14. CASE Close
  <2>1. /\ \A p \in Ops : cause'[p] = cause[p] \/ cause[p] = None
        /\ UNCHANGED <<node, rec, active, pc, target, cleanup>>
    BY <1>14 DEF Close, Cancelled
  <2> QED BY <1>0, <2>1, CancelStepOfRest DEF Stays
<1>15. CASE Die
  BY <1>15 DEF Die, CancelInv
<1>16. CASE Restart \/ Loaded \/ Recovered
  <2>1. UNCHANGED <<node, rec, active, cause, pc, target, cleanup>>
    BY <1>16 DEF Restart, Loaded, Recovered, manager
  <2> QED BY <2>1, CancelStepOfRest DEF Stays
<1>17. ASSUME NEW o \in Ops, Load(o) \/ Project(o) PROVE CancelInv'
  <2>1. active = {} /\ active' = active
    BY <1>17 DEF Load, Project, WorkInv, Up
  <2> QED BY <2>1 DEF CancelInv
<1> QED BY <1>1, <1>2, <1>3, <1>4, <1>5, <1>6, <1>7, <1>8, <1>9, <1>10, <1>11, <1>12, <1>13, <1>14,
           <1>15, <1>16, <1>17
        DEF Next, Work, Recovery

-----------------------------------------------------------------------------
(* A success on record is one.                                             *)

\* A receipt that claims nothing, and one that claims what an earlier one did.
Modest(receipt) == /\ receipt.state # "succeeded"
                   /\ \A n \in DOMAIN receipt.member : receipt.member[n] # "succeeded"
Repeats(receipt, old) == /\ old # None /\ receipt.member = old.member
                         /\ receipt.state = "succeeded" => old.state = "succeeded"
Faithful(o, receipt) ==
  \/ Modest(receipt)
  \/ /\ Repeats(receipt, rec[o]) \/ Repeats(receipt, disk[o])
     /\ o \in worked => o \in worked'

LEMMA TruthOfReceipt ==
  ASSUME TypeInv, Recorded, NEW o \in Ops, NEW x \in Receipts, Proper(o, x), Faithful(o, x),
         \A c \in Children : c \in worked \/ disk[c] = None => c \in worked' \/ disk'[c] = None
  PROVE  Truthful(o, x, worked', disk')
<1>1. ASSUME NEW n \in DOMAIN x.member PROVE Child(o, n) \in Children
  BY RootFacts, ReceiptFacts, EmptyTable, ChildFacts
<1>2. CASE Modest(x)
  BY <1>2 DEF Modest, Truthful
<1>3. ASSUME NEW old, Repeats(x, old), Truthful(o, old, worked, disk), o \in worked => o \in worked'
      PROVE  Truthful(o, x, worked', disk')
  BY <1>1, <1>3 DEF Repeats, Truthful
<1>4. CASE Repeats(x, rec[o]) /\ (o \in worked => o \in worked')
  <2>1. Truthful(o, rec[o], worked, disk)
    BY <1>4 DEF Repeats, Recorded
  <2> QED BY <1>3, <1>4, <2>1
<1>5. CASE Repeats(x, disk[o]) /\ (o \in worked => o \in worked')
  <2>1. Truthful(o, disk[o], worked, disk)
    BY <1>5 DEF Repeats, Recorded
  <2> QED BY <1>3, <1>5, <2>1
<1> QED BY <1>2, <1>4, <1>5 DEF Faithful

LEMMA TruthStep ==
  ASSUME TypeInv, Recorded, TypeInv', Shape',
         \A o \in Ops : rec'[o] # None => Faithful(o, rec'[o]),
         \A o \in Ops : disk'[o] # None => Faithful(o, disk'[o]),
         \A c \in Children : c \in worked \/ disk[c] = None => c \in worked' \/ disk'[c] = None
  PROVE  Recorded'
<1>1. ASSUME NEW o \in Ops, rec'[o] # None PROVE Truthful(o, rec'[o], worked', disk')
  <2>1. rec'[o] \in Receipts /\ Proper(o, rec'[o])
    BY <1>1 DEF TypeInv, Shape
  <2> QED BY <1>1, <2>1, TruthOfReceipt
<1>2. ASSUME NEW o \in Ops, disk'[o] # None PROVE Truthful(o, disk'[o], worked', disk')
  <2>1. disk'[o] \in Receipts /\ Proper(o, disk'[o])
    BY <1>2 DEF TypeInv, Shape
  <2> QED BY <1>2, <2>1, TruthOfReceipt
<1> QED BY <1>1, <1>2 DEF Recorded

\* What a step has to show of the workers, when it leaves their members alone.
LEMMA WaitingKept ==
  ASSUME Waiting, active' \subseteq active,
         \A b \in active' : /\ rec'[b].member = rec[b].member
                            /\ disk'[b].member \in {rec[b].member, disk[b].member}
  PROVE  Waiting'
<1>1. ASSUME NEW b \in active', NEW n \in DOMAIN rec'[b].member \cap DOMAIN disk'[b].member,
             rec'[b].member[n] = "queued"
      PROVE  disk'[b].member[n] # "succeeded"
  <2>1. CASE disk'[b].member = rec[b].member
    BY <1>1, <2>1
  <2>2. CASE disk'[b].member = disk[b].member
    BY <1>1, <2>2 DEF Waiting
  <2> QED BY <2>1, <2>2
<1> QED BY <1>1 DEF Waiting

LEMMA SuccessInit == Init => SuccessInv
BY SMT DEF Init, SuccessInv, Earned, Recorded, Waiting

\* Steps that neither forget nor begin anything, and leave the members alone.
LEMMA SuccessStepOfRest ==
  ASSUME TypeInv, SuccessInv, TypeInv', Shape', active' \subseteq active,
         \A o \in Ops : rec'[o] # None => Faithful(o, rec'[o]),
         \A o \in Ops : disk'[o] # None => Faithful(o, disk'[o]),
         \A c \in Children : c \in worked \/ disk[c] = None => c \in worked' \/ disk'[c] = None,
         \A o \in active' : /\ rec'[o].member = rec[o].member
                            /\ disk'[o].member \in {rec[o].member, disk[o].member}
                            /\ pc'[o] \in {"finish", "stopping"} => failed'[o] \/ o \in worked'
  PROVE  SuccessInv'
<1>1. Recorded'
  BY TruthStep DEF SuccessInv
<1>2. Waiting'
  BY WaitingKept DEF SuccessInv
<1>3. Earned'
  BY DEF Earned
<1> QED BY <1>1, <1>2, <1>3 DEF SuccessInv

LEMMA SuccessStepOfAdmit ==
  ASSUME TypeInv, Shape, WorkInv, SuccessInv, NEW h \in Handlers, Admit(h), TypeInv', Shape'
  PROVE  SuccessInv'
<1> DEFINE r == sub[h].request
           n == sub[h].node
           o == r.id
           new == NewReceiptOf(r)
<1>1. PICK gone \in SUBSET aged, answered, torn, begun \in BOOLEAN :
        /\ AdmitChoice(r, n, gone, answered, torn, begun)
        /\ AdmitEffect(r, n, gone, answered, torn, begun)
  BY AdmitFacts
<1>2. r \in Requests /\ o \in Ids /\ o \in Ops
  BY AdmitFacts, OpsFacts DEF Submissions
<1>3. /\ \A p \in Ops : rec'[p] = IF begun /\ p = o THEN new ELSE IF p \in gone THEN None ELSE rec[p]
      /\ \A p \in Ops : disk'[p] = IF (torn \/ begun) /\ p = o THEN new ELSE IF p \in gone THEN None ELSE disk[p]
      /\ worked' = worked \ gone
      /\ ~begun => UNCHANGED <<active, cause, keys, pc, target, cleanup, failed>>
      /\ begun => Spawn(o, IF r.kind = "batch" THEN "batch" ELSE "phase", n,
                        IF r.kind = "start" THEN n ELSE None, KeysOf(r, n))
  BY <1>1 DEF AdmitEffect, ForgetEffect
<1>4. new.state = "running" /\ \A m \in DOMAIN new.member : new.member[m] = "queued"
  BY DEF NewReceiptOf, Receipt
<1>5. Modest(new)
  BY <1>4 DEF Modest
<1> HIDE DEF new
<1>6. ASSUME NEW p \in Ops, rec'[p] # None PROVE Faithful(p, rec'[p])
  BY <1>3, <1>5, <1>6 DEF Faithful, Repeats
<1>7. ASSUME NEW p \in Ops, disk'[p] # None PROVE Faithful(p, disk'[p])
  BY <1>3, <1>5, <1>7 DEF Faithful, Repeats
<1>8. \A c \in Children : c \in worked \/ disk[c] = None => c \in worked' \/ disk'[c] = None
  BY <1>2, <1>3, OpsFacts
<1>9. Recorded'
  BY <1>6, <1>7, <1>8, TruthStep DEF SuccessInv
<1>10. \A p \in active : /\ p \in Ops /\ p \notin gone /\ (begun \/ torn => p # o)
                         /\ rec'[p] = rec[p] /\ disk'[p] = disk[p]
  BY <1>1, <1>3, SMT DEF WorkInv, Worker, AdmitChoice, TypeInv, Visible
<1>11. CASE ~begun
  <2>1. Waiting'
    BY <1>3, <1>10, <1>11, WaitingKept DEF SuccessInv
  <2>2. Earned'
    BY <1>3, <1>10, <1>11 DEF SuccessInv, Earned
  <2> QED BY <1>9, <2>1, <2>2 DEF SuccessInv
<1>12. CASE begun
  <2>1. /\ active' = active \cup {o} /\ pc'[o] \in {"batch", "phase"}
        /\ \A p \in active : pc'[p] = pc[p] /\ failed'[p] = failed[p]
    BY <1>2, <1>3, <1>10, <1>12, SMT DEF Spawn, TypeInv
  <2>2. rec'[o] = new /\ disk'[o] = new
    BY <1>2, <1>3, <1>12
  <2>3. Waiting'
    <3>1. ASSUME NEW p \in active', NEW m \in DOMAIN rec'[p].member \cap DOMAIN disk'[p].member,
                 rec'[p].member[m] = "queued"
          PROVE  disk'[p].member[m] # "succeeded"
      <4>1. CASE p = o
        BY <2>2, <3>1, <4>1
      <4>2. CASE p \in active
        BY <1>10, <3>1, <4>2, SMT DEF SuccessInv, Waiting
      <4> QED BY <2>1, <4>1, <4>2
    <3> QED BY <3>1 DEF Waiting
  <2>4. Earned'
    BY <1>3, <1>10, <2>1 DEF SuccessInv, Earned
  <2> QED BY <1>9, <2>3, <2>4 DEF SuccessInv
<1> QED BY <1>11, <1>12

\* What a member's own receipt says of it is true.
LEMMA ChildTruth ==
  ASSUME TypeInv, Shape, Recorded, NEW b \in Roots, NEW n \in Nodes,
         rec[Child(b, n)] # None, rec[Child(b, n)].state = "succeeded"
  PROVE  Child(b, n) \in worked
<1> DEFINE c == Child(b, n)
<1>1. c \in Ops /\ c \in Children /\ Proper(c, rec[c])
  BY ChildFacts DEF Shape
<1>2. rec[c].member = NoMembers
  BY <1>1 DEF Proper, SingleKinds
<1> QED BY <1>1, <1>2 DEF Recorded, Truthful

LEMMA SuccessStepOfTurn ==
  ASSUME TypeInv, Shape, WorkInv, SuccessInv, NEW b \in Ops, Turn(b), TypeInv', Shape'
  PROVE  SuccessInv'
<1>1. /\ pc[b] = "batch" /\ rec[b] # None /\ rec[b].member # NoMembers /\ b \in active /\ disk[b] # None
  BY WorkerFacts DEF Turn
<1>2. PICK starts, unsaved, torn \in SUBSET Nodes, done, saved \in BOOLEAN,
           members \in [DOMAIN rec[b].member -> MemberStates] :
        /\ TurnChoice(b, starts, unsaved, torn, members)
        /\ TurnEffect(b, starts, torn, members, done, saved)
  BY <1>1, TurnFacts
<1>3. /\ b \in Roots /\ b \notin Children /\ \A n \in starts \cup torn : FreshChild(b, n)
      /\ DOMAIN rec[b].member \subseteq Nodes
  <2>1. pc[b] = "batch" /\ TurnChoice(b, starts, unsaved, torn, members)
    BY <1>1, <1>2
  <2>2. /\ b \in Roots /\ b \notin Children /\ DOMAIN rec[b].member \subseteq Nodes
        /\ \A n \in starts \cup torn : FreshChild(b, n)
        /\ starts # {} => ~Over(b, members)
    BY <2>1, TurnChildren
  <2> QED BY <2>2
<1>4. worked' = worked /\ UNCHANGED failed
  BY <1>2 DEF TurnEffect, history
<1>5. \A c \in Children : c \notin Begun(b, starts \cup torn) => disk'[c] = disk[c]
  BY <1>2, <1>3, OpsFacts DEF TurnEffect
<1>6. ASSUME NEW n \in DOMAIN rec[b].member, members[n] = "succeeded"
      PROVE  Child(b, n) \in worked' \/ disk'[Child(b, n)] = None
  <2>1. n \in Nodes /\ n \notin starts \cup unsaved /\ torn \subseteq unsaved /\ Member(b, n) = "succeeded"
    BY <1>2, <1>3, <1>6 DEF TurnChoice
  <2>2. CASE rec[Child(b, n)] # None
    BY <1>1, <1>3, <1>4, <2>1, <2>2, MemberType, ChildTruth DEF SuccessInv
  <2>3. CASE rec[Child(b, n)] = None
    <3>1. rec[b].member[n] = "succeeded"
      BY <1>1, <1>3, <2>1, <2>3, MemberType
    <3>2. Child(b, n) \in worked \/ disk[Child(b, n)] = None
      BY <1>1, <3>1 DEF SuccessInv, Recorded, Truthful
    <3>3. Child(b, n) \notin Begun(b, starts \cup torn) /\ Child(b, n) \in Children
      BY <1>3, <2>1, ChildFacts, SMT DEF Begun, Child
    <3> QED BY <1>4, <1>5, <3>2, <3>3
  <2> QED BY <2>2, <2>3
<1>7. members # NoMembers /\ DOMAIN members = DOMAIN rec[b].member
  BY <1>1, <1>2, <1>3, ReceiptFacts, EmptyTable DEF TypeInv
<1>8. ASSUME NEW x, x.member = members, x.state = "succeeded" => BatchOutcome(b, members) = "succeeded"
      PROVE  Truthful(b, x, worked', disk')
  BY <1>6, <1>7, <1>8, BatchOutcomeFacts, SMT DEF Truthful
<1>9. rec[b].state # "succeeded"
  BY <1>1 DEF WorkInv, Worker, Unfinished
<1>10. Truthful(b, rec'[b], worked', disk')
  <2>1. rec'[b].member = members /\ (rec'[b].state = "succeeded" => BatchOutcome(b, members) = "succeeded")
    BY <1>2, <1>9 DEF TurnEffect
  <2> QED BY <1>8, <2>1
<1>11. Truthful(b, disk'[b], worked', disk')
  <2>1. CASE disk'[b].member = members /\ (disk'[b].state = "succeeded" => BatchOutcome(b, members) = "succeeded")
    BY <1>8, <2>1
  <2>2. CASE disk'[b] = disk[b]
    <3>1. disk[b].state # "succeeded"
      BY <1>1 DEF WorkInv, Worker, Unfinished
    <3>2. ASSUME NEW n \in DOMAIN disk[b].member, disk[b].member[n] = "succeeded"
          PROVE  Child(b, n) \in worked' \/ disk'[Child(b, n)] = None
      <4>1. n \in Nodes /\ (Child(b, n) \in worked \/ disk[Child(b, n)] = None)
        BY <1>1, <3>2, ReceiptFacts, SMT DEF SuccessInv, Recorded, Truthful, TypeInv
      <4>2. n \notin starts \cup torn
        BY <1>1, <1>2, <3>2 DEF TurnChoice, SuccessInv, Waiting
      <4>3. Child(b, n) \notin Begun(b, starts \cup torn) /\ Child(b, n) \in Children
        BY <1>3, <4>1, <4>2, ChildFacts, SMT DEF Begun, Child
      <4> QED BY <1>4, <1>5, <4>1, <4>3
    <3> QED BY <2>2, <3>1, <3>2 DEF Truthful
  <2> QED BY <1>2, <1>9, <2>1, <2>2 DEF TurnEffect
<1>12. ASSUME NEW n \in starts \cup torn PROVE Modest(NewKid(b, n))
  <2>1. NewKid(b, n).state = "running" /\ NewKid(b, n).member = NoMembers
    BY <1>3 DEF FreshChild
  <2> QED BY <2>1, EmptyTable DEF Modest
<1>13. ASSUME NEW o \in Ops, o # b, NEW x \in Receipts, Proper(o, x),
              x = rec[o] \/ x = disk[o] \/ Modest(x)
       PROVE  Truthful(o, x, worked', disk')
  <2>1. CASE Modest(x)
    BY <2>1 DEF Modest, Truthful
  <2>2. CASE x = rec[o] \/ x = disk[o]
    <3>1. Truthful(o, x, worked, disk)
      BY <2>2, ReceiptFacts DEF SuccessInv, Recorded
    <3>2. ASSUME NEW n \in DOMAIN x.member
          PROVE  disk'[Child(o, n)] = disk[Child(o, n)]
      <4>1. o \in Roots /\ n \in Nodes
        BY <1>13, RootFacts, ReceiptFacts, EmptyTable
      <4>2. Child(o, n) \in Children /\ Child(o, n) \notin Begun(b, starts \cup torn)
        BY <1>13, <4>1, ChildFacts DEF Begun, Child
      <4> QED BY <1>5, <4>2
    <3> QED BY <1>4, <3>1, <3>2 DEF Truthful
  <2> QED BY <1>13, <2>1, <2>2
<1>14. ASSUME NEW o \in Ops, o # b, rec'[o] # None PROVE Truthful(o, rec'[o], worked', disk')
  <2>1. rec'[o] \in Receipts /\ Proper(o, rec'[o])
    BY <1>14 DEF TypeInv, Shape
  <2>2. CASE o \in Begun(b, starts)
    <3>1. PICK n \in starts : o = Child(b, n)
      BY <2>2 DEF Begun
    <3>2. rec'[o] = NewKid(b, n)
      BY <1>2, <3>1 DEF TurnEffect
    <3> QED BY <1>12, <1>13, <1>14, <2>1, <3>1, <3>2
  <2>3. CASE o \notin Begun(b, starts)
    <3>1. rec'[o] = rec[o]
      BY <1>2, <1>14, <2>3 DEF TurnEffect
    <3> QED BY <1>13, <1>14, <2>1, <3>1
  <2> QED BY <2>2, <2>3
<1>15. ASSUME NEW o \in Ops, o # b, disk'[o] # None PROVE Truthful(o, disk'[o], worked', disk')
  <2>1. disk'[o] \in Receipts /\ Proper(o, disk'[o])
    BY <1>15 DEF TypeInv, Shape
  <2>2. CASE o \in Begun(b, starts \cup torn)
    <3>1. PICK n \in starts \cup torn : o = Child(b, n)
      BY <2>2 DEF Begun
    <3>2. disk'[o] = NewKid(b, n)
      BY <1>2, <3>1 DEF TurnEffect
    <3> QED BY <1>12, <1>13, <1>15, <2>1, <3>1, <3>2
  <2>3. CASE o \notin Begun(b, starts \cup torn)
    <3>1. disk'[o] = disk[o]
      BY <1>2, <1>15, <2>3 DEF TurnEffect
    <3> QED BY <1>13, <1>15, <2>1, <3>1
  <2> QED BY <2>2, <2>3
<1>16. Recorded'
  BY <1>10, <1>11, <1>14, <1>15 DEF Recorded
<1>17. ASSUME NEW o \in active', NEW n \in DOMAIN rec'[o].member \cap DOMAIN disk'[o].member,
              rec'[o].member[n] = "queued"
       PROVE  disk'[o].member[n] # "succeeded"
  <2>1. CASE o = b
    <3>1. rec'[b].member = members /\ (disk'[b] = disk[b] \/ disk'[b].member = members)
      BY <1>2 DEF TurnEffect
    <3>2. CASE disk'[b].member = members
      BY <1>17, <2>1, <3>1, <3>2
    <3>3. CASE disk'[b] = disk[b]
      <4>1. n \in DOMAIN rec[b].member /\ members[n] = "queued"
        BY <1>7, <1>17, <2>1, <3>1
      <4>2. Member(b, n) = "queued"
        BY <1>2, <4>1 DEF TurnChoice
      <4>3. rec[b].member[n] = "queued"
        BY <1>1, <1>3, <4>1, <4>2, MemberType
      <4> QED BY <1>1, <1>17, <2>1, <3>3, <4>1, <4>3 DEF SuccessInv, Waiting
    <3> QED BY <3>1, <3>2, <3>3
  <2>2. CASE o \in Begun(b, starts)
    <3>1. rec'[o].member = NoMembers
      BY <1>2, <1>3, <2>2, SMT DEF TurnEffect, Begun, FreshChild
    <3> QED BY <1>17, <3>1, EmptyTable
  <2>3. CASE o # b /\ o \notin Begun(b, starts)
    <3>1. o \in active /\ o \in Ops
      BY <1>2, <2>3 DEF TurnEffect, TypeInv
    <3>2. o \notin Begun(b, starts \cup torn)
      BY <1>3, <3>1, SMT DEF Begun, FreshChild
    <3>3. rec'[o] = rec[o] /\ disk'[o] = disk[o]
      BY <1>2, <2>3, <3>1, <3>2 DEF TurnEffect
    <3> QED BY <1>17, <3>1, <3>3 DEF SuccessInv, Waiting
  <2> QED BY <2>1, <2>2, <2>3
<1>18. Earned'
  <2>1. ASSUME NEW o \in active', pc'[o] \in {"finish", "stopping"} PROVE o \in active /\ pc'[o] = pc[o]
    BY <1>2, <2>1, SMT DEF TurnEffect, TypeInv, Begun
  <2> QED BY <1>4, <2>1 DEF SuccessInv, Earned
<1> QED BY <1>16, <1>17, <1>18 DEF SuccessInv, Waiting

LEMMA SuccessStepOfEnd ==
  ASSUME TypeInv, Shape, WorkInv, SuccessInv, NEW o \in Ops, pc[o] \in {"finish", "stopping"},
         NEW err \in BOOLEAN, NEW stopped \in BOOLEAN, Settle(o, err, stopped), err \/ o \in worked,
         TypeInv', Shape'
  PROVE  SuccessInv'
<1>1. rec[o] # None /\ o \in active /\ rec[o].member = NoMembers /\ daemon \in Up
  BY WorkerFacts
<1>2. /\ \A p \in Ops : p # o => disk'[p] = disk[p] /\ rec'[p] = rec[p]
      /\ rec'[o] # None /\ rec'[o].member = rec[o].member
      /\ rec'[o].state \in {Outcome(o, err, stopped), "failed"}
      /\ disk'[o] = disk[o] \/ (/\ disk'[o] # None /\ disk'[o].member = rec[o].member
                                /\ disk'[o].state = Outcome(o, err, stopped))
  BY <1>1, SettleFacts
<1>3. active' = active \ {o} /\ pc' = [pc EXCEPT ![o] = "idle"] /\ UNCHANGED <<failed, worked>>
  BY DEF Settle, history
<1>4. Outcome(o, err, stopped) = "succeeded" => o \in worked
  BY OutcomeFacts
<1>5. \A c \in Children : c \in worked \/ disk[c] = None => c \in worked' \/ disk'[c] = None
  BY <1>1, <1>2, <1>3, OpsFacts DEF WorkInv, Worker
<1>6. ASSUME NEW x, x.member = NoMembers, x.state = "succeeded" => Outcome(o, err, stopped) = "succeeded"
      PROVE  Truthful(o, x, worked', disk')
  BY <1>3, <1>4, <1>6, EmptyTable DEF Truthful
<1>7. Truthful(o, rec'[o], worked', disk')
  BY <1>1, <1>2, <1>6
<1>8. ASSUME NEW p \in Ops, NEW x \in Receipts, Proper(p, x), x = rec[p] \/ x = disk[p]
      PROVE  Truthful(p, x, worked', disk')
  <2>1. Faithful(p, x)
    BY <1>3, <1>8, ReceiptFacts DEF Faithful, Repeats
  <2> QED BY <1>5, <1>8, <2>1, TruthOfReceipt DEF SuccessInv
<1>9. ASSUME NEW p \in Ops, rec'[p] # None PROVE Truthful(p, rec'[p], worked', disk')
  <2>1. rec'[p] \in Receipts /\ Proper(p, rec'[p])
    BY <1>9 DEF TypeInv, Shape
  <2> QED BY <1>2, <1>7, <1>8, <2>1
<1>10. ASSUME NEW p \in Ops, disk'[p] # None PROVE Truthful(p, disk'[p], worked', disk')
  <2>1. disk'[p] \in Receipts /\ Proper(p, disk'[p])
    BY <1>10 DEF TypeInv, Shape
  <2>2. CASE disk'[p] = disk[p]
    BY <1>8, <2>1, <2>2
  <2>3. CASE p = o /\ disk'[o].member = rec[o].member /\ disk'[o].state = Outcome(o, err, stopped)
    BY <1>1, <1>6, <2>3
  <2> QED BY <1>2, <2>2, <2>3
<1>11. Recorded'
  BY <1>9, <1>10 DEF Recorded
<1>12. \A p \in active' : p \in active /\ p \in Ops /\ p # o /\ rec'[p] = rec[p] /\ disk'[p] = disk[p]
                          /\ pc'[p] = pc[p]
  BY <1>2, <1>3 DEF TypeInv
<1>13. Waiting'
  BY <1>3, <1>12, WaitingKept DEF SuccessInv
<1>14. Earned'
  BY <1>3, <1>12 DEF SuccessInv, Earned
<1> QED BY <1>11, <1>13, <1>14 DEF SuccessInv

LEMMA SuccessStepOfProject ==
  ASSUME TypeInv, Shape, WorkInv, SuccessInv, NEW b \in Ops, Project(b), TypeInv', Shape'
  PROVE  SuccessInv'
<1>1. /\ daemon = "projecting" /\ b \in todo /\ b \in Roots /\ rec[b] # None /\ rec[b].member # NoMembers
      /\ rec[b].state = "interrupted" /\ active = {}
  BY DEF Project, WorkInv, Up
<1>2. PICK members \in [DOMAIN rec[b].member -> Final \cup Unfinished], saved \in BOOLEAN :
        ProjectEffect(b, members, saved)
  BY <1>1, ProjectFacts
<1>3. /\ \A p \in Ops : p # b => disk'[p] = disk[p]
      /\ disk'[b] = disk[b] \/ (/\ disk'[b] # None /\ disk'[b].state = "interrupted"
                                /\ disk'[b].member = members)
      /\ \A p \in Ops : rec'[p] = None \/ rec'[p] = rec[p] \/ (p = b /\ rec'[p] = disk'[b] /\
                                                               disk'[b].state = "interrupted" /\
                                                               disk'[b].member = members)
      /\ active' = {} /\ worked' = worked
  BY <1>1, <1>2 DEF ProjectEffect, history
<1>4. \A c \in Children : disk'[c] = disk[c]
  BY <1>1, <1>3, OpsFacts
<1>5. ASSUME NEW n \in DOMAIN members, members[n] = "succeeded"
      PROVE  Child(b, n) \in worked \/ disk[Child(b, n)] = None
  <2>1. n \in DOMAIN rec[b].member /\ n \in Nodes /\ Projected(b, n) = "succeeded"
    BY <1>1, <1>2, <1>5, ReceiptFacts DEF ProjectEffect, TypeInv
  <2>2. CASE rec[Child(b, n)] # None
    BY <1>1, <2>1, <2>2, ChildTruth DEF Projected, SuccessInv
  <2>3. CASE rec[Child(b, n)] = None
    <3>1. rec[b].member[n] = "succeeded"
      BY <2>1, <2>3 DEF Projected
    <3> QED BY <1>1, <2>1, <3>1, OpsFacts DEF SuccessInv, Recorded, Truthful
  <2> QED BY <2>2, <2>3
<1>6. ASSUME NEW x, x.state = "interrupted", x.member = members
      PROVE  Truthful(b, x, worked', disk')
  <2>1. \A n \in DOMAIN members : Child(b, n) \in Children
    BY <1>1, <1>2, ReceiptFacts, ChildFacts, SMT DEF TypeInv
  <2> QED BY <1>3, <1>4, <1>5, <1>6, <2>1 DEF Truthful
<1>7. ASSUME NEW p \in Ops, NEW x \in Receipts, Proper(p, x), x = rec[p] \/ x = disk[p]
      PROVE  Truthful(p, x, worked', disk')
  <2>1. Faithful(p, x)
    BY <1>3, <1>7, ReceiptFacts DEF Faithful, Repeats
  <2> QED BY <1>3, <1>4, <1>7, <2>1, TruthOfReceipt DEF SuccessInv
<1>8. ASSUME NEW p \in Ops, rec'[p] # None PROVE Truthful(p, rec'[p], worked', disk')
  <2>1. rec'[p] \in Receipts /\ Proper(p, rec'[p])
    BY <1>8 DEF TypeInv, Shape
  <2> QED BY <1>3, <1>6, <1>7, <1>8, <2>1
<1>9. ASSUME NEW p \in Ops, disk'[p] # None PROVE Truthful(p, disk'[p], worked', disk')
  <2>1. disk'[p] \in Receipts /\ Proper(p, disk'[p])
    BY <1>9 DEF TypeInv, Shape
  <2> QED BY <1>3, <1>6, <1>7, <2>1
<1> QED BY <1>3, <1>8, <1>9 DEF SuccessInv, Recorded, Waiting, Earned

LEMMA SameReceipt ==
  ASSUME NEW o, o \in worked => o \in worked',
         NEW x, \E old \in {rec[o], disk[o]} : /\ old # None /\ x.member = old.member
                                               /\ x.state = old.state \/ x.state # "succeeded"
  PROVE  Faithful(o, x)
BY SMT DEF Faithful, Repeats

\* Steps of a worker, which may write its receipt again and may earn a success.
LEMMA SuccessStepOfOne ==
  ASSUME TypeInv, Shape, WorkInv, SuccessInv, TypeInv', Shape', NEW o \in active,
         active' = active, worked' \in {worked, worked \cup {o}},
         \A p \in Ops : p # o => /\ rec'[p] = rec[p] /\ disk'[p] = disk[p]
                                 /\ pc'[p] = pc[p] /\ failed'[p] = failed[p],
         rec'[o] # None, rec'[o].member = rec[o].member, rec'[o].state \in {rec[o].state, "canceling"},
         disk'[o] = disk[o] \/ (/\ disk'[o] # None /\ disk'[o].member = rec[o].member
                                /\ disk'[o].state \in {rec[o].state, "canceling"}),
         pc'[o] \in {"finish", "stopping"} => failed'[o] \/ o \in worked'
  PROVE  SuccessInv'
<1>1. o \in Ops /\ rec[o] # None /\ disk[o] # None
  BY DEF TypeInv, WorkInv, Worker
<1>2. ASSUME NEW p \in Ops, rec'[p] # None PROVE Faithful(p, rec'[p])
  <2>1. \E old \in {rec[p], disk[p]} : /\ old # None /\ rec'[p].member = old.member
                                       /\ rec'[p].state = old.state \/ rec'[p].state # "succeeded"
    BY <1>1, <1>2
  <2> QED BY <2>1, SameReceipt
<1>3. ASSUME NEW p \in Ops, disk'[p] # None PROVE Faithful(p, disk'[p])
  <2>1. \E old \in {rec[p], disk[p]} : /\ old # None /\ disk'[p].member = old.member
                                       /\ disk'[p].state = old.state \/ disk'[p].state # "succeeded"
    BY <1>1, <1>3
  <2> QED BY <2>1, SameReceipt
<1>4. \A c \in Children : c \in worked \/ disk[c] = None => c \in worked' \/ disk'[c] = None
  BY <1>1, OpsFacts
<1>5. \A p \in active' : /\ rec'[p].member = rec[p].member
                         /\ disk'[p].member \in {rec[p].member, disk[p].member}
                         /\ pc'[p] \in {"finish", "stopping"} => failed'[p] \/ p \in worked'
  BY <1>1 DEF TypeInv, SuccessInv, Earned
<1> QED BY <1>2, <1>3, <1>4, <1>5, SuccessStepOfRest

\* Steps that write no receipt, or none that says more than before.
LEMMA SuccessStepOfQuiet ==
  ASSUME TypeInv, SuccessInv, TypeInv', Shape', active' \subseteq active,
         UNCHANGED <<rec, disk, worked, pc>>,
         \A p \in active' : failed'[p] = failed[p] \/ failed'[p]
  PROVE  SuccessInv'
<1>1. ASSUME NEW p \in Ops, NEW x, x # None, x \in {rec[p], disk[p]} PROVE Faithful(p, x)
  BY <1>1, SameReceipt
<1>2. \A p \in Ops : rec'[p] # None => Faithful(p, rec'[p])
  BY <1>1
<1>3. \A p \in Ops : disk'[p] # None => Faithful(p, disk'[p])
  BY <1>1
<1> QED BY <1>2, <1>3, SuccessStepOfRest DEF SuccessInv, Earned

LEMMA SuccessStep ==
  ASSUME TypeInv, Shape, WorkInv, SuccessInv, CancelInv, Next, TypeInv', Shape'
  PROVE  SuccessInv'
<1>1. ASSUME NEW h \in Handlers, Admit(h) PROVE SuccessInv'
  BY <1>1, SuccessStepOfAdmit
<1>2. ASSUME NEW h \in Handlers, NEW r \in plan.requests, Submit(h, r) PROVE SuccessInv'
  <2>1. UNCHANGED <<disk, manager, worked>>
    BY <1>2, SubmitFacts
  <2>2. UNCHANGED <<rec, active, pc, failed>>
    BY <2>1 DEF manager
  <2> QED BY <2>1, <2>2, SuccessStepOfQuiet
<1>3. ASSUME NEW o \in Ops, FirstPhase(o) \/ Prepare(o) PROVE SuccessInv'
  <2>1. pc[o] \in {"phase", "prepare"} /\ UNCHANGED <<rec, active, worked>>
    BY <1>3 DEF FirstPhase, Prepare, history
  <2>2. PICK next \in {"call", "boot"} : Advance(o, next)
    BY <1>3 DEF FirstPhase, Prepare
  <2>3. rec[o] # None /\ next \in Labels /\ o \in active
    BY <2>1, WorkerFacts DEF Labels
  <2>4. /\ \A p \in Ops : p # o => disk'[p] = disk[p] /\ pc'[p] = pc[p] /\ failed'[p] = failed[p]
        /\ disk'[o] = disk[o] \/ disk'[o] = rec[o]
        /\ \/ pc'[o] = next /\ failed'[o] = failed[o]
           \/ pc'[o] = "finish" /\ failed'[o]
    BY <2>2, <2>3, AdvanceFacts
  <2> QED BY <2>1, <2>3, <2>4, SuccessStepOfOne
<1>4. ASSUME NEW o \in Ops, Call(o) \/ Boot(o) PROVE SuccessInv'
  <2>1. /\ pc[o] \in {"call", "boot"} /\ pc' = [pc EXCEPT ![o] = "finish"]
        /\ \A p \in Ops : p # o => failed'[p] = failed[p]
        /\ \/ worked' = worked \cup {o}
           \/ UNCHANGED worked /\ failed'[o]
        /\ UNCHANGED <<disk, rec, active>>
    BY <1>4, CallFacts, BootFacts
  <2>2. o \in active /\ rec[o] # None
    BY <2>1, WorkerFacts
  <2>3. \A p \in Ops : p # o => pc'[p] = pc[p]
    BY <2>1 DEF TypeInv
  <2> QED BY <2>1, <2>2, <2>3, SuccessStepOfOne
<1>5. ASSUME NEW o \in Ops, Create(o) PROVE SuccessInv'
  <2>1. /\ pc[o] = "call"
        /\ \A p \in Ops : p # o => pc'[p] = pc[p] /\ failed'[p] = failed[p]
        /\ \/ pc'[o] = "bind" /\ worked' = worked
           \/ pc'[o] = "finish" /\ worked' = worked \cup {o}
           \/ pc'[o] = "finish" /\ failed'[o] /\ worked' = worked
        /\ UNCHANGED <<disk, rec, active>>
    BY <1>5, CreateFacts
  <2>2. o \in active /\ rec[o] # None
    BY <2>1, WorkerFacts
  <2> QED BY <2>1, <2>2, SuccessStepOfOne
<1>6. ASSUME NEW o \in Ops, Bind(o) PROVE SuccessInv'
  <2>1. rec[o] # None /\ target[o] \in Nodes /\ o \in active
    BY <1>6, WorkerFacts DEF Bind, CancelInv, Stoppable
  <2>2. /\ \A p \in Ops : p # o => disk'[p] = disk[p] /\ pc'[p] = pc[p] /\ failed'[p] = failed[p]
        /\ disk'[o] = disk[o] \/ disk'[o] = rec[o]
        /\ pc'[o] = "prepare" \/ (pc'[o] = "finish" /\ failed'[o])
        /\ UNCHANGED <<rec, active, worked>>
    BY <1>6, <2>1, BindFacts DEF history
  <2> QED BY <2>1, <2>2, SuccessStepOfOne
<1>7. ASSUME NEW o \in Ops, Finish(o) \/ StopVM(o) PROVE SuccessInv'
  <2>1. pc[o] \in {"finish", "stopping"} /\ failed[o] \in BOOLEAN
    BY <1>7 DEF Finish, StopVM, TypeInv
  <2>2. o \in active /\ rec[o] # None /\ (failed[o] \/ o \in worked)
    BY <2>1, WorkerFacts DEF SuccessInv, Earned
  <2>3. CASE pc' = [pc EXCEPT ![o] = "stopping"] /\ UNCHANGED <<disk, rec, active, failed, worked>>
    BY <2>2, <2>3, SuccessStepOfOne DEF TypeInv
  <2>4. CASE Settle(o, failed[o], TRUE)
    BY <2>1, <2>2, <2>4, SuccessStepOfEnd
  <2>5. CASE Settle(o, TRUE, FALSE)
    BY <2>1, <2>5, SuccessStepOfEnd
  <2> QED BY <1>7, <2>3, <2>4, <2>5 DEF Finish, StopVM, history
<1>8. ASSUME NEW b \in Ops, Turn(b) PROVE SuccessInv'
  BY <1>8, SuccessStepOfTurn
<1>9. ASSUME NEW o \in Ops, FlushFails(o) PROVE SuccessInv'
  <2>1. UNCHANGED <<rec, disk, active, pc, worked>> /\ failed' = [failed EXCEPT ![o] = TRUE]
    BY <1>9 DEF FlushFails, history
  <2>2. \A p \in active : failed'[p] = failed[p] \/ failed'[p]
    BY <2>1 DEF TypeInv
  <2> QED BY <2>1, <2>2, SuccessStepOfQuiet
<1>10. ASSUME NEW o \in Ops, Cancel(o) PROVE SuccessInv'
  <2>1. rec[o] # None /\ o \in active
    BY <1>10 DEF Cancel, WorkInv, Worker
  <2>2. /\ \A p \in Ops : p # o => disk'[p] = disk[p] /\ rec'[p] = rec[p]
        /\ \/ disk'[o] = disk[o]
           \/ disk'[o] # None /\ disk'[o].state = "canceling" /\ disk'[o].member = rec[o].member
        /\ \/ rec'[o] = rec[o]
           \/ rec'[o] # None /\ rec'[o].state = "canceling" /\ rec'[o].member = rec[o].member
        /\ UNCHANGED <<active, pc, failed, worked>>
    BY <1>10, <2>1, CancelFacts DEF history
  <2>3. pc[o] \in {"finish", "stopping"} => failed[o] \/ o \in worked
    BY <2>1 DEF SuccessInv, Earned
  <2> QED BY <2>1, <2>2, <2>3, SuccessStepOfOne
<1>11. ASSUME NEW o \in Ops, Age(o) PROVE SuccessInv'
  <2>1. UNCHANGED <<rec, disk, active, pc, failed, worked>>
    BY <1>11 DEF Age, manager, history
  <2> QED BY <2>1, SuccessStepOfQuiet
<1>12. CASE ListPage
  <2>1. PICK gone \in SUBSET aged :
           /\ worked' = worked \ gone
           /\ \A p \in Ops : rec'[p] = IF p \in gone THEN None ELSE rec[p]
           /\ \A p \in Ops : disk'[p] = IF p \in gone THEN None ELSE disk[p]
           /\ UNCHANGED <<active, pc, failed>>
    BY <1>12, ListPageFacts DEF ForgetEffect
  <2>2. \A p \in active : p \notin gone /\ p \in Ops
    BY DEF WorkInv, Worker, TypeInv
  <2>3. ASSUME NEW p \in Ops, p \notin gone, NEW x, x # None, x \in {rec[p], disk[p]} PROVE Faithful(p, x)
    BY <2>1, <2>3, SameReceipt
  <2>4. \A p \in Ops : rec'[p] # None => Faithful(p, rec'[p])
    BY <2>1, <2>3
  <2>5. \A p \in Ops : disk'[p] # None => Faithful(p, disk'[p])
    BY <2>1, <2>3
  <2>6. \A c \in Children : c \in worked \/ disk[c] = None => c \in worked' \/ disk'[c] = None
    BY <2>1, OpsFacts
  <2>7. \A p \in active' : /\ rec'[p].member = rec[p].member /\ disk'[p].member = disk[p].member
                           /\ pc'[p] \in {"finish", "stopping"} => failed'[p] \/ p \in worked'
    BY <2>1, <2>2 DEF SuccessInv, Earned
  <2> QED BY <2>1, <2>4, <2>5, <2>6, <2>7, SuccessStepOfRest
<1>13. CASE Close
  <2>1. UNCHANGED <<rec, disk, active, pc, failed, worked>>
    BY <1>13 DEF Close, history
  <2> QED BY <2>1, SuccessStepOfQuiet
<1>14. CASE Die
  <2>1. /\ UNCHANGED <<disk, worked>> /\ active' = {} /\ \A p \in Ops : rec'[p] = None
    BY <1>14 DEF Die, history
  <2> QED BY <2>1 DEF SuccessInv, Recorded, Earned, Waiting
<1>15. CASE Restart \/ Loaded \/ Recovered
  <2>1. UNCHANGED <<rec, disk, active, pc, failed, worked>>
    BY <1>15 DEF Restart, Loaded, Recovered, manager, history
  <2> QED BY <2>1, SuccessStepOfQuiet
<1>16. ASSUME NEW o \in Ops, Load(o) PROVE SuccessInv'
  <2>1. disk[o] # None /\ rec[o] = None /\ active = {}
    BY <1>16 DEF Load, WorkInv, Up
  <2>2. PICK how \in {"forgotten", "loaded", "stopped"} : LoadEffect(o, how)
    BY <1>16, <2>1, LoadFacts
  <2>3. /\ active' = {} /\ \A p \in Ops : p # o => disk'[p] = disk[p]
        /\ \A p \in Ops : rec'[p] = None \/ rec'[p] = rec[p] \/ (p = o /\ rec'[p] = disk'[o])
        /\ \/ disk'[o] = None /\ worked' = worked \ {o} /\ rec'[o] = None
           \/ /\ disk'[o] # None /\ disk'[o].member = disk[o].member /\ worked' = worked
              /\ disk'[o].state \in {disk[o].state, "interrupted"}
    BY <2>1, <2>2 DEF LoadEffect, ForgetEffect, Interrupted, history
  <2>4. ASSUME NEW p \in Ops, NEW x, x # None, x \in {rec'[p], disk'[p]} PROVE Faithful(p, x)
    <3>1. \E old \in {rec[p], disk[p]} : /\ old # None /\ x.member = old.member
                                         /\ x.state = old.state \/ x.state # "succeeded"
      BY <2>1, <2>3, <2>4
    <3>2. p \in worked => p \in worked'
      BY <2>1, <2>3, <2>4
    <3> QED BY <3>1, <3>2, SameReceipt
  <2>5. \A c \in Children : c \in worked \/ disk[c] = None => c \in worked' \/ disk'[c] = None
    BY <2>1, <2>3, OpsFacts
  <2>6. \A p \in Ops : rec'[p] # None => Faithful(p, rec'[p])
    BY <2>4
  <2>7. \A p \in Ops : disk'[p] # None => Faithful(p, disk'[p])
    BY <2>4
  <2> QED BY <2>1, <2>3, <2>5, <2>6, <2>7, SuccessStepOfRest
<1>17. ASSUME NEW o \in Ops, Project(o) PROVE SuccessInv'
  BY <1>17, SuccessStepOfProject
<1> QED BY <1>1, <1>2, <1>3, <1>4, <1>5, <1>6, <1>7, <1>8, <1>9, <1>10, <1>11, <1>12, <1>13, <1>14,
           <1>15, <1>16, <1>17, SMT
        DEF Next, Work, Recovery

-----------------------------------------------------------------------------
(* A finished batch agrees with its members.                               *)

LEMMA AgreeInit == Init => AgreeInv
<1>1. ASSUME Init PROVE /\ Roots \subseteq Ops /\ daemon = "up"
                        /\ \A o \in Ops : rec[o] = None /\ disk[o] = None
  BY <1>1, OpsFacts DEF Init
<1> QED BY <1>1 DEF AgreeInv, InStep, Closed

\* The receipts of a batch that is over are left alone, or removed.
LEMMA ClosedKept ==
  ASSUME TypeInv, \A b \in Roots : Closed(b) => Agrees(b), NEW b \in Roots,
         Closed(b), disk'[b] = disk[b],
         \A n \in Nodes : disk'[Child(b, n)] \in {disk[Child(b, n)], None}
  PROVE  Agrees(b)'
<1>1. Agrees(b)
  OBVIOUS
<1>2. \A n \in DOMAIN disk[b].member : n \in Nodes
  BY OpsFacts, ReceiptFacts DEF TypeInv, Closed
<1>3. ASSUME NEW n \in DOMAIN disk'[b].member, disk'[Child(b, n)] # None
      PROVE  /\ disk'[Child(b, n)].state \in Final /\ disk'[b].member[n] = disk'[Child(b, n)].state
  BY <1>1, <1>2, <1>3 DEF Agrees
<1> QED BY <1>3 DEF Agrees

LEMMA AgreeStepOfRest ==
  ASSUME TypeInv, AgreeInv, UNCHANGED plan,
         "disk" \notin plan.faults => InStep',
         "disk" \notin plan.faults => \A b \in Roots : Closed(b)' =>
            \/ Agrees(b)'
            \/ Closed(b) /\ disk'[b] = disk[b] /\ \A n \in Nodes : disk'[Child(b, n)] \in {disk[Child(b, n)], None}
  PROVE  AgreeInv'
<1>1. ASSUME "disk" \notin plan.faults, NEW b \in Roots, Closed(b)' PROVE Agrees(b)'
  BY <1>1, ClosedKept DEF AgreeInv
<1> QED BY <1>1 DEF AgreeInv

\* A batch whose member has a worker is not over.
LEMMA OpenRoot ==
  ASSUME TypeInv, WorkInv, NEW c \in active, c \in Children
  PROVE  c[1] \in active /\ disk[c[1]] # None /\ disk[c[1]].state \notin Final /\ c[1] # c
BY ChildParts, OpsFacts, SMT DEF WorkInv, Worker, Final, Unfinished

\* A step of a worker, which may end it.
LEMMA AgreeStepOfOne ==
  ASSUME TypeInv, Shape, WorkInv, AgreeInv, NEW o \in active, UNCHANGED <<plan, daemon, todo>>,
         \A p \in Ops : p # o => rec'[p] = rec[p] /\ disk'[p] = disk[p],
         rec'[o] # None, rec'[o].member = rec[o].member,
         rec'[o].state \in Unfinished \/ rec[o].member = NoMembers,
         "disk" \notin plan.faults => rec'[o] = disk'[o]
  PROVE  AgreeInv'
<1>1. o \in Ops /\ daemon \in Up
  BY DEF TypeInv, WorkInv
<1>2. ASSUME "disk" \notin plan.faults PROVE InStep'
  BY <1>1, <1>2 DEF AgreeInv, InStep, Up
<1>3. ASSUME "disk" \notin plan.faults, NEW b \in Roots, Closed(b)', ~Agrees(b)'
      PROVE  Closed(b) /\ disk'[b] = disk[b] /\ \A n \in Nodes : disk'[Child(b, n)] \in {disk[Child(b, n)], None}
  <2>1. b # o
    <3> SUFFICES ASSUME b = o PROVE FALSE
      OBVIOUS
    <3>1. disk'[b].member = NoMembers
      BY <1>3 DEF Closed, Final, Unfinished
    <3> QED BY <1>3, <3>1, EmptyTable DEF Agrees
  <2>2. b \in Ops /\ disk'[b] = disk[b] /\ Closed(b)
    BY <1>3, <2>1, OpsFacts DEF Closed
  <2>3. ASSUME NEW n \in Nodes PROVE Child(b, n) # o
    BY <2>2, ChildFacts, OpenRoot, SMT DEF Closed
  <2> QED BY <2>2, <2>3, ChildFacts
<1> QED BY <1>2, <1>3, AgreeStepOfRest

\* Steps that write nothing, while the daemon is up or stays what it is.
LEMMA AgreeStepOfQuiet ==
  ASSUME TypeInv, AgreeInv, UNCHANGED <<plan, rec, disk>>,
         UNCHANGED <<daemon, todo>> \/ (daemon \in Up /\ daemon' \in Up)
  PROVE  AgreeInv'
<1>1. ASSUME "disk" \notin plan.faults PROVE InStep'
  BY <1>1 DEF AgreeInv, InStep, Up
<1>2. \A b \in Roots : Closed(b)' => Closed(b)
  BY DEF Closed
<1> QED BY <1>1, <1>2, AgreeStepOfRest

\* Receipts that are forgotten, and a new one.
LEMMA AgreeStepOfForget ==
  ASSUME TypeInv, AgreeInv, UNCHANGED plan, daemon \in Up, daemon' = daemon,
         NEW gone, NEW new \in SUBSET Ids,
         "disk" \notin plan.faults =>
           \A p \in Ops : IF p \in new THEN /\ rec'[p] = disk'[p] /\ disk'[p] # None
                                            /\ disk'[p].state \in Unfinished
                          ELSE IF p \in gone THEN rec'[p] = None /\ disk'[p] = None
                          ELSE rec'[p] = rec[p] /\ disk'[p] = disk[p]
  PROVE  AgreeInv'
<1>1. ASSUME "disk" \notin plan.faults PROVE InStep'
  BY <1>1 DEF AgreeInv, InStep, Up
<1>2. ASSUME "disk" \notin plan.faults, NEW b \in Roots, Closed(b)'
      PROVE  Closed(b) /\ disk'[b] = disk[b] /\ \A n \in Nodes : disk'[Child(b, n)] \in {disk[Child(b, n)], None}
  <2>1. b \in Ops /\ b \notin new /\ b \notin gone
    BY <1>2, OpsFacts DEF Closed, Final, Unfinished
  <2>2. disk'[b] = disk[b] /\ Closed(b)
    BY <1>2, <2>1 DEF Closed
  <2>3. \A n \in Nodes : Child(b, n) \in Ops /\ Child(b, n) \notin new
    BY ChildFacts
  <2> QED BY <1>2, <2>2, <2>3
<1> QED BY <1>1, <1>2, AgreeStepOfRest

LEMMA AgreeStepOfTurn ==
  ASSUME TypeInv, Shape, WorkInv, AgreeInv, UNCHANGED plan, NEW b \in Ops, Turn(b)
  PROVE  AgreeInv'
<1>1. /\ pc[b] = "batch" /\ rec[b] # None /\ rec[b].member # NoMembers /\ b \in active /\ daemon \in Up
      /\ rec[b].state \notin Final
  BY WorkerFacts DEF Turn, Final, Unfinished
<1>2. PICK starts, unsaved, torn \in SUBSET Nodes, done, saved \in BOOLEAN,
           members \in [DOMAIN rec[b].member -> MemberStates] :
        /\ TurnChoice(b, starts, unsaved, torn, members)
        /\ TurnEffect(b, starts, torn, members, done, saved)
  BY <1>1, TurnFacts
<1>3. /\ b \in Roots /\ b \notin Children /\ \A n \in starts : FreshChild(b, n)
      /\ DOMAIN rec[b].member \subseteq Nodes
      /\ starts # {} => ~Over(b, members)
  <2>1. pc[b] = "batch" /\ TurnChoice(b, starts, unsaved, torn, members)
    BY <1>1, <1>2
  <2>2. /\ b \in Roots /\ b \notin Children /\ DOMAIN rec[b].member \subseteq Nodes
        /\ \A n \in starts \cup torn : FreshChild(b, n)
        /\ starts # {} => ~Over(b, members)
    BY <2>1, TurnChildren
  <2> QED BY <2>2
<1>4. ASSUME "disk" \notin plan.faults
      PROVE  /\ torn = {} /\ rec'[b] = disk'[b] /\ disk'[b] # None /\ disk'[b].member = members
             /\ \A n \in starts : rec'[Child(b, n)] = disk'[Child(b, n)] /\ disk'[Child(b, n)] # None
             /\ \A o \in Ops : o # b /\ o \notin Begun(b, starts) => rec'[o] = rec[o] /\ disk'[o] = disk[o]
             /\ UNCHANGED daemon
             /\ disk'[b].state \in Final => Over(b, members)
  <2>1. saved /\ torn = {} /\ starts \cup torn = starts
    BY <1>2, <1>4 DEF TurnChoice, TurnEffect
  <2>2. \A n \in starts : NewKid(b, n) # None
    BY <1>3 DEF FreshChild
  <2> QED BY <1>1, <1>2, <2>1, <2>2, SMT DEF TurnEffect
<1>5. ASSUME "disk" \notin plan.faults PROVE InStep'
  <2>1. \A o \in Ops : rec'[o] # None => rec'[o] = disk'[o]
    BY <1>4, <1>5 DEF AgreeInv, InStep, Begun
  <2>2. \A o \in Ops : disk'[o] # None => rec'[o] # None
    BY <1>1, <1>4, <1>5 DEF AgreeInv, InStep, Begun, Up
  <2> QED BY <1>1, <1>4, <1>5, <2>1, <2>2 DEF InStep, Up
<1>6. ASSUME "disk" \notin plan.faults, Closed(b)' PROVE Agrees(b)'
  <2>1. Over(b, members) /\ starts = {}
    BY <1>3, <1>4, <1>6 DEF Closed
  <2>2. ASSUME NEW n \in DOMAIN rec[b].member, disk'[Child(b, n)] # None
        PROVE  disk'[Child(b, n)].state \in Final /\ members[n] = disk'[Child(b, n)].state
    <3>1. n \in Nodes /\ Child(b, n) \in Ops /\ Child(b, n) # b /\ Child(b, n) \notin Begun(b, starts)
      BY <1>3, <2>1, ChildFacts DEF Begun
    <3>2. disk'[Child(b, n)] = disk[Child(b, n)]
      BY <1>4, <1>6, <3>1
    <3>3. rec[Child(b, n)] # None /\ rec[Child(b, n)] = disk[Child(b, n)]
      BY <1>1, <1>6, <2>2, <3>1, <3>2 DEF AgreeInv, InStep, Up
    <3>4. unsaved = {}
      BY <1>2, <1>6 DEF TurnChoice
    <3>5. members[n] = Member(b, n)
      BY <1>2, <2>1, <3>4 DEF TurnChoice
    <3>6. Member(b, n) = rec[Child(b, n)].state
      BY <1>1, <1>3, <3>3, MemberType
    <3> QED BY <2>1, <3>2, <3>3, <3>5, <3>6 DEF Over
  <2>3. DOMAIN disk'[b].member = DOMAIN rec[b].member
    BY <1>2, <1>4, <1>6
  <2> QED BY <1>4, <1>6, <2>2, <2>3 DEF Agrees
<1>7. ASSUME "disk" \notin plan.faults, NEW a \in Roots, a # b, Closed(a)'
      PROVE  Closed(a) /\ disk'[a] = disk[a] /\ \A n \in Nodes : disk'[Child(a, n)] \in {disk[Child(a, n)], None}
  <2>1. a \in Ops /\ a \notin Begun(b, starts)
    BY <1>3, OpsFacts, SMT DEF Begun, FreshChild
  <2>2. disk'[a] = disk[a] /\ Closed(a)
    BY <1>1, <1>4, <1>7, <2>1 DEF Closed
  <2>3. ASSUME NEW n \in Nodes PROVE disk'[Child(a, n)] = disk[Child(a, n)]
    <3>1. Child(a, n) \in Ops /\ Child(a, n) # b /\ Child(a, n) \notin Begun(b, starts)
      BY <1>3, <1>7, ChildFacts, SMT DEF Begun, Child
    <3> QED BY <1>4, <1>7, <3>1
  <2> QED BY <2>2, <2>3
<1> QED BY <1>5, <1>6, <1>7, AgreeStepOfRest

LEMMA AgreeStepOfLoad ==
  ASSUME TypeInv, Shape, WorkInv, AgreeInv, UNCHANGED plan, NEW o \in Ops, Load(o)
  PROVE  AgreeInv'
<1>1. daemon = "loading" /\ o \in todo /\ disk[o] # None /\ rec[o] = None /\ disk[o] \in Receipts
  BY DEF Load, WorkInv, TypeInv
<1>2. PICK how \in {"forgotten", "loaded", "stopped"} : LoadEffect(o, how)
  BY <1>1, LoadFacts
<1>3. Interrupted(disk[o]) \in Final
  BY <1>1, ReceiptFacts DEF Interrupted, Final, Unfinished
<1>4. ASSUME "disk" \notin plan.faults
      PROVE  /\ \A p \in Ops : p # o => disk'[p] = disk[p] /\ rec'[p] = rec[p]
             /\ todo' = todo \ {o} /\ daemon' = daemon /\ rec'[o] = disk'[o]
             /\ disk'[o] # None => /\ disk'[o].state = Interrupted(disk[o])
                                   /\ disk'[o].request = disk[o].request /\ disk'[o].member = disk[o].member
  <2>1. CASE how = "forgotten"
    BY <1>1, <1>2, <2>1 DEF LoadEffect
  <2>2. CASE how = "loaded"
    BY <1>2, <2>2 DEF LoadEffect
  <2> QED BY <1>2, <1>4, <2>1, <2>2 DEF LoadEffect
<1>5. ASSUME "disk" \notin plan.faults PROVE InStep'
  <2>1. \A p \in Ops : rec'[p] # None => rec'[p] = disk'[p]
    BY <1>4, <1>5 DEF AgreeInv, InStep
  <2>2. \A p \in Ops : disk'[p] # None => rec'[p] # None \/ p \in todo'
    BY <1>1, <1>4, <1>5 DEF AgreeInv, InStep
  <2>3. \A p \in Ops : rec'[p] # None => rec'[p].state \in Final
    BY <1>1, <1>3, <1>4, <1>5 DEF AgreeInv, InStep
  <2> QED BY <1>1, <1>4, <1>5, <2>1, <2>2, <2>3 DEF InStep
<1>6. ASSUME "disk" \notin plan.faults, NEW b \in Roots, Closed(b)' PROVE Agrees(b)'
  <2>1. b \in Ops /\ disk'[b] # None /\ disk'[b].state # "interrupted" /\ disk'[b].state \in Final
    BY <1>1, <1>4, <1>6, OpsFacts DEF Closed, Up
  <2>2. disk[b] # None /\ disk[b].state = disk'[b].state /\ disk[b].member = disk'[b].member
    BY <1>1, <1>4, <1>6, <2>1 DEF Interrupted
  <2>3. Agrees(b)
    BY <1>6, <2>1, <2>2 DEF AgreeInv, Closed
  <2>4. ASSUME NEW n \in DOMAIN disk[b].member, disk'[Child(b, n)] # None
        PROVE  disk'[Child(b, n)].state \in Final /\ disk[b].member[n] = disk'[Child(b, n)].state
    <3>1. Child(b, n) \in Ops
      BY <2>1, <2>2, ReceiptFacts, ChildFacts, SMT DEF TypeInv
    <3>2. disk[Child(b, n)] # None /\ disk[Child(b, n)].state \in Final
          /\ disk[b].member[n] = disk[Child(b, n)].state
      BY <1>1, <1>4, <1>6, <2>3, <2>4, <3>1 DEF Agrees
    <3>3. disk'[Child(b, n)].state = disk[Child(b, n)].state
      BY <1>4, <1>6, <2>4, <3>1, <3>2 DEF Interrupted, Final, Unfinished
    <3> QED BY <3>2, <3>3
  <2> QED BY <2>2, <2>4 DEF Agrees
<1> QED BY <1>5, <1>6, AgreeStepOfRest

LEMMA AgreeStepOfProject ==
  ASSUME TypeInv, Shape, WorkInv, AgreeInv, UNCHANGED plan, NEW b \in Ops, Project(b)
  PROVE  AgreeInv'
<1>1. /\ daemon = "projecting" /\ b \in todo /\ b \in Roots /\ rec[b] # None /\ rec[b].member # NoMembers
      /\ rec[b].state = "interrupted" /\ rec[b] \in Receipts
  BY OpsFacts DEF Project, WorkInv, TypeInv
<1>2. PICK members \in [DOMAIN rec[b].member -> Final \cup Unfinished], saved \in BOOLEAN :
        ProjectEffect(b, members, saved)
  BY <1>1, ProjectFacts
<1>3. ASSUME "disk" \notin plan.faults
      PROVE  /\ \A p \in Ops : p # b => disk'[p] = disk[p] /\ rec'[p] = rec[p]
             /\ rec'[b] = disk'[b] /\ disk'[b] # None /\ disk'[b].state = "interrupted"
             /\ disk'[b].member = members /\ todo' = todo \ {b} /\ daemon' = daemon
             /\ \A n \in DOMAIN rec[b].member : members[n] = Projected(b, n)
  BY <1>1, <1>2, <1>3 DEF ProjectEffect
<1>4. ASSUME "disk" \notin plan.faults PROVE InStep'
  BY <1>1, <1>3, <1>4 DEF AgreeInv, InStep, Final
<1>5. ASSUME "disk" \notin plan.faults PROVE Agrees(b)'
  <2>1. ASSUME NEW n \in DOMAIN rec[b].member, disk'[Child(b, n)] # None
        PROVE  disk'[Child(b, n)].state \in Final /\ members[n] = disk'[Child(b, n)].state
    <3>1. Child(b, n) \in Ops /\ Child(b, n) # b
      BY <1>1, ReceiptFacts, ChildFacts
    <3>2. disk'[Child(b, n)] = disk[Child(b, n)]
      BY <1>3, <1>5, <3>1
    <3>3. /\ rec[Child(b, n)] # None /\ rec[Child(b, n)] = disk[Child(b, n)]
          /\ rec[Child(b, n)].state \in Final
      BY <1>1, <1>5, <2>1, <3>1, <3>2 DEF AgreeInv, InStep
    <3> QED BY <1>3, <1>5, <3>2, <3>3 DEF Projected
  <2>2. DOMAIN disk'[b].member = DOMAIN rec[b].member
    BY <1>2, <1>3, <1>5
  <2> QED BY <1>3, <1>5, <2>1, <2>2 DEF Agrees
<1>6. ASSUME "disk" \notin plan.faults, NEW a \in Roots, a # b, Closed(a)'
      PROVE  Closed(a) /\ disk'[a] = disk[a] /\ \A n \in Nodes : disk'[Child(a, n)] \in {disk[Child(a, n)], None}
  <2>1. disk'[a] = disk[a] /\ Closed(a)
    BY <1>1, <1>3, <1>6, OpsFacts DEF Closed, Up
  <2>2. \A n \in Nodes : Child(a, n) \in Ops /\ Child(a, n) # b
    BY <1>1, ChildFacts, OpsFacts, SMT
  <2> QED BY <1>3, <1>6, <2>1, <2>2
<1> QED BY <1>4, <1>5, <1>6, AgreeStepOfRest

LEMMA AgreeStep ==
  ASSUME TypeInv, Shape, WorkInv, CancelInv, AgreeInv, Next
  PROVE  AgreeInv'
<1>0. UNCHANGED plan
  BY DEF Next
<1>1. ASSUME NEW h \in Handlers, Admit(h) PROVE AgreeInv'
  <2> DEFINE r == sub[h].request
             o == r.id
  <2>1. PICK gone \in SUBSET aged, answered, torn, begun \in BOOLEAN :
          /\ AdmitChoice(r, sub[h].node, gone, answered, torn, begun)
          /\ AdmitEffect(r, sub[h].node, gone, answered, torn, begun)
    BY <1>1, AdmitFacts
  <2>2. o \in Ids /\ sub[h] # None
    BY <1>1, AdmitFacts, OpsFacts DEF Submissions, Admit
  <2> DEFINE new == IF begun THEN {o} ELSE {}
  <2>3. new \subseteq Ids /\ daemon \in Up /\ daemon' = daemon
    BY <2>1, <2>2 DEF AdmitEffect, WorkInv
  <2>4. NewReceiptOf(r).state \in Unfinished
    BY DEF NewReceiptOf, Receipt, Unfinished
  <2>5. NewReceiptOf(r) # None
    BY <2>2, <1>1, AdmitFacts, NewReceipt, NoneAssumption DEF Submissions, NewReceiptOf
  <2>6. ASSUME "disk" \notin plan.faults, NEW p \in Ops
        PROVE  IF p \in new THEN rec'[p] = disk'[p] /\ disk'[p] # None /\ disk'[p].state \in Unfinished
               ELSE IF p \in gone THEN rec'[p] = None /\ disk'[p] = None
               ELSE rec'[p] = rec[p] /\ disk'[p] = disk[p]
    <3>1. ~torn
      BY <2>1, <2>6 DEF AdmitChoice
    <3>2. /\ rec'[p] = IF begun /\ p = o THEN NewReceiptOf(r) ELSE IF p \in gone THEN None ELSE rec[p]
          /\ disk'[p] = IF begun /\ p = o THEN NewReceiptOf(r) ELSE IF p \in gone THEN None ELSE disk[p]
      BY <2>1, <3>1 DEF AdmitEffect
    <3> QED BY <2>4, <2>5, <3>2
  <2> HIDE DEF new
  <2> QED BY <1>0, <2>3, <2>6, AgreeStepOfForget
<1>2. ASSUME NEW h \in Handlers, NEW r \in plan.requests, Submit(h, r) PROVE AgreeInv'
  <2>1. UNCHANGED <<daemon, disk, rec, todo>>
    BY <1>2, SubmitFacts DEF manager
  <2> QED BY <1>0, <2>1, AgreeStepOfQuiet
<1>3. ASSUME NEW o \in Ops, FirstPhase(o) \/ Prepare(o) PROVE AgreeInv'
  <2>1. pc[o] \in {"phase", "prepare"} /\ UNCHANGED <<rec, daemon, todo>>
    BY <1>3 DEF FirstPhase, Prepare
  <2>2. PICK next \in {"call", "boot"} : Advance(o, next)
    BY <1>3 DEF FirstPhase, Prepare
  <2>3. rec[o] # None /\ next \in Labels /\ o \in active /\ rec[o].state \in Unfinished
    BY <2>1, WorkerFacts DEF Labels
  <2>4. /\ \A p \in Ops : p # o => disk'[p] = disk[p]
        /\ disk'[o] = disk[o] \/ disk'[o] = rec[o]
    BY <2>2, <2>3, AdvanceFacts
  <2>5. "disk" \notin plan.faults => rec'[o] = disk'[o]
    BY <2>1, <2>3, <2>4 DEF AgreeInv, InStep
  <2> QED BY <1>0, <2>1, <2>3, <2>4, <2>5, AgreeStepOfOne
<1>4. ASSUME NEW o \in Ops, Call(o) \/ Create(o) \/ Boot(o) \/ FlushFails(o) PROVE AgreeInv'
  <2>1. UNCHANGED <<daemon, disk, rec, todo>>
    BY <1>4 DEF Call, Create, Boot, FlushFails
  <2> QED BY <1>0, <2>1, AgreeStepOfQuiet
<1>5. ASSUME NEW o \in Ops, Bind(o) PROVE AgreeInv'
  <2>1. rec[o] # None /\ target[o] \in Nodes /\ o \in active /\ rec[o].state \in Unfinished
    BY <1>5, WorkerFacts DEF Bind, CancelInv, Stoppable
  <2>2. /\ \A p \in Ops : p # o => disk'[p] = disk[p]
        /\ disk'[o] = disk[o] \/ disk'[o] = rec[o]
        /\ UNCHANGED <<rec, daemon, todo>>
    BY <1>5, <2>1, BindFacts
  <2>3. "disk" \notin plan.faults => rec'[o] = disk'[o]
    BY <2>1, <2>2 DEF AgreeInv, InStep
  <2> QED BY <1>0, <2>1, <2>2, <2>3, AgreeStepOfOne
<1>6. ASSUME NEW o \in Ops, Finish(o) \/ StopVM(o) PROVE AgreeInv'
  <2>1. pc[o] \in {"finish", "stopping"} /\ failed[o] \in BOOLEAN
    BY <1>6 DEF Finish, StopVM, TypeInv
  <2>2. o \in active /\ rec[o] # None /\ rec[o].member = NoMembers
    BY <2>1, WorkerFacts
  <2>3. CASE UNCHANGED <<daemon, disk, rec, todo>>
    BY <1>0, <2>3, AgreeStepOfQuiet
  <2>4. ASSUME NEW err \in BOOLEAN, NEW stopped \in BOOLEAN, Settle(o, err, stopped)
        PROVE  AgreeInv'
    <3>1. /\ \A p \in Ops : p # o => disk'[p] = disk[p] /\ rec'[p] = rec[p]
          /\ rec'[o] # None /\ rec'[o].member = rec[o].member
          /\ "disk" \notin plan.faults => rec'[o] = disk'[o]
      BY <2>2, <2>4, SettleFacts
    <3>2. UNCHANGED <<daemon, todo>>
      BY <2>4 DEF Settle
    <3> QED BY <1>0, <2>2, <3>1, <3>2, AgreeStepOfOne
  <2> QED BY <1>6, <2>1, <2>3, <2>4 DEF Finish, StopVM
<1>7. ASSUME NEW b \in Ops, Turn(b) PROVE AgreeInv'
  BY <1>0, <1>7, AgreeStepOfTurn
<1>8. ASSUME NEW o \in Ops, Cancel(o) PROVE AgreeInv'
  <2>1. rec[o] # None /\ o \in active /\ rec[o].state \in Unfinished
    BY <1>8 DEF Cancel, WorkInv, Worker
  <2>2. /\ \A p \in Ops : p # o => disk'[p] = disk[p] /\ rec'[p] = rec[p]
        /\ rec'[o] # None /\ rec'[o].member = rec[o].member /\ rec'[o].state \in Unfinished
        /\ "disk" \notin plan.faults => rec'[o] = disk'[o]
        /\ UNCHANGED <<daemon, todo>>
    BY <1>8, <2>1, CancelFacts DEF Unfinished
  <2> QED BY <1>0, <2>1, <2>2, AgreeStepOfOne
<1>9. ASSUME NEW o \in Ops, Age(o) PROVE AgreeInv'
  <2>1. UNCHANGED <<daemon, disk, rec, todo>>
    BY <1>9 DEF Age, manager
  <2> QED BY <1>0, <2>1, AgreeStepOfQuiet
<1>10. CASE ListPage
  <2>1. PICK gone \in SUBSET aged :
           /\ \A p \in Ops : rec'[p] = IF p \in gone THEN None ELSE rec[p]
           /\ \A p \in Ops : disk'[p] = IF p \in gone THEN None ELSE disk[p]
           /\ daemon \in Up /\ daemon' = daemon
    BY <1>10, ListPageFacts
  <2> DEFINE new == {}
  <2>2. new \in SUBSET Ids /\ \A p \in Ops : p \notin new
    OBVIOUS
  <2> HIDE DEF new
  <2> QED BY <1>0, <2>1, <2>2, AgreeStepOfForget
<1>11. CASE Close
  <2>1. UNCHANGED <<disk, rec>> /\ daemon \in Up /\ daemon' \in Up
    BY <1>11 DEF Close, Up
  <2> QED BY <1>0, <2>1, AgreeStepOfQuiet
<1>12. CASE Die
  <2>1. disk' = disk /\ daemon' = "down" /\ \A p \in Ops : rec'[p] = None
    BY <1>12 DEF Die
  <2>2. InStep'
    BY <2>1 DEF InStep
  <2>3. \A b \in Roots : Closed(b)' => Closed(b)
    BY <2>1 DEF Closed, Up
  <2> QED BY <1>0, <2>1, <2>2, <2>3, AgreeStepOfRest
<1>13. CASE Restart
  <2>1. UNCHANGED <<disk, rec>> /\ daemon = "down" /\ daemon' = "loading" /\ todo' = {o \in Ops : disk[o] # None}
    BY <1>13 DEF Restart, manager
  <2>2. InStep'
    BY <2>1 DEF InStep, WorkInv
  <2>3. \A b \in Roots : Closed(b)' => Closed(b)
    BY <2>1 DEF Closed, Up
  <2> QED BY <1>0, <2>1, <2>2, <2>3, AgreeStepOfRest
<1>14. CASE Loaded
  <2>1. /\ UNCHANGED <<disk, rec>> /\ daemon = "loading" /\ todo = {} /\ daemon' = "projecting"
        /\ todo' = {b \in Roots : rec[b] # None /\ rec[b].member # NoMembers /\ rec[b].state = "interrupted"}
    BY <1>14 DEF Loaded, manager
  <2>2. ASSUME "disk" \notin plan.faults PROVE InStep'
    BY <2>1, <2>2 DEF AgreeInv, InStep
  <2>3. ASSUME "disk" \notin plan.faults, NEW b \in Roots, Closed(b)', ~Closed(b) PROVE Agrees(b)'
    <3>1. b \in Ops /\ disk[b] # None /\ disk[b].state = "interrupted" /\ b \notin todo'
      BY <2>1, <2>3, OpsFacts DEF Closed, Up
    <3>2. disk[b].member = NoMembers
      BY <2>1, <2>3, <3>1 DEF AgreeInv, InStep
    <3> QED BY <2>1, <3>2, EmptyTable DEF Agrees
  <2> QED BY <1>0, <2>1, <2>2, <2>3, AgreeStepOfRest
<1>15. CASE Recovered
  <2>1. UNCHANGED <<disk, rec>> /\ daemon = "projecting" /\ todo = {} /\ daemon' = "up"
    BY <1>15 DEF Recovered, manager
  <2>2. ASSUME "disk" \notin plan.faults PROVE InStep'
    BY <2>1, <2>2 DEF AgreeInv, InStep
  <2>3. \A b \in Roots : Closed(b)' => Closed(b)
    BY <2>1 DEF Closed
  <2> QED BY <1>0, <2>1, <2>2, <2>3, AgreeStepOfRest
<1>16. ASSUME NEW o \in Ops, Load(o) PROVE AgreeInv'
  BY <1>0, <1>16, AgreeStepOfLoad
<1>17. ASSUME NEW o \in Ops, Project(o) PROVE AgreeInv'
  BY <1>0, <1>17, AgreeStepOfProject
<1> QED BY <1>1, <1>2, <1>3, <1>4, <1>5, <1>6, <1>7, <1>8, <1>9, <1>10, <1>11, <1>12, <1>13, <1>14,
           <1>15, <1>16, <1>17
        DEF Next, Work, Recovery
=============================================================================

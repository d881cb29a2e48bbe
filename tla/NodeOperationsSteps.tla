------------------------ MODULE NodeOperationsSteps -------------------------
(***************************************************************************)
(* What each step of the daemon's operations does to the state, with its   *)
(* choices named, and the invariant the proofs about operations rest on.   *)
(* Every step keeps the types, and what is known of workers, their receipts *)
(* and the work they began: for every set of nodes, requests, connections  *)
(* and faults.                                                             *)
(***************************************************************************)
EXTENDS NodeOperations, TLAPS

\* Few leaves need arithmetic; those that do, or that Zenon is slow on, cite SMT.
USE ZenonT(30)

Up == {"up", "closed"}
Labels == {"idle", "batch", "phase", "call", "bind", "prepare", "boot", "finish", "stopping"}
Keys == ({"node"} \X Nodes) \cup ({"slug"} \X Slugs)

\* A request whose name is resolved: to a node of that name, unless it is about none.
Submissions ==
  {s \in [request : Requests, node : Nodes \cup {None}] :
     IF s.request.kind \in {"batch", "create"} THEN s.node = None
     ELSE s.node \in Nodes /\ SlugOf[s.node] = s.request.slug}

TypeInv ==
  /\ plan \in Plans
  /\ node \in [Nodes -> NodeStates]
  /\ daemon \in Up \cup {"down", "loading", "projecting"}
  /\ disk \in [Ops -> Receipts \cup {None}]
  /\ rec \in [Ops -> Receipts \cup {None}]
  /\ active \subseteq Ops
  /\ cause \in [Ops -> {"canceled", "closed", "output", None}]
  /\ keys \in [Ops -> SUBSET Keys]
  /\ pc \in [Ops -> Labels]
  /\ target \in [Ops -> Nodes \cup {None}]
  /\ cleanup \in [Ops -> Nodes \cup {None}]
  /\ failed \in [Ops -> BOOLEAN]
  /\ sub \in [Handlers -> Submissions \cup {None}]
  /\ todo \subseteq Ops /\ aged \subseteq Ops
  /\ ran \in [Ops -> Nat] /\ acked \subseteq Ops /\ worked \subseteq Ops

\* A receipt is of its own id; only a root has members, those its request names.
Proper(o, receipt) ==
  /\ receipt.request.id = o
  /\ o \in Ids => receipt.request \in Requests
  /\ o \in Children => receipt.request.kind \in SingleKinds
  /\ (receipt.request.kind = "batch") <=> (receipt.member # NoMembers)
  /\ receipt.request.kind = "batch" => DOMAIN receipt.member = DOMAIN receipt.request.targets
Shape == \A o \in Ops : /\ rec[o] # None => Proper(o, rec[o])
                        /\ disk[o] # None => Proper(o, disk[o])

\* The manager has, or is about to load, the receipt of o.
Known(o) ==
  /\ disk[o] # None
  /\ daemon \in Up \cup {"projecting"} => rec[o] # None
  /\ daemon = "loading" => rec[o] # None \/ o \in todo
\* What makes a receipt indispensable: somebody relies on it.
Relied(o) == \/ o \in acked \/ ran[o] > 0 \/ o \in aged \/ rec[o] # None
             \/ disk[o] # None /\ disk[o].state \in Final

\* A worker, and what is saved of it.
Worker(o) ==
  /\ rec[o] # None /\ rec[o].state \in Unfinished
  /\ disk[o] # None /\ disk[o].state \in Unfinished
  /\ o \notin aged
  /\ (pc[o] = "batch") <=> (rec[o].member # NoMembers)
  /\ pc[o] \in {"phase", "call"} => ran[o] = 0
  /\ o \in Children => o[1] \in active /\ o[2] \in DOMAIN rec[o[1]].member
WorkInv ==
  /\ \A o \in Ops : o \in active <=> pc[o] # "idle"
  /\ \A o \in active : Worker(o)
  /\ active # {} => daemon \in Up
  /\ \A h \in Handlers : sub[h] # None => daemon \in Up
  /\ \A o \in Ops : ran[o] <= 1
  /\ \A o \in Ops : Relied(o) => Known(o)
  /\ daemon = "down" => \A o \in Ops : rec[o] = None
  /\ daemon = "loading" => \A o \in todo : rec[o] = None /\ disk[o] # None
  /\ daemon \in {"loading", "projecting"} => \A o \in Ops : rec[o] # None => rec[o] = disk[o]
  /\ daemon = "projecting" => \A b \in todo : /\ b \in Roots /\ rec[b] # None
                                                   /\ rec[b].member # NoMembers
                                                   /\ rec[b].state = "interrupted"

\* Roots and single operations reserve disjoint keys; who works on a node has
\* its name, and who has a node has its name too.
Reserves(o) ==
  /\ \A n \in Nodes : <<"node", n>> \in keys[o] => <<"slug", SlugOf[n]>> \in keys[o]
  /\ target[o] # None => <<"slug", SlugOf[target[o]]>> \in keys[o]
  /\ rec[o].request.kind = "create" => <<"slug", rec[o].request.slug>> \in keys[o]
  /\ rec[o].request.kind = "clone" => <<"slug", rec[o].request.child>> \in keys[o]
  /\ \A n \in DOMAIN rec[o].member : <<"slug", SlugOf[n]>> \in keys[o]
KeyInv ==
  /\ \A o, p \in active \ Children : o # p => keys[o] \cap keys[p] = {}
  /\ \A o \in active \ Children : Reserves(o)
  /\ \A c \in active \cap Children : target[c] = c[2]

\* A success on record is one, of the operation and of each member.
Truthful(o, receipt, done, files) ==
  /\ receipt.state = "succeeded" => IF receipt.member = NoMembers THEN o \in done
                                    ELSE \A n \in DOMAIN receipt.member : receipt.member[n] = "succeeded"
  /\ \A n \in DOMAIN receipt.member :
       receipt.member[n] = "succeeded" => Child(o, n) \in done \/ files[Child(o, n)] = None
\* A worker that is done and has no error has worked, and a member that waits
\* is not on disk as one that succeeded.
Earned == \A o \in active : pc[o] \in {"finish", "stopping"} => failed[o] \/ o \in worked
Recorded == \A o \in Ops : /\ rec[o] # None => Truthful(o, rec[o], worked, disk)
                           /\ disk[o] # None => Truthful(o, disk[o], worked, disk)
Waiting == \A b \in active : \A n \in DOMAIN rec[b].member \cap DOMAIN disk[b].member :
             rec[b].member[n] = "queued" => disk[b].member[n] # "succeeded"
SuccessInv == Earned /\ Recorded /\ Waiting

\* The VM a worker may have started is the one its cancel stops.
Stoppable(o) ==
  LET r == rec[o].request IN
  /\ r.kind = "start" => cleanup[o] = target[o] /\ target[o] \in Nodes
  /\ r.kind \in {"create", "clone"} => cleanup[o] \in {None, target[o]}
  /\ pc[o] \in {"phase", "call", "bind"} /\ r.kind \in {"create", "clone"} => cleanup[o] = None
  /\ pc[o] \in {"bind", "prepare", "boot"} => r.kind \in {"create", "clone"} /\ target[o] \in Nodes
  /\ pc[o] \in {"prepare", "boot"} => cleanup[o] = target[o]
  /\ pc[o] \in {"phase", "call"} /\ r.kind = "create" => target[o] = None
  /\ r.kind = "clone" => target[o] \in Nodes
  /\ pc[o] \in {"phase", "call"} /\ r.kind = "clone" => SlugOf[target[o]] = r.slug
  /\ StartsNode(o) /\ cleanup[o] = None => node[target[o]] # "running"
  /\ pc[o] = "stopping" => cause[o] = "canceled" /\ cleanup[o] # None
CancelInv == \A o \in active : Stoppable(o)

\* Without faults of the disk, memory and disk agree, and a finished batch
\* agrees with its members on disk; an interrupted one, once it is projected.
InStep ==
  /\ \A o \in Ops : rec[o] # None => rec[o] = disk[o]
  /\ \A o \in Ops : disk[o] # None =>
       rec[o] # None \/ daemon = "down" \/ (daemon = "loading" /\ o \in todo)
  /\ daemon \in {"loading", "projecting"} => \A o \in Ops : rec[o] # None => rec[o].state \in Final
Closed(b) ==
  /\ disk[b] # None /\ disk[b].state \in Final
  /\ disk[b].state = "interrupted" => daemon \in Up \/ (daemon = "projecting" /\ b \notin todo)
Agrees(b) ==
  \A n \in DOMAIN disk[b].member :
    disk[Child(b, n)] # None => /\ disk[Child(b, n)].state \in Final
                                /\ disk[b].member[n] = disk[Child(b, n)].state
AgreeInv == "disk" \notin plan.faults => InStep /\ \A b \in Roots : Closed(b) => Agrees(b)

IInv == TypeInv /\ Shape /\ WorkInv /\ KeyInv /\ SuccessInv /\ CancelInv /\ WithinLimits /\ AgreeInv

-----------------------------------------------------------------------------
(* Requests, receipts and the ids they go by.                              *)

\* Roots are ids, children are pairs of a root and a node, and no id is a child.
LEMMA OpsFacts ==
  /\ Ids \subseteq Ops /\ Children \subseteq Ops /\ Roots \subseteq Ids
  /\ \A o \in Ids : o \notin Children
  /\ \A o \in Ops : o \in Ids \/ o \in Children
  /\ \A r \in Requests : r.id \in Ids
  /\ \A p \in Plans : p.requests \subseteq Requests
BY RequestsAssumption DEF Ops, Ids, Children, Roots, Requests

LEMMA ChildFacts ==
  ASSUME NEW b \in Roots, NEW n \in Nodes
  PROVE  /\ Child(b, n) \in Children /\ Child(b, n) \in Ops /\ Child(b, n) \notin Ids
         /\ Child(b, n)[1] = b /\ Child(b, n)[2] = n /\ Child(b, n) # b
BY OpsFacts DEF Child, Children

LEMMA ChildParts ==
  ASSUME NEW c \in Children
  PROVE  c[1] \in Roots /\ c[2] \in Nodes /\ c = Child(c[1], c[2]) /\ c \in Ops /\ c \notin Ids
BY OpsFacts, SMT DEF Child, Children

\* The table of no members is empty, and no other table is.
LEMMA EmptyTable ==
  /\ DOMAIN NoMembers = {}
  /\ \A f : f = [n \in DOMAIN NoMembers |-> "queued"] => f = NoMembers
BY SMT DEF NoMembers

LEMMA TableDomain ==
  ASSUME NEW S, NEW f \in Tables(S)
  PROVE  /\ DOMAIN f \subseteq Nodes /\ DOMAIN f # {} /\ f # NoMembers
         /\ f = [n \in DOMAIN f |-> f[n]] /\ \A n \in DOMAIN f : f[n] \in S
BY EmptyTable DEF Tables

LEMMA MakeTable ==
  ASSUME NEW S, NEW T \in SUBSET Nodes, T # {}, NEW f \in [T -> S]
  PROVE  f \in Tables(S)
BY DEF Tables

-----------------------------------------------------------------------------
(* Receipts.                                                               *)

\* What a receipt is made of.
LEMMA ReceiptFacts ==
  ASSUME NEW x \in Receipts
  PROVE  /\ x # None /\ x.state \in Final \cup Unfinished /\ x.request \in AllRequests
         /\ DOMAIN x.member \subseteq Nodes
         /\ x.member = NoMembers <=> DOMAIN x.member = {}
         /\ \A n \in DOMAIN x.member : x.member[n] \in Final \cup Unfinished \cup {"queued"}
<1>1. x # None /\ x.state \in Final \cup Unfinished /\ x.request \in AllRequests
  BY NoneAssumption DEF Receipts
<1>2. x.member \in Tables(Final \cup Unfinished \cup {"queued"}) \cup {NoMembers}
  BY DEF Receipts
<1> QED BY <1>1, <1>2, EmptyTable, TableDomain, SMT

LEMMA RequestFacts ==
  ASSUME NEW r \in AllRequests
  PROVE  /\ DOMAIN r.targets \subseteq Nodes
         /\ r.targets = NoMembers <=> DOMAIN r.targets = {}
         /\ \A n \in DOMAIN r.targets : r.targets[n] \in SingleKinds
<1>1. r.targets \in Tables(SingleKinds) \cup {NoMembers}
  BY DEF AllRequests
<1> QED BY <1>1, EmptyTable, TableDomain

\* A new state leaves the rest of a receipt alone.
LEMMA StateFacts ==
  ASSUME NEW x \in Receipts, NEW s \in Final \cup Unfinished
  PROVE  /\ [x EXCEPT !.state = s] \in Receipts
         /\ [x EXCEPT !.state = s].state = s
         /\ [x EXCEPT !.state = s].request = x.request
         /\ [x EXCEPT !.state = s].member = x.member
         /\ \A o \in Ops : Proper(o, x) => Proper(o, [x EXCEPT !.state = s])
<1>1. /\ [x EXCEPT !.state = s] \in Receipts
      /\ [x EXCEPT !.state = s].state = s
      /\ [x EXCEPT !.state = s].request = x.request
      /\ [x EXCEPT !.state = s].member = x.member
  BY DEF Receipts
<1> QED BY <1>1 DEF Proper

\* The receipt a request is admitted with.
LEMMA NewReceipt ==
  ASSUME NEW r \in Requests, NEW x, x = Receipt("running", r, [n \in DOMAIN r.targets |-> "queued"])
  PROVE  /\ x \in Receipts /\ x # None /\ Proper(r.id, x)
         /\ x.state = "running" /\ x.request = r
         /\ x.member = [n \in DOMAIN r.targets |-> "queued"]
         /\ r.kind = "batch" <=> x.member # NoMembers
<1>1. r \in AllRequests /\ (r.kind = "batch" <=> r.targets # NoMembers) /\ r.id \in Ids
  BY RequestsAssumption, OpsFacts
<1>2. x.state = "running" /\ x.request = r /\ x.member = [n \in DOMAIN r.targets |-> "queued"]
  BY DEF Receipt
<1>3. CASE r.kind = "batch"
  <2>1. x.member \in Tables(Final \cup Unfinished \cup {"queued"})
    BY <1>1, <1>2, <1>3, RequestFacts, MakeTable
  <2>2. x \in Receipts
    BY <1>1, <2>1 DEF Receipts, Receipt, Unfinished
  <2> QED BY <1>1, <1>2, <1>3, <2>1, <2>2, TableDomain, NoneAssumption, OpsFacts DEF Proper
<1>4. CASE r.kind # "batch"
  <2>1. x.member = NoMembers
    BY <1>1, <1>2, <1>4, EmptyTable
  <2>2. x \in Receipts
    BY <1>1, <2>1 DEF Receipts, Receipt, Unfinished
  <2> QED BY <1>1, <1>2, <1>4, <2>1, <2>2, NoneAssumption, OpsFacts DEF Proper
<1> QED BY <1>3, <1>4

\* The receipt a batch gives a member it begins.
LEMMA NewChild ==
  ASSUME NEW b \in Roots, NEW n \in Nodes, rec[b] \in Receipts, Proper(b, rec[b]),
         n \in DOMAIN rec[b].member,
         NEW x, x = Receipt("running", ChildRequest(b, n), NoMembers)
  PROVE  /\ x \in Receipts /\ x # None /\ Proper(Child(b, n), x)
         /\ x.state = "running" /\ x.member = NoMembers
         /\ x.request.kind = rec[b].request.targets[n] /\ x.request.kind \in SingleKinds
         /\ x.request.slug = SlugOf[n]
<1>1. rec[b].request \in AllRequests /\ rec[b].request.targets[n] \in SingleKinds
  BY ReceiptFacts, RequestFacts, EmptyTable DEF Proper
<1>2. /\ ChildRequest(b, n) \in AllRequests
      /\ ChildRequest(b, n).id = Child(b, n)
      /\ ChildRequest(b, n).kind = rec[b].request.targets[n]
      /\ ChildRequest(b, n).slug = SlugOf[n]
  BY <1>1, ChildFacts, SlugAssumption DEF ChildRequest, AllRequests
<1>3. /\ x \in Receipts /\ x.request = ChildRequest(b, n)
      /\ x.state = "running" /\ x.member = NoMembers
  BY <1>2 DEF Receipt, Receipts, Unfinished
<1> QED BY <1>1, <1>2, <1>3, ChildFacts, NoneAssumption DEF Proper, SingleKinds

-----------------------------------------------------------------------------
(* The pieces of the actions.                                              *)

\* A write reaches the disk or leaves it, and touches one receipt.
LEMMA PersistFacts ==
  ASSUME TypeInv, Shape, NEW o \in Ops, NEW x \in Receipts, Proper(o, x), NEW ok \in BOOLEAN,
         Persist(o, x, ok)
  PROVE  /\ disk' \in [Ops -> Receipts \cup {None}]
         /\ \A p \in Ops : disk'[p] # None => Proper(p, disk'[p])
         /\ \A p \in Ops : p # o => disk'[p] = disk[p]
         /\ disk'[o] \in {disk[o], x}
         /\ ok => disk'[o] = x
         /\ ~ok => "disk" \in plan.faults
BY SMT DEF Persist, TypeInv, Shape

\* What a submission reserves.
LEMMA KeysFacts ==
  ASSUME NEW s \in Submissions
  PROVE  /\ s.request \in Requests /\ s.node \in Nodes \cup {None}
         /\ KeysOf(s.request, s.node) \subseteq Keys
         /\ s.request.kind = "batch" =>
              /\ s.node = None
              /\ \A n \in DOMAIN s.request.targets : NodeKeys(n) \subseteq KeysOf(s.request, s.node)
              /\ \A k \in KeysOf(s.request, s.node) :
                   \E n \in DOMAIN s.request.targets : k \in NodeKeys(n)
         /\ s.request.kind = "create" =>
              s.node = None /\ KeysOf(s.request, s.node) = {<<"slug", s.request.slug>>}
         /\ s.request.kind \notin {"batch", "create"} =>
              /\ s.node \in Nodes /\ SlugOf[s.node] = s.request.slug
              /\ NodeKeys(s.node) \subseteq KeysOf(s.request, s.node)
         /\ s.request.kind = "clone" =>
              KeysOf(s.request, s.node) = NodeKeys(s.node) \cup {<<"slug", s.request.child>>}
         /\ s.request.kind \notin {"batch", "create", "clone"} =>
              KeysOf(s.request, s.node) = NodeKeys(s.node)
<1>1. s.request \in Requests /\ s.node \in Nodes \cup {None}
  BY DEF Submissions
<1>2. s.request \in AllRequests /\ DOMAIN s.request.targets \subseteq Nodes
  BY <1>1, RequestsAssumption, RequestFacts
<1>3. \A n \in Nodes : NodeKeys(n) \subseteq Keys
  BY SlugAssumption, SMT DEF NodeKeys, Keys
<1>4. CASE s.request.kind = "batch"
  <2>1. KeysOf(s.request, s.node) = UNION {NodeKeys(m) : m \in DOMAIN s.request.targets}
    BY <1>4 DEF KeysOf
  <2> QED BY <1>1, <1>2, <1>3, <1>4, <2>1 DEF Submissions
<1>5. CASE s.request.kind = "create"
  BY <1>1, <1>5, RequestsAssumption, SMT DEF KeysOf, Keys, Submissions
<1>6. CASE s.request.kind = "clone"
  <2>1. KeysOf(s.request, s.node) = NodeKeys(s.node) \cup {<<"slug", s.request.child>>}
    BY <1>6 DEF KeysOf
  <2>2. s.request.child \in Slugs /\ s.node \in Nodes /\ SlugOf[s.node] = s.request.slug
    BY <1>1, <1>6, RequestsAssumption DEF Submissions
  <2> QED BY <1>1, <1>3, <1>6, <2>1, <2>2, SMT DEF Keys
<1>7. CASE s.request.kind \notin {"batch", "create", "clone"}
  <2>1. KeysOf(s.request, s.node) = NodeKeys(s.node)
    BY <1>7 DEF KeysOf
  <2>2. s.node \in Nodes /\ SlugOf[s.node] = s.request.slug
    BY <1>1, <1>7 DEF Submissions
  <2> QED BY <1>1, <1>3, <1>7, <2>1, <2>2
<1> QED BY <1>4, <1>5, <1>6, <1>7

LEMMA OutcomeFacts ==
  ASSUME NEW o \in Ops, NEW err \in BOOLEAN, NEW stopped \in BOOLEAN
  PROVE  /\ Outcome(o, err, stopped) \in Final
         /\ Outcome(o, err, stopped) = "succeeded" => ~err
         /\ Outcome(o, err, stopped) = "canceled" => cause[o] = "canceled" /\ stopped
BY DEF Outcome, Final

\* The end of a worker: its receipt gets an outcome, on disk if that works.
LEMMA SettleFacts ==
  ASSUME TypeInv, Shape, NEW o \in Ops, rec[o] # None,
         NEW err \in BOOLEAN, NEW stopped \in BOOLEAN, Settle(o, err, stopped)
  PROVE  /\ disk' \in [Ops -> Receipts \cup {None}] /\ rec' \in [Ops -> Receipts \cup {None}]
         /\ \A p \in Ops : disk'[p] # None => Proper(p, disk'[p])
         /\ \A p \in Ops : rec'[p] # None => Proper(p, rec'[p])
         /\ \A p \in Ops : p # o => disk'[p] = disk[p] /\ rec'[p] = rec[p]
         /\ rec'[o] # None /\ rec'[o].request = rec[o].request /\ rec'[o].member = rec[o].member
         /\ disk'[o] = disk[o] \/ (/\ disk'[o] # None /\ disk'[o].request = rec[o].request
                                   /\ disk'[o].member = rec[o].member
                                   /\ disk'[o].state = Outcome(o, err, stopped))
         /\ rec'[o].state \in {Outcome(o, err, stopped), "failed"}
         /\ "disk" \notin plan.faults => rec'[o] = disk'[o]
         /\ rec'[o].state \in Final
<1>1. PICK ok \in BOOLEAN :
        /\ Persist(o, SetState(o, Outcome(o, err, stopped)), ok)
        /\ rec' = [rec EXCEPT ![o] = SetState(o, IF ok THEN Outcome(o, err, stopped) ELSE "failed")]
  BY DEF Settle
<1> DEFINE x == SetState(o, Outcome(o, err, stopped))
           y == SetState(o, IF ok THEN Outcome(o, err, stopped) ELSE "failed")
<1>2. rec[o] \in Receipts /\ Proper(o, rec[o])
  BY DEF TypeInv, Shape
<1>3. Outcome(o, err, stopped) \in Final /\ "failed" \in Final
  BY OutcomeFacts DEF Final
<1>4. /\ x \in Receipts /\ Proper(o, x) /\ x.request = rec[o].request /\ x.member = rec[o].member
      /\ x.state = Outcome(o, err, stopped) /\ x # None
  BY <1>2, <1>3, StateFacts, NoneAssumption, SMT DEF SetState
<1>5. /\ y \in Receipts /\ Proper(o, y) /\ y.request = rec[o].request /\ y.member = rec[o].member
      /\ y.state = IF ok THEN Outcome(o, err, stopped) ELSE "failed"
      /\ y # None
  BY <1>2, <1>3, StateFacts, NoneAssumption, SMT DEF SetState
<1>6. ok => y = x
  OBVIOUS
<1>7. Persist(o, x, ok) /\ rec' = [rec EXCEPT ![o] = y]
  BY <1>1
<1> HIDE DEF x, y
<1>8. /\ disk' \in [Ops -> Receipts \cup {None}]
      /\ \A p \in Ops : disk'[p] # None => Proper(p, disk'[p])
      /\ \A p \in Ops : p # o => disk'[p] = disk[p]
      /\ disk'[o] \in {disk[o], x}
      /\ ok => disk'[o] = x
      /\ ~ok => "disk" \in plan.faults
  BY <1>4, <1>7, PersistFacts, SMT
<1>9. /\ rec' \in [Ops -> Receipts \cup {None}] /\ rec'[o] = y
      /\ \A p \in Ops : p # o => rec'[p] = rec[p]
  BY <1>5, <1>7 DEF TypeInv
<1> QED BY <1>3, <1>4, <1>5, <1>6, <1>8, <1>9 DEF Shape

-----------------------------------------------------------------------------
(* One turn of a batch, with its choices named.                            *)

NewKid(b, n) == Receipt("running", ChildRequest(b, n), NoMembers)
Begun(b, S) == {Child(b, n) : n \in S}
MemberStates == Final \cup Unfinished \cup {"queued"}

TurnChoice(b, starts, unsaved, torn, members) ==
  /\ starts \subseteq DOMAIN rec[b].member /\ unsaved \subseteq DOMAIN rec[b].member
  /\ starts \cap unsaved = {} /\ torn \subseteq unsaved
  /\ members \in [DOMAIN rec[b].member -> MemberStates]
  /\ \A n \in DOMAIN rec[b].member :
       members[n] = IF n \in starts THEN "running"
                    ELSE IF n \in unsaved THEN "failed" ELSE Member(b, n)
  /\ \A n \in starts \cup unsaved :
       /\ rec[Child(b, n)] = None /\ rec[b].member[n] = "queued"
       /\ cause[b] = None
  /\ starts # {} =>
       LET running == {n \in DOMAIN rec[b].member : Member(b, n) \in Unfinished} IN
       /\ Cardinality(running) + Cardinality(starts) <= Parallelism
       /\ Cardinality(Executing) + Cardinality(starts) <= Limit
  /\ unsaved # {} => "disk" \in plan.faults
Over(b, members) == \A n \in DOMAIN rec[b].member : members[n] \in Final
TurnEffect(b, starts, torn, members, done, saved) ==
  /\ done <=> Over(b, members)
  /\ ~saved => "disk" \in plan.faults
  /\ rec' \in [Ops -> Receipts \cup {None}] /\ disk' \in [Ops -> Receipts \cup {None}]
  /\ \A o \in Ops : o # b /\ o \notin Begun(b, starts) => rec'[o] = rec[o]
  /\ \A o \in Ops : o # b /\ o \notin Begun(b, starts \cup torn) => disk'[o] = disk[o]
  /\ \A n \in starts : rec'[Child(b, n)] = NewKid(b, n)
  /\ \A n \in starts \cup torn : disk'[Child(b, n)] = NewKid(b, n)
  /\ rec'[b] # None /\ rec'[b].request = rec[b].request /\ rec'[b].member = members
  /\ rec'[b].state = IF done THEN (IF saved THEN BatchOutcome(b, members) ELSE "failed") ELSE rec[b].state
  /\ \/ ~saved /\ disk'[b] = disk[b]
     \/ /\ disk'[b] # None /\ disk'[b].request = rec[b].request /\ disk'[b].member = members
        /\ disk'[b].state = IF done THEN BatchOutcome(b, members) ELSE rec[b].state
  /\ saved => disk'[b] = rec'[b]
  /\ active' = (active \cup Begun(b, starts)) \ (IF done THEN {b} ELSE {})
  /\ pc' \in [Ops -> Labels] /\ target' \in [Ops -> Nodes \cup {None}]
  /\ cleanup' \in [Ops -> Nodes \cup {None}]
  /\ \A o \in Ops : o # b /\ o \notin Begun(b, starts) =>
       pc'[o] = pc[o] /\ target'[o] = target[o] /\ cleanup'[o] = cleanup[o]
  /\ pc'[b] = (IF done THEN "idle" ELSE "batch") /\ target'[b] = target[b] /\ cleanup'[b] = cleanup[b]
  /\ \A n \in starts : /\ pc'[Child(b, n)] = "phase" /\ target'[Child(b, n)] = n
                       /\ cleanup'[Child(b, n)] = IF rec[b].request.targets[n] = "start" THEN n ELSE None
  /\ UNCHANGED <<node, daemon, cause, keys, failed, sub, todo, aged, history>>

LEMMA BatchOutcomeFacts ==
  ASSUME NEW b, NEW m
  PROVE  /\ BatchOutcome(b, m) \in Final
         /\ BatchOutcome(b, m) = "succeeded" => \A n \in DOMAIN m : m[n] = "succeeded"
         /\ BatchOutcome(b, m) = "interrupted" => cause[b] = "closed"
BY DEF BatchOutcome, Final

\* Only a root has members.
LEMMA RootFacts ==
  ASSUME NEW b \in Ops, NEW x \in Receipts, Proper(b, x), x.member # NoMembers
  PROVE  b \in Roots /\ x.request.kind = "batch"
BY OpsFacts DEF Proper, Roots, SingleKinds

LEMMA MemberType ==
  ASSUME TypeInv, NEW b \in Roots, rec[b] # None, NEW n \in DOMAIN rec[b].member
  PROVE  /\ Member(b, n) \in MemberStates /\ n \in Nodes
         /\ Member(b, n) = "queued" =>
              rec[Child(b, n)] = None /\ rec[b].member[n] = "queued"
         /\ Member(b, n) \in Unfinished /\ rec[Child(b, n)] # None =>
              rec[Child(b, n)].state \in Unfinished
         /\ rec[Child(b, n)] # None => Member(b, n) = rec[Child(b, n)].state
         /\ rec[Child(b, n)] = None =>
              \/ Member(b, n) = rec[b].member[n]
              \/ Member(b, n) \in {"interrupted", "canceled"} /\ rec[b].member[n] = "queued"
<1>1. rec[b] \in Receipts /\ n \in Nodes /\ rec[b].member[n] \in MemberStates
  BY OpsFacts, ReceiptFacts DEF TypeInv, MemberStates
<1>2. rec[Child(b, n)] \in Receipts \cup {None}
  BY <1>1, ChildFacts, SMT DEF TypeInv
<1>3. rec[Child(b, n)] # None => rec[Child(b, n)].state \in Final \cup Unfinished
  BY <1>2, ReceiptFacts
<1>4. CASE rec[Child(b, n)] # None
  <2>1. Member(b, n) = rec[Child(b, n)].state
    BY <1>4 DEF Member
  <2> QED BY <1>1, <1>3, <1>4, <2>1 DEF MemberStates, Final, Unfinished
<1>5. CASE rec[Child(b, n)] = None
  <2>1. CASE rec[b].member[n] = "queued" /\ cause[b] = "closed"
    <3>1. Member(b, n) = "interrupted"
      BY <1>5, <2>1 DEF Member
    <3> QED BY <1>1, <1>5, <2>1, <3>1 DEF MemberStates, Final, Unfinished
  <2>2. CASE rec[b].member[n] = "queued" /\ cause[b] = "canceled"
    <3>1. Member(b, n) = "canceled"
      BY <1>5, <2>2 DEF Member
    <3> QED BY <1>1, <1>5, <2>2, <3>1 DEF MemberStates, Final, Unfinished
  <2>3. CASE ~(rec[b].member[n] = "queued" /\ cause[b] \in {"closed", "canceled"})
    <3>1. Member(b, n) = rec[b].member[n]
      BY <1>5, <2>3 DEF Member
    <3> QED BY <1>1, <1>5, <2>3, <3>1
  <2> QED BY <2>1, <2>2, <2>3
<1> QED BY <1>4, <1>5

LEMMA TurnFacts ==
  ASSUME TypeInv, Shape, NEW b \in Ops, Turn(b), rec[b] # None, rec[b].member # NoMembers
  PROVE  \E starts, unsaved, torn \in SUBSET Nodes, done, saved \in BOOLEAN,
            members \in [DOMAIN rec[b].member -> MemberStates] :
           /\ TurnChoice(b, starts, unsaved, torn, members)
           /\ TurnEffect(b, starts, torn, members, done, saved)
<1>1. /\ rec[b] \in Receipts /\ Proper(b, rec[b]) /\ b \in Roots
      /\ rec[b].request.kind = "batch" /\ DOMAIN rec[b].member \subseteq Nodes
  BY RootFacts, ReceiptFacts DEF TypeInv, Shape
<1> DEFINE seen == [n \in DOMAIN rec[b].member |-> Member(b, n)]
           table(S, U) == [n \in DOMAIN seen |-> IF n \in S THEN "running"
                                                 ELSE IF n \in U THEN "failed" ELSE seen[n]]
           over(m) == \A n \in DOMAIN m : m[n] \in Final
           rootOf(m) == [rec[b] EXCEPT !.member = m, !.state = IF over(m) THEN BatchOutcome(b, m) ELSE @]
           child(c) == Receipt("running", ChildRequest(b, c[2]), NoMembers)
<1>2. PICK starts, unsaved \in SUBSET Nodes :
        LET members == table(starts, unsaved)
            done == over(members)
            begun == {Child(b, n) : n \in starts}
            root == rootOf(members)
        IN /\ IF cause[b] = None THEN Begins(b, seen, starts, unsaved)
                                 ELSE starts = {} /\ unsaved = {}
           /\ members # rec[b].member \/ done
           /\ \E saved \in BOOLEAN, torn \in SUBSET unsaved :
                LET children == begun \cup {Child(b, n) : n \in torn} IN
                /\ saved \/ "disk" \in plan.faults
                /\ \E written \in BOOLEAN :
                     /\ saved => written
                     /\ disk' = [o \in Ops |-> IF o = b THEN (IF written THEN root ELSE disk[o])
                                               ELSE IF o \in children THEN child(o) ELSE disk[o]]
                /\ rec' = [o \in Ops |->
                             IF o = b THEN [root EXCEPT !.state = IF done /\ ~saved THEN "failed" ELSE @]
                             ELSE IF o \in begun THEN child(o) ELSE rec[o]]
           /\ active' = (active \cup begun) \ (IF done THEN {b} ELSE {})
           /\ pc' = [o \in Ops |-> IF o \in begun THEN "phase"
                                   ELSE IF o = b /\ done THEN "idle" ELSE pc[o]]
           /\ target' = [o \in Ops |-> IF o \in begun THEN o[2] ELSE target[o]]
           /\ cleanup' = [o \in Ops |-> IF o \in begun THEN
                            (IF rec[b].request.targets[o[2]] = "start" THEN o[2] ELSE None) ELSE cleanup[o]]
  BY DEF Turn
<1> DEFINE members == table(starts, unsaved)
           done == over(members)
           root == rootOf(members)
<1>3. PICK saved \in BOOLEAN, torn \in SUBSET unsaved, written \in BOOLEAN :
        /\ saved \/ "disk" \in plan.faults
        /\ saved => written
        /\ disk' = [o \in Ops |-> IF o = b THEN (IF written THEN root ELSE disk[o])
                                  ELSE IF o \in Begun(b, starts \cup torn) THEN child(o) ELSE disk[o]]
        /\ rec' = [o \in Ops |->
                     IF o = b THEN [root EXCEPT !.state = IF done /\ ~saved THEN "failed" ELSE @]
                     ELSE IF o \in Begun(b, starts) THEN child(o) ELSE rec[o]]
  <2>1. \A S, U : Begun(b, S) \cup {Child(b, n) : n \in U} = Begun(b, S \cup U)
    BY DEF Begun
  <2>2. Begun(b, starts) = {Child(b, n) : n \in starts}
    BY DEF Begun
  <2>3. PICK saved \in BOOLEAN, torn \in SUBSET unsaved :
          /\ saved \/ "disk" \in plan.faults
          /\ \E written \in BOOLEAN :
               /\ saved => written
               /\ disk' = [o \in Ops |->
                             IF o = b THEN (IF written THEN root ELSE disk[o])
                             ELSE IF o \in {Child(b, n) : n \in starts} \cup {Child(b, n) : n \in torn}
                                    THEN child(o) ELSE disk[o]]
          /\ rec' = [o \in Ops |->
                       IF o = b THEN [root EXCEPT !.state = IF done /\ ~saved THEN "failed" ELSE @]
                       ELSE IF o \in {Child(b, n) : n \in starts} THEN child(o) ELSE rec[o]]
    BY <1>2
  <2> HIDE DEF child, root, done
  <2>4. {Child(b, n) : n \in starts} \cup {Child(b, n) : n \in torn} = Begun(b, starts \cup torn)
    BY <2>1, <2>2
  <2>5. PICK written \in BOOLEAN :
          /\ saved => written
          /\ disk' = [o \in Ops |-> IF o = b THEN (IF written THEN root ELSE disk[o])
                                    ELSE IF o \in Begun(b, starts \cup torn) THEN child(o) ELSE disk[o]]
    BY <2>3, <2>4
  <2>6. rec' = [o \in Ops |->
                 IF o = b THEN [root EXCEPT !.state = IF done /\ ~saved THEN "failed" ELSE @]
                 ELSE IF o \in Begun(b, starts) THEN child(o) ELSE rec[o]]
    BY <2>2, <2>3
  <2> USE <2>3, <2>5
  <2> WITNESS saved \in BOOLEAN, torn \in SUBSET unsaved, written \in BOOLEAN
  <2> QED BY <2>3, <2>5, <2>6
<1>4. DOMAIN seen = DOMAIN rec[b].member /\ \A n \in DOMAIN rec[b].member : seen[n] = Member(b, n)
  OBVIOUS
<1>5. \A n \in DOMAIN rec[b].member : Member(b, n) \in MemberStates
  BY <1>1, MemberType
<1>6. /\ members \in [DOMAIN rec[b].member -> MemberStates]
      /\ DOMAIN members = DOMAIN rec[b].member
      /\ \A n \in DOMAIN rec[b].member :
           members[n] = IF n \in starts THEN "running"
                        ELSE IF n \in unsaved THEN "failed" ELSE Member(b, n)
  BY <1>5 DEF MemberStates, Final, Unfinished
<1>7. /\ starts \cup unsaved \subseteq {n \in DOMAIN rec[b].member : Member(b, n) = "queued"}
      /\ starts \cap unsaved = {}
      /\ cause[b] # None => starts \cup unsaved = {}
      /\ unsaved # {} => "disk" \in plan.faults
      /\ starts # {} =>
           LET running == {n \in DOMAIN rec[b].member : Member(b, n) \in Unfinished} IN
           /\ Cardinality(running) + Cardinality(starts) <= Parallelism
           /\ Cardinality(Executing) + Cardinality(starts) <= Limit
  <2>1. CASE cause[b] = None
    <3>1. /\ {n \in DOMAIN seen : seen[n] = "queued"} = {n \in DOMAIN rec[b].member : Member(b, n) = "queued"}
          /\ {n \in DOMAIN seen : seen[n] \in Unfinished}
               = {n \in DOMAIN rec[b].member : Member(b, n) \in Unfinished}
      BY <1>4
    <3>2. Begins(b, seen, starts, unsaved)
      BY <1>2, <2>1
    <3> HIDE DEF seen
    <3> QED BY <3>1, <3>2, <2>1 DEF Begins
  <2>2. CASE cause[b] # None
    BY <1>2, <2>2
  <2> QED BY <2>1, <2>2
<1>8. TurnChoice(b, starts, unsaved, torn, members)
  <2>1. \A n \in starts \cup unsaved :
          rec[Child(b, n)] = None /\ rec[b].member[n] = "queued" /\ cause[b] = None
    BY <1>1, <1>7, MemberType
  <2> HIDE DEF members
  <2> QED BY <1>3, <1>6, <1>7, <2>1 DEF TurnChoice
<1> DEFINE after == IF done THEN BatchOutcome(b, members) ELSE rec[b].state
           kept == IF done /\ ~saved THEN "failed" ELSE after
<1>9. after \in Final \cup Unfinished /\ kept \in Final \cup Unfinished
  <2> HIDE DEF done, members
  <2> QED BY <1>1, BatchOutcomeFacts, ReceiptFacts DEF Final
<1>10. root = [rec[b] EXCEPT !.member = members, !.state = after]
  OBVIOUS
<1>11. /\ root \in Receipts /\ root # None /\ Proper(b, root)
       /\ root.state = after /\ root.member = members /\ root.request = rec[b].request
  <2> HIDE DEF root, members, after
  <2>1. members \in [DOMAIN rec[b].member -> Final \cup Unfinished \cup {"queued"}]
    BY <1>6 DEF MemberStates
  <2>2. after \in Final \cup Unfinished
    BY <1>9
  <2>3. /\ root \in Receipts /\ root.state = after /\ root.request = rec[b].request
        /\ root.member = members /\ (Proper(b, rec[b]) => Proper(b, root))
    <3>1. rec[b] \in Receipts /\ rec[b].member # NoMembers
      BY <1>1
    <3>2. members \in Tables(Final \cup Unfinished \cup {"queued"}) /\ members # NoMembers
      BY <1>1, <2>1, <3>1, ReceiptFacts, MakeTable, TableDomain
    <3>3. root \in Receipts /\ root.state = after /\ root.request = rec[b].request /\ root.member = members
      BY <1>10, <2>2, <3>1, <3>2 DEF Receipts
    <3> QED BY <2>1, <3>1, <3>2, <3>3 DEF Proper
  <2> QED BY <1>1, <2>3, NoneAssumption
<1> DEFINE held == [root EXCEPT !.state = IF done /\ ~saved THEN "failed" ELSE @]
<1>12. /\ held \in Receipts /\ held # None
       /\ held.state = kept /\ held.member = members /\ held.request = rec[b].request
       /\ saved => held = root
  <2>1. held = [root EXCEPT !.state = kept]
    BY <1>11
  <2>2. saved => held = root
    BY <1>11 DEF Receipts
  <2> HIDE DEF root, members, held, kept
  <2> QED BY <1>9, <1>11, <2>1, <2>2, StateFacts, NoneAssumption, SMT
<1>13. /\ \A n \in starts \cup torn : child(Child(b, n)) = NewKid(b, n) /\ NewKid(b, n) \in Receipts
       /\ \A o \in Begun(b, starts \cup torn) : child(o) \in Receipts /\ o # b /\ o \in Ops
  <2>1. \A n \in starts \cup torn : /\ Child(b, n)[2] = n /\ Child(b, n) # b /\ Child(b, n) \in Ops
                                    /\ NewKid(b, n) \in Receipts
    BY <1>1, <1>7, ChildFacts, NewChild, SMT DEF NewKid
  <2> QED BY <2>1 DEF NewKid, Begun
<1>14. TurnEffect(b, starts, torn, members, done, saved)
  <2> HIDE DEF root, held, members
  <2>0. (done <=> Over(b, members)) /\ (~saved => "disk" \in plan.faults)
    BY <1>3, <1>6 DEF Over
  <2> HIDE DEF done
  <2>1. rec' = [o \in Ops |-> IF o = b THEN held ELSE IF o \in Begun(b, starts) THEN child(o) ELSE rec[o]]
    BY <1>3 DEF held
  <2> HIDE DEF child
  <2>2. /\ rec' \in [Ops -> Receipts \cup {None}]
        /\ \A o \in Ops : o # b /\ o \notin Begun(b, starts) => rec'[o] = rec[o]
        /\ \A n \in starts : rec'[Child(b, n)] = NewKid(b, n)
        /\ rec'[b] = held
    BY <1>1, <1>12, <1>13, <2>1 DEF TypeInv, Begun
  <2>3. /\ disk' \in [Ops -> Receipts \cup {None}]
        /\ \A o \in Ops : o # b /\ o \notin Begun(b, starts \cup torn) => disk'[o] = disk[o]
        /\ \A n \in starts \cup torn : disk'[Child(b, n)] = NewKid(b, n)
        /\ disk'[b] = IF written THEN root ELSE disk[b]
    BY <1>1, <1>3, <1>11, <1>13 DEF TypeInv, Begun
  <2>4. kept = IF done THEN (IF saved THEN BatchOutcome(b, members) ELSE "failed") ELSE rec[b].state
    OBVIOUS
  <2>5. /\ rec'[b] # None /\ rec'[b].request = rec[b].request /\ rec'[b].member = members
        /\ rec'[b].state = IF done THEN (IF saved THEN BatchOutcome(b, members) ELSE "failed") ELSE rec[b].state
    BY <1>12, <2>2, <2>4
  <2>6. /\ \/ ~saved /\ disk'[b] = disk[b]
           \/ /\ disk'[b] # None /\ disk'[b].request = rec[b].request /\ disk'[b].member = members
              /\ disk'[b].state = IF done THEN BatchOutcome(b, members) ELSE rec[b].state
        /\ saved => disk'[b] = rec'[b]
    BY <1>3, <1>11, <1>12, <2>2, <2>3
  <2>7. /\ active' = (active \cup Begun(b, starts)) \ (IF done THEN {b} ELSE {})
        /\ pc' = [o \in Ops |-> IF o \in Begun(b, starts) THEN "phase"
                                ELSE IF o = b /\ done THEN "idle" ELSE pc[o]]
        /\ target' = [o \in Ops |-> IF o \in Begun(b, starts) THEN o[2] ELSE target[o]]
        /\ cleanup' = [o \in Ops |-> IF o \in Begun(b, starts) THEN
                         (IF rec[b].request.targets[o[2]] = "start" THEN o[2] ELSE None) ELSE cleanup[o]]
    BY <1>2 DEF Begun, done, members
  <2>8. \A o \in Begun(b, starts) : o \in Ops /\ o # b /\ \E n \in starts : o = Child(b, n) /\ o[2] = n
    BY <1>1, ChildFacts, SMT DEF Begun
  <2>9. \A n \in starts : Child(b, n) \in Begun(b, starts) /\ Child(b, n) \in Ops /\ Child(b, n)[2] = n
    BY <1>1, ChildFacts DEF Begun
  <2>10. pc[b] = "batch" /\ UNCHANGED <<node, daemon, cause, keys, failed, sub, todo, aged, history>>
    BY DEF Turn
  <2>11. /\ pc' \in [Ops -> Labels] /\ target' \in [Ops -> Nodes \cup {None}]
         /\ cleanup' \in [Ops -> Nodes \cup {None}]
    BY <2>7, <2>8, SMT DEF TypeInv, Labels
  <2>12. /\ \A o \in Ops : o # b /\ o \notin Begun(b, starts) =>
              pc'[o] = pc[o] /\ target'[o] = target[o] /\ cleanup'[o] = cleanup[o]
         /\ pc'[b] = (IF done THEN "idle" ELSE "batch") /\ target'[b] = target[b] /\ cleanup'[b] = cleanup[b]
         /\ \A n \in starts : /\ pc'[Child(b, n)] = "phase" /\ target'[Child(b, n)] = n
                              /\ cleanup'[Child(b, n)] = IF rec[b].request.targets[n] = "start" THEN n ELSE None
    BY <2>7, <2>8, <2>9, <2>10
  <2> QED BY <2>0, <2>2, <2>3, <2>5, <2>6, <2>7, <2>10, <2>11, <2>12 DEF TurnEffect
<1>15. /\ starts \in SUBSET Nodes /\ unsaved \in SUBSET Nodes /\ torn \in SUBSET Nodes
       /\ done \in BOOLEAN /\ saved \in BOOLEAN
  BY <1>2, <1>3
<1>16. members \in [DOMAIN rec[b].member -> MemberStates]
  BY <1>6
<1> HIDE DEF members, done
<1> USE <1>15, <1>16
<1> WITNESS starts \in SUBSET Nodes, unsaved \in SUBSET Nodes, torn \in SUBSET Nodes,
            done \in BOOLEAN, saved \in BOOLEAN,
            members \in [DOMAIN rec[b].member -> MemberStates]
<1> QED BY <1>8, <1>14

-----------------------------------------------------------------------------
(* The other actions, with their choices named.                            *)

\* The second look of Submit, with its choices named: what it forgets, and
\* whether the request is answered, its receipt written, its worker begun.
NewReceiptOf(r) == Receipt("running", r, [n \in DOMAIN r.targets |-> "queued"])
ForgetEffect(gone) ==
  /\ aged' = aged \ gone /\ worked' = worked \ gone
  /\ \A p \in Ops : ran'[p] = IF p \in gone THEN 0 ELSE ran[p]
AdmitChoice(r, n, gone, answered, torn, begun) ==
  /\ gone # {} \/ torn \/ begun => daemon = "up" /\ ~Visible(r.id)
  /\ answered => daemon = "up" /\ Visible(r.id)
  /\ torn \/ begun => gone = aged /\ Admits(r, KeysOf(r, n))
  /\ torn => "disk" \in plan.faults /\ ~begun
AdmitEffect(r, n, gone, answered, torn, begun) ==
  /\ ForgetEffect(gone)
  /\ acked' = (acked \ gone) \cup (IF answered \/ begun THEN {r.id} ELSE {})
  /\ \A p \in Ops : rec'[p] = IF begun /\ p = r.id THEN NewReceiptOf(r)
                              ELSE IF p \in gone THEN None ELSE rec[p]
  /\ \A p \in Ops : disk'[p] = IF (torn \/ begun) /\ p = r.id THEN NewReceiptOf(r)
                               ELSE IF p \in gone THEN None ELSE disk[p]
  /\ IF begun THEN Spawn(r.id, IF r.kind = "batch" THEN "batch" ELSE "phase", n,
                         IF r.kind = "start" THEN n ELSE None, KeysOf(r, n))
     ELSE UNCHANGED <<active, cause, keys, pc, target, cleanup, failed>>
  /\ UNCHANGED <<node, daemon, todo>>

LEMMA AdmitFacts ==
  ASSUME TypeInv, NEW h \in Handlers, Admit(h)
  PROVE  /\ sub[h] \in Submissions /\ sub' = [sub EXCEPT ![h] = None]
         /\ ran' \in [Ops -> Nat] /\ DOMAIN rec' = Ops /\ DOMAIN disk' = Ops
         /\ rec' = [p \in Ops |-> rec'[p]] /\ disk' = [p \in Ops |-> disk'[p]]
         /\ \E gone \in SUBSET aged, answered, torn, begun \in BOOLEAN :
              /\ AdmitChoice(sub[h].request, sub[h].node, gone, answered, torn, begun)
              /\ AdmitEffect(sub[h].request, sub[h].node, gone, answered, torn, begun)
<1> DEFINE r == sub[h].request
           o == r.id
           ks == KeysOf(r, sub[h].node)
           receipt == NewReceiptOf(r)
           pruned == Without(disk, aged, None)
           same == UNCHANGED <<active, cause, keys, pc, target, cleanup, failed>>
           goal == /\ ran' \in [Ops -> Nat]
                   /\ rec' = [p \in Ops |-> rec'[p]] /\ disk' = [p \in Ops |-> disk'[p]]
                   /\ \E gone \in SUBSET aged, answered, torn, begun \in BOOLEAN :
                        /\ AdmitChoice(r, sub[h].node, gone, answered, torn, begun)
                        /\ AdmitEffect(r, sub[h].node, gone, answered, torn, begun)
<1>1. sub[h] \in Submissions /\ sub' = [sub EXCEPT ![h] = None] /\ UNCHANGED <<node, daemon, todo>>
  BY DEF Admit, TypeInv
<1>2. r \in Requests /\ o \in Ops
  BY <1>1, KeysFacts, OpsFacts
<1>3. \/ daemon = "closed" /\ UNCHANGED <<disk, manager, aged, history>>
      \/ /\ daemon = "up" /\ Visible(o)
         /\ acked' = IF rec[o].request = r THEN acked \cup {o} ELSE acked
         /\ UNCHANGED <<disk, manager, aged, ran, worked>>
      \/ /\ daemon = "up" /\ ~Visible(o)
         /\ \E gone \in SUBSET aged :
              Forget(gone) /\ disk' = Without(disk, gone, None) /\ rec' = Without(rec, gone, None)
         /\ same
      \/ /\ daemon = "up" /\ ~Visible(o) /\ Forget(aged) /\ rec' = Without(rec, aged, None)
         /\ \/ disk' = pruned
            \/ Admits(r, ks) /\ "disk" \in plan.faults /\ disk' \in {pruned, [pruned EXCEPT ![o] = receipt]}
         /\ same
      \/ /\ daemon = "up" /\ ~Visible(o) /\ Admits(r, ks)
         /\ aged' = {} /\ ran' = Without(ran, aged, 0) /\ worked' = worked \ aged
         /\ acked' = (acked \ aged) \cup {o}
         /\ disk' = [pruned EXCEPT ![o] = receipt]
         /\ rec' = [Without(rec, aged, None) EXCEPT ![o] = receipt]
         /\ Spawn(o, IF r.kind = "batch" THEN "batch" ELSE "phase", sub[h].node,
                  IF r.kind = "start" THEN sub[h].node ELSE None, ks)
  BY DEF Admit, NewReceiptOf
<1> HIDE DEF r, o, receipt, pruned
<1>4. ASSUME NEW gone \in SUBSET aged, NEW answered \in BOOLEAN, NEW torn \in BOOLEAN, NEW begun \in BOOLEAN,
             AdmitChoice(r, sub[h].node, gone, answered, torn, begun),
             AdmitEffect(r, sub[h].node, gone, answered, torn, begun),
             ran' \in [Ops -> Nat], rec' = [p \in Ops |-> rec'[p]], disk' = [p \in Ops |-> disk'[p]]
      PROVE  goal
  BY <1>4
<1> DEFINE nothing == {}
<1>5. ASSUME daemon = "closed" /\ UNCHANGED <<disk, manager, aged, history>>
      PROVE  goal
  <2>1. UNCHANGED <<disk, rec, active, cause, keys, pc, target, cleanup, failed, aged, ran, acked, worked>>
    BY <1>5 DEF manager, history
  <2>2. /\ AdmitChoice(r, sub[h].node, nothing, FALSE, FALSE, FALSE)
        /\ AdmitEffect(r, sub[h].node, nothing, FALSE, FALSE, FALSE)
    BY <1>1, <2>1 DEF AdmitChoice, AdmitEffect, ForgetEffect
  <2>3. ran' \in [Ops -> Nat] /\ rec' = [p \in Ops |-> rec'[p]] /\ disk' = [p \in Ops |-> disk'[p]]
    BY <2>1 DEF TypeInv
  <2>4. nothing \in SUBSET aged
    OBVIOUS
  <2> HIDE DEF nothing, goal
  <2> QED BY <1>4, <2>2, <2>3, <2>4
<1>6. ASSUME /\ daemon = "up" /\ Visible(o)
             /\ acked' = IF rec[o].request = r THEN acked \cup {o} ELSE acked
             /\ UNCHANGED <<disk, manager, aged, ran, worked>>
      PROVE  goal
  <2> DEFINE answered == rec[o].request = r
  <2>1. UNCHANGED <<disk, rec, active, cause, keys, pc, target, cleanup, failed, aged, ran, worked>>
    BY <1>6 DEF manager
  <2>2. /\ AdmitChoice(r, sub[h].node, nothing, answered, FALSE, FALSE)
        /\ AdmitEffect(r, sub[h].node, nothing, answered, FALSE, FALSE)
    BY <1>1, <1>6, <2>1 DEF AdmitChoice, AdmitEffect, ForgetEffect, o
  <2>3. ran' \in [Ops -> Nat] /\ rec' = [p \in Ops |-> rec'[p]] /\ disk' = [p \in Ops |-> disk'[p]]
    BY <2>1 DEF TypeInv
  <2>4. nothing \in SUBSET aged /\ answered \in BOOLEAN
    OBVIOUS
  <2> HIDE DEF answered, nothing, goal
  <2> QED BY <1>4, <2>2, <2>3, <2>4
<1>7. ASSUME NEW gone \in SUBSET aged, daemon = "up", ~Visible(o), Forget(gone), same,
             disk' = Without(disk, gone, None), rec' = Without(rec, gone, None)
      PROVE  goal
  <2>1. /\ AdmitChoice(r, sub[h].node, gone, FALSE, FALSE, FALSE)
        /\ AdmitEffect(r, sub[h].node, gone, FALSE, FALSE, FALSE)
    BY <1>1, <1>7 DEF AdmitChoice, AdmitEffect, ForgetEffect, Forget, Without, o
  <2>2. ran' \in [Ops -> Nat] /\ rec' = [p \in Ops |-> rec'[p]] /\ disk' = [p \in Ops |-> disk'[p]]
    BY <1>7 DEF TypeInv, Forget, Without
  <2> QED BY <1>4, <2>1, <2>2
<1>8. ASSUME daemon = "up", ~Visible(o), Admits(r, ks), "disk" \in plan.faults, Forget(aged), same,
             rec' = Without(rec, aged, None), disk' = [pruned EXCEPT ![o] = receipt]
      PROVE  goal
  <2>1. /\ AdmitChoice(r, sub[h].node, aged, FALSE, TRUE, FALSE)
        /\ AdmitEffect(r, sub[h].node, aged, FALSE, TRUE, FALSE)
    BY <1>1, <1>2, <1>8 DEF AdmitChoice, AdmitEffect, ForgetEffect, Forget, Without, o, receipt, pruned
  <2>2. ran' \in [Ops -> Nat] /\ rec' = [p \in Ops |-> rec'[p]] /\ disk' = [p \in Ops |-> disk'[p]]
    BY <1>8 DEF TypeInv, Forget, Without, pruned
  <2> QED BY <1>4, <2>1, <2>2
<1>9. ASSUME daemon = "up", ~Visible(o), Admits(r, ks),
             aged' = {}, ran' = Without(ran, aged, 0), worked' = worked \ aged, acked' = (acked \ aged) \cup {o},
             disk' = [pruned EXCEPT ![o] = receipt],
             rec' = [Without(rec, aged, None) EXCEPT ![o] = receipt],
             Spawn(o, IF r.kind = "batch" THEN "batch" ELSE "phase", sub[h].node,
                   IF r.kind = "start" THEN sub[h].node ELSE None, ks)
      PROVE  goal
  <2>1. AdmitChoice(r, sub[h].node, aged, FALSE, FALSE, TRUE)
    BY <1>9 DEF AdmitChoice, o
  <2>2. AdmitEffect(r, sub[h].node, aged, FALSE, FALSE, TRUE)
    BY <1>1, <1>2, <1>9 DEF AdmitEffect, ForgetEffect, Without, o, receipt, pruned
  <2>3. ran' \in [Ops -> Nat] /\ rec' = [p \in Ops |-> rec'[p]] /\ disk' = [p \in Ops |-> disk'[p]]
    BY <1>9 DEF TypeInv, Without, pruned
  <2> QED BY <1>4, <2>1, <2>2, <2>3
<1>10. goal
  <2>1. disk' = pruned => disk' = Without(disk, aged, None)
    BY DEF pruned
  <2> HIDE DEF same, goal, ks
  <2>2. CASE /\ daemon = "up" /\ ~Visible(o) /\ Forget(aged) /\ rec' = Without(rec, aged, None)
             /\ \/ disk' = pruned
                \/ Admits(r, ks) /\ "disk" \in plan.faults /\ disk' \in {pruned, [pruned EXCEPT ![o] = receipt]}
             /\ same
    <3>1. aged \in SUBSET aged
      OBVIOUS
    <3>2. CASE disk' = pruned
      BY <1>7, <2>1, <2>2, <3>1, <3>2
    <3>3. CASE disk' # pruned
      BY <1>8, <2>2, <3>3
    <3> QED BY <3>2, <3>3
  <2>3. CASE /\ daemon = "up" /\ ~Visible(o)
             /\ \E gone \in SUBSET aged :
                  Forget(gone) /\ disk' = Without(disk, gone, None) /\ rec' = Without(rec, gone, None)
             /\ same
    BY <1>7, <2>3
  <2> QED BY <1>3, <1>5, <1>6, <1>9, <2>2, <2>3
<1> QED BY <1>1, <1>10 DEF r

\* A pruning, as far as it gets.
LEMMA ListPageFacts ==
  ASSUME TypeInv, ListPage
  PROVE  \E gone \in SUBSET aged :
           /\ ForgetEffect(gone) /\ acked' = acked \ gone
           /\ rec' \in [Ops -> Receipts \cup {None}] /\ disk' \in [Ops -> Receipts \cup {None}]
           /\ ran' \in [Ops -> Nat]
           /\ \A p \in Ops : rec'[p] = IF p \in gone THEN None ELSE rec[p]
           /\ \A p \in Ops : disk'[p] = IF p \in gone THEN None ELSE disk[p]
           /\ daemon \in Up
           /\ UNCHANGED <<node, daemon, active, cause, keys, pc, target, cleanup, failed, sub, todo>>
<1>1. PICK gone \in SUBSET aged : /\ Forget(gone) /\ rec' = Without(rec, gone, None)
                                  /\ disk' = Without(disk, gone, None)
  BY DEF ListPage
<1>2. /\ ForgetEffect(gone) /\ acked' = acked \ gone
      /\ rec' \in [Ops -> Receipts \cup {None}] /\ disk' \in [Ops -> Receipts \cup {None}]
      /\ ran' \in [Ops -> Nat]
  BY <1>1 DEF TypeInv, Forget, ForgetEffect, Without
<1>3. /\ \A p \in Ops : rec'[p] = IF p \in gone THEN None ELSE rec[p]
      /\ \A p \in Ops : disk'[p] = IF p \in gone THEN None ELSE disk[p]
  BY <1>1 DEF Without
<1>4. /\ daemon \in Up
      /\ UNCHANGED <<node, daemon, active, cause, keys, pc, target, cleanup, failed, sub, todo>>
  BY DEF ListPage, Up
<1> QED BY <1>1, <1>2, <1>3, <1>4

\* A phase is saved, or the worker goes to its end.
LEMMA AdvanceFacts ==
  ASSUME TypeInv, Shape, NEW o \in Ops, rec[o] # None, NEW next \in Labels, Advance(o, next)
  PROVE  /\ disk' \in [Ops -> Receipts \cup {None}] /\ pc' \in [Ops -> Labels]
         /\ failed' \in [Ops -> BOOLEAN]
         /\ \A p \in Ops : disk'[p] # None => Proper(p, disk'[p])
         /\ \A p \in Ops : p # o => disk'[p] = disk[p] /\ pc'[p] = pc[p] /\ failed'[p] = failed[p]
         /\ disk'[o] = disk[o] \/ disk'[o] = rec[o]
         /\ \/ pc'[o] = next /\ failed'[o] = failed[o]
            \/ pc'[o] = "finish" /\ failed'[o]
<1>1. rec[o] \in Receipts /\ Proper(o, rec[o])
  BY DEF TypeInv, Shape
<1>2. CASE UNCHANGED disk /\ failed' = [failed EXCEPT ![o] = TRUE] /\ pc' = [pc EXCEPT ![o] = "finish"]
  BY <1>2 DEF TypeInv, Shape, Labels
<1>3. CASE Persist(o, rec[o], TRUE) /\ pc' = [pc EXCEPT ![o] = next] /\ UNCHANGED failed
  <2>1. /\ disk' \in [Ops -> Receipts \cup {None}]
        /\ \A p \in Ops : disk'[p] # None => Proper(p, disk'[p])
        /\ \A p \in Ops : p # o => disk'[p] = disk[p]
        /\ disk'[o] \in {disk[o], rec[o]}
    BY <1>1, <1>3, PersistFacts
  <2> QED BY <1>3, <2>1 DEF TypeInv
<1>4. CASE /\ Persist(o, rec[o], FALSE)
           /\ failed' = [failed EXCEPT ![o] = TRUE] /\ pc' = [pc EXCEPT ![o] = "finish"]
  <2>1. /\ disk' \in [Ops -> Receipts \cup {None}]
        /\ \A p \in Ops : disk'[p] # None => Proper(p, disk'[p])
        /\ \A p \in Ops : p # o => disk'[p] = disk[p]
        /\ disk'[o] \in {disk[o], rec[o]}
    BY <1>1, <1>4, PersistFacts
  <2> QED BY <1>4, <2>1 DEF TypeInv, Labels
<1> QED BY <1>2, <1>3, <1>4 DEF Advance

\* A receipt is loaded, forgotten, or stops the daemon.
Interrupted(x) == IF x.state \in Unfinished THEN "interrupted" ELSE x.state
LoadEffect(o, how) ==
  /\ \A p \in Ops : p # o => disk'[p] = disk[p]
  /\ how = "forgotten" =>
       /\ o \in aged /\ disk[o].state \notin Unfinished /\ disk'[o] = None
       /\ ForgetEffect({o}) /\ acked' = acked \ {o}
       /\ todo' = todo \ {o} /\ UNCHANGED <<daemon, rec>>
  /\ how # "forgotten" =>
       /\ disk'[o] = disk[o] \/ (/\ disk'[o] # None /\ disk'[o].state = Interrupted(disk[o])
                                 /\ disk'[o].request = disk[o].request /\ disk'[o].member = disk[o].member)
       /\ UNCHANGED <<aged, history>>
  /\ how = "loaded" =>
       /\ disk'[o] # None /\ disk'[o].state = Interrupted(disk[o])
       /\ disk'[o].request = disk[o].request /\ disk'[o].member = disk[o].member
       /\ \A p \in Ops : rec'[p] = IF p = o THEN disk'[o] ELSE rec[p]
       /\ ~(o \in aged /\ disk[o].state \notin Unfinished)
       /\ todo' = todo \ {o} /\ UNCHANGED daemon
  /\ how = "stopped" =>
       /\ "disk" \in plan.faults /\ disk[o].state \in Unfinished
       /\ daemon' = "down" /\ todo' = {} /\ \A p \in Ops : rec'[p] = None
  /\ UNCHANGED <<node, active, cause, keys, pc, target, cleanup, failed, sub>>

LEMMA LoadFacts ==
  ASSUME TypeInv, Shape, NEW o \in Ops, Load(o), disk[o] # None
  PROVE  /\ disk' \in [Ops -> Receipts \cup {None}] /\ rec' \in [Ops -> Receipts \cup {None}]
         /\ ran' \in [Ops -> Nat] /\ Shape'
         /\ \E how \in {"forgotten", "loaded", "stopped"} : LoadEffect(o, how)
<1> DEFINE receipt == [disk[o] EXCEPT !.state = IF disk[o].state \in Unfinished THEN "interrupted" ELSE @]
<1>1. disk[o] \in Receipts /\ Proper(o, disk[o])
  BY DEF TypeInv, Shape
<1>2. Interrupted(disk[o]) \in Final \cup Unfinished
  BY <1>1, ReceiptFacts DEF Interrupted, Final
<1>3. receipt = [disk[o] EXCEPT !.state = Interrupted(disk[o])]
  BY DEF Interrupted
<1> HIDE DEF receipt
<1>4. /\ receipt \in Receipts /\ Proper(o, receipt) /\ receipt # None
      /\ receipt.state = Interrupted(disk[o])
      /\ receipt.request = disk[o].request /\ receipt.member = disk[o].member
  BY <1>1, <1>2, <1>3, StateFacts, NoneAssumption, SMT
<1>5. UNCHANGED <<node, active, cause, keys, pc, target, cleanup, failed, sub>>
  BY DEF Load
<1>6. CASE /\ o \in aged /\ disk[o].state \notin Unfinished
           /\ disk' = [disk EXCEPT ![o] = None] /\ Forget({o})
           /\ todo' = todo \ {o} /\ UNCHANGED <<daemon, rec>>
  <2>1. disk' \in [Ops -> Receipts \cup {None}] /\ rec' \in [Ops -> Receipts \cup {None}] /\ ran' \in [Ops -> Nat]
    BY <1>6 DEF TypeInv, Forget, Without
  <2>2. LoadEffect(o, "forgotten")
    BY <1>5, <1>6 DEF LoadEffect, Forget, ForgetEffect, Without, TypeInv
  <2>3. Shape'
    BY <1>6 DEF Shape, Proper, TypeInv
  <2> QED BY <2>1, <2>2, <2>3
<1>7. CASE /\ ~(o \in aged /\ disk[o].state \notin Unfinished)
           /\ Persist(o, receipt, TRUE)
           /\ rec' = [rec EXCEPT ![o] = receipt]
           /\ todo' = todo \ {o} /\ UNCHANGED <<daemon, aged, history>>
  <2>1. /\ disk' \in [Ops -> Receipts \cup {None}]
        /\ \A p \in Ops : disk'[p] # None => Proper(p, disk'[p])
        /\ \A p \in Ops : p # o => disk'[p] = disk[p]
        /\ disk'[o] = receipt
    BY <1>4, <1>7, PersistFacts
  <2>2. rec' \in [Ops -> Receipts \cup {None}] /\ \A p \in Ops : rec'[p] = IF p = o THEN receipt ELSE rec[p]
    BY <1>4, <1>7 DEF TypeInv
  <2>3. ran' \in [Ops -> Nat]
    BY <1>7 DEF TypeInv, history
  <2>4. LoadEffect(o, "loaded")
    BY <1>4, <1>5, <1>7, <2>1, <2>2 DEF LoadEffect
  <2>5. Shape'
    BY <1>4, <2>1, <2>2, SMT DEF Shape, Proper
  <2> QED BY <2>1, <2>2, <2>3, <2>4, <2>5
<1>8. CASE /\ disk[o].state \in Unfinished /\ Persist(o, receipt, FALSE)
           /\ daemon' = "down" /\ todo' = {}
           /\ rec' = [p \in Ops |-> None] /\ UNCHANGED <<aged, history>>
  <2>1. /\ disk' \in [Ops -> Receipts \cup {None}]
        /\ \A p \in Ops : disk'[p] # None => Proper(p, disk'[p])
        /\ \A p \in Ops : p # o => disk'[p] = disk[p]
        /\ disk'[o] \in {disk[o], receipt} /\ "disk" \in plan.faults
    BY <1>4, <1>8, PersistFacts
  <2>2. rec' \in [Ops -> Receipts \cup {None}] /\ \A p \in Ops : rec'[p] = None
    BY <1>8
  <2>3. ran' \in [Ops -> Nat]
    BY <1>8 DEF TypeInv, history
  <2>4. LoadEffect(o, "stopped")
    BY <1>4, <1>5, <1>8, <2>1, <2>2 DEF LoadEffect
  <2>5. Shape'
    BY <2>1, <2>2 DEF Shape, Proper
  <2> QED BY <2>1, <2>2, <2>3, <2>4, <2>5
<1> QED BY <1>6, <1>7, <1>8 DEF Load, receipt

\* recoverBatches writes what became of a batch's members, or stops the daemon.
Projected(b, n) ==
  IF rec[Child(b, n)] # None THEN rec[Child(b, n)].state
  ELSE IF rec[b].member[n] \in Final THEN rec[b].member[n] ELSE "interrupted"
ProjectEffect(b, members, saved) ==
  /\ \A n \in DOMAIN rec[b].member : members[n] = Projected(b, n)
  /\ \A p \in Ops : p # b => disk'[p] = disk[p]
  /\ disk'[b] = disk[b] \/ (/\ disk'[b] # None /\ disk'[b].state = rec[b].state
                            /\ disk'[b].request = rec[b].request /\ disk'[b].member = members)
  /\ saved => /\ disk'[b] # None /\ disk'[b].state = rec[b].state
              /\ disk'[b].request = rec[b].request /\ disk'[b].member = members
              /\ \A p \in Ops : rec'[p] = IF p = b THEN disk'[b] ELSE rec[p]
              /\ todo' = todo \ {b} /\ UNCHANGED daemon
  /\ ~saved => /\ "disk" \in plan.faults /\ daemon' = "down" /\ todo' = {}
               /\ \A p \in Ops : rec'[p] = None
  /\ UNCHANGED <<node, active, cause, keys, pc, target, cleanup, failed, sub, aged, history>>

LEMMA ProjectFacts ==
  ASSUME TypeInv, Shape, NEW b \in Roots, Project(b), rec[b] # None, rec[b].member # NoMembers
  PROVE  /\ disk' \in [Ops -> Receipts \cup {None}] /\ rec' \in [Ops -> Receipts \cup {None}] /\ Shape'
         /\ \E members \in [DOMAIN rec[b].member -> Final \cup Unfinished], saved \in BOOLEAN :
              ProjectEffect(b, members, saved)
<1> DEFINE members == [n \in DOMAIN rec[b].member |->
                         IF rec[Child(b, n)] # None THEN rec[Child(b, n)].state
                         ELSE IF rec[b].member[n] \in Final THEN rec[b].member[n] ELSE "interrupted"]
           root == [rec[b] EXCEPT !.member = members]
<1>1. /\ b \in Ops /\ rec[b] \in Receipts /\ Proper(b, rec[b]) /\ rec[b].state \in Final \cup Unfinished
      /\ DOMAIN rec[b].member \subseteq Nodes /\ DOMAIN rec[b].member # {}
  BY OpsFacts, ReceiptFacts DEF TypeInv, Shape
<1>2. \A n \in DOMAIN rec[b].member : Projected(b, n) \in Final \cup Unfinished
  <2>1. \A n \in Nodes : rec[Child(b, n)] # None => rec[Child(b, n)].state \in Final \cup Unfinished
    BY ChildFacts, ReceiptFacts, SMT DEF TypeInv
  <2> QED BY <1>1, <2>1 DEF Projected, Final
<1>3. /\ members \in [DOMAIN rec[b].member -> Final \cup Unfinished]
      /\ \A n \in DOMAIN rec[b].member : members[n] = Projected(b, n)
  BY <1>2 DEF Projected
<1>4. \/ /\ Persist(b, root, TRUE) /\ rec' = [rec EXCEPT ![b] = root]
         /\ todo' = todo \ {b} /\ UNCHANGED daemon
      \/ /\ Persist(b, root, FALSE)
         /\ daemon' = "down" /\ todo' = {} /\ rec' = [p \in Ops |-> None]
  BY DEF Project
<1>5. UNCHANGED <<node, active, cause, keys, pc, target, cleanup, failed, sub, aged, history>>
  BY DEF Project
<1> HIDE DEF members
<1>6. members \in Tables(Final \cup Unfinished \cup {"queued"}) /\ members # NoMembers
  <2>1. members \in [DOMAIN rec[b].member -> Final \cup Unfinished \cup {"queued"}]
    BY <1>3
  <2> QED BY <1>1, <2>1, MakeTable, TableDomain
<1>7. /\ root \in Receipts /\ root.state = rec[b].state /\ root.request = rec[b].request
      /\ root.member = members
  BY <1>1, <1>6 DEF Receipts
<1> HIDE DEF root
<1>8. Proper(b, root) /\ root # None
  BY <1>1, <1>3, <1>6, <1>7, NoneAssumption DEF Proper
<1>9. ASSUME NEW ok \in BOOLEAN, Persist(b, root, ok)
      PROVE  /\ disk' \in [Ops -> Receipts \cup {None}]
             /\ \A p \in Ops : disk'[p] # None => Proper(p, disk'[p])
             /\ \A p \in Ops : p # b => disk'[p] = disk[p]
             /\ disk'[b] \in {disk[b], root}
             /\ ok => disk'[b] = root
             /\ ~ok => "disk" \in plan.faults
  BY <1>1, <1>7, <1>8, <1>9, PersistFacts, SMT
<1>10. CASE /\ Persist(b, root, TRUE) /\ rec' = [rec EXCEPT ![b] = root]
            /\ todo' = todo \ {b} /\ UNCHANGED daemon
  <2>1. rec' \in [Ops -> Receipts \cup {None}] /\ \A p \in Ops : rec'[p] = IF p = b THEN root ELSE rec[p]
    BY <1>1, <1>7, <1>10 DEF TypeInv
  <2>2. ProjectEffect(b, members, TRUE)
    BY <1>3, <1>5, <1>7, <1>8, <1>9, <1>10, <2>1 DEF ProjectEffect
  <2>3. Shape'
    <3>1. \A p \in Ops : disk'[p] # None => Proper(p, disk'[p])
      BY <1>9, <1>10
    <3>2. \A p \in Ops : rec'[p] # None => Proper(p, rec'[p])
      BY <1>8, <2>1 DEF Shape
    <3> QED BY <3>1, <3>2 DEF Shape, Proper
  <2> QED BY <1>3, <1>9, <1>10, <2>1, <2>2, <2>3
<1>11. CASE /\ Persist(b, root, FALSE)
            /\ daemon' = "down" /\ todo' = {} /\ rec' = [p \in Ops |-> None]
  <2>1. rec' \in [Ops -> Receipts \cup {None}] /\ \A p \in Ops : rec'[p] = None
    BY <1>11
  <2>2. ProjectEffect(b, members, FALSE)
    BY <1>3, <1>5, <1>7, <1>8, <1>9, <1>11, <2>1 DEF ProjectEffect
  <2>3. Shape'
    BY <1>9, <1>11, <2>1 DEF Shape, Proper
  <2> QED BY <1>3, <1>9, <1>11, <2>1, <2>2, <2>3
<1> QED BY <1>4, <1>10, <1>11

\* What a service call does to its node.
LEMMA CallFacts ==
  ASSUME TypeInv, NEW o \in Ops, Call(o)
  PROVE  /\ ran' = [ran EXCEPT ![o] = @ + 1] /\ pc' = [pc EXCEPT ![o] = "finish"]
         /\ rec[o].request.kind \in SingleKinds /\ pc[o] = "call"
         /\ node' \in [Nodes -> NodeStates] /\ failed' \in [Ops -> BOOLEAN]
         /\ \A n \in Nodes : n # target[o] => node'[n] = node[n]
         /\ \A p \in Ops : p # o => failed'[p] = failed[p]
         /\ \/ worked' = worked \cup {o} /\ UNCHANGED failed
            \/ UNCHANGED worked /\ failed'[o]
         /\ UNCHANGED <<daemon, disk, rec, active, cause, keys, target, cleanup, sub, todo, aged, acked>>
<1>1. /\ ran' = [ran EXCEPT ![o] = @ + 1] /\ pc' = [pc EXCEPT ![o] = "finish"]
      /\ rec[o].request.kind \in SingleKinds /\ pc[o] = "call"
      /\ UNCHANGED <<daemon, disk, rec, active, cause, keys, target, cleanup, sub, todo, aged, acked>>
  BY DEF Call, SingleKinds
<1>2. /\ \/ \E state \in NodeStates : node' = [node EXCEPT ![target[o]] = state]
         \/ UNCHANGED node
      /\ \/ worked' = worked \cup {o} /\ UNCHANGED failed
         \/ failed' = [failed EXCEPT ![o] = TRUE] /\ UNCHANGED worked
  BY DEF Call
<1>3. node' \in [Nodes -> NodeStates] /\ \A n \in Nodes : n # target[o] => node'[n] = node[n]
  BY <1>2 DEF TypeInv
<1>4. /\ failed' \in [Ops -> BOOLEAN] /\ \A p \in Ops : p # o => failed'[p] = failed[p]
      /\ \/ worked' = worked \cup {o} /\ UNCHANGED failed
         \/ UNCHANGED worked /\ failed'[o]
  BY <1>2 DEF TypeInv
<1> QED BY <1>1, <1>3, <1>4

LEMMA CreateFacts ==
  ASSUME TypeInv, NEW o \in Ops, Create(o)
  PROVE  LET r == rec[o].request
             slug == IF r.kind = "create" THEN r.slug ELSE r.child
         IN /\ ran' = [ran EXCEPT ![o] = @ + 1] /\ r.kind \in {"create", "clone"} /\ pc[o] = "call"
            /\ node' \in [Nodes -> NodeStates] /\ pc' \in [Ops -> Labels] /\ failed' \in [Ops -> BOOLEAN]
            /\ target' \in [Ops -> Nodes \cup {None}] /\ worked' \subseteq Ops
            /\ \A p \in Ops : p # o => pc'[p] = pc[p] /\ failed'[p] = failed[p] /\ target'[p] = target[p]
            /\ \/ /\ target'[o] \in Nodes /\ SlugOf[target'[o]] = slug /\ node[target'[o]] = "none"
                  /\ node' = [node EXCEPT ![target'[o]] = "stopped"]
                  /\ UNCHANGED failed
                  /\ \/ pc'[o] = "bind" /\ worked' = worked
                     \/ pc'[o] = "finish" /\ worked' = worked \cup {o}
               \/ pc'[o] = "finish" /\ failed'[o] /\ UNCHANGED <<node, target, worked>>
            /\ UNCHANGED <<daemon, disk, rec, active, cause, keys, cleanup, sub, todo, aged, acked>>
<1> DEFINE r == rec[o].request
           slug == IF r.kind = "create" THEN r.slug ELSE r.child
           can == {n \in Nodes : Fresh(slug, n) /\ (r.kind = "clone" => Live(target[o]))}
<1>1. /\ ran' = [ran EXCEPT ![o] = @ + 1] /\ r.kind \in {"create", "clone"} /\ pc[o] = "call"
      /\ UNCHANGED <<daemon, disk, rec, active, cause, keys, cleanup, sub, todo, aged, acked>>
  BY DEF Create
<1>2. ASSUME NEW n \in can, node' = [node EXCEPT ![n] = "stopped"], target' = [target EXCEPT ![o] = n],
             worked' = IF r.start THEN worked ELSE worked \cup {o},
             pc' = [pc EXCEPT ![o] = IF r.start THEN "bind" ELSE "finish"], UNCHANGED failed
      PROVE  /\ node' \in [Nodes -> NodeStates] /\ pc' \in [Ops -> Labels] /\ failed' \in [Ops -> BOOLEAN]
             /\ target' \in [Ops -> Nodes \cup {None}] /\ worked' \subseteq Ops
             /\ \A p \in Ops : p # o => pc'[p] = pc[p] /\ failed'[p] = failed[p] /\ target'[p] = target[p]
             /\ target'[o] \in Nodes /\ SlugOf[target'[o]] = slug /\ node[target'[o]] = "none"
             /\ node' = [node EXCEPT ![target'[o]] = "stopped"]
             /\ \/ pc'[o] = "bind" /\ worked' = worked
                \/ pc'[o] = "finish" /\ worked' = worked \cup {o}
  BY <1>2 DEF TypeInv, Fresh, Labels, NodeStates
<1>3. ASSUME failed' = [failed EXCEPT ![o] = TRUE], pc' = [pc EXCEPT ![o] = "finish"],
             UNCHANGED <<node, target, worked>>
      PROVE  /\ node' \in [Nodes -> NodeStates] /\ pc' \in [Ops -> Labels] /\ failed' \in [Ops -> BOOLEAN]
             /\ target' \in [Ops -> Nodes \cup {None}] /\ worked' \subseteq Ops
             /\ \A p \in Ops : p # o => pc'[p] = pc[p] /\ failed'[p] = failed[p] /\ target'[p] = target[p]
             /\ pc'[o] = "finish" /\ failed'[o]
  BY <1>3 DEF TypeInv, Labels
<1>4. \/ \E n \in can : /\ node' = [node EXCEPT ![n] = "stopped"] /\ target' = [target EXCEPT ![o] = n]
                        /\ worked' = IF r.start THEN worked ELSE worked \cup {o}
                        /\ pc' = [pc EXCEPT ![o] = IF r.start THEN "bind" ELSE "finish"]
                        /\ UNCHANGED failed
      \/ /\ failed' = [failed EXCEPT ![o] = TRUE] /\ pc' = [pc EXCEPT ![o] = "finish"]
         /\ UNCHANGED <<node, target, worked>>
  BY DEF Create
<1> HIDE DEF r, slug, can
<1>5. CASE \E n \in can : /\ node' = [node EXCEPT ![n] = "stopped"] /\ target' = [target EXCEPT ![o] = n]
                          /\ worked' = IF r.start THEN worked ELSE worked \cup {o}
                          /\ pc' = [pc EXCEPT ![o] = IF r.start THEN "bind" ELSE "finish"]
                          /\ UNCHANGED failed
  BY <1>1, <1>2, <1>5 DEF r, slug
<1>6. CASE /\ failed' = [failed EXCEPT ![o] = TRUE] /\ pc' = [pc EXCEPT ![o] = "finish"]
           /\ UNCHANGED <<node, target, worked>>
  BY <1>1, <1>3, <1>6 DEF r, slug
<1> QED BY <1>4, <1>5, <1>6

LEMMA BindFacts ==
  ASSUME TypeInv, Shape, NEW o \in Ops, Bind(o), rec[o] # None, target[o] \in Nodes
  PROVE  /\ disk' \in [Ops -> Receipts \cup {None}] /\ pc' \in [Ops -> Labels]
         /\ failed' \in [Ops -> BOOLEAN] /\ cleanup' \in [Ops -> Nodes \cup {None}]
         /\ keys' \in [Ops -> SUBSET Keys] /\ pc[o] = "bind"
         /\ \A p \in Ops : disk'[p] # None => Proper(p, disk'[p])
         /\ \A p \in Ops : p # o => /\ disk'[p] = disk[p] /\ pc'[p] = pc[p] /\ failed'[p] = failed[p]
                                    /\ cleanup'[p] = cleanup[p] /\ keys'[p] = keys[p]
         /\ keys'[o] = keys[o] \cup {<<"node", target[o]>>}
         /\ disk'[o] = disk[o] \/ disk'[o] = rec[o]
         /\ \/ pc'[o] = "prepare" /\ failed'[o] = failed[o] /\ cleanup'[o] = target[o]
            \/ pc'[o] = "finish" /\ failed'[o] /\ cleanup'[o] = cleanup[o]
         /\ UNCHANGED <<node, daemon, rec, active, cause, target, sub, todo, aged, history>>
<1>1. rec[o] \in Receipts /\ Proper(o, rec[o])
  BY DEF TypeInv, Shape
<1>2. ASSUME NEW ok \in BOOLEAN, Persist(o, rec[o], ok)
      PROVE  /\ disk' \in [Ops -> Receipts \cup {None}]
             /\ \A p \in Ops : disk'[p] # None => Proper(p, disk'[p])
             /\ \A p \in Ops : p # o => disk'[p] = disk[p]
             /\ disk'[o] \in {disk[o], rec[o]}
  BY <1>1, <1>2, PersistFacts
<1>3. /\ keys' = [keys EXCEPT ![o] = @ \cup {<<"node", target[o]>>}] /\ pc[o] = "bind"
      /\ UNCHANGED <<node, daemon, rec, active, cause, target, sub, todo, aged, history>>
  BY DEF Bind
<1>4. keys' \in [Ops -> SUBSET Keys]
  BY <1>3, SMT DEF TypeInv, Keys
<1>5. CASE /\ Persist(o, rec[o], TRUE)
           /\ cleanup' = [cleanup EXCEPT ![o] = target[o]] /\ pc' = [pc EXCEPT ![o] = "prepare"]
           /\ UNCHANGED failed
  BY <1>2, <1>3, <1>4, <1>5 DEF TypeInv, Labels
<1>6. CASE /\ Persist(o, rec[o], FALSE)
           /\ failed' = [failed EXCEPT ![o] = TRUE] /\ pc' = [pc EXCEPT ![o] = "finish"]
           /\ UNCHANGED cleanup
  BY <1>2, <1>3, <1>4, <1>6 DEF TypeInv, Labels
<1> QED BY <1>5, <1>6 DEF Bind

LEMMA BootFacts ==
  ASSUME TypeInv, NEW o \in Ops, Boot(o)
  PROVE  /\ pc' = [pc EXCEPT ![o] = "finish"] /\ pc[o] = "boot"
         /\ node' \in [Nodes -> NodeStates] /\ failed' \in [Ops -> BOOLEAN]
         /\ \A n \in Nodes : n # target[o] => node'[n] = node[n]
         /\ \A p \in Ops : p # o => failed'[p] = failed[p]
         /\ \/ worked' = worked \cup {o} /\ UNCHANGED failed
            \/ UNCHANGED worked /\ failed'[o]
         /\ UNCHANGED <<daemon, disk, rec, active, cause, keys, target, cleanup, sub, todo, aged, ran, acked>>
<1>1. /\ pc' = [pc EXCEPT ![o] = "finish"] /\ pc[o] = "boot"
      /\ UNCHANGED <<daemon, disk, rec, active, cause, keys, target, cleanup, sub, todo, aged, ran, acked>>
  BY DEF Boot
<1>2. /\ node' = [node EXCEPT ![target[o]] = "running"] \/ UNCHANGED node
      /\ \/ worked' = worked \cup {o} /\ UNCHANGED failed
         \/ failed' = [failed EXCEPT ![o] = TRUE] /\ UNCHANGED worked
  BY DEF Boot
<1>3. node' \in [Nodes -> NodeStates] /\ \A n \in Nodes : n # target[o] => node'[n] = node[n]
  BY <1>2 DEF TypeInv, NodeStates
<1>4. /\ failed' \in [Ops -> BOOLEAN] /\ \A p \in Ops : p # o => failed'[p] = failed[p]
      /\ \/ worked' = worked \cup {o} /\ UNCHANGED failed
         \/ UNCHANGED worked /\ failed'[o]
  BY <1>2 DEF TypeInv
<1> QED BY <1>1, <1>3, <1>4

\* A cancel marks its operation, and reaches the workers below it.
LEMMA CancelFacts ==
  ASSUME TypeInv, Shape, NEW o \in Ops, Cancel(o), rec[o] # None
  PROVE  /\ daemon \in Up /\ o \in active
         /\ disk' \in [Ops -> Receipts \cup {None}] /\ rec' \in [Ops -> Receipts \cup {None}] /\ Shape'
         /\ cause' \in [Ops -> {"canceled", "closed", "output", None}]
         /\ \A p \in Ops : p # o => disk'[p] = disk[p] /\ rec'[p] = rec[p]
         /\ \/ disk'[o] = disk[o]
            \/ /\ disk'[o] # None /\ disk'[o].state = "canceling"
               /\ disk'[o].request = rec[o].request /\ disk'[o].member = rec[o].member
         /\ \/ rec'[o] = rec[o]
            \/ /\ rec'[o] # None /\ rec'[o].state = "canceling"
               /\ rec'[o].request = rec[o].request /\ rec'[o].member = rec[o].member
         /\ "disk" \notin plan.faults => rec'[o] = disk'[o]
         /\ \A p \in Ops : cause'[p] = cause[p] \/ (cause[p] = None /\ cause'[p] = "canceled" /\ p \in active)
         /\ UNCHANGED <<node, daemon, active, keys, pc, target, cleanup, failed, sub, todo, aged, history>>
<1> DEFINE x == SetState(o, "canceling")
<1>1. rec[o] \in Receipts /\ Proper(o, rec[o])
  BY DEF TypeInv, Shape
<1>2. /\ x \in Receipts /\ Proper(o, x) /\ x # None /\ x.state = "canceling"
      /\ x.request = rec[o].request /\ x.member = rec[o].member
  BY <1>1, StateFacts, NoneAssumption, SMT DEF SetState, Unfinished
<1>3. /\ daemon \in Up /\ o \in active
      /\ UNCHANGED <<node, daemon, active, keys, pc, target, cleanup, failed, sub, todo, aged, history>>
  BY DEF Cancel, Up
<1>4. \/ Persist(o, x, TRUE) /\ rec' = [rec EXCEPT ![o] = x] /\ cause' = Cancelled({o}, "canceled")
      \/ Persist(o, x, FALSE) /\ UNCHANGED <<rec, cause>>
  BY DEF Cancel
<1> HIDE DEF x
<1>5. /\ cause' \in [Ops -> {"canceled", "closed", "output", None}]
      /\ \A p \in Ops : cause'[p] = cause[p] \/ (cause[p] = None /\ cause'[p] = "canceled" /\ p \in active)
  BY <1>4 DEF TypeInv, Cancelled
<1>6. /\ disk' \in [Ops -> Receipts \cup {None}]
      /\ \A p \in Ops : disk'[p] # None => Proper(p, disk'[p])
      /\ \A p \in Ops : p # o => disk'[p] = disk[p]
      /\ disk'[o] \in {disk[o], x}
  BY <1>2, <1>4, PersistFacts
<1>7. /\ rec' \in [Ops -> Receipts \cup {None}] /\ \A p \in Ops : p # o => rec'[p] = rec[p]
      /\ rec'[o] \in {rec[o], x}
  BY <1>2, <1>4 DEF TypeInv
<1>8. "disk" \notin plan.faults => rec'[o] = x /\ disk'[o] = x
  BY <1>2, <1>4, PersistFacts DEF TypeInv
<1>9. Shape'
  <2>1. \A p \in Ops : rec'[p] # None => Proper(p, rec'[p])
    BY <1>2, <1>7 DEF Shape
  <2> QED BY <1>6, <2>1 DEF Shape, Proper
<1> QED BY <1>2, <1>3, <1>5, <1>6, <1>7, <1>8, <1>9

\* The first look of Submit resolves a name, or answers.
LEMMA SubmitFacts ==
  ASSUME TypeInv, NEW h \in Handlers, NEW r \in plan.requests, Submit(h, r)
  PROVE  /\ r \in Requests /\ r.id \in Ops /\ daemon \in Up
         /\ sub' \in [Handlers -> Submissions \cup {None}]
         /\ acked' = acked \/ (acked' = acked \cup {r.id} /\ Visible(r.id))
         /\ UNCHANGED <<node, daemon, disk, manager, todo, aged, ran, worked>>
<1>1. r \in Requests /\ r.id \in Ops
  BY OpsFacts DEF TypeInv
<1>2. daemon \in Up /\ UNCHANGED <<node, daemon, disk, manager, todo, aged, ran, worked>>
  BY DEF Submit, Up
<1>3. CASE /\ Visible(r.id) /\ UNCHANGED sub
           /\ acked' = IF rec[r.id].request = r THEN acked \cup {r.id} ELSE acked
  BY <1>1, <1>2, <1>3 DEF TypeInv
<1>4. ASSUME NEW n \in Nodes \cup {None}, Resolves(r, n), UNCHANGED acked,
             sub' = [sub EXCEPT ![h] = [request |-> r, node |-> n]]
      PROVE  /\ sub' \in [Handlers -> Submissions \cup {None}] /\ acked' = acked
  <2>1. [request |-> r, node |-> n] \in Submissions
    BY <1>1, <1>4 DEF Submissions, Resolves, Named
  <2> QED BY <1>4, <2>1 DEF TypeInv
<1> QED BY <1>1, <1>2, <1>3, <1>4 DEF Submit

\* What a worker may rely on.
LEMMA WorkerFacts ==
  ASSUME TypeInv, WorkInv, NEW o \in Ops, pc[o] # "idle"
  PROVE  /\ o \in active /\ Worker(o) /\ daemon \in Up
         /\ rec[o] # None /\ rec[o] \in Receipts /\ disk[o] # None /\ disk[o] \in Receipts
         /\ rec[o].state \in Unfinished /\ disk[o].state \in Unfinished /\ o \notin aged
         /\ pc[o] = "batch" <=> rec[o].member # NoMembers
BY DEF WorkInv, Worker, TypeInv

-----------------------------------------------------------------------------
(* Members and reservations.                                               *)

\* A member a batch may begin: there is nothing of it yet.
FreshChild(b, n) ==
  /\ n \in DOMAIN rec[b].member
  /\ Child(b, n) \in Children /\ Child(b, n) \in Ops /\ Child(b, n) # b
  /\ Child(b, n)[1] = b /\ Child(b, n)[2] = n
  /\ NewKid(b, n) \in Receipts /\ NewKid(b, n) # None /\ NewKid(b, n).state = "running"
  /\ NewKid(b, n).member = NoMembers /\ NewKid(b, n).request.kind \in SingleKinds
  /\ NewKid(b, n).request.kind = rec[b].request.targets[n]
  /\ NewKid(b, n).request.slug = SlugOf[n]
  /\ rec[Child(b, n)] = None /\ Child(b, n) \notin active /\ ran[Child(b, n)] = 0
  /\ Child(b, n) \notin acked /\ Child(b, n) \notin aged

\* The children a turn begins are new; it ends only when none of them is left.
LEMMA TurnChildren ==
  ASSUME TypeInv, Shape, WorkInv, NEW b \in Ops, pc[b] = "batch",
         NEW starts, NEW unsaved, NEW torn, NEW members,
         TurnChoice(b, starts, unsaved, torn, members)
  PROVE  /\ b \in Roots /\ b \notin Children /\ rec[b] \in Receipts /\ Proper(b, rec[b])
         /\ DOMAIN rec[b].member \subseteq Nodes /\ DOMAIN rec[b].member # {}
         /\ rec[b].request.kind = "batch"
         /\ \A n \in starts \cup torn : FreshChild(b, n)
         /\ starts # {} => ~Over(b, members)
         /\ \A c \in Children : c \in active /\ c[1] = b =>
              /\ ~Over(b, members) /\ c[2] \in DOMAIN rec[b].member /\ c[2] \notin starts \cup torn
              /\ members[c[2]] = rec[c].state
<1>1. rec[b] # None /\ rec[b] \in Receipts /\ rec[b].member # NoMembers /\ Proper(b, rec[b]) /\ daemon \in Up
  BY WorkerFacts DEF Shape
<1>2. /\ b \in Roots /\ b \notin Children /\ rec[b].request.kind = "batch"
      /\ DOMAIN rec[b].member \subseteq Nodes /\ DOMAIN rec[b].member # {}
  BY <1>1, RootFacts, ReceiptFacts, OpsFacts
<1>3. ASSUME NEW n \in starts \cup torn
      PROVE  FreshChild(b, n)
  <2>1. n \in DOMAIN rec[b].member /\ n \in Nodes /\ rec[Child(b, n)] = None
    BY <1>2, <1>3 DEF TurnChoice
  <2>2. /\ Child(b, n) \in Children /\ Child(b, n) \in Ops /\ Child(b, n) # b
        /\ Child(b, n)[1] = b /\ Child(b, n)[2] = n
    BY <1>2, <2>1, ChildFacts
  <2>3. /\ NewKid(b, n) \in Receipts /\ NewKid(b, n) # None /\ NewKid(b, n).state = "running"
        /\ NewKid(b, n).member = NoMembers /\ NewKid(b, n).request.kind \in SingleKinds
        /\ NewKid(b, n).request.kind = rec[b].request.targets[n]
        /\ NewKid(b, n).request.slug = SlugOf[n]
    BY <1>1, <1>2, <2>1, NewChild, SMT DEF NewKid
  <2>4. \A c \in Ops : rec[c] = None => c \notin active /\ ran[c] = 0 /\ c \notin acked /\ c \notin aged
    BY <1>1, SMT DEF WorkInv, Worker, Relied, Known, TypeInv
  <2> QED BY <2>1, <2>2, <2>3, <2>4 DEF FreshChild
<1>4. starts # {} => ~Over(b, members)
  BY DEF TurnChoice, Over, Final
<1>5. ASSUME NEW c \in Children, c \in active, c[1] = b
      PROVE  /\ ~Over(b, members) /\ c[2] \in DOMAIN rec[b].member /\ c[2] \notin starts \cup torn
             /\ members[c[2]] = rec[c].state
  <2>1. /\ c[2] \in DOMAIN rec[b].member /\ rec[c] # None /\ rec[c].state \in Unfinished
        /\ c = Child(b, c[2]) /\ c \in Ops
    BY <1>5, ChildParts DEF WorkInv, Worker
  <2>2. c[2] \notin starts \cup unsaved /\ torn \subseteq unsaved
    BY <2>1, SMT DEF TurnChoice
  <2>3. Member(b, c[2]) = rec[c].state
    BY <2>1 DEF Member
  <2>4. members[c[2]] = rec[c].state
    BY <2>1, <2>2, <2>3 DEF TurnChoice
  <2> QED BY <2>1, <2>2, <2>4 DEF Over, Final, Unfinished
<1> QED BY <1>1, <1>2, <1>3, <1>4, <1>5

\* The worker of o: its keys are its own, or those of its batch.
Owner(o) == IF o \in Children THEN o[1] ELSE o
LEMMA OwnerFacts ==
  ASSUME TypeInv, Shape, WorkInv, KeyInv, NEW o \in active, pc[o] # "batch"
  PROVE  /\ o \in Ops /\ Owner(o) \in active \ Children
         /\ o \in Children => pc[Owner(o)] = "batch" /\ target[o] = o[2] /\ o = Child(Owner(o), o[2])
         /\ target[o] # None => <<"slug", SlugOf[target[o]]>> \in keys[Owner(o)]
<1>1. o \in Ops /\ Worker(o)
  BY DEF TypeInv, WorkInv
<1>2. CASE o \notin Children
  BY <1>1, <1>2 DEF Owner, KeyInv, Reserves
<1>3. CASE o \in Children
  <2>1. /\ o[1] \in active /\ o[1] \in Ops /\ o[1] \notin Children
        /\ o[2] \in DOMAIN rec[o[1]].member /\ o = Child(o[1], o[2])
    BY <1>1, <1>3, OpsFacts, ChildParts DEF Worker
  <2>2. pc[o[1]] = "batch"
    BY <2>1, EmptyTable DEF WorkInv, Worker
  <2>3. target[o] = o[2] /\ <<"slug", SlugOf[o[2]]>> \in keys[o[1]]
    BY <1>3, <2>1 DEF KeyInv, Reserves
  <2> QED BY <1>1, <1>3, <2>1, <2>2, <2>3 DEF Owner
<1> QED BY <1>2, <1>3

\* No two workers are about one node.
LEMMA Exclusion ==
  ASSUME TypeInv, Shape, WorkInv, KeyInv, NEW o \in active, NEW p \in active, o # p,
         pc[o] # "batch", pc[p] # "batch", target[o] # None
  PROVE  target[o] # target[p]
<1> SUFFICES ASSUME target[o] = target[p] PROVE FALSE
  OBVIOUS
<1>1. Owner(o) \in active \ Children /\ Owner(p) \in active \ Children
  BY OwnerFacts
<1>2. <<"slug", SlugOf[target[o]]>> \in keys[Owner(o)] \cap keys[Owner(p)]
  BY OwnerFacts
<1>3. Owner(o) = Owner(p)
  BY <1>1, <1>2 DEF KeyInv
<1>4. o \in Children /\ p \in Children
  BY <1>3, OwnerFacts DEF Owner
<1> QED BY <1>3, <1>4, OwnerFacts

-----------------------------------------------------------------------------
(* Types.                                                                  *)

LEMMA TypeInit == Init => TypeInv /\ Shape
BY OpsFacts, NoneAssumption, SMT DEF Init, TypeInv, Shape, NodeStates, Up, Labels

LEMMA AdmitTypes ==
  ASSUME TypeInv, Shape, NEW h \in Handlers, Admit(h), UNCHANGED plan
  PROVE  TypeInv' /\ Shape'
<1>1. PICK gone \in SUBSET aged, answered, torn, begun \in BOOLEAN :
        /\ AdmitChoice(sub[h].request, sub[h].node, gone, answered, torn, begun)
        /\ AdmitEffect(sub[h].request, sub[h].node, gone, answered, torn, begun)
  BY AdmitFacts
<1> DEFINE r == sub[h].request
           n == sub[h].node
<1>2. /\ sub[h] \in Submissions /\ sub' = [sub EXCEPT ![h] = None] /\ ran' \in [Ops -> Nat]
      /\ rec' = [p \in Ops |-> rec'[p]] /\ disk' = [p \in Ops |-> disk'[p]]
  BY AdmitFacts
<1>3. r \in Requests /\ r.id \in Ops /\ n \in Nodes \cup {None} /\ KeysOf(r, n) \subseteq Keys
  BY <1>2, KeysFacts, OpsFacts
<1>4. NewReceiptOf(r) \in Receipts /\ Proper(r.id, NewReceiptOf(r))
  BY <1>3, NewReceipt DEF NewReceiptOf
<1> HIDE DEF r, n
<1>5. /\ \A p \in Ops : rec'[p] \in {None, rec[p]} \/ (p = r.id /\ rec'[p] = NewReceiptOf(r))
      /\ \A p \in Ops : disk'[p] \in {None, disk[p]} \/ (p = r.id /\ disk'[p] = NewReceiptOf(r))
  BY <1>1 DEF AdmitEffect, r
<1>6. \A p \in Ops : rec'[p] \in Receipts \cup {None} /\ disk'[p] \in Receipts \cup {None}
  BY <1>4, <1>5 DEF TypeInv
<1>7. rec' \in [Ops -> Receipts \cup {None}] /\ disk' \in [Ops -> Receipts \cup {None}]
  BY <1>2, <1>6
<1>8. Shape'
  BY <1>4, <1>5, SMT DEF Shape, Proper
<1>9. aged' \subseteq Ops /\ acked' \subseteq Ops /\ worked' \subseteq Ops
  BY <1>1, <1>3 DEF AdmitEffect, ForgetEffect, TypeInv, r
<1>10. /\ active' \subseteq Ops /\ cause' \in [Ops -> {"canceled", "closed", "output", None}]
       /\ keys' \in [Ops -> SUBSET Keys] /\ pc' \in [Ops -> Labels]
       /\ target' \in [Ops -> Nodes \cup {None}] /\ cleanup' \in [Ops -> Nodes \cup {None}]
       /\ failed' \in [Ops -> BOOLEAN]
  <2>1. CASE ~begun
    BY <1>1, <2>1 DEF AdmitEffect, TypeInv
  <2>2. CASE begun
    <3>1. Spawn(r.id, IF r.kind = "batch" THEN "batch" ELSE "phase", n,
                IF r.kind = "start" THEN n ELSE None, KeysOf(r, n))
      BY <1>1, <2>2 DEF AdmitEffect, r, n
    <3> QED BY <1>3, <3>1 DEF Spawn, TypeInv, Labels
  <2> QED BY <2>1, <2>2
<1>11. sub' \in [Handlers -> Submissions \cup {None}] /\ UNCHANGED <<node, daemon, todo>>
  BY <1>1, <1>2 DEF AdmitEffect, TypeInv
<1> QED BY <1>2, <1>7, <1>8, <1>9, <1>10, <1>11 DEF TypeInv

LEMMA TypeStep ==
  ASSUME TypeInv, Shape, WorkInv, CancelInv, Next
  PROVE  TypeInv' /\ Shape'
<1>0. plan' = plan
  BY DEF Next
<1>1. ASSUME NEW h \in Handlers, Admit(h) PROVE TypeInv' /\ Shape'
  BY <1>0, <1>1, AdmitTypes
<1>2. ASSUME NEW h \in Handlers, NEW r \in plan.requests, Submit(h, r) PROVE TypeInv' /\ Shape'
  <2>1. /\ r.id \in Ops /\ sub' \in [Handlers -> Submissions \cup {None}]
        /\ acked' = acked \/ acked' = acked \cup {r.id}
        /\ UNCHANGED <<node, daemon, disk, rec, active, cause, keys, pc, target, cleanup, failed,
                       todo, aged, ran, worked>>
    BY <1>2, SubmitFacts DEF manager
  <2>2. Shape'
    BY <2>1 DEF Shape, Proper
  <2> QED BY <1>0, <2>1, <2>2 DEF TypeInv
<1>3. ASSUME NEW o \in Ops, FirstPhase(o) \/ Prepare(o) PROVE TypeInv' /\ Shape'
  <2>1. /\ \E next \in Labels : Advance(o, next)
        /\ pc[o] # "idle"
        /\ UNCHANGED <<node, daemon, rec, active, cause, keys, target, cleanup, sub, todo, aged, history>>
    BY <1>3 DEF FirstPhase, Prepare, Labels
  <2>2. /\ disk' \in [Ops -> Receipts \cup {None}] /\ pc' \in [Ops -> Labels] /\ failed' \in [Ops -> BOOLEAN]
        /\ \A p \in Ops : disk'[p] # None => Proper(p, disk'[p])
    BY <2>1, WorkerFacts, AdvanceFacts
  <2>3. Shape'
    BY <2>1, <2>2 DEF Shape, Proper
  <2> QED BY <1>0, <2>1, <2>2, <2>3 DEF TypeInv, history
<1>4. ASSUME NEW o \in Ops, Call(o) PROVE TypeInv' /\ Shape'
  <2>1. /\ ran' = [ran EXCEPT ![o] = @ + 1] /\ pc' = [pc EXCEPT ![o] = "finish"]
        /\ node' \in [Nodes -> NodeStates] /\ failed' \in [Ops -> BOOLEAN] /\ worked' \subseteq worked \cup {o}
        /\ UNCHANGED <<daemon, disk, rec, active, cause, keys, target, cleanup, sub, todo, aged, acked>>
    BY <1>4, CallFacts
  <2>2. Shape'
    BY <2>1 DEF Shape, Proper
  <2> QED BY <1>0, <2>1, <2>2, SMT DEF TypeInv, Labels
<1>5. ASSUME NEW o \in Ops, Create(o) PROVE TypeInv' /\ Shape'
  <2>1. /\ ran' = [ran EXCEPT ![o] = @ + 1]
        /\ node' \in [Nodes -> NodeStates] /\ pc' \in [Ops -> Labels] /\ failed' \in [Ops -> BOOLEAN]
        /\ target' \in [Ops -> Nodes \cup {None}] /\ worked' \subseteq Ops
        /\ UNCHANGED <<daemon, disk, rec, active, cause, keys, cleanup, sub, todo, aged, acked>>
    BY <1>5, CreateFacts
  <2>2. Shape'
    BY <2>1 DEF Shape, Proper
  <2> QED BY <1>0, <2>1, <2>2, SMT DEF TypeInv
<1>6. ASSUME NEW o \in Ops, Bind(o) PROVE TypeInv' /\ Shape'
  <2>1. rec[o] # None /\ target[o] \in Nodes
    BY <1>6, WorkerFacts DEF Bind, CancelInv, Stoppable
  <2>2. /\ disk' \in [Ops -> Receipts \cup {None}] /\ pc' \in [Ops -> Labels]
        /\ failed' \in [Ops -> BOOLEAN] /\ cleanup' \in [Ops -> Nodes \cup {None}]
        /\ keys' \in [Ops -> SUBSET Keys]
        /\ \A p \in Ops : disk'[p] # None => Proper(p, disk'[p])
        /\ UNCHANGED <<node, daemon, rec, active, cause, target, sub, todo, aged, history>>
    BY <1>6, <2>1, BindFacts
  <2>3. Shape'
    BY <2>2 DEF Shape, Proper
  <2> QED BY <1>0, <2>2, <2>3 DEF TypeInv, history
<1>7. ASSUME NEW o \in Ops, Boot(o) PROVE TypeInv' /\ Shape'
  <2>1. /\ pc' = [pc EXCEPT ![o] = "finish"]
        /\ node' \in [Nodes -> NodeStates] /\ failed' \in [Ops -> BOOLEAN] /\ worked' \subseteq worked \cup {o}
        /\ UNCHANGED <<daemon, disk, rec, active, cause, keys, target, cleanup, sub, todo, aged, ran, acked>>
    BY <1>7, BootFacts
  <2>2. Shape'
    BY <2>1 DEF Shape, Proper
  <2> QED BY <1>0, <2>1, <2>2 DEF TypeInv, Labels
<1>8. ASSUME NEW o \in Ops, Finish(o) \/ StopVM(o) PROVE TypeInv' /\ Shape'
  <2>1. CASE /\ pc' = [pc EXCEPT ![o] = "stopping"]
             /\ UNCHANGED <<node, daemon, disk, rec, active, cause, keys, target, cleanup, failed,
                            sub, todo, aged, history>>
    <3>1. Shape'
      BY <2>1 DEF Shape, Proper
    <3> QED BY <1>0, <2>1, <3>1 DEF TypeInv, Labels, history
  <2>2. ASSUME NEW err \in BOOLEAN, NEW stopped \in BOOLEAN, Settle(o, err, stopped),
               node' \in [Nodes -> NodeStates]
        PROVE  TypeInv' /\ Shape'
    <3>1. pc[o] # "idle"
      BY <1>8 DEF Finish, StopVM
    <3>2. /\ disk' \in [Ops -> Receipts \cup {None}] /\ rec' \in [Ops -> Receipts \cup {None}]
          /\ \A p \in Ops : disk'[p] # None => Proper(p, disk'[p])
          /\ \A p \in Ops : rec'[p] # None => Proper(p, rec'[p])
      BY <2>2, <3>1, WorkerFacts, SettleFacts
    <3>3. /\ active' = active \ {o} /\ pc' = [pc EXCEPT ![o] = "idle"]
          /\ UNCHANGED <<daemon, cause, keys, target, cleanup, failed, sub, todo, aged, history>>
      BY <2>2 DEF Settle
    <3>4. Shape'
      BY <3>2 DEF Shape, Proper
    <3> QED BY <1>0, <2>2, <3>2, <3>3, <3>4 DEF TypeInv, Labels, history
  <2>3. CASE Settle(o, failed[o], TRUE) /\ UNCHANGED node
    BY <2>2, <2>3 DEF TypeInv
  <2>4. CASE Settle(o, failed[o], TRUE) /\ node' = [node EXCEPT ![cleanup[o]] = "stopped"]
    BY <2>2, <2>4 DEF TypeInv, NodeStates
  <2>5. CASE Settle(o, TRUE, FALSE) /\ UNCHANGED node
    BY <2>2, <2>5 DEF TypeInv
  <2> QED BY <1>8, <2>1, <2>3, <2>4, <2>5 DEF Finish, StopVM
<1>9. ASSUME NEW b \in Ops, Turn(b) PROVE TypeInv' /\ Shape'
  <2>1. rec[b] # None /\ rec[b] \in Receipts /\ rec[b].member # NoMembers
    BY <1>9, WorkerFacts DEF Turn
  <2>2. PICK starts, unsaved, torn \in SUBSET Nodes, done, saved \in BOOLEAN,
             members \in [DOMAIN rec[b].member -> MemberStates] :
          /\ TurnChoice(b, starts, unsaved, torn, members)
          /\ TurnEffect(b, starts, torn, members, done, saved)
    BY <1>9, <2>1, TurnFacts
  <2>3. b \in Roots /\ Proper(b, rec[b]) /\ DOMAIN rec[b].member \subseteq Nodes /\ DOMAIN rec[b].member # {}
    BY <2>1, RootFacts, ReceiptFacts DEF Shape
  <2>4. \A n \in starts \cup torn : n \in DOMAIN rec[b].member /\ n \in Nodes
    BY <2>2, <2>3 DEF TurnChoice
  <2>5. \A n \in starts \cup torn : Proper(Child(b, n), NewKid(b, n))
    BY <2>1, <2>3, <2>4, NewChild DEF NewKid
  <2>6. members # NoMembers
    BY <2>2, <2>3, EmptyTable
  <2>7. \A x \in Receipts : x.request = rec[b].request /\ x.member = members => Proper(b, x)
    BY <2>1, <2>2, <2>3, <2>6 DEF Proper
  <2>8. Shape'
    <3>1. ASSUME NEW o \in Ops, rec'[o] # None PROVE Proper(o, rec'[o])
      <4>1. CASE o = b
        BY <2>2, <2>7, <3>1, <4>1, SMT DEF TurnEffect
      <4>2. CASE o \in Begun(b, starts)
        BY <2>2, <2>5, <4>2, SMT DEF TurnEffect, Begun
      <4>3. CASE o # b /\ o \notin Begun(b, starts)
        BY <2>2, <3>1, <4>3 DEF TurnEffect, Shape
      <4> QED BY <4>1, <4>2, <4>3
    <3>2. ASSUME NEW o \in Ops, disk'[o] # None PROVE Proper(o, disk'[o])
      <4>1. CASE o = b
        BY <2>2, <2>7, <3>2, <4>1, SMT DEF TurnEffect, Shape
      <4>2. CASE o \in Begun(b, starts \cup torn)
        BY <2>2, <2>5, <4>2, SMT DEF TurnEffect, Begun
      <4>3. CASE o # b /\ o \notin Begun(b, starts \cup torn)
        BY <2>2, <3>2, <4>3 DEF TurnEffect, Shape
      <4> QED BY <4>1, <4>2, <4>3
    <3> QED BY <3>1, <3>2 DEF Shape, Proper
  <2>9. Begun(b, starts) \subseteq Ops
    BY <2>3, <2>4, ChildFacts, SMT DEF Begun
  <2>10. active' \subseteq Ops
    BY <2>2, <2>9 DEF TurnEffect, TypeInv
  <2> QED BY <1>0, <2>2, <2>8, <2>10 DEF TurnEffect, TypeInv, history
<1>10. ASSUME NEW o \in Ops, FlushFails(o) PROVE TypeInv' /\ Shape'
  <2>1. Shape'
    BY <1>10 DEF FlushFails, Shape, Proper
  <2> QED BY <1>0, <1>10, <2>1 DEF FlushFails, TypeInv, history
<1>11. ASSUME NEW o \in Ops, Cancel(o) PROVE TypeInv' /\ Shape'
  <2>1. rec[o] # None
    BY <1>11 DEF Cancel, WorkInv, Worker
  <2> QED BY <1>0, <1>11, <2>1, CancelFacts, SMT DEF TypeInv, history
<1>12. ASSUME NEW o \in Ops, Age(o) PROVE TypeInv' /\ Shape'
  <2>1. Shape'
    BY <1>12 DEF Age, manager, Shape, Proper
  <2> QED BY <1>0, <1>12, <2>1 DEF Age, manager, TypeInv, history
<1>13. CASE ListPage
  <2>1. PICK gone \in SUBSET aged :
           /\ ForgetEffect(gone) /\ acked' = acked \ gone
           /\ rec' \in [Ops -> Receipts \cup {None}] /\ disk' \in [Ops -> Receipts \cup {None}]
           /\ ran' \in [Ops -> Nat]
           /\ \A p \in Ops : rec'[p] = IF p \in gone THEN None ELSE rec[p]
           /\ \A p \in Ops : disk'[p] = IF p \in gone THEN None ELSE disk[p]
           /\ UNCHANGED <<node, daemon, active, cause, keys, pc, target, cleanup, failed, sub, todo>>
    BY <1>13, ListPageFacts
  <2>2. Shape'
    BY <2>1, SMT DEF Shape, Proper
  <2> QED BY <1>0, <2>1, <2>2 DEF TypeInv, ForgetEffect
<1>14. CASE Close
  <2>1. Shape'
    BY <1>14 DEF Close, Shape, Proper
  <2>2. cause' \in [Ops -> {"canceled", "closed", "output", None}]
    BY <1>14 DEF Close, Cancelled, TypeInv
  <2> QED BY <1>0, <1>14, <2>1, <2>2 DEF Close, TypeInv, history, Up
<1>15. CASE Die
  <2>1. Shape'
    BY <1>15 DEF Die, Shape, Proper
  <2> QED BY <1>0, <1>15, <2>1 DEF Die, TypeInv, history, Labels, Up
<1>16. CASE Restart \/ Loaded \/ Recovered
  <2>1. Shape'
    BY <1>16, SMT DEF Restart, Loaded, Recovered, manager, Shape, Proper
  <2> QED BY <1>0, <1>16, <2>1, OpsFacts DEF Restart, Loaded, Recovered, manager, TypeInv, history, Up
<1>17. ASSUME NEW o \in Ops, Load(o) PROVE TypeInv' /\ Shape'
  <2>1. disk[o] # None
    BY <1>17 DEF Load, WorkInv
  <2>2. PICK how \in {"forgotten", "loaded", "stopped"} : LoadEffect(o, how)
    BY <1>17, <2>1, LoadFacts
  <2>3. /\ disk' \in [Ops -> Receipts \cup {None}] /\ rec' \in [Ops -> Receipts \cup {None}]
        /\ ran' \in [Ops -> Nat] /\ Shape'
    BY <1>17, <2>1, LoadFacts
  <2>4. /\ daemon' \in {daemon, "down"} /\ todo' \subseteq todo /\ aged' \subseteq aged
        /\ acked' \subseteq acked /\ worked' \subseteq worked
        /\ UNCHANGED <<node, active, cause, keys, pc, target, cleanup, failed, sub>>
    BY <2>2 DEF LoadEffect, ForgetEffect, history
  <2> QED BY <1>0, <2>3, <2>4 DEF TypeInv
<1>18. ASSUME NEW b \in Ops, Project(b) PROVE TypeInv' /\ Shape'
  <2>1. b \in Roots /\ rec[b] # None /\ rec[b].member # NoMembers
    BY <1>18 DEF Project, WorkInv
  <2>2. PICK members \in [DOMAIN rec[b].member -> Final \cup Unfinished], saved \in BOOLEAN :
          ProjectEffect(b, members, saved)
    BY <1>18, <2>1, ProjectFacts
  <2>3. disk' \in [Ops -> Receipts \cup {None}] /\ rec' \in [Ops -> Receipts \cup {None}] /\ Shape'
    BY <1>18, <2>1, ProjectFacts
  <2>4. /\ daemon' \in {daemon, "down"} /\ todo' \subseteq todo
        /\ UNCHANGED <<node, active, cause, keys, pc, target, cleanup, failed, sub, aged, history>>
    BY <2>2 DEF ProjectEffect
  <2> QED BY <1>0, <2>3, <2>4 DEF TypeInv, history
<1> QED BY <1>1, <1>2, <1>3, <1>4, <1>5, <1>6, <1>7, <1>8, <1>9, <1>10, <1>11, <1>12, <1>13, <1>14,
           <1>15, <1>16, <1>17, <1>18 DEF Next, Work, Recovery

-----------------------------------------------------------------------------
(* Workers, their receipts, and what is relied on.                         *)

LEMMA WorkInit == Init => WorkInv
BY NoneAssumption, SMT DEF Init, WorkInv, Worker, Relied, Known, Up

\* A step of one worker that leaves its receipt unfinished in memory and on disk.
LEMMA WorkStepOfOne ==
  ASSUME TypeInv, WorkInv, TypeInv', NEW o \in Ops, pc[o] # "idle", pc'[o] # "idle",
         pc'[o] = "batch" <=> pc[o] = "batch",
         pc'[o] \in {"phase", "call"} => ran'[o] = 0, ran'[o] <= 1,
         \A p \in Ops : p # o => pc'[p] = pc[p] /\ ran'[p] = ran[p] /\ disk'[p] = disk[p] /\ rec'[p] = rec[p],
         rec'[o] # None, rec'[o].state \in Unfinished, rec'[o].member = rec[o].member,
         disk'[o] # None, disk'[o].state \in Unfinished,
         UNCHANGED <<daemon, active, sub, todo, aged, acked>>
  PROVE  WorkInv'
<1>1. o \in active /\ Worker(o) /\ daemon \in Up /\ rec[o] # None /\ o \notin aged
  BY WorkerFacts
<1>2. \A p \in Ops : p \in active' <=> pc'[p] # "idle"
  BY <1>1 DEF WorkInv
<1>3. \A p \in active' : Worker(p)'
  <2> SUFFICES ASSUME NEW p \in active' PROVE Worker(p)'
    OBVIOUS
  <2>1. p \in active /\ p \in Ops /\ Worker(p)
    BY DEF WorkInv, TypeInv
  <2>2. p \in Children => /\ p[1] \in active' /\ p[1] \in Ops /\ rec'[p[1]].member = rec[p[1]].member
                          /\ p[2] \in DOMAIN rec'[p[1]].member
    BY <2>1, OpsFacts, ChildParts DEF Worker
  <2>3. CASE p = o
    BY <1>1, <2>1, <2>2, <2>3 DEF Worker
  <2>4. CASE p # o
    BY <2>1, <2>2, <2>4 DEF Worker
  <2> QED BY <2>3, <2>4
<1>4. \A p \in Ops : Relied(p)' => Known(p)'
  BY <1>1, SMT DEF WorkInv, Relied, Known, Up, Final, Unfinished
<1>5. \A p \in Ops : ran'[p] <= 1
  BY DEF WorkInv
<1> QED BY <1>1, <1>2, <1>3, <1>4, <1>5 DEF WorkInv, Up

\* A worker ends: its receipt has an outcome in memory.
LEMMA WorkStepOfEnd ==
  ASSUME TypeInv, WorkInv, TypeInv', Shape, NEW o \in Ops, pc[o] # "idle", pc[o] # "batch",
         rec'[o] # None, disk'[o] # None,
         \A p \in Ops : p # o => disk'[p] = disk[p] /\ rec'[p] = rec[p],
         active' = active \ {o}, pc' = [pc EXCEPT ![o] = "idle"],
         UNCHANGED <<daemon, sub, todo, aged, history>>
  PROVE  WorkInv'
<1>1. o \in active /\ Worker(o) /\ daemon \in Up /\ rec[o] # None /\ o \notin aged
  BY WorkerFacts
<1>2. UNCHANGED <<ran, acked>>
  BY DEF history
<1>3. \A p \in Ops : p \in active' <=> pc'[p] # "idle"
  BY <1>1 DEF WorkInv, TypeInv
<1>4. \A p \in active' : Worker(p)'
  <2> SUFFICES ASSUME NEW p \in active' PROVE Worker(p)'
    OBVIOUS
  <2>1. p \in active /\ p \in Ops /\ Worker(p) /\ p # o
    BY DEF WorkInv, TypeInv
  <2>2. p \in Children => p[1] # o
    <3>1. rec[o] \in Receipts /\ rec[o].member = NoMembers
      BY WorkerFacts
    <3> QED BY <2>1, <3>1, EmptyTable DEF Worker
  <2>3. p \in Children => p[1] \in active' /\ p[1] \in Ops /\ rec'[p[1]] = rec[p[1]]
    BY <2>1, <2>2, OpsFacts, ChildParts DEF Worker
  <2> QED BY <1>2, <2>1, <2>3 DEF Worker, TypeInv
<1>5. \A p \in Ops : Relied(p)' => Known(p)'
  BY <1>1, <1>2 DEF WorkInv, Relied, Known, Up
<1> QED BY <1>1, <1>2, <1>3, <1>4, <1>5 DEF WorkInv, Up

\* Receipts nobody relies on any more are forgotten, and a request may begin.
LEMMA WorkStepOfAdmit ==
  ASSUME TypeInv, Shape, WorkInv, TypeInv', NEW h \in Handlers, Admit(h)
  PROVE  WorkInv'
<1>1. PICK gone \in SUBSET aged, answered, torn, begun \in BOOLEAN :
        /\ AdmitChoice(sub[h].request, sub[h].node, gone, answered, torn, begun)
        /\ AdmitEffect(sub[h].request, sub[h].node, gone, answered, torn, begun)
  BY AdmitFacts
<1> DEFINE r == sub[h].request
           n == sub[h].node
           o == r.id
           x == NewReceiptOf(r)
<1>2. /\ sub[h] \in Submissions /\ sub' = [sub EXCEPT ![h] = None] /\ sub[h] # None
  BY AdmitFacts DEF Admit
<1>3. r \in Requests /\ o \in Ids /\ o \in Ops /\ o \notin Children
  BY <1>2, KeysFacts, OpsFacts
<1>4. /\ x # None /\ x.state = "running" /\ (r.kind = "batch" <=> x.member # NoMembers)
  BY <1>3, NewReceipt DEF NewReceiptOf
<1> HIDE DEF r, n, o, x
<1>5. daemon \in Up /\ daemon' = daemon
  BY <1>1, <1>2 DEF WorkInv, AdmitEffect
<1>6. \A p \in gone : p \in Ops /\ p \notin active
  BY DEF WorkInv, Worker, TypeInv
<1>7. /\ aged' = aged \ gone /\ acked' = (acked \ gone) \cup (IF answered \/ begun THEN {o} ELSE {})
      /\ \A p \in Ops : ran'[p] = IF p \in gone THEN 0 ELSE ran[p]
      /\ \A p \in Ops : rec'[p] = IF begun /\ p = o THEN x ELSE IF p \in gone THEN None ELSE rec[p]
      /\ \A p \in Ops : disk'[p] = IF (torn \/ begun) /\ p = o THEN x ELSE IF p \in gone THEN None ELSE disk[p]
  BY <1>1 DEF AdmitEffect, ForgetEffect, r, n, o, x
<1>8. torn \/ begun => gone = aged /\ ~Visible(o)
  BY <1>1 DEF AdmitChoice, r, o
<1>9. answered => Visible(o)
  BY <1>1 DEF AdmitChoice, r, o
<1>10. torn \/ begun => /\ o \notin active /\ o \notin acked \ aged
                        /\ (IF o \in aged THEN 0 ELSE ran[o]) = 0
                        /\ o \notin aged => rec[o] = None
  BY <1>3, <1>5, <1>8, SMT DEF Visible, WorkInv, Worker, Relied, Known, TypeInv
<1>11. /\ begun => /\ pc' = [pc EXCEPT ![o] = IF r.kind = "batch" THEN "batch" ELSE "phase"]
                   /\ active' = active \cup {o}
       /\ ~begun => UNCHANGED <<active, pc>>
  BY <1>1 DEF AdmitEffect, Spawn, r, n, o
<1>12. \A p \in Ops : p \in active' <=> pc'[p] # "idle"
  BY <1>3, <1>11, SMT DEF WorkInv, TypeInv
<1>13. \A p \in active' : Worker(p)'
  <2> SUFFICES ASSUME NEW p \in active' PROVE Worker(p)'
    OBVIOUS
  <2>1. p \in Ops
    BY DEF TypeInv
  <2>2. CASE p \in active
    <3>1. Worker(p) /\ p \notin gone /\ ~((torn \/ begun) /\ p = o)
      BY <1>6, <1>10, <2>2 DEF WorkInv
    <3>2. p \in Children => p[1] \in active /\ p[1] \in Ops /\ p[1] \notin gone /\ ~((torn \/ begun) /\ p[1] = o)
      BY <1>6, <1>10, <3>1, OpsFacts, ChildParts DEF Worker
    <3>3. p \in Children => p[1] \in active' /\ rec'[p[1]] = rec[p[1]]
      BY <1>7, <1>11, <3>2
    <3>4. pc'[p] = pc[p] /\ rec'[p] = rec[p] /\ disk'[p] = disk[p] /\ ran'[p] = ran[p] /\ p \notin aged'
      BY <1>7, <1>11, <2>1, <3>1 DEF Worker, TypeInv
    <3> QED BY <2>1, <3>1, <3>2, <3>3, <3>4 DEF Worker
  <2>3. CASE p \notin active
    <3>1. begun /\ p = o
      BY <1>11, <2>3
    <3> QED BY <1>3, <1>4, <1>7, <1>8, <1>10, <1>11, <3>1 DEF Worker, Unfinished, TypeInv
  <2> QED BY <2>2, <2>3
<1>14. \A p \in Ops : Relied(p)' => Known(p)'
  <2> SUFFICES ASSUME NEW p \in Ops, Relied(p)' PROVE Known(p)'
    OBVIOUS
  <2>1. CASE (torn \/ begun) /\ p = o
    <3>1. CASE begun
      BY <1>4, <1>5, <1>7, <2>1, <3>1 DEF Known, Up
    <3>2. CASE ~begun
      <4>1. rec'[p] = None
        BY <1>7, <1>8, <1>10, <2>1, <3>2
      <4>2. p \notin acked' /\ ran'[p] = 0 /\ p \notin aged'
        BY <1>7, <1>8, <1>9, <1>10, <2>1, <3>2
      <4>3. disk'[p] = x
        BY <1>7, <2>1
      <4> QED BY <1>4, <4>1, <4>2, <4>3, SMT DEF Relied, Final
    <3> QED BY <3>1, <3>2
  <2>2. CASE ~((torn \/ begun) /\ p = o) /\ p \in gone
    <3>1. ~Visible(p)
      BY <2>2 DEF Visible
    <3>2. p \notin acked'
      BY <1>7, <1>9, <2>2, <3>1
    <3> QED BY <1>7, <2>2, <3>2, SMT DEF Relied
  <2>3. CASE ~((torn \/ begun) /\ p = o) /\ p \notin gone
    <3>1. Relied(p)
      BY <1>7, <1>9, <2>3 DEF Relied, Visible
    <3> QED BY <1>5, <1>7, <2>3, <3>1 DEF WorkInv, Known, Up
  <2> QED BY <2>1, <2>2, <2>3
<1>15. \A p \in Ops : ran'[p] <= 1
  BY <1>7, SMT DEF WorkInv
<1>16. \A g \in Handlers : sub'[g] # None => daemon' \in Up
  BY <1>5
<1> QED BY <1>5, <1>12, <1>13, <1>14, <1>15, <1>16 DEF WorkInv, Up

LEMMA WorkStepOfTurn ==
  ASSUME TypeInv, Shape, WorkInv, TypeInv', NEW b \in Ops, Turn(b)
  PROVE  WorkInv'
<1>1. /\ pc[b] = "batch" /\ rec[b] # None /\ rec[b].member # NoMembers /\ b \in active
      /\ daemon \in Up /\ b \notin aged /\ disk[b] # None
      /\ rec[b].state \in Unfinished /\ disk[b].state \in Unfinished
  BY WorkerFacts DEF Turn
<1>2. PICK starts, unsaved, torn \in SUBSET Nodes, done, saved \in BOOLEAN,
           members \in [DOMAIN rec[b].member -> MemberStates] :
        /\ TurnChoice(b, starts, unsaved, torn, members)
        /\ TurnEffect(b, starts, torn, members, done, saved)
  BY <1>1, TurnFacts
<1>3. /\ b \in Roots /\ b \notin Children
      /\ DOMAIN rec[b].member \subseteq Nodes /\ DOMAIN rec[b].member # {}
      /\ starts # {} => ~done
      /\ \A n \in starts \cup torn : FreshChild(b, n)
      /\ \A c \in Children : c \in active /\ c[1] = b => ~done /\ c[2] \in DOMAIN rec[b].member
  <2>1. done <=> Over(b, members)
    BY <1>2 DEF TurnEffect
  <2> QED BY <1>1, <1>2, <2>1, TurnChildren, SMT
<1>4. \A n \in starts \cup torn :
        /\ n \in DOMAIN rec[b].member /\ Child(b, n) \in Children /\ Child(b, n) \in Ops
        /\ Child(b, n)[1] = b /\ Child(b, n)[2] = n /\ Child(b, n) # b
        /\ NewKid(b, n) # None /\ NewKid(b, n).state = "running" /\ NewKid(b, n).member = NoMembers
        /\ rec[Child(b, n)] = None /\ Child(b, n) \notin active /\ ran[Child(b, n)] = 0
        /\ Child(b, n) \notin acked /\ Child(b, n) \notin aged
  BY <1>3 DEF FreshChild
<1>5. /\ \A o \in Ops : o # b /\ o \notin Begun(b, starts) => rec'[o] = rec[o] /\ pc'[o] = pc[o]
      /\ \A o \in Ops : o # b /\ o \notin Begun(b, starts \cup torn) => disk'[o] = disk[o]
      /\ \A n \in starts : rec'[Child(b, n)] = NewKid(b, n) /\ pc'[Child(b, n)] = "phase"
      /\ \A n \in starts \cup torn : disk'[Child(b, n)] = NewKid(b, n)
      /\ pc'[b] = (IF done THEN "idle" ELSE "batch")
      /\ active' = (active \cup Begun(b, starts)) \ (IF done THEN {b} ELSE {})
      /\ UNCHANGED <<daemon, sub, todo, aged, ran, acked>>
  BY <1>2 DEF TurnEffect, history
<1>6. /\ rec'[b] # None /\ rec'[b].member = members /\ members # NoMembers
      /\ DOMAIN members = DOMAIN rec[b].member
      /\ ~done => rec'[b].state = rec[b].state
      /\ disk'[b] # None
      /\ ~done => disk'[b].state \in Unfinished
  <2>1. DOMAIN members = DOMAIN rec[b].member /\ members # NoMembers
    BY <1>3, EmptyTable
  <2> QED BY <1>1, <1>2, <2>1 DEF TurnEffect
<1>7. \A o \in Begun(b, starts \cup torn) : \E n \in starts \cup torn : o = Child(b, n)
  BY DEF Begun
<1>8. \A o \in Begun(b, starts) : \E n \in starts : o = Child(b, n)
  BY DEF Begun
<1>9. \A n \in starts : Child(b, n) \in Begun(b, starts)
  BY DEF Begun
<1>10. \A o \in Ops : o \in active' <=> pc'[o] # "idle"
  <2> SUFFICES ASSUME NEW o \in Ops PROVE o \in active' <=> pc'[o] # "idle"
    OBVIOUS
  <2>1. CASE o = b
    BY <1>1, <1>5, <2>1
  <2>2. CASE o \in Begun(b, starts)
    BY <1>4, <1>5, <1>8, <2>2, SMT
  <2>3. CASE o # b /\ o \notin Begun(b, starts)
    BY <1>5, <2>3 DEF WorkInv
  <2> QED BY <2>1, <2>2, <2>3
<1>11. \A o \in active' : Worker(o)'
  <2> SUFFICES ASSUME NEW o \in active' PROVE Worker(o)'
    OBVIOUS
  <2>1. o \in Ops
    BY DEF TypeInv
  <2>2. CASE o = b
    <3>1. ~done
      BY <1>5, <2>2
    <3> QED BY <1>1, <1>3, <1>5, <1>6, <2>2, <3>1 DEF Worker
  <2>3. CASE o \in Begun(b, starts)
    <3>1. PICK n \in starts : o = Child(b, n)
      BY <1>8, <2>3
    <3>2. b \in active' /\ n \in DOMAIN rec'[b].member
      BY <1>1, <1>3, <1>4, <1>5, <1>6, <3>1
    <3>3. /\ rec'[o] = NewKid(b, n) /\ disk'[o] = NewKid(b, n) /\ pc'[o] = "phase"
          /\ ran'[o] = 0 /\ o \notin aged'
      BY <1>4, <1>5, <3>1
    <3> QED BY <1>4, <3>1, <3>2, <3>3, SMT DEF Worker, Unfinished
  <2>4. CASE o # b /\ o \notin Begun(b, starts)
    <3>1. o \in active /\ Worker(o)
      BY <1>5, <2>4 DEF WorkInv
    <3>2. o \notin Begun(b, starts \cup torn)
      <4> SUFFICES ASSUME o \in Begun(b, starts \cup torn) PROVE FALSE
        OBVIOUS
      <4>1. PICK n \in starts \cup torn : o = Child(b, n)
        BY <1>7
      <4> QED BY <1>4, <3>1, <4>1
    <3>3. o \in Children => /\ o[1] \in active' /\ o[1] \in Ops
                            /\ o[2] \in DOMAIN rec'[o[1]].member
      <4>1. CASE o \in Children /\ o[1] = b
        BY <1>1, <1>3, <1>5, <1>6, <3>1, <4>1 DEF Worker
      <4>2. CASE o \in Children /\ o[1] # b
        <5>1. o[1] \in active /\ o[1] \in Ops /\ o[1] \notin Children /\ o[2] \in DOMAIN rec[o[1]].member
          BY <3>1, <4>2, OpsFacts, ChildParts DEF Worker
        <5>2. o[1] \notin Begun(b, starts)
          BY <1>4, <1>8, <5>1, SMT
        <5> QED BY <1>5, <4>2, <5>1, <5>2
      <4> QED BY <4>1, <4>2
    <3>4. rec'[o] = rec[o] /\ disk'[o] = disk[o] /\ pc'[o] = pc[o]
      BY <1>5, <2>1, <2>4, <3>2
    <3> QED BY <1>5, <3>1, <3>3, <3>4 DEF Worker
  <2> QED BY <2>2, <2>3, <2>4
<1>12. \A o \in Ops : Relied(o)' => Known(o)'
  <2> SUFFICES ASSUME NEW o \in Ops, Relied(o)' PROVE Known(o)'
    OBVIOUS
  <2>1. CASE o = b
    BY <1>1, <1>5, <1>6, <2>1 DEF Known, Up
  <2>2. CASE o \in Begun(b, starts)
    BY <1>1, <1>4, <1>5, <1>8, <2>2, SMT DEF Known, Up
  <2>3. CASE o # b /\ o \notin Begun(b, starts) /\ o \in Begun(b, starts \cup torn)
    <3>1. PICK n \in starts \cup torn : o = Child(b, n)
      BY <1>7, <2>3
    <3>2. rec'[o] = None /\ disk'[o].state = "running" /\ ran'[o] = 0 /\ o \notin acked' /\ o \notin aged'
      BY <1>4, <1>5, <2>3, <3>1
    <3> QED BY <3>2, SMT DEF Relied, Final
  <2>4. CASE o # b /\ o \notin Begun(b, starts) /\ o \notin Begun(b, starts \cup torn)
    BY <1>1, <1>5, <2>4 DEF WorkInv, Relied, Known, Up
  <2> QED BY <2>1, <2>2, <2>3, <2>4
<1>13. \A o \in Ops : ran'[o] <= 1
  BY <1>5 DEF WorkInv
<1> QED BY <1>1, <1>5, <1>10, <1>11, <1>12, <1>13 DEF WorkInv, Up

\* Receipts that are old are forgotten; no worker has one.
LEMMA WorkStepOfForget ==
  ASSUME TypeInv, WorkInv, TypeInv', NEW gone \in SUBSET aged, ForgetEffect(gone), acked' = acked \ gone,
         \A p \in Ops : rec'[p] = IF p \in gone THEN None ELSE rec[p],
         \A p \in Ops : disk'[p] = IF p \in gone THEN None ELSE disk[p],
         daemon \in Up, UNCHANGED <<daemon, active, pc, sub, todo>>
  PROVE  WorkInv'
<1>1. \A p \in active : p \in Ops /\ Worker(p) /\ p \notin gone
  BY DEF WorkInv, Worker, TypeInv
<1>2. \A p \in active' : Worker(p)'
  <2> SUFFICES ASSUME NEW p \in active PROVE Worker(p)'
    OBVIOUS
  <2>1. p \in Children => p[1] \in active /\ p[1] \in Ops /\ rec'[p[1]] = rec[p[1]]
    BY <1>1 DEF Worker
  <2>2. rec'[p] = rec[p] /\ disk'[p] = disk[p] /\ ran'[p] = ran[p] /\ p \notin aged'
    BY <1>1 DEF ForgetEffect, Worker
  <2> QED BY <1>1, <2>1, <2>2 DEF Worker
<1>3. \A p \in Ops : Relied(p)' => Known(p)'
  <2> SUFFICES ASSUME NEW p \in Ops, Relied(p)' PROVE Known(p)'
    OBVIOUS
  <2>1. p \notin gone
    BY SMT DEF Relied, ForgetEffect
  <2> QED BY <2>1 DEF Relied, Known, WorkInv, ForgetEffect, Up
<1>4. \A p \in Ops : ran'[p] <= 1
  BY SMT DEF WorkInv, ForgetEffect
<1> QED BY <1>2, <1>3, <1>4 DEF WorkInv, Up

\* The daemon is gone: nothing is left but what is on disk.
LEMMA WorkStepOfStop ==
  ASSUME TypeInv, WorkInv, TypeInv', NEW how \in {"down"}, daemon' = how,
         \A p \in Ops : disk[p] # None => disk'[p] # None,
         \A p \in Ops : disk'[p] # None /\ disk'[p].state \in Final => Relied(p) \/ disk[p] # None,
         \A p \in Ops : rec'[p] = None, \A p \in Ops : pc'[p] = "idle", active' = {},
         \A h \in Handlers : sub'[h] = None, todo' = {}, UNCHANGED <<aged, ran, acked>>
  PROVE  WorkInv'
<1>1. \A p \in Ops : Relied(p)' => Known(p)'
  BY DEF WorkInv, Relied, Known, Up
<1> QED BY <1>1 DEF WorkInv, Up

LEMMA WorkStep ==
  ASSUME TypeInv, Shape, WorkInv, CancelInv, Next, TypeInv', Shape'
  PROVE  WorkInv'
<1>1. ASSUME NEW h \in Handlers, Admit(h) PROVE WorkInv'
  BY <1>1, WorkStepOfAdmit
<1>2. ASSUME NEW h \in Handlers, NEW r \in plan.requests, Submit(h, r) PROVE WorkInv'
  <2>1. /\ r.id \in Ops /\ daemon \in Up
        /\ acked' = acked \/ (acked' = acked \cup {r.id} /\ Visible(r.id))
        /\ UNCHANGED <<daemon, disk, rec, active, pc, todo, aged, ran>>
    BY <1>2, SubmitFacts DEF manager
  <2>2. \A p \in Ops : Relied(p)' => Known(p)'
    BY <2>1, SMT DEF WorkInv, Relied, Known, Visible, Up
  <2>3. \A p \in active' : Worker(p)'
    BY <2>1 DEF WorkInv, Worker
  <2> QED BY <2>1, <2>2, <2>3 DEF WorkInv, Up
<1>3. ASSUME NEW o \in Ops, FirstPhase(o) \/ Prepare(o) PROVE WorkInv'
  <2>1. PICK next \in Labels : Advance(o, next) /\ next \in {"call", "boot"} /\ (next = "call" => pc[o] = "phase")
    BY <1>3 DEF FirstPhase, Prepare, Labels
  <2>2. /\ pc[o] \in {"phase", "prepare"}
        /\ UNCHANGED <<daemon, rec, active, sub, todo, aged, ran, acked>>
    BY <1>3 DEF FirstPhase, Prepare, history
  <2>3. /\ rec[o] # None /\ rec[o].state \in Unfinished /\ disk[o] # None /\ disk[o].state \in Unfinished
        /\ Worker(o)
    BY <2>2, WorkerFacts
  <2>4. /\ \A p \in Ops : p # o => disk'[p] = disk[p] /\ pc'[p] = pc[p]
        /\ disk'[o] = disk[o] \/ disk'[o] = rec[o]
        /\ pc'[o] = next \/ pc'[o] = "finish"
    BY <2>1, <2>3, AdvanceFacts
  <2>5. ran[o] <= 1 /\ (pc'[o] \in {"phase", "call"} => ran[o] = 0)
    BY <2>1, <2>2, <2>3, <2>4 DEF WorkInv, Worker
  <2> QED BY <2>1, <2>2, <2>3, <2>4, <2>5, WorkStepOfOne
<1>4. ASSUME NEW o \in Ops, Call(o) \/ Create(o) PROVE WorkInv'
  <2>1. /\ pc[o] = "call" /\ ran' = [ran EXCEPT ![o] = @ + 1]
        /\ pc'[o] \in {"bind", "finish"} /\ \A p \in Ops : p # o => pc'[p] = pc[p]
        /\ UNCHANGED <<daemon, disk, rec, active, sub, todo, aged, acked>>
    <3>1. CASE Call(o)
      BY <3>1, CallFacts, SMT DEF TypeInv
    <3>2. CASE Create(o)
      BY <3>2, CreateFacts
    <3> QED BY <1>4, <3>1, <3>2
  <2>2. /\ rec[o] # None /\ rec[o].state \in Unfinished /\ disk[o] # None /\ disk[o].state \in Unfinished
        /\ Worker(o)
    BY <2>1, WorkerFacts
  <2>3. ran'[o] = 1 /\ \A p \in Ops : p # o => ran'[p] = ran[p]
    BY <2>1, <2>2, SMT DEF Worker, TypeInv
  <2> QED BY <2>1, <2>2, <2>3, WorkStepOfOne, SMT
<1>5. ASSUME NEW o \in Ops, Bind(o) \/ Boot(o) PROVE WorkInv'
  <2>1. pc[o] \in {"bind", "boot"}
    BY <1>5 DEF Bind, Boot
  <2>2. /\ rec[o] # None /\ rec[o].state \in Unfinished /\ disk[o] # None /\ disk[o].state \in Unfinished
        /\ o \in active
    BY <2>1, WorkerFacts
  <2>3. /\ \A p \in Ops : p # o => disk'[p] = disk[p] /\ pc'[p] = pc[p]
        /\ disk'[o] = disk[o] \/ disk'[o] = rec[o]
        /\ pc'[o] = "prepare" \/ pc'[o] = "finish"
        /\ UNCHANGED <<daemon, rec, active, sub, todo, aged, acked, ran>>
    <3>1. CASE Bind(o)
      <4>1. target[o] \in Nodes
        BY <2>2, <3>1 DEF Bind, CancelInv, Stoppable
      <4> QED BY <2>2, <3>1, <4>1, BindFacts DEF history
    <3>2. CASE Boot(o)
      BY <3>2, BootFacts, SMT DEF TypeInv
    <3> QED BY <1>5, <3>1, <3>2
  <2>4. ran'[o] <= 1
    BY <2>3 DEF WorkInv
  <2> QED BY <2>1, <2>2, <2>3, <2>4, WorkStepOfOne
<1>6. ASSUME NEW o \in Ops, Finish(o) \/ StopVM(o) PROVE WorkInv'
  <2>1. pc[o] \in {"finish", "stopping"}
    BY <1>6 DEF Finish, StopVM
  <2>2. /\ rec[o] # None /\ rec[o].state \in Unfinished /\ disk[o] # None /\ disk[o].state \in Unfinished
    BY <2>1, WorkerFacts
  <2>3. CASE /\ pc' = [pc EXCEPT ![o] = "stopping"]
             /\ UNCHANGED <<node, daemon, disk, rec, active, cause, keys, target, cleanup, failed,
                            sub, todo, aged, history>>
    <3>1. /\ pc'[o] = "stopping" /\ \A p \in Ops : p # o => pc'[p] = pc[p]
          /\ UNCHANGED <<daemon, disk, rec, active, sub, todo, aged, ran, acked>> /\ ran[o] <= 1
      BY <2>3 DEF TypeInv, history, WorkInv
    <3> QED BY <2>1, <2>2, <3>1, WorkStepOfOne
  <2>4. ASSUME NEW err \in BOOLEAN, NEW stopped \in BOOLEAN, Settle(o, err, stopped)
        PROVE  WorkInv'
    <3>1. /\ \A p \in Ops : p # o => disk'[p] = disk[p] /\ rec'[p] = rec[p]
          /\ rec'[o] # None /\ disk'[o] # None
      BY <2>2, <2>4, SettleFacts
    <3>2. /\ active' = active \ {o} /\ pc' = [pc EXCEPT ![o] = "idle"]
          /\ UNCHANGED <<daemon, sub, todo, aged, history>>
      BY <2>4 DEF Settle
    <3> QED BY <2>1, <3>1, <3>2, WorkStepOfEnd
  <2>5. failed[o] \in BOOLEAN
    BY DEF TypeInv
  <2> QED BY <1>6, <2>3, <2>4, <2>5 DEF Finish, StopVM
<1>7. ASSUME NEW b \in Ops, Turn(b) PROVE WorkInv'
  BY <1>7, WorkStepOfTurn
<1>8. ASSUME NEW o \in Ops, FlushFails(o) PROVE WorkInv'
  <2>1. UNCHANGED <<daemon, disk, rec, active, pc, sub, todo, aged, ran, acked>>
    BY <1>8 DEF FlushFails, history
  <2> QED BY <2>1 DEF WorkInv, Worker, Relied, Known
<1>9. ASSUME NEW o \in Ops, Cancel(o) PROVE WorkInv'
  <2>1. o \in active /\ rec[o] # None /\ rec[o].state \in Unfinished /\ disk[o] # None
        /\ disk[o].state \in Unfinished /\ pc[o] # "idle" /\ Worker(o)
    BY <1>9 DEF Cancel, WorkInv, Worker
  <2>2. /\ \A p \in Ops : p # o => disk'[p] = disk[p] /\ rec'[p] = rec[p]
        /\ disk'[o] # None /\ disk'[o].state \in Unfinished
        /\ rec'[o] # None /\ rec'[o].state \in Unfinished /\ rec'[o].member = rec[o].member
        /\ UNCHANGED <<daemon, active, pc, sub, todo, aged, ran, acked>>
    BY <1>9, <2>1, CancelFacts DEF Unfinished, history
  <2>3. ran[o] <= 1 /\ (pc[o] \in {"phase", "call"} => ran[o] = 0)
    BY <2>1 DEF WorkInv, Worker
  <2> QED BY <2>1, <2>2, <2>3, WorkStepOfOne
<1>10. ASSUME NEW o \in Ops, Age(o) PROVE WorkInv'
  <2>1. /\ rec[o] # None /\ o \notin active /\ aged' = aged \cup {o}
        /\ UNCHANGED <<daemon, disk, rec, active, pc, sub, todo, ran, acked>>
    BY <1>10 DEF Age, manager, history
  <2>2. \A p \in Ops : Relied(p)' => Known(p)'
    BY <2>1 DEF WorkInv, Relied, Known
  <2>3. \A p \in active' : Worker(p)'
    BY <2>1 DEF WorkInv, Worker
  <2> QED BY <2>1, <2>2, <2>3 DEF WorkInv
<1>11. CASE ListPage
  <2>1. PICK gone \in SUBSET aged :
           /\ ForgetEffect(gone) /\ acked' = acked \ gone
           /\ \A p \in Ops : rec'[p] = IF p \in gone THEN None ELSE rec[p]
           /\ \A p \in Ops : disk'[p] = IF p \in gone THEN None ELSE disk[p]
           /\ daemon \in Up /\ UNCHANGED <<daemon, active, pc, sub, todo>>
    BY <1>11, ListPageFacts
  <2> QED BY <2>1, WorkStepOfForget
<1>12. CASE Close
  <2>1. daemon = "up" /\ daemon' = "closed" /\ UNCHANGED <<disk, rec, active, pc, sub, todo, aged, ran, acked>>
    BY <1>12 DEF Close, history
  <2>2. \A p \in Ops : Relied(p)' => Known(p)'
    BY <2>1 DEF WorkInv, Relied, Known, Up
  <2>3. \A p \in active' : Worker(p)'
    BY <2>1 DEF WorkInv, Worker
  <2> QED BY <2>1, <2>2, <2>3 DEF WorkInv, Up
<1>13. CASE Die
  <2>1. /\ daemon' = "down" /\ todo' = {} /\ active' = {}
        /\ \A p \in Ops : rec'[p] = None /\ pc'[p] = "idle"
        /\ \A h \in Handlers : sub'[h] = None
        /\ UNCHANGED <<disk, aged, ran, acked>>
    BY <1>13 DEF Die, history
  <2> QED BY <2>1, WorkStepOfStop DEF Relied
<1>14. CASE Restart
  <2>1. /\ daemon = "down" /\ daemon' = "loading" /\ todo' = {o \in Ops : disk[o] # None}
        /\ UNCHANGED <<disk, rec, active, pc, sub, aged, ran, acked>>
    BY <1>14 DEF Restart, manager, history
  <2>2. active = {}
    BY <2>1 DEF WorkInv, Up
  <2>3. \A p \in Ops : Relied(p)' => Known(p)'
    BY <2>1 DEF WorkInv, Relied, Known, Up
  <2> QED BY <2>1, <2>2, <2>3 DEF WorkInv, Up
<1>15. CASE Loaded
  <2>1. /\ daemon = "loading" /\ todo = {} /\ daemon' = "projecting"
        /\ todo' = {b \in Roots : rec[b] # None /\ rec[b].member # NoMembers /\ rec[b].state = "interrupted"}
        /\ UNCHANGED <<disk, rec, active, pc, sub, aged, ran, acked>>
    BY <1>15 DEF Loaded, manager, history
  <2>2. active = {}
    BY <2>1 DEF WorkInv, Up
  <2>3. \A p \in Ops : Relied(p)' => Known(p)'
    BY <2>1 DEF WorkInv, Relied, Known, Up
  <2> QED BY <2>1, <2>2, <2>3 DEF WorkInv, Up
<1>16. CASE Recovered
  <2>1. /\ daemon = "projecting" /\ daemon' = "up"
        /\ UNCHANGED <<disk, rec, active, pc, sub, todo, aged, ran, acked>>
    BY <1>16 DEF Recovered, manager, history
  <2>2. active = {}
    BY <2>1 DEF WorkInv, Up
  <2>3. \A p \in Ops : Relied(p)' => Known(p)'
    BY <2>1 DEF WorkInv, Relied, Known, Up
  <2> QED BY <2>1, <2>2, <2>3 DEF WorkInv, Up
<1>17. ASSUME NEW o \in Ops, Load(o) PROVE WorkInv'
  <2>1. daemon = "loading" /\ o \in todo /\ disk[o] # None /\ rec[o] = None
    BY <1>17 DEF Load, WorkInv
  <2>2. active = {} /\ (\A p \in Ops : pc[p] = "idle") /\ \A h \in Handlers : sub[h] = None
    BY <2>1 DEF WorkInv, Up
  <2>3. PICK how \in {"forgotten", "loaded", "stopped"} : LoadEffect(o, how)
    BY <1>17, <2>1, LoadFacts
  <2>4. CASE how = "forgotten"
    <3>1. /\ \A p \in Ops : p # o => disk'[p] = disk[p]
          /\ disk'[o] = None /\ ForgetEffect({o}) /\ acked' = acked \ {o}
          /\ todo' = todo \ {o} /\ UNCHANGED <<daemon, rec, active, pc, sub>>
      BY <2>3, <2>4 DEF LoadEffect
    <3>2. \A p \in Ops : Relied(p)' => Known(p)'
      BY <2>1, <3>1, SMT DEF WorkInv, Relied, Known, ForgetEffect, Up
    <3>3. (\A p \in todo' : rec'[p] = None /\ disk'[p] # None) /\ \A p \in Ops : rec'[p] # None => rec'[p] = disk'[p]
      BY <2>1, <3>1 DEF WorkInv, TypeInv
    <3>4. \A p \in Ops : ran'[p] <= 1
      BY <3>1, SMT DEF WorkInv, ForgetEffect
    <3> QED BY <2>1, <2>2, <3>1, <3>2, <3>3, <3>4 DEF WorkInv, Up
  <2>5. CASE how = "loaded"
    <3>1. /\ \A p \in Ops : p # o => disk'[p] = disk[p] /\ rec'[p] = rec[p]
          /\ disk'[o] # None /\ rec'[o] = disk'[o]
          /\ todo' = todo \ {o} /\ UNCHANGED <<daemon, active, pc, sub, aged, ran, acked>>
      BY <2>3, <2>5 DEF LoadEffect, history
    <3>2. \A p \in Ops : Relied(p)' => Known(p)'
      BY <2>1, <3>1 DEF WorkInv, Relied, Known, Up
    <3>3. (\A p \in todo' : rec'[p] = None /\ disk'[p] # None) /\ \A p \in Ops : rec'[p] # None => rec'[p] = disk'[p]
      BY <2>1, <3>1, SMT DEF WorkInv, TypeInv
    <3> QED BY <2>1, <2>2, <3>1, <3>2, <3>3 DEF WorkInv, Up
  <2>6. CASE how = "stopped"
    <3>1. /\ \A p \in Ops : p # o => disk'[p] = disk[p]
          /\ disk'[o] # None /\ daemon' = "down" /\ todo' = {} /\ \A p \in Ops : rec'[p] = None
          /\ UNCHANGED <<active, pc, sub, aged, ran, acked>>
      BY <2>1, <2>3, <2>6 DEF LoadEffect, history
    <3> QED BY <2>1, <2>2, <3>1, WorkStepOfStop
  <2> QED BY <2>4, <2>5, <2>6
<1>18. ASSUME NEW b \in Ops, Project(b) PROVE WorkInv'
  <2>1. daemon = "projecting" /\ b \in todo /\ b \in Roots /\ rec[b] # None /\ rec[b].member # NoMembers
    BY <1>18 DEF Project, WorkInv
  <2>2. active = {} /\ (\A p \in Ops : pc[p] = "idle") /\ \A h \in Handlers : sub[h] = None
    BY <2>1 DEF WorkInv, Up
  <2>3. disk[b] # None
    BY <2>1 DEF WorkInv, Relied, Known
  <2>4. PICK members \in [DOMAIN rec[b].member -> Final \cup Unfinished], saved \in BOOLEAN :
          ProjectEffect(b, members, saved)
    BY <1>18, <2>1, ProjectFacts
  <2>5. /\ \A p \in Ops : p # b => disk'[p] = disk[p]
        /\ disk'[b] # None /\ UNCHANGED <<active, pc, sub, aged, ran, acked>>
    BY <2>3, <2>4 DEF ProjectEffect, history
  <2>6. CASE saved
    <3>1. /\ \A p \in Ops : p # b => rec'[p] = rec[p]
          /\ rec'[b] = disk'[b] /\ todo' = todo \ {b} /\ UNCHANGED daemon
      BY <2>4, <2>6 DEF ProjectEffect
    <3>2. \A p \in Ops : Relied(p)' => Known(p)'
      BY <2>1, <2>5, <3>1 DEF WorkInv, Relied, Known, Up
    <3>3. /\ \A p \in Ops : rec'[p] # None => rec'[p] = disk'[p]
          /\ \A p \in todo' : /\ p \in Roots /\ rec'[p] # None
                              /\ rec'[p].member # NoMembers /\ rec'[p].state = "interrupted"
      BY <2>1, <2>5, <3>1 DEF WorkInv, TypeInv
    <3> QED BY <2>1, <2>2, <2>5, <3>1, <3>2, <3>3 DEF WorkInv, Up
  <2>7. CASE ~saved
    <3>1. daemon' = "down" /\ todo' = {} /\ \A p \in Ops : rec'[p] = None
      BY <2>4, <2>7 DEF ProjectEffect
    <3> QED BY <2>2, <2>3, <2>5, <3>1, WorkStepOfStop
  <2> QED BY <2>6, <2>7
<1> QED BY <1>1, <1>2, <1>3, <1>4, <1>5, <1>6, <1>7, <1>8, <1>9, <1>10, <1>11, <1>12, <1>13, <1>14,
           <1>15, <1>16, <1>17, <1>18 DEF Next, Work, Recovery
=============================================================================

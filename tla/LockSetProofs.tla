--------------------------- MODULE LockSetProofs ---------------------------
(***************************************************************************)
(* Locks are taken in order, and locked sections are atomic, whatever the  *)
(* processes, the nodes and the sections.                                  *)
(***************************************************************************)
EXTENDS LockSet, TLAPS

\* Where an acquisition leads, or where the process is.
Stage(p) == IF pc[p] = "acquire" THEN job[p].then ELSE pc[p]

\* A section about a node knows which.
NamesNode(j) == j.kind \in OfNode \cup {"reserve"} => j.node \in Nodes

\* What makes the order inductive: the nested per-node set is only asked for
\* by a process that has domain locks and nothing else.
Orderly(p) ==
  /\ pc[p] # "acquire" => want[p] = {}
  /\ pc[p] = "acquire" => job[p].then \in {"section", "recheck", "environments"}
  /\ \A l \in Locks, m \in want[p] : holder[l] = p => l < m
  /\ Stage(p) = "recheck" =>
       /\ want[p] \subseteq Domains
       /\ \A l \in Locks : holder[l] = p => l \in Domains
  /\ Stage(p) \in {"section", "write"} => NamesNode(job[p])

OrderInv == TypeOK /\ \A p \in Procs : Orderly(p)

\* Locks are numbers; a node lock comes after every domain.
LEMMA LockOrder ==
  /\ Locks \subseteq Nat
  /\ Domains \subseteq Locks
  /\ \A n \in Nodes : NodeLock(n) \in Locks /\ NodeLock(n) \notin Domains
  /\ \A l \in Domains, n \in Nodes : l < NodeLock(n)
  /\ \A m, n \in Nodes : NodeLock(m) = NodeLock(n) => m = n
  BY NodesAssumption DEF Locks, Domains, NodeLock

\* The initial states are orderly.
LEMMA OrderInit == Init => OrderInv
<1> SUFFICES ASSUME Init PROVE OrderInv
  OBVIOUS
<1>1. NoJob \in Job
  BY DEF NoJob, Job, Labels
<1>2. \A p \in Procs : Held(p) = {}
  BY NoneAssumption DEF Init, Held
<1>3. TypeOK
  BY <1>1, <1>2 DEF Init, TypeOK, Labels
<1>4. \A p \in Procs : Orderly(p)
  BY NoneAssumption DEF Init, Orderly, Stage
<1> QED
  BY <1>3, <1>4 DEF OrderInv

\* Changing a local variable of a section leaves a section.
LEMMA JobUpdate ==
  ASSUME NEW j \in Job
  PROVE  /\ \A b \in BOOLEAN : [j EXCEPT !.missing = b] \in Job
         /\ \A b \in BOOLEAN : LET i == [j EXCEPT !.missing = b]
                              IN i.kind = j.kind /\ i.node = j.node /\ i.then = j.then
         /\ \A n \in Nodes : [j EXCEPT !.todo = j.todo \ {n}, !.node = n] \in Job
  BY DEF Job

\* What an acquisition does to its process.
LEMMA AcquireFacts ==
  ASSUME TypeOK, NEW p \in Procs, NEW locks \in SUBSET Locks, NEW j \in Job,
         j.then \in {"section", "recheck", "environments"}, Acquire(p, locks, j)
  PROVE  /\ pc' \in [Procs -> Labels] /\ job' \in [Procs -> Job]
         /\ want' \in [Procs -> SUBSET Locks]
         /\ want'[p] = locks /\ job'[p] = j /\ pc'[p] # "idle"
         /\ pc'[p] = "acquire" \/ (locks = {} /\ pc'[p] = j.then)
         /\ \A q \in Procs \ {p} : pc'[q] = pc[q] /\ job'[q] = job[q] /\ want'[q] = want[q]
  BY DEF Acquire, Goto, TypeOK, Labels, Passing, Job

\* What the end of a section does to its process.
LEMMA FinishFacts ==
  ASSUME TypeOK, NEW p \in Procs, Finish(p)
  PROVE  /\ pc' \in [Procs -> Labels] /\ job' \in [Procs -> Job]
         /\ want' \in [Procs -> SUBSET Locks] /\ read' \in [Procs -> SUBSET Locks]
         /\ want'[p] = {} /\ read'[p] = {}
         /\ pc'[p] = "release" \/ (pc'[p] = "idle" /\ job'[p] = NoJob /\ Held(p) = {})
         /\ \A q \in Procs \ {p} : /\ pc'[q] = pc[q] /\ job'[q] = job[q]
                                   /\ want'[q] = want[q] /\ read'[q] = read[q]
<1>1. NoJob \in Job
  BY DEF NoJob, Job, Labels
<1> QED
  BY <1>1 DEF Finish, Goto, TypeOK, Labels

\* A step of one process leaves the others orderly.
LEMMA OrderFrame ==
  ASSUME OrderInv, NEW p \in Procs,
         holder' \in [Locks -> Procs \cup {None}],
         home' \in [Nodes -> {"absent", "reserved", "record", "corrupt"}],
         builtin' \in Nat, stamp' \in BOOLEAN,
         pc' \in [Procs -> Labels], job' \in [Procs -> Job],
         want' \in [Procs -> SUBSET Locks], read' \in [Procs -> SUBSET Locks],
         stale' \in [Procs -> SUBSET Locks],
         \A q \in Procs \ {p} : pc'[q] = pc[q] /\ job'[q] = job[q] /\ want'[q] = want[q],
         \A q \in Procs \ {p}, l \in Locks : holder'[l] = q <=> holder[l] = q,
         pc'[p] = "idle" => job'[p] = NoJob /\ \A l \in Locks : holder'[l] # p,
         Orderly(p)'
  PROVE  OrderInv'
<1>1. TypeOK'
  BY DEF OrderInv, TypeOK, Held
<1>2. ASSUME NEW q \in Procs \ {p} PROVE Orderly(q)'
  BY <1>2 DEF OrderInv, Orderly, Stage
<1> QED
  BY <1>1, <1>2 DEF OrderInv

\* Take keeps the order: the lock it gets is the least one wanted.
LEMMA TakeOrder ==
  ASSUME OrderInv, NEW p \in Procs, Take(p)
  PROVE  OrderInv'
<1>1. PICK l \in want[p] : /\ \A m \in want[p] : l <= m
                           /\ holder[l] = None
                           /\ holder' = [holder EXCEPT ![l] = p]
                           /\ want' = [want EXCEPT ![p] = @ \ {l}]
                           /\ Goto(p, IF want[p] = {l} THEN job[p].then ELSE "acquire")
  BY DEF Take
<1>2. /\ pc[p] = "acquire" /\ l \in Locks /\ want[p] \subseteq Locks
      /\ job[p].then \in {"section", "recheck", "environments"}
      /\ UNCHANGED <<home, builtin, stamp, job, read, stale>>
  BY DEF Take, OrderInv, TypeOK, Orderly, metadata
<1>3. /\ want'[p] = want[p] \ {l} /\ holder'[l] = p
      /\ \A m \in Locks \ {l} : holder'[m] = holder[m]
      /\ pc'[p] = "acquire" \/ (want'[p] = {} /\ pc'[p] = job[p].then)
  BY <1>1, <1>2 DEF OrderInv, TypeOK, Goto
<1>4. /\ holder' \in [Locks -> Procs \cup {None}] /\ pc' \in [Procs -> Labels]
      /\ want' \in [Procs -> SUBSET Locks]
      /\ \A q \in Procs \ {p} : pc'[q] = pc[q] /\ want'[q] = want[q]
  BY <1>1, <1>2 DEF OrderInv, TypeOK, Goto, Labels, Passing
<1>5. Orderly(p)'
  <2>1. Stage(p)' = Stage(p) /\ job'[p] = job[p]
    BY <1>2, <1>3 DEF Stage
  <2>2. Orderly(p)
    BY DEF OrderInv
  <2>3. \A k \in Locks, m \in want'[p] : holder'[k] = p => k < m
    BY <1>1, <1>2, <1>3, <2>2, LockOrder DEF Orderly
  <2> QED
    BY <1>1, <1>2, <1>3, <2>1, <2>2, <2>3 DEF Orderly
<1>6. \A q \in Procs \ {p}, m \in Locks : holder'[m] = q <=> holder[m] = q
  BY <1>1, <1>2, <1>3, NoneAssumption
<1> QED
  BY <1>2, <1>3, <1>4, <1>5, <1>6, OrderFrame DEF OrderInv, TypeOK

\* Closing keeps the order.
LEMMA ReleaseOrder ==
  ASSUME OrderInv, NEW p \in Procs, Release(p)
  PROVE  OrderInv'
<1>1. PICK l \in Held(p) :
        /\ holder' = [holder EXCEPT ![l] = None]
        /\ IF Held(p) = {l} THEN Goto(p, "idle") /\ job' = [job EXCEPT ![p] = NoJob]
                            ELSE UNCHANGED <<pc, job>>
  BY DEF Release
<1>2. /\ pc[p] = "release" /\ l \in Locks /\ holder[l] = p
      /\ UNCHANGED <<home, builtin, stamp, want, read, stale>>
  BY DEF Release, Held, metadata
<1>3. NoJob \in Job
  BY DEF NoJob, Job, Labels
<1>4. CASE Held(p) = {l}
  <2>1. /\ pc'[p] = "idle" /\ job'[p] = NoJob /\ pc' \in [Procs -> Labels]
        /\ job' \in [Procs -> Job]
        /\ \A q \in Procs \ {p} : pc'[q] = pc[q] /\ job'[q] = job[q]
    BY <1>1, <1>3, <1>4 DEF OrderInv, TypeOK, Goto, Labels
  <2>2. \A m \in Locks : holder'[m] # p
    BY <1>1, <1>2, <1>4, NoneAssumption DEF OrderInv, TypeOK, Held
  <2>3. Orderly(p)'
    BY <1>2, <2>1, <2>2 DEF OrderInv, Orderly, Stage
  <2> QED
    BY <1>1, <1>2, <2>1, <2>2, <2>3, OrderFrame, NoneAssumption DEF OrderInv, TypeOK
<1>5. CASE Held(p) # {l}
  <2>1. UNCHANGED <<pc, job>>
    BY <1>1, <1>5
  <2>2. Orderly(p)'
    BY <1>1, <1>2, <2>1, NoneAssumption DEF OrderInv, Orderly, Stage, TypeOK
  <2> QED
    BY <1>1, <1>2, <2>1, <2>2, OrderFrame, NoneAssumption DEF OrderInv, TypeOK
<1> QED
  BY <1>4, <1>5

\* A crash keeps the order: the kernel drops every flock of the process.
LEMMA CrashOrder ==
  ASSUME OrderInv, NEW p \in Procs, Crash(p)
  PROVE  OrderInv'
<1>1. NoJob \in Job
  BY DEF NoJob, Job, Labels
<1>2. /\ pc'[p] = "idle" /\ job'[p] = NoJob /\ want'[p] = {}
      /\ \A l \in Locks : holder'[l] # p
  BY NoneAssumption DEF Crash, Goto, OrderInv, TypeOK
<1>3. /\ holder' \in [Locks -> Procs \cup {None}] /\ pc' \in [Procs -> Labels]
      /\ job' \in [Procs -> Job] /\ want' \in [Procs -> SUBSET Locks]
      /\ read' \in [Procs -> SUBSET Locks] /\ stale' \in [Procs -> SUBSET Locks]
      /\ UNCHANGED <<home, builtin, stamp>>
      /\ \A q \in Procs \ {p} : pc'[q] = pc[q] /\ job'[q] = job[q] /\ want'[q] = want[q]
  BY <1>1 DEF Crash, Goto, OrderInv, TypeOK, Labels, metadata
<1>4. \A q \in Procs \ {p}, l \in Locks : holder'[l] = q <=> holder[l] = q
  BY NoneAssumption DEF Crash, OrderInv, TypeOK
<1>5. Orderly(p)'
  BY <1>2 DEF Orderly, Stage
<1> QED
  BY <1>2, <1>3, <1>4, <1>5, OrderFrame DEF OrderInv, TypeOK

\* A step that neither takes nor gives a lock and does not start or end a section.
LEMMA QuietOrder ==
  ASSUME OrderInv, NEW p \in Procs, UNCHANGED <<holder, want>>,
         home' \in [Nodes -> {"absent", "reserved", "record", "corrupt"}],
         builtin' \in Nat, stamp' \in BOOLEAN,
         pc' \in [Procs -> Labels], job' \in [Procs -> Job],
         read' \in [Procs -> SUBSET Locks], stale' \in [Procs -> SUBSET Locks],
         \A q \in Procs \ {p} : pc'[q] = pc[q] /\ job'[q] = job[q],
         pc[p] \notin {"idle", "acquire"}, pc'[p] \notin {"idle", "acquire", "recheck"},
         pc'[p] \in {"section", "write"} => NamesNode(job'[p])
  PROVE  OrderInv'
<1>1. Orderly(p)'
  BY DEF OrderInv, Orderly, Stage
<1> QED
  BY <1>1, OrderFrame DEF OrderInv, TypeOK

\* A step that ends a section or gives an acquisition up.
LEMMA FinishOrder ==
  ASSUME OrderInv, NEW p \in Procs, Finish(p), UNCHANGED holder,
         home' \in [Nodes -> {"absent", "reserved", "record", "corrupt"}],
         builtin' \in Nat, stamp' \in BOOLEAN, stale' \in [Procs -> SUBSET Locks]
  PROVE  OrderInv'
<1>1. Orderly(p)'
  BY FinishFacts DEF OrderInv, Orderly, Stage
<1>2. pc'[p] = "idle" => \A l \in Locks : holder'[l] # p
  BY FinishFacts DEF OrderInv, Held
<1> QED
  BY <1>1, <1>2, FinishFacts, OrderFrame DEF OrderInv, TypeOK

\* What a write does to the history of the others.
LEMMA TouchFacts ==
  ASSUME TypeOK, NEW p \in Procs, NEW items, Touch(p, items)
  PROVE  stale' \in [Procs -> SUBSET Locks]
  BY DEF Touch, TypeOK

\* The directories after a section are directories.
LEMMA SectionHomeType ==
  ASSUME TypeOK, NEW p \in Procs
  PROVE  SectionHome(p) \in [Nodes -> {"absent", "reserved", "record", "corrupt"}]
<1> DEFINE k == job[p].kind
           n == job[p].node
<1>1. \A st \in {"absent", "reserved", "record", "corrupt"} :
        [home EXCEPT ![n] = st] \in [Nodes -> {"absent", "reserved", "record", "corrupt"}]
  BY DEF TypeOK
<1>2. [m \in Nodes |-> IF m \in Unreadable THEN "absent" ELSE home[m]]
        \in [Nodes -> {"absent", "reserved", "record", "corrupt"}]
  BY DEF TypeOK
<1> QED
  BY <1>1, <1>2 DEF SectionHome, TypeOK

\* The domains a section asks for are domains.
LEMMA SectionDomainsType == \A k : SectionDomains(k) \subseteq Domains
  BY DEF SectionDomains, Domains, Configurations, Environments, NodeListing, Settings

\* What the request of a section sets up.
LEMMA withLocksFacts ==
  ASSUME TypeOK, NEW p \in Procs, withLocks(p)
  PROVE  \E j \in Job, locks \in SUBSET Locks :
           /\ j.then = "section" /\ NamesNode(j) /\ Acquire(p, locks, j)
           /\ SectionDomains(j.kind) \subseteq locks
           /\ j.kind \in OfNode => NodeLock(j.node) \in locks
           /\ j.kind = "quarantine" => \A m \in Unreadable : NodeLock(m) \in locks
<1>1. PICK k \in Kinds \ {"seed", "repair"}, n \in Nodes \cup {None} :
        /\ IF k \in OfNode \cup {"reserve"} THEN n \in Nodes ELSE n = None
        /\ Acquire(p, SectionDomains(k)
                       \cup (IF k \in OfNode THEN {NodeLock(n)} ELSE {})
                       \cup (IF k = "quarantine" THEN {NodeLock(m) : m \in Unreadable} ELSE {}),
                   [NoJob EXCEPT !.kind = k, !.node = n, !.then = "section"])
  BY DEF withLocks
<1> DEFINE j == [NoJob EXCEPT !.kind = k, !.node = n, !.then = "section"]
           locks == SectionDomains(k)
                       \cup (IF k \in OfNode THEN {NodeLock(n)} ELSE {})
                       \cup (IF k = "quarantine" THEN {NodeLock(m) : m \in Unreadable} ELSE {})
<1>2. /\ j \in Job /\ j.kind = k /\ j.node = n /\ j.then = "section"
  BY DEF NoJob, Job, Labels
<1>3. NamesNode(j)
  BY <1>1, <1>2 DEF NamesNode
<1>4. locks \in SUBSET Locks
  BY <1>1, SectionDomainsType, LockOrder DEF OfNode, Unreadable
<1>5. /\ SectionDomains(k) \subseteq locks
      /\ k \in OfNode => NodeLock(n) \in locks
      /\ k = "quarantine" => \A m \in Unreadable : NodeLock(m) \in locks
  OBVIOUS
<1> HIDE DEF locks
<1>6. Acquire(p, locks, j)
  BY <1>1 DEF locks
<1> HIDE DEF j
<1> QED
  BY <1>1, <1>2, <1>3, <1>4, <1>5, <1>6

\* A new acquisition keeps the order when the process holds nothing, or only
\* domain locks while it asks for node locks.
LEMMA AcquireOrder ==
  ASSUME OrderInv, NEW p \in Procs, NEW locks \in SUBSET Locks, NEW j \in Job,
         j.then \in {"section", "recheck", "environments"}, Acquire(p, locks, j),
         j.then = "section" => NamesNode(j),
         UNCHANGED <<holder, home, builtin, stamp, read, stale>>,
         \A l \in Locks, m \in locks : holder[l] = p => l < m,
         j.then = "recheck" => locks \subseteq Domains /\ \A l \in Locks : holder[l] # p
  PROVE  OrderInv'
<1>1. Orderly(p)'
  BY AcquireFacts DEF OrderInv, Orderly, Stage
<1> QED
  BY <1>1, AcquireFacts, OrderFrame DEF OrderInv, TypeOK

\* Every step keeps the order.
LEMMA OrderStep ==
  ASSUME OrderInv, NEW p \in Procs,
         Step(p) \/ withLocks(p) \/ seedAndRepair(p) \/ GiveUp(p) \/ Crash(p)
  PROVE  OrderInv'
<1> USE DEF OrderInv
<1>1. CASE withLocks(p)
  <2>1. PICK j \in Job, locks \in SUBSET Locks :
          j.then = "section" /\ NamesNode(j) /\ Acquire(p, locks, j)
    BY <1>1, withLocksFacts
  <2>2. \A l \in Locks : holder[l] # p
    BY <1>1 DEF withLocks, TypeOK, Held
  <2>3. UNCHANGED <<holder, home, builtin, stamp, read, stale>>
    BY <1>1 DEF withLocks, metadata
  <2> QED
    BY <2>1, <2>2, <2>3, AcquireOrder
<1>2. CASE seedAndRepair(p)
  <2>1. PICK k \in Kinds :
          Acquire(p, Domains, [NoJob EXCEPT !.kind = k, !.then = "recheck"])
    BY <1>2 DEF seedAndRepair
  <2>2. \A l \in Locks : holder[l] # p
    BY <1>2 DEF seedAndRepair, TypeOK, Held
  <2>3. UNCHANGED <<holder, home, builtin, stamp, read, stale>>
    BY <1>2 DEF seedAndRepair, metadata
  <2> DEFINE j == [NoJob EXCEPT !.kind = k, !.then = "recheck"]
  <2>4. j \in Job /\ j.then = "recheck"
    BY DEF NoJob, Job, Labels
  <2>5. Acquire(p, Domains, j)
    BY <2>1
  <2> HIDE DEF j
  <2> QED
    BY <2>2, <2>3, <2>4, <2>5, AcquireOrder, LockOrder
<1>3. CASE Recheck(p)
  <2>1. UNCHANGED <<holder, home, builtin, stamp, stale>> /\ pc[p] = "recheck"
    BY <1>3 DEF Recheck, metadata
  <2>2. CASE Finish(p)
    BY <2>1, <2>2, FinishOrder DEF TypeOK
  <2> DEFINE locks == {NodeLock(n) : n \in {m \in Nodes : home[m] # "absent"}}
             j == [job[p] EXCEPT !.then = "environments"]
  <2>3. CASE Acquire(p, locks, j) /\ UNCHANGED read
    <3>2. j \in Job /\ j.then = "environments"
      BY ZenonT(30) DEF TypeOK, Job, Labels, Passing
    <3>3. locks \in SUBSET Locks /\ \A l \in Domains, m \in locks : l < m
      BY LockOrder
    <3>4. \A l \in Locks : holder[l] = p => l \in Domains
      BY <2>1 DEF Orderly, Stage
    <3> HIDE DEF j, locks
    <3> QED
      BY <2>1, <2>3, <3>2, <3>3, <3>4, AcquireOrder
  <2> QED
    BY <1>3, <2>2, <2>3 DEF Recheck
<1>4. CASE GiveUp(p)
  BY <1>4, FinishOrder DEF GiveUp, TypeOK, metadata
<1>5. CASE Write(p)
  BY <1>5, FinishOrder, TouchFacts, SectionHomeType DEF Write, TypeOK
<1>6. CASE PassStamp(p)
  BY <1>6, FinishOrder DEF PassStamp, TypeOK
<1>7. CASE Section(p)
  <2> DEFINE j == [job[p] EXCEPT !.missing = (job[p].kind = "environment" /\ builtin = 0)]
  <2>3. job[p] \in Job /\ j \in Job /\ j.kind = job[p].kind /\ j.node = job[p].node
    <3>1. job[p] \in Job /\ (job[p].kind = "environment" /\ builtin = 0) \in BOOLEAN
      BY DEF TypeOK
    <3> QED
      BY <3>1, JobUpdate
  <2>4. job' = [job EXCEPT ![p] = j] /\ pc[p] = "section"
    BY <1>7 DEF Section
  <2> HIDE DEF j
  <2>1. /\ job' \in [Procs -> Job] /\ NamesNode(job'[p]) /\ NamesNode(job[p])
        /\ \A q \in Procs \ {p} : job'[q] = job[q]
    BY <2>3, <2>4 DEF TypeOK, Orderly, Stage, NamesNode
  <2>2. read' \in [Procs -> SUBSET Locks]
    <3>1. SectionDomains(job[p].kind) \subseteq Locks
      BY SectionDomainsType, LockOrder
    <3>2. job[p].kind \in OfNode /\ home[job[p].node] # "absent"
             => NodeLock(job[p].node) \in Locks
      BY <2>1, LockOrder DEF NamesNode
    <3> QED
      BY <1>7, <3>1, <3>2 DEF Section, TypeOK
  <2> QED
    BY <1>7, <2>1, <2>2, QuietOrder DEF Section, TypeOK, Goto, Labels, metadata
<1>8. CASE PassEnvironments(p)
  <2>1. job' \in [Procs -> Job] /\ \A q \in Procs \ {p} : job'[q] = job[q]
    <3>1. job[p] \in Job /\ (builtin = 0) \in BOOLEAN
      BY DEF TypeOK
    <3>2. [job[p] EXCEPT !.missing = (builtin = 0)] \in Job
      BY <3>1, JobUpdate
    <3> QED
      BY <1>8, <3>2 DEF PassEnvironments, TypeOK
  <2>2. read' \in [Procs -> SUBSET Locks] /\ stale' \in [Procs -> SUBSET Locks]
    BY <1>8, LockOrder DEF PassEnvironments, TypeOK, Environments, Domains
  <2>3. /\ pc' \in [Procs -> Labels] /\ pc[p] = "environments"
        /\ pc'[p] = "seed_environment" /\ \A q \in Procs \ {p} : pc'[q] = pc[q]
    BY <1>8 DEF PassEnvironments, TypeOK, Goto, Labels, Passing
  <2>4. UNCHANGED <<holder, home, builtin, stamp, want>>
    BY <1>8 DEF PassEnvironments, metadata
  <2> QED
    BY <2>1, <2>2, <2>3, <2>4, QuietOrder DEF TypeOK
<1>9. CASE PassSeed(p)
  <2>1. job' \in [Procs -> Job] /\ \A q \in Procs \ {p} : job'[q] = job[q]
    BY <1>9, ZenonT(30) DEF PassSeed, TypeOK, Job
  <2> QED
    BY <1>9, <2>1, QuietOrder, TouchFacts DEF PassSeed, TypeOK, Goto, Labels, Passing
<1>10. CASE PassNode(p)
  <2>1. PICK n \in job[p].todo :
          /\ job' = [job EXCEPT ![p].todo = @ \ {n}, ![p].node = n]
          /\ \/ read' = [read EXCEPT ![p] = {NodeLock(n)}] /\ Goto(p, "refresh_node")
             \/ UNCHANGED <<read, pc>>
    BY <1>10 DEF PassNode
  <2>2. n \in Nodes /\ pc[p] = "next_node" /\ UNCHANGED <<holder, home, builtin, stamp, want, stale>>
    BY <1>10, <2>1 DEF PassNode, TypeOK, Job, metadata
  <2> DEFINE j == [job[p] EXCEPT !.todo = @ \ {n}, !.node = n]
  <2>3. j \in Job
    <3>1. job[p] \in Job
      BY DEF TypeOK
    <3> QED
      BY <2>2, <3>1, JobUpdate
  <2>4. job' = [job EXCEPT ![p] = j]
    BY <2>1 DEF TypeOK
  <2> HIDE DEF j
  <2>5. job' \in [Procs -> Job] /\ \A q \in Procs \ {p} : job'[q] = job[q]
    BY <2>3, <2>4 DEF TypeOK
  <2>6. /\ pc' \in [Procs -> Labels] /\ pc'[p] \in {"next_node", "refresh_node"}
        /\ read' \in [Procs -> SUBSET Locks] /\ \A q \in Procs \ {p} : pc'[q] = pc[q]
    BY <2>1, <2>2, LockOrder DEF TypeOK, Goto, Labels, Passing
  <2> QED
    BY <2>2, <2>5, <2>6, QuietOrder DEF TypeOK
<1>11. CASE PassRefresh(p)
  BY <1>11, QuietOrder, TouchFacts DEF PassRefresh, TypeOK, Goto, Labels, Passing, metadata
<1> QED
  BY <1>1, <1>2, <1>3, <1>4, <1>5, <1>6, <1>7, <1>8, <1>9, <1>10, <1>11,
     TakeOrder, ReleaseOrder, CrashOrder DEF Step

\* A stuttering step keeps the order.
LEMMA StutterOrder ==
  ASSUME OrderInv, UNCHANGED vars
  PROVE  OrderInv'
  BY DEF vars, OrderInv, TypeOK, Held, Orderly, Stage

\* OrderInv is inductive.
LEMMA OrderNext == OrderInv /\ [Next]_vars => OrderInv'
  BY OrderStep, StutterOrder DEF Next

\* The types of the metadata locks, and an idle process holds no flock: Close
\* and every failed acquisition give everything back.
THEOREM TypeCorrect == Spec => []TypeOK
<1>1. OrderInv => TypeOK
  BY DEF OrderInv
<1> QED
  BY <1>1, OrderInit, OrderNext, PTL DEF Spec

\* Whatever the processes, the nodes and the sections, with cancelled waits
\* and crashes, what a process waits for comes after all that it has in the
\* order of lockPaths; so waiting never closes a circle.
THEOREM Ordered == Spec => []OrderedAcquisition
<1>1. OrderInv => OrderedAcquisition
  BY DEF OrderInv, Orderly, OrderedAcquisition, Held
<1> QED
  BY <1>1, OrderInit, OrderNext, PTL DEF Spec

-----------------------------------------------------------------------------
(* Atomic sections.                                                        *)

\* The process has the lock or has asked for it and will not go on without it.
Gets(p, l) == holder[l] = p \/ l \in want[p]

\* What makes a section atomic: it gets the locks of all it reads before it
\* reads, and the set of node directories cannot grow under the seed pass,
\* which has the nodes lock.
Atomic(p) ==
  /\ Stage(p) = "recheck" => \A l \in Domains : Gets(p, l)
  /\ Stage(p) \in Passing =>
       /\ \A l \in Domains : holder[l] = p
       /\ \A n \in Nodes : home[n] # "absent" => Gets(p, NodeLock(n))
  /\ Stage(p) \in {"section", "write"} =>
       /\ \A l \in SectionDomains(job[p].kind) : Gets(p, l)
       /\ job[p].kind \in OfNode => Gets(p, NodeLock(job[p].node))
       /\ job[p].kind = "quarantine" => \A n \in Unreadable : Gets(p, NodeLock(n))
  /\ pc[p] \in {"idle", "acquire", "release", "recheck"} => read[p] = {}
  /\ pc[p] = "refresh_node" => NodeLock(job[p].node) \in read[p]
  /\ \A l \in read[p] : holder[l] = p
  /\ \A n \in Nodes : NodeLock(n) \in read[p] => home[n] # "absent"
  /\ stale[p] = {}

AtomInv == OrderInv /\ \A p \in Procs : Atomic(p)

\* The initial states are atomic.
LEMMA AtomInit == Init => AtomInv
<1>1. Init => \A p \in Procs : Atomic(p)
  BY DEF Init, Atomic, Stage, Passing
<1> QED
  BY <1>1, OrderInit DEF AtomInv

\* A step of one process leaves the sections of the others atomic: a directory
\* appears only under the nodes lock, disappears only under its own lock, and
\* nothing becomes unreadable.
LEMMA AtomFrame ==
  ASSUME AtomInv, NEW p \in Procs, OrderInv',
         \A q \in Procs \ {p} : /\ pc'[q] = pc[q] /\ job'[q] = job[q]
                                /\ want'[q] = want[q] /\ read'[q] = read[q],
         \A q \in Procs \ {p}, l \in Locks : holder'[l] = q <=> holder[l] = q,
         \A n \in Nodes : home'[n] # "absent" /\ home[n] = "absent" => holder[NodeListing] = p,
         \A n \in Nodes : home'[n] = "absent" /\ home[n] # "absent" => holder[NodeLock(n)] = p,
         \A n \in Nodes : home'[n] = "corrupt" => home[n] = "corrupt",
         \A q \in Procs \ {p} : stale'[q] = {},
         Atomic(p)'
  PROVE  AtomInv'
<1> SUFFICES ASSUME NEW q \in Procs \ {p} PROVE Atomic(q)'
  BY DEF AtomInv
<1>1. Atomic(q) /\ Stage(q)' = Stage(q) /\ q # p
  BY DEF AtomInv, Stage
<1>0. /\ pc'[q] = pc[q] /\ job'[q] = job[q] /\ read'[q] = read[q] /\ stale'[q] = {}
      /\ \A l \in Locks : holder'[l] = q <=> holder[l] = q
  OBVIOUS
<1>2. \A l \in Locks : Gets(q, l) => Gets(q, l)'
  BY DEF Gets
<1>3. NodeListing \in Domains /\ read[q] \subseteq Locks
  BY DEF NodeListing, Domains, AtomInv, OrderInv, TypeOK
<1>4. Stage(q)' = "recheck" => \A l \in Domains : Gets(q, l)'
  BY <1>1, <1>2, LockOrder DEF Atomic
<1>5. Stage(q)' \in Passing =>
        /\ \A l \in Domains : holder'[l] = q
        /\ \A n \in Nodes : home'[n] # "absent" => Gets(q, NodeLock(n))'
  BY <1>1, <1>2, <1>3, LockOrder DEF Atomic
<1>6. Stage(q)' \in {"section", "write"} =>
        /\ \A l \in SectionDomains(job'[q].kind) : Gets(q, l)'
        /\ job'[q].kind \in OfNode => Gets(q, NodeLock(job[q].node))'
        /\ job'[q].kind = "quarantine" => \A n \in Unreadable' : Gets(q, NodeLock(n))'
  <2> SUFFICES ASSUME Stage(q) \in {"section", "write"}
               PROVE  /\ \A l \in SectionDomains(job[q].kind) : Gets(q, l)'
                      /\ job[q].kind \in OfNode => Gets(q, NodeLock(job[q].node))'
                      /\ job[q].kind = "quarantine" => \A n \in Unreadable' : Gets(q, NodeLock(n))'
    BY <1>0, <1>1
  <2>1. NamesNode(job[q])
    BY DEF AtomInv, OrderInv, Orderly
  <2>2. Unreadable' \subseteq Unreadable
    BY DEF Unreadable
  <2> QED
    BY <1>1, <1>2, <2>1, <2>2, LockOrder, SectionDomainsType DEF Atomic, NamesNode, Unreadable
<1>7. /\ \A l \in read'[q] : holder'[l] = q
      /\ \A n \in Nodes : NodeLock(n) \in read'[q] => home'[n] # "absent"
  <2>1. \A l \in read'[q] : l \in Locks /\ holder[l] = q
    BY <1>0, <1>1, <1>3 DEF Atomic
  <2>2. \A n \in Nodes : NodeLock(n) \in read'[q] => home[n] # "absent"
    BY <1>0, <1>1 DEF Atomic
  <2> QED
    BY <1>0, <1>1, <2>1, <2>2, SMTT(30)
<1>8. /\ pc'[q] \in {"idle", "acquire", "release", "recheck"} => read'[q] = {}
      /\ pc'[q] = "refresh_node" => NodeLock(job'[q].node) \in read'[q]
      /\ stale'[q] = {}
  BY <1>0, <1>1 DEF Atomic
<1> QED
  BY <1>4, <1>5, <1>6, <1>7, <1>8 DEF Atomic

\* The same for a step that changes no metadata and reads nothing.
LEMMA AtomQuiet ==
  ASSUME AtomInv, NEW p \in Procs, OrderInv', UNCHANGED <<home, read, stale>>,
         \A q \in Procs \ {p} : pc'[q] = pc[q] /\ job'[q] = job[q] /\ want'[q] = want[q],
         \A q \in Procs \ {p}, l \in Locks : holder'[l] = q <=> holder[l] = q,
         Atomic(p)'
  PROVE  AtomInv'
<1>1. \A q \in Procs : stale'[q] = {}
  BY DEF AtomInv, Atomic
<1>2. \A q \in Procs \ {p} : /\ pc'[q] = pc[q] /\ job'[q] = job[q]
                             /\ want'[q] = want[q] /\ read'[q] = read[q]
  OBVIOUS
<1>3. /\ \A n \in Nodes : home'[n] # "absent" /\ home[n] = "absent" => holder[NodeListing] = p
      /\ \A n \in Nodes : home'[n] = "absent" /\ home[n] # "absent" => holder[NodeLock(n)] = p
      /\ \A n \in Nodes : home'[n] = "corrupt" => home[n] = "corrupt"
  OBVIOUS
<1> QED
  BY <1>1, <1>2, <1>3, AtomFrame

\* Steps that only take and give locks leave the metadata and what is read alone.
LEMMA AtomLocks ==
  ASSUME AtomInv, NEW p \in Procs, Take(p) \/ Release(p) \/ withLocks(p) \/ seedAndRepair(p)
  PROVE  AtomInv'
<1>1. OrderInv' /\ UNCHANGED <<home, read, stale>>
  BY OrderStep DEF AtomInv, Step, Take, Release, withLocks, seedAndRepair, metadata
<1>2. Atomic(p) /\ Orderly(p) /\ TypeOK
  BY DEF AtomInv, OrderInv
<1>3. CASE Take(p)
  <2>1. PICK l \in want[p] : /\ holder[l] = None
                             /\ holder' = [holder EXCEPT ![l] = p]
                             /\ want' = [want EXCEPT ![p] = @ \ {l}]
                             /\ Goto(p, IF want[p] = {l} THEN job[p].then ELSE "acquire")
    BY <1>3 DEF Take
  <2>2. l \in Locks /\ pc[p] = "acquire" /\ UNCHANGED job
    BY <1>2, <1>3 DEF Take, TypeOK
  <2>3. /\ want'[p] = want[p] \ {l} /\ holder'[l] = p
        /\ \A m \in Locks \ {l} : holder'[m] = holder[m]
        /\ pc'[p] = "acquire" \/ pc'[p] = job[p].then
        /\ \A q \in Procs \ {p} : pc'[q] = pc[q] /\ want'[q] = want[q]
    BY <1>2, <2>1, <2>2 DEF TypeOK, Goto
  <2>4. Stage(p)' = Stage(p) /\ pc'[p] # "refresh_node"
    BY <1>2, <2>2, <2>3 DEF Stage, Orderly
  <2>5. /\ \A m \in Locks : Gets(p, m) => Gets(p, m)'
        /\ \A m \in Locks : holder[m] = p => holder'[m] = p
        /\ \A q \in Procs \ {p}, m \in Locks : holder'[m] = q <=> holder[m] = q
    BY <2>1, <2>3, NoneAssumption DEF Gets
  <2>6. Unreadable' = Unreadable /\ read[p] = {}
    BY <1>1, <1>2, <2>2 DEF Unreadable, Atomic
  <2>7. Stage(p) \in {"section", "write"} => NamesNode(job[p])
    BY <1>2 DEF Orderly
  <2>8. Stage(p)' \in {"section", "write"} =>
          /\ \A m \in SectionDomains(job[p].kind) : Gets(p, m)'
          /\ job[p].kind \in OfNode => Gets(p, NodeLock(job[p].node))'
          /\ job[p].kind = "quarantine" => \A n \in Unreadable : Gets(p, NodeLock(n))'
    BY <1>2, <2>2, <2>4, <2>5, <2>7, LockOrder, SectionDomainsType DEF Atomic, NamesNode, Unreadable
  <2>9. /\ Stage(p)' = "recheck" => \A m \in Domains : Gets(p, m)'
        /\ Stage(p)' \in Passing =>
             /\ \A m \in Domains : holder'[m] = p
             /\ \A n \in Nodes : home[n] # "absent" => Gets(p, NodeLock(n))'
    BY <1>2, <2>4, <2>5, LockOrder DEF Atomic
  <2>10. Atomic(p)'
    BY <1>1, <1>2, <2>2, <2>4, <2>6, <2>8, <2>9 DEF Atomic
  <2> QED
    BY <1>1, <2>2, <2>3, <2>5, <2>10, AtomQuiet
<1>4. CASE Release(p)
  <2>1. PICK l \in Locks :
          /\ holder' = [holder EXCEPT ![l] = None] /\ holder[l] = p
          /\ (Goto(p, "idle") /\ job' = [job EXCEPT ![p] = NoJob]) \/ UNCHANGED <<pc, job>>
    BY <1>4 DEF Release, Held
  <2>2. pc[p] = "release" /\ pc'[p] \in {"idle", "release"} /\ UNCHANGED want
    BY <1>2, <1>4, <2>1 DEF Release, TypeOK, Goto
  <2>3. \A q \in Procs \ {p} : pc'[q] = pc[q] /\ job'[q] = job[q]
    BY <1>2, <2>1 DEF TypeOK, Goto
  <2>4. \A q \in Procs \ {p}, m \in Locks : holder'[m] = q <=> holder[m] = q
    BY <1>2, <2>1, NoneAssumption DEF TypeOK
  <2>5. Atomic(p)'
    BY <1>1, <1>2, <2>2 DEF Atomic, Stage, Passing
  <2> QED
    BY <1>1, <2>2, <2>3, <2>4, <2>5, AtomQuiet
<1>5. CASE withLocks(p)
  <2>1. PICK j \in Job, locks \in SUBSET Locks :
          /\ j.then = "section" /\ NamesNode(j) /\ Acquire(p, locks, j)
          /\ SectionDomains(j.kind) \subseteq locks
          /\ j.kind \in OfNode => NodeLock(j.node) \in locks
          /\ j.kind = "quarantine" => \A m \in Unreadable : NodeLock(m) \in locks
    BY <1>2, <1>5, withLocksFacts
  <2>2. /\ want'[p] = locks /\ job'[p] = j
        /\ pc'[p] = "acquire" \/ (locks = {} /\ pc'[p] = "section")
        /\ \A q \in Procs \ {p} : pc'[q] = pc[q] /\ job'[q] = job[q] /\ want'[q] = want[q]
    <3>1. j.then \in {"section", "recheck", "environments"} /\ Acquire(p, locks, j)
      BY <2>1
    <3>2. /\ want'[p] = locks /\ job'[p] = j
          /\ pc'[p] = "acquire" \/ (locks = {} /\ pc'[p] = j.then)
          /\ \A q \in Procs \ {p} : pc'[q] = pc[q] /\ job'[q] = job[q] /\ want'[q] = want[q]
      BY <1>2, <3>1, AcquireFacts
    <3> QED
      BY <2>1, <3>2
  <2>3. Stage(p)' = "section" /\ pc[p] = "idle" /\ UNCHANGED holder
    BY <1>5, <2>1, <2>2 DEF Stage, withLocks
  <2>4. Unreadable' = Unreadable /\ read[p] = {}
    BY <1>1, <1>2, <2>3 DEF Unreadable, Atomic
  <2>5. Atomic(p)'
    BY <1>1, <1>2, <2>1, <2>2, <2>3, <2>4 DEF Atomic, Gets, Passing
  <2> QED
    BY <1>1, <2>2, <2>3, <2>5, AtomQuiet
<1>6. CASE seedAndRepair(p)
  <2>1. PICK k \in Kinds :
          Acquire(p, Domains, [NoJob EXCEPT !.kind = k, !.then = "recheck"])
    BY <1>6 DEF seedAndRepair
  <2> DEFINE j == [NoJob EXCEPT !.kind = k, !.then = "recheck"]
  <2>2. j \in Job /\ j.then = "recheck"
    BY DEF NoJob, Job, Labels
  <2>3. Acquire(p, Domains, j)
    BY <2>1
  <2> HIDE DEF j
  <2>4. /\ want'[p] = Domains /\ job'[p] = j
        /\ pc'[p] = "acquire" \/ (Domains = {} /\ pc'[p] = "recheck")
        /\ \A q \in Procs \ {p} : pc'[q] = pc[q] /\ job'[q] = job[q] /\ want'[q] = want[q]
    <3>1. j.then \in {"section", "recheck", "environments"} /\ Domains \in SUBSET Locks
      BY <2>2, LockOrder
    <3>2. /\ want'[p] = Domains /\ job'[p] = j
          /\ pc'[p] = "acquire" \/ (Domains = {} /\ pc'[p] = j.then)
          /\ \A q \in Procs \ {p} : pc'[q] = pc[q] /\ job'[q] = job[q] /\ want'[q] = want[q]
      BY <1>2, <2>3 DEF Acquire, Goto, TypeOK
    <3> QED
      BY <2>2, <3>2
  <2>5. Stage(p)' = "recheck" /\ pc[p] = "idle" /\ UNCHANGED holder
    BY <1>6, <2>2, <2>4 DEF Stage, seedAndRepair
  <2>6. Atomic(p)'
    BY <1>1, <1>2, <2>4, <2>5 DEF Atomic, Gets, Passing
  <2> QED
    BY <1>1, <2>4, <2>5, <2>6, AtomQuiet
<1> QED
  BY <1>3, <1>4, <1>5, <1>6

\* A step that ends a section or gives an acquisition up.
LEMMA AtomEnd ==
  ASSUME AtomInv, NEW p \in Procs, OrderInv', pc'[p] \in {"idle", "release"},
         read'[p] = {}, \A q \in Procs : stale'[q] = {},
         \A q \in Procs \ {p} : /\ pc'[q] = pc[q] /\ job'[q] = job[q]
                                /\ want'[q] = want[q] /\ read'[q] = read[q],
         \A q \in Procs \ {p}, l \in Locks : holder'[l] = q <=> holder[l] = q,
         \A n \in Nodes : home'[n] # "absent" /\ home[n] = "absent" => holder[NodeListing] = p,
         \A n \in Nodes : home'[n] = "absent" /\ home[n] # "absent" => holder[NodeLock(n)] = p,
         \A n \in Nodes : home'[n] = "corrupt" => home[n] = "corrupt"
  PROVE  AtomInv'
<1>1. Atomic(p)'
  BY DEF Atomic, Stage, Passing
<1> QED
  BY <1>1, AtomFrame

\* What a process writes is nothing another one has read, when it has the lock
\* of all of it, or makes a directory that was not there.
LEMMA TouchAtom ==
  ASSUME AtomInv, NEW p \in Procs, NEW items, Touch(p, items),
         \A l \in items : l \in Locks /\ (holder[l] = p \/ \E n \in Nodes :
                                           l = NodeLock(n) /\ home[n] = "absent")
  PROVE  \A q \in Procs : stale'[q] = {}
<1> TAKE q \in Procs
<1>1. Atomic(q)
  BY DEF AtomInv
<1>2. q # p => read[q] \cap items = {}
  BY <1>1 DEF Atomic
<1> QED
  BY <1>1, <1>2 DEF Touch, Atomic

\* A crash, a cancelled wait and the end of the seed pass.
LEMMA AtomStop ==
  ASSUME AtomInv, NEW p \in Procs, Crash(p) \/ GiveUp(p) \/ PassStamp(p)
  PROVE  AtomInv'
<1>1. OrderInv' /\ UNCHANGED home /\ TypeOK /\ \A q \in Procs : stale[q] = {}
  BY OrderStep DEF AtomInv, OrderInv, Atomic, Step, Crash, GiveUp, PassStamp, metadata
<1>2. CASE Crash(p)
  <2>1. /\ pc'[p] = "idle" /\ read'[p] = {} /\ \A q \in Procs : stale'[q] = {}
        /\ \A q \in Procs \ {p} : /\ pc'[q] = pc[q] /\ job'[q] = job[q]
                                   /\ want'[q] = want[q] /\ read'[q] = read[q]
    BY <1>1, <1>2 DEF Crash, TypeOK, Goto
  <2>2. \A q \in Procs \ {p}, l \in Locks : holder'[l] = q <=> holder[l] = q
    BY <1>1, <1>2, NoneAssumption DEF Crash, TypeOK
  <2> QED
    BY <1>1, <2>1, <2>2, AtomEnd
<1>3. CASE GiveUp(p)
  <2>1. Finish(p) /\ UNCHANGED holder /\ \A q \in Procs : stale'[q] = {}
    BY <1>1, <1>3 DEF GiveUp, TypeOK
  <2> QED
    BY <1>1, <2>1, FinishFacts, AtomEnd
<1>4. CASE PassStamp(p)
  <2>1. Finish(p) /\ UNCHANGED <<holder, stale>>
    BY <1>4 DEF PassStamp
  <2> QED
    BY <1>1, <2>1, FinishFacts, AtomEnd
<1> QED
  BY <1>2, <1>3, <1>4

\* What a section writes is locked by it, or is the directory it makes.
LEMMA WritesLocked ==
  ASSUME AtomInv, NEW p \in Procs, pc[p] = "write"
  PROVE  /\ \A l \in SectionWrites(p) : l \in Locks /\
              (holder[l] = p \/ \E n \in Nodes : l = NodeLock(n) /\ home[n] = "absent")
         /\ \A n \in Nodes : SectionHome(p)[n] # "absent" /\ home[n] = "absent"
                              => holder[NodeListing] = p
         /\ \A n \in Nodes : SectionHome(p)[n] = "absent" /\ home[n] # "absent"
                              => holder[NodeLock(n)] = p
         /\ \A n \in Nodes : SectionHome(p)[n] = "corrupt" => home[n] = "corrupt"
<1>1. Atomic(p) /\ Orderly(p) /\ TypeOK
  BY DEF AtomInv, OrderInv
<1> DEFINE k == job[p].kind
           n == job[p].node
<1>2. /\ \A l \in SectionDomains(k) : l \in Locks /\ holder[l] = p
      /\ k \in OfNode => holder[NodeLock(n)] = p
      /\ k = "quarantine" => \A m \in Unreadable : holder[NodeLock(m)] = p
      /\ NamesNode(job[p])
  BY <1>1, LockOrder, SectionDomainsType DEF Atomic, Orderly, Gets, Stage
<1>3. /\ k = "reserve" => NodeListing \in Locks /\ holder[NodeListing] = p
      /\ k = "quarantine" => NodeListing \in Locks /\ holder[NodeListing] = p
      /\ k \in {"template", "untemplate"} => Configurations \in Locks /\ holder[Configurations] = p
      /\ k = "environment" => Environments \in Locks /\ holder[Environments] = p
      /\ k = "settings" => Settings \in Locks /\ holder[Settings] = p
  BY <1>2 DEF SectionDomains
<1>4. \A l \in read[p] : l \in Locks /\ holder[l] = p
  BY <1>1 DEF Atomic, TypeOK
<1>5. \A l \in SectionWrites(p) : l \in Locks /\
        (holder[l] = p \/ \E m \in Nodes : l = NodeLock(m) /\ home[m] = "absent")
  <2>1. k = "reserve" => n \in Nodes /\ NodeLock(n) \in Locks
    BY <1>2, LockOrder DEF NamesNode
  <2>2. k = "quarantine" => \A m \in Unreadable : NodeLock(m) \in Locks /\ holder[NodeLock(m)] = p
    BY <1>2, LockOrder DEF Unreadable
  <2> QED
    BY <1>3, <1>4, <2>1, <2>2 DEF SectionWrites
<1>6. k \in {"reserve", "commit", "remove"} => n \in Nodes
  BY <1>2 DEF NamesNode, OfNode
<1> HIDE DEF k, n
<1>7. CASE k = "reserve" /\ home[n] = "absent"
  BY <1>1, <1>3, <1>6, <1>7, <1>5 DEF SectionHome, TypeOK, k, n
<1>8. CASE k = "commit" /\ home[n] = "reserved"
  BY <1>1, <1>6, <1>8, <1>5 DEF SectionHome, TypeOK, k, n
<1>9. CASE k = "remove" /\ home[n] = "reserved"
  BY <1>1, <1>2, <1>6, <1>9, <1>5 DEF SectionHome, TypeOK, k, n, OfNode
<1>10. CASE k = "quarantine"
  <2>1. SectionHome(p) = [m \in Nodes |-> IF m \in Unreadable THEN "absent" ELSE home[m]]
    BY <1>10 DEF SectionHome, k, n
  <2> QED
    BY <1>2, <1>5, <1>10, <2>1 DEF k
<1>11. CASE ~(k = "reserve" /\ home[n] = "absent") /\ ~(k = "commit" /\ home[n] = "reserved")
              /\ ~(k = "remove" /\ home[n] = "reserved") /\ k # "quarantine"
  <2>1. SectionHome(p) = home
    BY <1>11 DEF SectionHome, k, n
  <2> QED
    BY <1>5, <2>1
<1> QED
  BY <1>7, <1>8, <1>9, <1>10, <1>11

\* The end of a section, and the second look at the stamp.
LEMMA AtomWrite ==
  ASSUME AtomInv, NEW p \in Procs, Write(p) \/ Recheck(p)
  PROVE  AtomInv'
<1>1. OrderInv' /\ TypeOK /\ Atomic(p) /\ Orderly(p) /\ \A q \in Procs : stale[q] = {}
  BY OrderStep DEF AtomInv, OrderInv, Atomic, Step
<1>2. CASE Write(p)
  <2>1. \A q \in Procs : stale'[q] = {}
    <3> DEFINE items == SectionWrites(p)
    <3>1. pc[p] = "write" /\ Touch(p, items)
      BY <1>2 DEF Write
    <3>2. \A l \in items : l \in Locks /\ (holder[l] = p \/ \E n \in Nodes :
                                             l = NodeLock(n) /\ home[n] = "absent")
      BY <3>1, WritesLocked
    <3> HIDE DEF items
    <3> QED
      BY <3>1, <3>2, TouchAtom
  <2>2. Finish(p) /\ UNCHANGED holder /\ home' = SectionHome(p) /\ pc[p] = "write"
    BY <1>2 DEF Write
  <2> QED
    <3>1. /\ \A n \in Nodes : home'[n] # "absent" /\ home[n] = "absent" => holder[NodeListing] = p
          /\ \A n \in Nodes : home'[n] = "absent" /\ home[n] # "absent" => holder[NodeLock(n)] = p
          /\ \A n \in Nodes : home'[n] = "corrupt" => home[n] = "corrupt"
      BY <2>2, WritesLocked
    <3>2. /\ pc'[p] \in {"idle", "release"} /\ read'[p] = {}
          /\ \A q \in Procs \ {p} : /\ pc'[q] = pc[q] /\ job'[q] = job[q]
                                     /\ want'[q] = want[q] /\ read'[q] = read[q]
      BY <1>1, <2>2, FinishFacts
    <3>3. \A q \in Procs \ {p}, l \in Locks : holder'[l] = q <=> holder[l] = q
      BY <2>2
    <3> QED
      BY <1>1, <2>1, <3>1, <3>2, <3>3, AtomEnd
<1>3. CASE Recheck(p)
  <2>1. UNCHANGED <<holder, home, stale>> /\ pc[p] = "recheck"
    BY <1>3 DEF Recheck, metadata
  <2>2. CASE Finish(p)
    BY <1>1, <2>1, <2>2, FinishFacts, AtomEnd
  <2> DEFINE locks == {NodeLock(n) : n \in {m \in Nodes : home[m] # "absent"}}
             j == [job[p] EXCEPT !.then = "environments"]
  <2>3. CASE Acquire(p, locks, j) /\ UNCHANGED read
    <3>1. j \in Job /\ j.then = "environments"
      BY <1>1, SMTT(30) DEF TypeOK, Job, Labels, Passing
    <3>2. locks \in SUBSET Locks /\ \A n \in Nodes : home[n] # "absent" => NodeLock(n) \in locks
      BY LockOrder
    <3> HIDE DEF j, locks
    <3>3. /\ want'[p] = locks /\ job'[p] = j
          /\ pc'[p] = "acquire" \/ (locks = {} /\ pc'[p] = "environments")
          /\ \A q \in Procs \ {p} : pc'[q] = pc[q] /\ job'[q] = job[q] /\ want'[q] = want[q]
      BY <1>1, <2>3, <3>1, <3>2, AcquireFacts, SMTT(30)
    <3>4. Stage(p)' = "environments"
      BY <3>1, <3>3 DEF Stage
    <3>5. \A l \in Domains : holder[l] = p
      BY <1>1, <2>1 DEF Atomic, Orderly, Gets, Stage
    <3>6. read'[p] = {} /\ stale'[p] = {}
      BY <1>1, <2>1, <2>3 DEF Atomic
    <3>7. Atomic(p)'
      BY <2>1, <3>2, <3>3, <3>4, <3>5, <3>6 DEF Atomic, Gets, Passing
    <3> QED
      BY <1>1, <2>1, <2>3, <3>3, <3>7, AtomFrame
  <2> QED
    BY <1>3, <2>2, <2>3 DEF Recheck
<1> QED
  BY <1>2, <1>3

\* A section reads only what it has locked, and so does the seed pass.
LEMMA AtomRead ==
  ASSUME AtomInv, NEW p \in Procs,
         Section(p) \/ PassEnvironments(p) \/ PassSeed(p) \/ PassNode(p) \/ PassRefresh(p)
  PROVE  AtomInv'
<1>1. OrderInv' /\ UNCHANGED <<holder, home, want>> /\ TypeOK /\ Atomic(p) /\ Orderly(p)
  BY OrderStep DEF AtomInv, OrderInv, Step, Section, PassEnvironments, PassSeed, PassNode,
                   PassRefresh, metadata
<1>2. \A q \in Procs \ {p} : pc'[q] = pc[q] /\ job'[q] = job[q] /\ read'[q] = read[q]
  BY <1>1 DEF Section, PassEnvironments, PassSeed, PassNode, PassRefresh, TypeOK, Goto
<1>3. SUFFICES Atomic(p)' /\ \A q \in Procs : stale'[q] = {}
  BY <1>1, <1>2, AtomFrame
<1>4. \A q \in Procs : stale[q] = {}
  BY DEF AtomInv, Atomic
<1>5. CASE Section(p)
  <2>1. pc[p] = "section" /\ pc'[p] = "write" /\ want[p] = {} /\ UNCHANGED stale
    BY <1>1, <1>5 DEF Section, TypeOK, Goto, Orderly
  <2>2. job'[p].kind = job[p].kind /\ job'[p].node = job[p].node
    <3>1. job[p] \in Job /\ (job[p].kind = "environment" /\ builtin = 0) \in BOOLEAN
      BY <1>1 DEF TypeOK
    <3> QED
      BY <1>1, <1>5, <3>1, JobUpdate, ZenonT(30) DEF Section, TypeOK
  <2>3. /\ \A l \in SectionDomains(job[p].kind) : holder[l] = p
        /\ job[p].kind \in OfNode => holder[NodeLock(job[p].node)] = p
        /\ job[p].kind = "quarantine" => \A n \in Unreadable : holder[NodeLock(n)] = p
        /\ NamesNode(job[p])
    BY <1>1, <2>1 DEF Atomic, Gets, Stage, Orderly
  <2>4. read'[p] = SectionDomains(job[p].kind) \cup
                     IF job[p].kind \in OfNode /\ home[job[p].node] # "absent"
                       THEN {NodeLock(job[p].node)} ELSE {}
    BY <1>1, <1>5 DEF Section, TypeOK
  <2>5. \A l \in read'[p] : holder[l] = p
    BY <2>3, <2>4
  <2>6. \A n \in Nodes : NodeLock(n) \in read'[p] => home[n] # "absent"
    BY <2>3, <2>4, LockOrder, SectionDomainsType DEF NamesNode
  <2>7. Unreadable' = Unreadable /\ Stage(p)' = "write"
    BY <1>1, <2>1 DEF Unreadable, Stage
  <2>8. Atomic(p)'
    BY <1>1, <1>4, <2>1, <2>2, <2>3, <2>5, <2>6, <2>7 DEF Atomic, Gets, Passing
  <2> QED
    BY <1>4, <2>1, <2>8
<1>6. ASSUME pc[p] \in Passing, pc'[p] \in Passing, pc'[p] = "refresh_node" => NodeLock(job'[p].node) \in read'[p],
             \A l \in read'[p] : holder[l] = p,
             \A n \in Nodes : NodeLock(n) \in read'[p] => home[n] # "absent",
             \A q \in Procs : stale'[q] = {}
      PROVE  Atomic(p)' /\ \A q \in Procs : stale'[q] = {}
  <2>1. Stage(p) \in Passing /\ Stage(p)' \in Passing
    BY <1>6 DEF Stage, Passing
  <2>2. pc'[p] \notin {"idle", "acquire", "release", "recheck"} /\ Stage(p)' \notin {"section", "write", "recheck"}
    BY <1>6, <2>1 DEF Passing
  <2> QED
    BY <1>1, <1>6, <2>1, <2>2 DEF Atomic, Gets
<1>7. pc[p] \in Passing => /\ \A l \in Domains : holder[l] = p
                           /\ \A n \in Nodes : home[n] # "absent" => holder[NodeLock(n)] = p
  BY <1>1 DEF Atomic, Gets, Stage, Orderly, Passing
<1>8. CASE PassEnvironments(p)
  <2>1. /\ pc[p] \in Passing /\ pc'[p] = "seed_environment" /\ read'[p] = {Environments}
        /\ UNCHANGED stale /\ Environments \in Domains
    BY <1>1, <1>8 DEF PassEnvironments, TypeOK, Goto, Passing, Environments, Domains
  <2>2. \A n \in Nodes : NodeLock(n) # Environments
    BY <2>1, LockOrder
  <2> QED
    BY <1>4, <1>6, <1>7, <2>1, <2>2 DEF Passing
<1>9. CASE PassSeed(p)
  <2>1. /\ pc[p] \in Passing /\ pc'[p] = "next_node" /\ read'[p] = {} /\ Touch(p, {Environments})
        /\ Environments \in Domains
    BY <1>1, <1>9 DEF PassSeed, TypeOK, Goto, Passing, Environments, Domains
  <2>2. \A q \in Procs : stale'[q] = {}
    BY <1>7, <2>1, TouchAtom, LockOrder, SMTT(30)
  <2> QED
    BY <1>6, <2>1, <2>2 DEF Passing
<1>10. CASE PassNode(p)
  <2>1. PICK n \in job[p].todo :
          /\ job' = [job EXCEPT ![p].todo = @ \ {n}, ![p].node = n]
          /\ IF home[n] = "record"
               THEN read' = [read EXCEPT ![p] = {NodeLock(n)}] /\ Goto(p, "refresh_node")
               ELSE UNCHANGED <<read, pc>>
    BY <1>10 DEF PassNode
  <2>2. pc[p] = "next_node" /\ UNCHANGED stale /\ n \in Nodes
    BY <1>1, <1>10, <2>1 DEF PassNode, TypeOK, Job
  <2>3. job'[p].node = n
    <3>1. job[p] \in Job
      BY <1>1 DEF TypeOK
    <3>2. job'[p] = [job[p] EXCEPT !.todo = @ \ {n}, !.node = n]
      BY <1>1, <2>1 DEF TypeOK
    <3> QED
      BY <3>1, <3>2 DEF Job
  <2>4. CASE home[n] = "record"
    <3>1. read'[p] = {NodeLock(n)} /\ pc'[p] = "refresh_node"
      BY <1>1, <2>1, <2>4 DEF TypeOK, Goto
    <3>2. \A m \in Nodes : NodeLock(m) \in read'[p] => home[m] # "absent"
      BY <2>2, <2>4, <3>1, LockOrder
    <3> QED
      BY <1>4, <1>6, <1>7, <2>2, <2>3, <2>4, <3>1, <3>2 DEF Passing
  <2>5. CASE home[n] # "record"
    <3>1. read'[p] = read[p] /\ pc'[p] = "next_node"
      BY <2>1, <2>2, <2>5
    <3> QED
      BY <1>1, <1>4, <1>6, <2>2, <3>1 DEF Passing, Atomic
  <2> QED
    BY <2>4, <2>5
<1>11. CASE PassRefresh(p)
  <2>1. /\ pc[p] = "refresh_node" /\ pc'[p] = "next_node" /\ read'[p] = {}
        /\ Touch(p, {NodeLock(job[p].node)})
    BY <1>1, <1>11 DEF PassRefresh, TypeOK, Goto
  <2>2. NodeLock(job[p].node) \in Locks /\ holder[NodeLock(job[p].node)] = p
    BY <1>1, <2>1 DEF Atomic, TypeOK
  <2>3. \A q \in Procs : stale'[q] = {}
    BY <2>1, <2>2, TouchAtom, ZenonT(30)
  <2> QED
    BY <1>6, <2>1, <2>3 DEF Passing
<1> QED
  BY <1>5, <1>8, <1>9, <1>10, <1>11

\* AtomInv is inductive.
LEMMA AtomNext == AtomInv /\ [Next]_vars => AtomInv'
<1> SUFFICES ASSUME AtomInv, [Next]_vars PROVE AtomInv'
  OBVIOUS
<1>1. ASSUME UNCHANGED vars PROVE AtomInv'
  <2>1. OrderInv'
    BY <1>1, StutterOrder DEF AtomInv
  <2>2. \A p \in Procs : Atomic(p)'
    BY <1>1, ZenonT(30) DEF AtomInv, Atomic, Stage, Gets, Unreadable, vars
  <2> QED
    BY <2>1, <2>2 DEF AtomInv
<1> QED
  BY <1>1, AtomLocks, AtomStop, AtomWrite, AtomRead DEF Next, Step

\* Every section of withLocks and the nested pass of seedAndRepair is atomic,
\* whatever the processes, the nodes and the sections, with cancelled waits and
\* crashes.
THEOREM SectionsAtomic == Spec => []NoLostUpdate
<1>1. AtomInv => NoLostUpdate
  BY DEF AtomInv, Atomic, NoLostUpdate
<1> QED
  BY <1>1, AtomInit, AtomNext, PTL DEF Spec

=============================================================================

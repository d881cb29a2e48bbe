------------------------------ MODULE LockSet ------------------------------
(***************************************************************************)
(* The metadata locks of internal/codelima/locks.go and the sections that  *)
(* run under them: acquireLockSet polls one flock after another in a fixed *)
(* order, a section reads the metadata, changes it and writes it back, and *)
(* the set is closed.  Service.seedAndRepair is the one nested use: it     *)
(* lists the nodes under the global locks before it can name the per-node  *)
(* locks it needs.                                                         *)
(*                                                                         *)
(* A lock is its place in the order of lockPaths, and stands for the       *)
(* metadata it protects: the four domains sorted by name, then the nodes   *)
(* sorted by id.                                                           *)
(***************************************************************************)
EXTENDS Integers, FiniteSets

CONSTANTS Procs,  \* processes that share the metadata home
          Nodes,  \* node ids, in the order of their names
          Kinds,  \* the sections this instance runs
          Disturbances,  \* what may go wrong: cancelled contexts, crashes
          None

ASSUME NodesAssumption == Nodes \subseteq Nat \ {0}
ASSUME KindsAssumption ==
  Kinds \subseteq {"save", "commit", "remove", "reserve", "environment", "template",
                   "untemplate", "settings", "quarantine", "seed", "repair"}
ASSUME DisturbancesAssumption == Disturbances \subseteq {"cancel", "crash"}
ASSUME NoneAssumption == None \notin Procs /\ None \notin Nodes /\ None \notin Kinds

Configurations == 1
Environments == 2
NodeListing == 3
Settings == 4
Domains == 1..4
NodeLock(n) == 4 + n
Locks == Domains \cup {NodeLock(n) : n \in Nodes}

VARIABLES holder,   \* who has the flock
          home,     \* nodes/<id>: absent, a reservation, a record, an unreadable record
          builtin,  \* how many environments have the slug of a built-in one
          stamp,    \* whether seed.version has the current revision
          pc,
          job,      \* the section a process is in: its kind, node and local variables
          want,     \* the locks it has not got yet
          read,     \* the metadata it has read and may write back
          stale     \* what others wrote of that since it read it (history)

vars == <<holder, home, builtin, stamp, pc, job, want, read, stale>>

Passing == {"environments", "seed_environment", "next_node", "refresh_node"}
Labels == {"idle", "acquire", "release", "section", "write", "recheck"} \cup Passing

Job == [kind: Kinds \cup {None}, node: Nodes \cup {None}, then: Labels,
        todo: SUBSET Nodes, missing: BOOLEAN]
NoJob == [kind |-> None, node |-> None, then |-> "idle", todo |-> {}, missing |-> FALSE]

Held(p) == {l \in Locks : holder[l] = p}

Init == /\ holder = [l \in Locks |-> None]
        /\ home \in [Nodes -> {"absent", "reserved", "record", "corrupt"}]
        /\ stamp \in BOOLEAN
        /\ builtin \in {0, 1} /\ (stamp => builtin = 1)
        /\ pc = [p \in Procs |-> "idle"]
        /\ job = [p \in Procs |-> NoJob]
        /\ want = [p \in Procs |-> {}]
        /\ read = [p \in Procs |-> {}]
        /\ stale = [p \in Procs |-> {}]

metadata == <<home, builtin, stamp>>

-----------------------------------------------------------------------------
(* acquireLockSet and LockSet.Close.                                       *)

Goto(p, label) == pc' = [pc EXCEPT ![p] = label]

\* lockPaths: the files of this acquisition; nothing to take is nothing to wait for.
Acquire(p, locks, j) ==
  /\ want' = [want EXCEPT ![p] = locks]
  /\ job' = [job EXCEPT ![p] = j]
  /\ Goto(p, IF locks = {} THEN j.then ELSE "acquire")

\* Mutant: the files are locked in whatever order the caller named them.
Take_Unsorted(p) ==
  /\ pc[p] = "acquire"
  /\ \E l \in want[p] :
       /\ holder[l] = None
       /\ holder' = [holder EXCEPT ![l] = p]
       /\ want' = [want EXCEPT ![p] = @ \ {l}]
       /\ Goto(p, IF want[p] = {l} THEN job[p].then ELSE "acquire")
  /\ UNCHANGED <<metadata, job, read, stale>>

\* flockWithContext gets the next file of the sorted list.
Take(p) ==
  /\ pc[p] = "acquire"
  /\ \E l \in want[p] :
       /\ \A m \in want[p] : l <= m
       /\ holder[l] = None
       /\ holder' = [holder EXCEPT ![l] = p]
       /\ want' = [want EXCEPT ![p] = @ \ {l}]
       /\ Goto(p, IF want[p] = {l} THEN job[p].then ELSE "acquire")
  /\ UNCHANGED <<metadata, job, read, stale>>

\* The section is over, or an acquisition failed: close what is held.
Finish(p) ==
  /\ want' = [want EXCEPT ![p] = {}]
  /\ read' = [read EXCEPT ![p] = {}]
  /\ IF Held(p) = {} THEN Goto(p, "idle") /\ job' = [job EXCEPT ![p] = NoJob]
                     ELSE Goto(p, "release") /\ UNCHANGED job

\* The context ends while flockWithContext polls.
GiveUp(p) ==
  /\ "cancel" \in Disturbances /\ pc[p] = "acquire"
  /\ Finish(p)
  /\ stale' = [stale EXCEPT ![p] = {}]
  /\ UNCHANGED <<holder, metadata>>

\* Close goes through the files in the order they were taken; the deferred
\* release of the nested per-node set runs before that of the global one.
Release(p) ==
  /\ pc[p] = "release"
  /\ LET nested == IF job[p].kind \in {"seed", "repair"} THEN Held(p) \ Domains ELSE {}
         set == IF nested = {} THEN Held(p) ELSE nested
     IN \E l \in set :
          /\ \A m \in set : l <= m
          /\ holder' = [holder EXCEPT ![l] = None]
          /\ IF Held(p) = {l} THEN Goto(p, "idle") /\ job' = [job EXCEPT ![p] = NoJob]
                              ELSE UNCHANGED <<pc, job>>
  /\ UNCHANGED <<metadata, want, read, stale>>

\* The process dies and the kernel drops its flocks.
Crash(p) ==
  /\ "crash" \in Disturbances /\ pc[p] # "idle"
  /\ holder' = [l \in Locks |-> IF holder[l] = p THEN None ELSE holder[l]]
  /\ Goto(p, "idle")
  /\ job' = [job EXCEPT ![p] = NoJob]
  /\ want' = [want EXCEPT ![p] = {}]
  /\ read' = [read EXCEPT ![p] = {}]
  /\ stale' = [stale EXCEPT ![p] = {}]
  /\ UNCHANGED metadata

-----------------------------------------------------------------------------
(* The sections of withLocks.                                              *)

\* The domains a section asks for, and whether it asks for its node.
SectionDomains(kind) ==
  CASE kind \in {"commit", "remove", "quarantine"} -> {NodeListing}
    [] kind \in {"reserve", "untemplate"}          -> {Configurations, NodeListing}
    [] kind = "environment"                        -> {Environments}
    [] kind = "template"                           -> {Configurations, Environments}
    [] kind = "settings"                           -> {Settings}
    [] OTHER                                       -> {}

OfNode == {"save", "commit", "remove"}

Unreadable == {n \in Nodes : home[n] = "corrupt"}

\* One section per call of withLocks; quarantineCorruptNodeRecords scans for
\* the records to lock before it has any lock.
withLocks(p) ==
  /\ pc[p] = "idle"
  /\ \E k \in Kinds \ {"seed", "repair"}, n \in Nodes \cup {None} :
       /\ IF k \in OfNode \cup {"reserve"} THEN n \in Nodes ELSE n = None
       /\ k \in OfNode => home[n] # "absent"
       /\ k = "quarantine" => Unreadable # {}
       /\ Acquire(p, SectionDomains(k)
                       \cup (IF k \in OfNode THEN {NodeLock(n)} ELSE {})
                       \cup (IF k = "quarantine" THEN {NodeLock(m) : m \in Unreadable} ELSE {}),
                  [NoJob EXCEPT !.kind = k, !.node = n, !.then = "section"])
  /\ UNCHANGED <<holder, metadata, read, stale>>

\* The section loads what it is about to change.
Section(p) ==
  /\ pc[p] = "section"
  /\ read' = [read EXCEPT ![p] = SectionDomains(job[p].kind) \cup
                IF job[p].kind \in OfNode /\ home[job[p].node] # "absent"
                  THEN {NodeLock(job[p].node)} ELSE {}]
  /\ job' = [job EXCEPT ![p].missing = (job[p].kind = "environment" /\ builtin = 0)]
  /\ Goto(p, "write")
  /\ UNCHANGED <<holder, metadata, want, stale>>

\* What p writes is out of date for whoever read it before.
Touch(p, items) ==
  stale' = [q \in Procs |-> IF q = p THEN stale[q] ELSE stale[q] \cup (read[q] \cap items)]

\* What a section does to the node directories: reserve makes that of a new id,
\* commit writes its first node.yaml, remove takes an abandoned reservation
\* away, and quarantine moves whatever it now finds unreadable.
SectionHome(p) ==
  LET k == job[p].kind
      n == job[p].node
  IN CASE k = "reserve" /\ home[n] = "absent"   -> [home EXCEPT ![n] = "reserved"]
       [] k = "commit" /\ home[n] = "reserved"  -> [home EXCEPT ![n] = "record"]
       [] k = "remove" /\ home[n] = "reserved"  -> [home EXCEPT ![n] = "absent"]
       [] k = "quarantine"                      -> [m \in Nodes |-> IF m \in Unreadable
                                                                    THEN "absent" ELSE home[m]]
       [] OTHER                                 -> home

\* The metadata a section writes.
SectionWrites(p) ==
  LET k == job[p].kind
      n == job[p].node
  IN CASE k = "save"                            -> read[p]
       [] k = "reserve" /\ home[n] = "absent"   -> {NodeListing, NodeLock(n)}
       [] k \in {"commit", "remove"}            -> read[p]
       [] k = "quarantine"                      -> {NodeListing} \cup
                                                     {NodeLock(m) : m \in Unreadable}
       [] k \in {"template", "untemplate"}      -> {Configurations}
       [] k = "environment"                     -> {Environments}
       [] k = "settings"                        -> {Settings}
       [] OTHER                                 -> {}

Write(p) ==
  /\ pc[p] = "write"
  /\ home' = SectionHome(p)
  /\ builtin' = IF job[p].kind = "environment" /\ job[p].missing THEN builtin + 1 ELSE builtin
  /\ Touch(p, SectionWrites(p))
  /\ Finish(p)
  /\ UNCHANGED <<holder, stamp>>

-----------------------------------------------------------------------------
(* Service.seedAndRepair; "repair" is the forced pass of doctor --repair.  *)

\* The stamp is looked at before any lock is taken.
seedAndRepair(p) ==
  /\ pc[p] = "idle"
  /\ \E k \in Kinds \cap {"seed", "repair"} :
       /\ k = "seed" => ~stamp
       /\ Acquire(p, Domains, [NoJob EXCEPT !.kind = k, !.then = "recheck"])
  /\ UNCHANGED <<holder, metadata, read, stale>>

\* Mutant: the global locks are taken to cover the nodes.
Recheck_GlobalOnly(p) ==
  /\ pc[p] = "recheck"
  /\ \/ job[p].kind = "seed" /\ stamp /\ Finish(p)
     \/ /\ ~(job[p].kind = "seed" /\ stamp)
        /\ Acquire(p, {}, [job[p] EXCEPT !.then = "environments"])
        /\ UNCHANGED read
  /\ UNCHANGED <<holder, metadata, stale>>

\* The stamp again, then the per-node locks of every directory there is.
Recheck(p) ==
  /\ pc[p] = "recheck"
  /\ \/ job[p].kind = "seed" /\ stamp /\ Finish(p)
     \/ /\ ~(job[p].kind = "seed" /\ stamp)
        /\ Acquire(p, {NodeLock(n) : n \in {m \in Nodes : home[m] # "absent"}},
                   [job[p] EXCEPT !.then = "environments"])
        /\ UNCHANGED read
  /\ UNCHANGED <<holder, metadata, stale>>

\* ensureBuiltInEnvironmentConfigs looks the built-in slug up,
PassEnvironments(p) ==
  /\ pc[p] = "environments"
  /\ job' = [job EXCEPT ![p].missing = (builtin = 0)]
  /\ read' = [read EXCEPT ![p] = {Environments}]
  /\ Goto(p, "seed_environment")
  /\ UNCHANGED <<holder, metadata, want, stale>>

\* creates what is missing, and ensureNodeMetadataFiles lists the directories.
PassSeed(p) ==
  /\ pc[p] = "seed_environment"
  /\ builtin' = IF job[p].missing THEN builtin + 1 ELSE builtin
  /\ job' = [job EXCEPT ![p].todo = {n \in Nodes : home[n] # "absent"}]
  /\ Touch(p, {Environments})
  /\ read' = [read EXCEPT ![p] = {}]
  /\ Goto(p, "next_node")
  /\ UNCHANGED <<holder, home, stamp, want>>

\* ensureNodeMetadataFiles loads a record, skipping what it cannot read;
PassNode(p) ==
  /\ pc[p] = "next_node"
  /\ \E n \in job[p].todo :
       /\ job' = [job EXCEPT ![p].todo = @ \ {n}, ![p].node = n]
       /\ IF home[n] = "record"
            THEN read' = [read EXCEPT ![p] = {NodeLock(n)}] /\ Goto(p, "refresh_node")
            ELSE UNCHANGED <<read, pc>>
  /\ UNCHANGED <<holder, metadata, want, stale>>

\* and writes it back in the current format.
PassRefresh(p) ==
  /\ pc[p] = "refresh_node"
  /\ Touch(p, {NodeLock(job[p].node)})
  /\ read' = [read EXCEPT ![p] = {}]
  /\ Goto(p, "next_node")
  /\ UNCHANGED <<holder, metadata, job, want>>

PassStamp(p) ==
  /\ pc[p] = "next_node" /\ job[p].todo = {}
  /\ stamp' = TRUE
  /\ Finish(p)
  /\ UNCHANGED <<holder, home, builtin, stale>>

-----------------------------------------------------------------------------
Step(p) == \/ Take(p) \/ Release(p) \/ Section(p) \/ Write(p)
           \/ Recheck(p) \/ PassEnvironments(p) \/ PassSeed(p) \/ PassNode(p)
           \/ PassRefresh(p) \/ PassStamp(p)

Next == \E p \in Procs : Step(p) \/ withLocks(p) \/ seedAndRepair(p) \/ GiveUp(p) \/ Crash(p)

Spec == Init /\ [][Next]_vars

\* A scheduled process goes on; a process that only requests, gives up or dies
\* is under no obligation.
FairSpec == Spec /\ \A p \in Procs : WF_vars(Step(p))

-----------------------------------------------------------------------------
(* Properties.                                                             *)

TypeOK ==
  /\ holder \in [Locks -> Procs \cup {None}]
  /\ home \in [Nodes -> {"absent", "reserved", "record", "corrupt"}]
  /\ builtin \in Nat /\ stamp \in BOOLEAN
  /\ pc \in [Procs -> Labels] /\ job \in [Procs -> Job]
  /\ want \in [Procs -> SUBSET Locks]
  /\ \A p \in Procs : pc[p] = "idle" => job[p] = NoJob /\ Held(p) = {}
  /\ read \in [Procs -> SUBSET Locks] /\ stale \in [Procs -> SUBSET Locks]

\* acquireLockSet and the nested per-node set of seedAndRepair take locks in one
\* order: what a process still waits for comes after everything it has.  So a
\* chain of processes that wait for each other climbs the order, and no circle
\* of them, not even a process that waits for itself, can close.
OrderedAcquisition == \A p \in Procs : \A l \in Held(p), m \in want[p] : l < m

\* A section is atomic: nobody writes the metadata it has read until it has
\* written its own changes, not even the seed pass, whose node set is fixed
\* by the global nodes lock before it takes the per-node locks.
NoLostUpdate == \A p \in Procs : stale[p] = {}

\* Concurrent seeding, and a user who creates the environment by hand, never
\* leave two environments with the slug of a built-in one (service.go:396).
SeededOnce == builtin <= 1

\* Once no wait is cancelled and nobody dies any more, somebody who waits for
\* locks gets everything it asked for: polling lets one process starve, never
\* all of them, and what the dead held is free (flockWithContext).
Undisturbed == <>[][\A p \in Procs : ~GiveUp(p) /\ ~Crash(p)]_vars
SomebodyEnters ==
  Undisturbed => ([]<>(\E p \in Procs : pc[p] = "acquire")
                    => []<>(\E p \in Procs : pc[p] \in {"section", "recheck", "environments"}))

=============================================================================

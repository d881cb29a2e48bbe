------------------------------ MODULE Observer ------------------------------
(***************************************************************************)
(* The cache of virtual machine observations that every read of the daemon *)
(* goes through: filled by full listings (at start, once a minute, after   *)
(* the watch was lost, after a command) and updated between them by the    *)
(* watch's running and exiting events.  A listing is read at one time and  *)
(* installed at a later one.                                               *)
(***************************************************************************)
EXTENDS Naturals, Sequences, FiniteSets

CONSTANTS
  Machines,     \* instance names
  QueueCap,     \* bound on watch events not yet read
  ObsBudgets    \* the histories

ObsBudget == [power : Nat, birth : Nat, fail : Nat, drop : Nat, verify : Nat,
              stop : Nat, started : BOOLEAN]

ASSUME ObsAssumption == QueueCap \in Nat \ {0} /\ ObsBudgets \subseteq ObsBudget

VARIABLES
  machine,   \* what limactl list would say: "absent", "stopped" or "running"
  observed,  \* limaObservationService.observations
  service,   \* started, whether lastList is set, and the loops still running
  listing,   \* loop -> the listing it has read and not yet installed
  watch,     \* the watch process: connected, and its unread events
  resident,  \* machines neither created nor deleted since the start
  obsLeft

obsVars == <<machine, observed, service, listing, watch, resident, obsLeft>>

-----------------------------------------------------------------------------
Listers == {"start", "reconcile", "rewatch", "verify"}
NoList == [m \in Machines |-> "none"]
Exists(m) == machine[m] # "absent"
Owes(what) == /\ obsLeft[what] > 0
              /\ obsLeft' = [obsLeft EXCEPT ![what] = @ - 1]

\* cached: whether the cache may be believed.
cached == service.started /\ service.listed

\* listDirect reads the world; a failing one costs the history a failure.
listDirect(by) ==
  /\ listing[by] = NoList
  /\ listing' = [listing EXCEPT ![by] = machine]

\* replace: the whole cache is the listing, and the cache is authoritative.
replace(by) ==
  /\ listing[by] # NoList
  /\ observed' = listing[by]
  /\ listing' = [listing EXCEPT ![by] = NoList]

Unlisted_Authoritative == [service EXCEPT !.phase = "on", !.started = TRUE, !.listed = TRUE]

Unlisted == [service EXCEPT !.phase = "on", !.started = TRUE]

\* StartObservation: list, and start both loops whether or not it succeeded.
StartList ==
  /\ service.phase = "new" /\ listDirect("start")
  /\ service' = [service EXCEPT !.phase = "starting"]
  /\ UNCHANGED <<machine, observed, watch, resident, obsLeft>>

StartObservation ==
  /\ \/ /\ service.phase = "starting" /\ replace("start")
        /\ service' = [service EXCEPT !.phase = "on", !.started = TRUE, !.listed = TRUE]
        /\ UNCHANGED obsLeft
     \/ /\ service.phase = "new" /\ Owes("fail")
        /\ service' = Unlisted
        /\ UNCHANGED <<observed, listing>>
  /\ UNCHANGED <<machine, watch, resident>>

\* reconcileLoop: a listing on a timer; a failed one leaves the cache alone.
ReconcileList ==
  /\ service.phase = "on" /\ listDirect("reconcile")
  /\ UNCHANGED <<machine, observed, service, watch, resident, obsLeft>>
ReconcileFails ==
  /\ service.phase = "on" /\ listing["reconcile"] # NoList /\ Owes("fail")
  /\ listing' = [listing EXCEPT !["reconcile"] = NoList]
  /\ UNCHANGED <<machine, observed, service, watch, resident>>
Reconcile ==
  /\ service.phase = "on" /\ replace("reconcile")
  /\ service' = [service EXCEPT !.listed = TRUE]
  /\ UNCHANGED <<machine, watch, resident, obsLeft>>

\* watchLoop and runWatch: events reach the cache one by one while the watch
\* lives; when it ends the unread ones are lost, and the loop lists again
\* before it watches again.
Watching ==
  /\ service.phase = "on" /\ watch.at = "off"
  /\ watch' = [at |-> "on", events |-> <<>>]
  /\ UNCHANGED <<machine, observed, service, listing, resident, obsLeft>>

\* applyWatchEvent: an event for an unknown machine makes an entry for it.
applyWatchEvent ==
  /\ watch.at = "on" /\ watch.events # <<>>
  /\ LET e == Head(watch.events) IN observed' = [observed EXCEPT ![e.machine] = e.status]
  /\ watch' = [watch EXCEPT !.events = Tail(@)]
  /\ UNCHANGED <<machine, service, listing, resident, obsLeft>>

WatchEnds ==
  /\ watch.at = "on" /\ Owes("drop")
  /\ watch' = [at |-> "lost", events |-> <<>>]
  /\ UNCHANGED <<machine, observed, service, listing, resident>>

RewatchList ==
  /\ service.phase = "on" /\ watch.at = "lost"
  /\ \/ listDirect("rewatch") /\ watch' = [watch EXCEPT !.at = "listed"] /\ UNCHANGED obsLeft
     \/ Owes("fail") /\ watch' = [watch EXCEPT !.at = "off"] /\ UNCHANGED listing
  /\ UNCHANGED <<machine, observed, service, resident>>
Rewatch ==
  /\ service.phase = "on" /\ watch.at = "listed" /\ replace("rewatch")
  /\ watch' = [watch EXCEPT !.at = "off"]
  /\ service' = [service EXCEPT !.listed = TRUE]
  /\ UNCHANGED <<machine, resident, obsLeft>>

\* verifyObservation after a command that ran in this daemon.
VerifyList ==
  /\ Owes("verify") /\ listDirect("verify")
  /\ UNCHANGED <<machine, observed, service, watch, resident>>
verifyObservation ==
  /\ replace("verify")
  /\ service' = [service EXCEPT !.listed = TRUE]
  /\ UNCHANGED <<machine, watch, resident, obsLeft>>

\* StopObservation cancels both loops and waits for them; reads go to limactl.
StopObservation ==
  /\ service.phase = "on" /\ Owes("stop")
  /\ service' = [service EXCEPT !.started = FALSE, !.phase = "off"]
  /\ listing' = [by \in Listers |-> IF by = "verify" THEN listing[by] ELSE NoList]
  /\ watch' = [at |-> "off", events |-> <<>>]
  /\ UNCHANGED <<machine, observed, resident>>

-----------------------------------------------------------------------------
\* A machine starts or stops; limactl watch reports it while it is connected.
Power(m) ==
  /\ Exists(m) /\ Len(watch.events) < QueueCap /\ Owes("power")
  /\ LET status == IF machine[m] = "running" THEN "stopped" ELSE "running" IN
     /\ machine' = [machine EXCEPT ![m] = status]
     /\ watch' = IF watch.at = "on"
                 THEN [watch EXCEPT !.events = Append(@, [machine |-> m, status |-> status])]
                 ELSE watch
  /\ UNCHANGED <<observed, service, listing, resident>>

\* Machines created or deleted elsewhere cause no event; a delete by this
\* daemon forgets the cached observation itself (removeCachedObservation).
Born(m) ==
  /\ ~Exists(m) /\ Owes("birth")
  /\ machine' = [machine EXCEPT ![m] = "stopped"]
  /\ resident' = resident \ {m}
  /\ UNCHANGED <<observed, service, listing, watch>>
Deleted(m) ==
  /\ Exists(m) /\ Owes("birth")
  /\ machine' = [machine EXCEPT ![m] = "absent"]
  /\ resident' = resident \ {m}
  /\ \/ observed' = [observed EXCEPT ![m] = "absent"]
     \/ UNCHANGED observed
  /\ UNCHANGED <<service, listing, watch>>

ObsInit ==
  /\ obsLeft \in ObsBudgets
  /\ machine \in [Machines -> IF obsLeft.started THEN {"stopped", "running"} ELSE {"absent"}]
  /\ observed = [m \in Machines |-> "absent"]
  /\ service = [phase |-> IF obsLeft.started THEN "new" ELSE "off",
                started |-> FALSE, listed |-> FALSE]
  /\ listing = [by \in Listers |-> NoList]
  /\ watch = [at |-> "off", events |-> <<>>]
  /\ resident = {m \in Machines : Exists(m)}

Starting == StartList \/ StartObservation
Reconciling == ReconcileList \/ Reconcile \/ ReconcileFails
WatchLoop == Watching \/ RewatchList \/ Rewatch
ObsNext ==
  \/ Starting \/ Reconciling \/ WatchLoop \/ applyWatchEvent
  \/ WatchEnds \/ VerifyList \/ verifyObservation \/ StopObservation
  \/ \E m \in Machines : Power(m) \/ Born(m) \/ Deleted(m)

\* Both loops run, events that arrived are read, a listing that was read is
\* installed.
ObsFairness ==
  /\ WF_obsVars(Starting) /\ WF_obsVars(Reconciling) /\ WF_obsVars(WatchLoop)
  /\ WF_obsVars(applyWatchEvent) /\ WF_obsVars(verifyObservation)

ObsSpec == ObsInit /\ [][ObsNext]_obsVars /\ ObsFairness

-----------------------------------------------------------------------------
\* Every variable has its type.
ObsTypeOK ==
  /\ machine \in [Machines -> {"absent", "stopped", "running"}]
  /\ observed \in [Machines -> {"absent", "stopped", "running"}]
  /\ service.phase \in {"new", "starting", "on", "off"}
  /\ watch.at \in {"off", "on", "lost", "listed"} /\ Len(watch.events) <= QueueCap

\* A machine that has been there all along is never missing from a cache that
\* claims authority: a failed listing, a watch that was lost or a listing that
\* arrives late may leave it stale, not empty (StartObservation: "an
\* authoritative empty cache yanks every forwarding route in one tick").
NeverFalselyEmpty == cached => \A m \in resident : observed[m] # "absent"

\* However listings and events crossed, once the machines are quiet the cache
\* of a running observation agrees with limactl and stays so.
CacheConverges ==
  \A m \in Machines, s \in {"absent", "stopped", "running"} :
    <>[](machine[m] = s /\ service.phase = "on") => <>[](cached /\ observed[m] = s)

\* The cache of the machines never forgets one by mistake.
CacheIsSound == ObsTypeOK /\ NeverFalselyEmpty

=============================================================================

----------------------------- MODULE MCServices -----------------------------
(***************************************************************************)
(* What a daemon keeps and looks after, for TLC: the metadata locks        *)
(* (LockSet), the records under them (Catalog), the start of a node        *)
(* (Bootstrap), environment tests (EnvironmentTest), the forwarding of     *)
(* ports (Forwarding) and the cache of machine observations (Observer).    *)
(* Each has its own state; a history exercises one of them and finds the   *)
(* others at rest.                                                         *)
(***************************************************************************)
EXTENDS LockSet, Catalog, Bootstrap, EnvironmentTest, Forwarding, Observer

VARIABLE part  \* the component this history exercises

NoCatalog == [template |-> 0, environment |-> 0, node |-> 0, seed |-> 0, cut |-> 0,
              damage |-> 0, read |-> 0, home |-> "seeded"]
CatalogHistories ==
    { NoCatalog,
      [NoCatalog EXCEPT !.template = 3, !.cut = 1],
      [NoCatalog EXCEPT !.template = 2, !.environment = 2],
      [NoCatalog EXCEPT !.node = 4, !.cut = 1, !.damage = 1],
      [NoCatalog EXCEPT !.template = 2, !.read = 2],
      [NoCatalog EXCEPT !.home = "new", !.seed = 2, !.cut = 2, !.environment = 1, !.template = 1],
      [NoCatalog EXCEPT !.home = "legacy", !.seed = 2, !.cut = 1, !.template = 1] }

NoStart == [fail |-> 0, disk |-> 0, cancel |-> 0, crash |-> 0, edit |-> 0, start |-> 0,
            retry |-> 0, auth |-> TRUE, mounted |-> FALSE,
            host |-> {"id", "pub", "known", "claude", "account"}]
StartHistories ==
    { NoStart,
      [NoStart EXCEPT !.fail = 1, !.crash = 1, !.edit = 1, !.start = 2, !.retry = 1],
      [NoStart EXCEPT !.disk = 1, !.cancel = 1, !.start = 2, !.retry = 1],
      [NoStart EXCEPT !.crash = 2, !.fail = 1, !.start = 2, !.retry = 2, !.auth = FALSE,
                      !.mounted = TRUE],
      [NoStart EXCEPT !.edit = 1, !.disk = 1, !.start = 2, !.retry = 1,
                      !.host = {"id", "git", "account"}] }

NoTest == [test |-> 0, fail |-> 0, disk |-> 0, cancel |-> 0, crash |-> 0, close |-> 0,
           cli |-> 0, other |-> 0, age |-> 0]
Test == [NoTest EXCEPT !.test = 1, !.age = 1]
TestHistories ==
    { NoTest,
      [Test EXCEPT !.fail = 2, !.crash = 1, !.close = 1],
      [Test EXCEPT !.disk = 2, !.cancel = 1, !.crash = 1],
      [Test EXCEPT !.fail = 1, !.crash = 2, !.cli = 1],
      [Test EXCEPT !.other = 1, !.disk = 2, !.crash = 1, !.close = 1],
      [Test EXCEPT !.cancel = 1, !.fail = 1, !.close = 2] }

NoForwarder == [guest |-> 0, listen |-> 0, meta |-> 0, seen |-> 0, pin |-> 0, disk |-> 0,
                crash |-> 0, handoff |-> 0, list |-> 0, busy |-> 0, dial |-> 0, wedge |-> 0,
                close |-> 0, forget |-> 0, on |-> {}, newest |-> {}, published |-> {}]
OneGuest == [NoForwarder EXCEPT !.on = {"a"}]
TwoGuests == [NoForwarder EXCEPT !.on = {"a", "b"}]
ForwardingHistories ==
    { NoForwarder,
      [OneGuest EXCEPT !.guest = 2, !.seen = 1],
      [TwoGuests EXCEPT !.pin = 1, !.guest = 1],
      [TwoGuests EXCEPT !.pin = 1, !.handoff = 1, !.listen = 1],
      [OneGuest EXCEPT !.meta = 1, !.list = 1, !.crash = 1, !.pin = 1],
      [TwoGuests EXCEPT !.dial = 1, !.meta = 1, !.published = {<<"a", 80>>, <<"b", 80>>}],
      [OneGuest EXCEPT !.dial = 1, !.guest = 1, !.busy = 1, !.close = 1,
                       !.published = {<<"a", 80>>}],
      [OneGuest EXCEPT !.close = 1, !.guest = 1, !.disk = 1],
      [TwoGuests EXCEPT !.listen = 2, !.forget = 1, !.newest = {80}],
      [TwoGuests EXCEPT !.listen = 1, !.crash = 1],
      [OneGuest EXCEPT !.pin = 1, !.disk = 1],
      [TwoGuests EXCEPT !.wedge = 1, !.close = 1] }

NoObservation == [power |-> 0, birth |-> 0, fail |-> 0, drop |-> 0, verify |-> 0, stop |-> 0,
                  started |-> FALSE]
Observation == [NoObservation EXCEPT !.started = TRUE]
ObservationHistories ==
    { NoObservation,
      [Observation EXCEPT !.power = 2, !.birth = 2, !.fail = 1, !.drop = 1],
      [Observation EXCEPT !.power = 1, !.verify = 1, !.birth = 1, !.stop = 1] }

\* An empty home that is seeded: what the locks find in the other histories.
Unlocked == /\ home = [n \in Nodes |-> "absent"] /\ stamp

ServicesInit ==
    /\ Init /\ CatInit /\ BootInit /\ TestInit /\ FwdInit /\ ObsInit
    /\ part \in {"locks", "catalog", "start", "test", "forwarding", "observation"}
    /\ part # "locks" => Unlocked
    /\ part = "catalog" <=> catLeft # NoCatalog
    /\ part = "start" <=> bootLeft # NoStart
    /\ part = "test" <=> testLeft # NoTest
    /\ part = "forwarding" <=> fwdLeft # NoForwarder
    /\ part = "observation" <=> obsLeft # NoObservation

servicesVars == <<part, vars, catVars, bootVars, testVars, fwdVars, obsVars>>
ServicesNext ==
    /\ UNCHANGED part
    /\ \/ part = "locks" /\ Next /\ UNCHANGED <<catVars, bootVars, testVars, fwdVars, obsVars>>
       \/ part = "catalog" /\ CatNext /\ UNCHANGED <<vars, bootVars, testVars, fwdVars, obsVars>>
       \/ part = "start" /\ BootNext /\ UNCHANGED <<vars, catVars, testVars, fwdVars, obsVars>>
       \/ part = "test" /\ TestNext /\ UNCHANGED <<vars, catVars, bootVars, fwdVars, obsVars>>
       \/ part = "forwarding" /\ FwdNext /\ UNCHANGED <<vars, catVars, bootVars, testVars, obsVars>>
       \/ part = "observation" /\ ObsNext /\ UNCHANGED <<vars, catVars, bootVars, testVars, fwdVars>>

\* The fairness of each component, in the histories that exercise it.
LocksWork == \A p \in Procs : WF_vars(part = "locks" /\ Step(p))
StartWorks == WF_bootVars(part = "start" /\ StartStep)
TestWorks ==
    /\ WF_testVars(part = "test" /\ Worker) /\ WF_testVars(part = "test" /\ Exit)
    /\ WF_testVars(part = "test" /\ Reload)
    /\ WF_testVars(part = "test" /\ CliCleanup /\ token = "cli")
ForwardingWorks ==
    /\ WF_fwdVars(part = "forwarding" /\ PassWork) /\ WF_fwdVars(part = "forwarding" /\ PinApplied)
    /\ WF_fwdVars(part = "forwarding" /\ ShutdownStep)
    /\ WF_fwdVars(part = "forwarding" /\ HandoffEnds)
    /\ \A n \in FwdNodes : /\ WF_fwdVars(part = "forwarding" /\ JobStep(n))
                           /\ WF_fwdVars(part = "forwarding" /\ MonitorStep(n))
                           /\ WF_fwdVars(part = "forwarding" /\ GracePasses(n))
    /\ \A p \in Ports : /\ WF_fwdVars(part = "forwarding" /\ dialPublishedGuest(p))
                        /\ WF_fwdVars(part = "forwarding" /\ tcp[p].closing /\ relayTCP(p))
ObservationWorks ==
    /\ WF_obsVars(part = "observation" /\ Starting) /\ WF_obsVars(part = "observation" /\ Reconciling)
    /\ WF_obsVars(part = "observation" /\ WatchLoop)
    /\ WF_obsVars(part = "observation" /\ applyWatchEvent)
    /\ WF_obsVars(part = "observation" /\ verifyObservation)

ServicesSpec == /\ ServicesInit /\ [][ServicesNext]_servicesVars
                /\ LocksWork /\ StartWorks /\ TestWorks /\ ForwardingWorks /\ ObservationWorks

\* The catalog is consistent, wherever a command was cut and however commands and seeding overlap.
CatalogIsSound ==
    /\ SeededOnce /\ CatTypeOK
    /\ UniqueNames /\ EnvironmentsOfTemplatesExist /\ DefaultIsThere /\ BootstrapFirst
    /\ EntriesResolve /\ OneOwnerPerInstance /\ ReadsAreFresh

\* Nothing is undone that was promised: what a start has recorded is not done again, the outcome of a
\* test and the machine of another node stay, and traffic stays with the guest that answers it.
PromisesAreKept ==
    [][/\ DoneStaysDone /\ OutcomeKept /\ TeardownSparesOthers
       /\ RelayStaysWithItsNode /\ AnsweringGuestKeepsRoutes]_servicesVars

\* The services do not stall: somebody who waits for locks enters, starts and closes return, teardown
\* happens, and routes and cache become those of the guests.
ServicesSettle == /\ SomebodyEnters /\ StartReturns /\ TeardownHappens
                  /\ Converges /\ CloseReturns /\ CacheConverges

=============================================================================

----------------------------- MODULE Forwarding -----------------------------
(***************************************************************************)
(* Dynamic port forwarding: one reconcile loop lists the nodes, keeps an   *)
(* SSH peer with a keepalive monitor per node, scans each guest for        *)
(* listening ports, turns them into routes, binds the host listeners and   *)
(* saves who claimed a port first and who is pinned to it.  Published TCP  *)
(* ports share the peers and the host ports.                               *)
(*                                                                         *)
(* Time is abstracted to whether a window has passed.  Discovery times     *)
(* only order the claims of a port, so a port's claims are a sequence, the *)
(* oldest first; a claim keeps its place for as long as its discovery time *)
(* is remembered.                                                          *)
(***************************************************************************)
EXTENDS Naturals, Sequences, FiniteSets, FiniteSetsExt, SequencesExt

CONSTANTS
  FwdNodes,    \* node ids; a node's sandbox name identifies it as well
  NoNode,      \* the empty node name
  Ports,       \* host ports
  Tolerance,   \* keepaliveTolerance
  Workers,     \* forwardingConcurrency
  FwdBudgets   \* the histories: how often each outside event may happen

FwdBudget == [guest : Nat, listen : Nat, meta : Nat, seen : Nat, pin : Nat,
              disk : Nat, crash : Nat, handoff : Nat, list : Nat, busy : Nat,
              dial : Nat, wedge : Nat, close : Nat, forget : Nat,
              on : SUBSET FwdNodes, newest : SUBSET Ports,
              published : SUBSET (FwdNodes \X Ports)]

ASSUME FwdAssumption ==
  /\ NoNode \notin FwdNodes
  /\ Tolerance \in Nat \ {0} /\ Workers \in Nat \ {0}
  /\ FwdBudgets \subseteq FwdBudget

VARIABLES
  guest,     \* node -> what the world outside the daemon is like for it
  busy,      \* host ports another program has bound
  state,     \* f.nodes: node -> forwardingNodeState, or Unknown
  claims,    \* port -> f.routes, f.restored and f.discovered, oldest claim first
  pins,      \* f.pins
  servers,   \* f.servers: port -> the HTTP listener
  tcp,       \* f.tcpServers: port -> the published listener and its connection
  policyFile,\* the saved routing policy
  policy,    \* who holds policyMu across a disk write, and policyHandoff
  pass,      \* the reconcile pass in progress
  jobs,      \* node -> how far reconcileNode is
  fwdLeft    \* what is left of the history

fwdVars == <<guest, busy, state, claims, pins, servers, tcp, policyFile, policy,
             pass, jobs, fwdLeft>>

-----------------------------------------------------------------------------
Unknown == [known |-> FALSE]
Fresh(ready) == [known |-> TRUE, ready |-> ready, peer |-> "none", misses |-> 0,
                 dead |-> FALSE, failures |-> 0, grace |-> FALSE,
                 stopped |-> "no", lapsed |-> FALSE, backoff |-> FALSE]
NoServer == [status |-> "none", node |-> NoNode]
NoTCP == [status |-> "none", node |-> NoNode, conn |-> "none", closing |-> FALSE]
NoPolicy == [claims |-> [p \in Ports |-> <<>>], pins |-> [p \in Ports |-> NoNode]]
Free == [by |-> "nobody", port |-> 0, node |-> NoNode]

Spent(what) == /\ fwdLeft[what] > 0
               /\ fwdLeft' = [fwdLeft EXCEPT ![what] = @ - 1]

\* A history also fixes the nodes it is about, the port the newest listener
\* owns (codexLoginCallbackPort) and the ports nodes publish as TCP.
Newest == fwdLeft.newest
Published == fwdLeft.published

Known(n) == state[n].known

\* The claim of node n on port p: "route", "lapsed", "restored", "removed".
Status(cs, p, n) ==
  IF \E i \in DOMAIN cs[p] : cs[p][i].node = n
  THEN cs[p][CHOOSE i \in DOMAIN cs[p] : cs[p][i].node = n].st ELSE "none"
HasRoute(cs, p, n) == Status(cs, p, n) \in {"route", "lapsed"}
Claim(n, st) == [node |-> n, st |-> st, current |-> TRUE]

\* The routes of node n hold the peer the node has now, or one it had before.
Repointed(cs, n, current) ==
  [p \in Ports |-> [i \in DOMAIN cs[p] |->
     IF cs[p][i].node = n THEN [cs[p][i] EXCEPT !.current = current] ELSE cs[p][i]]]

-----------------------------------------------------------------------------
(* The routing policy on disk.                                             *)

\* routingPolicySnapshot: what the next daemon is told, given these pins.
routingPolicySnapshot(newPins) ==
  [claims |-> [p \in Ports |->
      [i \in DOMAIN claims[p] |->
         [node |-> claims[p][i].node, active |-> claims[p][i].st # "removed"]]],
   pins |-> newPins]

\* validateRoutingPolicy: one claim per node and port, and every pin has an
\* active claim.  A file that fails is refused as a whole.
validateRoutingPolicy(saved) ==
  /\ \A p \in Ports : \A i, j \in DOMAIN saved.claims[p] :
        saved.claims[p][i].node = saved.claims[p][j].node => i = j
  /\ \A p \in Ports : saved.pins[p] # NoNode =>
        \E i \in DOMAIN saved.claims[p] :
           saved.claims[p][i] = [node |-> saved.pins[p], active |-> TRUE]

\* loadRoutingPolicy: an active claim waits to be confirmed, a removed one is
\* remembered for as long as the claim memory lasts.
loadRoutingPolicy(saved, remembered) ==
  LET policyOf == IF validateRoutingPolicy(saved) THEN saved ELSE NoPolicy
      kept(p) == SelectSeq(policyOf.claims[p], LAMBDA c : c.active \/ remembered)
  IN /\ pins' = policyOf.pins
     /\ claims' = [p \in Ports |-> [i \in DOMAIN kept(p) |->
          Claim(kept(p)[i].node, IF kept(p)[i].active THEN "restored" ELSE "removed")]]

-----------------------------------------------------------------------------
(* Membership.                                                             *)

confirmedStopped_Observed(s) == s.stopped = "long"

\* confirmedStopped: not running for the whole grace window, and no longer
\* answering: no transport at all, or discovery failing until the routes lapsed.
confirmedStopped(s) == s.stopped = "long" /\ (s.peer = "none" \/ s.lapsed)

\* syncMembership, first half: saved claims whose node still exists become
\* members; the routes of a ready node come back lapsed until a scan confirms
\* them.  Second half: deleted and confirmed stopped nodes are retired with
\* their routes, pins and saved claims, unready ones only lose those.
Members(l) == {n \in FwdNodes : Known(n)}
              \union {n \in l.present : \E p \in Ports : Status(claims, p, n) = "restored"}
Prior(n, l) == IF Known(n) THEN state[n] ELSE Fresh(n \in l.ready)
Retired(l) == {n \in Members(l) : \/ n \notin l.present
                                  \/ n \notin l.running /\ confirmedStopped(Prior(n, l))}
Evicted(l) == Retired(l) \union (Members(l) \ l.ready)

RetainedClaim(l, c) ==
  CASE c.st = "restored" /\ c.node \in l.present \ Evicted(l) ->
           <<[Claim(c.node, "lapsed") EXCEPT !.current = FALSE]>>
    [] c.st = "restored" -> <<>>
    [] c.st \in {"route", "lapsed"} /\ c.node \in Evicted(l) -> <<Claim(c.node, "removed")>>
    [] OTHER -> <<c>>

syncMembership(l) ==
  LET noted(n) == [Prior(n, l) EXCEPT !.ready = n \in l.ready,
                     !.stopped = CASE n \in l.running -> "no"
                                   [] @ = "no" -> "recent"
                                   [] OTHER -> @]
  IN /\ claims' = [p \in Ports |->
            FlattenSeq([i \in DOMAIN claims[p] |-> RetainedClaim(l, claims[p][i])])]
     /\ pins' = [p \in Ports |->
            IF pins[p] \in Evicted(l) \/ pins[p] \notin l.present THEN NoNode ELSE pins[p]]
     /\ state' = [n \in FwdNodes |->
            CASE n \in Members(l) \ Retired(l) -> noted(n)
              [] n \in l.running -> Fresh(n \in l.ready)
              [] OTHER -> Unknown]
     /\ jobs' = [n \in FwdNodes |->
            IF \/ n \in l.running
               \/ n \in Members(l) \ Retired(l) /\ Prior(n, l).peer # "none"
            THEN "queued" ELSE "none"]

\* reconcile: NodeList reads the inventory; it is applied a while later.
NodeList ==
  /\ pass.at = "idle" /\ ~pass.cancelled
  /\ \/ pass' = [pass EXCEPT !.at = "listed", !.listing =
           [present |-> {n \in FwdNodes : guest[n].listed},
            running |-> {n \in FwdNodes : guest[n].listed /\ guest[n].seen},
            ready |-> {n \in FwdNodes : guest[n].listed /\ guest[n].ready}]]
        /\ UNCHANGED fwdLeft
     \/ Spent("list") /\ pass' = [pass EXCEPT !.at = "failed"]
  /\ UNCHANGED <<guest, busy, state, claims, pins, servers, tcp, policyFile, policy, jobs>>

NoListing == [present |-> {}, running |-> {}, ready |-> {}]
Working == [at |-> "work", cancelled |-> pass.cancelled, listing |-> NoListing]

\* The successful listing is applied, unless a handoff has frozen the identity
\* of the routes: then this pass does nothing for any node.
SyncMembership ==
  /\ pass.at = "listed" /\ policy.lock = Free
  /\ pass' = Working
  /\ IF policy.frozen THEN UNCHANGED <<state, claims, pins, jobs>>
                      ELSE syncMembership(pass.listing)
  /\ UNCHANGED <<guest, busy, servers, tcp, policyFile, policy, fwdLeft>>

\* retainMembership: nothing is torn down and every known node is worked.
retainMembership ==
  /\ pass.at = "failed"
  /\ pass' = Working
  /\ jobs' = [n \in FwdNodes |-> IF Known(n) THEN "queued" ELSE "none"]
  /\ UNCHANGED <<guest, busy, state, claims, pins, servers, tcp, policyFile, policy, fwdLeft>>

-----------------------------------------------------------------------------
(* One node: reconcileNode.                                                *)

\* recordNodeFailure: the second failure after the grace window lapses the
\* routes and drops the peer; the routes themselves stay.
Lapses(s) == ~s.lapsed /\ s.failures >= 1 /\ s.grace
recordNodeFailure(n) ==
  LET s == state[n]
      failed == [s EXCEPT !.failures = Min({@ + 1, 2}), !.backoff = TRUE]
  IN /\ state' = [state EXCEPT ![n] =
           IF Lapses(s) THEN [failed EXCEPT !.lapsed = TRUE, !.peer = "none",
                                            !.dead = FALSE, !.misses = 0]
                        ELSE failed]
     /\ claims' = IF Lapses(s)
           THEN Repointed([p \in Ports |-> [i \in DOMAIN claims[p] |->
                   IF claims[p][i].node = n /\ claims[p][i].st = "route"
                   THEN [claims[p][i] EXCEPT !.st = "lapsed"] ELSE claims[p][i]]], n, FALSE)
           ELSE claims

\* A worker takes the node: one in backoff is left alone, a peer whose monitor
\* gave up is dropped (its routes are not), a node without one connects.
TakePeer(n) ==
  /\ jobs[n] = "queued"
  /\ Cardinality({m \in FwdNodes : jobs[m] \notin {"none", "queued"}}) < Workers
  /\ jobs' = [jobs EXCEPT ![n] =
        CASE pass.cancelled \/ ~Known(n) \/ state[n].backoff -> "none"
          [] state[n].peer = "none" \/ state[n].dead -> "connect"
          [] OTHER -> "open"]
  /\ state' = IF jobs'[n] = "connect"
              THEN [state EXCEPT ![n].peer = "none", ![n].dead = FALSE, ![n].misses = 0]
              ELSE state
  /\ claims' = IF jobs'[n] = "connect" THEN Repointed(claims, n, FALSE) ELSE claims
  /\ UNCHANGED <<guest, busy, pins, servers, tcp, policyFile, policy, pass, fwdLeft>>

\* adoptPeer: the new peer replaces the old one in every route of the node.
adoptPeer(n) ==
  /\ state' = [state EXCEPT ![n].peer = "open", ![n].dead = FALSE, ![n].misses = 0]
  /\ claims' = Repointed(claims, n, TRUE)

\* Connecting has deadlines of its own: a guest that does not answer fails it.
Connect(n) ==
  /\ jobs[n] = "connect"
  /\ IF guest[n].up = "up" /\ ~pass.cancelled
     THEN adoptPeer(n) /\ jobs' = [jobs EXCEPT ![n] = "open"]
     ELSE recordNodeFailure(n) /\ jobs' = [jobs EXCEPT ![n] = "none"]
  /\ UNCHANGED <<guest, busy, pins, servers, tcp, policyFile, policy, pass, fwdLeft>>

\* sshForwardingPeer.run: the session is opened before the deadline is looked
\* at, so it waits for the guest's answer or for the connection to close.
OpenSession(n) ==
  /\ jobs[n] = "open"
  /\ \/ /\ state[n].peer = "open" /\ guest[n].up = "up" /\ ~guest[n].wedged
        /\ jobs' = [jobs EXCEPT ![n] = "scan"]
        /\ UNCHANGED <<state, claims>>
     \/ /\ state[n].peer # "open" \/ guest[n].up = "down"
        /\ jobs' = [jobs EXCEPT ![n] = "none"]
        /\ recordNodeFailure(n)
  /\ UNCHANGED <<guest, busy, pins, servers, tcp, policyFile, policy, pass, fwdLeft>>

\* The command itself runs under the deadline and fails when it expires.
ScanFails(n) ==
  /\ jobs[n] = "scan"
  /\ pass.cancelled \/ state[n].peer # "open" \/ guest[n].up # "up"
  /\ recordNodeFailure(n)
  /\ jobs' = [jobs EXCEPT ![n] = "none"]
  /\ UNCHANGED <<guest, busy, pins, servers, tcp, policyFile, policy, pass, fwdLeft>>

\* discoveryTimeLocked: a confirmed or remembered claim keeps its place among
\* the claims of the port; the callback port always takes the newest one.
discoveryTimeLocked(p, n) ==
  LET mine == Status(claims, p, n)
      others == SelectSeq(claims[p], LAMBDA c : c.node # n)
  IN CASE mine \in {"route", "lapsed", "restored"} \/ (mine = "removed" /\ p \notin Newest) ->
            [i \in DOMAIN claims[p] |->
               IF claims[p][i].node = n THEN Claim(n, "route") ELSE claims[p][i]]
       [] OTHER -> Append(others, Claim(n, "route"))

\* removeRouteLocked, and a saved claim the scan did not confirm.
RemovedClaim(p, n) ==
  FlattenSeq([i \in DOMAIN claims[p] |->
    CASE claims[p][i].node = n /\ claims[p][i].st \in {"route", "lapsed"} ->
           <<Claim(n, "removed")>>
      [] claims[p][i].node = n /\ claims[p][i].st = "restored" -> <<>>
      [] OTHER -> <<claims[p][i]>>])

\* noteHealthy
Healthy(s) == [s EXCEPT !.failures = 0, !.grace = FALSE, !.lapsed = FALSE, !.backoff = FALSE]

\* applyScanResult: what the guest listens on becomes its routes, what it has
\* stopped listening on loses them, and with them a pin.
applyScanResult(n, found) ==
  LET ports == IF state[n].ready THEN found ELSE {} IN
  /\ state' = [state EXCEPT ![n] = Healthy(@)]
  /\ claims' = [p \in Ports |-> IF p \in ports THEN discoveryTimeLocked(p, n)
                                               ELSE RemovedClaim(p, n)]
  /\ pins' = [p \in Ports |-> IF p \notin ports /\ pins[p] = n THEN NoNode ELSE pins[p]]

ScanPorts_Unfrozen(n) ==
  /\ jobs[n] = "scan" /\ guest[n].up = "up" /\ state[n].peer = "open"
  /\ policy.lock = Free
  /\ applyScanResult(n, guest[n].listens)
  /\ jobs' = [jobs EXCEPT ![n] = "telemetry"]
  /\ UNCHANGED <<guest, busy, servers, tcp, policyFile, policy, pass, fwdLeft>>

ScanPorts(n) ==
  /\ jobs[n] = "scan" /\ guest[n].up = "up" /\ state[n].peer = "open"
  /\ policy.lock = Free
  /\ IF policy.frozen THEN UNCHANGED <<state, claims, pins>>
                      ELSE applyScanResult(n, guest[n].listens)
  /\ jobs' = [jobs EXCEPT ![n] = "telemetry"]
  /\ UNCHANGED <<guest, busy, servers, tcp, policyFile, policy, pass, fwdLeft>>

\* SampleTelemetry opens a session as well; what becomes of it changes no route.
SampleTelemetry(n) ==
  /\ jobs[n] = "telemetry"
  /\ state[n].peer # "open" \/ guest[n].up = "down"
       \/ (guest[n].up = "up" /\ ~guest[n].wedged)
  /\ jobs' = [jobs EXCEPT ![n] = "none"]
  /\ UNCHANGED <<guest, busy, state, claims, pins, servers, tcp, policyFile, policy, pass, fwdLeft>>

\* peerHealthMonitor.run: a missed keepalive counts, an answered one resets the
\* count; too many close the connection and only then mark it dead.
Ping(n) ==
  /\ Known(n) /\ state[n].peer = "open" /\ ~pass.cancelled
  /\ LET misses == IF guest[n].up = "up" THEN 0 ELSE state[n].misses + 1
     IN /\ misses # state[n].misses
        /\ state' = [state EXCEPT ![n].misses = misses,
                       ![n].peer = IF misses >= Tolerance THEN "closed" ELSE @]
  /\ UNCHANGED <<guest, busy, claims, pins, servers, tcp, policyFile, policy, pass, jobs, fwdLeft>>

MarkDead(n) ==
  /\ Known(n) /\ state[n].peer = "closed" /\ ~state[n].dead
  /\ state' = [state EXCEPT ![n].dead = TRUE]
  /\ UNCHANGED <<guest, busy, claims, pins, servers, tcp, policyFile, policy, pass, jobs, fwdLeft>>

-----------------------------------------------------------------------------
(* The host listeners.                                                     *)

\* preferredClaimantLocked: the pinned node's route, lapsed or not; then the
\* oldest live route (the newest on the callback port); then a lapsed one.
Claimants(p, sts) == {i \in DOMAIN claims[p] : claims[p][i].st \in sts}
selectClaimantLocked(p, sts) ==
  IF Claimants(p, sts) = {} THEN NoNode
  ELSE claims[p][IF p \in Newest THEN Max(Claimants(p, sts)) ELSE Min(Claimants(p, sts))].node
preferredClaimantLocked(p) ==
  CASE pins[p] # NoNode /\ HasRoute(claims, p, pins[p]) -> pins[p]
    [] Claimants(p, {"route"}) # {} -> selectClaimantLocked(p, {"route"})
    [] OTHER -> selectClaimantLocked(p, {"lapsed"})

\* publishedMappingsLocked: two ready nodes that publish the same port conflict.
Publishers(p) == {n \in FwdNodes : <<n, p>> \in Published /\ Known(n) /\ state[n].ready}
Mapping(p) == IF Cardinality(Publishers(p)) = 1 THEN CHOOSE n \in Publishers(p) : TRUE ELSE NoNode

\* reconcileTCPServers, first half: listeners nobody wants any more, or that
\* belong to another node, are told to close; an HTTP listener makes way.
Unwanted(p) == tcp[p].status # "none"
               /\ (Publishers(p) = {} \/ tcp[p].node # Mapping(p))
CloseTCP ==
  /\ pass.at = "work" /\ \A n \in FwdNodes : jobs[n] = "none"
  /\ pass' = [pass EXCEPT !.at = "drain"]
  /\ tcp' = [p \in Ports |-> IF Unwanted(p) THEN [tcp[p] EXCEPT !.closing = TRUE] ELSE tcp[p]]
  /\ servers' = [p \in Ports |->
        IF Publishers(p) # {} /\ servers[p].status = "serving" THEN NoServer ELSE servers[p]]
  /\ UNCHANGED <<guest, busy, state, claims, pins, policyFile, policy, jobs, fwdLeft>>

Drained == \A p \in Ports : tcp[p].closing => tcp[p].conn = "none"

\* Second half, once the closed listeners have drained: bind what is wanted.
BindTCP ==
  /\ pass.at = "drain" /\ Drained
  /\ pass' = [pass EXCEPT !.at = "servers"]
  /\ tcp' = [p \in Ports |->
        CASE Publishers(p) = {} -> NoTCP
          [] tcp[p].status = "bound" /\ ~tcp[p].closing -> tcp[p]
          [] OTHER -> [NoTCP EXCEPT !.node = Mapping(p), !.status =
                         IF Mapping(p) = NoNode \/ p \in busy THEN "conflicted" ELSE "bound"]]
  /\ UNCHANGED <<guest, busy, state, claims, pins, servers, policyFile, policy, jobs, fwdLeft>>

\* reconcileServers: a port with any route, lapsed ones included, keeps its
\* listener, and the listener follows the preferred claimant.
reconcileServers ==
  /\ pass.at = "servers"
  /\ pass' = [pass EXCEPT !.at = "save"]
  /\ servers' = [p \in Ports |->
        CASE Claimants(p, {"route", "lapsed"}) = {} -> NoServer
          [] tcp[p].status # "none" -> [status |-> "conflicted", node |-> NoNode]
          [] servers[p].status = "serving" \/ p \notin busy ->
               [status |-> "serving", node |-> preferredClaimantLocked(p)]
          [] OTHER -> [status |-> "conflicted", node |-> NoNode]]
  /\ UNCHANGED <<guest, busy, state, claims, pins, tcp, policyFile, policy, jobs, fwdLeft>>

\* persistForwardingPolicy ends the pass; a handoff keeps it from writing.
persistForwardingPolicy ==
  /\ pass.at = "save" /\ policy.lock = Free
  /\ pass' = [pass EXCEPT !.at = "idle"]
  /\ \/ policy.frozen /\ UNCHANGED <<policyFile, fwdLeft>>
     \/ ~policy.frozen /\ policyFile' = routingPolicySnapshot(pins) /\ UNCHANGED fwdLeft
     \/ ~policy.frozen /\ Spent("disk") /\ UNCHANGED policyFile
  /\ UNCHANGED <<guest, busy, state, claims, pins, servers, tcp, policy, jobs>>

\* publishedTCPServer: a connection is dialled through the node's cached peer,
\* relayed, and closed by either end or by the listener that is closing.
AcceptTCP(p) ==
  /\ tcp[p].status = "bound" /\ ~tcp[p].closing /\ tcp[p].conn = "none"
  /\ Spent("dial")
  /\ tcp' = [tcp EXCEPT ![p].conn = "dialling"]
  /\ UNCHANGED <<guest, busy, state, claims, pins, servers, policyFile, policy, pass, jobs>>

dialPublishedGuest(p) ==
  /\ tcp[p].conn = "dialling"
  /\ LET n == tcp[p].node
         reachable == Known(n) /\ state[n].ready /\ ~state[n].lapsed
                      /\ state[n].peer = "open" /\ guest[n].up = "up"
     IN tcp' = [tcp EXCEPT ![p].conn = IF reachable /\ ~tcp[p].closing THEN "relay" ELSE "none"]
  /\ UNCHANGED <<guest, busy, state, claims, pins, servers, policyFile, policy, pass, jobs, fwdLeft>>

relayTCP(p) ==
  /\ tcp[p].conn = "relay"
  /\ tcp' = [tcp EXCEPT ![p].conn = "none"]
  /\ UNCHANGED <<guest, busy, state, claims, pins, servers, policyFile, policy, pass, jobs, fwdLeft>>

-----------------------------------------------------------------------------
(* Pins, handoff, shutdown and restart.                                    *)

Serving == pass.at \notin {"closing", "closed"}

PinnedPolicy(p, n) == routingPolicySnapshot([pins EXCEPT ![p] = n])

\* pinBarePort writes the pin under policyMu and only then applies it.
pinBarePort(p, n) ==
  /\ Serving /\ policy.lock = Free /\ ~policy.frozen
  /\ HasRoute(claims, p, n) /\ servers[p].status = "serving" /\ pins[p] # n
  /\ fwdLeft.pin > 0
  /\ \/ /\ Spent("pin")
        /\ policyFile' = PinnedPolicy(p, n)
        /\ policy' = [policy EXCEPT !.lock = [by |-> "pin", port |-> p, node |-> n]]
     \/ Spent("disk") /\ UNCHANGED <<policyFile, policy>>
  /\ UNCHANGED <<guest, busy, state, claims, pins, servers, tcp, pass, jobs>>

PinApplied ==
  /\ policy.lock.by = "pin"
  /\ pins' = [pins EXCEPT ![policy.lock.port] = policy.lock.node]
  /\ servers' = [servers EXCEPT ![policy.lock.port].node =
                   IF servers[policy.lock.port].status = "none" THEN @ ELSE policy.lock.node]
  /\ policy' = [policy EXCEPT !.lock = Free]
  /\ UNCHANGED <<guest, busy, state, claims, tcp, policyFile, pass, jobs, fwdLeft>>

\* prepareRoutingHandoff: a durable cut, and route identity is frozen at it.
prepareRoutingHandoff ==
  /\ Serving /\ policy.lock = Free /\ ~policy.frozen
  /\ Spent("handoff")
  /\ policyFile' = routingPolicySnapshot(pins)
  /\ policy' = [policy EXCEPT !.frozen = TRUE]
  /\ UNCHANGED <<guest, busy, state, claims, pins, servers, tcp, pass, jobs>>

resumeRoutingAfterHandoff ==
  /\ policy.frozen
  /\ policy' = [policy EXCEPT !.frozen = FALSE]
  /\ UNCHANGED <<guest, busy, state, claims, pins, servers, tcp, policyFile, pass, jobs, fwdLeft>>

DaemonDown ==
  /\ state' = [n \in FwdNodes |-> Unknown]
  /\ servers' = [p \in Ports |-> NoServer]
  /\ jobs' = [n \in FwdNodes |-> "none"]

\* Start after a crash, a stop, or as the candidate that took over: only what
\* is on disk is left.
Restarted ==
  /\ DaemonDown
  /\ \E remembered \in BOOLEAN : loadRoutingPolicy(policyFile, remembered)
  /\ tcp' = [p \in Ports |-> NoTCP]
  /\ pass' = [at |-> "idle", cancelled |-> FALSE, listing |-> NoListing]
  /\ policy' = [lock |-> Free, frozen |-> FALSE]
  /\ UNCHANGED <<guest, busy, policyFile>>
Restart == Spent("crash") /\ Restarted
CommitHandoff == policy.frozen /\ Restarted /\ UNCHANGED fwdLeft

ToldToClose == [p \in Ports |-> [tcp[p] EXCEPT !.closing = tcp[p].status # "none"]]

\* Close cancels the loop, waits for the pass in progress, saves once more and
\* closes the listeners and peers, waiting for published connections to drain.
CancelForwarder ==
  /\ Serving /\ ~pass.cancelled /\ Spent("close")
  /\ pass' = [pass EXCEPT !.cancelled = TRUE]
  /\ UNCHANGED <<guest, busy, state, claims, pins, servers, tcp, policyFile, policy, jobs>>

CloseForwarder ==
  /\ pass.cancelled /\ pass.at = "idle" /\ policy.lock = Free
  /\ policyFile' = IF policy.frozen THEN policyFile ELSE routingPolicySnapshot(pins)
  /\ pass' = [pass EXCEPT !.at = "closing"]
  /\ claims' = [p \in Ports |-> <<>>]
  /\ tcp' = ToldToClose
  /\ DaemonDown
  /\ UNCHANGED <<guest, busy, pins, policy, fwdLeft>>

Closed ==
  /\ pass.at = "closing" /\ \A p \in Ports : tcp[p].conn = "none"
  /\ pass' = [pass EXCEPT !.at = "closed"]
  /\ tcp' = [p \in Ports |-> NoTCP]
  /\ UNCHANGED <<guest, busy, state, claims, pins, servers, policyFile, policy, jobs, fwdLeft>>

-----------------------------------------------------------------------------
(* Time, guests and the host.                                              *)

GracePasses(n) ==
  /\ Known(n)
  /\ \/ state[n].failures > 0 /\ ~state[n].grace /\ state' = [state EXCEPT ![n].grace = TRUE]
     \/ state[n].backoff /\ state' = [state EXCEPT ![n].backoff = FALSE]
     \/ state[n].stopped = "recent" /\ state' = [state EXCEPT ![n].stopped = "long"]
  /\ UNCHANGED <<guest, busy, claims, pins, servers, tcp, policyFile, policy, pass, jobs, fwdLeft>>

\* pruneDiscoveryMemoryLocked: a removed claim is older than the claim memory.
pruneDiscoveryMemory(p, n) ==
  /\ Status(claims, p, n) = "removed" /\ Spent("forget")
  /\ claims' = [claims EXCEPT ![p] = SelectSeq(@, LAMBDA c : c.node # n)]
  /\ UNCHANGED <<guest, busy, state, pins, servers, tcp, policyFile, policy, pass, jobs>>

World(n) ==
  /\ guest[n].listed
  /\ \/ \E up \in {"up", "silent", "down"} :
           up # guest[n].up /\ Spent("guest") /\ guest' = [guest EXCEPT ![n].up = up]
     \/ \E p \in Ports : /\ Spent("listen")
                         /\ guest' = [guest EXCEPT ![n].listens = SymDiff(@, {p})]
     \/ Spent("meta") /\ guest' = [guest EXCEPT ![n].ready = ~@]
     \/ Spent("meta") /\ guest' = [guest EXCEPT ![n].listed = FALSE, ![n].up = "down"]
     \/ Spent("seen") /\ guest' = [guest EXCEPT ![n].seen = ~@]
     \/ ~guest[n].wedged /\ Spent("wedge") /\ guest' = [guest EXCEPT ![n].wedged = TRUE]
  /\ UNCHANGED <<busy, state, claims, pins, servers, tcp, policyFile, policy, pass, jobs>>

HostPort(p) ==
  /\ servers[p].status # "serving" /\ tcp[p].status # "bound" /\ Spent("busy")
  /\ busy' = SymDiff(busy, {p})
  /\ UNCHANGED <<guest, state, claims, pins, servers, tcp, policyFile, policy, pass, jobs>>

-----------------------------------------------------------------------------
FwdInit ==
  /\ fwdLeft \in FwdBudgets
  /\ guest = [n \in FwdNodes |->
       IF n \in fwdLeft.on
       THEN [listed |-> TRUE, ready |-> TRUE, seen |-> TRUE, up |-> "up",
             wedged |-> FALSE, listens |-> Ports]
       ELSE [listed |-> FALSE, ready |-> FALSE, seen |-> FALSE, up |-> "down",
             wedged |-> FALSE, listens |-> {}]]
  /\ busy = {}
  /\ state = [n \in FwdNodes |-> Unknown]
  /\ claims = NoPolicy.claims /\ pins = NoPolicy.pins
  /\ servers = [p \in Ports |-> NoServer]
  /\ tcp = [p \in Ports |-> NoTCP]
  /\ policyFile = [claims |-> [p \in Ports |-> <<>>], pins |-> NoPolicy.pins]
  /\ policy = [lock |-> Free, frozen |-> FALSE]
  /\ pass = [at |-> IF fwdLeft.on = {} THEN "closed" ELSE "idle", cancelled |-> fwdLeft.on = {},
             listing |-> NoListing]
  /\ jobs = [n \in FwdNodes |-> "none"]

PassWork == NodeList \/ SyncMembership \/ retainMembership \/ CloseTCP \/ BindTCP
            \/ reconcileServers \/ persistForwardingPolicy
JobStep(n) == TakePeer(n) \/ Connect(n) \/ OpenSession(n) \/ ScanFails(n) \/ ScanPorts(n)
              \/ SampleTelemetry(n)
MonitorStep(n) == Ping(n) \/ MarkDead(n)
ShutdownStep == CloseForwarder \/ Closed
HandoffEnds == resumeRoutingAfterHandoff \/ CommitHandoff

FwdNext ==
  \/ PassWork \/ PinApplied \/ ShutdownStep \/ HandoffEnds
  \/ \E n \in FwdNodes : JobStep(n) \/ MonitorStep(n) \/ GracePasses(n) \/ World(n)
  \/ \E p \in Ports : AcceptTCP(p) \/ dialPublishedGuest(p) \/ relayTCP(p) \/ HostPort(p)
  \/ \E p \in Ports, n \in FwdNodes : pinBarePort(p, n) \/ pruneDiscoveryMemory(p, n)
  \/ prepareRoutingHandoff \/ Restart \/ CancelForwarder

\* The loop, its workers, monitors and timers run; a handoff is decided; a
\* closing listener's connections end.  Nothing is asked of guests or users.
FwdFairness ==
  /\ WF_fwdVars(PassWork) /\ WF_fwdVars(PinApplied) /\ WF_fwdVars(ShutdownStep)
  /\ WF_fwdVars(HandoffEnds)
  /\ \A n \in FwdNodes : /\ WF_fwdVars(JobStep(n)) /\ WF_fwdVars(MonitorStep(n))
                      /\ WF_fwdVars(GracePasses(n))
  /\ \A p \in Ports : /\ WF_fwdVars(dialPublishedGuest(p))
                      /\ WF_fwdVars(tcp[p].closing /\ relayTCP(p))

FwdSpec == FwdInit /\ [][FwdNext]_fwdVars /\ FwdFairness

-----------------------------------------------------------------------------
(* Properties.                                                             *)

\* Every variable has its type, and a port has at most one claim per node
\* however often its route comes and goes (routes, saved and remembered claims
\* are three maps in dynamicForwarder).
FwdTypeOK ==
  /\ \A n \in FwdNodes : state[n] = Unknown \/
       /\ state[n].peer \in {"none", "open", "closed"}
       /\ state[n].misses \in 0..Tolerance /\ state[n].failures \in 0..2
       /\ state[n].stopped \in {"no", "recent", "long"}
  /\ \A p \in Ports :
       /\ \A i, j \in DOMAIN claims[p] : claims[p][i].node = claims[p][j].node => i = j
       /\ \A i \in DOMAIN claims[p] :
            claims[p][i].st \in {"route", "lapsed", "restored", "removed"}
       /\ pins[p] \in FwdNodes \union {NoNode}
       /\ servers[p].status \in {"none", "serving", "conflicted"}
       /\ tcp[p].status \in {"none", "bound", "conflicted"}
  /\ pass.at \in {"idle", "listed", "failed", "work", "drain", "servers", "save",
                  "closing", "closed"}

\* Whatever is on disk, at any moment a crash may strike, is a policy the next
\* start accepts: validateRoutingPolicy refuses the whole file for one pin
\* whose claim is gone, and with it every claim and pin.
SavedPolicyLoads == validateRoutingPolicy(policyFile)

\* A pin the forwarder acts on is on disk already, so no crash between the
\* write and the next pass takes back what pinBarePort reported as done.
PinsAreDurable == Serving => \A p \in Ports : pins[p] # NoNode => policyFile.pins[p] = pins[p]

\* ServeHTTP for the generic host of a port.
ServeHTTP(p) ==
  IF servers[p].status # "serving" THEN "refused"
  ELSE CASE Status(claims, p, servers[p].node) = "route" -> servers[p].node
         [] Status(claims, p, servers[p].node) = "lapsed" -> "bad gateway"
         [] OTHER -> "not found"

\* While a port is pinned its generic host never reaches another node, not
\* even when the pinned guest is unreachable or the daemon has just restarted
\* (syncMembership: "an unreachable pinned guest must never redirect generic
\* requests to another node").
PinnedHostNeverRedirects ==
  \A p \in Ports : pins[p] # NoNode =>
    ServeHTTP(p) \in {pins[p], "bad gateway", "refused"}

\* While its node has a peer, a route that takes traffic holds that very peer:
\* one adopted after a reconnect replaces the dead one in every route at once,
\* and no request goes back into the dead connection (adoptPeer).
RoutesUseCurrentPeer ==
  \A p \in Ports : \A i \in DOMAIN claims[p] :
    claims[p][i].st = "route" /\ state[claims[p][i].node].peer # "none" => claims[p][i].current

\* While a handoff holds the update gate, the file the candidate has loaded says
\* exactly what the old daemon still routes by: no scan, sync or save in flight
\* moves either side of the cut.
HandoffCutIsExact ==
  policy.frozen /\ Serving =>
    /\ policyFile.pins = pins
    /\ \A p \in Ports : [i \in DOMAIN claims[p] |->
          [node |-> claims[p][i].node, active |-> claims[p][i].st # "removed"]]
         = policyFile.claims[p]

\* A published port changes hands only when no connection to its former node
\* is left: the old listener has drained before the new one is bound, unless
\* the whole daemon goes away (reconcileTCPServers).
DaemonReplaced == fwdLeft'.crash # fwdLeft.crash \/ policy'.frozen # policy.frozen
RelayStaysWithItsNode ==
  \A p \in Ports : tcp'[p].node # tcp[p].node => tcp[p].conn = "none" \/ DaemonReplaced

\* The observation cache alone never takes a route away: while discovery of a
\* guest is not failing, a route on a port it still listens on is lost neither
\* to an inventory that calls it stopped, nor to a scan, a save or a handoff,
\* but only to one that no longer lists it, or not as ready.
AnsweringGuestKeepsRoutes ==
     \A p \in Ports, n \in FwdNodes :
       /\ Status(claims, p, n) = "route" /\ p \in guest[n].listens
       /\ state[n].failures = 0
       /\ Serving' /\ fwdLeft'.crash = fwdLeft.crash
       /\ pass.at = "listed" => n \in pass.listing.present \cap pass.listing.ready
       => Status(claims', p, n) \in {"route", "lapsed", "restored"}

Reachable(n) == guest[n].listed /\ guest[n].ready /\ guest[n].seen /\ guest[n].up = "up"
                /\ ~guest[n].wedged
Follows(n) ==
  /\ \A p \in Ports :
       /\ <>[](Reachable(n) /\ p \in guest[n].listens /\ ~pass.cancelled)
            => <>[](Status(claims, p, n) = "route")
       /\ <>[](Reachable(n) /\ p \notin guest[n].listens /\ ~pass.cancelled)
            => <>[]~HasRoute(claims, p, n)
  /\ <>[](~guest[n].listed /\ ~pass.cancelled)
       => <>[](\A p \in Ports : ~HasRoute(claims, p, n))

\* However guests, listings and peers fail on the way, once they are quiet the
\* routes become those of the guests that answer, and a deleted node has none
\* (assuming no guest that answers keepalives but opens no session).
Converges == <>[](\A n \in FwdNodes : ~guest[n].wedged) => \A n \in FwdNodes : Follows(n)

\* Close returns, unless the guest being scanned neither answers nor hangs up.
CloseReturns ==
  []<>(pass.cancelled => \/ pass.at = "closed"
                         \/ \E n \in FwdNodes : guest[n].up = "silent" \/ guest[n].wedged)

\* What the forwarder routes by, what is on disk and what a successor loads agree.
RoutingIsSound == /\ FwdTypeOK /\ SavedPolicyLoads /\ PinsAreDurable /\ PinnedHostNeverRedirects
                  /\ RoutesUseCurrentPeer /\ HandoffCutIsExact

=============================================================================

------------------------------ MODULE Activity ------------------------------
(***************************************************************************)
(* The daemon's activity history: the journal on disk (activity_journal),  *)
(* the queue of native events and the observers that fill it               *)
(* (activity_native, activity_terminal, activity_routes), the requests     *)
(* that append to it (daemon_activity), and the hand-over of queue and     *)
(* baselines in a live update (activity_handoff).                          *)
(*                                                                         *)
(* There are two processes: "old" serves, "new" may replace it.  A message *)
(* is a number, its id; "notes" holds what each says.  One terminal rings, *)
(* one route comes and goes, one resource is overcommitted or not.  A      *)
(* notification is counted like a bell.                                    *)
(***************************************************************************)
EXTENDS Naturals, Sequences, FiniteSets, FiniteSetsExt, SequencesExt

CONSTANTS JournalLimit,   \* activityMessageLimit
          NativeCap,      \* nativeActivityQueueLimit
          ActBudgets,     \* what may happen in a history
          UnsyncedWrites  \* a write may report an error after it replaced the file

VARIABLES adisk,   \* the journal's files: id -> sequence
          notes,   \* all messages made
          side,    \* the two processes
          world,   \* what there is to observe
          views,   \* the forwarding views on their way to the observer
          upd,     \* how far the update is
          wrote,   \* the ids ever written
          actLeft
actVars == <<adisk, notes, side, world, views, upd, wrote, actLeft>>

SidesOf == {"old", "new"}
ViewSources == {"loop", "request"}
RouteStates == {"none", "serving", "lapsed", "down"}
NoView == [by |-> "nobody", route |-> "none"]

NewHost(phase) ==
    [phase |-> phase, open |-> FALSE, through |-> 0, recs |-> <<>>, pending |-> <<>>, dropped |-> 0,
     frozen |-> FALSE, bells |-> 0, route |-> "none", over |-> FALSE, missed |-> 0, omitted |-> 0]

ActLeft(f) == actLeft[f] > 0 /\ actLeft' = [actLeft EXCEPT ![f] = @ - 1]
Running(s) == side[s].phase \notin {"absent", "gone", "retired"}
\* The update barrier is held by the update; every other access to the journal shares it.
Enters(s) == side[s].phase \in {"owner", "serving"}

-----------------------------------------------------------------------------
\* The world.
Rings == /\ ActLeft("bell") /\ world' = [world EXCEPT !.bells = @ + 1, !.rung = @ + 1]
         /\ UNCHANGED <<adisk, notes, side, views, upd, wrote>>
\* A recovered screen counts its bells again from nothing.
RendererRecovered == /\ world.bells > 0 /\ ActLeft("reset") /\ world' = [world EXCEPT !.bells = 0, !.reset = TRUE]
                     /\ UNCHANGED <<adisk, notes, side, views, upd, wrote>>
RouteChanges == /\ ActLeft("route") /\ \E r \in RouteStates \ {world.route} : world' = [world EXCEPT !.route = r]
                /\ UNCHANGED <<adisk, notes, side, views, upd, wrote>>
CapacityChanges == /\ ActLeft("over") /\ world' = [world EXCEPT !.over = ~@]
                   /\ UNCHANGED <<adisk, notes, side, views, upd, wrote>>
RetentionPasses == /\ ActLeft("expire") /\ \E i \in DOMAIN adisk \ world.expired :
                        /\ \A j \in DOMAIN adisk \ world.expired : adisk[i] <= adisk[j]
                        /\ world' = [world EXCEPT !.expired = @ \cup {i}]
                   /\ UNCHANGED <<adisk, notes, side, views, upd, wrote>>

-----------------------------------------------------------------------------
\* The journal.  Expired records go, and the oldest beyond the limit; a removal may fail,
\* and then what was not yet removed stays.
Without(f, R) == [i \in DOMAIN f \ R |-> f[i]]
Excess(f) == {i \in DOMAIN f : Cardinality({j \in DOMAIN f : f[j] >= f[i]}) > JournalLimit}
Removable(f) == LET e == DOMAIN f \cap world.expired IN e \cup Excess(Without(f, e))
PartlyRemoved(f) == SUBSET Removable(f) \ {Removable(f)}

\* A handler or a flush that finds no journal opens it first.
Opens(s) == (Enters(s) \/ side[s].phase = "closing") /\ ~side[s].open
Loadable == \A i, j \in DOMAIN adisk : i # j => adisk[i] # adisk[j]
PruneResults(f) == {[ok |-> TRUE, gone |-> Removable(f)]} \cup {[ok |-> FALSE, gone |-> R] : R \in PartlyRemoved(f)}
Outcome(ok) == IF ok THEN UNCHANGED actLeft ELSE ActLeft("fault")

\* newActivityJournal reads every file; the journal stays closed if one is invalid or pruning fails.
newActivityJournal(s) ==
    /\ Opens(s) /\ Loadable /\ UNCHANGED <<notes, world, views, upd, wrote>>
    /\ \E p \in PruneResults(adisk) \cup {[ok |-> FALSE, gone |-> {}]} :
        /\ Outcome(p.ok) /\ adisk' = Without(adisk, p.gone)
        /\ side' = [side EXCEPT ![s].open = p.ok, ![s].recs = IF p.ok THEN adisk' ELSE <<>>,
                                ![s].through = IF p.ok THEN Max({0} \cup Range(adisk)) ELSE 0]

\* What Append may come to: it prunes, finds the id or writes it under the next sequence, and
\* prunes again.  "known": the process knows that it wrote.
AppendResults(j, i) == UNION {
    LET kept == Without(j.recs, p.gone) IN
    IF ~p.ok \/ i \in DOMAIN kept THEN {[ok |-> p.ok, gone |-> p.gone, wrote |-> FALSE, known |-> FALSE]}
    ELSE {[ok |-> FALSE, gone |-> p.gone, wrote |-> w, known |-> FALSE] : w \in {FALSE, UnsyncedWrites}}
         \cup {[ok |-> q.ok, gone |-> p.gone \cup q.gone, wrote |-> TRUE, known |-> TRUE] :
               q \in PruneResults((i :> (j.through + 1)) @@ kept)} : p \in PruneResults(j.recs)}

\* Message i is appended by s, whose state becomes "yes" or, after an error, "no".
AppendMessage(s, i, yes, no) ==
    \E r \in AppendResults(side[s], i) :
        LET new == i :> (side[s].through + 1)
            after == IF r.ok THEN yes ELSE no
        IN /\ Outcome(r.ok) /\ wrote' = IF r.known THEN wrote \cup {i} ELSE wrote
           /\ adisk' = Without(IF r.wrote THEN new @@ adisk ELSE adisk, r.gone)
           /\ side' = [side EXCEPT ![s] = [after EXCEPT !.recs = Without(IF r.known THEN new @@ @ ELSE @, r.gone),
                                                       !.through = IF r.known THEN @ + 1 ELSE @]]

Note(what, as, n, by) == [what |-> what, as |-> as, n |-> n, by |-> by]
\* A frontend's message has its id before it is sent, and is sent again when the answer is lost.
NewClientMessage == /\ ActLeft("client") /\ notes' = Append(notes, Note("client", "text", 0, "tui"))
                    /\ UNCHANGED <<adisk, side, world, views, upd, wrote>>
handleActivity(s) ==
    /\ Enters(s) /\ side[s].open /\ world.sends > 0 /\ world' = [world EXCEPT !.sends = @ - 1] /\ UNCHANGED <<notes, views, upd>>
    /\ \E i \in DOMAIN notes : notes[i].what = "client" /\ AppendMessage(s, i, side[s], side[s])

-----------------------------------------------------------------------------
\* The queue.  enqueueLocked counts what it cannot hold; the observers hold the lock over
\* their baseline and the queue, and do nothing while the queue is frozen or closed.
Fits(h, ms) == Min({NativeCap - Len(h.pending), Len(ms)})
Queued(h, ms) ==
    [h EXCEPT !.pending = @ \o [k \in 1..Fits(h, ms) |-> Len(notes) + k],
              !.dropped = @ + Len(ms) - Fits(h, ms), !.omitted = @ + Len(ms) - Fits(h, ms),
              !.missed = @ + SumSet({ms[k].n : k \in {k \in DOMAIN ms : k > Fits(h, ms) /\ ms[k].what = "bell"}})]
Enqueues(s, h, ms) == /\ side' = [side EXCEPT ![s] = Queued(h, ms)]
                      /\ notes' = notes \o SubSeq(ms, 1, Len(Queued(h, ms).pending) - Len(h.pending))
Admits(s) == Running(s) /\ ~side[s].frozen /\ side[s].phase # "closing"

\* terminalActivityState.observe: a lower count is only a new baseline.
observe(s) ==
    /\ Admits(s) /\ world.bells # side[s].bells /\ UNCHANGED <<adisk, world, views, upd, wrote, actLeft>>
    /\ Enqueues(s, [side[s] EXCEPT !.bells = world.bells],
                IF world.bells > side[s].bells THEN <<Note("bell", "rang", world.bells - side[s].bells, s)>> ELSE <<>>)
\* A sample that does not know every node's allocation says nothing of a host within capacity.
observeCapacity(s) ==
    /\ Admits(s) /\ side[s].phase = "serving" /\ world.over # side[s].over /\ UNCHANGED <<adisk, world, views, upd, wrote, actLeft>>
    /\ Enqueues(s, [side[s] EXCEPT !.over = world.over], <<Note("capacity", IF world.over THEN "over" ELSE "within", 0, s)>>)

\* The forwarder's loop, and a request that changes a route, project the routes under the
\* forwarder's lock and hand the projection over after it.
publishActivity(p, s) ==
    /\ Running(s) /\ side[s].phase # "ready" /\ views[p] = NoView
    /\ IF p = "loop" THEN world.routed /\ UNCHANGED actLeft ELSE ActLeft("request")
    /\ views' = [views EXCEPT ![p] = [by |-> s, route |-> world.route]]
    /\ UNCHANGED <<adisk, notes, side, world, upd, wrote>>
Serves(r) == r \in {"serving", "lapsed"}
Transition(old, new) == CASE new = "none" -> "removed"
                          [] old = "none" -> "added"
                          [] new = "lapsed" -> "degraded"
                          [] new = "serving" -> "restored"
                          [] OTHER -> IF old = "lapsed" THEN "restored" ELSE "unavailable"
RouteNotes(old, new, s) ==
    <<Note("route", Transition(old, new), IF new = "down" THEN 1 ELSE 0, s)>>
    \o IF Serves(old) = Serves(new) THEN <<>> ELSE <<Note("owner", IF Serves(new) THEN "owns" ELSE "released", 0, s)>>
observeForwarding(p) ==
    /\ views[p] # NoView /\ views' = [views EXCEPT ![p] = NoView] /\ UNCHANGED <<adisk, world, upd, wrote, actLeft>>
    /\ LET s == views[p].by
           r == views[p].route
       IN IF Admits(s) /\ r # side[s].route
          THEN Enqueues(s, [side[s] EXCEPT !.route = r], RouteNotes(side[s].route, r, s))
          ELSE UNCHANGED <<side, notes>>

\* flush, one message at a time: what was dropped becomes a message of its own when there is
\* room; the head is appended and leaves the queue if that succeeded.
Recalled(s) == IF side[s].dropped > 0 /\ Len(side[s].pending) < NativeCap THEN <<Note("omitted", "count", side[s].dropped, s)>> ELSE <<>>
flush(s) ==
    /\ side[s].phase \in {"serving", "closing"} /\ side[s].open /\ UNCHANGED <<world, views, upd>>
    /\ LET h == IF Recalled(s) = <<>> THEN side[s]
                ELSE [side[s] EXCEPT !.dropped = 0, !.pending = Append(@, Len(notes) + 1)]
       IN /\ h.pending # <<>> /\ notes' = notes \o Recalled(s)
          /\ AppendMessage(s, Head(h.pending), [h EXCEPT !.pending = Tail(@)], h)

\* Close refuses further events and flushes until nothing is left or an attempt fails.
CloseActivity(s) ==
    /\ side[s].phase = "serving" /\ ActLeft("close") /\ side' = [side EXCEPT ![s].phase = "closing"]
    /\ UNCHANGED <<adisk, notes, world, views, upd, wrote>>
CloseEnds(s) ==
    /\ side[s].phase = "closing" /\ Outcome(side[s].pending = <<>> /\ side[s].dropped = 0)
    /\ side' = [side EXCEPT ![s].phase = "gone"] /\ UNCHANGED <<adisk, notes, world, views, upd, wrote>>

-----------------------------------------------------------------------------
\* The update, as far as the history takes part in it.  It holds the barrier throughout.
BeginUpdate == /\ upd.at = "none" /\ side["old"].phase = "serving" /\ ActLeft("update")
               /\ upd' = [upd EXCEPT !.at = "gated"] /\ side' = [side EXCEPT !["old"].phase = "gated"]
               /\ UNCHANGED <<adisk, notes, world, views, wrote>>
\* The queue is frozen and copied with the baselines of its observers: one cut.
prepareHandoff == /\ upd.at = "gated" /\ upd' = [at |-> "cut", blob |-> side["old"]]
                  /\ side' = [side EXCEPT !["old"].frozen = TRUE] /\ UNCHANGED <<adisk, notes, world, views, wrote, actLeft>>

Restored(b) == [NewHost("ready") EXCEPT !.pending = b.pending, !.dropped = b.dropped, !.bells = b.bells, !.route = b.route,
                                        !.over = b.over, !.missed = b.missed, !.omitted = b.omitted]
restoreHandoff_Fresh(b) == [Restored(b) EXCEPT !.bells = world.bells]
restoreHandoff(b) == Restored(b)
importDaemon == /\ upd.at = "cut" /\ upd' = [upd EXCEPT !.at = "restored"] /\ side' = [side EXCEPT !["new"] = restoreHandoff(upd.blob)]
                /\ UNCHANGED <<adisk, notes, world, views, wrote, actLeft>>

\* The old process gives up its lock and sockets, the new one takes them and answers requests,
\* and publishes once it has said that it committed.
prepareReplacement == /\ upd.at = "restored" /\ upd' = [upd EXCEPT !.at = "prepared"] /\ side' = [side EXCEPT !["new"].phase = "owner"]
                      /\ UNCHANGED <<adisk, notes, world, views, wrote, actLeft>>
markServing == /\ upd.at = "prepared" /\ upd' = [upd EXCEPT !.at = "sent"]
               /\ Enqueues("new", [side["new"] EXCEPT !.phase = "serving"], <<Note("updated", "in place", 0, "new")>>)
               /\ UNCHANGED <<adisk, world, views, wrote, actLeft>>
Replaced == /\ upd.at = "sent" /\ upd' = [upd EXCEPT !.at = "done"] /\ side' = [side EXCEPT !["old"].phase = "retired"]
            /\ UNCHANGED <<adisk, notes, world, views, wrote, actLeft>>

\* The new process is killed; the old one forgets its journal if it had given up the lock, and
\* thaws its queue, or retires if it cannot have the lock back.
resumeAfterHandoff(h) == [h EXCEPT !.frozen = FALSE, !.phase = "serving"]
invalidateActivityJournal(h) == [h EXCEPT !.open = FALSE, !.recs = <<>>, !.through = 0]
rollback ==
    /\ upd.at \in {"gated", "cut", "restored", "prepared", "sent"} /\ ActLeft("fail") /\ UNCHANGED <<adisk, notes, world, views, wrote>>
    /\ upd' = [upd EXCEPT !.at = "rolled back"]
    /\ LET given == upd.at \in {"prepared", "sent"}
           old == IF given THEN invalidateActivityJournal(side["old"]) ELSE side["old"]
       IN \/ side' = [side EXCEPT !["old"] = resumeAfterHandoff(old), !["new"].phase = "gone"]
          \/ given /\ side' = [side EXCEPT !["old"].phase = "retired", !["new"].phase = "gone"]

-----------------------------------------------------------------------------
ActInit ==
    /\ actLeft \in ActBudgets /\ adisk = <<>> /\ notes = <<>> /\ wrote = {}
    /\ side = [s \in SidesOf |-> NewHost(IF s = "old" THEN "serving" ELSE "absent")]
    /\ world = [bells |-> 0, rung |-> 0, reset |-> FALSE, route |-> "none", over |-> FALSE, expired |-> {}, sends |-> 2 * actLeft.client,
                routed |-> actLeft.route > 0]
    /\ views = [p \in ViewSources |-> NoView] /\ upd = [at |-> "none", blob |-> NewHost("none")]

UpdateWork == prepareHandoff \/ importDaemon \/ prepareReplacement \/ markServing \/ Replaced
ActNext ==
    \/ Rings \/ RendererRecovered \/ RouteChanges \/ CapacityChanges \/ RetentionPasses \/ NewClientMessage
    \/ BeginUpdate \/ UpdateWork \/ rollback
    \/ \E s \in SidesOf : newActivityJournal(s) \/ handleActivity(s) \/ observe(s) \/ observeCapacity(s) \/ flush(s)
                          \/ CloseActivity(s) \/ CloseEnds(s) \/ \E p \in ViewSources : publishActivity(p, s)
    \/ \E p \in ViewSources : observeForwarding(p)

\* The worker ticks every second, the publishers and the forwarder's loop go on, an update
\* ends by its deadlines.
ActFairness == /\ WF_actVars(UpdateWork) /\ WF_actVars(observeForwarding("loop")) /\ WF_actVars(observeForwarding("request"))
               /\ \A s \in SidesOf : /\ WF_actVars(newActivityJournal(s)) /\ WF_actVars(flush(s)) /\ WF_actVars(observe(s))
                                    /\ WF_actVars(observeCapacity(s)) /\ WF_actVars(publishActivity("loop", s))
ActSpec == ActInit /\ [][ActNext]_actVars /\ ActFairness

-----------------------------------------------------------------------------
\* What the history of process s, and of the one it took over from, holds or is about to hold.
Lineage(s) == IF s = "old" THEN {"old"} ELSE SidesOf
Told(s) == {i \in DOMAIN notes : notes[i].by \in Lineage(s) /\ (i \in wrote \/ i \in Range(side[s].pending))}
Of(s, what) == {i \in Told(s) : notes[i].what = what}
Total(s, what) == MapThenSumSet(LAMBDA i : notes[i].n, Of(s, what))
LastOf(s, what) == notes[Max(Of(s, what))]
Describes(n, r) == /\ (r = "none") = (n.as = "removed") /\ (r = "down") = (n.n = 1)
                   /\ r = "lapsed" => n.as \in {"degraded", "added"}
                   /\ r = "serving" => n.as \in {"restored", "added"}

\* The type invariant: the queues keep their bound and hold a message once.
ActTypeOK ==
    /\ \A s \in SidesOf : /\ Len(side[s].pending) <= NativeCap /\ IsInjective(side[s].pending)
                          /\ Range(side[s].pending) \subseteq DOMAIN notes
    /\ DOMAIN adisk \cup wrote \subseteq DOMAIN notes

\* No two records have the same sequence, which would make the journal unreadable for the next
\* process, and the process that may write knows every record: after a rollback too, when the
\* successor had written (invalidateActivityJournal).
SequencesUnique ==
    /\ Loadable
    /\ \A s \in SidesOf : Enters(s) /\ side[s].open => side[s].recs = adisk /\ \A i \in DOMAIN adisk : adisk[i] <= side[s].through

\* However removals fail, the journal exceeds its limit by at most one record.
JournalBounded == Cardinality(DOMAIN adisk) <= JournalLimit + 1

\* A bell is announced once or counted among the omitted, across a live update and its
\* rollback: the queue and the baselines move together.
EachBellOnce == \A s \in SidesOf : Running(s) =>
    /\ Total(s, "bell") + side[s].missed <= world.rung
    /\ ~world.reset => Total(s, "bell") + side[s].missed = side[s].bells

\* What the full queue could not hold is admitted by a message, or still to be.
OmissionsAdmitted == \A s \in SidesOf : Running(s) => side[s].omitted = side[s].dropped + Total(s, "omitted")

\* If nothing was omitted, the last word of the history on the route, its host port and the
\* capacity is what the process last observed.
HistoryIsCurrent == \A s \in SidesOf : Running(s) /\ side[s].omitted = 0 =>
    /\ IF Of(s, "route") = {} THEN side[s].route = "none" ELSE Describes(LastOf(s, "route"), side[s].route)
    /\ Serves(side[s].route) = (Of(s, "owner") # {} /\ LastOf(s, "owner").as = "owns")
    /\ side[s].over = (Of(s, "capacity") # {} /\ LastOf(s, "capacity").as = "over")

\* A process that serves gets its messages written in the end, though opening or writing failed.
PendingPersists == <>[](\A s \in SidesOf : side[s].phase = "serving" => side[s].pending = <<>> /\ side[s].dropped = 0)

\* A process that serves has observed the routes as they are in the end: a projection that was
\* overtaken by a newer one, or fell into a failed update, is followed by another.
RoutesCatchUp == <>[](\A s \in SidesOf : side[s].phase = "serving" => side[s].route = world.route)
=============================================================================

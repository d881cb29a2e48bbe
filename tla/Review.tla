------------------------------- MODULE Review -------------------------------
(***************************************************************************)
(* Reviews of node actions in a window: what a stop, restart, delete,      *)
(* clone or batch review captures when it opens, what it checks again when *)
(* it is confirmed, and the operation it starts (tui_node_confirmation.go, *)
(* tui_clone.go, tui_batch.go, tui_input.go, tui_palette_commands.go).     *)
(*                                                                         *)
(* The node list changes under an open review: a refresh shows a node in   *)
(* another status, renamed or gone.  A stop review that changes the        *)
(* confirm_stop setting saves it first and stops the node when the write   *)
(* has landed.  A clone's name is a suffix number, 0 when the field is     *)
(* empty; the complete list of names in use is read in the background.     *)
(***************************************************************************)
EXTENDS Integers, Sequences, FiniteSets, FiniteSetsExt

CONSTANTS RevNodes, RevSuffixes, RevBudgets

ASSUME RevAssumption == /\ RevSuffixes \subseteq Nat \ {0} /\ RevSuffixes # {}
                        /\ RevBudgets \subseteq [see : Nat, ask : Nat, fail : Nat, kinds : SUBSET STRING]

VARIABLES seen,        \* the node list: status and name of each node
          offline,     \* daemonDisconnected
          policy,      \* confirm_stop, and whether every guest session is known to be at its prompt
          review,      \* the review on the screen
          lookup,      \* the reads of the names in use, by the review each belongs to
          work,        \* the operations of this window that are in flight
          ran,         \* the operation started last: what it acts on and what was reviewed
          plans

revVars == <<seen, offline, policy, review, lookup, work, ran, plans>>

NoReview == [form |-> "none", targets |-> {}, palette |-> FALSE, typed |-> FALSE, flip |-> FALSE, small |-> FALSE,
             names |-> {}, loaded |-> FALSE, name |-> 0, edited |-> FALSE, id |-> 0]
Settings == "settings"
Plan(f) == plans[f] > 0 /\ plans' = [plans EXCEPT ![f] = @ - 1]

-----------------------------------------------------------------------------
\* What the list permits.
conflicting(keys) == \E o \in work : o.keys \cap keys # {}

availableTUIActions(st) ==
    CASE st = "running" -> {"restart", "stop", "delete", "clone"}
      [] st = "failed" -> {"retry", "start", "delete", "clone"}
      [] OTHER -> {"start", "delete", "clone"}

\* A node with work in flight offers nothing; a delete that was interrupted offers another review.
paletteNodeActions(st) == CASE st \in {"absent", "busy"} -> {}
                            [] st = "stuck" -> {"delete"}
                            [] OTHER -> availableTUIActions(st)

paletteNodeAction(n, kind) ==
    LET st == seen[n].st
        offered == paletteNodeActions(st)
    IN /\ offered # {}
       /\ kind \in offered \/ (kind = "restart" /\ st # "stuck")
       /\ ~conflicting({n})

Target(n, kind) == [node |-> n, kind |-> kind, slug |-> seen[n].slug]

\* Only a fresh sight of every guest shell at its prompt skips the review of a stop.
confirmNodeStop == policy.stop = "always" \/ (policy.stop = "busy" /\ ~policy.idle)

-----------------------------------------------------------------------------
\* The operations of this window.
\* An operation that shares a node with one in flight is refused.
startOperation(targets, r, cont) ==
    LET keys == IF targets = {} THEN {Settings} ELSE {t.node : t \in targets}
    IN /\ ~conflicting(keys)
       /\ work' = work \cup {[keys |-> keys, targets |-> targets, after |-> cont]}
       /\ ran' = IF targets = {} THEN ran ELSE [n |-> 1 - ran.n, targets |-> targets, by |-> r, name |-> r.name]

\* A review takes the screen with the targets and names it was opened for.
OpenReview(form, targets, palette) ==
    /\ review' = [NoReview EXCEPT !.form = form, !.targets = targets, !.palette = palette, !.id = review.id + 1]
    /\ UNCHANGED <<work, ran>>

Direct(n, kind) == /\ startOperation({Target(n, kind)}, [NoReview EXCEPT !.targets = {Target(n, kind)}], NoReview)
                   /\ UNCHANGED <<review>>

\* A key, or the palette, asks for an action on one node.
performEntryAction(n, kind, palette) ==
    /\ Plan("ask") /\ kind \in plans.kinds /\ review.form = "none"
    /\ seen[n].st # "absent" /\ ~conflicting({n})
    /\ palette => paletteNodeAction(n, kind)
    /\ kind \in {"start", "stop", "retry"} => kind \in paletteNodeActions(seen[n].st)
    /\ \/ kind \in {"start", "retry"} /\ Direct(n, kind) /\ UNCHANGED lookup
       \/ kind \in {"stop", "restart"} /\ ~confirmNodeStop /\ Direct(n, kind) /\ UNCHANGED lookup
       \/ kind = "restart" /\ confirmNodeStop /\ OpenReview("plain", {Target(n, kind)}, palette) /\ UNCHANGED lookup
       \/ kind = "stop" /\ confirmNodeStop /\ OpenReview("node", {Target(n, kind)}, palette) /\ UNCHANGED lookup
       \/ kind = "delete" /\ OpenReview("node", {Target(n, kind)}, palette) /\ UNCHANGED lookup
       \/ kind = "clone" /\ OpenReview("node", {Target(n, kind)}, palette) /\ lookup' = lookup \cup {review.id + 1}
    /\ UNCHANGED <<seen, offline, policy>>

\* The marked nodes are reviewed together; the review keeps who they are.
openBatchReview(nodes, kind) ==
    /\ Plan("ask") /\ "batch" \in plans.kinds /\ review.form = "none"
    /\ \A n \in nodes : paletteNodeAction(n, kind)
    /\ OpenReview("batch", {Target(n, kind) : n \in nodes}, FALSE)
    /\ UNCHANGED <<seen, offline, policy, lookup>>

-----------------------------------------------------------------------------
\* The review on the screen.
Kind(r) == (CHOOSE t \in r.targets : TRUE).kind

\* The reviewed node or nodes: still listed, still offering the action, under the same name.
currentNode(r) ==
    ~offline /\ \A t \in r.targets : paletteNodeAction(t.node, t.kind) /\ seen[t.node].slug = t.slug

cloneNameError(r) == ~r.loaded \/ r.name = 0 \/ r.name \in r.names

ready(r) == /\ ~r.small
            /\ r.form \in {"node", "batch"} => currentNode(r)
            /\ r.form = "plain" /\ r.palette => \A t \in r.targets : paletteNodeAction(t.node, t.kind)
            /\ r.form # "plain" /\ Kind(r) = "delete" => r.typed
            /\ Kind(r) = "clone" => ~cloneNameError(r)

\* A changed setting is saved first, with the stop behind it.
submitReview == /\ review.form # "none" /\ ready(review)
                /\ IF Kind(review) = "stop" /\ review.flip
                   THEN startOperation({}, review, review) ELSE startOperation(review.targets, review, NoReview)
                /\ review' = [NoReview EXCEPT !.id = review.id]
                /\ UNCHANGED <<seen, offline, policy, lookup, plans>>

cancelReview == /\ review.form # "none" /\ review' = [NoReview EXCEPT !.id = review.id]
                /\ UNCHANGED <<seen, offline, policy, lookup, work, ran, plans>>

\* The confirmation text, the setting's box, the name of the clone, the size of the window.
Edit == /\ review.form # "none"
        /\ \/ Kind(review) = "delete" /\ review' = [review EXCEPT !.typed = ~@]
           \/ review.form = "node" /\ Kind(review) = "stop" /\ review' = [review EXCEPT !.flip = ~@]
           \/ review.form # "plain" /\ Kind(review) # "clone" /\ review' = [review EXCEPT !.small = ~@]
           \/ Kind(review) = "clone" /\ \E s \in RevSuffixes \cup {0} :
                s # review.name /\ review' = [review EXCEPT !.name = s, !.edited = TRUE]
        /\ UNCHANGED <<seen, offline, policy, lookup, work, ran, plans>>

\* A name is suggested only into a field the user has not touched.
suggestName(r, used) == IF r.edited \/ r.name # 0 \/ RevSuffixes \subseteq used THEN r.name ELSE Min(RevSuffixes \ used)

\* The names in use arrive; a review that is gone, or a later one, is not touched.
applyCloneNames ==
    \E used \in SUBSET RevSuffixes, id \in lookup :
      /\ lookup' = lookup \ {id}
      /\ review' = IF review.form # "node" \/ id # review.id THEN review
                   ELSE [review EXCEPT !.loaded = TRUE, !.names = used, !.name = suggestName(review, used)]
      /\ UNCHANGED <<seen, offline, policy, work, ran, plans>>

cloneNamesFail == /\ \E id \in lookup : lookup' = lookup \ {id}
                  /\ Plan("fail")
                  /\ UNCHANGED <<seen, offline, policy, review, work, ran>>

-----------------------------------------------------------------------------
revalidate_Skipped(r) == TRUE

\* The settings write took time: the node is looked at again before it is stopped.
revalidate(r) == currentNode(r)

\* An operation ends.  A saved setting continues with the stop that waited for it.
finishReviewed(o) ==
    LET rest == work \ {o}
        flip == o.keys = {Settings}
        stop == o.after
    IN \/ /\ flip
          /\ policy' = [policy EXCEPT !.stop = IF @ = "busy" THEN "always" ELSE "busy"]
          /\ IF revalidate(stop) /\ ~\E p \in rest : p.keys \cap {t.node : t \in stop.targets} # {}
             THEN /\ work' = rest \cup {[keys |-> {t.node : t \in stop.targets}, targets |-> stop.targets, after |-> NoReview]}
                  /\ ran' = [n |-> 1 - ran.n, targets |-> stop.targets, by |-> stop, name |-> stop.name]
             ELSE work' = rest /\ UNCHANGED ran
          /\ UNCHANGED plans
       \/ /\ ~flip \/ plans.fail > 0
          /\ work' = rest /\ UNCHANGED <<policy, ran>>
          /\ IF flip THEN Plan("fail") ELSE UNCHANGED plans

Ends == \E o \in work : finishReviewed(o) /\ UNCHANGED <<seen, offline, review, lookup>>

\* A refresh shows a node as the daemon has it by now; the connection breaks and returns.
Refresh == /\ Plan("see")
           /\ \/ \E n \in RevNodes, st \in {"running", "stopped", "failed", "busy", "stuck", "absent"} :
                   st # seen[n].st /\ seen' = [seen EXCEPT ![n].st = st] /\ UNCHANGED <<offline, policy>>
              \/ \E n \in RevNodes : seen' = [seen EXCEPT ![n].slug = 1 - @] /\ UNCHANGED <<offline, policy>>
              \/ offline' = ~offline /\ UNCHANGED <<seen, policy>>
              \/ policy' = [policy EXCEPT !.idle = ~@] /\ UNCHANGED <<seen, offline>>
           /\ UNCHANGED <<review, lookup, work, ran>>

RevInit == /\ plans \in RevBudgets
           /\ seen = [n \in RevNodes |-> [st |-> "running", slug |-> 0]]
           /\ offline = FALSE /\ policy = [stop |-> "busy", idle |-> FALSE]
           /\ review = NoReview /\ lookup = {} /\ work = {}
           /\ ran = [n |-> 0, targets |-> {}, by |-> NoReview, name |-> 0]

RevNext == \/ \E n \in RevNodes, kind \in {"start", "stop", "restart", "retry", "delete", "clone"}, palette \in BOOLEAN :
                performEntryAction(n, kind, palette)
           \/ \E nodes \in SUBSET RevNodes \ {{}}, kind \in {"stop", "delete", "restart"} : openBatchReview(nodes, kind)
           \/ submitReview \/ cancelReview \/ Edit \/ applyCloneNames \/ cloneNamesFail \/ Ends \/ Refresh

-----------------------------------------------------------------------------
\* The type invariant of the reviews.
RevTypeOK == /\ seen \in [RevNodes -> [st : {"running", "stopped", "failed", "busy", "stuck", "absent"}, slug : 0..1]]
             /\ offline \in BOOLEAN /\ lookup \subseteq Nat
             /\ review.form \in {"none", "plain", "node", "batch"}
             /\ review.form # "none" => review.targets # {}
             /\ \A t \in review.targets : t.node \in RevNodes

\* What starts after a review is exactly what was reviewed, and for a node or batch review every
\* target is at that moment reachable, offers the action and bears the reviewed name, also when
\* a settings write delayed the start (tuiNodeConfirmation.submit, tuiBatchReview.validate).
RunsWhatWasReviewed ==
       ran'.n # ran.n =>
         /\ ran'.targets = ran'.by.targets
         /\ ran'.by.form \in {"node", "batch"} =>
              ~offline /\ \A t \in ran'.targets : t.kind \in paletteNodeActions(seen[t.node].st) \cup {"restart"}
                                                  /\ seen[t.node].st \notin {"absent", "busy"} /\ seen[t.node].slug = t.slug

\* Two operations of a window never act on the same node, or on the settings, at once (startOperation).
OneOperationPerNode == \A o, p \in work : o # p => o.keys \cap p.keys = {}

\* The list of names in use never changes a name the user has edited, and never reaches a review it
\* was not read for (applyCloneNames).
TypedNameStays == \A id \in lookup \ lookup' : review.edited \/ id # review.id => review'.name = review.name
=============================================================================

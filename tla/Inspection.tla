----------------------------- MODULE Inspection -----------------------------
(***************************************************************************)
(* Search, selection and colours of the terminals of a window: requests    *)
(* through one worker with a bounded queue, whose results come back to the *)
(* event loop on a channel of their own (tui_terminal_inspection.go,       *)
(* tui_terminal_colors.go and the mouse gestures of tui_input.go).         *)
(*                                                                         *)
(* A query is a small number, 0 when it is empty; found is the query each  *)
(* terminal holds in the daemon.  A call may fail once it has reached the  *)
(* worker, except the clearing of a closed search, which the code sends    *)
(* once and does not repeat when the call itself fails.                    *)
(***************************************************************************)
EXTENDS Integers, Sequences, FiniteSets

CONSTANTS Shells, InspectionQueue, LookBudgets

ASSUME LookAssumption == /\ InspectionQueue \in Nat \ {0} /\ Shells # {}
                         /\ LookBudgets \subseteq [type : Nat, switch : Nat, fail : Nat, theme : Nat, mouse : Nat, ends : Nat]

VARIABLES current,     \* the active session
          open,        \* the sessions of the window
          find,        \* the open search
          version,     \* searchVersion
          requests,    \* the queue of the worker
          results,     \* its results
          found,       \* the query each terminal holds
          drag,        \* the mouse gesture
          clipped,      \* the text copied last: the terminal, and where the gesture began
          colors,      \* the colours of the host: wanted, sent, received
          looks

lookVars == <<current, open, find, version, requests, results, found, drag, clipped, colors, looks>>

NoFind == [on |-> FALSE, at |-> 0, query |-> 0, version |-> 0, pending |-> FALSE, status |-> 0, tick |-> FALSE, closing |-> FALSE]
NoDrag == [at |-> 0, moved |-> FALSE, clicks |-> 0]
Look(f) == looks[f] > 0 /\ looks' = [looks EXCEPT ![f] = @ - 1]

Req(s, act, q, v, copy) == [at |-> s, act |-> act, query |-> q, version |-> v, copy |-> copy, from |-> drag.at]

\* A full queue, or a session that is gone, refuses the request.
queueTerminalInteraction(r) == IF r.at \in open /\ Len(requests) < InspectionQueue THEN Append(requests, r) ELSE requests
Queued(r) == queueTerminalInteraction(r) # requests

-----------------------------------------------------------------------------
\* The search.
openTerminalSearch == /\ Look("type") /\ ~find.on /\ current \in open
                      /\ version' = version + 1
                      /\ find' = [NoFind EXCEPT !.on = TRUE, !.at = current, !.version = version + 1]
                      /\ UNCHANGED <<current, open, requests, results, found, drag, clipped, colors>>

Clear(f) == Req(f.at, "search", 0, 0, "no")

\* The search a close leaves behind: none once its clearing is queued, else a closing one to be tried again.
closed(f) == IF f.at \notin open \/ Queued(Clear(f)) THEN NoFind
             ELSE [f EXCEPT !.closing = TRUE, !.pending = FALSE, !.tick = TRUE]

closeTerminalSearch == /\ find.on /\ find' = closed(find) /\ requests' = queueTerminalInteraction(Clear(find))
                       /\ UNCHANGED <<current, open, version, results, found, drag, clipped, colors, looks>>

\* Every edit is a new version of the search; next and previous keep the version.
updateSearchInput == /\ Look("type") /\ find.on /\ ~find.closing
                     /\ \E q \in 0..2 \ {find.query} :
                          LET r == Req(find.at, "search", q, version + 1, "no") IN
                            /\ version' = version + 1 /\ requests' = queueTerminalInteraction(r)
                            /\ find' = [find EXCEPT !.query = q, !.version = version + 1, !.pending = Queued(r)]
                     /\ UNCHANGED <<current, open, results, found, drag, clipped, colors>>

requestTerminalSearch == /\ Look("type") /\ find.on /\ ~find.closing
                         /\ LET r == Req(find.at, "next", find.query, find.version, "no") IN
                              requests' = queueTerminalInteraction(r) /\ find' = [find EXCEPT !.pending = Queued(r)]
                         /\ UNCHANGED <<current, open, version, results, found, drag, clipped, colors>>

\* The timer, or damage of a terminal: a closing search is closed again, a live one asks for progress.
searchTick == /\ find.on /\ find.tick
              /\ LET r == Req(find.at, "tick", find.query, find.version, "no")
                     f == [find EXCEPT !.tick = FALSE] IN
                   IF find.closing THEN find' = closed(f) /\ requests' = queueTerminalInteraction(Clear(find))
                   ELSE IF find.pending \/ find.query = 0 THEN find' = f /\ UNCHANGED requests
                   ELSE find' = [f EXCEPT !.pending = Queued(r)] /\ requests' = queueTerminalInteraction(r)
              /\ UNCHANGED <<current, open, version, results, found, drag, clipped, colors, looks>>

\* Another tab: a search of the tab that was left is closed.
syncSessionFocus == /\ Look("switch") /\ current' \in open \ {current}
                    /\ IF find.on /\ find.at # current'
                       THEN find' = closed(find) /\ requests' = queueTerminalInteraction(Clear(find))
                       ELSE UNCHANGED <<find, requests>>
                    /\ UNCHANGED <<open, version, results, found, drag, clipped, colors>>

-----------------------------------------------------------------------------
\* The worker: one call at a time, in the order of the queue.
Interact == /\ requests # <<>>
            /\ LET r == Head(requests) IN
                 \/ /\ found' = IF r.act = "search" THEN [found EXCEPT ![r.at] = r.query] ELSE found
                    /\ colors' = IF r.act = "colors" THEN [colors EXCEPT !.got[r.at] = r.query] ELSE colors
                    /\ results' = Append(results, [req |-> r, ok |-> TRUE, status |-> found'[r.at]]) /\ UNCHANGED looks
                 \/ /\ Look("fail") /\ r # [Clear(r) EXCEPT !.from = r.from]
                    /\ results' = Append(results, [req |-> r, ok |-> FALSE, status |-> 0]) /\ UNCHANGED <<found, colors>>
            /\ requests' = Tail(requests)
            /\ UNCHANGED <<current, open, find, version, drag, clipped>>

searched(e) == e.req.act \in {"search", "next", "tick"}

\* A result counts for the session and the version of the search it was asked for.
applies(e) == /\ e.req.at \in open /\ e.req.act # "colors"
              /\ searched(e) => find.on /\ e.req.version = find.version
              /\ e.req.at = current

\* Colours that did not arrive are sent again after a second.
colorsFailed(e) == IF e.req.at \in open /\ e.req.act = "colors" /\ ~e.ok /\ e.req.query = colors.want
                   THEN [colors EXCEPT !.sent = @ \ {e.req.at}, !.retry = TRUE] ELSE colors

handleInspectionResult ==
    /\ results # <<>> /\ results' = Tail(results)
    /\ \E more \in BOOLEAN : LET e == Head(results) IN
         /\ colors' = colorsFailed(e)
         /\ clipped' = IF applies(e) /\ e.ok /\ e.req.copy # "no" THEN [from |-> e.req.at, began |-> e.req.from, why |-> e.req.copy] ELSE clipped
         /\ find' = IF ~applies(e) \/ ~find.on \/ ~searched(e) THEN find
                    ELSE IF e.ok THEN [find EXCEPT !.status = e.status, !.pending = FALSE, !.tick = more \/ find.tick]
                    ELSE [find EXCEPT !.pending = FALSE]
    /\ UNCHANGED <<current, open, version, requests, found, drag, looks>>

-----------------------------------------------------------------------------
\* The colours of the host terminal.
\* One query of the host at a time; an answer to an older question is asked again.
startHostColorQuery == /\ Look("theme") /\ colors' = [colors EXCEPT !.asked = @ + 1, !.busy = IF @ = 0 THEN colors.asked + 1 ELSE @]
                       /\ UNCHANGED <<current, open, find, version, requests, results, found, drag, clipped>>

applyHostColorResult == /\ colors.busy # 0
                        /\ colors' = IF colors.busy # colors.asked THEN [colors EXCEPT !.busy = colors.asked]
                                     ELSE [colors EXCEPT !.busy = 0, !.want = colors.asked, !.sent = {}]
                        /\ UNCHANGED <<current, open, find, version, requests, results, found, drag, clipped, looks>>

\* At every redraw the sessions that have not been sent the colours are, as far as the queue allows.
propagateHostColors == \E s \in open \ colors.sent :
    LET r == Req(s, "colors", colors.want, 0, "no") IN
      /\ colors.want # 0 /\ ~colors.retry /\ Queued(r)
      /\ requests' = queueTerminalInteraction(r) /\ colors' = [colors EXCEPT !.sent = @ \cup {s}]
      /\ UNCHANGED <<current, open, find, version, results, found, drag, clipped, looks>>

hostColorTicks == /\ colors.retry /\ colors' = [colors EXCEPT !.retry = FALSE]
                  /\ UNCHANGED <<current, open, find, version, requests, results, found, drag, clipped, looks>>

-----------------------------------------------------------------------------
\* The mouse over the active terminal.
pressMouse == /\ Look("mouse") /\ current \in open
              /\ \E n \in 1..2 : drag' = [at |-> current, moved |-> FALSE, clicks |-> n]
              /\ requests' = queueTerminalInteraction([Req(current, "press", 0, 0, "no") EXCEPT !.from = current])
              /\ UNCHANGED <<current, open, find, version, results, found, clipped, colors>>

updateTerminalMouseGesture == /\ Look("mouse") /\ drag # NoDrag
                              /\ drag' = IF drag.at = current THEN [drag EXCEPT !.moved = TRUE] ELSE drag
                              /\ requests' = queueTerminalInteraction(Req(current, "drag", 0, 0, "no"))
                              /\ UNCHANGED <<current, open, find, version, results, found, clipped, colors>>

\* The gesture ends where it began; a drag is finished by a release over its own terminal.
finishTerminalMouseGesture == drag.at = current /\ drag.moved

Copying == IF finishTerminalMouseGesture THEN "drag" ELSE IF drag.clicks > 1 THEN "clicks" ELSE "no"

Release == /\ Look("mouse") /\ current \in open
           /\ requests' = queueTerminalInteraction(Req(current, "release", 0, 0, Copying))
           /\ drag' = IF drag.at = current THEN NoDrag ELSE drag
           /\ UNCHANGED <<current, open, find, version, results, found, clipped, colors>>

cancelTerminalMouseGesture == /\ Look("mouse") /\ drag # NoDrag /\ drag' = NoDrag
                              /\ requests' = queueTerminalInteraction(Req(drag.at, "cancel", 0, 0, "no"))
                              /\ UNCHANGED <<current, open, find, version, results, found, clipped, colors>>

\* A session ends; another one becomes active and the focus is synchronised.
closeTerminalTab == /\ Look("ends") /\ Cardinality(open) > 1
                    /\ \E s \in open : open' = open \ {s} /\ current' = IF s = current THEN CHOOSE t \in open \ {s} : TRUE ELSE current
                    /\ found' = [s \in Shells |-> IF s \in open' THEN found[s] ELSE 0]
                    /\ find' = IF find.on /\ (find.at \notin open' \/ find.at # current') THEN NoFind ELSE find
                    /\ requests' = SelectSeq(requests, LAMBDA r : r.at \in open')
                    /\ UNCHANGED <<version, results, drag, clipped, colors>>

LookInit == /\ looks \in LookBudgets
            /\ open = Shells /\ current = CHOOSE s \in Shells : TRUE
            /\ find = NoFind /\ version = 0 /\ requests = <<>> /\ results = <<>> /\ found = [s \in Shells |-> 0]
            /\ drag = NoDrag /\ clipped = [from |-> 0, began |-> 0, why |-> "no"]
            /\ colors = [want |-> 0, asked |-> 0, busy |-> 0, sent |-> {}, retry |-> FALSE, got |-> [s \in Shells |-> 0]]

LookNext == \/ openTerminalSearch \/ closeTerminalSearch \/ updateSearchInput \/ requestTerminalSearch \/ searchTick
            \/ syncSessionFocus \/ Interact \/ handleInspectionResult
            \/ startHostColorQuery \/ applyHostColorResult \/ propagateHostColors \/ hostColorTicks
            \/ pressMouse \/ updateTerminalMouseGesture \/ Release \/ cancelTerminalMouseGesture \/ closeTerminalTab

-----------------------------------------------------------------------------
\* The type invariant of the inspection.
LookTypeOK == /\ current \in open /\ open \subseteq Shells /\ Len(requests) <= InspectionQueue
              /\ find.on => find.at \in Shells /\ find.version \in 1..version
              /\ found \in [Shells -> 0..2] /\ colors.sent \subseteq Shells

\* A status that reaches the search bar is of the query in the bar: results of earlier edits, of a
\* closed search and of another session are dropped (handleInspectionResult).
StatusIsOfTheQuery == find.on /\ find'.on /\ results' # results /\ find'.status # find.status => find'.status = find.query

\* Nothing is forgotten: once no request, result or timer is left, a terminal holds a query only for
\* the open search, even if the queue was full when the search was closed, and every session has the
\* colours of the host, even if sending them failed (closeTerminalSearch, propagateHostColors).
NothingForgotten ==
    requests = <<>> /\ results = <<>> /\ (find.on => ~find.closing) =>
      /\ \A s \in open : found[s] # 0 => find.on /\ find.at = s
      /\ ~colors.retry => \A s \in open : s \in colors.sent /\ colors.want # 0 => colors.got[s] = colors.want

\* A copied drag began in the terminal it was copied from, whatever tab was active in between.
DragStaysHome == clipped' # clipped /\ clipped'.why = "drag" => clipped'.began = clipped'.from
=============================================================================

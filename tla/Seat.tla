-------------------------------- MODULE Seat --------------------------------
(***************************************************************************)
(* Requests of several windows to one daemon: the client's concurrent      *)
(* calls over a connection that may be lost and dialled again, the         *)
(* server's delivery lanes, and the seat, the lease that decides whose     *)
(* window the terminal takes its geometry from.  One terminal is modelled. *)
(*                                                                         *)
(* A request carries the slot of the call that waits for it.  Request ids  *)
(* only ever match an answer with a pending call, so the id of a call that *)
(* was given up is replaced by Abandoned, wherever the request is by then. *)
(***************************************************************************)
EXTENDS Naturals, Sequences, FiniteSets, FiniteSetsExt, SequencesExt

CONSTANTS
  Windows,     \* the windows: one client instance each
  Nobody,      \* no window
  MaxConn,     \* bound on connection ids
  LaneDepth,   \* MutationQueueSize
  SeatBudgets  \* the histories: how often each outside event may happen

\* A history bounds the outside events; it is chosen once, in Init.
SeatBudget == [sizes : Nat, keys : Nat, boots : Nat, focuses : Nat, resyncs : Nat,
               breaks : Nat, timeouts : Nat, streams : Nat, copies : Nat, drawn : BOOLEAN]

ASSUME SeatAssumption ==
  /\ Nobody \notin Windows
  /\ LaneDepth \in Nat \ {0}
  /\ MaxConn \in Nat
  /\ SeatBudgets \subseteq SeatBudget

VARIABLES
  lease,     \* Server.input
  conns,     \* connection id -> who dialled it and how far its teardown is
  link,      \* window -> Client.conn of its request client, 0 when nil
  wire,      \* connection id -> requests written and not yet read
  lane,      \* connection id -> connectionLanes
  replies,   \* connection id -> answers queued for the client
  call,      \* window -> slot -> the call in progress
  loop,      \* window -> the geometry loop of its terminal view
  window,    \* window -> focus, daemonReady and the takeovers it has started
  typist,    \* window -> the input queue and what became of each key
  term,      \* the terminal: size, the size the host recorded, keys received
  recipients,\* Server.clipboardRecipients
  emission,  \* EmitInputOwner between its two critical sections
  copied,    \* the event connections clipboard effects were queued on
  allowed    \* what is allowed of the history

seatVars == <<lease, conns, link, wire, lane, replies, call, loop, window,
              typist, term, recipients, emission, copied, allowed>>

-----------------------------------------------------------------------------
Abandoned == "abandoned"
Slots == {"resize", "key", "focus", "sync", "boot"}
NoLease == [client |-> Nobody, conn |-> 0]
Ids == 1..MaxConn
Unused == [client |-> Nobody, kind |-> "none", state |-> "none",
           reader |-> "none", subscribed |-> FALSE]
IdleLane == [pending |-> {}, busy |-> {}, input |-> <<>>, typing |-> {},
             running |-> {}]
IdleCall == [stage |-> "idle", conn |-> 0, what |-> "none", val |-> 0]

\* The sizes of window w are <<w, 0>>, <<w, 1>>, ...
NoSize == <<Nobody, 0>>

Use(what) == /\ allowed[what] > 0
             /\ allowed' = [allowed EXCEPT ![what] = @ - 1]

NewestId == Cardinality({c \in Ids : conns[c].state # "none"})

\* handle: the seat belongs to one physical connection of one client.
owner(c) == lease.client = conns[c].client /\ lease.conn = c

Open(c) == conns[c].state = "open"

-----------------------------------------------------------------------------
(* Answers, and the calls that wait for them.                              *)

Answer(c, slot, result) ==
  IF slot = Abandoned THEN replies
                      ELSE [replies EXCEPT ![c] = @ \union {[slot |-> slot, result |-> result]}]

Disown(requests, slot) ==
  {[r EXCEPT !.slot = IF @ = slot THEN Abandoned ELSE @] : r \in requests}

\* removePending, or the pending call failed: the request stays where it is
\* and nobody waits for its answer any more.
Abandon(c, slot) ==
  /\ wire' = [wire EXCEPT ![c] =
                [i \in DOMAIN @ |-> [@[i] EXCEPT !.slot = IF @ = slot THEN Abandoned ELSE @]]]
  /\ lane' = [lane EXCEPT ![c] =
                [pending |-> Disown(@.pending, slot), busy |-> Disown(@.busy, slot),
                 input |-> [i \in DOMAIN @.input |->
                              [@.input[i] EXCEPT !.slot = IF @ = slot THEN Abandoned ELSE @]],
                 typing |-> Disown(@.typing, slot), running |-> Disown(@.running, slot)]]
  /\ replies' = [replies EXCEPT ![c] = {r \in @ : r.slot # slot}]

\* The geometry loop after its call: an acknowledged size is remembered, a
\* seat rejection parks the loop, anything else is tried again.
AfterResize(state, outcome, val) ==
  CASE outcome = "ok" -> [state EXCEPT !.acked = val, !.at = "check"]
    [] outcome = "rejected" -> [state EXCEPT !.at = "parked"]
    [] OTHER -> [state EXCEPT !.at = "check"]

\* prepareDaemonSynchronization after its ping or its takeover.  The takeover
\* is only asked for by a focused window that does not hold the seat.
AfterSync(w, outcome, what) ==
  CASE what = "takeover" /\ outcome = "ok" ->
         [window[w] EXCEPT !.sync = "idle", !.ready = TRUE, !.reclaimed = "now"]
    [] what = "takeover" -> [window[w] EXCEPT !.sync = "begin"]
    [] outcome = w -> [window[w] EXCEPT !.sync = "idle", !.ready = TRUE]
    [] outcome \in Windows \union {Nobody} -> [window[w] EXCEPT !.sync = "decide"]
    [] OTHER -> [window[w] EXCEPT !.sync = "redial"]

\* A call returns to its caller.
Return(w, slot, outcome) ==
  LET done == call[w][slot] IN
  /\ call' = [call EXCEPT ![w][slot] = IdleCall]
  /\ loop' = IF slot = "resize"
             THEN [loop EXCEPT ![w] = AfterResize(@, outcome, done.val)] ELSE loop
  /\ typist' = CASE slot = "key" -> [typist EXCEPT ![w].report[done.val] = outcome]
                 [] slot = "boot" -> [typist EXCEPT ![w].booted = outcome]
                 [] OTHER -> typist
  /\ window' = CASE slot = "sync" -> [window EXCEPT ![w] = AfterSync(w, outcome, done.what)]
                 [] slot = "focus" /\ outcome = "ok" -> [window EXCEPT ![w].reclaimed = "now"]
                 [] OTHER -> window

-----------------------------------------------------------------------------
(* The client: callConcurrent.                                             *)

\* connectLocked: dial, and let the daemon's hello decide about the seat.
hello(w, c) ==
  /\ conns' = [conns EXCEPT ![c] = [client |-> w, kind |-> "request", state |-> "open",
                                    reader |-> "reading", subscribed |-> FALSE]]
  /\ lease' = IF lease.client \in {Nobody, w} THEN [client |-> w, conn |-> c] ELSE lease
  /\ link' = [link EXCEPT ![w] = c]

\* The call takes the connection and its generation, dialling when there is none.
Begin(w, slot, what, val) ==
  /\ call[w][slot].stage = "idle"
  /\ IF link[w] = 0
     THEN /\ NewestId < MaxConn
          /\ hello(w, NewestId + 1)
     ELSE UNCHANGED <<conns, lease, link>>
  /\ call' = [call EXCEPT ![w][slot] = [stage |-> "begun", conn |-> link'[w],
                                        what |-> what, val |-> val]]
  /\ UNCHANGED <<wire, lane, replies, term, recipients, emission, copied>>

RegisterPending(w, slot) ==
  /\ call[w][slot].stage = "begun"
  /\ call' = [call EXCEPT ![w][slot].stage = "registered"]
  /\ UNCHANGED <<lease, conns, link, wire, lane, replies, loop, window, typist, term,
                 recipients, emission, copied, allowed>>

Connected(w, slot) == link[w] = call[w][slot].conn

\* Under writeMu: the connection must still be the one the call took.  A write
\* to a connection the daemon has closed either fails or is lost.
WriteRequest(w, slot) ==
  LET this == call[w][slot] IN
  /\ this.stage = "registered"
  /\ \/ /\ ~Connected(w, slot)
        /\ Return(w, slot, "notsent")
        /\ UNCHANGED <<link, wire>>
     \/ /\ Connected(w, slot)
        /\ Open(this.conn)
        /\ wire' = [wire EXCEPT ![this.conn] =
                      Append(@, [slot |-> slot, what |-> this.what, val |-> this.val])]
        /\ call' = [call EXCEPT ![w][slot].stage = "sent"]
        /\ UNCHANGED <<link, loop, window, typist>>
     \/ /\ Connected(w, slot)
        /\ ~Open(this.conn)
        /\ call' = [call EXCEPT ![w][slot].stage = "sent"]
        /\ UNCHANGED <<link, wire, loop, window, typist>>
     \/ /\ Connected(w, slot)
        /\ ~Open(this.conn)
        /\ link' = [link EXCEPT ![w] = 0]
        /\ Return(w, slot, "unknown")
        /\ UNCHANGED wire
  /\ UNCHANGED <<lease, conns, lane, replies, term, recipients, emission, copied, allowed>>

\* The caller's deadline.  A node's boot has none: it is bounded by its
\* connection alone.
CallExpires(w, slot) ==
  /\ slot # "boot"
  /\ call[w][slot].stage = "sent"
  /\ Use("timeouts")
  /\ Abandon(call[w][slot].conn, slot)
  /\ Return(w, slot, "unknown")
  /\ UNCHANGED <<lease, conns, link, term, recipients, emission, copied>>

\* readResponses: an answer finds its pending call.
readResponses(c) ==
  /\ conns[c].reader = "reading"
  /\ \E r \in replies[c] :
       /\ replies' = [replies EXCEPT ![c] = @ \ {r}]
       /\ Return(conns[c].client, r.slot, r.result)
  /\ UNCHANGED <<lease, conns, link, wire, lane, term, recipients, emission, copied, allowed>>

\* The reader of a dead connection withdraws it from the client ...
invalidateConnection(c) ==
  /\ conns[c].reader = "reading"
  /\ conns[c].kind = "request"
  /\ conns[c].state \in {"closed", "removed"}
  /\ conns' = [conns EXCEPT ![c].reader = "failing"]
  /\ link' = [w \in Windows |-> IF link[w] = c THEN 0 ELSE link[w]]
  /\ UNCHANGED <<lease, wire, lane, replies, call, loop, window, typist, term, recipients,
                 emission, copied, allowed>>

\* ... and then fails the calls pending on it, one after another.  A call that
\* is registered and not yet written finds the connection changed by itself.
PendingOn(c) == {slot \in Slots : /\ call[conns[c].client][slot].stage = "sent"
                                  /\ call[conns[c].client][slot].conn = c}

failPending(c) ==
  /\ conns[c].reader = "failing"
  /\ \/ \E slot \in PendingOn(c) :
          /\ Abandon(c, slot)
          /\ Return(conns[c].client, slot, "unknown")
          /\ UNCHANGED conns
     \/ /\ PendingOn(c) = {}
        /\ conns' = [conns EXCEPT ![c].reader = "done"]
        /\ UNCHANGED <<wire, lane, replies, call, loop, window, typist>>
  /\ UNCHANGED <<lease, link, term, recipients, emission, copied, allowed>>

-----------------------------------------------------------------------------
(* The window.                                                             *)

\* tuiSessionStore.Call refuses while the connection is synchronizing.
Refuse(w, slot, val) ==
  /\ ~window[w].ready
  /\ slot = "key"
  /\ typist' = [typist EXCEPT ![w].report[val] = "notsent", ![w].sent = val]
  /\ UNCHANGED <<lease, conns, link, wire, lane, replies, call, loop, window, term,
                 recipients, emission, copied, allowed>>

\* The user changes the size of the window; drawing it records the size.
Resize(w) ==
  /\ Use("sizes")
  /\ loop' = [loop EXCEPT ![w].desired = <<w, @[2] + 1>>, ![w].wake = TRUE]
  /\ UNCHANGED <<lease, conns, link, wire, lane, replies, call, window, typist, term,
                 recipients, emission, copied>>

\* reassertResize: wait to be woken, then drive the daemon to the newest size.
ResizeWakes(w) ==
  /\ loop[w].at = "parked" /\ loop[w].wake
  /\ loop' = [loop EXCEPT ![w].at = "check", ![w].wake = FALSE]
  /\ UNCHANGED <<lease, conns, link, wire, lane, replies, call, window, typist, term,
                 recipients, emission, copied, allowed>>

reassertResize(w) ==
  /\ loop[w].at = "check"
  /\ \/ /\ loop[w].desired = loop[w].acked
        /\ loop' = [loop EXCEPT ![w].at = "parked"]
        /\ UNCHANGED <<lease, conns, link, wire, lane, replies, call, term, recipients,
                       emission, copied>>
     \/ /\ loop[w].desired # loop[w].acked
        /\ window[w].ready
        /\ loop' = [loop EXCEPT ![w].at = "calling"]
        /\ Begin(w, "resize", "resize", loop[w].desired)
  /\ UNCHANGED <<window, typist, allowed>>

\* Update and deliverInput: keys are sent one call after another, and a key
\* whose call failed is reported, never sent again.
Type(w) ==
  /\ Use("keys")
  /\ typist' = [typist EXCEPT ![w].typed = @ + 1,
                              ![w].report = Append(@, "none")]
  /\ UNCHANGED <<lease, conns, link, wire, lane, replies, call, loop, window, term,
                 recipients, emission, copied>>

deliverInput(w) ==
  LET next == typist[w].sent + 1 IN
  /\ next <= typist[w].typed
  /\ call[w]["key"].stage = "idle"
  /\ \/ Refuse(w, "key", next)
     \/ /\ window[w].ready
        /\ Begin(w, "key", "key", next)
        /\ typist' = [typist EXCEPT ![w].sent = next]
        /\ UNCHANGED <<loop, window, allowed>>

Boot(w) ==
  /\ Use("boots")
  /\ Begin(w, "boot", "boot", 0)
  /\ typist' = [typist EXCEPT ![w].booted = "none"]
  /\ UNCHANGED <<loop, window>>

\* vaxis.FocusIn: the user chose this window, so it asks for the seat.
FocusIn(w) ==
  /\ Use("focuses")
  /\ window' = [v \in Windows |-> [window[v] EXCEPT !.focused = (v = w)]]
  /\ Begin(w, "focus", "takeover", 0)
  /\ UNCHANGED <<loop, typist>>

\* finishDaemonInputTakeover on the event loop: every parked geometry loop is
\* woken now that its size may win.
pokeResizeAll(w) ==
  /\ window[w].reclaimed = "now"
  /\ window' = [window EXCEPT ![w].reclaimed = "before"]
  /\ loop' = [loop EXCEPT ![w].wake = TRUE]
  /\ UNCHANGED <<lease, conns, link, wire, lane, replies, call, typist, term, recipients,
                 emission, copied, allowed>>

\* The event stream was lost and dialled again: requests are refused until the
\* request connection has been probed and the seat decided.
ResyncBegins(w) ==
  /\ window[w].sync = "idle"
  /\ Use("resyncs")
  /\ window' = [window EXCEPT ![w].sync = "begin", ![w].ready = FALSE]
  /\ UNCHANGED <<lease, conns, link, wire, lane, replies, call, loop, typist, term,
                 recipients, emission, copied>>

prepareDaemonSynchronization(w) ==
  /\ \/ /\ window[w].sync = "begin"
        /\ window' = [window EXCEPT ![w].sync = "pinging"]
        /\ Begin(w, "sync", "ping", 0)
     \/ /\ window[w].sync = "decide" /\ window[w].focused
        /\ window' = [window EXCEPT ![w].sync = "taking"]
        /\ Begin(w, "sync", "takeover", 0)
     \/ /\ window[w].sync = "decide" /\ ~window[w].focused
        /\ window' = [window EXCEPT ![w].sync = "idle", ![w].ready = TRUE]
        /\ UNCHANGED <<lease, conns, link, wire, lane, replies, call, term, recipients,
                       emission, copied>>
  /\ UNCHANGED <<loop, typist, allowed>>

\* Client.Reconnect after a failed ping: the old connection is closed, the
\* calls on it fail, and the hello on the new one says who holds the seat.
Reconnect(w) ==
  LET old == link[w]
      new == NewestId + 1 IN
  /\ window[w].sync = "redial"
  /\ new <= MaxConn
  /\ conns' = [c \in Ids |->
        CASE c = new -> [client |-> w, kind |-> "request", state |-> "open",
                         reader |-> "reading", subscribed |-> FALSE]
          [] c = old -> [conns[c] EXCEPT !.state = IF @ = "open" THEN "closed" ELSE @,
                                         !.reader = "failing"]
          [] OTHER -> conns[c]]
  /\ lease' = IF lease.client \in {Nobody, w} THEN [client |-> w, conn |-> new] ELSE lease
  /\ link' = [link EXCEPT ![w] = new]
  /\ window' = [window EXCEPT ![w] =
        IF lease'.client = w THEN [@ EXCEPT !.sync = "idle", !.ready = TRUE]
                             ELSE [@ EXCEPT !.sync = "decide"]]
  /\ UNCHANGED <<wire, lane, replies, call, loop, typist, term, recipients, emission,
                 copied, allowed>>

-----------------------------------------------------------------------------
(* The server: one reader per connection, and its delivery lanes.          *)

\* latestValueLane.push: a newer size takes the place of a queued one, whose
\* request is answered with the outcome of the newer; the record of such
\* requests is bounded.
push(c, r) ==
  LET old == lane[c].pending
      superseded == IF old = {} THEN 0 ELSE (CHOOSE p \in old : TRUE).superseded + 1 IN
  IF old # {} /\ superseded >= LaneDepth
  THEN /\ replies' = Answer(c, r.slot, "rejected")
       /\ UNCHANGED lane
  ELSE /\ lane' = [lane EXCEPT ![c].pending =
                     {[slot |-> r.slot, val |-> r.val, superseded |-> superseded]}]
       /\ UNCHANGED replies

dispatchInput_Newest(c, r) ==
  IF Len(lane[c].input) >= LaneDepth
  THEN replies' = Answer(c, r.slot, "rejected") /\ UNCHANGED lane
  ELSE lane' = [lane EXCEPT ![c].input = <<r>> \o @] /\ UNCHANGED replies

dispatchInput(c, r) ==
  IF Len(lane[c].input) >= LaneDepth
  THEN /\ replies' = Answer(c, r.slot, "rejected")
       /\ UNCHANGED lane
  ELSE /\ lane' = [lane EXCEPT ![c].input = Append(@, r)]
       /\ UNCHANGED replies

dispatchConcurrent(c, r) ==
  /\ lane' = [lane EXCEPT ![c].running = @ \union {r}]
  /\ UNCHANGED replies

\* handle, "input.takeover": applied on the connection's reader, so it keeps
\* its place among the requests of the connection.
takeover(c, r) ==
  /\ lease' = [client |-> conns[c].client, conn |-> c]
  /\ replies' = Answer(c, r.slot, "ok")
  /\ UNCHANGED lane

dispatch(c, r) ==
  CASE r.what = "resize" -> push(c, r) /\ UNCHANGED lease
    [] r.what = "key" -> dispatchInput(c, r) /\ UNCHANGED lease
    [] r.what = "takeover" -> takeover(c, r)
    [] OTHER -> dispatchConcurrent(c, r) /\ UNCHANGED lease

\* serveConn: the reader goes on with what it has buffered when the connection
\* is closed, and stops when it is removed.
serveConn(c) ==
  /\ conns[c].state \in {"open", "closed"}
  /\ wire[c] # <<>>
  /\ dispatch(c, Head(wire[c]))
  /\ wire' = [wire EXCEPT ![c] = Tail(@)]
  /\ UNCHANGED <<conns, link, call, loop, window, typist, term, recipients, emission,
                 copied, allowed>>

\* runLatestValueLane: take the pending size; the seat is read under the
\* server's lock, and the handler runs after it is released.
take(c) ==
  /\ lane[c].busy = {}
  /\ \E p \in lane[c].pending :
       lane' = [lane EXCEPT ![c].pending = {}, ![c].busy = {[slot |-> p.slot, val |-> p.val, stage |-> "taken"]}]
  /\ UNCHANGED <<lease, conns, link, wire, replies, call, loop, window, typist, term,
                 recipients, emission, copied, allowed>>

SeatGate(c) ==
  /\ \E b \in lane[c].busy :
       /\ b.stage = "taken"
       /\ \/ /\ owner(c)
             /\ lane' = [lane EXCEPT ![c].busy = {[b EXCEPT !.stage = "owned"]}]
             /\ UNCHANGED replies
          \/ /\ ~owner(c)
             /\ lane' = [lane EXCEPT ![c].busy = {}]
             /\ replies' = Answer(c, b.slot, "rejected")
  /\ UNCHANGED <<lease, conns, link, wire, call, loop, window, typist, term, recipients,
                 emission, copied, allowed>>

\* The host's "terminal.resize": the terminal takes the size, and then the
\* host records it.  The recorded size is the one a later request is compared
\* with.
ResizeTerminal(c) ==
  /\ \E b \in lane[c].busy :
       \/ /\ b.stage = "owned" /\ term.recorded # b.val
          /\ term' = [term EXCEPT !.size = b.val]
          /\ lane' = [lane EXCEPT ![c].busy = {[b EXCEPT !.stage = "resized"]}]
          /\ UNCHANGED replies
       \/ /\ b.stage = "owned" /\ term.recorded = b.val
          /\ lane' = [lane EXCEPT ![c].busy = {}]
          /\ replies' = Answer(c, b.slot, "ok")
          /\ UNCHANGED term
       \/ /\ b.stage = "resized"
          /\ term' = [term EXCEPT !.recorded = b.val]
          /\ lane' = [lane EXCEPT ![c].busy = {}]
          /\ replies' = Answer(c, b.slot, "ok")
  /\ UNCHANGED <<lease, conns, link, wire, call, loop, window, typist, recipients,
                 emission, copied, allowed>>

\* runInputLane: one key at a time, in the order the connection delivered them.
runInputLane(c) ==
  /\ \/ /\ lane[c].typing = {} /\ lane[c].input # <<>>
        /\ lane' = [lane EXCEPT ![c].typing = {Head(lane[c].input)}, ![c].input = Tail(@)]
        /\ UNCHANGED <<term, replies>>
     \/ \E r \in lane[c].typing :
          /\ term' = [term EXCEPT !.keys = Append(@, [by |-> conns[c].client, key |-> r.val, over |-> c])]
          /\ lane' = [lane EXCEPT ![c].typing = {}]
          /\ replies' = Answer(c, r.slot, "ok")
  /\ UNCHANGED <<lease, conns, link, wire, call, loop, window, typist, recipients,
                 emission, copied, allowed>>

\* A concurrent request completes: a ping reports the holder of the seat.
Complete(c) ==
  /\ \E r \in lane[c].running :
       /\ lane' = [lane EXCEPT ![c].running = @ \ {r}]
       /\ replies' = Answer(c, r.slot, IF r.what = "ping" THEN lease.client ELSE "ok")
  /\ UNCHANGED <<lease, conns, link, wire, call, loop, window, typist, term, recipients,
                 emission, copied, allowed>>

\* clientConn.fail, whoever causes it: the connection is closed on both sides.
fail(c) ==
  /\ Open(c)
  /\ Use("breaks")
  /\ conns' = [conns EXCEPT ![c].state = "closed"]
  /\ UNCHANGED <<lease, link, wire, lane, replies, call, loop, window, typist, term,
                 recipients, emission, copied>>

\* The lanes of a closed connection stop without starting what they still hold.
LanesStop(c) ==
  /\ conns[c].state = "removed"
  /\ lane[c].pending # {} \/ lane[c].input # <<>> \/ lane[c].running # {}
  /\ lane' = [lane EXCEPT ![c].pending = {}, ![c].input = <<>>, ![c].running = {}]
  /\ UNCHANGED <<lease, conns, link, wire, replies, call, loop, window, typist, term,
                 recipients, emission, copied, allowed>>

\* removeClient: only the connection that holds the seat gives it up, and a
\* window's clipboard recipient is forgotten with its last connection.
Forgotten(w, c) == \A d \in Ids \ {c} : conns[d].client = w => conns[d].state \in {"none", "removed"}

Released(c) == IF lease.conn = c THEN NoLease ELSE lease

removeClient(c) ==
  LET w == conns[c].client IN
  /\ conns[c].state = "closed"
  /\ conns' = [conns EXCEPT ![c].state = "removed"]
  /\ lease' = Released(c)
  /\ recipients' = IF Forgotten(w, c) THEN [recipients EXCEPT ![w] = 0] ELSE recipients
  /\ wire' = [wire EXCEPT ![c] = <<>>]
  /\ UNCHANGED <<link, lane, replies, call, loop, window, typist, term, emission, copied,
                 allowed>>

-----------------------------------------------------------------------------
(* Clipboard effects go to the event stream of the window with the seat.   *)

\* A window's supervisor dials an event connection; it never asks for the seat.
DialEvents(w) ==
  /\ Use("streams")
  /\ NewestId < MaxConn
  /\ conns' = [conns EXCEPT ![NewestId + 1] =
                 [client |-> w, kind |-> "event", state |-> "open", reader |-> "done",
                  subscribed |-> FALSE]]
  /\ UNCHANGED <<lease, link, wire, lane, replies, call, loop, window, typist, term,
                 recipients, emission, copied>>

\* registerClipboardRecipientLocked, when the synchronization was queued.
registerClipboardRecipient(c) ==
  LET w == conns[c].client IN
  /\ conns[c].kind = "event" /\ Open(c) /\ ~conns[c].subscribed
  /\ conns' = [conns EXCEPT ![c].subscribed = TRUE]
  /\ recipients' = [recipients EXCEPT ![w] = IF c > @ THEN c ELSE @]
  /\ UNCHANGED <<lease, link, wire, lane, replies, call, loop, window, typist, term,
                 emission, copied, allowed>>

Live(c) == conns[c].state \in {"open", "closed"} /\ conns[c].subscribed

\* EmitInputOwner chooses the recipient and releases the lock to encode ...
EmitInputOwner ==
  LET to == IF lease.client = Nobody THEN 0 ELSE recipients[lease.client] IN
  /\ Use("copies")
  /\ emission = [lease |-> NoLease, to |-> 0]
  /\ to # 0 /\ Live(to)
  /\ emission' = [lease |-> lease, to |-> to]
  /\ UNCHANGED <<lease, conns, link, wire, lane, replies, call, loop, window, typist, term,
                 recipients, copied>>

StillCurrent ==
  /\ lease = emission.lease
  /\ Live(emission.to)
  /\ recipients[lease.client] = emission.to

\* ... and admits the effect only if nothing it chose by has changed.
AdmitClipboard ==
  /\ emission.to # 0
  /\ copied' = IF StillCurrent THEN Append(copied, emission.to) ELSE copied
  /\ emission' = [lease |-> NoLease, to |-> 0]
  /\ UNCHANGED <<lease, conns, link, wire, lane, replies, call, loop, window, typist, term,
                 recipients, allowed>>

-----------------------------------------------------------------------------
\* Every window is connected, and one of them took the seat.  Either nothing has
\* been drawn yet, or every window has had its size acknowledged while it held
\* the seat, its present holder last.
SeatInit ==
  /\ allowed \in SeatBudgets
  /\ link = CHOOSE order \in [Windows -> 1..Cardinality(Windows)] :
              \A v, w \in Windows : order[v] = order[w] => v = w
  /\ conns = [c \in Ids |->
       IF \E w \in Windows : link[w] = c
       THEN [client |-> CHOOSE w \in Windows : link[w] = c, kind |-> "request",
             state |-> "open", reader |-> "reading", subscribed |-> FALSE]
       ELSE Unused]
  /\ \E holder \in Windows :
       LET first == IF allowed.drawn THEN <<holder, 0>> ELSE NoSize IN
       /\ lease = [client |-> holder, conn |-> link[holder]]
       /\ window = [w \in Windows |-> [focused |-> w = holder, ready |-> TRUE,
                                       sync |-> "idle", reclaimed |-> "never"]]
       /\ term = [size |-> first, recorded |-> first, keys |-> <<>>]
  /\ loop = [w \in Windows |-> [desired |-> <<w, 0>>, at |-> "parked", wake |-> ~allowed.drawn,
                                acked |-> IF allowed.drawn THEN <<w, 0>> ELSE NoSize]]
  /\ wire = [c \in Ids |-> <<>>]
  /\ lane = [c \in Ids |-> IdleLane]
  /\ replies = [c \in Ids |-> {}]
  /\ call = [w \in Windows |-> [slot \in Slots |-> IdleCall]]
  /\ typist = [w \in Windows |-> [typed |-> 0, sent |-> 0, report |-> <<>>,
                                  booted |-> "never"]]
  /\ recipients = [w \in Windows |-> 0]
  /\ emission = [lease |-> NoLease, to |-> 0]
  /\ copied = <<>>

UserStep(w) == Resize(w) \/ Type(w) \/ Boot(w) \/ FocusIn(w) \/ ResyncBegins(w) \/ DialEvents(w)

WindowStep(w) ==
  \/ ResizeWakes(w) \/ reassertResize(w) \/ deliverInput(w) \/ pokeResizeAll(w)
  \/ prepareDaemonSynchronization(w) \/ Reconnect(w)

CallStep(w) == \E slot \in Slots : RegisterPending(w, slot) \/ WriteRequest(w, slot)

ClientStep(c) == readResponses(c) \/ invalidateConnection(c) \/ failPending(c)

ServerStep(c) ==
  \/ serveConn(c) \/ take(c) \/ SeatGate(c) \/ ResizeTerminal(c) \/ runInputLane(c)
  \/ Complete(c) \/ LanesStop(c) \/ removeClient(c) \/ registerClipboardRecipient(c)

SeatNext ==
  \/ \E w \in Windows : \/ UserStep(w) \/ WindowStep(w) \/ CallStep(w)
                        \/ \E slot \in Slots : CallExpires(w, slot)
  \/ \E c \in Ids : ClientStep(c) \/ ServerStep(c) \/ fail(c)
  \/ EmitInputOwner \/ AdmitClipboard

\* What can go on in a window, and what can go on for a connection at its two
\* ends, does.  A history is finite, so none of the goroutines of a window or a
\* connection is overtaken forever.  Nothing is assumed about users, faults or
\* deadlines.
WindowWork(w) == WindowStep(w) \/ CallStep(w)
ConnectionWork(c) ==
  \/ ClientStep(c) \/ serveConn(c) \/ removeClient(c) \/ take(c) \/ SeatGate(c)
  \/ ResizeTerminal(c) \/ runInputLane(c) \/ Complete(c)

SeatFairness == /\ \A w \in Windows : WF_seatVars(WindowWork(w))
                /\ \A c \in Ids : WF_seatVars(ConnectionWork(c))

SeatSpec == SeatInit /\ [][SeatNext]_seatVars /\ SeatFairness

-----------------------------------------------------------------------------
Sizes == (Windows \union {Nobody}) \X Nat
Outcomes == {"none", "ok", "rejected", "notsent", "unknown"}

\* The types of the server's, the client's and the windows' state; the seat is
\* always a pair of a client and one of its connections, and no request is in
\* two lanes of a connection at once.
SeatTypeOK ==
  /\ lease \in [client : Windows \union {Nobody}, conn : 0..MaxConn]
  /\ conns \in [Ids -> [client : Windows \union {Nobody},
                        kind : {"none", "request", "event"},
                        state : {"none", "open", "closed", "removed"},
                        reader : {"none", "reading", "failing", "done"},
                        subscribed : BOOLEAN]]
  /\ link \in [Windows -> 0..MaxConn]
  /\ \A c \in Ids : /\ Cardinality(lane[c].pending) <= 1
                    /\ Cardinality(lane[c].busy) <= 1
                    /\ Cardinality(lane[c].typing) <= 1
                    /\ Len(lane[c].input) <= LaneDepth
                    /\ \A p \in lane[c].pending : p.superseded < LaneDepth
  /\ \A w \in Windows : /\ loop[w].desired \in Sizes /\ loop[w].acked \in Sizes
                        /\ loop[w].at \in {"parked", "check", "calling"}
                        /\ \A n \in DOMAIN typist[w].report : typist[w].report[n] \in Outcomes
  /\ term.size \in Sizes /\ term.recorded \in Sizes

\* What a caller is told about its key is true: a key reported delivered was
\* received by the terminal, and a key reported as refused or never sent is not
\* received, then or later, even when its connection was lost and dialled again
\* while the call was being made (DeliveryNotSent, DeliveryOutcomeUnknown).
OutcomesAreHonest ==
  \A w \in Windows : \A n \in DOMAIN typist[w].report :
    LET received == \E i \in DOMAIN term.keys : term.keys[i].by = w /\ term.keys[i].key = n IN
    /\ typist[w].report[n] = "ok" => received
    /\ typist[w].report[n] \in {"notsent", "rejected"} => ~received

\* A terminal receives the keys of one connection at most once and in the order
\* they were typed, whatever calls were given up in between (ClassInput: "an
\* at-most-once ordered mutation").
KeysInOrder ==
  \A i, j \in DOMAIN term.keys :
    (i < j /\ term.keys[i].over = term.keys[j].over) => term.keys[i].key < term.keys[j].key

\* The seat never stays with a connection the server has removed: such a seat
\* could be used by nobody and would refuse every window's geometry.
SeatIsLive == lease.client # Nobody => /\ conns[lease.conn].state \in {"open", "closed"}
                                       /\ conns[lease.conn].client = lease.client

\* A clipboard effect is queued only for the window that holds the seat at that
\* moment, and only on the newest event stream that window ever subscribed: the
\* loss of that stream does not bring an older one back.
NewestStream(w) == Max({0} \union {c \in Ids : conns[c].client = w /\ conns[c].subscribed})

ClipboardFollowsSeat ==
  copied' # copied => Last(copied') = NewestStream(lease.client)

\* A call without a deadline returns once it was begun: by its answer or by the
\* loss of the connection it was made on, also when the loss and the call meet.
EveryCallReturns == \A w \in Windows : []<>(call[w]["boot"].stage = "idle")

Seated(w) == lease.client = w /\ link[w] = lease.conn /\ Open(lease.conn)

\* A window that was refused its geometry and then takes the seat has it
\* acknowledged, unless it loses the seat again (pokeResizeAll).
ParkedIsRepresented ==
  \A w \in Windows :
    []<>(Seated(w) /\ window[w].reclaimed # "never" => loop[w].desired = loop[w].acked)

\* What reaches a terminal is what its windows were told, and the seat is with a window that lives.
SeatIsSafe == SeatTypeOK /\ OutcomesAreHonest /\ KeysInOrder /\ SeatIsLive

=============================================================================

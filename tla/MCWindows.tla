------------------------------ MODULE MCWindows ------------------------------
(***************************************************************************)
(* The terminal user interface, for TLC: the windows that share a terminal *)
(* and its seat (Seat), what one window shows of the daemon's nodes,       *)
(* operations and terminals (Window), its keys and overlays (Surface), its *)
(* reviews (Review), palette and shells (Chooser), forms (Forms) and the   *)
(* inspection of its terminals (Inspection).  A history exercises one of   *)
(* them and finds the others at rest.                                      *)
(***************************************************************************)
EXTENDS Seat, Window, Surface, Review, Chooser, Forms, Inspection

NoSeat == [sizes |-> 0, keys |-> 0, boots |-> 0, focuses |-> 0, resyncs |-> 0,
           breaks |-> 0, timeouts |-> 0, streams |-> 0, copies |-> 0, drawn |-> TRUE]

\* A first drawing, keys over a break, a start over a break, a resynchronisation,
\* event streams and the clipboard, resizes with and without an answer, lanes that
\* fill up, and keys typed during a resynchronisation.
SeatHistories ==
    { NoSeat,
      [NoSeat EXCEPT !.drawn = FALSE, !.focuses = 1],
      [NoSeat EXCEPT !.keys = 2, !.breaks = 1, !.timeouts = 1],
      [NoSeat EXCEPT !.boots = 1, !.breaks = 1, !.keys = 1],
      [NoSeat EXCEPT !.resyncs = 1, !.breaks = 1, !.focuses = 1],
      [NoSeat EXCEPT !.streams = 2, !.breaks = 1, !.focuses = 1, !.copies = 1],
      [NoSeat EXCEPT !.sizes = 1, !.focuses = 1],
      [NoSeat EXCEPT !.sizes = 1, !.drawn = FALSE, !.timeouts = 1],
      [NoSeat EXCEPT !.drawn = FALSE, !.timeouts = 2],
      [NoSeat EXCEPT !.keys = 3, !.timeouts = 2],
      [NoSeat EXCEPT !.keys = 1, !.resyncs = 1] }

Still == [shown |-> FALSE, born |-> 0, deleted |-> 0, fail |-> 0, stall |-> 0, scope |-> 0,
          usage |-> 0, epoch |-> 0, op |-> 0, other |-> 0, nav |-> 0, queue |-> 0, open |-> 0,
          exit |-> 0, sync |-> 0, ready |-> {}, nodes |-> {}, follows |-> {}]
Quiet == [Still EXCEPT !.shown = TRUE, !.nodes = {"a", "b"}]
One == [Quiet EXCEPT !.nodes = {"b"}]
Running == [Quiet EXCEPT !.ready = {"a"}]

\* Reloads, samples, the window's own operations, the views of a node, an
\* attachment queued behind another client's startup, and terminals.
WindowHistories ==
    { Still,
      [Running EXCEPT !.born = 1, !.nodes = {}, !.stall = 1, !.scope = 1, !.fail = 1],
      [Running EXCEPT !.usage = 2, !.epoch = 1, !.scope = 1, !.stall = 1],
      [Quiet EXCEPT !.op = 1, !.stall = 1],
      [One EXCEPT !.op = 2, !.deleted = 1],
      [Running EXCEPT !.nav = 2, !.deleted = 1, !.follows = {"logs"}],
      [Running EXCEPT !.nav = 2, !.stall = 1, !.follows = {"metrics"}],
      [Running EXCEPT !.nav = 2, !.fail = 1, !.follows = {"spec"}],
      [One EXCEPT !.nav = 1, !.other = 2, !.queue = 1, !.follows = {"life"}],
      [One EXCEPT !.nav = 2, !.other = 1, !.queue = 1, !.follows = {"life"}],
      [One EXCEPT !.nav = 1, !.other = 1, !.follows = {"act"}],
      [Running EXCEPT !.open = 1, !.exit = 1, !.scope = 1, !.deleted = 1, !.sync = 1] }

-----------------------------------------------------------------------------
\* Keys: three presses around an event, or four in a row.
NoTurns == [press |-> 0, follow |-> 0, event |-> 0]
SurfaceHistories == { NoTurns, [press |-> 3, follow |-> 1, event |-> 1], [press |-> 4, follow |-> 1, event |-> 0] }

\* Reviews: of stops around a settings write, of a delete, of clones, of a batch, and direct actions.
NoPlans == [see |-> 0, ask |-> 0, fail |-> 0, kinds |-> {}]
ReviewHistories ==
    { NoPlans,
      [see |-> 1, ask |-> 2, fail |-> 1, kinds |-> {"stop"}],
      [see |-> 1, ask |-> 1, fail |-> 0, kinds |-> {"delete"}],
      [see |-> 0, ask |-> 2, fail |-> 1, kinds |-> {"clone"}],
      [see |-> 1, ask |-> 1, fail |-> 0, kinds |-> {"batch"}],
      [see |-> 1, ask |-> 1, fail |-> 0, kinds |-> {"start", "retry", "restart"}] }

\* The palette while the list changes; shells while sessions start and end, defaults are saved
\* and calls fail.
NoChances == [see |-> 0, pal |-> 0, key |-> 0, born |-> 0, ends |-> 0, save |-> 0, fail |-> 0]
Hits == [q \in {0, 1} |-> IF q = 0 THEN {"a", "b", "c"} ELSE {"b", "c"}]
ChooserHistories ==
    { NoChances,
      [NoChances EXCEPT !.see = 2, !.pal = 3],
      [NoChances EXCEPT !.key = 1, !.born = 1, !.ends = 2],
      [NoChances EXCEPT !.key = 1, !.save = 1, !.fail = 1, !.see = 1],
      [NoChances EXCEPT !.born = 2, !.key = 1, !.ends = 1],
      [NoChances EXCEPT !.born = 1, !.key = 2],
      [NoChances EXCEPT !.pal = 1, !.key = 1, !.ends = 1] }

\* Creations with lost answers, closed forms and names taken meanwhile; directories, templates and
\* editors with failing reads and writes; environment tests.
NoQuota == [open |-> 0, edit |-> 0, send |-> 0, lose |-> 0, born |-> 0, tmpl |-> 0, nav |-> 0, test |-> 0, fail |-> 0, load |-> 0]
FormHistories ==
    { NoQuota,
      [NoQuota EXCEPT !.open = 1, !.send = 2, !.lose = 1, !.edit = 1],
      [NoQuota EXCEPT !.open = 2, !.send = 2, !.nav = 1],
      [NoQuota EXCEPT !.open = 1, !.send = 2, !.born = 1, !.edit = 1, !.fail = 1],
      [NoQuota EXCEPT !.open = 1, !.tmpl = 1, !.fail = 1, !.edit = 1],
      [NoQuota EXCEPT !.tmpl = 1, !.edit = 2, !.load = 1, !.fail = 1],
      [NoQuota EXCEPT !.open = 1, !.edit = 2],
      [NoQuota EXCEPT !.tmpl = 2, !.edit = 1],
      [NoQuota EXCEPT !.test = 2, !.lose = 1, !.nav = 2] }

\* Searches over a full queue, a change of tab, a failure or an ended session; colours; gestures.
NoLooks == [type |-> 0, switch |-> 0, fail |-> 0, theme |-> 0, mouse |-> 0, ends |-> 0]
LookHistories ==
    { NoLooks,
      [NoLooks EXCEPT !.type = 3, !.switch = 1],
      [NoLooks EXCEPT !.type = 3, !.fail = 1],
      [NoLooks EXCEPT !.type = 2, !.ends = 1, !.theme = 1],
      [NoLooks EXCEPT !.theme = 2, !.fail = 1],
      [NoLooks EXCEPT !.mouse = 3, !.switch = 1] }

-----------------------------------------------------------------------------
\* The component a history exercises; the others are at rest.
VARIABLE part

WindowsInit == /\ SeatInit /\ WinInit /\ SurfInit /\ RevInit /\ ChInit /\ FormInit /\ LookInit
               /\ part \in {"seat", "window", "surface", "review", "chooser", "forms", "inspection"}
               /\ part = "seat" <=> allowed # NoSeat
               /\ part = "window" <=> left # Still
               /\ part = "surface" <=> turns # NoTurns
               /\ part = "review" <=> plans # NoPlans
               /\ part = "chooser" <=> chances # NoChances
               /\ part = "forms" <=> quota # NoQuota
               /\ part = "inspection" <=> looks # NoLooks
               /\ part # "seat" => lease.client = CHOOSE w \in Windows : TRUE

panelVars == <<surfVars, revVars, chVars, formVars, lookVars>>
windowsVars == <<seatVars, winVars, panelVars, part>>
WindowsNext ==
  /\ UNCHANGED part
  /\ \/ part = "seat" /\ SeatNext /\ UNCHANGED <<winVars, panelVars>>
     \/ part = "window" /\ WinNext /\ UNCHANGED <<seatVars, panelVars>>
     \/ part = "surface" /\ SurfNext /\ UNCHANGED <<seatVars, winVars, revVars, chVars, formVars, lookVars>>
     \/ part = "review" /\ RevNext /\ UNCHANGED <<seatVars, winVars, surfVars, chVars, formVars, lookVars>>
     \/ part = "chooser" /\ ChNext /\ UNCHANGED <<seatVars, winVars, surfVars, revVars, formVars, lookVars>>
     \/ part = "forms" /\ FormNext /\ UNCHANGED <<seatVars, winVars, surfVars, revVars, chVars, lookVars>>
     \/ part = "inspection" /\ LookNext /\ UNCHANGED <<seatVars, winVars, surfVars, revVars, chVars, formVars>>

\* The fairness of the seat and of the window, in the histories that exercise them.
SeatWorks == /\ \A w \in Windows : WF_seatVars(part = "seat" /\ WindowWork(w))
             /\ \A c \in Ids : WF_seatVars(part = "seat" /\ ConnectionWork(c))
WindowWorks ==
  /\ WF_winVars(part = "window" /\ Tick) /\ WF_winVars(part = "window" /\ metricsTick)
  /\ WF_winVars(part = "window" /\ finishDataRefresh) /\ WF_winVars(part = "window" /\ operationComplete)
  /\ WF_winVars(part = "window" /\ applyOpenedDaemonTab) /\ WF_winVars(part = "window" /\ handleDaemonEvent)
  /\ WF_winVars(part = "window" /\ loadTUIRefresh)
  /\ \A v \in Loaders \cup {"act"} : /\ WF_winVars(part = "window" /\ ReadView(v))
                                     /\ WF_winVars(part = "window" /\ applyView(v))
  /\ \A n \in WinNodes : WF_winVars(part = "window" /\ OperationEnds(n))

WindowsSpec == WindowsInit /\ [][WindowsNext]_windowsVars /\ SeatWorks /\ WindowWorks

\* What a window keeps agrees with what happened: results are applied once, data are of the node they
\* are shown for, operations and creations are not doubled, ended sessions leave no tab, and no request
\* that was refused is forgotten.
WindowIsConsistent ==
  /\ WinTypeOK /\ SurfTypeOK /\ RevTypeOK /\ ChTypeOK /\ FormTypeOK /\ LookTypeOK
  /\ AppliedOnce /\ NoForeignData /\ OneOperationPerNode /\ NoGhostTab /\ CreatedOnce /\ NothingForgotten

\* A key does what the screen said it would: what runs, attaches, jumps or is copied is what the user
\* was shown and asked for, and nothing the user typed is lost, whatever arrives in between.
ActsOnWhatIsShown ==
  [][/\ ClipboardFollowsSeat
     /\ FollowUpsStay /\ PasteIsText /\ EditsNeedConsent /\ OpenedIsShown
     /\ RunsWhatWasReviewed /\ TypedNameStays
     /\ VanishedIsNotReplaced /\ DigitKeepsItsShell /\ AttachesChosen
     /\ ChecksAreCurrent /\ JumpIsWanted /\ EditsSurvive
     /\ StatusIsOfTheQuery /\ DragStaysHome]_windowsVars

\* Whatever is lost or stalls, every call returns, the seated window has its geometry, and the lists,
\* rows and views of a window catch up with the daemon.
WindowsSettle == EveryCallReturns /\ ParkedIsRepresented /\ ListCatchesUp /\ OverlayClears /\ ViewFollowsSelection

=============================================================================

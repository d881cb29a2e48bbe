------------------------------- MODULE Surface -------------------------------
(***************************************************************************)
(* Where a window's keyboard input goes: the stack of overlays             *)
(* (tui_overlay.go), the terminal's search bar, the terminal and the       *)
(* manager behind them, and the keys whose repeats and release are claimed *)
(* by the surface their press left (tui_key_lifecycle.go).                 *)
(*                                                                         *)
(* What a key is bound to depends on the surface and on the user's key     *)
(* map, so a dispatched key means any of the actions of that surface.  A   *)
(* dialog is kept as whether its fields differ from their initial values.  *)
(***************************************************************************)
EXTENDS Integers, Sequences, FiniteSets, SequencesExt

CONSTANTS SurfKeys,      \* key identities
          SurfBudgets    \* presses, other key events and background events of a history

ASSUME SurfAssumption == SurfBudgets \subseteq [press : Nat, follow : Nat, event : Nat]

VARIABLES screen,        \* the overlays, top last; the focus; the search bar; overlays made so far
          claims,        \* shortcutKeys
          grip,          \* of each key held down: where its press went, and what moved the window since
          note,          \* the key event handled last, and the surface it reached
          turns          \* what may still happen

surfVars == <<screen, claims, grip, note, turns>>

Top(s) == s.over[Len(s.over)]
Nowhere == [overlay |-> -1, search |-> FALSE, focus |-> "tree"]
Turn(f) == turns[f] > 0 /\ turns' = [turns EXCEPT ![f] = @ - 1]

\* keyContext: the overlay instance, the search bar and the focus.
keyContext(s) == [overlay |-> IF s.over = <<>> THEN 0 ELSE Top(s).id, search |-> s.find, focus |-> s.focus]

\* Releases and pasted text are never actions; a repeat only where it navigates.
tuiKeyActivates(ev, pressOnly) == ev = "press" \/ (~pressOnly /\ ev = "repeat")

-----------------------------------------------------------------------------
\* The overlays.
Overlay(s, kind) == [id |-> s.made + 1, kind |-> kind, dirty |-> FALSE, confirm |-> FALSE]
SetTop(s, o) == [s EXCEPT !.over[Len(s.over)] = o]
Opened(s, o) == [s EXCEPT !.over = <<o>>, !.made = o.id]
Dismissed(s) == [s EXCEPT !.over = Front(@)]

\* A selector opened from a dialog is its field picker and returns to it.
showSelector(s) == LET o == Overlay(s, "selector")
                   IN IF s.over # <<>> /\ Top(s).kind = "dialog"
                      THEN [s EXCEPT !.over = Append(@, o), !.made = o.id] ELSE Opened(s, o)

\* What an Update returns: the window it leaves, and whether the overlay is done.
Kept(s) == [to |-> s, done |-> FALSE]
Done(s) == [to |-> s, done |-> TRUE]

cancel(s) == IF Top(s).dirty THEN Kept(SetTop(s, [Top(s) EXCEPT !.confirm = TRUE])) ELSE Done(s)

DiscardUpdate(s, ev, m) ==
    IF ~tuiKeyActivates(ev, TRUE) THEN Kept(s)
    ELSE CASE m = "confirm" -> Done(s)
           [] m = "cancel" -> Kept(SetTop(s, [Top(s) EXCEPT !.confirm = FALSE]))
           [] OTHER -> Kept(s)

updateInput(s, m) == SetTop(s, [Top(s) EXCEPT !.dirty = (m # "undo")])

\* A dialog: "refused" is a submission its fields or its callback turn down.
dialogUpdate(s, ev, m) ==
    IF Top(s).confirm THEN DiscardUpdate(s, ev, m)
    ELSE IF ev = "paste" THEN Kept(updateInput(s, "type"))
    ELSE IF ~tuiKeyActivates(ev, FALSE) THEN Kept(s)
    ELSE CASE m \in {"type", "undo"} -> Kept(updateInput(s, m))
           [] m \in {"move", "refused"} \/ ~tuiKeyActivates(ev, TRUE) -> Kept(s)
           [] m = "cancel" -> cancel(s)
           [] m = "submit" -> Done(s)
           [] m = "open" -> Kept(showSelector(s))
           [] OTHER -> Kept(s)

\* A menu's entry opens another overlay, or starts work and leaves the screen.
menuUpdate(s, ev, m) ==
    IF ~tuiKeyActivates(ev, TRUE) THEN Kept(s)
    ELSE CASE m \in {"cancel", "submit"} -> Done(s)
           [] m = "open" -> Done(Opened(s, Overlay(s, "dialog")))
           [] OTHER -> Kept(s)

\* A selector's callback stores the value in the dialog under it.
selectorUpdate(s, ev, m) ==
    IF ~tuiKeyActivates(ev, TRUE) THEN Kept(s)
    ELSE LET under == Len(s.over) - 1
         IN CASE m = "cancel" -> Done(s)
              [] m = "submit" /\ under > 0 -> Done([s EXCEPT !.over[under].dirty = TRUE])
              [] m = "submit" -> Done(s)
              [] OTHER -> Kept(s)

\* Only the overlay the event went to is dismissed, never one its handler opened.
updateOverlay(s, ev, m) ==
    LET r == CASE Top(s).kind = "dialog" -> dialogUpdate(s, ev, m)
               [] Top(s).kind = "menu" -> menuUpdate(s, ev, m)
               [] OTHER -> selectorUpdate(s, ev, m)
    IN IF r.done /\ Top(r.to).id = Top(s).id THEN Dismissed(r.to) ELSE r.to

-----------------------------------------------------------------------------
handleSearchKey(s, ev, m) == IF m = "cancel" /\ tuiKeyActivates(ev, TRUE) THEN [s EXCEPT !.find = FALSE] ELSE s

\* The manager: an action opens an overlay, the search of a shell tab, or nothing.
dispatchManagerKey(s, ev, m) ==
    IF ~tuiKeyActivates(ev, TRUE) THEN s
    ELSE CASE m = "open" -> Opened(s, Overlay(s, "dialog"))
           [] m = "submit" -> Opened(s, Overlay(s, "menu"))
           [] m = "confirm" -> showSelector(s)
           [] m = "find" -> [s EXCEPT !.find = TRUE]
           [] OTHER -> s

\* terminal.focus moves between the manager and the shell.
toggleFocus(s) == [s EXCEPT !.focus = IF @ = "terminal" THEN "tree" ELSE "terminal"]

dispatchKey(s, ev, m) ==
    IF s.over # <<>> THEN updateOverlay(s, ev, m)
    ELSE IF s.find THEN handleSearchKey(s, ev, m)
    ELSE IF ev = "paste" THEN s
    ELSE IF m = "focus" THEN IF tuiKeyActivates(ev, TRUE) THEN toggleFocus(s) ELSE s
    ELSE IF s.focus = "terminal" THEN s
    ELSE dispatchManagerKey(s, ev, m)

\* dispatchManagerAction and terminal.focus claim the keys they act on themselves.
ActsOnManager(s, m) == s.over = <<>> /\ ~s.find /\ (m = "focus" \/ (s.focus = "tree" /\ m # "move"))

\* The actions a surface knows; every other key does what "move" does.
Meanings(s) ==
    CASE s.over # <<>> /\ Top(s).kind = "dialog" -> {"type", "undo", "move", "cancel", "confirm", "submit", "refused", "open"}
      [] s.over # <<>> -> {"move", "cancel", "submit", "open"}
      [] s.find -> {"type", "cancel"}
      [] s.focus = "terminal" -> {"type", "focus"}
      [] OTHER -> {"move", "open", "submit", "confirm", "find", "focus"}

Moved(s, t) == keyContext(s) # keyContext(t)

\* A held key's later events belong to it alone until something else moves the window.
Idle == [down |-> FALSE, at |-> Nowhere, disturbed |-> FALSE]
Others(k, moved) == [j \in SurfKeys |-> IF j # k /\ moved /\ grip[j].down THEN [grip[j] EXCEPT !.disturbed = TRUE] ELSE grip[j]]

\* The key that moved the window keeps its remaining events to itself.
claimShortcutKey(k, s, t, m) == IF Moved(s, t) \/ ActsOnManager(s, m) THEN claims \cup {k} ELSE claims \ {k}

Press(k, m) ==
    LET next == dispatchKey(screen, "press", m)
    IN /\ Turn("press")
       /\ screen' = next
       /\ claims' = claimShortcutKey(k, screen, next, m)
       /\ grip' = [Others(k, Moved(screen, next)) EXCEPT ![k] = [down |-> TRUE, at |-> keyContext(screen), disturbed |-> FALSE]]
       /\ note' = [key |-> k, ev |-> "press", accepts |-> (m = "submit"), at |-> keyContext(screen)]

\* Repeats and the release of a claimed key are swallowed; the release ends the claim.
FollowUp(k, ev, m) ==
    LET held == k \in claims
        next == IF held THEN screen ELSE dispatchKey(screen, ev, m)
    IN /\ Turn("follow") /\ grip[k].down
       /\ screen' = next
       /\ claims' = IF ev = "release" THEN claims \ {k} ELSE claims
       /\ grip' = [Others(k, Moved(screen, next)) EXCEPT ![k] = IF ev = "release" THEN Idle ELSE @]
       /\ note' = [key |-> k, ev |-> ev, accepts |-> (m = "submit"), at |-> IF held THEN Nowhere ELSE keyContext(screen)]

\* One key of a bracketed paste; it is not a gesture and claims nothing.
Paste(k, m) ==
    LET next == dispatchKey(screen, "paste", m)
    IN /\ Turn("follow")
       /\ screen' = next
       /\ grip' = Others(k, Moved(screen, next))
       /\ note' = [key |-> k, ev |-> "paste", accepts |-> (m = "submit"), at |-> keyContext(screen)]
       /\ UNCHANGED claims

Elsewhere(next) ==
    /\ Turn("event") /\ next # screen
    /\ screen' = next
    /\ grip' = [j \in SurfKeys |-> IF grip[j].down THEN [grip[j] EXCEPT !.disturbed = TRUE] ELSE Idle]
    /\ note' = [note EXCEPT !.ev = "event"]
    /\ UNCHANGED claims

\* The last shell of the focused node exits: the focus and the search bar go with it.
handleTerminalClosed == screen.focus = "terminal" /\ Elsewhere([screen EXCEPT !.focus = "tree", !.find = FALSE])

\* An operation that ends opens the menu it was started for, whatever is on screen.
applyOperationResult == Elsewhere(Opened(screen, Overlay(screen, "menu")))

SurfInit == /\ turns \in SurfBudgets
            /\ screen = [over |-> <<>>, focus |-> "tree", find |-> FALSE, made |-> 0]
            /\ claims = {}
            /\ grip = [k \in SurfKeys |-> Idle]
            /\ note = [key |-> "", ev |-> "none", accepts |-> FALSE, at |-> Nowhere]

SurfNext == \/ \E k \in SurfKeys, m \in Meanings(screen) : Press(k, m) \/ FollowUp(k, "repeat", m) \/ FollowUp(k, "release", m) \/ Paste(k, m)
            \/ handleTerminalClosed \/ applyOperationResult

-----------------------------------------------------------------------------
\* The type invariant of the keyboard's surfaces: at most a dialog and its picker are stacked.
SurfTypeOK == /\ screen.focus \in {"tree", "terminal"} /\ screen.find \in BOOLEAN /\ screen.made \in Nat
              /\ Len(screen.over) <= 2 /\ claims \subseteq SurfKeys
              /\ \A i \in DOMAIN screen.over : screen.over[i].kind \in {"dialog", "menu", "selector"}

KeyStep == note' # note /\ note'.ev \in {"press", "repeat", "release", "paste"}

\* A key's repeats and release reach only the surface that took its press, unless another key
\* or a background event has moved the window in between (handleKey and its claims).
FollowUpsStay ==    KeyStep /\ note'.ev \in {"repeat", "release"} /\ note'.at # Nowhere =>
                      grip[note'.key].disturbed \/ note'.at = grip[note'.key].at

\* Pasted text never opens, closes or confirms anything and never moves the focus: it only edits.
PasteIsText ==    KeyStep /\ note'.ev = "paste" =>
                    ~Moved(screen, screen') /\ \A i \in DOMAIN screen.over : screen'.over[i].confirm = screen.over[i].confirm

\* No key throws away a dialog's edits: they leave the screen by an accepted submission or by a
\* fresh press that answers the discard question asked by an earlier one (tuiDialog.cancel).
EditsNeedConsent ==    KeyStep => \A i \in DOMAIN screen.over :
                         screen.over[i].dirty /\ (\A j \in DOMAIN screen'.over : screen'.over[j].id # screen.over[i].id)
                           => note'.ev = "press" /\ (screen.over[i].confirm \/ note'.accepts)

\* What a key opens is on the screen when the key has been handled (updateOverlay).
OpenedIsShown == screen'.made > screen.made => screen'.over # <<>> /\ Top(screen').id = screen'.made
=============================================================================

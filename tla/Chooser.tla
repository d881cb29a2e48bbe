------------------------------- MODULE Chooser -------------------------------
(***************************************************************************)
(* The command palette and the shell chooser of a window, and the shell a  *)
(* choice opens (tui_palette.go, tui_shell_chooser.go, tui_shell_attach.go *)
(* and the attach-first button of tui_node_confirmation.go).               *)
(*                                                                         *)
(* Rows change under the cursor: nodes come and go, sessions start and     *)
(* end.  A palette command is the node it goes to; a query narrows the     *)
(* palette to PaletteHits[query].  A chosen shell is found or opened by a  *)
(* call to the daemon (the list, then the open), whose reply races with    *)
(* the daemon's own created and closed events (news).                      *)
(***************************************************************************)
EXTENDS Integers, Sequences, FiniteSets, SequencesExt

CONSTANTS ChNodes, Queries, PaletteHits, ChBudgets

ASSUME ChAssumption == /\ PaletteHits \in [Queries -> SUBSET ChNodes] /\ 0 \in Queries
                       /\ ChBudgets \subseteq [see : Nat, pal : Nat, key : Nat, born : Nat, ends : Nat, save : Nat, fail : Nat]

VARIABLES listed,      \* the nodes of the list, in order
          selected,    \* the node under the fleet's cursor
          palette,     \* the open palette
          chooser,     \* the open chooser: its node and the order of its sessions
          meant,       \* ghost: the command the user last moved to, or was shown for a new query
          alive,       \* the daemon's sessions
          dead,        \* the sessions that have ended
          news,        \* the created and closed events on their way to this window
          shellTabs,        \* the tabs of this window
          raw,         \* the shell that is being opened
          saving,      \* a choice that waits for its default to be saved
          launched,    \* the sessions opened for a window or tmux pane of their own
          chances

chVars == <<listed, selected, palette, chooser, meant, alive, dead, news, shellTabs, raw, saving, launched, chances>>

NoNode == "none"
NoPalette == [open |-> FALSE, query |-> 0, shown |-> 0, index |-> 1, rows |-> <<>>]
NoChooser == [node |-> NoNode, order |-> <<>>]
NoChoice == [node |-> NoNode, id |-> 0, host |-> FALSE, fresh |-> FALSE, mode |-> "attach"]
NoRaw == [phase |-> "none", choice |-> NoChoice, id |-> 0]
Chance(f) == chances[f] > 0 /\ chances' = [chances EXCEPT ![f] = @ - 1]
Listed(n) == n \in ToSet(listed)
Mine(n) == {s \in alive : s.node = n}
IdsOf(S) == {s.id : s \in S}

-----------------------------------------------------------------------------
\* The palette.
Rows(query) == [i \in 1..Len(SelectSeq(listed, LAMBDA n : n \in PaletteHits[query])) |->
                  [node |-> SelectSeq(listed, LAMBDA n : n \in PaletteHits[query])[i], gone |-> FALSE]]
Cursor(p) == IF p.rows = <<>> THEN [node |-> NoNode, gone |-> TRUE] ELSE p.rows[p.index]

\* The rows again: the cursor stays on its command, which is kept as unavailable when it is gone.
filter(p) ==
    LET sel == IF p.query = p.shown THEN Cursor(p) ELSE [node |-> NoNode, gone |-> TRUE]
        rows == Rows(p.query)
        at == {i \in DOMAIN rows : rows[i].node = sel.node}
    IN IF sel.node = NoNode THEN [p EXCEPT !.rows = rows, !.index = 1, !.shown = p.query]
       ELSE IF at # {} THEN [p EXCEPT !.rows = rows, !.index = CHOOSE i \in at : TRUE, !.shown = p.query]
       ELSE [p EXCEPT !.rows = <<[node |-> sel.node, gone |-> TRUE]>> \o rows, !.index = 1, !.shown = p.query]

openCommandPalette == /\ Chance("pal") /\ ~palette.open /\ chooser.node = NoNode
                      /\ palette' = filter([NoPalette EXCEPT !.open = TRUE])
                      /\ meant' = Cursor(palette').node
                      /\ UNCHANGED <<listed, selected, chooser, alive, dead, news, shellTabs, raw, saving, launched>>

\* A key moves the cursor or changes the query; a pasted query is read at the next drawing.
PaletteKey == /\ Chance("pal") /\ palette.open
              /\ LET p == filter(palette) IN
                   \/ p.index > 1 /\ palette' = [p EXCEPT !.index = @ - 1]
                   \/ p.index < Len(p.rows) /\ palette' = [p EXCEPT !.index = @ + 1]
                   \/ \E q \in Queries \ {p.query} : palette' = filter([p EXCEPT !.query = q])
                   \/ \E q \in Queries \ {p.query} : palette' = [p EXCEPT !.query = q]
              /\ meant' = IF palette'.query = palette'.shown THEN Cursor(palette').node ELSE NoNode
              /\ UNCHANGED <<listed, selected, chooser, alive, dead, news, shellTabs, raw, saving, launched>>

\* A frame is drawn: the rows are read again.
PreferredSize == /\ palette.open /\ filter(palette) # palette /\ palette' = filter(palette)
                 /\ meant' = IF meant = NoNode THEN Cursor(palette').node ELSE meant
                 /\ UNCHANGED <<listed, selected, chooser, alive, dead, news, shellTabs, raw, saving, launched, chances>>

\* The command under the cursor runs when the rows, read once more, still have it.
paletteChoose == /\ palette.open
                 /\ LET p == filter(palette) IN
                      /\ p.rows # <<>> /\ ~Cursor(p).gone
                      /\ selected' = Cursor(p).node
                 /\ palette' = NoPalette /\ meant' = NoNode
                 /\ UNCHANGED <<listed, chooser, alive, dead, news, shellTabs, raw, saving, launched, chances>>

-----------------------------------------------------------------------------
\* The chooser.
\* The shells a chooser offers: one here or in another window, guest or host, or a listed session.
SessionChoice(n, s) == [node |-> n, id |-> s.id, host |-> s.host, fresh |-> FALSE, mode |-> "attach"]

\* Sessions that appear are appended and ended ones keep their row.
refreshChooser(c) ==
    LET new == SetToSortSeq({s.id : s \in {t \in Mine(c.node) : t.id \in shellTabs}} \ ToSet(c.order), <)
    IN [c EXCEPT !.order = @ \o new]

openNodeShellChooser == /\ Chance("key") /\ ~palette.open /\ chooser.node = NoNode /\ Listed(selected)
                        /\ chooser' = refreshChooser([node |-> selected, order |-> <<>>])
                        /\ UNCHANGED <<listed, selected, palette, meant, alive, dead, news, shellTabs, raw, saving, launched>>

\* Every event, and every frame, reads the rows again.
ChooserDraws == /\ chooser.node # NoNode /\ refreshChooser(chooser) # chooser /\ chooser' = refreshChooser(chooser)
                /\ UNCHANGED <<listed, selected, palette, meant, alive, dead, news, shellTabs, raw, saving, launched, chances>>

\* One shell is opened at a time, for the node that was chosen.
Openable(c) == Listed(c.node) /\ raw.phase = "none"
startShellModeForNode(c) == /\ Openable(c)
                            /\ raw' = [phase |-> "resolving", choice |-> c, id |-> 0]

runShellChoice(c, save) ==
    IF save THEN saving = NoChoice /\ Chance("save") /\ saving' = c /\ UNCHANGED raw
    ELSE startShellModeForNode(c) /\ UNCHANGED <<saving, chances>>

\* A row is chosen, by its key, its ordinal or the cursor; an ended session or a missing node is refused.
choose == LET c == refreshChooser(chooser) IN
    /\ c.node # NoNode /\ Listed(c.node) /\ raw.phase = "none"
    /\ \/ \E host \in BOOLEAN, mode \in {"attach", "window"}, save \in BOOLEAN :
            /\ host => mode = "attach" /\ ~save
            /\ runShellChoice([node |-> c.node, id |-> 0, host |-> host, fresh |-> TRUE, mode |-> mode], save)
       \/ \E i \in DOMAIN c.order : \E s \in Mine(c.node) :
            s.id = c.order[i] /\ s.id \in shellTabs /\ runShellChoice(SessionChoice(c.node, s), FALSE)
    /\ chooser' = NoChooser
    /\ UNCHANGED <<listed, selected, palette, meant, alive, dead, news, shellTabs, launched>>

closeChooser == /\ chooser.node # NoNode /\ chooser' = NoChooser
                /\ UNCHANGED <<listed, selected, palette, meant, alive, dead, news, shellTabs, raw, saving, launched, chances>>

\* Attach first: the session a stop or delete review named when it opened, or any shell of its kind.
attachFirst == /\ Chance("key") /\ chooser.node = NoNode /\ ~palette.open
               /\ \/ \E s \in alive : s.id \in shellTabs /\ startShellModeForNode(SessionChoice(s.node, s))
                  \/ startShellModeForNode([NoChoice EXCEPT !.node = selected])
               /\ UNCHANGED <<listed, selected, palette, chooser, meant, alive, dead, news, shellTabs, saving, launched>>

\* The default is saved, or the write fails, and the choice goes on for the node it was made for.
saveManagerSetting == /\ saving # NoChoice /\ saving' = NoChoice
                      /\ \/ Chance("fail") /\ UNCHANGED raw
                         \/ startShellModeForNode(saving) /\ UNCHANGED chances
                         \/ ~Openable(saving) /\ UNCHANGED <<raw, chances>>
                      /\ UNCHANGED <<listed, selected, palette, chooser, meant, alive, dead, news, shellTabs, launched>>

-----------------------------------------------------------------------------
\* The call behind an opening.
Fits(s, c) == s.node = c.node /\ (IF c.id # 0 THEN s.id = c.id ELSE ~c.fresh /\ s.host = c.host)
Next_Id == Cardinality(alive) + Cardinality(dead) + 1

\* The daemon's list answers: the session asked for, one of the kind, its end, or a need to open one.
resolveRawShell ==
    /\ raw.phase = "resolving"
    /\ LET c == raw.choice
           hits == {s \in alive : Fits(s, c)} IN
         \/ /\ hits # {} /\ \E s \in hits : raw' = [raw EXCEPT !.phase = "ready", !.id = s.id]
            /\ UNCHANGED <<alive, news, chances>>
         \/ /\ hits = {} /\ c.id # 0 /\ raw' = [raw EXCEPT !.phase = "failed"]
            /\ UNCHANGED <<alive, news, chances>>
         \/ /\ hits = {} /\ c.id = 0 /\ raw' = [raw EXCEPT !.phase = "opening"]
            /\ UNCHANGED <<alive, news, chances>>
    /\ UNCHANGED <<listed, selected, palette, chooser, meant, dead, shellTabs, saving, launched>>

\* terminal.open creates the session and tells every window.
terminalOpen == /\ raw.phase = "opening"
                /\ \/ /\ raw' = [raw EXCEPT !.phase = "ready", !.id = Next_Id]
                      /\ alive' = alive \cup {[id |-> Next_Id, node |-> raw.choice.node, host |-> raw.choice.host]}
                      /\ news' = Append(news, [what |-> "created", id |-> Next_Id]) /\ UNCHANGED chances
                   \/ Chance("fail") /\ raw' = [raw EXCEPT !.phase = "failed"] /\ UNCHANGED <<alive, news>>
                /\ UNCHANGED <<listed, selected, palette, chooser, meant, dead, shellTabs, saving, launched>>

\* The reply is applied: the tab is installed, and for an attachment the terminal is attached at once;
\* a session the daemon no longer has takes its tab away.  A session that ends under the attachment too.
finishRawShell ==
    /\ raw.phase \in {"ready", "failed"} /\ raw' = NoRaw
    /\ shellTabs' = IF raw.phase = "failed" THEN shellTabs
               ELSE IF raw.choice.mode = "attach" /\ raw.id \in dead THEN shellTabs \ {raw.id}
               ELSE shellTabs \cup {raw.id}
    /\ launched' = IF raw.phase = "ready" /\ raw.choice.mode = "window" THEN launched \cup {raw.id} ELSE launched
    /\ UNCHANGED <<listed, selected, palette, chooser, meant, alive, dead, news, saving, chances>>

-----------------------------------------------------------------------------
\* The rest of the world.
\* The event stream: a created session gets its tab, a closed one loses it.
applyDaemonNews == /\ news # <<>> /\ news' = Tail(news)
                   /\ shellTabs' = IF Head(news).what = "created" THEN shellTabs \cup {Head(news).id} ELSE shellTabs \ {Head(news).id}
                   /\ UNCHANGED <<listed, selected, palette, chooser, meant, alive, dead, raw, saving, launched, chances>>

SessionStarts == /\ Chance("born")
                 /\ \E n \in ChNodes : alive' = alive \cup {[id |-> Next_Id, node |-> n, host |-> FALSE]}
                 /\ news' = Append(news, [what |-> "created", id |-> Next_Id])
                 /\ UNCHANGED <<listed, selected, palette, chooser, meant, dead, shellTabs, raw, saving, launched>>

SessionEnds == /\ Chance("ends")
               /\ \E s \in alive : alive' = alive \ {s} /\ dead' = dead \cup {s.id}
                                   /\ news' = Append(news, [what |-> "closed", id |-> s.id])
               /\ UNCHANGED <<listed, selected, palette, chooser, meant, shellTabs, raw, saving, launched>>

\* A refresh adds or removes a node, and may move the fleet's cursor.
applyReloadedNodes == /\ Chance("see")
                      /\ \E order \in {<<>>} \cup UNION {SetToAllKPermutations(S) : S \in SUBSET ChNodes} :
                           order # listed /\ listed' = order
                      /\ selected' = IF listed' = <<>> \/ selected \in ToSet(listed') THEN selected ELSE listed'[1]
                      /\ UNCHANGED <<palette, chooser, meant, alive, dead, news, shellTabs, raw, saving, launched>>

ChInit == /\ chances \in ChBudgets
          /\ listed = SetToSeq(ChNodes) /\ selected = SetToSeq(ChNodes)[1]
          /\ palette = NoPalette /\ chooser = NoChooser /\ meant = NoNode
          /\ alive = {} /\ dead = {} /\ news = <<>> /\ shellTabs = {}
          /\ raw = NoRaw /\ saving = NoChoice /\ launched = {}

ChNext == \/ openCommandPalette \/ PaletteKey \/ PreferredSize \/ paletteChoose
          \/ openNodeShellChooser \/ ChooserDraws \/ choose \/ closeChooser \/ attachFirst \/ saveManagerSetting
          \/ resolveRawShell \/ terminalOpen \/ finishRawShell
          \/ applyDaemonNews \/ SessionStarts \/ SessionEnds \/ applyReloadedNodes

-----------------------------------------------------------------------------
\* The type invariant of the palette, the chooser and the openings.
ChTypeOK == /\ ToSet(listed) \subseteq ChNodes /\ selected \in ChNodes
            /\ palette.query \in Queries /\ palette.index \in 1..(Cardinality(ChNodes) + 1)
            /\ raw.phase \in {"none", "resolving", "opening", "ready", "failed"}
            /\ raw.phase = "ready" => raw.id \in 1..(Next_Id - 1)
            /\ IdsOf(alive) \cap dead = {} /\ shellTabs \subseteq 1..(Next_Id - 1)

\* A command that runs is the one the user last moved to or was shown for the query: a refresh of the list that
\* takes a command away never hands its row, and the key press meant for it, to another command
\* ("a disappearing result must never silently authorize its successor", tuiPalette.filter).
VanishedIsNotReplaced == palette.open /\ ~palette'.open /\ meant # NoNode => selected' = meant

\* While a chooser is open an ordinal stays with its session: rows are only appended, and an ended
\* session keeps its own ("a delayed digit never attaches another ID", tuiShellChooser.refresh).
DigitKeepsItsShell == chooser.node # NoNode /\ chooser'.node # NoNode => IsPrefix(chooser.order, chooser'.order)

\* What an opening reaches is what was chosen: a session of the chosen node and kind, and the very
\* session when one was named, whatever was selected, saved, started or ended meanwhile (resolveRawShell).
AttachesChosen ==
       raw.phase = "ready" /\ raw' = NoRaw =>
         LET c == raw.choice IN
           /\ c.id # 0 => raw.id = c.id
           /\ \A s \in alive : s.id = raw.id => s.node = c.node /\ s.host = c.host

\* An attachment leaves no tab of an ended session behind, though the close event may overtake the
\* reply of the call: such a tab is about to be closed by an event still to come, or was opened for
\* another window (finishRawShell, "a close event can overtake the asynchronous open reply").
NoGhostTab == \A t \in shellTabs \cap dead :
                \/ \E i \in DOMAIN news : news[i] = [what |-> "closed", id |-> t]
                \/ t \in launched
=============================================================================

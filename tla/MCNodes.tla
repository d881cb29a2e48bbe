------------------------------- MODULE MCNodes -------------------------------
(***************************************************************************)
(* The nodes of a home, for TLC: the commands that make, use and unmake    *)
(* them (NodeLifecycle) and what a window is told of a node's last start   *)
(* (FleetEvidence).  They share no state, so a history exercises one of    *)
(* them and finds the other at rest.                                       *)
(***************************************************************************)
EXTENDS MCNodeLifecycle, FleetEvidence

VARIABLE part  \* the component this history exercises

\* What may happen to a node and around the window: starts and stops, with a receipt or without,
\* deaths, failed calls, moves of the selection, and each kind of read.
NoStart == [ops |-> 0, directs |-> 0, deaths |-> 0, faults |-> 0, moves |-> 0, ages |-> 0,
            loads |-> 1, refreshes |-> 1, pages |-> 0]
StartHistories ==
    { [NoStart EXCEPT !.ops = 2],
      [NoStart EXCEPT !.ops = 1, !.pages = 1],
      [NoStart EXCEPT !.ops = 1, !.directs = 1],
      [NoStart EXCEPT !.directs = 1, !.deaths = 1],
      [NoStart EXCEPT !.directs = 1, !.moves = 1],
      [NoStart EXCEPT !.ops = 1, !.ages = 1, !.faults = 1] }
MCEvidenceBudgets == StartHistories \cup {NoStart}

NodesInit == /\ part \in {"commands", "evidence"} /\ Init /\ FeInit
             /\ part = "evidence" <=> feLeft # NoStart
NodesNext == /\ \/ part = "commands" /\ Next /\ UNCHANGED feVars
                \/ part = "evidence" /\ FeNext /\ UNCHANGED vars
             /\ UNCHANGED part
NodesSpec == NodesInit /\ [][NodesNext]_<<part, vars, feVars>>
=============================================================================

-------------------------- MODULE MCNodeOperations --------------------------
(* Small instances of NodeOperations for TLC.                              *)
EXTENDS NodeOperations, TLC

Request(id, kind, slug, child, start, targets) ==
  [id |-> id, kind |-> kind, slug |-> slug, child |-> child, start |-> start, targets |-> targets]
Simple(id, kind, slug) == Request(id, kind, slug, None, FALSE, NoMembers)

OwnNames == [n \in Nodes |-> n]

\* A clone that starts its copy, a create of the copy's name, and operations on
\* both; one id is sent with two different requests.
SingleRequests == {Request(<<"1">>, "clone", "x", "y", TRUE, NoMembers),
                   Request(<<"2">>, "create", "y", None, TRUE, NoMembers),
                   Simple(<<"3">>, "delete", "y"), Simple(<<"3">>, "stop", "x")}

\* Two operations on one node, for the faults of the disk and the end of the daemon.
FaultRequests == {Simple(<<"1">>, "start", "x"), Simple(<<"2">>, "delete", "x")}

OperationPlans == {[requests |-> SingleRequests, faults |-> {"service", "crash"}],
                   [requests |-> FaultRequests,
                    faults |-> {"service", "disk", "output", "shutdown", "crash", "retention"}]}

\* A batch over two nodes next to a create of a third name, which fails here.
Pair == [n \in {"x", "y"} |-> IF n = "x" THEN "start" ELSE "delete"]
BatchRequests == {Request(<<"b">>, "batch", None, None, FALSE, Pair), Simple(<<"s">>, "create", "z")}
BatchPlans == {[requests |-> BatchRequests, faults |-> {"shutdown"}]}

Symmetry == Permutations(Handlers)

=============================================================================

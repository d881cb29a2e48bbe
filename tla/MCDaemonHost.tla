---- MODULE MCDaemonHost ----
(* Small instances of DaemonHost: two tabs of one node, or of two. *)
EXTENDS DaemonHost, TLC

CONSTANTS a, b

SameNode == a :> "n" @@ b :> "n"
Symmetry == Permutations(Handlers) \cup Permutations(Daemons)
====

-------------------------- MODULE MCNodeLifecycle --------------------------
(* Small instances of NodeLifecycle for TLC.                               *)
EXTENDS NodeLifecycle, TLC

\* Processes, ids and names are interchangeable.
Symmetry == Permutations(Procs) \cup Permutations(Ids) \cup Permutations(Names)

=============================================================================

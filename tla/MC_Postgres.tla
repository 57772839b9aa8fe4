---------------------------- MODULE MC_Postgres ----------------------------
(* Processes, calls and values are interchangeable.                         *)
EXTENDS PostgresStore, TLC

Symmetry == Permutations(Procs) \cup Permutations(Calls) \cup Permutations(Values)
=============================================================================

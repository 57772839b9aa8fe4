------------------------------ MODULE MC_Create ------------------------------
(* Pages and briefs are interchangeable.                                     *)
EXTENDS CreateFlow, TLC

Symmetry == Permutations(Pages) \cup Permutations(Briefs)
=============================================================================

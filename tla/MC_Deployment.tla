--------------------------- MODULE MC_Deployment ---------------------------
(* The keys are interchangeable.                                            *)
EXTENDS Deployment, TLC

Symmetry == Permutations(Keys)
=============================================================================

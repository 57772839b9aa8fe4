----------------------------- MODULE MC_Watcher -----------------------------
(* Blocks with at most one delivery.                                        *)
EXTENDS Watcher, TLC

MC_Contents == {{}} \cup {{j} : j \in Jobs}
MC_Symmetry == Permutations(Ticks)
=============================================================================

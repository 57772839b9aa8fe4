---------------------------- MODULE MC_FileStore ----------------------------
(* Slots of one kind are alike.                                             *)
EXTENDS FileStore, TLC

MC_Symmetry == Permutations(Writers) \cup Permutations(Readers) \cup Permutations(Keys)
=============================================================================

----------------------------- MODULE MC_JobPages -----------------------------
(* MoneyLeaves is a liveness property, so no symmetry is declared.           *)
EXTENDS JobPages

=============================================================================

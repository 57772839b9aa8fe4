------------------------------ MODULE MC_Escrow ------------------------------
(* Instances of AgentWorkEscrow for TLC: see escrow_one.cfg, escrow_two.cfg. *)
EXTENDS AgentWorkEscrow
=============================================================================

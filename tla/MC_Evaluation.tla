---------------------------- MODULE MC_Evaluation ----------------------------
(* A good delivery, of which the model changes its mind, and a bad one that  *)
(* would talk it into GO but is refused by screening.                        *)
EXTENDS EvaluationService, TLC

CONSTANTS good, bad

MC_Judgements == [d \in Deliveries |-> IF d = good THEN {"GO", "NO_GO"} ELSE {"GO"}]
MC_Symmetry == Permutations(Calls)
=============================================================================

--------------------------- MODULE EscrowPromise ---------------------------
(***************************************************************************)
(* What the escrow promises its users, one committed transaction at a      *)
(* time, with nothing said of signatures, clocks, calls or re-entrancy:    *)
(*                                                                         *)
(*   - a job's terms are fixed when it is funded;                          *)
(*   - its delivery is fixed once a verdict has been applied;              *)
(*   - its money leaves once, in full, to the buyer or the provider, and   *)
(*     only along funded -> reclaimed or delivered [-> held] -> paid;      *)
(*   - one transaction closes at most one job.                             *)
(*                                                                         *)
(* A transaction may take several jobs forward at once: the payee of a     *)
(* closing job can create jobs and submit deliveries while it is paid.     *)
(***************************************************************************)
EXTENDS Integers

CONSTANTS
    JobId,
    Accounts

VARIABLES
    phase,     \* phase[j] \in Phase
    terms,     \* terms[j]: buyer, provider, amount, brief and deadline
    delivery,  \* delivery[j]: the hash under judgement
    paid       \* paid[j][a]: what the job has paid to account a

promiseVars == <<phase, terms, delivery, paid>>

Phase == {"none", "funded", "delivered", "held", "released", "refunded", "reclaimed"}

Init ==
    /\ phase = [j \in JobId |-> "none"]
    /\ paid = [j \in JobId |-> [a \in Accounts |-> 0]]

\* Where a job may be after a transaction that moves none of its money.
Ahead(p) ==
    CASE p = "none"      -> {"none", "funded", "delivered"}
      [] p = "funded"    -> {"funded", "delivered"}
      [] p = "delivered" -> {"delivered", "held"}
      [] OTHER           -> {p}

Progress(j) ==
    /\ phase'[j] \in Ahead(phase[j])
    /\ phase[j] # "none" => terms'[j] = terms[j]
    /\ phase'[j] \notin {"none", "funded", "delivered"} => delivery'[j] = delivery[j]
    /\ paid'[j] = paid[j]

PayInFull(j, a) == paid'[j] = [paid[j] EXCEPT ![a] = terms[j].amount]

Close(j) ==
    /\ terms'[j] = terms[j]
    /\ delivery'[j] = delivery[j]
    /\ \/ phase[j] = "funded" /\ phase'[j] = "reclaimed" /\ PayInFull(j, terms[j].buyer)
       \/ /\ phase[j] \in {"delivered", "held"}
          /\ \/ phase'[j] = "released" /\ PayInFull(j, terms[j].provider)
             \/ phase'[j] = "refunded" /\ PayInFull(j, terms[j].buyer)

Transaction(closing) ==
    \A j \in JobId : IF j \in closing THEN Close(j) ELSE Progress(j)

Next == \E closing \in {{}} \cup {{j} : j \in JobId} : Transaction(closing)

Spec == Init /\ [][Next]_promiseVars

=============================================================================

----------------------------- MODULE EscrowJob -----------------------------
(***************************************************************************)
(* One job of the escrow as everybody but the contract sees it: getJob and *)
(* the events, between committed transactions.  The server and the pages   *)
(* take a job to be this, whatever else the contract is doing.             *)
(*                                                                         *)
(* A transaction that pays another job may, in its payee's hands, create   *)
(* this one and deliver it: hence Deliver from nothing.                    *)
(***************************************************************************)
CONSTANTS
    Hashes,     \* of deliveries
    NoHash,
    Verdicts,
    NoVerdict,
    Hold        \* the verdict that leaves the money where it is

VARIABLES
    status,
    verdict,
    deliveryHash

jobVars == <<status, verdict, deliveryHash>>

Init ==
    /\ status \in {"None", "Funded"}
    /\ verdict = NoVerdict
    /\ deliveryHash = NoHash

Create ==
    /\ status = "None" /\ status' = "Funded"
    /\ UNCHANGED <<verdict, deliveryHash>>

Deliver(d) ==
    /\ status \in {"None", "Funded", "Delivered"} /\ verdict = NoVerdict
    /\ status' = "Delivered" /\ deliveryHash' = d
    /\ UNCHANGED verdict

Settle(v) ==
    /\ status = "Delivered" /\ verdict = NoVerdict
    /\ verdict' = v
    /\ status' = IF v = Hold THEN "Delivered" ELSE "Settled"
    /\ UNCHANGED deliveryHash

Resolve ==
    /\ status = "Delivered" /\ verdict = Hold /\ status' = "Settled"
    /\ UNCHANGED <<verdict, deliveryHash>>

Cancel ==
    /\ status = "Funded" /\ status' = "Cancelled"
    /\ UNCHANGED <<verdict, deliveryHash>>

Next ==
    \/ Create
    \/ \E d \in Hashes : Deliver(d)
    \/ \E v \in Verdicts : Settle(v)
    \/ Resolve
    \/ Cancel

Spec == Init /\ [][Next]_jobVars

=============================================================================

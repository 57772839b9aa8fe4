------------------------------ MODULE JobPages ------------------------------
(***************************************************************************)
(* One funded job from its deliver form (deliver-form.tsx) and its outcome *)
(* pages (job-outcome.tsx, settle-actions.tsx) to the chain and the server *)
(* and back: what the pages offer on polled data, what becomes of it in    *)
(* the wallet, on the chain and in the handlers, and whether the money     *)
(* ever leaves the escrow.                                                 *)
(*                                                                         *)
(* A page acts on the answer of its last poll, however old.  A call runs   *)
(* through the wallet and waits for its receipt; each of these fails, and  *)
(* a transaction whose page gave up on it may still be mined.  The clock   *)
(* stands for block.timestamp and Date.now() alike.                        *)
(*                                                                         *)
(* Abstracted: wallets are connected to the right chain; the brief is      *)
(* stored (CreateFlow); a text is identified with its keccak256, passes    *)
(* the length limits and is typed when it is submitted; the signature for  *)
(* the upload is given with it; the handlers of requests and evaluateJob   *)
(* are one step each (EvaluationService takes them apart); error messages. *)
(***************************************************************************)
EXTENDS Integers, FiniteSets

CONSTANTS
    DeliverPages,   \* the provider's open deliver forms
    OutcomePages,   \* open outcome pages
    BuyerPages,     \* those of them with the buyer's wallet
    Texts,          \* deliveries (and their hashes)
    None,           \* null
    Deadline,       \* the job's deliverBy
    MaxTime,        \* bound: the last time explored
    MaxPending,     \* bound: the transactions in the air at once
    MaxFailures     \* bound: the failures explored

Pages == DeliverPages \cup OutcomePages

ASSUME PageAssumption ==
    BuyerPages \subseteq OutcomePages /\ DeliverPages \cap OutcomePages = {}
ASSUME NoneAssumption == None \notin Texts \cup Pages \cup {"success", "reverted"}
ASSUME BoundAssumption ==
    /\ Deadline \in Nat /\ MaxTime \in Nat
    /\ MaxPending \in Nat /\ MaxFailures \in Nat

VARIABLES
    now,          \* the clock
    chain,        \* the job in the escrow: status, verdict, deliveryHash
    pending,      \* transactions sent and not yet mined; page None: given up on
    delivery,     \* the text in the job's record
    evaluation,   \* the stored evaluation: deliveryHash, verdict
    view,         \* per outcome page: the answer of its last poll
    shown,        \* per deliver page: whether it shows the form
    step, call, receipt, \* per page: the call it is making
    failures      \* how many failures there have been

store == <<delivery, evaluation>>
poll == <<view, shown>>
run == <<step, call, receipt>>
vars == <<now, chain, pending, store, poll, run, failures>>

Verdict == {"CAUTION", "final"}  \* GO and NO_GO both end the job
Step == {"idle", "fetching", "wallet", "confirming", "refreshing",
         "uploading", "done"}
Kind == {"deliver", "settle", "release", "refund", "cancel"}

Status == {"Funded", "Delivered", "Settled", "Cancelled"}

Job == [status : Status, verdict : Verdict \cup {None}, deliveryHash : Texts \cup {None}]
\* What a page makes of a job, and of the evaluation: whether there is one.
Shown == [status : Status, verdict : Verdict \cup {None}]
Finding == [deliveryHash : Texts \cup {None}, verdict : Verdict \cup {None}]

NoFinding == [deliveryHash |-> None, verdict |-> None]
NoJob == [status |-> None, verdict |-> None]
NoCall == [kind |-> None, arg |-> NoFinding]
NoView == [job |-> NoJob, evaluated |-> FALSE]

Init ==
    /\ now = 0
    /\ chain = [status |-> "Funded", verdict |-> None, deliveryHash |-> None]
    /\ pending = {}
    /\ delivery = None
    /\ evaluation = NoFinding
    /\ view = [p \in OutcomePages |-> NoView]
    /\ shown = [p \in DeliverPages |-> FALSE]
    /\ step = [p \in Pages |-> "idle"]
    /\ call = [p \in Pages |-> NoCall]
    /\ receipt = [p \in Pages |-> None]
    /\ failures = 0

-----------------------------------------------------------------------------
(* Faulty variants, used by the mutants of PROJECT.json only.              *)

\* cancellable without its look at the deadline.
ExpiredAlways == TRUE

\* The form done whatever the upload's response.
AnyAnswerIsDone(accepted) == "done"

\* GET without its inline evaluation.
NeverHeals == FALSE

\* A call given up on whose receipt still comes back to the page.
KeepsListening(p) ==
    /\ step' = [step EXCEPT ![p] = "idle"]
    /\ call' = [call EXCEPT ![p] = NoCall]
    /\ receipt' = [receipt EXCEPT ![p] = None]
    /\ UNCHANGED <<now, chain, pending>>

-----------------------------------------------------------------------------
(* The job in the escrow.                                                  *)

Awaits(job) == job.status = "Delivered" /\ job.verdict = None
CautionOpen(job) == job.status = "Delivered" /\ job.verdict = "CAUTION"
Closed == chain.status \in {"Settled", "Cancelled"}

Deliverable ==
    /\ chain.status \in {"Funded", "Delivered"} /\ chain.verdict = None
    /\ now <= Deadline

\* The negated reverts of submitDelivery, settle, resolveCaution, cancelExpired.
Accepts(c, a) ==
    CASE c = "deliver" -> Deliverable
      [] c = "settle" -> Awaits(chain) /\ a.deliveryHash = chain.deliveryHash
      [] c \in {"release", "refund"} -> CautionOpen(chain)
      [] c = "cancel" -> chain.status = "Funded" /\ now > Deadline

\* What they do to the job.
After(c, a) ==
    CASE c = "deliver" -> [chain EXCEPT !.status = "Delivered",
                                        !.deliveryHash = a.deliveryHash]
      [] c = "settle" -> [chain EXCEPT !.verdict = a.verdict,
            !.status = IF a.verdict = "CAUTION" THEN "Delivered" ELSE "Settled"]
      [] c \in {"release", "refund"} -> [chain EXCEPT !.status = "Settled"]
      [] c = "cancel" -> [chain EXCEPT !.status = "Cancelled"]

Tick ==
    /\ now < MaxTime
    /\ now' = now + 1
    /\ UNCHANGED <<chain, pending, store, poll, run, failures>>

\* The receipt goes to the page that still waits for it.
Receipt(tx, outcome) ==
    receipt' = [p \in Pages |-> IF p = tx.page THEN outcome ELSE receipt[p]]

Mined(tx) ==
    /\ \/ /\ Accepts(tx.kind, tx.arg)
          /\ chain' = After(tx.kind, tx.arg)
          /\ Receipt(tx, "success")
       \/ /\ ~Accepts(tx.kind, tx.arg)
          /\ Receipt(tx, "reverted")
          /\ UNCHANGED chain
    /\ pending' = pending \ {tx}
    /\ UNCHANGED <<now, store, poll, step, call>>

\* It reverts where it would have gone through, as with a decision that expired
\* meanwhile; or the sender cancelled it in the wallet, and the receipt that
\* arrives, a success, is that of the empty transaction in its place.
NotMined(tx) ==
    /\ \E outcome \in {"reverted", "success"} : Receipt(tx, outcome)
    /\ pending' = pending \ {tx}
    /\ UNCHANGED <<now, chain, store, poll, step, call>>

\* The provider calls submitDelivery without this application.
DeliverElsewhere(d) ==
    LET a == [deliveryHash |-> d, verdict |-> None] IN
    /\ Accepts("deliver", a)
    /\ chain' = After("deliver", a)
    /\ UNCHANGED <<now, pending, store, poll, run, failures>>

Goes(p, from, to) == step[p] = from /\ step' = [step EXCEPT ![p] = to]

-----------------------------------------------------------------------------
(* The server: evaluations and the poll, GET /api/jobs/:jobId.             *)

\* What evaluateJob needs to reach a verdict.
Evaluable == Awaits(chain) /\ delivery = chain.deliveryHash

Evaluated(v) == evaluation' = [deliveryHash |-> delivery, verdict |-> v]

\* In the background, after an upload or from a sweep.
Evaluate ==
    /\ Evaluable
    /\ \E v \in Verdict : Evaluated(v)
    /\ UNCHANGED <<now, chain, pending, delivery, poll, run, failures>>

ShownJob == [status |-> chain.status, verdict |-> chain.verdict]

\* The answer arrives; if run() awaits it at its end, the call is over.
Answered(p, e) ==
    /\ view' = [view EXCEPT ![p] = [job |-> ShownJob, evaluated |-> e # NoFinding]]
    /\ step' = [step EXCEPT ![p] = IF @ = "refreshing" THEN "idle" ELSE @]
    /\ UNCHANGED <<now, chain, pending, delivery, shown, call, receipt>>

\* Nothing is stored for a job that was delivered and awaits its verdict.
Heals == evaluation = NoFinding /\ Evaluable

Poll(p) ==
    /\ \/ Heals /\ \E v \in Verdict : Evaluated(v)
       \/ ~Heals /\ UNCHANGED evaluation
    /\ Answered(p, evaluation')

\* The inline evaluation throws; the read does not fail for it.
PollHealsNot(p) ==
    /\ Heals
    /\ UNCHANGED evaluation
    /\ Answered(p, NoFinding)

PollFails(p) ==
    /\ Goes(p, "refreshing", "idle")
    /\ UNCHANGED <<now, chain, pending, store, poll, call, receipt>>

-----------------------------------------------------------------------------
(* A call on its way through wallet and chain, for every page.             *)

WalletSends(p) ==
    /\ Goes(p, "wallet", "confirming")
    /\ Cardinality(pending) < MaxPending
    /\ pending' = pending \cup {[page |-> p, kind |-> call[p].kind, arg |-> call[p].arg]}
    /\ UNCHANGED <<now, chain, store, poll, call, receipt>>

\* The page is back where it started; what it sent goes on without it.
LetsGo(p) ==
    /\ step' = [step EXCEPT ![p] = "idle"]
    /\ call' = [call EXCEPT ![p] = NoCall]
    /\ receipt' = [receipt EXCEPT ![p] = None]
    /\ pending' = {[tx EXCEPT !.page = IF @ = p THEN None ELSE @] : tx \in pending}
    /\ UNCHANGED <<now, chain>>

\* The catch of submit() and of run(): the wallet declines, fetch or
\* waitForTransactionReceipt throws.
CallFails(p) ==
    /\ step[p] \in {"fetching", "wallet", "confirming", "uploading"}
    /\ LetsGo(p)
    /\ UNCHANGED <<store, poll>>

ReceiptReverted(p) ==
    /\ step[p] = "confirming" /\ receipt[p] = "reverted"
    /\ LetsGo(p)
    /\ UNCHANGED <<store, poll>>

\* The page closed and opened again.
Reload(p) ==
    /\ LetsGo(p)
    /\ view' = [q \in OutcomePages |-> IF q = p THEN NoView ELSE view[q]]
    /\ shown' = [q \in DeliverPages |-> IF q = p THEN FALSE ELSE shown[q]]
    /\ UNCHANGED store

-----------------------------------------------------------------------------
(* The deliver form.                                                       *)

\* Its poll: it looks at the job only.
SeesStatus(p) ==
    /\ shown' = [shown EXCEPT ![p] = chain.status = "Funded"]
    /\ UNCHANGED <<now, chain, pending, store, view, run>>

\* isExpired of lib/format.ts.
Expired == Deadline <= now

CanSubmit(p) ==
    /\ shown[p] /\ ~Expired
    /\ step[p] = "idle"

Submit(p, d) ==
    /\ CanSubmit(p)
    /\ step' = [step EXCEPT ![p] = "wallet"]
    /\ call' = [call EXCEPT ![p] = [kind |-> "deliver",
                   arg |-> [deliveryHash |-> d, verdict |-> None]]]
    /\ UNCHANGED <<now, chain, pending, store, poll, receipt>>

DeliveryConfirmed(p) ==
    /\ Goes(p, "confirming", "uploading")
    /\ receipt[p] = "success"
    /\ receipt' = [receipt EXCEPT ![p] = None]
    /\ UNCHANGED <<now, chain, pending, store, poll, call>>

\* The checks of POST /api/jobs/:jobId/delivery.
UploadFits(d) == Awaits(chain) /\ d = chain.deliveryHash

Typed(p) == call[p].arg.deliveryHash

Keeps(d) == delivery' = IF UploadFits(d) THEN d ELSE delivery

AfterUpload(accepted) == IF accepted THEN "done" ELSE "idle"

Uploads(p) ==
    /\ Goes(p, "uploading", AfterUpload(UploadFits(Typed(p))))
    /\ Keeps(Typed(p))
    /\ call' = [call EXCEPT ![p] = NoCall]
    /\ UNCHANGED <<now, chain, pending, evaluation, poll, receipt>>

\* The text arrives, the answer does not.
UploadAnswerLost(p) ==
    /\ step[p] = "uploading"
    /\ Keeps(Typed(p))
    /\ LetsGo(p)
    /\ UNCHANGED <<evaluation, poll>>

\* Any client of the API that has the provider's signature.
UploadElsewhere(d) ==
    /\ UploadFits(d)
    /\ Keeps(d)
    /\ UNCHANGED <<now, chain, pending, evaluation, poll, run, failures>>

-----------------------------------------------------------------------------
(* The outcome page: SettleActions.                                        *)

AwaitingSettlement(p) == Awaits(view[p].job) /\ view[p].evaluated

Cancellable(p) == view[p].job.status = "Funded" /\ Expired

\* The buttons shown.
Offers(p) ==
    {c \in Kind :
        \/ c = "settle" /\ AwaitingSettlement(p)
        \/ c \in {"release", "refund"} /\ CautionOpen(view[p].job) /\ p \in BuyerPages
        \/ c = "cancel" /\ Cancellable(p) /\ p \in BuyerPages}

Press(p, c) ==
    /\ c \in Offers(p)
    /\ Goes(p, "idle", IF c = "settle" THEN "fetching" ELSE "wallet")
    /\ call' = [call EXCEPT ![p].kind = c]
    /\ UNCHANGED <<now, chain, pending, store, poll, receipt>>

\* What POST /api/jobs/:jobId/decision signs.
Signable == Awaits(chain) /\ evaluation.deliveryHash = chain.deliveryHash

DecisionFetched(p) ==
    /\ Signable
    /\ Goes(p, "fetching", "wallet")
    /\ call' = [call EXCEPT ![p].arg = evaluation]
    /\ UNCHANGED <<now, chain, pending, store, poll, receipt>>

DecisionRefused(p) ==
    /\ ~Signable
    /\ Goes(p, "fetching", "idle")
    /\ call' = [call EXCEPT ![p] = NoCall]
    /\ UNCHANGED <<now, chain, pending, store, poll, receipt>>

\* The page polls at once and waits for the answer.
CallConfirmed(p) ==
    /\ Goes(p, "confirming", "refreshing")
    /\ receipt[p] = "success"
    /\ receipt' = [receipt EXCEPT ![p] = None]
    /\ call' = [call EXCEPT ![p] = NoCall]
    /\ UNCHANGED <<now, chain, pending, store, poll>>

-----------------------------------------------------------------------------
DeliverStep(p) ==
    \/ SeesStatus(p)
    \/ \E d \in Texts : Submit(p, d)
    \/ DeliveryConfirmed(p) \/ ReceiptReverted(p) \/ Uploads(p)

Presses(p) == \E c \in Kind : Press(p, c)

DecisionAnswered(p) == DecisionFetched(p) \/ DecisionRefused(p)

ReceiptArrives(p) == CallConfirmed(p) \/ ReceiptReverted(p)

OutcomeStep(p) == Poll(p) \/ Presses(p) \/ DecisionAnswered(p) \/ ReceiptArrives(p)

AnyMined == \E tx \in pending : Mined(tx)

Failure ==
    \/ \E p \in OutcomePages : PollHealsNot(p) \/ PollFails(p)
    \/ \E p \in DeliverPages : UploadAnswerLost(p)
    \/ \E p \in Pages : CallFails(p) \/ Reload(p)
    \/ \E tx \in pending : NotMined(tx)

Progress ==
    \/ Tick \/ Evaluate
    \/ AnyMined
    \/ \E d \in Texts : DeliverElsewhere(d) \/ UploadElsewhere(d)
    \/ \E p \in Pages : WalletSends(p)
    \/ \E p \in DeliverPages : DeliverStep(p)
    \/ \E p \in OutcomePages : OutcomeStep(p)

Next ==
    \/ Progress /\ UNCHANGED failures
    \/ failures < MaxFailures /\ failures' = failures + 1 /\ Failure

\* Open outcome pages poll, their users press what is offered and confirm it,
\* and transactions are mined.  Nobody owes a delivery, an upload, or an
\* evaluation in the background, which dies with the process.
Fairness ==
    /\ WF_vars(Tick /\ UNCHANGED failures)
    /\ WF_vars(AnyMined /\ UNCHANGED failures)
    /\ \A p \in OutcomePages :
          /\ WF_vars(Poll(p) /\ UNCHANGED failures)
          /\ WF_vars(Presses(p) /\ UNCHANGED failures)
          /\ WF_vars(DecisionAnswered(p) /\ UNCHANGED failures)
          /\ WF_vars(WalletSends(p) /\ UNCHANGED failures)
          /\ WF_vars(ReceiptArrives(p) /\ UNCHANGED failures)

Spec == Init /\ [][Next]_vars /\ Fairness

\* The job as the contract shows it.
Contract == INSTANCE EscrowJob WITH
    Hashes <- Texts, NoHash <- None,
    Verdicts <- Verdict, NoVerdict <- None, Hold <- "CAUTION",
    status <- chain.status, verdict <- chain.verdict, deliveryHash <- chain.deliveryHash

-----------------------------------------------------------------------------
(* Properties.                                                             *)

\* Types; only a page that waits has a receipt coming.
TypeOK ==
    /\ now \in 0..MaxTime
    /\ chain \in Job
    /\ pending \subseteq [page : Pages \cup {None}, kind : Kind, arg : Finding]
    /\ \A tx \in pending : tx.page # None =>
          step[tx.page] = "confirming" /\ receipt[tx.page] = None
    /\ delivery \in Texts \cup {None}
    /\ evaluation \in Finding
    /\ view \in [OutcomePages -> [job : Shown \cup {NoJob}, evaluated : BOOLEAN]]
    /\ shown \in [DeliverPages -> BOOLEAN]
    /\ step \in [Pages -> Step]
    /\ call \in [Pages -> [kind : Kind \cup {None}, arg : Finding]]
    /\ receipt \in [Pages -> {"success", "reverted", None}]
    /\ failures \in 0..MaxFailures

\* A provider whose form got to its end has delivered for good: the buyer can
\* no longer reclaim the money as undelivered, and the server has a text to
\* judge.
DoneIsSafe ==
    \A p \in DeliverPages : step[p] = "done" =>
        chain.status \in {"Delivered", "Settled"} /\ delivery # None

\* A page that is up to date offers what the escrow accepts and nothing else,
\* two cases excepted: at the very second of the deadline Cancel is offered one
\* second early, and a decision about an earlier delivery is offered though
\* the server will not sign it.
OffersFitContract ==
    \A p \in OutcomePages :
        view[p] = [job |-> ShownJob, evaluated |-> evaluation # NoFinding] =>
            /\ \A c \in Offers(p) :
                  \/ Accepts(c, evaluation)
                  \/ c = "cancel" /\ now = Deadline
                  \/ c = "settle" /\ evaluation.deliveryHash # chain.deliveryHash
            /\ Accepts("settle", evaluation) => "settle" \in Offers(p)
            /\ p \in BuyerPages =>
                  \A c \in {"release", "refund", "cancel"} :
                     Accepts(c, evaluation) => c \in Offers(p)

NoText == Awaits(chain) /\ delivery # chain.deliveryHash
OldVerdict == Awaits(chain) /\ evaluation # NoFinding
                /\ evaluation.deliveryHash # chain.deliveryHash

\* Once failures stop, the money leaves the escrow, with but two exceptions:
\* the text behind the committed hash never reached the server, and a verdict on
\* an earlier delivery keeps GET from evaluating the present one.
MoneyLeaves == <>Closed \/ <>[]NoText \/ <>[]OldVerdict

=============================================================================

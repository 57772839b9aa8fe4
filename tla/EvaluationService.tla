------------------------- MODULE EvaluationService -------------------------
(***************************************************************************)
(* The web server's handlers around one job: POST /api/jobs, POST          *)
(* .../delivery, GET /api/jobs/:id, POST .../evaluate and the other        *)
(* callers of evaluateJob (cron sweep, webhook), POST .../decision.        *)
(*                                                                         *)
(* Handlers run concurrently and nothing locks a job: each await is a step *)
(* of its own, between which the chain, the store and the other handlers   *)
(* move.  A call remembers what it has read and acts on it later.  It may  *)
(* also end at any await: the RPC node does not answer (readJob returns    *)
(* null), the store throws, the host kills the function.                   *)
(*                                                                         *)
(* Abstracted: a content is identified with its keccak256; the brief is    *)
(* pinned by its hash, so only its being stored is kept; scores, reasons   *)
(* and evidence; expiry of signatures (they stay usable: more behaviours); *)
(* rate limits and input validation.                                       *)
(***************************************************************************)
EXTENDS Integers

CONSTANTS
    Calls,        \* requests in flight, one slot each
    Deliveries,   \* contents (and hashes) the provider may deliver
    Titles,       \* titles a POST /api/jobs may carry
    None,         \* null
    Refused,      \* deliveries the verifier refunds without asking the model
    Judgements,   \* Judgements[d]: the verdicts on d that answers of the model lead to
    Forcing,      \* the values of force the evaluate route is called with
    KeepsColumns  \* putJob leaves the delivery column alone (Postgres) or
                  \* replaces the whole record (FileStore)

Verdict == {"GO", "CAUTION", "NO_GO"}

ASSUME ContentAssumption ==
    /\ None \notin Deliveries \cup Titles \cup Verdict
    /\ Refused \subseteq Deliveries
    /\ Judgements \in [Deliveries -> SUBSET Verdict]
    /\ Forcing \subseteq BOOLEAN
    /\ KeepsColumns \in BOOLEAN

VARIABLES
    chain,       \* the job in the escrow: status, verdict, deliveryHash
    record,      \* the JobRecord: title (None while not stored) and delivery
    evaluation,  \* the EvaluationRecord: deliveryHash (None while not stored), verdict
    calls,       \* calls[c]: where the call is and what it has read
    concluded,   \* history: [deliveryHash, verdict] that verifyDelivery has reached
    signatures   \* the decisions that POST .../decision has handed out

vars == <<chain, record, evaluation, calls, concluded, signatures>>

Finding == [deliveryHash : Deliveries, verdict : Verdict]

NoRecord == [title |-> None, delivery |-> None]
NoEvaluation == [deliveryHash |-> None, verdict |-> None]

Idle == [step |-> "idle", force |-> FALSE, title |-> None, text |-> None,
         seen |-> None, evaluation |-> NoEvaluation]

Init ==
    /\ chain = [status |-> "Funded", verdict |-> None, deliveryHash |-> None]
    /\ record = NoRecord
    /\ evaluation = NoEvaluation
    /\ calls = [c \in Calls |-> Idle]
    /\ concluded = {}
    /\ signatures = {}

-----------------------------------------------------------------------------
(* Faulty variants, used by the mutants of PROJECT.json only.              *)

\* evaluateJob without assertHashesMatch.
HashesUnchecked(text, seen) == TRUE

\* The decision route without its delivery hash comparison.
AnyDelivery(e, seen) == e.deliveryHash # None

\* putJob replacing the record whatever the store.
WholeRecord(title) == [title |-> title, delivery |-> None]

\* verifyDelivery without its deterministic screening.
Unscreened(d) == Judgements[d] \cup {"CAUTION"}

\* updateJob inserting the row it does not find.
Upserts == TRUE

-----------------------------------------------------------------------------
(* The job in the escrow, as AgentWorkEscrow.sol moves it.                 *)

AwaitsVerdict == chain.status = "Delivered" /\ chain.verdict = None

SubmitDelivery(d) ==
    /\ chain.status \in {"Funded", "Delivered"}
    /\ chain.verdict = None
    /\ chain' = [chain EXCEPT !.status = "Delivered", !.deliveryHash = d]
    /\ UNCHANGED <<record, evaluation, calls, concluded, signatures>>

\* Anyone settles with a decision that the route has handed out.
Settle(s) ==
    /\ AwaitsVerdict
    /\ s.deliveryHash = chain.deliveryHash
    /\ chain' = [chain EXCEPT !.verdict = s.verdict,
                   !.status = IF s.verdict = "CAUTION" THEN "Delivered" ELSE "Settled"]
    /\ UNCHANGED <<record, evaluation, calls, concluded, signatures>>

ResolveCaution ==
    /\ chain.status = "Delivered" /\ chain.verdict = "CAUTION"
    /\ chain' = [chain EXCEPT !.status = "Settled"]
    /\ UNCHANGED <<record, evaluation, calls, concluded, signatures>>

CancelExpired ==
    /\ chain.status = "Funded"
    /\ chain' = [chain EXCEPT !.status = "Cancelled"]
    /\ UNCHANGED <<record, evaluation, calls, concluded, signatures>>

-----------------------------------------------------------------------------
(* Calls.                                                                  *)

At(c, step) == calls[c].step = step

Begin(c, call) ==
    /\ At(c, "idle")
    /\ calls' = [calls EXCEPT ![c] = call]
    /\ UNCHANGED <<chain, record, evaluation, concluded, signatures>>

BriefStored == record # NoRecord

\* A step that only reads: c moves on with what it has learnt.
Reads(c, call) ==
    /\ calls' = [calls EXCEPT ![c] = call]
    /\ UNCHANGED <<chain, record, evaluation, concluded, signatures>>

End(c) == calls' = [calls EXCEPT ![c] = Idle]

\* An error, a null from readJob, or the host killing the function.
Abort(c) ==
    /\ ~At(c, "idle")
    /\ End(c)
    /\ UNCHANGED <<chain, record, evaluation, concluded, signatures>>

\* readJob, by a handler that ends there unless the job awaits a verdict and
\* is the one it wants.
ReadsJob(c, step, wanted, next) ==
    /\ At(c, step)
    /\ Reads(c, IF AwaitsVerdict /\ wanted
                THEN [calls[c] EXCEPT !.step = next, !.seen = chain.deliveryHash]
                ELSE Idle)

-----------------------------------------------------------------------------
(* POST /api/jobs: store the brief and its title.                          *)

PostJob(c, title) ==
    Begin(c, [Idle EXCEPT !.step = "brief.read", !.title = title])

\* The brief matches the hash on chain: a brief that does not is refused.
PostJobReads(c) ==
    At(c, "brief.read") /\ Reads(c, [calls[c] EXCEPT !.step = "brief.look"])

\* First writer wins: the handler goes on only if nothing is stored.
PostJobLooks(c) ==
    /\ At(c, "brief.look")
    /\ Reads(c, IF BriefStored THEN Idle ELSE [calls[c] EXCEPT !.step = "brief.put"])

PutJob(title) ==
    [title |-> title, delivery |-> IF KeepsColumns THEN record.delivery ELSE None]

PostJobStores(c) ==
    /\ At(c, "brief.put")
    /\ record' = PutJob(calls[c].title)
    /\ End(c)
    /\ UNCHANGED <<chain, evaluation, concluded, signatures>>

-----------------------------------------------------------------------------
(* POST /api/jobs/:id/delivery: the provider uploads the text.             *)

Upload(c, d) ==
    Begin(c, [Idle EXCEPT !.step = "upload.read", !.text = d])

\* The text must hash to what is on chain.
UploadReads(c) ==
    ReadsJob(c, "upload.read", calls[c].text = chain.deliveryHash, "upload.look")

UploadLooks(c) ==
    /\ At(c, "upload.look")
    /\ Reads(c, IF BriefStored THEN [calls[c] EXCEPT !.step = "upload.update"] ELSE Idle)

\* The response is sent and the call lives on as a forced evaluation.
UploadStores(c) ==
    /\ At(c, "upload.update")
    /\ record' = [record EXCEPT !.delivery = calls[c].text]
    /\ calls' = [calls EXCEPT ![c] = [Idle EXCEPT !.step = "eval.read", !.force = TRUE]]
    /\ UNCHANGED <<chain, evaluation, concluded, signatures>>

-----------------------------------------------------------------------------
(* evaluateJob.                                                            *)

\* The evaluate route (force or not), the cron sweep, the webhook.
Evaluate(c, force) ==
    Begin(c, [Idle EXCEPT !.step = "eval.read", !.force = force])

EvaluateReads(c) == ReadsJob(c, "eval.read", TRUE, "eval.record")

EvaluateLoads(c) ==
    /\ At(c, "eval.record")
    /\ Reads(c, IF record.delivery = None THEN Idle
                ELSE [calls[c] EXCEPT !.step = "eval.existing", !.text = record.delivery])

AlreadyEvaluated(e, seen) == e.deliveryHash = seen

HashesMatch(text, seen) == text = seen

\* getEvaluation, the idempotency check and assertHashesMatch.
EvaluateChecks(c) ==
    LET done == ~calls[c].force /\ AlreadyEvaluated(evaluation, calls[c].seen) IN
    /\ At(c, "eval.existing")
    /\ Reads(c, IF ~done /\ HashesMatch(calls[c].text, calls[c].seen)
                THEN [calls[c] EXCEPT !.step = "eval.verify"] ELSE Idle)

\* What verifyDelivery can conclude about a content: see Verification.  The
\* model may judge the same text differently when asked again; a model that
\* does not answer holds the money.
PossibleVerdicts(d) == IF d \in Refused THEN {"NO_GO"} ELSE Judgements[d] \cup {"CAUTION"}

\* verifyDelivery on the stored text; the record it fills carries the hash
\* that was read from the chain.
EvaluateVerifies(c, verdict) ==
    /\ At(c, "eval.verify")
    /\ verdict \in PossibleVerdicts(calls[c].text)
    /\ concluded' = concluded \cup {[deliveryHash |-> calls[c].text, verdict |-> verdict]}
    /\ calls' = [calls EXCEPT ![c].step = "eval.put",
                   ![c].evaluation = [deliveryHash |-> calls[c].seen, verdict |-> verdict]]
    /\ UNCHANGED <<chain, record, evaluation, signatures>>

\* putEvaluation: unconditional.
EvaluateStores(c) ==
    /\ At(c, "eval.put")
    /\ evaluation' = calls[c].evaluation
    /\ End(c)
    /\ UNCHANGED <<chain, record, concluded, signatures>>

-----------------------------------------------------------------------------
(* GET /api/jobs/:id: answers, after evaluating a job nobody evaluated.    *)

Get(c) == Begin(c, [Idle EXCEPT !.step = "get.read"])

\* A job that awaits no verdict is answered without any further effect.
GetReads(c) == ReadsJob(c, "get.read", TRUE, "get.both")

\* The two reads of Promise.all, in either order.
GetLoadsJob(c) ==
    /\ calls[c].step \in {"get.both", "get.job"}
    /\ Reads(c, [calls[c] EXCEPT !.text = record.delivery,
                   !.step = IF @ = "get.both" THEN "get.evaluation" ELSE "get.decide"])

GetLoadsEvaluation(c) ==
    /\ calls[c].step \in {"get.both", "get.evaluation"}
    /\ Reads(c, [calls[c] EXCEPT !.evaluation = evaluation,
                   !.step = IF @ = "get.both" THEN "get.job" ELSE "get.decide"])

Heal(text, e) == e = NoEvaluation /\ text # None

GetDecides(c) ==
    /\ At(c, "get.decide")
    /\ Reads(c, IF Heal(calls[c].text, calls[c].evaluation)
                THEN [Idle EXCEPT !.step = "eval.read"] ELSE Idle)

-----------------------------------------------------------------------------
(* POST /api/jobs/:id/decision: sign the stored verdict.                   *)

AskDecision(c) == Begin(c, [Idle EXCEPT !.step = "decision.read"])

DecisionReads(c) == ReadsJob(c, "decision.read", TRUE, "decision.load")

SameDelivery(e, seen) == e.deliveryHash = seen

\* Every signed field is the chain's as read, except the verdict.
DecisionSigns(c) ==
    /\ At(c, "decision.load")
    /\ signatures' = signatures \cup
         (IF evaluation # NoEvaluation /\ SameDelivery(evaluation, calls[c].seen)
          THEN {[deliveryHash |-> calls[c].seen, verdict |-> evaluation.verdict]} ELSE {})
    /\ End(c)
    /\ UNCHANGED <<chain, record, evaluation, concluded>>

-----------------------------------------------------------------------------
Escrow ==
    \/ \E d \in Deliveries : SubmitDelivery(d)
    \/ \E s \in signatures : Settle(s)
    \/ ResolveCaution
    \/ CancelExpired

Arrival(c) ==
    \/ Get(c)
    \/ \E title \in Titles : PostJob(c, title)
    \/ \E d \in Deliveries : Upload(c, d)
    \/ \E force \in Forcing : Evaluate(c, force)
    \/ AskDecision(c)

EvaluateStep(c) ==
    \/ EvaluateReads(c) \/ EvaluateLoads(c) \/ EvaluateChecks(c)
    \/ \E v \in Verdict : EvaluateVerifies(c, v)
    \/ EvaluateStores(c)

GetStep(c) == GetReads(c) \/ GetLoadsJob(c) \/ GetLoadsEvaluation(c) \/ GetDecides(c)

HandlerStep(c) ==
    \/ PostJobReads(c) \/ PostJobLooks(c) \/ PostJobStores(c)
    \/ UploadReads(c) \/ UploadLooks(c) \/ UploadStores(c)
    \/ EvaluateStep(c)
    \/ GetStep(c)
    \/ DecisionReads(c) \/ DecisionSigns(c)

Next ==
    \/ Escrow
    \/ \E c \in Calls : Arrival(c) \/ HandlerStep(c) \/ Abort(c)

Spec == Init /\ [][Next]_vars

\* The job in the escrow as the contract shows it.
Contract == INSTANCE EscrowJob WITH
    Hashes <- Deliveries, NoHash <- None,
    Verdicts <- Verdict, NoVerdict <- None, Hold <- "CAUTION",
    status <- chain.status, verdict <- chain.verdict, deliveryHash <- chain.deliveryHash

-----------------------------------------------------------------------------
(* Properties.                                                             *)

\* Types.
Steps == {"idle", "brief.read", "brief.look", "brief.put",
          "upload.read", "upload.look", "upload.update",
          "eval.read", "eval.record", "eval.existing", "eval.verify", "eval.put",
          "get.read", "get.both", "get.job", "get.evaluation", "get.decide",
          "decision.read", "decision.load"}

Call == [step : Steps, force : BOOLEAN, title : Titles \cup {None},
         text : Deliveries \cup {None}, seen : Deliveries \cup {None},
         evaluation : Finding \cup {NoEvaluation}]

TypeOK ==
    /\ chain \in [status : {"Funded", "Delivered", "Settled", "Cancelled"},
                  verdict : Verdict \cup {None}, deliveryHash : Deliveries \cup {None}]
    /\ chain.status = "Delivered" => chain.deliveryHash # None
    /\ record \in [title : Titles \cup {None}, delivery : Deliveries \cup {None}]
    /\ record.delivery # None => record.title # None
    /\ evaluation \in Finding \cup {NoEvaluation}
    /\ calls \in [Calls -> Call]
    /\ concluded \subseteq Finding
    /\ signatures \subseteq Finding

\* The stored verdict is one the verifier reached about exactly the content
\* whose hash the record carries, whatever was re-delivered or uploaded while
\* the verifier was running.
StoredVerdictReached == evaluation = NoEvaluation \/ evaluation \in concluded

\* The key signs nothing but verdicts the verifier reached about exactly the
\* delivery it signs for.
SignedVerdictReached == signatures \subseteq concluded

\* The provider is paid only for a delivery that the model, when it answered,
\* judged GO, and that passed screening: no interleaving of re-deliveries,
\* uploads, evaluations and signatures pays for another content.
PaidOnlyIfJudged ==
    chain.verdict = "GO" =>
        chain.deliveryHash \notin Refused /\ "GO" \in Judgements[chain.deliveryHash]

\* A text the provider has uploaded stays stored until another replaces it.
UploadKept == [][record.delivery # None => record'.delivery # None]_vars

=============================================================================

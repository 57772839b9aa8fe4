-------------------------- MODULE AgentWorkEscrow --------------------------
(***************************************************************************)
(* The on-chain escrow, packages/contracts/src/AgentWorkEscrow.sol.        *)
(*                                                                         *)
(* Each external function is one action: its guard is the conjunction of   *)
(* the function's reverts and its primed variables are the storage writes. *)
(* A function that pays does so with a value call, during which the payee  *)
(* runs code of its own: the action stops at the call, leaving a suspended *)
(* frame, and the transaction later returns (and commits) or reverts (and  *)
(* restores the ledger as it was before the function).  While a frame is   *)
(* suspended only accounts with code can call in, and only the functions   *)
(* without the nonReentrant modifier let them.                             *)
(*                                                                         *)
(* Abstracted: evidenceHash (signed and emitted, never read), createdAt    *)
(* (never read), events, gas.  Forced transfers (there is no receive or    *)
(* fallback) are outside the model.                                        *)
(***************************************************************************)
EXTENDS Integers, FiniteSets, FiniteSetsExt

CONSTANTS
    Accounts,           \* addresses that send transactions or hold code
    Contracts,          \* the accounts with code: they may re-enter or refuse value
    Zero,               \* address(0)
    Self,               \* address(this)
    Signers,            \* keys that may be installed as verifierSigner
    BriefHashes,        \* non-zero keccak256 values of briefs
    DeliveryHashes,     \* non-zero keccak256 values of deliveries
    NoHash,             \* bytes32(0)
    Domains,            \* EIP-712 domains (chain id and contract address)
    Domain,             \* the domain of this deployment
    Owners,             \* bound: the accounts ownership is ever offered to
    Values,             \* the msg.value amounts buyers send
    MaxAmount,          \* type(uint128).max
    MaxDeliveryWindow,  \* MAX_DELIVERY_WINDOW
    MaxDecisionTTL,     \* MAX_DECISION_TTL
    MaxTime,            \* bound: the last block.timestamp explored
    MaxJobs,            \* bound: the number of jobs created
    MaxSignatures       \* bound: the number of signatures ever produced

ASSUME AddressAssumption ==
    /\ Contracts \subseteq Accounts
    /\ Owners \subseteq Accounts
    /\ Zero \notin Accounts \cup Signers
    /\ Self \notin Accounts \cup {Zero}
ASSUME HashAssumption == NoHash \notin BriefHashes \cup DeliveryHashes
ASSUME DomainAssumption == Domain \in Domains
ASSUME AmountAssumption == Values \subseteq Nat /\ MaxAmount \in Nat
ASSUME WindowAssumption == MaxDeliveryWindow \in Nat /\ MaxDecisionTTL \in Nat
ASSUME BoundAssumption == MaxTime \in Nat /\ MaxJobs \in Nat /\ MaxSignatures \in Nat

VARIABLES
    now,             \* block.timestamp
    jobs,            \* _jobs
    jobCount,        \* jobCount
    verifierSigner,  \* verifierSigner
    owner,           \* Ownable's _owner
    pendingOwner,    \* Ownable2Step's _pendingOwner
    balance,         \* address(this).balance
    received,        \* received[j][a]: what job j has paid to account a
    signatures,      \* every signature that exists off chain
    frames           \* the suspended value call, {} between transactions

admin == <<verifierSigner, owner, pendingOwner>>
funds == <<balance, received>>
vars == <<now, jobs, jobCount, admin, funds, signatures, frames>>

JobId == 1..MaxJobs
Time == 0..MaxTime
Status == {"None", "Funded", "Delivered", "Settled", "Cancelled"}
Verdict == {"None", "Go", "Caution", "NoGo"}

Job == [buyer : Accounts \cup {Zero}, provider : Accounts \cup {Zero},
        amount : Nat, briefHash : BriefHashes \cup {NoHash},
        deliverBy : Nat, deliveryHash : DeliveryHashes \cup {NoHash},
        status : Status, verdict : Verdict]

NoJob == [buyer |-> Zero, provider |-> Zero, amount |-> 0, briefHash |-> NoHash,
          deliverBy |-> 0, deliveryHash |-> NoHash,
          status |-> "None", verdict |-> "None"]

Decision == [jobId : JobId, briefHash : BriefHashes,
             deliveryHash : DeliveryHashes, verdict : Verdict, validUntil : Time]

Signature == [decision : Decision, domain : Domains, signer : Signers]

\* Everything a reverted transaction restores.
Ledger == [jobs |-> jobs, jobCount |-> jobCount, verifierSigner |-> verifierSigner,
           owner |-> owner, pendingOwner |-> pendingOwner,
           balance |-> balance, received |-> received]

-----------------------------------------------------------------------------
(* The constructor.  It rejects zero addresses; owner_ is an account.      *)

Init ==
    /\ now = 0
    /\ jobs = [j \in JobId |-> NoJob]
    /\ jobCount = 0
    /\ verifierSigner \in Signers
    /\ owner \in Owners
    /\ pendingOwner = Zero
    /\ balance = 0
    /\ received = [j \in JobId |-> [a \in Accounts |-> 0]]
    /\ signatures = {}
    /\ frames = {}

-----------------------------------------------------------------------------
(* Faulty variants of the definitions below, one plausible slip each.  They *)
(* are not part of the specification: the mutants of PROJECT.json put them  *)
(* in place of the definition they are named after, to see which property   *)
(* notices.                                                                 *)

\* createJob without its address(this) test.
ProviderMayBeSelf(provider) == provider # Zero

\* createJob without AmountTooLarge: uint128(msg.value) wraps.
UncheckedAmount(value) == value > 0

\* createJob without MAX_DELIVERY_WINDOW.
AnyFutureDeadline(deliverBy) == deliverBy > now

\* submitDelivery without VerdictAlreadyApplied.
DeliverableAfterVerdict(j) == jobs[j].status \in {"Funded", "Delivered"}

\* _structHash without jobId.
RecoverForAnyJob(decision, signature) ==
    IF /\ signature.decision = [decision EXCEPT !.jobId = signature.decision.jobId]
       /\ signature.domain = Domain
    THEN signature.signer ELSE Zero

\* settle paying the provider whatever the verdict.
AlwaysProvider(verdict, job) == job.provider

\* cancelExpired accepting a delivered job.
ReclaimableDelivered(j) == jobs[j].status \in {"Funded", "Delivered"}

\* nonReentrant dropped.
Reentrant == TRUE

\* _pay ignoring the result of the call: the value comes back, the rest stays.
PayFailureIgnored(f) ==
    /\ f.to \in Contracts
    /\ balance' = f.before.balance
    /\ received' = f.before.received
    /\ frames' = frames \ {f}
    /\ UNCHANGED <<now, jobs, jobCount, admin, signatures>>

-----------------------------------------------------------------------------
(* Who can call, and what calls may do.                                    *)

\* Between transactions anyone can call; during a value call only code that
\* the payee runs, so only accounts with code.
MayCall(sender) ==
    \/ frames = {}
    \/ sender \in Contracts /\ \E f \in frames : f.to \in Contracts

NonReentrant == frames = {}

\* _pay up to the point where the payee has the value and the control.  A call
\* that the balance cannot cover fails at once and reverts the function.
Pay(j, to) ==
    /\ jobs[j].amount <= balance
    /\ balance' = balance - jobs[j].amount
    /\ received' = [received EXCEPT ![j][to] = @ + jobs[j].amount]
    /\ frames' = frames \cup {[to |-> to, before |-> Ledger]}

\* The call returns, the function ends, the transaction commits.
PayReturns(f) ==
    /\ frames' = frames \ {f}
    /\ UNCHANGED <<now, jobs, jobCount, admin, funds, signatures>>

\* The payee reverts: _pay raises TransferFailed and the ledger is as it was
\* before the function, everything done during the call included.
PayFails(f) ==
    /\ f.to \in Contracts
    /\ jobs' = f.before.jobs
    /\ jobCount' = f.before.jobCount
    /\ verifierSigner' = f.before.verifierSigner
    /\ owner' = f.before.owner
    /\ pendingOwner' = f.before.pendingOwner
    /\ balance' = f.before.balance
    /\ received' = f.before.received
    /\ frames' = frames \ {f}
    /\ UNCHANGED <<now, signatures>>

-----------------------------------------------------------------------------
(* createJob and submitDelivery: not nonReentrant, they move no value out. *)

ValidAmount(value) == value > 0 /\ value <= MaxAmount

ValidDeadline(deliverBy) ==
    deliverBy > now /\ deliverBy <= now + MaxDeliveryWindow

ValidProvider(provider) == provider # Zero /\ provider # Self

\* The stored amount is uint128(msg.value).
CreateJob(sender, provider, value, briefHash, deliverBy) ==
    /\ MayCall(sender)
    /\ ValidProvider(provider)
    /\ ValidAmount(value)
    /\ briefHash # NoHash
    /\ ValidDeadline(deliverBy)
    /\ jobCount < MaxJobs
    /\ jobCount' = jobCount + 1
    /\ jobs' = [jobs EXCEPT ![jobCount + 1] =
                  [buyer |-> sender, provider |-> provider,
                   amount |-> value % (MaxAmount + 1), briefHash |-> briefHash,
                   deliverBy |-> deliverBy, deliveryHash |-> NoHash,
                   status |-> "Funded", verdict |-> "None"]]
    /\ balance' = balance + value
    /\ UNCHANGED <<now, admin, received, signatures, frames>>

Deliverable(j) ==
    jobs[j].status \in {"Funded", "Delivered"} /\ jobs[j].verdict = "None"

SubmitDelivery(sender, j, deliveryHash) ==
    /\ MayCall(sender)
    /\ sender = jobs[j].provider
    /\ Deliverable(j)
    /\ deliveryHash # NoHash
    /\ now <= jobs[j].deliverBy
    /\ jobs' = [jobs EXCEPT ![j].deliveryHash = deliveryHash,
                            ![j].status = "Delivered"]
    /\ UNCHANGED <<now, jobCount, admin, funds, signatures, frames>>

-----------------------------------------------------------------------------
(* settle: permissionless, the signature is the authority.                 *)

\* ECDSA.tryRecover over the EIP-712 digest: another payload or another domain
\* recovers an address nobody holds the key of.
Recover(decision, signature) ==
    IF signature.decision = decision /\ signature.domain = Domain
    THEN signature.signer ELSE Zero

\* An error and a wrong signer both revert with InvalidSignature.
RequireVerifierSignature(decision, signature) ==
    Recover(decision, signature) = verifierSigner

ForThisWork(decision) ==
    /\ decision.briefHash = jobs[decision.jobId].briefHash
    /\ decision.deliveryHash = jobs[decision.jobId].deliveryHash

Unexpired(decision) ==
    /\ now <= decision.validUntil
    /\ decision.validUntil <= now + MaxDecisionTTL

Beneficiary(verdict, job) == IF verdict = "Go" THEN job.provider ELSE job.buyer

Applicable(decision) ==
    /\ jobs[decision.jobId].status = "Delivered"
    /\ jobs[decision.jobId].verdict = "None"
    /\ decision.verdict # "None"
    /\ ForThisWork(decision)
    /\ Unexpired(decision)

Settle(decision, signature) ==
    LET j == decision.jobId IN
    /\ NonReentrant
    /\ Applicable(decision)
    /\ RequireVerifierSignature(decision, signature)
    /\ \/ /\ decision.verdict = "Caution"
          /\ jobs' = [jobs EXCEPT ![j].verdict = "Caution"]
          /\ UNCHANGED <<funds, frames>>
       \/ /\ decision.verdict # "Caution"
          /\ jobs' = [jobs EXCEPT ![j].verdict = decision.verdict,
                                  ![j].status = "Settled"]
          /\ Pay(j, Beneficiary(decision.verdict, jobs[j]))
    /\ UNCHANGED <<now, jobCount, admin, signatures>>

-----------------------------------------------------------------------------
(* The buyer's two ways out.                                               *)

ResolveCaution(sender, j, release) ==
    /\ NonReentrant
    /\ sender = jobs[j].buyer
    /\ jobs[j].verdict = "Caution"
    /\ jobs[j].status = "Delivered"
    /\ jobs' = [jobs EXCEPT ![j].status = "Settled"]
    /\ Pay(j, IF release THEN jobs[j].provider ELSE jobs[j].buyer)
    /\ UNCHANGED <<now, jobCount, admin, signatures>>

Reclaimable(j) == jobs[j].status = "Funded"

DeadlineReached(j) == now > jobs[j].deliverBy

CancelExpired(sender, j) ==
    /\ NonReentrant
    /\ sender = jobs[j].buyer
    /\ Reclaimable(j)
    /\ DeadlineReached(j)
    /\ jobs' = [jobs EXCEPT ![j].status = "Cancelled"]
    /\ Pay(j, jobs[j].buyer)
    /\ UNCHANGED <<now, jobCount, admin, signatures>>

-----------------------------------------------------------------------------
(* The owner.  transferOwnership, acceptOwnership and renounceOwnership    *)
(* are inherited from OpenZeppelin's Ownable2Step.                         *)

SetVerifierSigner(sender, newSigner) ==
    /\ MayCall(sender)
    /\ sender = owner
    /\ newSigner # Zero
    /\ verifierSigner' = newSigner
    /\ UNCHANGED <<now, jobs, jobCount, owner, pendingOwner, funds, signatures, frames>>

TransferOwnership(sender, newOwner) ==
    /\ MayCall(sender)
    /\ sender = owner
    /\ pendingOwner' = newOwner
    /\ UNCHANGED <<now, jobs, jobCount, verifierSigner, owner, funds, signatures, frames>>

AcceptOwnership(sender) ==
    /\ MayCall(sender)
    /\ sender = pendingOwner
    /\ owner' = sender
    /\ pendingOwner' = Zero
    /\ UNCHANGED <<now, jobs, jobCount, verifierSigner, funds, signatures, frames>>

RenounceOwnership(sender) ==
    /\ MayCall(sender)
    /\ sender = owner
    /\ owner' = Zero
    /\ pendingOwner' = Zero
    /\ UNCHANGED <<now, jobs, jobCount, verifierSigner, funds, signatures, frames>>

-----------------------------------------------------------------------------
(* The world around the contract.  Time and signing do not interleave with *)
(* a transaction.  Which decisions a key signs is not this contract's      *)
(* business: the verifier's modules restrict it.                           *)

Tick ==
    /\ frames = {}
    /\ now < MaxTime
    /\ now' = now + 1
    /\ UNCHANGED <<jobs, jobCount, admin, funds, signatures, frames>>

Sign(signature) ==
    /\ frames = {}
    /\ Cardinality(signatures) < MaxSignatures
    /\ signatures' = signatures \cup {signature}
    /\ UNCHANGED <<now, jobs, jobCount, admin, funds, frames>>

Next ==
    \/ Tick
    \/ \E s \in Signature : Sign(s)
    \/ \E sender \in Accounts, provider \in Accounts \cup {Zero, Self},
          value \in Values, brief \in BriefHashes \cup {NoHash}, deliverBy \in Time :
            CreateJob(sender, provider, value, brief, deliverBy)
    \/ \E sender \in Accounts, j \in JobId, d \in DeliveryHashes \cup {NoHash} :
            SubmitDelivery(sender, j, d)
    \/ \E d \in Decision, s \in signatures : Settle(d, s)
    \/ \E sender \in Accounts, j \in JobId, release \in BOOLEAN :
            ResolveCaution(sender, j, release)
    \/ \E sender \in Accounts, j \in JobId : CancelExpired(sender, j)
    \/ \E f \in frames : PayReturns(f) \/ PayFails(f)
    \/ \E sender \in Accounts :
        \/ \E s \in Signers \cup {Zero} : SetVerifierSigner(sender, s)
        \/ \E a \in Owners \cup {Zero} : TransferOwnership(sender, a)
        \/ AcceptOwnership(sender)
        \/ RenounceOwnership(sender)

Spec == Init /\ [][Next]_vars

-----------------------------------------------------------------------------
(* Properties.  A reverted transaction leaves no trace, so what is said of *)
(* the ledger is said of the one in storage and of the one a suspended     *)
(* call would restore.                                                     *)

Closed(job) == job.status \in {"Settled", "Cancelled"}
Open(job) == job.status \in {"Funded", "Delivered"}

\* Types of the storage and of the suspended ledgers.  Ids are dense: exactly
\* the jobs up to jobCount exist, with real parties and a real amount.
Exists(job) ==
    /\ job.status # "None"
    /\ job.buyer \in Accounts
    /\ job.provider \in Accounts
    /\ job.amount \in 1..MaxAmount

LedgerOK(l) ==
    /\ l.jobs \in [JobId -> Job]
    /\ l.jobCount \in 0..MaxJobs
    /\ \A j \in JobId : IF j <= l.jobCount THEN Exists(l.jobs[j]) ELSE l.jobs[j] = NoJob
    /\ l.verifierSigner \in Signers
    /\ l.owner \in Accounts \cup {Zero}
    /\ l.pendingOwner \in Accounts \cup {Zero}
    /\ l.balance \in Nat
    /\ l.received \in [JobId -> [Accounts -> Nat]]

TypeOK ==
    /\ now \in Time
    /\ LedgerOK(Ledger)
    /\ signatures \subseteq Signature
    /\ \A f \in frames :
        /\ f.to \in Accounts
        /\ LedgerOK(f.before)

\* What a job is owed.
Due(job) == IF Open(job) THEN job.amount ELSE 0

\* The contract always holds exactly the amounts of the jobs that are still
\* open, during a value call included: nothing is paid out of another job's
\* escrow and nothing is stranded.
Solvent == balance = MapThenSumSet(LAMBDA j : Due(jobs[j]), JobId)

\* What each job has paid: nothing while it is open; once closed its whole
\* amount, once, to the provider on GO, to the buyer on NO-GO and on
\* cancellation, to one of the two after a resolved CAUTION, to nobody else.
PaidOnly(j, to, l) ==
    l.received[j] = [a \in Accounts |-> IF a = to THEN l.jobs[j].amount ELSE 0]

PaidRight(j, l) ==
    LET job == l.jobs[j] IN
    CASE job.status \in {"None", "Funded", "Delivered"} -> PaidOnly(j, Zero, l)
      [] job.status = "Cancelled" -> PaidOnly(j, job.buyer, l)
      [] job.status = "Settled" /\ job.verdict = "Go" -> PaidOnly(j, job.provider, l)
      [] job.status = "Settled" /\ job.verdict = "NoGo" -> PaidOnly(j, job.buyer, l)
      [] job.status = "Settled" /\ job.verdict = "Caution" ->
            PaidOnly(j, job.provider, l) \/ PaidOnly(j, job.buyer, l)
      [] OTHER -> FALSE

PaidAsJudged ==
    \A j \in JobId : PaidRight(j, Ledger) /\ \A f \in frames : PaidRight(j, f.before)

\* The stage of a job tells what happened to it: a job is cancelled only if
\* nothing was ever delivered and its deadline is past; a job with a delivery
\* can end only by a verdict.
StageRight(job, t) ==
    /\ job.status \in {"Funded", "Cancelled"} =>
            job.deliveryHash = NoHash /\ job.verdict = "None"
    /\ job.status = "Cancelled" => job.deliverBy < t
    /\ job.status = "Delivered" =>
            job.deliveryHash # NoHash /\ job.verdict \in {"None", "Caution"}
    /\ job.status = "Settled" => job.deliveryHash # NoHash /\ job.verdict # "None"

StageTellsHistory ==
    \A j \in JobId :
        StageRight(jobs[j], now) /\ \A f \in frames : StageRight(f.before.jobs[j], now)

\* A verdict on a job was signed, for this deployment, for this job, its brief
\* and the very delivery the job still carries: it is never moved to another
\* job, and the work is never swapped under it.
SignedFor(j, job, s) ==
    /\ s.domain = Domain
    /\ s.decision.jobId = j
    /\ s.decision.briefHash = job.briefHash
    /\ s.decision.deliveryHash = job.deliveryHash
    /\ s.decision.verdict = job.verdict

VerdictBacked(js) ==
    \A j \in JobId : js[j].verdict # "None" => \E s \in signatures : SignedFor(j, js[j], s)

VerdictsAreSigned ==
    VerdictBacked(jobs) /\ \A f \in frames : VerdictBacked(f.before.jobs)

\* No buyer's money is committed for longer than a delivery window from now:
\* an undelivered job can be reclaimed by then.
LockedAtMostAWindow ==
    \A j \in JobId : jobs[j].deliverBy <= now + MaxDeliveryWindow

-----------------------------------------------------------------------------
(* The contract keeps EscrowPromise: each committed transaction is one     *)
(* step of it, and a reverted one is none.                                 *)

Committed == IF frames = {} THEN Ledger ELSE (CHOOSE f \in frames : TRUE).before

PhaseOf(job, got) ==
    CASE job.status = "None" -> "none"
      [] job.status = "Funded" -> "funded"
      [] job.status = "Cancelled" -> "reclaimed"
      [] job.status = "Delivered" -> IF job.verdict = "None" THEN "delivered" ELSE "held"
      [] job.status = "Settled" -> IF got[job.provider] > 0 THEN "released" ELSE "refunded"

Phases(l) == [j \in JobId |-> PhaseOf(l.jobs[j], l.received[j])]
TermsOf(job) == [buyer |-> job.buyer, provider |-> job.provider, amount |-> job.amount,
                 brief |-> job.briefHash, deliverBy |-> job.deliverBy]

Promise == INSTANCE EscrowPromise WITH
    phase <- Phases(Committed),
    terms <- [j \in JobId |-> TermsOf(Committed.jobs[j])],
    delivery <- [j \in JobId |-> Committed.jobs[j].deliveryHash],
    paid <- Committed.received

\* One job, as the server and the pages see it (EscrowJob): getJob shows the
\* committed ledger.
SeenJob(j) == INSTANCE EscrowJob WITH
    Hashes <- DeliveryHashes,
    Verdicts <- Verdict \ {"None"}, NoVerdict <- "None", Hold <- "Caution",
    status <- Committed.jobs[j].status,
    verdict <- Committed.jobs[j].verdict,
    deliveryHash <- Committed.jobs[j].deliveryHash

\* Whatever happens to the other jobs, and inside a transaction.
JobsAsSeen ==
    /\ \A j \in JobId : SeenJob(j)!Init
    /\ [][\A j \in JobId : SeenJob(j)!Next \/ UNCHANGED SeenJob(j)!jobVars]_vars

\* Every behaviour of the contract, seen through its committed ledger, is a
\* behaviour of EscrowPromise, and of EscrowJob for each job.
KeepsPromise == Promise!Spec /\ JobsAsSeen

=============================================================================

# BOTLatch: a verification development

BOTLatch holds a buyer's money in an on-chain escrow while a bot works for it,
judges the delivery off chain, and lets the escrow release, hold or refund the
money on a verdict that the verifier's key has signed. This directory holds TLA+
modules for the program's own logic, TLC configurations that model-check them,
and proofs that TLAPS checks. Paths are relative to the repository; `contracts`
stands for `packages/contracts`, `verifier` for `packages/verifier/src`, `web`
for `apps/web/src`.

1. [The system](#1-the-system): components, state, operations, interactions, hazards
2. [The modules](#2-the-modules) and how they correspond to the code
3. [The runs](#3-the-runs): what each checks, its bounds, fairness
4. [Where code and documents disagree](#4-where-code-and-documents-disagree)
5. [The proofs](#5-the-proofs)
6. [What is not modelled](#6-what-is-not-modelled)
7. [Plan](#7-plan)

## 1. The system

### Components

| Component | State | Operations | Correct when |
|---|---|---|---|
| **Escrow contract** `contracts/src/AgentWorkEscrow.sol` | `_jobs`, `jobCount`, `verifierSigner`, owner and pending owner, the balance | `createJob`, `submitDelivery`, `settle`, `resolveCaution`, `cancelExpired`, `setVerifierSigner`, the inherited `Ownable2Step` functions | it always holds exactly what its open jobs are owed; each job pays once, in full, to the party the verdict names; a verdict applies only if signed for this deployment, job, brief and delivery; re-entrancy and refused payments change none of that |
| **Decision policy** `verifier/policy.ts` | none | `decide` and the scores | one ordered table, in which a failure can never read as GO |
| **Screening** `verifier/patterns.ts`, `normalize.ts` | none | readings of a delivery, signatures on each | a hit on any observed reading counts at its full severity; a hit on the despaced reading alone is downgraded; the number of decoded layers is the only limit |
| **Model call** `verifier/llm.ts` | none | `assessWithLlm` with an abort timer | every outcome, however malformed, becomes an assessment |
| **Verification pipeline** `verifier/evaluate.ts` | none | `verifyDelivery` | a verdict always, and GO only on evidence |
| **Signing** `verifier/sign.ts` | none | canonical evidence, EIP-712 decision | what is signed is what was judged |
| **Evaluation service** `web/lib/evaluation-service.ts` | none of its own | `evaluateJob` | a stored verdict is about the content whose hash it carries |
| **Job routes** `web/app/api/jobs/**` | none of their own | post a brief, upload a delivery, read a job, evaluate, sign a decision | no interleaving of them signs or pays for a delivery that was not judged |
| **Stores** `web/lib/store/*` | jobs, evaluations, watermarks: tables in Postgres shared by all processes, or a JSON file behind one process's cache and queue | get and put of each, `updateJob` | nothing a caller was told is stored gets lost; posting again never erases a column |
| **Chain reads** `web/lib/chain-server.ts` | none | `readJob` and others | a job as it is on chain, or null |
| **Watcher** `web/lib/watcher.ts`, `web/app/api/cron/tick/route.ts`, `apps/web/scripts/watch-chain.ts` | the watermark, in the store | `tick`: scan logs from the watermark, evaluate, move it | every delivery on chain is seen |
| **Public view** `web/lib/public-view.ts` | none | what a page may see | no delivery text leaks; `current` only for the delivery on chain |
| **Create form** `web/components/create-job-form.tsx` | phase, fields, error, transaction hash, job id | `submit`: wallet, receipt, POST of the brief | the job it ends on is the one it paid for; what it says of the money is so |
| **Deliver form, outcome page** `web/components/deliver-form.tsx`, `job-outcome.tsx`, `settle-actions.tsx`, `web/lib/use-job.ts` | the last polled answer, the call under way | deliver and upload; poll, settle, release, refund, cancel | what they offer is what the escrow accepts; somebody with a page open gets the money out |
| **Rate limiter** `web/lib/api.ts` | per-process counters | refuse | bounded, per client |
| **Configuration** `web/lib/env.ts`, `chains.ts` | the environment of the server, the public values built into the bundle | read | server and browser mean the same chain, escrow and key |
| **Health route** `web/app/api/health/route.ts` | none | compare the server's key with the contract's | true whenever decisions settle, and otherwise wrong only where it does not look |
| **Deployment scripts** `scripts/deploy.mjs`, `scripts/verify-chain.mjs`, `contracts/script/Deploy.s.sol` | `.env` | check an environment, deploy an escrow | what passes the check settles |
| **Pages, layout, styles** `web/app/**/page.tsx`, `globals.css` | none | show | |

### How they interact

A buyer's browser sends `createJob` with the hash of the brief, then POSTs the
brief to the server, which accepts it only if it hashes to what is on chain. The
provider sends `submitDelivery` with the hash of the work, then uploads the text
under the same rule; the server answers and goes on evaluating after the
response. The outcome page polls the job, and a poll evaluates a job that has no
verdict. A daily cron calls the watcher, which scans the chain for deliveries and
evaluates those whose text is stored. Evaluation reads the job from the chain and
the text from the store, screens the text, asks the model, decides and stores the
verdict. Whoever wants the job settled asks the server for a decision, which it
signs if the stored verdict is about the delivery on chain, and sends it to
`settle`; the contract checks the signature and moves the money.

Nothing locks a job across these parts. The shared state is the contract's
storage and the store; everything else is read, remembered across awaits and
used later.

### What is hard

- **Re-entrancy and refusal** in the contract: the payee runs code before the
  paying function ends, and can undo it.
- **Signatures travel**: a decision may arrive at any time, at either of two like
  jobs, in another deployment, after a re-delivery or a key rotation.
- **Handlers interleave**: every await is a place where the provider re-delivers,
  another evaluation stores its verdict, or the host kills the function.
- **The model fails** in many ways, and the failure must hold the money.
- **Screening order**: the first surface that shows a signature fixes its severity.
- **The chain moves under the sweep**: reorganisations, overlapping ticks, texts
  that arrive after their block was scanned.
- **A cache that anyone may fill**: the file store's mutations queue, its reads do not.
- **Look, then write** without a transaction: posts of a brief, evaluations, the
  watermark.
- **Healing**: background work dies with its host; what notices and does it again?
- **A page acts on old answers**: it polls, and a wallet, a receipt and a request lie
  between the button and the effect. Each may fail after it has taken effect, and a
  reload forgets everything but what is on chain.
- **A call that failed may still happen**: a transaction given up on is mined, a
  statement whose caller timed out runs, a request without an answer was handled.
- **Three copies of the configuration**: the file, the running server and the built
  bundle are as old as their last edit, start and build.

`PROJECT.json` lists each of these as a hazard at the line where it bites, with
the properties that would notice, or the reason why none does.

## 2. The modules

| Module | Models | Extends or instances |
|---|---|---|
| `AgentWorkEscrow` | the contract | |
| `EscrowPromise` | what the contract promises: an abstract specification, no code | instanced by `AgentWorkEscrow` |
| `EscrowJob` | one job as the server and the pages see it: an abstract specification, no code | instanced by `AgentWorkEscrow`, `EvaluationService`, `JobPages` |
| `DecisionPolicy` | the decision table and scores, operators only | |
| `Verification` | one run of `verifyDelivery` | `DecisionPolicy` |
| `EvaluationService` | the server's handlers around one job, with the job in the escrow and the store | |
| `Watcher` | the sweep over the chain's logs, its watermark, the poller | |
| `FileStore` | the JSON file store: cache, queue, file, crashes | |
| `StorePromise` | what the handlers take a store to be: an abstract specification | instanced by `PostgresStore` |
| `PostgresStore` | the Postgres store of several processes over one database | |
| `CreateFlow` | the create form in several pages, the chain and `POST /api/jobs` behind it | |
| `JobPages` | deliver form and outcome pages of one job, with escrow, server and store behind them | |
| `Deployment` | `.env`, deploy and check scripts, server, browser bundle, health | |
| `MC_*` | constants and symmetry for TLC | |
| `*_proofs` | theorems; those about `JobPages` and `Deployment` are in `Application_proofs` | the modules they are about, `TLAPS` |

Each module that models code has a section of *faulty variants*: definitions
with one plausible slip. They are no part of a specification. `PROJECT.json`
pairs every property with one that breaks it, so that each property is known to
be able to fail.

### `AgentWorkEscrow`

One action per external function, with the contract's names; guards are the
negated revert conditions, in one conjunction since the order of reverts has no
effect on storage. `createJob` stores `msg.value % (MaxAmount + 1)`, which is the
`uint128` conversion, and it takes `AmountTooLarge` to make that harmless.

A function that pays stops at its value call. `frames` then holds the payee and
the ledger as it was before the function; it contains at most one frame because
only non-reentrant functions pay. While it is there, only accounts with code may
call, and only the functions without `nonReentrant`. `PayReturns` commits;
`PayFails` restores the ledger, the work done during the call included, as the
EVM does. Owner functions can be called during a payment, as in the code, and a
reverted payment undoes them as well.

`Recover` abstracts `ECDSA.tryRecover`: any other payload or domain yields an
address that is nobody's key. The set `signatures` holds every signature that
exists; `Sign` may add any decision signed by any key of `Signers`, so that the
contract is checked against a verifier that signs anything at all.

`EscrowJob` is the seam to the other modules. The contract's half is `JobsAsSeen`: each
job's status, verdict and delivery hash, read from the committed ledger as `getJob`
does, moves along it. `EvaluationService` and `JobPages` each have a job of their own in the
place of the contract, and instance `EscrowJob` with it (`Contract`). Its step from nothing
to `Delivered` is a payee with code that creates a job and delivers it within
the payment of another.

### `DecisionPolicy` and `Verification`

`Decide` is the table in the order of the code; `SafetyScore` and
`ConformanceScore` are the two numbers shown to users, computed apart from the
verdict as in the code.

`Verification` is the pipeline: size check, embedded tokens (deduplicated by kind
and text, at most `MaxLayers`), surfaces in the code's order (raw, normalized,
decoded layers, despaced if different), the screening loop with its `seen` set
and downgrade, the zero-width hit, the model call unless screening blocked, the
table. A text is represented by the set of signatures it matches. Which texts
match which signature, and what a reading of a text is, are data: TLC explores
every combination, more than the regular expressions can produce. `VerdictOn` is the
reference: what the pipeline should come to, without its loops.

### `EvaluationService`

One action per await of each handler; `calls[c]` is what the handler has read so
far. `chain` is the job in the escrow (its moves are those of `AgentWorkEscrow`
seen from outside), `record` the stored brief and text, `evaluation` the stored
verdict. `concluded` and `signatures` are histories: what the verifier has ever
concluded, what has ever been signed. `Abort` may end any call at any step: an
RPC error (which `readJob` turns into null), a store error, a killed function.

A verdict is what `Verification` allows for a delivery (`VerdictIsFunction`): NO_GO,
always, for one that it refuses without the model; otherwise whatever the model's answers lead
to, which may be different each time (`llm.ts` sets no temperature), or CAUTION when it fails.
Contents are identified with their hashes (no collisions), and the brief, which
its hash pins, is only stored or not. `KeepsColumns` selects the store: the
Postgres upsert keeps the delivery column, the file store replaces the record.

### `Watcher`

`TickReadsHead`, `TickReadsWatermark`, `TickFetches`, one `TickEvaluates` or
`TickFails` per job, `TickStores`: the awaits of `tickWatcher`. Several slots tick
at once, because `watch-chain.ts` abandons a request that takes too long while
the server goes on with it, and because nothing keeps a scheduler and a poller
apart; `Abort` ends a tick at any await. `Start`, `Rewind` and `RangeEnd` are the
three lines that choose the range. The chain is a function from blocks to the
jobs delivered there; `Reorganise` replaces any suffix no longer than the rewind.
The bookkeeping of a tick holds job ids, as in the code; `found` and `tried` are
histories that say which deliveries in which blocks those ids stand for.
`evaluateJob` is one step here: it stores a verdict if the text is there, and
skips otherwise. That it may interleave is the business of `EvaluationService`.

### `FileStore`

One action per await of `load`, `mutation` and `flush`. `cache` is a reference:
each load makes an object, `LoadEnds` makes it the cache, and a call goes on with
the object it got. This matters, because a mutation that holds an old object
while the cache refers to a new one is exactly what goes wrong. `FlushWrites`
copies the object as it is at that moment; `FlushRenames` makes the copy the
file. `FlushFails` leaves the change in the object, as the code does. `Crash`
leaves the file. `may[k]` is a history: the values that record `k` can have in
the file without anybody having been lied to, namely what its last completed
mutation wrote, or what a mutation that has not completed tried to write.
`replaced` is another: whether a load has ever replaced a cache already filled.

### `PostgresStore` and `StorePromise`

A call is `Call` (which starts `init()` in its process unless it was started
before), `Sends`, `Runs` at the server and `Answers`. `ready[p]` is `this.ready` of
process `p`'s store: the promise of the schema query, kept once it is set,
rejection included. `Upsert` is `INSERT ... ON CONFLICT DO UPDATE` with the columns
that the statement names and its `COALESCE`, `UpdateRow` is `UPDATE ... WHERE` with
no row to find. `SchemaFails` also stands for two processes creating the same tables at
once, which Postgres may refuse to one of them. A statement that was sent runs
whether or not somebody still waits: `QueryFails` and `Crash` may leave it in `late`
and `RunsLate` runs it. A job's row is its brief, its delivery and `createdTx`, one
column for each way in which statements treat columns; the other tables are
replaced by row.

`StorePromise` has no processes, schema or queries: a call takes effect at one
instant between its start and its answer; a call that fails did so, or did not, or
will. Its `JobAfter` says in one place what merging by columns means. The
refinement maps "creating the schema" and "statement under way" to *asked* and "has
run" to *applied*; a crash is the failure of several calls at once.

### `CreateFlow`

One action per await of `submit()`: `WalletSends` or `WalletFails`, `ReceiptArrives` or
`ReceiptIsLost`, `PostAnswered` or `PostIsLost`, with the form's five state variables
under the names of the code. Every way out through its `catch` is `Fails`, which goes
back to `idle` with an error text and leaves `txHash` and `jobId`. `Reload` forgets
the form. What was sent goes on without the page: `Mined`, `NotMined` (a revert, or
a cancellation in the wallet, whose receipt is a success without the event),
`PostStores`, `PostRefused`. `ForeignPost` is any other client of the API.

### `JobPages`

The composition of the parts around one funded job, each in the shape in which
the others see it: the escrow is `Accepts` (the negated reverts) and `After` (the
effect); the server is `Poll` with its inline evaluation `Heals`, `Evaluate` in the background,
`Uploads` and `Signable`; the store is one text and one evaluation. The pages are in
full: `CanSubmit` and `SeesStatus` of the deliver form, `Offers` of the outcome page
(computed from the answer of its last poll and the clock), and the steps of a call.
`LetsGo` is what a page does when a call fails, and what a reload does: the page is
idle again, while its transaction stays in `pending` with no page to hear of it.

GO and NO_GO both end a job and are one verdict here; who is paid is the business
of `AgentWorkEscrow`. The outcome page's waiting for `refreshing` is kept: a button
is blocked until the poll after a call is answered.

### `Deployment`

`Edit` changes any variable of `.env` to any value, `Deploy` is `npm run
contracts:deploy` (its refusals, its derivation of the signer, the `require` of the
Solidity script), `Rotate` is `setVerifierSigner`, `StartServer` and `Build` copy what
the server and the bundle take from the environment: the server falls back to the
public escrow address (`Loaded`), the bundle sees public values only (`Built`).
`VerifyPasses` is the exit status of `verify-chain.mjs`, `Health` the field
`verifierMatchesContract`. Its names begin with D (`DInit`, `DTypeOK`) because one module of proofs
extends it beside `JobPages`. `Settles` says what it is all for: the browser funds a
job where the server reads it, with the key that contract trusts and the domain it checks.

## 3. The runs

### Passing

| Run | States | Question and answer |
|---|---|---|
| `escrow_one` | 121 thousand | One job under every order of calls, two keys, two deployments, two deliveries, amounts at and past the maximum, a payee with code. Types; paid once and as judged; its stage tells its history (a cancelled job has no delivery, a settled one has a verdict); no deadline further than a window. |
| `escrow_two` | 335 thousand | Two jobs between an account and a contract that may be either party: what one job's payee can do to the other while it is paid, and a signature offered to the wrong job. The balance is the sum of the open amounts, in the middle of a payment too; a verdict on chain was signed for exactly this work; the contract implements `EscrowPromise`, and `EscrowJob` for each job. |
| `verification` | 25 thousand | Every combination of readings, tokens and model outcomes. GO needs an answer, a safe and conforming one, and no hit anywhere; hostile deliveries are refunded and never reach the model; the loops compute a reference, which makes the verdict a function of the delivery and the model's answer alone (an unusable model holds); each signature is reported once at the right severity; tokens are screened; scores agree with the verdict; each run ends with a verdict. |
| `evaluation` | 3.7 million | Two concurrent calls of any kind, a good delivery on which the model changes its mind and one that would talk it into GO but is screened out. The stored verdict, the signed ones and the paid one are about the content they name; an uploaded text stays stored. |
| `watcher` | 365 thousand | Two overlapping ticks and a chain that reorganises. Behind the rewound watermark every delivery on the chain was tried in the block it is in. |
| `watcher_polled` | 34 thousand | One poller, evaluations that may fail, texts uploaded at any time. Once the chain settles, every delivery is tried in the block that holds it. |
| `filestore` | 3.8 million | Two mutations and a read over two records, failures and crashes. Nothing stored is lost and reads are current as long as no two calls load at once; the file changes only in records mutated since the start. |
| `postgres` | 77 thousand | Two processes over a database without tables, two calls, a statement that outlives its caller. No column of a stored job becomes null again; the store implements `StorePromise`. |
| `create_flow` | 108 thousand | Two pages, two briefs, receipts and answers lost, transactions cancelled, reloads. A page that ends on a job names its own, with its brief stored; what the form says of the money is so, and after a transaction it never shows the button in silence. |
| `job_pages` | 516 thousand | A deliver form and the buyer's outcome page over one job with two possible deliveries. A form that got to its end has delivered for good; a page that is up to date offers what the escrow accepts, two named cases excepted; once failures stop, the money leaves the escrow, two named cases excepted. |
| `deployment` | 1.2 million | Every order of edits, deployments, rotations, starts and builds on two chains. When the check passes on what is running, decisions settle; health never calls broken what settles, and is silent only about chain ids and mirrors. |

**Bounds.** `escrow_one` needs one job, two deliveries (a replaced one), two keys
(a rotation), two domains, values 0, the maximum and one past it; time runs to 3
with windows of 1, so that every deadline and expiry can be before, at and after
the clock. One signature in flight is enough because each signature is accepted
or refused on its own. `escrow_two` drops what `escrow_one` covers and keeps what
needs two jobs; with two jobs, a payee with code and amounts 1 and 2, a job's
payment can cross every operation of the other. The bounds `MaxTime`, `MaxJobs`,
`MaxSignatures` only appear in guards of `Tick`, `CreateJob` and `Sign`. In
`verification` the signatures are one of each severity, the token lists reach
past `MaxLayers`, and lengths lie on both sides of each limit. In `evaluation` two
calls suffice for each race named in the hazards (a slow evaluation against a
fast one, an upload against a decision); slots are reused, so any number of calls
happen one after another. In the watcher's runs a chain of 4 blocks with ranges of
2 and a rewind of 1 has room for a cold start past the first block, several
ticks per pass, and a reorganisation on each side of the watermark; one job may
be delivered in several blocks. `filestore` has a slot for each role in the race
(a read that loads, a mutation that completes, a mutation that overwrites) and a
second record to be overwritten; slots are reused.

`postgres` has what its races need: two processes to create the schema at once,
two calls to cross, one row that both want, and a late statement (`MaxLate` 1) to arrive
after either; null and one value tell a kept column from an erased one. In
`create_flow` two transactions (`MaxTxs`) are two buyers' jobs mined in either order, or
one buyer's job paid twice. `job_pages` has a deadline of 1 in a time of 2, hence
seconds before, at and after it; two transactions in the air (`MaxPending`), so that the calls
of both pages, or one given up on and its repetition, race; and one failure
(`MaxFailures`) at any place, of any kind; what takes two failures in a row is not
explored. `deployment` has an escrow on
each of two chains, at the same address, or two on one (`MaxDeploys`), and two keys to
confuse. The proofs of section 5 do not depend on these bounds.

**Deadlock** is not checked in `escrow_one`, `escrow_two` and `job_pages`, where jobs
close and the clock reaches its bound, and in `verification`, where a run ends.

**Fairness.** `Verification!Spec` has weak fairness of `Next`: the pipeline is
straight-line code, and the abort timer of `llm.ts` ends a call that gets no
answer. `Watcher!PollFairness` is the loop of `watch-chain.ts`, which polls for ever
whatever a tick throws; from some time on its ticks are not aborted and the chain
reorganises no more (`MaxHead` ends its growth). Nothing is assumed of other
ticks, of uploads or of evaluations. `JobPages!Fairness` is that of an open outcome
page and the person in front of it: it polls (`use-job.ts` polls for ever; its timer
is not stopped by errors), offered buttons are pressed and confirmed in the wallet,
requests are answered, transactions are mined, time passes. Nobody owes a delivery,
an upload, or an evaluation in the background: the provider may walk away and the host
may kill what it likes. The other modules have no liveness.

### Violation

| Run | Property | What happens |
|---|---|---|
| `cold_read` | `NothingIsLost` | two calls load the file at once |

## 4. Where code and documents disagree

One disagreement has a run. The others below are described by the models, by the
exceptions that properties name, or by the sources alone, as each paragraph says.

**The file store can lose a record** (`cold_read`). Reads do not queue. A read that
starts right after the process, before a mutation has filled the cache, and ends after
that mutation, replaces the cache by what the file was (`file-store.ts:40`);
reads then miss the mutated record, and the next mutation writes the file
without it. The header of the file says that it "must not lose a funded job's
brief". `StoredIsKept` and its theorem show that this is the only way: with one
load per process, nothing is lost.

**A re-delivery is not healed** (the exception `OldVerdict` of `MoneyLeaves`).
`GET /api/jobs/:id` evaluates when no verdict is stored at all
(`web/app/api/jobs/[jobId]/route.ts:56`), not when none is stored about the delivery
on chain. After a re-delivery whose background evaluation died, or was overtaken by a
slower evaluation of the earlier delivery, the stored verdict is about a delivery
that is no longer there, and no poll evaluates again; the page goes on offering
to settle with it, and the server goes on refusing to sign. `docs/deployment.md:182`
says that the GET "covers everything anyone looks at". Safety is not at stake
(`SignedVerdictReached`), and the evaluate route and the cron still can.

**A delivery whose upload failed** (the exception `NoText`). The deliver form's text is
sent after the transaction; if that fails, the form is gone as soon as the poll says
that the job is no longer `Funded`, and with it the only way to send the text from
the application. The delivery cannot be judged, and a delivered job cannot be
cancelled either. Another client with the provider's signature can still upload.

**One verdict per delivery** (`docs/architecture.md:70`): two concurrent
evaluations both find nothing stored, and can differ: the model answers one and not
the other, or answers them differently. So can two with `force`. If the key signs between the two writes, there are two valid
decisions for one delivery. The escrow accepts whichever comes first;
`PaidOnlyIfJudged` holds of both.

**The sweep passes by deliveries whose text is not there yet.** The watermark
moves whether or not the deliveries in the range could be judged
(`web/lib/watcher.ts:92`), and only the rewind brings it back. If the provider
uploads more than 12 blocks after its transaction was scanned, and the background
evaluation of the upload dies, the sweep never evaluates the job, though
`docs/architecture.md:243` says it is there to "Catch deliveries whose upload
succeeded but evaluation did not". A delivery that failed for a passing reason
is left behind in the same way, which the comment at line 83 intends. What the
sweep does promise is `EveryDeliveryTried`.

**A brief that could not be saved.** The comment at `create-job-form.tsx:123` says to
"surface it as a warning on the outcome page rather than as a failure here". The code
throws, and the form is back with its button. Pressing it funds a second job.
`NoticesAreTrue` shows that by then the form has said what happened to the first.

**The last second.** `isExpired` compares with `<=`, the contract with `<`: for one second
the page offers a cancellation that reverts, and does not offer a delivery that
would be accepted (the exception in `OffersFitContract`, which is about the former).

**A schema query that failed once** (`postgres-store.ts:148`). `this.ready` keeps the
rejected promise, so that every later call of this process fails until it is
restarted. `KeepsPromise` holds: they fail without effect.

**Health** does not look at the chain id that decisions carry, nor at the public
values in the bundle, though `docs/deployment.md:151` calls it the same check as
`chain:verify` "against the environment it actually loaded". `HealthTells` says
exactly how far it can be relied on.

**First writer wins** (`docs/architecture.md:251`) holds for posts of a brief one after
the other; two concurrent ones both look before either writes, and the last title
wins. And the **list of jobs** is cut to its limit before the records of other
deployments are taken out of it (`web/app/api/jobs/route.ts:39`).

## 5. The proofs

All theorems hold for every value of the constants under the named assumptions
of the modules.

**`AgentWorkEscrow_proofs`.** `TypeCorrect`, `PaymentCorrect` (`PaidAsJudged`),
`VerdictsCorrect` (`VerdictsAreSigned`) and `StagesCorrect`
(`StageTellsHistory`). The invariants speak of the storage *and* of every
ledger that a suspended call would restore; that is what makes them inductive,
since `PayFails` replaces the one by the other. `AmountFits` shows that accepted
amounts survive the truncation. `StepShapes` reduces the actions to four shapes: a
job is created, is advanced without payment, is closed with a payment, or the ledger is restored;
each invariant is then proved once per shape. `PaymentCorrect` needs types only:
an open job has paid nothing by the invariant itself, so a closing payment is the
first. `VerdictsCorrect` needs that signatures only grow and that a delivery
cannot change once a verdict is applied. `LocksAreShort` (`LockedAtMostAWindow`) is the
clock's monotonicity, for the suspended ledgers too. `PromiseKept` is the refinement
`KeepsPromise`. What the promise sees is the committed ledger: `frames`' copy while
a payment is suspended, the storage otherwise. `PendingInv` says how the two may
differ in between: one job is closed and paid, others have at most moved on without
payment. `PendingKept` keeps it through everything that a payee may do, and
`PendingShown` turns it into the one step of the promise that the commit is. A refused
payment, and each step during one, is a stutter. `JobsSeenRight` is the other half of
`KeepsPromise`, for each job by itself: `SeenInv` says that during a payment a job other
than the paid one has at most been created and delivered since, so that the commit,
which shows all of it at once, is a single step of `EscrowJob`.

`AlwaysSolvent` (`Solvent`) is about a sum over the jobs: `MapThenSumSet` is a recursive function
on the subsets of `JobId`, which the prover sees as the `CHOOSE` of a function with a given equation. That
such a function exists (`SumsExist`), and what becomes of it when one summand changes
(`SumsChange`), is induction over finite sets, done by hand: a set of
cardinalities where the claim fails would have a least element (`LeastNatural`). The invariant
is claimed of the suspended ledgers too, against the balance before their payment, and needs of the
constants that there are finitely many job ids.

**`Verification_proofs`.** `DecideMonotone`: more hits never improve a verdict.
`VerificationTypes`. `ScanCorrect`: the loop's invariant, that the hits recorded
are exactly those of the surfaces before the index. `LoopCorrect` adds which surface
each hit came from: the despaced reading is the last one (`DespacedLast`), and a hit is
downgraded exactly if no earlier one had it (`HitRight`). From these,
`FailSafe` (`GoNeedsEvidence`), `HostileRefunded` (`HostileIsRefunded`: blocking hits skip
the model and the first rules of the table refund), `UnavailableHolds`
(an unusable model holds the money) and `ScreeningCorrect` (`ScreeningFaithful`). `OutcomeInv` ties
the verdict and the scores to the table at the end of the run, and `ScoresRight`
(`ScoresAgree`) is the arithmetic of the clamps over every rule. `TokensInv` follows
the decoding of tokens: what was looked at is covered by a layer unless the list is
full; `EveryTokenScreened` (`TokensScreened`) needs in addition that the surfaces keep
the middle of the list when the despaced one is appended (`MiddleKept`).

`VerdictDetermined` (`VerdictIsFunction`) is functional correctness: the loops over tokens,
surfaces and signatures, with their lists, limits, `seen` sets and downgrades, arrive at
`VerdictOn`, which looks at the whole delivery at once. `DecodeInv` ties the list of layers to a
set: the first `MaxLayers` different things that tokens decode to, counted with
cardinalities (`DecodeTurn`). `ListedRead` does the same for the surfaces, `BlockingMeans` for
the hits: one blocks exactly if the delivery has a signature in plain sight that is not medium,
or a critical one that despacing brings out. So screening refuses a delivery always or never,
which `EvaluationService` assumes of it.

**`EvaluationService_proofs`.** `ServiceTypes`, `StoredVerdictsReached`,
`SignedVerdictsReached`, `PaidOnlyJudgedWork`, for any number of concurrent
calls, deliveries and both stores. None of the properties is inductive. `IInv`
adds what a handler knows at each await although everything it read may have
changed (`CallsKnow`: at `eval.verify` the text is the one that hashes to `seen`; at
`eval.put` the verdict is one that was concluded), that a text is stored only
where a brief is, that conclusions are possible ones, and that the verdict on
chain was signed for the delivery on chain. `UploadsKept` (`UploadKept`) holds of a store
that keeps columns, and assumes it: the file store does not.
`EscrowIsContract` says that `Escrow`, the contract's moves as the module has them, are those
of `EscrowJob` where no verdict is applied that the decision route has not signed: no more, and
no fewer, so that the theorems are not about a tamer contract. `ChainIsContract` is
the resulting refinement. That no one else signs is what the contract's
`VerdictsCorrect` and the custody of the key provide.

**`Watcher_proofs`.** `WatcherTypes` and `SweepMissesNothing`
(`NothingSlipsBehind`), for any chain, any number of overlapping ticks, and any
rewind shorter than the range. `IInv` says of a tick in flight (`Keeps`) that its
range starts where nothing is left to try and beyond the reach of a
reorganisation of the head it has seen, and later that what its watermark will
leave behind is tried or still on its list. With it, each `setWatermark` is safe
even when an older one overtakes it.

**`FileStore_proofs`.** `StoreTypes`, `StoredKept`, `ReadsCurrent`, `OnlyMutated`,
for any number of records and calls. `Proper` says that only the head of the queue
is past waiting; hence no mutation changes the object between another's write
and its rename (`Sound`), so that what becomes the file is the cached object as it
is. `Sound` and `Kept` are claimed only while `replaced` is false; `Near`, which
`OnlyMutated` rests on, always.

**`CreateFlow_proofs`.** `FormsTyped`, `DoneTellsTheTruth` (`DoneIsMine`) and
`NoticesTellTheTruth` (`NoticesAreTrue`), for any number of pages, briefs and transactions.
`LedgerOK` says that receipts and jobs name each other, one to one; that `jobCount` is the
number of receipts with an event (`Logged`, a finite set whose cardinality grows by
one with each job) is what bounds ids by transactions. `PageOK` says
of each page, by phase, that its `txHash` is its own transaction with the brief typed,
its `jobId` that transaction's job, and that an answer `stored` means that the record holds the brief.
Everything else only grows (`Grows`, `RecordsGrow`), so that what other pages do keeps `PageOK`
(`PageStays`).

**`PostgresStore_proofs`.** `StoreTyped`, `NothingForgotten` (`ColumnsKept`) and `PromiseKept`
(`KeepsPromise`), for any processes, calls, rows and values. The type invariant holds
what the refinement needs: a call under way has a process and a request, and nothing
is sent before the tables exist. `RunApplies` is the core: the statements, as written
in SQL, do to a row what the promise says; `FailShown` maps every way to give up on
calls to the promise's `Fail`.

**`Application_proofs`**, of `JobPages`: `PagesTyped`, `DoneForGood` (`DoneIsSafe`),
`OffersAreSound` (`OffersFitContract`) and `PagesKeepContract`, for any pages, texts,
failures and transactions in the air. A page that is done has only its last step
behind it; what that step saw depends on what was sent before and may have been
mined without a page to hear of it. `IInv` therefore follows the transactions: a
receipt that a page waits for is of the call it made (`ReceiptsMatch`), what a page is
doing and what is in the air could have been sent (`CallsKnown`, `SendsKnown`), and the job and the stored
verdict name deliveries that exist (`HashKnown`, `Judged`). A step by a page is a turn (it goes on),
a receipt, or `LetsGo`; each keeps the invariant once and for all (`PageTurns`,
`ReceiptKeeps`, `LetsGoKeeps`). `PagesKeepContract`: whatever is sent, lost, repeated
or sent from elsewhere, the job moves along `EscrowJob`, as the contract's does by `JobsSeenRight`.

Of `Deployment`: `DeploymentTypes`, `Certified` (`CertifiedSettles`) and `HealthIsRight`
(`HealthTells`), for any chains, keys and number of deployments. The two answers are
about the state as it is, so that they hold after any order of steps; of the past
they need that every escrow trusts a key, for an unset key would match an unset
signer.

**Checked by TLC only**: the liveness properties `Terminates`, `EveryDeliveryTried` and
`MoneyLeaves`. They rest on fairness, hence on `ENABLED`, which the prover does not
handle. Every invariant and every refinement that a run checks has a theorem.

## 6. What is not modelled

- `evidenceHash`, events and gas of the contract; ether forced into it.
- What a regular expression matches and how a reading is computed.
- The canonical JSON of the evidence and its hashing; EIP-712 encoding; the message
  that authorises an upload. What signatures bind is modelled, not how.
- The prompt, and that the model sees only the first 24,000 characters: it is told so,
  and it may answer anything in `Verification`.
- The speed of a chain against the schedule of the sweep (at most 5,000 blocks a
  tick, one tick a day in `vercel.json`).
- `web/lib/public-view.ts` beyond what the outcome page decides on: it is a projection
  of what the modules keep. No page reads its `current` flag.
- The order and limit of `listJobs`, which feed a display.
- The network switch in the forms, their wording and validation; pages, styles, ABI.
- The rate limiter and input validation, which only refuse: in the models a refusal
  is a failed call.
- `.env.local` and the process environment, which the scripts merge with `.env`.
- `scripts/e2e-local.mjs`, a test that drives parts that the modules model.

## 7. Plan

What the project could still gain, in this order:

1. `FileStore` against `StorePromise`, as far as `replaced` allows. Its mutations apply in the
   object before they are on disk, so that a crash takes back what a read has seen.
2. `JobPages` with two failures in a row, for which the state space has to be cut
   (one page at a time), and with `EvaluationService` in place of its one-step handlers.

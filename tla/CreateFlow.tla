----------------------------- MODULE CreateFlow -----------------------------
(***************************************************************************)
(* Funding a job from the browser: create-job-form.tsx in several open     *)
(* pages, the wallets and the chain behind them, and POST /api/jobs.       *)
(*                                                                         *)
(* submit() is one asynchronous run over five phases, and every await is a *)
(* place where it fails, where other pages' jobs are mined, or where the   *)
(* page is reloaded and forgets everything.  What it has sent by then goes *)
(* on without it: a pending transaction is mined, a request is handled.    *)
(*                                                                         *)
(* Abstracted: the fields other than the brief, taken to pass their        *)
(* validation, and the wallet, taken to be connected to the right chain; a *)
(* brief is identified with its keccak256; receipts are final (no          *)
(* reorganisation renumbers a job).  The handler of the POST is one step   *)
(* here: EvaluationService takes its awaits apart.                         *)
(***************************************************************************)
EXTENDS Integers

CONSTANTS
    Pages,      \* open pages with the form, one buyer each
    Briefs,     \* texts (and hashes) a buyer may type
    None,       \* null, the empty field
    MaxTxs      \* bound: the number of createJob transactions ever sent

ASSUME BoundAssumption == MaxTxs \in Nat

VARIABLES
    phase, brief, notice, txHash, jobId,  \* the form's state, per page
    reply,     \* reply[p]: what the server has answered to p's last POST
    posts,     \* POSTs on their way to the server
    sent,      \* the number of transactions sent
    txs,       \* the transactions, and their receipts
    jobCount,  \* the escrow's jobCount
    jobs,      \* the escrow's _jobs: the transaction that created it, its briefHash
    records    \* the store: the brief of each job, None while not stored

form == <<phase, brief, notice, txHash, jobId>>
server == <<reply, posts, records>>
ledger == <<sent, txs, jobCount, jobs>>
vars == <<form, server, ledger>>

Id == 1..MaxTxs
Phase == {"idle", "signing", "confirming", "storing", "done"}
Notice == {"wallet", "reverted", "unread", "unsaved", "unknown"}
Reply == {"stored", "refused"}

ASSUME NoneAssumption == None \notin Pages \cup Briefs \cup Notice \cup Reply

NoTx == [page |-> None, brief |-> None, status |-> "unsent", log |-> 0]
NoJob == [tx |-> 0, brief |-> None]

Init ==
    /\ phase = [p \in Pages |-> "idle"]
    /\ brief = [p \in Pages |-> None]
    /\ notice = [p \in Pages |-> None]
    /\ txHash = [p \in Pages |-> 0]
    /\ jobId = [p \in Pages |-> 0]
    /\ reply = [p \in Pages |-> None]
    /\ posts = {}
    /\ sent = 0
    /\ txs = [t \in Id |-> NoTx]
    /\ jobCount = 0
    /\ jobs = [j \in Id |-> NoJob]
    /\ records = [j \in Id |-> None]

-----------------------------------------------------------------------------
(* Faulty variants, used by the mutants of PROJECT.json only.              *)

\* The job id guessed from jobCount once the receipt is there.
GuessedId(t) == jobCount

\* The job id as the next one to be given out.
NextId(t) == jobCount + 1

\* submit() without its setError(null).
SubmitKeepsNotice(p) ==
    /\ brief[p] # None /\ phase[p] = "idle"
    /\ phase' = [phase EXCEPT ![p] = "signing"]
    /\ UNCHANGED <<brief, notice, txHash, jobId, server, ledger>>

-----------------------------------------------------------------------------
(* The form.                                                               *)

\* The fields are disabled while busy, and replaced once done.
Editable(p) == phase[p] = "idle"

Edit(p, text) ==
    /\ Editable(p)
    /\ brief' = [brief EXCEPT ![p] = text]
    /\ UNCHANGED <<phase, notice, txHash, jobId, server, ledger>>

CanSubmit(p) == brief[p] # None /\ phase[p] = "idle"

\* The previous txHash and jobId stay until they are replaced.
Submit(p) ==
    /\ CanSubmit(p)
    /\ notice' = [notice EXCEPT ![p] = None]
    /\ phase' = [phase EXCEPT ![p] = "signing"]
    /\ UNCHANGED <<brief, txHash, jobId, server, ledger>>

\* The catch of submit().
Fails(p, what) ==
    /\ notice' = [notice EXCEPT ![p] = what]
    /\ phase' = [phase EXCEPT ![p] = "idle"]
    /\ UNCHANGED <<brief, txHash, jobId>>

Broadcast(p) ==
    /\ sent < MaxTxs
    /\ sent' = sent + 1
    /\ txs' = [txs EXCEPT ![sent + 1] =
                 [page |-> p, brief |-> brief[p], status |-> "pending", log |-> 0]]
    /\ UNCHANGED <<jobCount, jobs>>

\* writeContractAsync resolves with the hash of the transaction sent.
WalletSends(p) ==
    /\ phase[p] = "signing"
    /\ Broadcast(p)
    /\ txHash' = [txHash EXCEPT ![p] = sent + 1]
    /\ phase' = [phase EXCEPT ![p] = "confirming"]
    /\ UNCHANGED <<brief, notice, jobId, server>>

\* It rejects: the buyer declined, or the wallet lost the node it sent to.
WalletFails(p) ==
    /\ phase[p] = "signing"
    /\ Fails(p, "wallet")
    /\ Broadcast(p) \/ UNCHANGED ledger
    /\ UNCHANGED server

\* The receipt's status.
Succeeded(t) == txs[t].status \in {"success", "cancelled"}

\* The JobCreated event among the receipt's logs.
LoggedId(t) == txs[t].log

ReceiptArrives(p) ==
    LET t == txHash[p] IN
    /\ phase[p] = "confirming"
    /\ txs[t].status # "pending"
    /\ \/ /\ ~Succeeded(t)
          /\ Fails(p, "reverted")
          /\ UNCHANGED server
       \/ /\ Succeeded(t) /\ LoggedId(t) = 0
          /\ Fails(p, "unread")
          /\ UNCHANGED server
       \/ /\ Succeeded(t) /\ LoggedId(t) # 0
          /\ jobId' = [jobId EXCEPT ![p] = LoggedId(t)]
          /\ phase' = [phase EXCEPT ![p] = "storing"]
          /\ posts' = posts \cup {[page |-> p, job |-> LoggedId(t), brief |-> brief[p]]}
          /\ reply' = [reply EXCEPT ![p] = None]
          /\ UNCHANGED <<brief, notice, txHash, records>>
    /\ UNCHANGED ledger

\* waitForTransactionReceipt gives up; the transaction may yet be mined.
ReceiptIsLost(p) ==
    /\ phase[p] = "confirming"
    /\ Fails(p, "unknown")
    /\ UNCHANGED <<server, ledger>>

PostAnswered(p) ==
    /\ phase[p] = "storing"
    /\ \/ /\ reply[p] = "stored"
          /\ phase' = [phase EXCEPT ![p] = "done"]
          /\ UNCHANGED <<brief, notice, txHash, jobId>>
       \/ reply[p] = "refused" /\ Fails(p, "unsaved")
    /\ UNCHANGED <<server, ledger>>

\* fetch throws, though the server may have handled the request or still will.
PostIsLost(p) ==
    /\ phase[p] = "storing"
    /\ Fails(p, "unknown")
    /\ UNCHANGED <<server, ledger>>

\* Closed and opened again: the state of the form is gone.
Reload(p) ==
    /\ phase' = [phase EXCEPT ![p] = "idle"]
    /\ brief' = [brief EXCEPT ![p] = None]
    /\ notice' = [notice EXCEPT ![p] = None]
    /\ txHash' = [txHash EXCEPT ![p] = 0]
    /\ jobId' = [jobId EXCEPT ![p] = 0]
    /\ UNCHANGED <<server, ledger>>

-----------------------------------------------------------------------------
(* The chain.                                                              *)

\* createJob is executed: the receipt carries the new id.
Mined(t) ==
    /\ txs[t].status = "pending"
    /\ jobCount' = jobCount + 1
    /\ jobs' = [jobs EXCEPT ![jobCount + 1] = [tx |-> t, brief |-> txs[t].brief]]
    /\ txs' = [txs EXCEPT ![t].status = "success", ![t].log = jobCount + 1]
    /\ UNCHANGED <<form, server, sent>>

\* It reverts, or the buyer cancels it in the wallet: then the receipt that
\* arrives is the one of the empty transaction that took its place.
NotMined(t) ==
    /\ txs[t].status = "pending"
    /\ \E status \in {"reverted", "cancelled"} :
          txs' = [txs EXCEPT ![t].status = status]
    /\ UNCHANGED <<form, server, sent, jobCount, jobs>>

-----------------------------------------------------------------------------
(* POST /api/jobs.                                                         *)

\* The page still waits for this very request.
Awaits(p, post) ==
    p = post.page /\ phase[p] = "storing" /\ jobId[p] = post.job /\ reply[p] = None

Answer(post, answer) ==
    reply' = [p \in Pages |-> IF Awaits(p, post) THEN answer ELSE reply[p]]

Matches(j, text) == j <= jobCount /\ jobs[j].brief = text

\* First writer wins.
Stored(j, text) == [records EXCEPT ![j] = IF @ = None THEN text ELSE @]

PostStores(post) ==
    /\ post \in posts
    /\ Matches(post.job, post.brief)
    /\ records' = Stored(post.job, post.brief)
    /\ Answer(post, "stored")
    /\ posts' = posts \ {post}
    /\ UNCHANGED <<form, ledger>>

\* The hash differs; or the node asked does not know the job yet, or the store
\* fails, before its write or after it.
PostRefused(post) ==
    /\ post \in posts
    /\ \/ UNCHANGED records
       \/ Matches(post.job, post.brief) /\ records' = Stored(post.job, post.brief)
    /\ Answer(post, "refused")
    /\ posts' = posts \ {post}
    /\ UNCHANGED <<form, ledger>>

\* Anyone can post anything.
ForeignPost(j, text) ==
    /\ Matches(j, text)
    /\ records' = Stored(j, text)
    /\ UNCHANGED <<form, reply, posts, ledger>>

-----------------------------------------------------------------------------
PageStep(p) ==
    \/ \E text \in Briefs : Edit(p, text)
    \/ Submit(p)
    \/ WalletSends(p) \/ WalletFails(p)
    \/ ReceiptArrives(p) \/ ReceiptIsLost(p)
    \/ PostAnswered(p) \/ PostIsLost(p)
    \/ Reload(p)

Next ==
    \/ \E p \in Pages : PageStep(p)
    \/ \E t \in Id : Mined(t) \/ NotMined(t)
    \/ \E j \in Id, text \in Briefs : ForeignPost(j, text)
    \/ \E post \in posts : PostStores(post) \/ PostRefused(post)

Spec == Init /\ [][Next]_vars

-----------------------------------------------------------------------------
(* Properties.                                                             *)

\* Types; ids are dense, and each job knows the transaction that made it.
TypeOK ==
    /\ phase \in [Pages -> Phase]
    /\ brief \in [Pages -> Briefs \cup {None}]
    /\ notice \in [Pages -> Notice \cup {None}]
    /\ txHash \in [Pages -> 0..sent]
    /\ jobId \in [Pages -> 0..jobCount]
    /\ reply \in [Pages -> Reply \cup {None}]
    /\ posts \subseteq [page : Pages, job : Id, brief : Briefs]
    /\ sent \in 0..MaxTxs
    /\ txs \in [Id -> [page : Pages \cup {None}, brief : Briefs \cup {None},
                       status : {"unsent", "pending", "success", "reverted", "cancelled"},
                       log : 0..jobCount]]
    /\ jobCount \in 0..sent
    /\ jobs \in [Id -> [tx : 0..sent, brief : Briefs \cup {None}]]
    /\ records \in [Id -> Briefs \cup {None}]

\* A page that says "Job #n is funded" names the job that its own transaction
\* paid for, whoever else was mined meanwhile, and the brief the provider will
\* read under that number is the one typed here.
DoneIsMine ==
    \A p \in Pages : phase[p] = "done" =>
        /\ jobs[jobId[p]].tx = txHash[p]
        /\ txs[txHash[p]].page = p
        /\ records[jobId[p]] = brief[p]

\* What the form says about the money is so: after "Nothing was charged" no
\* job exists for the transaction shown, after "Funds are escrowed and job #n
\* exists" job n does, paid for by that transaction; and while the button would
\* pay again after a transaction was sent from here, the form says something.
NoticesAreTrue ==
    \A p \in Pages :
        /\ notice[p] = "reverted" => \A j \in Id : jobs[j].tx # txHash[p]
        /\ notice[p] = "unsaved" => jobId[p] # 0 /\ jobs[jobId[p]].tx = txHash[p]
        /\ phase[p] = "idle" /\ txHash[p] # 0 => notice[p] # None

=============================================================================

------------------------- MODULE CreateFlow_proofs -------------------------
(* What a page may say about the money it sent, for any number of pages,    *)
(* briefs and transactions: proofs checked by TLAPS.  The argument follows   *)
(* the receipt: the ledger ties each job to the one transaction that made    *)
(* it, and a page holds nothing but its own transaction and that one's log.  *)
EXTENDS CreateFlow, FiniteSetTheorems, TLAPS

FormTypes ==
    /\ phase \in [Pages -> Phase]
    /\ brief \in [Pages -> Briefs \cup {None}]
    /\ notice \in [Pages -> Notice \cup {None}]
    /\ txHash \in [Pages -> 0..sent]
    /\ jobId \in [Pages -> 0..jobCount]

ServerTypes ==
    /\ reply \in [Pages -> Reply \cup {None}]
    /\ posts \subseteq [page : Pages, job : Id, brief : Briefs]
    /\ records \in [Id -> Briefs \cup {None}]

Status == {"unsent", "pending", "success", "reverted", "cancelled"}
Tx(top) == [page : Pages \cup {None}, brief : Briefs \cup {None}, status : Status, log : 0..top]
Job(last) == [tx : 0..last, brief : Briefs \cup {None}]

LedgerTypes ==
    /\ sent \in 0..MaxTxs
    /\ txs \in [Id -> Tx(jobCount)]
    /\ jobCount \in 0..sent
    /\ jobs \in [Id -> Job(sent)]

Logged == {t \in Id : txs[t].log # 0}

\* Receipts and jobs name each other; every job has a receipt of its own, so
\* that there are no more jobs than transactions.
LedgerOK ==
    /\ \A t \in Id : t > sent => txs[t] = NoTx
    /\ \A t \in Id : t <= sent => txs[t].status # "unsent" /\ txs[t].brief \in Briefs
    /\ \A t \in Id : txs[t].log # 0 <=> txs[t].status = "success"
    /\ \A t \in Id : txs[t].log # 0 =>
          jobs[txs[t].log].tx = t /\ jobs[txs[t].log].brief = txs[t].brief
    /\ \A j \in Id : j <= jobCount => jobs[j].tx # 0 /\ txs[jobs[j].tx].log = j
    /\ \A j \in Id : j > jobCount => jobs[j] = NoJob
    /\ Cardinality(Logged) = jobCount

\* Only the brief that a job's hash commits to is ever stored.
RecordsOK ==
    \A j \in Id : records[j] # None => j <= jobCount /\ records[j] = jobs[j].brief

\* What a page knows in each phase, and behind each notice.
PageOK(p) ==
    /\ phase[p] # "idle" => brief[p] \in Briefs
    /\ phase[p] \in {"confirming", "storing", "done"} =>
          txHash[p] # 0 /\ txs[txHash[p]].page = p /\ txs[txHash[p]].brief = brief[p]
    /\ phase[p] \in {"storing", "done"} => jobId[p] # 0 /\ txs[txHash[p]].log = jobId[p]
    /\ phase[p] = "storing" /\ reply[p] = "stored" => records[jobId[p]] = brief[p]
    /\ phase[p] = "done" => records[jobId[p]] = brief[p]
    /\ notice[p] # None => phase[p] = "idle"
    /\ notice[p] = "reverted" => txHash[p] # 0 /\ txs[txHash[p]].status = "reverted"
    /\ notice[p] = "unsaved" => txHash[p] # 0 /\ jobId[p] # 0 /\ txs[txHash[p]].log = jobId[p]
    /\ phase[p] = "idle" /\ txHash[p] # 0 => notice[p] # None

IInv ==
    /\ FormTypes /\ ServerTypes /\ LedgerTypes
    /\ LedgerOK
    /\ RecordsOK
    /\ \A p \in Pages : PageOK(p)

LEMMA TypeParts == TypeOK <=> FormTypes /\ ServerTypes /\ LedgerTypes
BY DEF TypeOK, FormTypes, ServerTypes, LedgerTypes, Tx, Job, Status

-----------------------------------------------------------------------------
(* The ledger only grows.                                                  *)

Grows ==
    /\ sent' >= sent /\ jobCount' >= jobCount
    /\ \A t \in Id : t <= sent =>
          /\ txs'[t].page = txs[t].page /\ txs'[t].brief = txs[t].brief
          /\ txs[t].log # 0 => txs'[t].log = txs[t].log
          /\ txs[t].status # "pending" => txs'[t].status = txs[t].status
    /\ \A j \in Id : j <= jobCount => jobs'[j] = jobs[j]

LEMMA Still ==
    ASSUME IInv, UNCHANGED ledger
    PROVE  LedgerTypes' /\ LedgerOK' /\ Grows
<1>1. sent' = sent /\ txs' = txs /\ jobCount' = jobCount /\ jobs' = jobs
  BY DEF ledger
<1>2. Logged' = Logged
  BY <1>1 DEF Logged
<1>3. LedgerTypes' /\ LedgerOK'
  BY <1>1, <1>2 DEF IInv, LedgerTypes, LedgerOK
<1> QED
  BY <1>1, <1>3, BoundAssumption DEF IInv, LedgerTypes, Grows

LEMMA IdFinite == IsFiniteSet(Id) /\ Cardinality(Id) = MaxTxs
BY FS_Interval, BoundAssumption DEF Id

LEMMA LoggedFinite == IsFiniteSet(Logged)
BY IdFinite, FS_Subset DEF Logged

\* A transaction that is pending leaves room for a job.
LEMMA Room ==
    ASSUME IInv, NEW t \in Id, txs[t].status = "pending"
    PROVE  t <= sent /\ jobCount < sent /\ txs[t].log = 0
<1>1. sent \in 0..MaxTxs /\ jobCount \in 0..sent /\ t \in 1..MaxTxs /\ MaxTxs \in Nat
  BY BoundAssumption DEF IInv, LedgerTypes, Id
<1>2. t <= sent
  <2>1. t > sent => txs[t].status = "unsent"
    BY DEF IInv, LedgerOK, NoTx
  <2> QED
    BY <1>1, <2>1
<1>3. txs[t].log = 0
  BY DEF IInv, LedgerOK
<1>4. Logged \subseteq (1..sent) \ {t}
  <2> SUFFICES ASSUME NEW u \in Logged PROVE u \in (1..sent) \ {t}
    OBVIOUS
  <2>1. u \in Id /\ txs[u].log # 0
    BY DEF Logged
  <2>2. u > sent => txs[u].log = 0
    BY <2>1 DEF IInv, LedgerOK, NoTx
  <2> QED
    BY <1>1, <1>3, <2>1, <2>2 DEF Id
<1>5. IsFiniteSet(1..sent) /\ Cardinality(1..sent) = sent
  BY <1>1, FS_Interval
<1>6. IsFiniteSet((1..sent) \ {t}) /\ Cardinality((1..sent) \ {t}) = sent - 1
  <2>1. t \in 1..sent
    BY <1>1, <1>2
  <2> QED
    BY <1>5, <2>1, FS_RemoveElement
<1>7. Cardinality(Logged) <= sent - 1
  BY <1>4, <1>6, FS_Subset
<1> QED
  BY <1>1, <1>2, <1>3, <1>7 DEF IInv, LedgerOK

LEMMA BroadcastGrows ==
    ASSUME IInv, NEW p \in Pages, brief[p] \in Briefs, Broadcast(p)
    PROVE  /\ LedgerTypes' /\ LedgerOK' /\ Grows
           /\ sent' = sent + 1 /\ sent + 1 \in Id
           /\ txs'[sent + 1].page = p /\ txs'[sent + 1].brief = brief[p]
<1> DEFINE new == [page |-> p, brief |-> brief[p], status |-> "pending", log |-> 0]
<1>1. /\ sent \in 0..MaxTxs /\ sent < MaxTxs /\ MaxTxs \in Nat /\ jobCount \in 0..sent
      /\ sent + 1 \in Id /\ sent' = sent + 1
      /\ UNCHANGED <<jobCount, jobs>>
  BY BoundAssumption DEF IInv, LedgerTypes, Broadcast, Id
<1>2. txs' = [txs EXCEPT ![sent + 1] = new] /\ txs \in [Id -> Tx(jobCount)]
  BY DEF IInv, LedgerTypes, Broadcast
<1>3. new \in Tx(jobCount) /\ new.page = p /\ new.brief = brief[p]
      /\ new.status = "pending" /\ new.log = 0
  BY <1>1 DEF Tx, Status
<1> HIDE DEF new
<1>4. /\ txs' \in [Id -> Tx(jobCount)]
      /\ txs'[sent + 1] = new
      /\ \A t \in Id : t # sent + 1 => txs'[t] = txs[t]
  BY <1>1, <1>2, <1>3
<1>5. jobs' \in [Id -> Job(sent')]
  <2>1. jobs \in [Id -> Job(sent)] /\ 0..sent \subseteq 0..sent'
    BY <1>1 DEF IInv, LedgerTypes
  <2>2. Job(sent) \subseteq Job(sent')
    BY <2>1 DEF Job
  <2> QED
    BY <1>1, <2>1, <2>2
<1>6. LedgerTypes'
  BY <1>1, <1>4, <1>5 DEF LedgerTypes
<1>7. txs[sent + 1] = NoTx /\ txs[sent + 1].log = 0
  BY <1>1 DEF IInv, LedgerOK, NoTx
<1>8. Logged' = Logged
  BY <1>1, <1>3, <1>4, <1>7 DEF Logged
<1>9. LedgerOK'
  <2>1. \A t \in Id : t > sent' => txs'[t] = NoTx
    BY <1>1, <1>4 DEF IInv, LedgerOK, Id
  <2>2. \A t \in Id : t <= sent' => txs'[t].status # "unsent" /\ txs'[t].brief \in Briefs
    BY <1>1, <1>3, <1>4 DEF IInv, LedgerOK, Id
  <2>3. \A t \in Id : txs'[t].log # 0 <=> txs'[t].status = "success"
    BY <1>3, <1>4 DEF IInv, LedgerOK
  <2>4. \A t \in Id : txs'[t].log # 0 =>
          jobs'[txs'[t].log].tx = t /\ jobs'[txs'[t].log].brief = txs'[t].brief
    BY <1>1, <1>3, <1>4 DEF IInv, LedgerOK
  <2>5. \A j \in Id : j <= jobCount' => jobs'[j].tx # 0 /\ txs'[jobs'[j].tx].log = j
    <3> SUFFICES ASSUME NEW j \in Id, j <= jobCount
                 PROVE  jobs[j].tx # 0 /\ txs'[jobs[j].tx].log = j
      BY <1>1
    <3>1. jobs[j].tx # 0 /\ txs[jobs[j].tx].log = j /\ j # 0
      BY DEF IInv, LedgerOK, Id
    <3>2. jobs[j].tx \in 0..sent
      BY DEF IInv, LedgerTypes, Job
    <3>3. jobs[j].tx \in Id /\ jobs[j].tx # sent + 1
      BY <1>1, <3>1, <3>2 DEF Id
    <3> QED
      BY <1>4, <3>1, <3>3
  <2>6. \A j \in Id : j > jobCount' => jobs'[j] = NoJob
    BY <1>1 DEF IInv, LedgerOK
  <2>7. Cardinality(Logged') = jobCount'
    BY <1>1, <1>8 DEF IInv, LedgerOK
  <2> QED
    BY <2>1, <2>2, <2>3, <2>4, <2>5, <2>6, <2>7 DEF LedgerOK
<1>10. Grows
  BY <1>1, <1>4 DEF Grows, Id
<1> QED
  BY <1>1, <1>3, <1>4, <1>6, <1>9, <1>10

LEMMA MinedGrows ==
    ASSUME IInv, NEW t \in Id, Mined(t)
    PROVE  LedgerTypes' /\ LedgerOK' /\ Grows
<1> DEFINE n == jobCount + 1
<1> DEFINE job == [tx |-> t, brief |-> txs[t].brief]
<1> DEFINE receipt == [page |-> txs[t].page, brief |-> txs[t].brief,
                       status |-> "success", log |-> n]
<1>1. /\ sent \in 0..MaxTxs /\ MaxTxs \in Nat /\ jobCount \in 0..sent
      /\ sent' = sent /\ jobCount' = n
      /\ t <= sent /\ jobCount < sent /\ txs[t].log = 0 /\ txs[t].status = "pending"
  BY BoundAssumption, Room DEF IInv, LedgerTypes, Mined
<1>2. n \in Id /\ n \in 1..sent /\ n > jobCount /\ t \in Id /\ t # 0
  BY <1>1 DEF Id
<1>3. txs \in [Id -> Tx(jobCount)] /\ txs[t] \in Tx(jobCount) /\ txs[t].brief \in Briefs
  BY <1>1 DEF IInv, LedgerTypes, LedgerOK
<1>4. receipt \in Tx(n) /\ receipt.status = "success" /\ receipt.log = n
      /\ receipt.brief = txs[t].brief /\ receipt.page = txs[t].page
  <2>1. n \in 0..n
    BY <1>1
  <2>2. txs[t].page \in Pages \cup {None} /\ txs[t].brief \in Briefs \cup {None}
    BY <1>3 DEF Tx
  <2> HIDE DEF n
  <2> QED
    BY <2>1, <2>2 DEF Tx, Status
<1>5. job \in Job(sent) /\ job.tx = t /\ job.brief = txs[t].brief
  <2>1. t \in 0..sent
    BY <1>1 DEF Id
  <2> QED
    BY <1>3, <2>1 DEF Job
<1>6. jobs' = [jobs EXCEPT ![n] = job] /\ jobs \in [Id -> Job(sent)]
  BY DEF IInv, LedgerTypes, Mined
<1>7. txs' = [txs EXCEPT ![t] = receipt]
  <2>1. txs' = [txs EXCEPT ![t] = [txs[t] EXCEPT !.status = "success", !.log = n]]
    BY <1>2, <1>3 DEF Mined
  <2> HIDE DEF n
  <2>2. [txs[t] EXCEPT !.status = "success", !.log = n] = receipt
    <3> DEFINE r == txs[t]
    <3> DEFINE q == [r EXCEPT !.status = "success"]
    <3>1. q = [page |-> r.page, brief |-> r.brief, status |-> "success", log |-> r.log]
      <4>1. r \in Tx(jobCount)
        BY <1>3
      <4> HIDE DEF r
      <4> QED
        BY <4>1 DEF Tx
    <3>2. [r EXCEPT !.status = "success", !.log = n] = [q EXCEPT !.log = n]
      OBVIOUS
    <3>3. [q EXCEPT !.log = n] =
          [page |-> r.page, brief |-> r.brief, status |-> "success", log |-> n]
      <4> HIDE DEF q, r
      <4> QED
        BY <3>1
    <3> QED
      BY <3>2, <3>3
  <2> QED
    BY <2>1, <2>2
<1> HIDE DEF job, receipt
<1>8. jobs' \in [Id -> Job(sent)] /\ jobs'[n] = job /\ \A j \in Id : j # n => jobs'[j] = jobs[j]
  BY <1>2, <1>5, <1>6
<1>9. txs' \in [Id -> Tx(n)] /\ txs'[t] = receipt /\ \A u \in Id : u # t => txs'[u] = txs[u]
  <2>1. Tx(jobCount) \subseteq Tx(n)
    BY <1>1 DEF Tx
  <2> QED
    BY <1>3, <1>4, <1>7, <2>1
<1>10. \A u \in Id : txs[u].log \in 0..jobCount
  BY <1>3 DEF Tx
<1> HIDE DEF n
<1>11. LedgerTypes'
  <2>1. n \in 0..sent
    BY <1>1, <1>2
  <2> QED
    BY <1>1, <1>8, <1>9, <2>1 DEF LedgerTypes
<1>12. Cardinality(Logged') = jobCount'
  <2>1. txs'[t].log # 0 /\ \A u \in Id : u # t => txs'[u] = txs[u]
    BY <1>2, <1>4, <1>9
  <2>4. Logged' = Logged \cup {t} /\ t \notin Logged
    <3>1. Logged' = {u \in Id : txs'[u].log # 0}
      BY DEF Logged
    <3> QED
      BY <1>1, <1>2, <2>1, <3>1 DEF Logged
  <2>2. Cardinality(Logged \cup {t}) = Cardinality(Logged) + 1
    BY <2>4, LoggedFinite, FS_AddElement
  <2>3. n = jobCount + 1
    BY DEF n
  <2> QED
    BY <1>1, <2>2, <2>3, <2>4 DEF IInv, LedgerOK
<1>13. LedgerOK'
  <2>1. \A u \in Id : u > sent' => txs'[u] = NoTx
    BY <1>1, <1>9 DEF IInv, LedgerOK, Id
  <2>2. \A u \in Id : u <= sent' => txs'[u].status # "unsent" /\ txs'[u].brief \in Briefs
    BY <1>1, <1>3, <1>4, <1>9 DEF IInv, LedgerOK, Id
  <2>3. \A u \in Id : txs'[u].log # 0 <=> txs'[u].status = "success"
    BY <1>1, <1>2, <1>4, <1>9 DEF IInv, LedgerOK
  <2>4. ASSUME NEW u \in Id, txs'[u].log # 0
        PROVE  jobs'[txs'[u].log].tx = u /\ jobs'[txs'[u].log].brief = txs'[u].brief
    <3>1. CASE u = t
      BY <1>4, <1>5, <1>8, <1>9, <3>1
    <3>2. CASE u # t
      <4>1. txs'[u] = txs[u] /\ txs[u].log # 0
        BY <1>9, <2>4, <3>2
      <4>2. txs[u].log \in Id /\ txs[u].log # n
        BY <1>1, <1>2, <1>10, <4>1 DEF Id
      <4>3. jobs'[txs[u].log] = jobs[txs[u].log]
        BY <1>8, <4>2
      <4> QED
        BY <4>1, <4>3 DEF IInv, LedgerOK
    <3> QED
      BY <3>1, <3>2
  <2>5. ASSUME NEW j \in Id, j <= jobCount'
        PROVE  jobs'[j].tx # 0 /\ txs'[jobs'[j].tx].log = j
    <3>1. CASE j = n
      BY <1>2, <1>4, <1>5, <1>8, <1>9, <3>1
    <3>2. CASE j # n
      <4>1. j <= jobCount /\ j # 0
        BY <1>1, <2>5, <3>2 DEF n, Id
      <4>2. jobs'[j] = jobs[j] /\ jobs[j].tx # 0 /\ txs[jobs[j].tx].log = j
        BY <1>8, <3>2, <4>1 DEF IInv, LedgerOK
      <4>3. jobs[j].tx \in 0..sent
        BY DEF IInv, LedgerTypes, Job
      <4>4. jobs[j].tx \in Id /\ jobs[j].tx # t
        BY <1>1, <4>1, <4>2, <4>3 DEF Id
      <4> QED
        BY <1>9, <4>2, <4>4
    <3> QED
      BY <3>1, <3>2
  <2>6. \A j \in Id : j > jobCount' => jobs'[j] = NoJob
    BY <1>1, <1>8 DEF IInv, LedgerOK, n, Id
  <2> QED
    BY <1>12, <2>1, <2>2, <2>3, <2>4, <2>5, <2>6 DEF LedgerOK
<1>14. Grows
  <2>1. sent' >= sent /\ jobCount' >= jobCount
    BY <1>1, <1>2
  <2>2. ASSUME NEW u \in Id
        PROVE  /\ txs'[u].page = txs[u].page /\ txs'[u].brief = txs[u].brief
               /\ txs[u].log # 0 => txs'[u].log = txs[u].log
               /\ txs[u].status # "pending" => txs'[u].status = txs[u].status
    BY <1>1, <1>4, <1>9
  <2>3. \A j \in Id : j <= jobCount => jobs'[j] = jobs[j]
    BY <1>1, <1>2, <1>8
  <2> QED
    BY <2>1, <2>2, <2>3 DEF Grows
<1> QED
  BY <1>11, <1>13, <1>14

LEMMA NotMinedGrows ==
    ASSUME IInv, NEW t \in Id, NotMined(t)
    PROVE  LedgerTypes' /\ LedgerOK' /\ Grows
<1>1. PICK status \in {"reverted", "cancelled"} : txs' = [txs EXCEPT ![t].status = status]
  BY DEF NotMined
<1> DEFINE receipt == [txs[t] EXCEPT !.status = status]
<1>2. /\ sent' = sent /\ jobCount' = jobCount /\ jobs' = jobs
      /\ sent \in 0..MaxTxs /\ MaxTxs \in Nat /\ jobCount \in 0..sent
      /\ t <= sent /\ txs[t].log = 0 /\ txs[t].status = "pending"
  BY BoundAssumption, Room DEF IInv, LedgerTypes, NotMined
<1>3. txs \in [Id -> Tx(jobCount)] /\ txs[t] \in Tx(jobCount) /\ txs[t].brief \in Briefs
  BY <1>2 DEF IInv, LedgerTypes, LedgerOK
<1>4. receipt \in Tx(jobCount) /\ receipt.status = status /\ receipt.log = 0
      /\ receipt.brief = txs[t].brief /\ receipt.page = txs[t].page
  BY <1>2, <1>3 DEF Tx, Status
<1>5. txs' = [txs EXCEPT ![t] = receipt]
  BY <1>1
<1> HIDE DEF receipt
<1>6. txs' \in [Id -> Tx(jobCount)] /\ txs'[t] = receipt /\ \A u \in Id : u # t => txs'[u] = txs[u]
  BY <1>3, <1>4, <1>5
<1>7. Logged' = Logged
  BY <1>2, <1>4, <1>6 DEF Logged
<1>8. LedgerTypes'
  BY <1>2, <1>6 DEF IInv, LedgerTypes
<1>9. LedgerOK'
  <2>1. \A u \in Id : u > sent' => txs'[u] = NoTx
    BY <1>2, <1>6 DEF IInv, LedgerOK, Id
  <2>2. \A u \in Id : u <= sent' => txs'[u].status # "unsent" /\ txs'[u].brief \in Briefs
    BY <1>2, <1>3, <1>4, <1>6 DEF IInv, LedgerOK, Id
  <2>3. \A u \in Id : txs'[u].log # 0 <=> txs'[u].status = "success"
    BY <1>4, <1>6 DEF IInv, LedgerOK
  <2>4. \A u \in Id : txs'[u].log # 0 =>
          jobs'[txs'[u].log].tx = u /\ jobs'[txs'[u].log].brief = txs'[u].brief
    BY <1>2, <1>4, <1>6 DEF IInv, LedgerOK
  <2>5. ASSUME NEW j \in Id, j <= jobCount
        PROVE  jobs[j].tx # 0 /\ txs'[jobs[j].tx].log = j
    <3>1. jobs[j].tx # 0 /\ txs[jobs[j].tx].log = j /\ j # 0
      BY <2>5 DEF IInv, LedgerOK, Id
    <3>2. jobs[j].tx \in 0..sent
      BY DEF IInv, LedgerTypes, Job
    <3>3. jobs[j].tx \in Id /\ jobs[j].tx # t
      BY <1>2, <3>1, <3>2 DEF Id
    <3> QED
      BY <1>6, <3>1, <3>3
  <2>6. \A j \in Id : j > jobCount' => jobs'[j] = NoJob
    BY <1>2 DEF IInv, LedgerOK
  <2> QED
    BY <1>2, <1>7, <2>1, <2>2, <2>3, <2>4, <2>5, <2>6 DEF IInv, LedgerOK
<1>10. Grows
  BY <1>2, <1>4, <1>6 DEF Grows
<1> QED
  BY <1>8, <1>9, <1>10

-----------------------------------------------------------------------------
(* What a page knows outlives the steps of everyone else.                  *)

RecordsGrow == \A j \in Id : records[j] # None => records'[j] = records[j]

LEMMA Counts ==
    ASSUME IInv
    PROVE  MaxTxs \in Nat /\ sent \in 0..MaxTxs /\ jobCount \in 0..sent
BY BoundAssumption DEF IInv, LedgerTypes

LEMMA PageTypes ==
    ASSUME IInv, NEW p \in Pages
    PROVE  /\ phase[p] \in Phase /\ brief[p] \in Briefs \cup {None}
           /\ notice[p] \in Notice \cup {None}
           /\ txHash[p] \in 0..sent /\ jobId[p] \in 0..jobCount
           /\ txHash[p] # 0 => txHash[p] \in Id /\ txHash[p] <= sent
           /\ jobId[p] # 0 => jobId[p] \in Id /\ jobId[p] <= jobCount
           /\ brief[p] # None => brief[p] \in Briefs
<1>1. /\ phase[p] \in Phase /\ brief[p] \in Briefs \cup {None}
      /\ notice[p] \in Notice \cup {None}
      /\ txHash[p] \in 0..sent /\ jobId[p] \in 0..jobCount
  BY DEF IInv, FormTypes
<1> QED
  BY <1>1, Counts DEF Id

LEMMA PageStays ==
    ASSUME IInv, NEW p \in Pages, Grows, RecordsGrow,
           phase'[p] = phase[p], brief'[p] = brief[p], notice'[p] = notice[p],
           txHash'[p] = txHash[p], jobId'[p] = jobId[p],
           \/ reply'[p] = reply[p]
           \/ phase[p] = "storing" /\ reply'[p] = "stored" => records'[jobId[p]] = brief[p]
    PROVE  PageOK(p)'
<1>1. PageOK(p)
  BY DEF IInv
<1>2. /\ txHash[p] # 0 => txHash[p] \in Id /\ txHash[p] <= sent
      /\ jobId[p] # 0 => jobId[p] \in Id
      /\ None \notin Briefs
  BY PageTypes, NoneAssumption
<1> DEFINE t == txHash[p]
<1> DEFINE j == jobId[p]
<1>3. t # 0 => txs'[t].page = txs[t].page /\ txs'[t].brief = txs[t].brief
  BY <1>2 DEF Grows
<1>4. t # 0 /\ txs[t].log # 0 => txs'[t].log = txs[t].log
  BY <1>2 DEF Grows
<1>5. t # 0 /\ txs[t].status = "reverted" => txs'[t].status = "reverted"
  BY <1>2 DEF Grows
<1>6. j # 0 /\ records[j] # None => records'[j] = records[j]
  BY <1>2 DEF RecordsGrow
<1>7. /\ phase[p] \in {"confirming", "storing", "done"} =>
            t # 0 /\ txs[t].page = p /\ txs[t].brief = brief[p]
      /\ phase[p] \in {"storing", "done"} => j # 0 /\ txs[t].log = j /\ brief[p] \in Briefs
      /\ phase[p] = "storing" /\ reply[p] = "stored" => records[j] = brief[p]
      /\ phase[p] = "done" => records[j] = brief[p]
      /\ notice[p] = "reverted" => t # 0 /\ txs[t].status = "reverted"
      /\ notice[p] = "unsaved" => t # 0 /\ j # 0 /\ txs[t].log = j
  BY <1>1 DEF PageOK
<1>8. /\ phase[p] \in {"confirming", "storing", "done"} =>
            t # 0 /\ txs'[t].page = p /\ txs'[t].brief = brief[p]
      /\ phase[p] \in {"storing", "done"} => j # 0 /\ txs'[t].log = j
      /\ phase[p] = "storing" /\ reply'[p] = "stored" => records'[j] = brief[p]
      /\ phase[p] = "done" => records'[j] = brief[p]
      /\ notice[p] = "reverted" => t # 0 /\ txs'[t].status = "reverted"
      /\ notice[p] = "unsaved" => t # 0 /\ j # 0 /\ txs'[t].log = j
  <2> HIDE DEF t
  <2>1. /\ phase[p] \in {"confirming", "storing", "done"} =>
              t # 0 /\ txs'[t].page = p /\ txs'[t].brief = brief[p]
        /\ phase[p] \in {"storing", "done"} => j # 0 /\ txs'[t].log = j
        /\ notice[p] = "reverted" => t # 0 /\ txs'[t].status = "reverted"
        /\ notice[p] = "unsaved" => t # 0 /\ j # 0 /\ txs'[t].log = j
    BY <1>3, <1>4, <1>5, <1>7
  <2>2. /\ phase[p] = "storing" /\ reply'[p] = "stored" => records'[j] = brief[p]
        /\ phase[p] = "done" => records'[j] = brief[p]
    BY <1>2, <1>6, <1>7
  <2> QED
    BY <2>1, <2>2
<1> QED
  BY <1>1, <1>8 DEF PageOK

\* The types of the form survive a growing ledger.
LEMMA FormStays ==
    ASSUME IInv, UNCHANGED form, LedgerTypes', Grows
    PROVE  FormTypes'
<1>1. /\ sent \in Int /\ sent' \in Int /\ sent' >= sent
      /\ jobCount \in Int /\ jobCount' \in Int /\ jobCount' >= jobCount
  BY Counts DEF LedgerTypes, Grows
<1>2. 0..sent \subseteq 0..sent' /\ 0..jobCount \subseteq 0..jobCount'
  BY <1>1
<1>3. txHash' \in [Pages -> 0..sent'] /\ jobId' \in [Pages -> 0..jobCount']
  BY <1>2 DEF IInv, FormTypes, form
<1> QED
  BY <1>3 DEF IInv, FormTypes, form

LEMMA RecordsStay ==
    ASSUME IInv, records' = records, LedgerTypes', Grows
    PROVE  RecordsOK' /\ RecordsGrow
<1>1. jobCount \in Int /\ jobCount' \in Int /\ jobCount' >= jobCount
  BY Counts DEF LedgerTypes, Grows
<1>2. \A j \in Id : j \in Int
  BY DEF Id
<1> QED
  BY <1>1, <1>2 DEF IInv, RecordsOK, RecordsGrow, Grows

\* One page moves on; the others know what they knew.
Same(q) ==
    /\ phase'[q] = phase[q] /\ brief'[q] = brief[q] /\ notice'[q] = notice[q]
    /\ txHash'[q] = txHash[q] /\ jobId'[q] = jobId[q] /\ reply'[q] = reply[q]

LEMMA OnePageMoves ==
    ASSUME IInv, NEW p \in Pages, LedgerTypes', LedgerOK', Grows, records' = records,
           FormTypes', ServerTypes', \A q \in Pages : q # p => Same(q), PageOK(p)'
    PROVE  IInv'
<1>1. RecordsOK' /\ RecordsGrow
  BY RecordsStay
<1>2. ASSUME NEW q \in Pages, q # p PROVE PageOK(q)'
  <2>1. /\ phase'[q] = phase[q] /\ brief'[q] = brief[q] /\ notice'[q] = notice[q]
        /\ txHash'[q] = txHash[q] /\ jobId'[q] = jobId[q] /\ reply'[q] = reply[q]
    BY <1>2 DEF Same
  <2> QED
    BY ONLY IInv, Grows, <1>1, <2>1, PageStays, q \in Pages
<1> QED
  BY <1>1, <1>2 DEF IInv

\* While the ledger is still, a page that moves keeps types and the others.
LEMMA OnePageMovesStill ==
    ASSUME IInv, NEW p \in Pages, UNCHANGED <<ledger, records>>,
           FormTypes', ServerTypes', \A q \in Pages : q # p => Same(q), PageOK(p)'
    PROVE  IInv'
BY Still, OnePageMoves

LEMMA EditStep ==
    ASSUME IInv, NEW p \in Pages, NEW text \in Briefs, Edit(p, text)
    PROVE  IInv'
<1>1. /\ phase[p] = "idle" /\ brief' = [brief EXCEPT ![p] = text]
      /\ UNCHANGED <<phase, notice, txHash, jobId, reply, posts, records, ledger>>
  BY DEF Edit, Editable, server
<1>2. UNCHANGED <<sent, txs, jobCount, jobs>>
  BY <1>1 DEF ledger
<1>3. FormTypes' /\ \A q \in Pages : q # p => Same(q)
  BY <1>1, <1>2 DEF IInv, FormTypes, Same
<1>4. ServerTypes'
  BY <1>1 DEF IInv, ServerTypes
<1>5. PageOK(p)'
  <2>1. PageOK(p)
    BY DEF IInv
  <2> QED
    BY <1>1, <1>2, <2>1 DEF PageOK
<1> QED
  BY <1>1, <1>3, <1>4, <1>5, OnePageMovesStill

LEMMA SubmitStep ==
    ASSUME IInv, NEW p \in Pages, Submit(p)
    PROVE  IInv'
<1>1. /\ phase[p] = "idle" /\ brief[p] # None
      /\ phase' = [phase EXCEPT ![p] = "signing"] /\ notice' = [notice EXCEPT ![p] = None]
      /\ UNCHANGED <<brief, txHash, jobId, reply, posts, records, ledger>>
  BY DEF Submit, CanSubmit, server
<1>2. UNCHANGED <<sent, txs, jobCount, jobs>>
  BY <1>1 DEF ledger
<1>3. FormTypes' /\ \A q \in Pages : q # p => Same(q)
  BY <1>1, <1>2 DEF IInv, FormTypes, Same, Phase
<1>4. ServerTypes'
  BY <1>1 DEF IInv, ServerTypes
<1>5. phase'[p] = "signing" /\ notice'[p] = None /\ brief[p] \in Briefs
  BY <1>1, PageTypes DEF IInv, FormTypes
<1>6. None \notin Notice
  BY NoneAssumption
<1>7. PageOK(p)'
  BY <1>1, <1>5, <1>6 DEF PageOK, Notice
<1> QED
  BY <1>1, <1>3, <1>4, <1>7, OnePageMovesStill

\* The catch of submit(): what each notice says must be so.
LEMMA FailsStep ==
    ASSUME IInv, NEW p \in Pages, NEW what \in Notice, Fails(p, what),
           LedgerTypes', LedgerOK', Grows, records' = records,
           UNCHANGED <<reply, posts>>, sent' = sent \/ what = "wallet",
           what = "reverted" => txHash[p] # 0 /\ txs'[txHash[p]].status = "reverted",
           what = "unsaved" => txHash[p] # 0 /\ jobId[p] # 0 /\ txs'[txHash[p]].log = jobId[p]
    PROVE  IInv'
<1>1. /\ phase' = [phase EXCEPT ![p] = "idle"] /\ notice' = [notice EXCEPT ![p] = what]
      /\ UNCHANGED <<brief, txHash, jobId>>
  BY DEF Fails
<1>2. /\ sent \in Int /\ sent' \in Int /\ sent' >= sent
      /\ jobCount \in Int /\ jobCount' \in Int /\ jobCount' >= jobCount
  BY Counts DEF LedgerTypes, Grows
<1>3. 0..sent \subseteq 0..sent' /\ 0..jobCount \subseteq 0..jobCount'
  BY <1>2
<1>4. txHash' \in [Pages -> 0..sent'] /\ jobId' \in [Pages -> 0..jobCount']
  BY <1>1, <1>3 DEF IInv, FormTypes
<1>5. /\ phase \in [Pages -> Phase] /\ notice \in [Pages -> Notice \cup {None}]
      /\ brief \in [Pages -> Briefs \cup {None}]
  BY DEF IInv, FormTypes
<1>6. FormTypes' /\ \A q \in Pages : q # p => Same(q)
  BY <1>1, <1>4, <1>5 DEF FormTypes, Same, Phase
<1>7. ServerTypes'
  BY DEF IInv, ServerTypes
<1>8. phase'[p] = "idle" /\ notice'[p] = what /\ what # None
  BY <1>1, <1>5, NoneAssumption
<1>9. PageOK(p)'
  BY <1>1, <1>8 DEF PageOK
<1> QED
  BY <1>6, <1>7, <1>9, OnePageMoves

LEMMA WalletSendsStep ==
    ASSUME IInv, NEW p \in Pages, WalletSends(p)
    PROVE  IInv'
<1>1. /\ phase[p] = "signing" /\ Broadcast(p)
      /\ txHash' = [txHash EXCEPT ![p] = sent + 1]
      /\ phase' = [phase EXCEPT ![p] = "confirming"]
      /\ UNCHANGED <<brief, notice, jobId, reply, posts, records>>
  BY DEF WalletSends, server
<1>2. PageOK(p) /\ brief[p] \in Briefs /\ notice[p] = None
  BY <1>1 DEF IInv, PageOK
<1>3. /\ LedgerTypes' /\ LedgerOK' /\ Grows
      /\ sent' = sent + 1 /\ sent + 1 \in Id
      /\ txs'[sent + 1].page = p /\ txs'[sent + 1].brief = brief[p]
  BY <1>1, <1>2, BroadcastGrows
<1>4. 0..sent \subseteq 0..sent' /\ sent + 1 \in 0..sent' /\ jobCount' = jobCount /\ sent + 1 # 0
  BY <1>1, <1>3, Counts DEF Broadcast, Id
<1>5. /\ phase \in [Pages -> Phase] /\ txHash \in [Pages -> 0..sent']
  BY <1>4 DEF IInv, FormTypes
<1>6. FormTypes'
  BY <1>1, <1>4, <1>5 DEF IInv, FormTypes, Phase
<1>7. \A q \in Pages : q # p => Same(q)
  BY <1>1, <1>5 DEF Same
<1>8. ServerTypes'
  BY <1>1 DEF IInv, ServerTypes
<1>9. phase'[p] = "confirming" /\ txHash'[p] = sent + 1
  BY <1>1, <1>5
<1>10. PageOK(p)'
  BY <1>1, <1>2, <1>3, <1>4, <1>9, NoneAssumption DEF PageOK, Notice
<1> QED
  BY <1>1, <1>3, <1>6, <1>7, <1>8, <1>10, OnePageMoves

LEMMA WalletFailsStep ==
    ASSUME IInv, NEW p \in Pages, WalletFails(p)
    PROVE  IInv'
<1>1. phase[p] = "signing" /\ brief[p] \in Briefs
  BY DEF WalletFails, IInv, PageOK
<1>2. LedgerTypes' /\ LedgerOK' /\ Grows
  BY <1>1, Still, BroadcastGrows DEF WalletFails
<1>3. Fails(p, "wallet") /\ records' = records /\ UNCHANGED <<reply, posts>>
  BY DEF WalletFails, server
<1> QED
  BY <1>2, <1>3, FailsStep DEF Notice

LEMMA ReceiptArrivesStep ==
    ASSUME IInv, NEW p \in Pages, ReceiptArrives(p)
    PROVE  IInv'
<1> DEFINE t == txHash[p]
<1>1. /\ phase[p] = "confirming" /\ txs[t].status # "pending"
      /\ UNCHANGED ledger /\ UNCHANGED <<sent, txs, jobCount, jobs>>
  BY DEF ReceiptArrives, ledger
<1>2. LedgerTypes' /\ LedgerOK' /\ Grows
  BY <1>1, Still
<1>3. PageOK(p) /\ brief[p] \in Briefs /\ notice[p] = None
      /\ t # 0 /\ t \in Id /\ t <= sent /\ txs[t].page = p /\ txs[t].brief = brief[p]
  BY <1>1, PageTypes DEF IInv, PageOK
<1>4. CASE ~Succeeded(t) /\ Fails(p, "reverted") /\ UNCHANGED server
  <2>1. txs[t].status \in Status /\ txs[t].status # "unsent"
    BY <1>3 DEF IInv, LedgerTypes, LedgerOK, Tx
  <2>2. txs[t].status = "reverted"
    BY <1>1, <1>4, <2>1 DEF Succeeded, Status
  <2> QED
    BY <1>1, <1>2, <1>3, <1>4, <2>2, FailsStep DEF Notice, server
<1>5. CASE LoggedId(t) = 0 /\ Fails(p, "unread") /\ UNCHANGED server
  BY <1>1, <1>2, <1>5, FailsStep DEF Notice, server
<1>6. CASE /\ LoggedId(t) # 0
           /\ jobId' = [jobId EXCEPT ![p] = LoggedId(t)]
           /\ phase' = [phase EXCEPT ![p] = "storing"]
           /\ posts' = posts \cup {[page |-> p, job |-> LoggedId(t), brief |-> brief[p]]}
           /\ reply' = [reply EXCEPT ![p] = None]
           /\ UNCHANGED <<brief, notice, txHash, records>>
  <2>1. txs[t].log # 0 /\ txs[t].log \in 0..jobCount /\ txs[t].log \in Id
    <3>1. txs[t].log \in 0..jobCount
      BY <1>3 DEF IInv, LedgerTypes, Tx
    <3> QED
      BY <1>6, <3>1, Counts DEF LoggedId, Id
  <2>2. /\ phase \in [Pages -> Phase] /\ jobId \in [Pages -> 0..jobCount]
        /\ reply \in [Pages -> Reply \cup {None}]
        /\ posts \subseteq [page : Pages, job : Id, brief : Briefs]
    BY DEF IInv, FormTypes, ServerTypes
  <2>3. FormTypes'
    BY <1>1, <1>6, <2>1, <2>2 DEF IInv, FormTypes, Phase, LoggedId
  <2>4. ServerTypes'
    <3>1. [page |-> p, job |-> LoggedId(t), brief |-> brief[p]]
          \in [page : Pages, job : Id, brief : Briefs]
      BY <1>3, <2>1 DEF LoggedId
    <3>2. posts' \subseteq [page : Pages, job : Id, brief : Briefs]
      BY <1>6, <2>2, <3>1
    <3> QED
      BY <1>6, <2>2, <3>2 DEF IInv, ServerTypes
  <2>5. \A q \in Pages : q # p => Same(q)
    BY <1>6, <2>2 DEF Same
  <2>6. phase'[p] = "storing" /\ jobId'[p] = txs[t].log /\ reply'[p] = None
    BY <1>6, <2>2 DEF LoggedId
  <2>7. PageOK(p)'
    BY <1>1, <1>3, <1>6, <2>1, <2>6, NoneAssumption DEF PageOK, Notice, Reply
  <2> QED
    BY <1>1, <1>6, <2>3, <2>4, <2>5, <2>7, OnePageMovesStill
<1> QED
  BY <1>4, <1>5, <1>6 DEF ReceiptArrives

LEMMA ReceiptIsLostStep ==
    ASSUME IInv, NEW p \in Pages, ReceiptIsLost(p)
    PROVE  IInv'
BY Still, FailsStep DEF ReceiptIsLost, server, ledger, Notice

LEMMA PostAnsweredStep ==
    ASSUME IInv, NEW p \in Pages, PostAnswered(p)
    PROVE  IInv'
<1>1. /\ phase[p] = "storing" /\ UNCHANGED ledger /\ UNCHANGED server
      /\ UNCHANGED <<reply, posts, records, sent, txs, jobCount, jobs>>
  BY DEF PostAnswered, server, ledger
<1>2. LedgerTypes' /\ LedgerOK' /\ Grows
  BY <1>1, Still
<1>3. PageOK(p)
  BY DEF IInv
<1>4. CASE /\ reply[p] = "stored" /\ phase' = [phase EXCEPT ![p] = "done"]
           /\ UNCHANGED <<brief, notice, txHash, jobId>>
  <2>1. FormTypes' /\ \A q \in Pages : q # p => Same(q)
    BY <1>1, <1>4 DEF IInv, FormTypes, Same, Phase
  <2>2. ServerTypes'
    BY <1>1 DEF IInv, ServerTypes
  <2>3. phase'[p] = "done"
    BY <1>4 DEF IInv, FormTypes
  <2>4. PageOK(p)'
    BY <1>1, <1>3, <1>4, <2>3, NoneAssumption DEF PageOK, Notice
  <2> QED
    BY <1>1, <2>1, <2>2, <2>4, OnePageMovesStill
<1>5. CASE Fails(p, "unsaved")
  <2>1. txHash[p] # 0 /\ jobId[p] # 0 /\ txs[txHash[p]].log = jobId[p]
    BY <1>1, <1>3 DEF PageOK
  <2> QED
    BY <1>1, <1>2, <1>5, <2>1, FailsStep DEF Notice
<1> QED
  BY <1>4, <1>5 DEF PostAnswered

LEMMA PostIsLostStep ==
    ASSUME IInv, NEW p \in Pages, PostIsLost(p)
    PROVE  IInv'
BY Still, FailsStep DEF PostIsLost, server, ledger, Notice

LEMMA ReloadStep ==
    ASSUME IInv, NEW p \in Pages, Reload(p)
    PROVE  IInv'
<1>1. /\ phase' = [phase EXCEPT ![p] = "idle"] /\ brief' = [brief EXCEPT ![p] = None]
      /\ notice' = [notice EXCEPT ![p] = None] /\ txHash' = [txHash EXCEPT ![p] = 0]
      /\ jobId' = [jobId EXCEPT ![p] = 0]
      /\ UNCHANGED <<reply, posts, records, ledger>>
  BY DEF Reload, server
<1>2. UNCHANGED <<sent, txs, jobCount, jobs>> /\ 0 \in 0..sent /\ 0 \in 0..jobCount
  BY <1>1, Counts DEF ledger
<1>3. FormTypes' /\ \A q \in Pages : q # p => Same(q)
  BY <1>1, <1>2 DEF IInv, FormTypes, Same, Phase
<1>4. ServerTypes'
  BY <1>1 DEF IInv, ServerTypes
<1>5. phase'[p] = "idle" /\ notice'[p] = None /\ txHash'[p] = 0
  BY <1>1 DEF IInv, FormTypes
<1>6. PageOK(p)'
  BY <1>5, NoneAssumption DEF PageOK, Notice
<1> QED
  BY <1>1, <1>3, <1>4, <1>6, OnePageMovesStill

LEMMA ChainStep ==
    ASSUME IInv, NEW t \in Id, Mined(t) \/ NotMined(t)
    PROVE  IInv'
<1>1. UNCHANGED form /\ UNCHANGED server /\ UNCHANGED <<reply, posts, records>>
      /\ UNCHANGED <<phase, brief, notice, txHash, jobId>>
  BY DEF Mined, NotMined, form, server
<1>2. LedgerTypes' /\ LedgerOK' /\ Grows
  BY MinedGrows, NotMinedGrows
<1>3. FormTypes'
  BY <1>1, <1>2, FormStays
<1>4. ServerTypes'
  BY <1>1 DEF IInv, ServerTypes
<1>5. RecordsOK' /\ RecordsGrow
  BY <1>1, <1>2, RecordsStay
<1>6. ASSUME NEW q \in Pages PROVE PageOK(q)'
  BY <1>1, <1>2, <1>5, PageStays
<1> QED
  BY <1>2, <1>3, <1>4, <1>5, <1>6 DEF IInv

\* First writer wins, and only with the brief that the job's hash commits to.
LEMMA StoredKeeps ==
    ASSUME IInv, NEW j \in Id, NEW text \in Briefs, Matches(j, text),
           records' = Stored(j, text), UNCHANGED ledger
    PROVE  /\ records' \in [Id -> Briefs \cup {None}] /\ RecordsOK' /\ RecordsGrow
           /\ records'[j] = text
<1>1. records \in [Id -> Briefs \cup {None}] /\ UNCHANGED <<sent, txs, jobCount, jobs>>
  BY DEF IInv, ServerTypes, ledger
<1>2. j <= jobCount /\ jobs[j].brief = text
  BY DEF Matches
<1>3. records[j] # None => records[j] = text
  BY <1>2 DEF IInv, RecordsOK
<1>4. records' = [records EXCEPT ![j] = IF records[j] = None THEN text ELSE records[j]]
  BY DEF Stored
<1>5. records' = [records EXCEPT ![j] = text]
  BY <1>3, <1>4
<1>6. records'[j] = text /\ \A i \in Id : i # j => records'[i] = records[i]
  BY <1>1, <1>5
<1>7. RecordsGrow
  BY <1>3, <1>6 DEF RecordsGrow
<1>8. RecordsOK'
  BY <1>1, <1>2, <1>6 DEF IInv, RecordsOK
<1> QED
  BY <1>1, <1>5, <1>6, <1>7, <1>8

\* A request is handled: only the page that waits for it hears of it.
LEMMA PostStep ==
    ASSUME IInv, NEW post \in posts, PostStores(post) \/ PostRefused(post)
    PROVE  IInv'
<1> DEFINE answer == IF PostStores(post) THEN "stored" ELSE "refused"
<1>1. /\ UNCHANGED form /\ UNCHANGED ledger /\ posts' = posts \ {post}
      /\ UNCHANGED <<phase, brief, notice, txHash, jobId, sent, txs, jobCount, jobs>>
  BY DEF PostStores, PostRefused, form, ledger
<1>2. post \in [page : Pages, job : Id, brief : Briefs]
  BY DEF IInv, ServerTypes
<1>3. LedgerTypes' /\ LedgerOK' /\ Grows
  BY <1>1, Still
<1>4. FormTypes'
  BY <1>1, <1>3, FormStays
<1>5. \/ UNCHANGED records
      \/ Matches(post.job, post.brief) /\ records' = Stored(post.job, post.brief)
  BY DEF PostStores, PostRefused
<1>6. records' \in [Id -> Briefs \cup {None}] /\ RecordsOK' /\ RecordsGrow
  <2>1. CASE UNCHANGED records
    BY <1>3, <2>1, RecordsStay DEF IInv, ServerTypes
  <2>2. CASE Matches(post.job, post.brief) /\ records' = Stored(post.job, post.brief)
    BY <1>1, <1>2, <2>2, StoredKeeps
  <2> QED
    BY <1>5, <2>1, <2>2
<1>7. answer \in Reply
      /\ reply' = [p \in Pages |-> IF Awaits(p, post) THEN answer ELSE reply[p]]
  BY DEF PostStores, PostRefused, Answer, Reply
<1>8. ServerTypes'
  <2> HIDE DEF answer
  <2>1. reply' \in [Pages -> Reply \cup {None}]
    BY <1>7 DEF IInv, ServerTypes
  <2> QED
    BY <1>1, <1>6, <2>1 DEF IInv, ServerTypes
<1>9. ASSUME NEW p \in Pages PROVE PageOK(p)'
  <2>1. CASE ~Awaits(p, post)
    <3>1. reply'[p] = reply[p]
      BY <1>7, <2>1
    <3> QED
      BY <1>1, <1>3, <1>6, <3>1, PageStays
  <2>2. CASE Awaits(p, post) /\ PostStores(post)
    <3>1. phase[p] = "storing" /\ jobId[p] = post.job
      BY <2>2 DEF Awaits
    <3>2. Matches(post.job, post.brief) /\ records' = Stored(post.job, post.brief)
      BY <2>2 DEF PostStores
    <3>3. records'[jobId[p]] = post.brief
      BY <1>1, <1>2, <3>1, <3>2, StoredKeeps
    <3>4. txHash[p] # 0 /\ txs[txHash[p]].brief = brief[p] /\ txs[txHash[p]].log = jobId[p]
          /\ jobId[p] # 0
      BY <3>1 DEF IInv, PageOK
    <3>5. jobs[jobId[p]].brief = brief[p]
      BY <3>4, PageTypes DEF IInv, LedgerOK
    <3>6. records'[jobId[p]] = brief[p]
      BY <3>1, <3>2, <3>3, <3>5 DEF Matches
    <3> QED
      BY <1>1, <1>3, <1>6, <3>6, PageStays
  <2>3. CASE Awaits(p, post) /\ ~PostStores(post)
    <3>1. reply'[p] = "refused"
      BY <1>7, <2>3
    <3> QED
      BY <1>1, <1>3, <1>6, <3>1, PageStays
  <2> QED
    BY <2>1, <2>2, <2>3
<1> QED
  BY <1>3, <1>4, <1>6, <1>8, <1>9 DEF IInv

LEMMA ForeignPostStep ==
    ASSUME IInv, NEW j \in Id, NEW text \in Briefs, ForeignPost(j, text)
    PROVE  IInv'
<1>1. /\ UNCHANGED form /\ UNCHANGED ledger /\ UNCHANGED <<reply, posts>>
      /\ UNCHANGED <<phase, brief, notice, txHash, jobId>>
      /\ Matches(j, text) /\ records' = Stored(j, text)
  BY DEF ForeignPost, form
<1>2. LedgerTypes' /\ LedgerOK' /\ Grows
  BY <1>1, Still
<1>3. FormTypes'
  BY <1>1, <1>2, FormStays
<1>4. records' \in [Id -> Briefs \cup {None}] /\ RecordsOK' /\ RecordsGrow
  BY <1>1, StoredKeeps
<1>5. ServerTypes'
  BY <1>1, <1>4 DEF IInv, ServerTypes
<1>6. ASSUME NEW q \in Pages PROVE PageOK(q)'
  BY <1>1, <1>2, <1>4, PageStays
<1> QED
  BY <1>2, <1>3, <1>4, <1>5, <1>6 DEF IInv

-----------------------------------------------------------------------------
LEMMA InitIInv == Init => IInv
<1> SUFFICES ASSUME Init PROVE IInv
  OBVIOUS
<1>1. MaxTxs \in Nat /\ sent = 0 /\ jobCount = 0
  BY BoundAssumption DEF Init
<1>2. FormTypes
  BY <1>1 DEF Init, FormTypes, Phase
<1>3. ServerTypes
  BY DEF Init, ServerTypes
<1>4. LedgerTypes
  <2>1. NoTx \in Tx(0) /\ NoJob \in Job(0)
    BY DEF NoTx, NoJob, Tx, Job, Status
  <2> QED
    BY <1>1, <2>1 DEF Init, LedgerTypes
<1>5. LedgerOK
  <2>1. \A t \in Id : txs[t] = NoTx /\ txs[t].log = 0 /\ txs[t].status = "unsent"
    BY DEF Init, NoTx
  <2>2. \A j \in Id : jobs[j] = NoJob
    BY DEF Init
  <2>3. \A i \in Id : i \in Nat /\ i > 0
    BY DEF Id
  <2>4. Logged = {}
    BY <2>1 DEF Logged
  <2>5. Cardinality(Logged) = 0
    BY <2>4, FS_EmptySet
  <2> QED
    BY <1>1, <2>1, <2>2, <2>3, <2>5 DEF LedgerOK
<1>6. RecordsOK
  BY DEF Init, RecordsOK
<1>7. \A p \in Pages : PageOK(p)
  BY NoneAssumption DEF Init, PageOK, Notice
<1> QED
  BY <1>2, <1>3, <1>4, <1>5, <1>6, <1>7 DEF IInv

LEMMA NextIInv == IInv /\ [Next]_vars => IInv'
<1> SUFFICES ASSUME IInv, [Next]_vars PROVE IInv'
  OBVIOUS
<1>1. ASSUME NEW p \in Pages, PageStep(p) PROVE IInv'
  BY <1>1, EditStep, SubmitStep, WalletSendsStep, WalletFailsStep, ReceiptArrivesStep,
     ReceiptIsLostStep, PostAnsweredStep, PostIsLostStep, ReloadStep DEF PageStep
<1>2. ASSUME NEW t \in Id, Mined(t) \/ NotMined(t) PROVE IInv'
  BY <1>2, ChainStep
<1>3. ASSUME NEW j \in Id, NEW text \in Briefs, ForeignPost(j, text) PROVE IInv'
  BY <1>3, ForeignPostStep
<1>4. ASSUME NEW post \in posts, PostStores(post) \/ PostRefused(post) PROVE IInv'
  BY <1>4, PostStep
<1>5. CASE UNCHANGED vars
  <2>1. UNCHANGED form /\ UNCHANGED ledger /\ UNCHANGED <<reply, posts, records>>
        /\ UNCHANGED <<phase, brief, notice, txHash, jobId>>
    BY <1>5 DEF vars, form, server
  <2>2. LedgerTypes' /\ LedgerOK' /\ Grows
    BY <2>1, Still
  <2>3. FormTypes'
    BY <2>1, <2>2, FormStays
  <2>4. RecordsOK' /\ RecordsGrow
    BY <2>1, <2>2, RecordsStay
  <2>5. ServerTypes'
    BY <2>1 DEF IInv, ServerTypes
  <2>6. ASSUME NEW q \in Pages PROVE PageOK(q)'
    BY <2>1, <2>2, <2>4, PageStays
  <2> QED
    BY <2>2, <2>3, <2>4, <2>5, <2>6 DEF IInv
<1> QED
  BY <1>1, <1>2, <1>3, <1>4, <1>5 DEF Next

LEMMA Inductive == Spec => []IInv
BY InitIInv, NextIInv, PTL DEF Spec

\* Ids stay dense and within the transactions that were sent, in any number of
\* open pages and whatever is mined, lost or reloaded when.
THEOREM FormsTyped == Spec => []TypeOK
<1>1. IInv => TypeOK
  BY TypeParts DEF IInv
<1> QED
  BY <1>1, Inductive, PTL

\* create-job-form.tsx:95: "Job #n is funded" names the job that the page's own
\* transaction paid for, stored under that number with the brief typed there.
THEOREM DoneTellsTheTruth == Spec => []DoneIsMine
<1>1. IInv => DoneIsMine
  <2> SUFFICES ASSUME IInv, NEW p \in Pages, phase[p] = "done"
               PROVE  /\ jobs[jobId[p]].tx = txHash[p] /\ txs[txHash[p]].page = p
                      /\ records[jobId[p]] = brief[p]
    BY DEF DoneIsMine
  <2>1. /\ txHash[p] # 0 /\ jobId[p] # 0 /\ txs[txHash[p]].log = jobId[p]
        /\ txs[txHash[p]].page = p /\ records[jobId[p]] = brief[p]
    BY DEF IInv, PageOK
  <2> QED
    BY <2>1, PageTypes DEF IInv, LedgerOK
<1> QED
  BY <1>1, Inductive, PTL

\* The notices of create-job-form.tsx about the money are so whenever they show.
THEOREM NoticesTellTheTruth == Spec => []NoticesAreTrue
<1>1. IInv => NoticesAreTrue
  <2> SUFFICES ASSUME IInv, NEW p \in Pages
               PROVE  /\ notice[p] = "reverted" => \A j \in Id : jobs[j].tx # txHash[p]
                      /\ notice[p] = "unsaved" =>
                            jobId[p] # 0 /\ jobs[jobId[p]].tx = txHash[p]
                      /\ phase[p] = "idle" /\ txHash[p] # 0 => notice[p] # None
    BY DEF NoticesAreTrue
  <2>1. PageOK(p)
    BY DEF IInv
  <2>2. ASSUME notice[p] = "reverted", NEW j \in Id PROVE jobs[j].tx # txHash[p]
    <3>1. txHash[p] # 0 /\ txHash[p] \in Id /\ txs[txHash[p]].status = "reverted"
      BY <2>1, <2>2, PageTypes DEF PageOK
    <3>2. txs[txHash[p]].log = 0
      BY <3>1 DEF IInv, LedgerOK
    <3>3. CASE j <= jobCount
      BY <3>2, <3>3 DEF IInv, LedgerOK, Id
    <3>4. CASE j > jobCount
      BY <3>1, <3>4 DEF IInv, LedgerOK, NoJob
    <3> QED
      BY <3>3, <3>4, Counts DEF Id
  <2>3. ASSUME notice[p] = "unsaved" PROVE jobId[p] # 0 /\ jobs[jobId[p]].tx = txHash[p]
    <3>1. txHash[p] # 0 /\ jobId[p] # 0 /\ txs[txHash[p]].log = jobId[p]
      BY <2>1, <2>3 DEF PageOK
    <3> QED
      BY <3>1, PageTypes DEF IInv, LedgerOK
  <2> QED
    BY <2>1, <2>2, <2>3 DEF PageOK
<1> QED
  BY <1>1, Inductive, PTL
=============================================================================

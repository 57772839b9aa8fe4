----------------------- MODULE AgentWorkEscrow_proofs -----------------------
(* Theorems about AgentWorkEscrow, for every value of its constants.       *)
EXTENDS AgentWorkEscrow, FiniteSetTheorems, WellFoundedInduction, TLAPS

\* The uint128 truncation of an accepted amount loses nothing.
LEMMA AmountFits ==
    ASSUME NEW value \in Values, ValidAmount(value)
    PROVE  /\ value % (MaxAmount + 1) = value
           /\ value \in 1..MaxAmount
<1>1. value \in Nat /\ MaxAmount \in Nat /\ value > 0 /\ value <= MaxAmount
  BY AmountAssumption DEF ValidAmount
<1>2. \A v, m \in Nat : v <= m => v % (m + 1) = v
  BY SMT
<1> QED BY <1>1, <1>2

-----------------------------------------------------------------------------
(* Type correctness.                                                       *)

\* The storage part of the type invariant, spelt out.
LEMMA LedgerTypes ==
    LedgerOK(Ledger) <=>
        /\ jobs \in [JobId -> Job]
        /\ jobCount \in 0..MaxJobs
        /\ \A j \in JobId : IF j <= jobCount THEN Exists(jobs[j]) ELSE jobs[j] = NoJob
        /\ verifierSigner \in Signers
        /\ owner \in Accounts \cup {Zero}
        /\ pendingOwner \in Accounts \cup {Zero}
        /\ balance \in Nat
        /\ received \in [JobId -> [Accounts -> Nat]]
BY DEF LedgerOK, Ledger

\* The parties of a job that exists are accounts, its amount a real one.
LEMMA ExistingJobs ==
    ASSUME TypeOK, NEW j \in JobId, jobs[j].status # "None"
    PROVE  jobs[j] \in Job /\ Exists(jobs[j]) /\ j <= jobCount
<1>1. jobs \in [JobId -> Job] /\ \A i \in JobId : IF i <= jobCount THEN Exists(jobs[i]) ELSE jobs[i] = NoJob
  BY LedgerTypes DEF TypeOK
<1>2. NoJob.status = "None"
  BY DEF NoJob
<1> QED BY <1>1, <1>2 DEF Exists

\* The one way a step changes a job that exists: its status, verdict and
\* delivery become st, v and d, its terms and all other jobs stay.
SameTerms(new, old) ==
    /\ new.buyer = old.buyer
    /\ new.provider = old.provider
    /\ new.amount = old.amount
    /\ new.briefHash = old.briefHash
    /\ new.deliverBy = old.deliverBy

Changed(j, st, v, d) ==
    /\ jobs' \in [JobId -> Job]
    /\ \A i \in JobId \ {j} : jobs'[i] = jobs[i]
    /\ SameTerms(jobs'[j], jobs[j])
    /\ jobs'[j].status = st
    /\ jobs'[j].verdict = v
    /\ jobs'[j].deliveryHash = d

\* Replacing one job's record by one that differs in those three fields.
LEMMA ReplaceJob ==
    ASSUME TypeOK, NEW j \in JobId, NEW new \in Job, SameTerms(new, jobs[j]),
           jobs' = [jobs EXCEPT ![j] = new]
    PROVE  Changed(j, new.status, new.verdict, new.deliveryHash)
<1>1. jobs \in [JobId -> Job]
  BY LedgerTypes DEF TypeOK
<1>2. jobs' \in [JobId -> Job] /\ jobs'[j] = new /\ \A i \in JobId \ {j} : jobs'[i] = jobs[i]
  BY <1>1
<1> QED BY <1>2 DEF Changed

\* submitDelivery.
LEMMA SubmitChanges ==
    ASSUME TypeOK, NEW j \in JobId, NEW a \in Accounts, NEW d \in DeliveryHashes \cup {NoHash},
           SubmitDelivery(a, j, d)
    PROVE  Changed(j, "Delivered", "None", d)
<1> DEFINE old == jobs[j]
           new == [old EXCEPT !.deliveryHash = d, !.status = "Delivered"]
<1>1. jobs \in [JobId -> Job] /\ old \in Job
  BY LedgerTypes DEF TypeOK
<1>2. jobs' = [jobs EXCEPT ![j] = new]
  BY DEF SubmitDelivery
<1>3. old.verdict = "None"
  BY DEF SubmitDelivery, Deliverable
<1> HIDE DEF old
<1>4. new \in Job /\ SameTerms(new, old)
  BY <1>1 DEF Job, SameTerms, Status
<1>5. new.status = "Delivered" /\ new.verdict = "None" /\ new.deliveryHash = d
  BY <1>1, <1>3 DEF Job
<1> QED BY <1>2, <1>4, <1>5, ReplaceJob DEF old

\* settle, whatever the verdict.
LEMMA SettleChanges ==
    ASSUME TypeOK, NEW dec \in Decision, NEW s \in signatures, Settle(dec, s)
    PROVE  Changed(dec.jobId, IF dec.verdict = "Caution" THEN "Delivered" ELSE "Settled",
                   dec.verdict, jobs[dec.jobId].deliveryHash)
<1> DEFINE j == dec.jobId
           old == jobs[j]
           v == dec.verdict
           st == IF v = "Caution" THEN "Delivered" ELSE "Settled"
           new == [old EXCEPT !.verdict = v, !.status = st]
<1>1. jobs \in [JobId -> Job] /\ old \in Job /\ j \in JobId /\ v \in Verdict /\ st \in Status
  BY LedgerTypes DEF TypeOK, Decision, Status
<1>2. old.status = "Delivered"
  BY DEF Settle, Applicable
<1>3. jobs' = [jobs EXCEPT ![j] = new]
  <2>1. CASE v = "Caution"
    <3>1. jobs' = [jobs EXCEPT ![j] = [old EXCEPT !.verdict = v]]
      BY <2>1 DEF Settle
    <3>2. st = "Delivered"
      BY <2>1
    <3> HIDE DEF old, j, v, st
    <3>3. [old EXCEPT !.verdict = v] = new
      BY <1>1, <1>2, <3>2 DEF Job
    <3> QED BY <3>1, <3>3
  <2>2. CASE v # "Caution"
    BY <2>2 DEF Settle
  <2> QED BY <2>1, <2>2
<1> HIDE DEF old, j, v, st
<1>4. new \in Job /\ SameTerms(new, old)
  BY <1>1 DEF Job, SameTerms
<1>5. new.status = st /\ new.verdict = v /\ new.deliveryHash = old.deliveryHash
  BY <1>1 DEF Job
<1>6. Changed(j, st, v, old.deliveryHash)
  BY <1>1, <1>3, <1>4, <1>5, ReplaceJob DEF old
<1> QED BY <1>6 DEF old, st, j, v

\* resolveCaution and cancelExpired: only the status moves.
LEMMA CloseChanges ==
    ASSUME TypeOK, NEW j \in JobId, NEW st \in Status,
           jobs' = [jobs EXCEPT ![j].status = st]
    PROVE  Changed(j, st, jobs[j].verdict, jobs[j].deliveryHash)
<1> DEFINE old == jobs[j]
           new == [old EXCEPT !.status = st]
<1>1. jobs \in [JobId -> Job] /\ old \in Job
  BY LedgerTypes DEF TypeOK
<1>2. jobs' = [jobs EXCEPT ![j] = new]
  OBVIOUS
<1> HIDE DEF old
<1>3. new \in Job /\ SameTerms(new, old)
  BY <1>1 DEF Job, SameTerms
<1>4. new.status = st /\ new.verdict = old.verdict /\ new.deliveryHash = old.deliveryHash
  BY <1>1 DEF Job
<1> QED BY <1>2, <1>3, <1>4, ReplaceJob DEF old

\* Such a change keeps the table of jobs well typed.
LEMMA ChangedTypes ==
    ASSUME TypeOK, NEW j \in JobId, jobs[j].status # "None",
           NEW st \in Status \ {"None"}, NEW v, NEW d, Changed(j, st, v, d)
    PROVE  /\ jobs' \in [JobId -> Job]
           /\ \A i \in JobId : IF i <= jobCount THEN Exists(jobs'[i]) ELSE jobs'[i] = NoJob
<1>1. jobs[j] \in Job /\ Exists(jobs[j]) /\ j <= jobCount
  BY ExistingJobs
<1>2. Exists(jobs'[j])
  BY <1>1 DEF Changed, SameTerms, Exists
<1> QED BY <1>1, <1>2, LedgerTypes DEF TypeOK, Changed

\* _pay keeps the money well typed and suspends a well-typed ledger.
LEMMA PayTypes ==
    ASSUME TypeOK, NEW j \in JobId, jobs[j].status # "None",
           NEW to \in Accounts, Pay(j, to)
    PROVE  /\ balance' \in Nat
           /\ received' \in [JobId -> [Accounts -> Nat]]
           /\ \A f \in frames' : f.to \in Accounts /\ LedgerOK(f.before)
<1>1. balance \in Nat /\ received \in [JobId -> [Accounts -> Nat]] /\ jobs[j].amount \in Nat
  BY LedgerTypes, ExistingJobs DEF TypeOK, Job
<1>2. balance' \in Nat
  BY <1>1 DEF Pay
<1>3. received' \in [JobId -> [Accounts -> Nat]]
  BY <1>1 DEF Pay
<1>4. \A f \in frames' : f.to \in Accounts /\ LedgerOK(f.before)
  BY DEF Pay, TypeOK
<1> QED BY <1>2, <1>3, <1>4

\* createJob writes one fresh record and nothing else in the table.
LEMMA CreateChanges ==
    ASSUME TypeOK, NEW a \in Accounts, NEW p \in Accounts \cup {Zero, Self},
           NEW value \in Values, NEW b \in BriefHashes \cup {NoHash}, NEW t \in Time,
           CreateJob(a, p, value, b, t)
    PROVE  LET j == jobCount + 1 IN
           /\ j \in JobId /\ jobs[j] = NoJob
           /\ jobs' \in [JobId -> Job]
           /\ \A i \in JobId \ {j} : jobs'[i] = jobs[i]
           /\ Exists(jobs'[j])
           /\ jobs'[j].status = "Funded" /\ jobs'[j].verdict = "None"
           /\ jobs'[j].deliveryHash = NoHash /\ jobs'[j].deliverBy = t
           /\ jobs'[j].amount = value
<1> DEFINE j == jobCount + 1
           new == [buyer |-> a, provider |-> p, amount |-> value % (MaxAmount + 1),
                   briefHash |-> b, deliverBy |-> t, deliveryHash |-> NoHash,
                   status |-> "Funded", verdict |-> "None"]
<1>1. /\ jobs \in [JobId -> Job] /\ jobCount \in 0..MaxJobs
      /\ \A i \in JobId : IF i <= jobCount THEN Exists(jobs[i]) ELSE jobs[i] = NoJob
  BY LedgerTypes DEF TypeOK
<1>2. j \in JobId /\ jobs[j] = NoJob
  BY <1>1, BoundAssumption DEF CreateJob, JobId
<1>3. p \in Accounts
  BY DEF CreateJob, ValidProvider
<1>4. value % (MaxAmount + 1) \in 1..MaxAmount /\ value % (MaxAmount + 1) = value
      /\ MaxAmount \in Nat
  BY AmountFits, AmountAssumption DEF CreateJob
<1>5. t \in Nat
  BY BoundAssumption DEF Time
<1>6. new \in Job /\ Exists(new)
  BY <1>3, <1>4, <1>5 DEF Job, Exists, Status, Verdict
<1>7. jobs' = [jobs EXCEPT ![j] = new]
  BY DEF CreateJob
<1>8. new.status = "Funded" /\ new.verdict = "None" /\ new.deliveryHash = NoHash /\ new.deliverBy = t
      /\ new.amount = value
  BY <1>4
<1> HIDE DEF j, new
<1>9. jobs'[j] = new /\ jobs' \in [JobId -> Job] /\ \A i \in JobId \ {j} : jobs'[i] = jobs[i]
  BY <1>1, <1>2, <1>6, <1>7
<1> QED BY <1>2, <1>6, <1>8, <1>9 DEF j

\* What settle, resolveCaution and cancelExpired have in common: the job
\* exists, its status becomes final and its amount goes to one of its parties.
Closes(j, st, v, to) ==
    /\ frames = {}
    /\ jobs[j].status # "None"
    /\ st \in {"Settled", "Cancelled"}
    /\ Changed(j, st, v, jobs[j].deliveryHash)
    /\ to \in {jobs[j].buyer, jobs[j].provider}
    /\ Pay(j, to)
    /\ UNCHANGED <<now, jobCount, admin, signatures>>

LEMMA SettleCloses ==
    ASSUME TypeOK, NEW dec \in Decision, NEW s \in signatures, Settle(dec, s),
           dec.verdict # "Caution"
    PROVE  /\ dec.jobId \in JobId
           /\ Closes(dec.jobId, "Settled", dec.verdict, Beneficiary(dec.verdict, jobs[dec.jobId]))
<1>1. Changed(dec.jobId, "Settled", dec.verdict, jobs[dec.jobId].deliveryHash)
  BY SettleChanges
<1>2. dec.jobId \in JobId
  BY DEF Decision
<1> QED BY <1>1, <1>2 DEF Settle, Closes, Beneficiary, Applicable, NonReentrant

LEMMA ResolveCloses ==
    ASSUME TypeOK, NEW a \in Accounts, NEW j \in JobId, NEW release \in BOOLEAN,
           ResolveCaution(a, j, release)
    PROVE  Closes(j, "Settled", "Caution", IF release THEN jobs[j].provider ELSE jobs[j].buyer)
<1>1. Changed(j, "Settled", "Caution", jobs[j].deliveryHash)
  BY CloseChanges DEF ResolveCaution, Status
<1> QED BY <1>1 DEF ResolveCaution, Closes, NonReentrant

LEMMA CancelCloses ==
    ASSUME TypeOK, NEW a \in Accounts, NEW j \in JobId, CancelExpired(a, j)
    PROVE  Closes(j, "Cancelled", jobs[j].verdict, jobs[j].buyer)
<1>1. Changed(j, "Cancelled", jobs[j].verdict, jobs[j].deliveryHash)
  BY CloseChanges DEF CancelExpired, Status
<1> QED BY <1>1 DEF CancelExpired, Closes, NonReentrant, Reclaimable

LEMMA ClosesTypes ==
    ASSUME TypeOK, NEW j \in JobId, NEW st, NEW v, NEW to, Closes(j, st, v, to)
    PROVE  TypeOK' /\ to \in Accounts
<1>1. Exists(jobs[j])
  BY ExistingJobs DEF Closes
<1>2. to \in Accounts
  BY <1>1 DEF Closes, Exists
<1>3. /\ jobs' \in [JobId -> Job]
      /\ \A i \in JobId : IF i <= jobCount THEN Exists(jobs'[i]) ELSE jobs'[i] = NoJob
  BY ChangedTypes DEF Closes, Status
<1>4. /\ balance' \in Nat
      /\ received' \in [JobId -> [Accounts -> Nat]]
      /\ \A f \in frames' : f.to \in Accounts /\ LedgerOK(f.before)
  BY <1>2, PayTypes DEF Closes
<1>5. LedgerOK(Ledger)'
  BY <1>3, <1>4, LedgerTypes DEF TypeOK, Closes, admin, LedgerOK, Ledger
<1> QED BY <1>2, <1>4, <1>5 DEF TypeOK, Closes

THEOREM TypeCorrect == Spec => []TypeOK
<1>1. Init => TypeOK
  <2> SUFFICES ASSUME Init PROVE TypeOK
    OBVIOUS
  <2>1. NoJob \in Job
    BY DEF NoJob, Job, Status, Verdict
  <2>2. LedgerOK(Ledger)
    BY <2>1, AddressAssumption, BoundAssumption, LedgerTypes DEF Init, JobId
  <2> QED BY <2>2, BoundAssumption DEF Init, TypeOK, Time
<1>2. TypeOK /\ [Next]_vars => TypeOK'
  <2> SUFFICES ASSUME TypeOK, [Next]_vars PROVE TypeOK'
    OBVIOUS
  <2> USE DEF TypeOK
  <2>0. /\ now \in Time /\ signatures \subseteq Signature
        /\ jobs \in [JobId -> Job] /\ jobCount \in 0..MaxJobs
        /\ \A j \in JobId : IF j <= jobCount THEN Exists(jobs[j]) ELSE jobs[j] = NoJob
        /\ verifierSigner \in Signers
        /\ owner \in Accounts \cup {Zero} /\ pendingOwner \in Accounts \cup {Zero}
        /\ balance \in Nat /\ received \in [JobId -> [Accounts -> Nat]]
    BY LedgerTypes
  <2>1. CASE UNCHANGED vars
    BY <2>1 DEF vars, admin, funds, Ledger
  <2>2. CASE Tick
    BY <2>2, BoundAssumption DEF Tick, Ledger, admin, funds, Time
  <2>3. ASSUME NEW s \in Signature, Sign(s) PROVE TypeOK'
    BY <2>3 DEF Sign, Ledger, admin, funds
  <2>4. ASSUME NEW a \in Accounts, NEW p \in Accounts \cup {Zero, Self},
               NEW value \in Values, NEW b \in BriefHashes \cup {NoHash}, NEW t \in Time,
               CreateJob(a, p, value, b, t)
        PROVE  TypeOK'
    <3>1. /\ jobs' \in [JobId -> Job]
          /\ jobCount + 1 \in JobId /\ Exists(jobs'[jobCount + 1])
          /\ \A i \in JobId \ {jobCount + 1} : jobs'[i] = jobs[i]
      BY <2>4, CreateChanges
    <3>2. jobCount' = jobCount + 1 /\ jobCount' \in 0..MaxJobs
      BY <2>0, <2>4, BoundAssumption DEF CreateJob
    <3>3. \A i \in JobId : IF i <= jobCount' THEN Exists(jobs'[i]) ELSE jobs'[i] = NoJob
      BY <2>0, <3>1, <3>2 DEF JobId
    <3>4. balance' \in Nat
      BY <2>0, <2>4, AmountAssumption DEF CreateJob
    <3>5. LedgerOK(Ledger)'
      BY <2>0, <2>4, <3>1, <3>2, <3>3, <3>4 DEF CreateJob, LedgerOK, Ledger, admin
    <3> QED BY <2>4, <3>5 DEF CreateJob
  <2>5. ASSUME NEW a \in Accounts, NEW j \in JobId, NEW d \in DeliveryHashes \cup {NoHash},
               SubmitDelivery(a, j, d)
        PROVE  TypeOK'
    <3>1. Changed(j, "Delivered", "None", d) /\ jobs[j].status # "None"
      BY <2>5, SubmitChanges DEF SubmitDelivery, Deliverable
    <3>2. /\ jobs' \in [JobId -> Job]
          /\ \A i \in JobId : IF i <= jobCount THEN Exists(jobs'[i]) ELSE jobs'[i] = NoJob
      BY <3>1, ChangedTypes DEF Status
    <3>3. LedgerOK(Ledger)'
      BY <2>0, <2>5, <3>2 DEF SubmitDelivery, LedgerOK, Ledger, admin, funds
    <3> QED BY <2>5, <3>3 DEF SubmitDelivery
  <2>6. ASSUME NEW dec \in Decision, NEW s \in signatures, Settle(dec, s) PROVE TypeOK'
    <3>1. CASE dec.verdict # "Caution"
      BY <2>6, <3>1, SettleCloses, ClosesTypes
    <3>2. CASE dec.verdict = "Caution"
      <4>1. Changed(dec.jobId, "Delivered", "Caution", jobs[dec.jobId].deliveryHash)
        BY <2>6, <3>2, SettleChanges
      <4>2. dec.jobId \in JobId /\ jobs[dec.jobId].status # "None"
        BY <2>6 DEF Settle, Applicable, Decision
      <4>3. /\ jobs' \in [JobId -> Job]
            /\ \A i \in JobId : IF i <= jobCount THEN Exists(jobs'[i]) ELSE jobs'[i] = NoJob
        BY <4>1, <4>2, ChangedTypes DEF Status
      <4>4. UNCHANGED <<funds, frames>>
        BY <2>6, <3>2 DEF Settle
      <4>5. LedgerOK(Ledger)'
        BY <2>0, <2>6, <4>3, <4>4 DEF Settle, LedgerOK, Ledger, admin, funds
      <4> QED BY <2>6, <4>4, <4>5 DEF Settle
    <3> QED BY <3>1, <3>2
  <2>7. ASSUME NEW a \in Accounts, NEW j \in JobId, NEW release \in BOOLEAN,
               ResolveCaution(a, j, release)
        PROVE  TypeOK'
    BY <2>7, ResolveCloses, ClosesTypes
  <2>8. ASSUME NEW a \in Accounts, NEW j \in JobId, CancelExpired(a, j) PROVE TypeOK'
    BY <2>8, CancelCloses, ClosesTypes
  <2>9. ASSUME NEW f \in frames, PayReturns(f) PROVE TypeOK'
    BY <2>9 DEF PayReturns, Ledger, admin, funds
  <2>10. ASSUME NEW f \in frames, PayFails(f) PROVE TypeOK'
    <3>1. LedgerOK(f.before)
      OBVIOUS
    <3>2. LedgerOK(Ledger)'
      BY <2>10, <3>1 DEF PayFails, LedgerOK, Ledger
    <3> QED BY <2>10, <3>2 DEF PayFails
  <2>11. ASSUME NEW a \in Accounts, NEW s \in Signers \cup {Zero}, SetVerifierSigner(a, s)
         PROVE  TypeOK'
    <3>1. LedgerOK(Ledger)'
      BY <2>0, <2>11 DEF SetVerifierSigner, LedgerOK, Ledger, funds
    <3> QED BY <2>11, <3>1 DEF SetVerifierSigner
  <2>12. ASSUME NEW a \in Accounts, NEW o \in Owners \cup {Zero}, TransferOwnership(a, o)
         PROVE  TypeOK'
    <3>1. LedgerOK(Ledger)'
      BY <2>0, <2>12, AddressAssumption DEF TransferOwnership, LedgerOK, Ledger, funds
    <3> QED BY <2>12, <3>1 DEF TransferOwnership
  <2>13. ASSUME NEW a \in Accounts, AcceptOwnership(a) \/ RenounceOwnership(a) PROVE TypeOK'
    <3>1. LedgerOK(Ledger)'
      BY <2>0, <2>13 DEF AcceptOwnership, RenounceOwnership, LedgerOK, Ledger, funds
    <3> QED BY <2>13, <3>1 DEF AcceptOwnership, RenounceOwnership
  <2> QED BY <2>1, <2>2, <2>3, <2>4, <2>5, <2>6, <2>7, <2>8, <2>9, <2>10, <2>11, <2>12, <2>13 DEF Next
<1> QED BY <1>1, <1>2, PTL DEF Spec

-----------------------------------------------------------------------------
(* What every step does, in three shapes.  An invariant that says something *)
(* of each job in the ledger and in the suspended ledgers is proved against *)
(* these shapes, not against thirteen actions.                              *)

\* The ledger's jobs and payments, and the frames, are as they were.
Idle ==
    /\ UNCHANGED <<jobs, jobCount, balance, received, frames>>
    /\ signatures \subseteq signatures'
    /\ now' \in {now, now + 1}

\* One job comes into being, takes a delivery or is held for the buyer.
Advances(j) ==
    /\ UNCHANGED <<now, received, signatures, frames>>
    /\ jobs' \in [JobId -> Job]
    /\ \A i \in JobId \ {j} : jobs'[i] = jobs[i]
    /\ balance' = balance + (Due(jobs'[j]) - Due(jobs[j]))
    /\ \/ jobs[j] = NoJob /\ Exists(jobs'[j]) /\ jobs'[j].status = "Funded"
          /\ jobs'[j].verdict = "None" /\ jobs'[j].deliveryHash = NoHash
          /\ jobs'[j].deliverBy <= now + MaxDeliveryWindow
       \/ \E d \in DeliveryHashes :
            Deliverable(j) /\ Changed(j, "Delivered", "None", d)
       \/ \E dec \in Decision, s \in signatures :
            /\ dec.jobId = j /\ Applicable(dec) /\ RequireVerifierSignature(dec, s)
            /\ dec.verdict = "Caution" /\ frames = {}
            /\ Changed(j, "Delivered", "Caution", jobs[j].deliveryHash)

\* One job is closed and paid out.
Ends(j) ==
    \/ \E dec \in Decision, s \in signatures :
        /\ dec.jobId = j /\ Applicable(dec) /\ RequireVerifierSignature(dec, s)
        /\ dec.verdict # "Caution"
        /\ Closes(j, "Settled", dec.verdict, Beneficiary(dec.verdict, jobs[j]))
    \/ \E to \in {jobs[j].buyer, jobs[j].provider} :
        /\ jobs[j].status = "Delivered" /\ jobs[j].verdict = "Caution"
        /\ Closes(j, "Settled", "Caution", to)
    \/ /\ jobs[j].status = "Funded" /\ now > jobs[j].deliverBy
       /\ Closes(j, "Cancelled", jobs[j].verdict, jobs[j].buyer)

\* Neither a delivery nor a held verdict changes what a job is owed.
LEMMA SameDue ==
    ASSUME TypeOK, NEW j \in JobId, NEW v, NEW d, jobs[j].status \in {"Funded", "Delivered"},
           Changed(j, "Delivered", v, d), balance' = balance
    PROVE  balance' = balance + (Due(jobs'[j]) - Due(jobs[j]))
<1>1. jobs[j].amount \in Nat /\ balance \in Nat
  BY LedgerTypes, ExistingJobs DEF Job, TypeOK
<1>2. Due(jobs'[j]) = jobs[j].amount /\ Due(jobs[j]) = jobs[j].amount
  BY DEF Due, Open, Changed, SameTerms
<1> QED BY <1>1, <1>2

\* Every step has one of these shapes, or ends a value call.
LEMMA StepShapes ==
    ASSUME TypeOK, [Next]_vars
    PROVE  \/ Idle
           \/ \E j \in JobId : Advances(j)
           \/ \E j \in JobId : Ends(j)
           \/ \E f \in frames : PayReturns(f) \/ PayFails(f)
<1>1. CASE UNCHANGED vars
  BY <1>1 DEF Idle, vars, funds
<1>2. CASE Tick
  BY <1>2 DEF Tick, Idle, funds
<1>3. ASSUME NEW s \in Signature, Sign(s) PROVE Idle
  BY <1>3 DEF Sign, Idle, funds
<1>4. ASSUME NEW a \in Accounts, NEW p \in Accounts \cup {Zero, Self},
             NEW value \in Values, NEW b \in BriefHashes \cup {NoHash}, NEW t \in Time,
             CreateJob(a, p, value, b, t)
      PROVE  \E j \in JobId : Advances(j)
  <2>1. UNCHANGED <<now, received, signatures, frames>>
    BY <1>4 DEF CreateJob
  <2>2. t <= now + MaxDeliveryWindow
    BY <1>4 DEF CreateJob, ValidDeadline
  <2> DEFINE j == jobCount + 1
  <2>3. balance' = balance + (Due(jobs'[j]) - Due(jobs[j]))
    <3>1. jobs[j] = NoJob /\ jobs'[j].status = "Funded" /\ jobs'[j].amount = value
      BY <1>4, CreateChanges
    <3>2. Due(jobs[j]) = 0 /\ Due(jobs'[j]) = value
      BY <3>1 DEF Due, Open, NoJob
    <3> QED BY <1>4, <3>2, AmountAssumption DEF CreateJob
  <2>4. Advances(j) /\ j \in JobId
    BY <1>4, <2>1, <2>2, <2>3, CreateChanges DEF Advances
  <2> QED BY <2>4
<1>5. ASSUME NEW a \in Accounts, NEW j \in JobId, NEW d \in DeliveryHashes \cup {NoHash},
             SubmitDelivery(a, j, d)
      PROVE  Advances(j)
  <2>1. /\ d \in DeliveryHashes /\ Deliverable(j)
        /\ UNCHANGED <<now, balance, received, signatures, frames>>
    BY <1>5 DEF SubmitDelivery, funds
  <2>2. Changed(j, "Delivered", "None", d)
    BY <1>5, SubmitChanges
  <2>3. balance' = balance + (Due(jobs'[j]) - Due(jobs[j]))
    <3>1. jobs[j].status \in {"Funded", "Delivered"} /\ balance' = balance
      BY <2>1 DEF Deliverable
    <3> QED BY <2>2, <3>1, SameDue
  <2> QED BY <2>1, <2>2, <2>3 DEF Advances, Changed
<1>6. ASSUME NEW dec \in Decision, NEW s \in signatures, Settle(dec, s)
      PROVE  \E j \in JobId : Advances(j) \/ Ends(j)
  <2>1. dec.jobId \in JobId /\ Applicable(dec) /\ RequireVerifierSignature(dec, s)
    BY <1>6 DEF Settle, Decision
  <2>2. CASE dec.verdict # "Caution"
    BY <1>6, <2>1, <2>2, SettleCloses DEF Ends
  <2>3. CASE dec.verdict = "Caution"
    <3>1. Changed(dec.jobId, "Delivered", "Caution", jobs[dec.jobId].deliveryHash)
      BY <1>6, <2>3, SettleChanges
    <3>2. UNCHANGED <<now, received, signatures, frames>> /\ frames = {}
      BY <1>6, <2>3 DEF Settle, NonReentrant, funds
    <3>3. balance' = balance + (Due(jobs'[dec.jobId]) - Due(jobs[dec.jobId]))
      BY <1>6, <2>1, <2>3, <3>1, SameDue DEF Settle, Applicable, funds
    <3>4. Advances(dec.jobId)
      BY <2>1, <2>3, <3>1, <3>2, <3>3 DEF Advances, Changed
    <3> QED BY <2>1, <3>4
  <2> QED BY <2>2, <2>3
<1>7. ASSUME NEW a \in Accounts, NEW j \in JobId, NEW release \in BOOLEAN,
             ResolveCaution(a, j, release)
      PROVE  Ends(j)
  <2>1. jobs[j].status = "Delivered" /\ jobs[j].verdict = "Caution"
    BY <1>7 DEF ResolveCaution
  <2> QED BY <1>7, <2>1, ResolveCloses DEF Ends
<1>8. ASSUME NEW a \in Accounts, NEW j \in JobId, CancelExpired(a, j) PROVE Ends(j)
  <2>1. jobs[j].status = "Funded" /\ now > jobs[j].deliverBy
    BY <1>8 DEF CancelExpired, Reclaimable, DeadlineReached
  <2> QED BY <1>8, <2>1, CancelCloses DEF Ends
<1>9. ASSUME NEW a \in Accounts,
             \/ \E s \in Signers \cup {Zero} : SetVerifierSigner(a, s)
             \/ \E o \in Owners \cup {Zero} : TransferOwnership(a, o)
             \/ AcceptOwnership(a)
             \/ RenounceOwnership(a)
      PROVE  Idle
  <2>1. \/ \E s \in Signers \cup {Zero} : SetVerifierSigner(a, s)
        \/ \E o \in Owners \cup {Zero} : TransferOwnership(a, o)
        \/ AcceptOwnership(a)
        \/ RenounceOwnership(a)
    BY <1>9
  <2>2. UNCHANGED <<now, jobs, jobCount, balance, received, signatures, frames>>
    BY <2>1 DEF SetVerifierSigner, TransferOwnership, AcceptOwnership, RenounceOwnership, funds
  <2> QED BY <2>2 DEF Idle
<1> QED BY <1>1, <1>2, <1>3, <1>4, <1>5, <1>6, <1>7, <1>8, <1>9 DEF Next

-----------------------------------------------------------------------------
(* The money goes where the verdict says, once.  PaidAsJudged is inductive  *)
(* together with TypeOK: its cases for a suspended ledger are what makes a  *)
(* reverted payment harmless.                                              *)

\* An open job has paid nothing.
LEMMA NothingPaid ==
    ASSUME TypeOK, PaidAsJudged, NEW j \in JobId, jobs[j].status \in {"None", "Funded", "Delivered"}
    PROVE  received[j] = [a \in Accounts |-> 0]
<1>1. PaidRight(j, Ledger) /\ Ledger.jobs = jobs /\ Ledger.received = received
  BY DEF PaidAsJudged, Ledger
<1>2. PaidOnly(j, Zero, Ledger)
  BY <1>1 DEF PaidRight
<1> QED BY <1>1, <1>2, AddressAssumption DEF PaidOnly

\* Whether job j is paid right depends only on its record and its payments.
LEMMA SamePaid ==
    ASSUME NEW j \in JobId, PaidRight(j, Ledger),
           jobs'[j] = jobs[j], received'[j] = received[j]
    PROVE  PaidRight(j, Ledger)'
BY DEF PaidRight, PaidOnly, Ledger

\* One payment from a job that had paid nothing.
LEMMA FirstPayment ==
    ASSUME TypeOK, PaidAsJudged, NEW j \in JobId, NEW st, NEW v, NEW to \in Accounts,
           Closes(j, st, v, to), jobs[j].status \in {"Funded", "Delivered"}
    PROVE  /\ PaidOnly(j, to, Ledger)'
           /\ jobs'[j].status = st /\ jobs'[j].verdict = v
           /\ jobs'[j].buyer = jobs[j].buyer /\ jobs'[j].provider = jobs[j].provider
           /\ \A i \in JobId \ {j} : jobs'[i] = jobs[i] /\ received'[i] = received[i]
           /\ frames' = {[to |-> to, before |-> Ledger]}
<1>1. received \in [JobId -> [Accounts -> Nat]] /\ received[j] = [a \in Accounts |-> 0]
  BY LedgerTypes, NothingPaid DEF TypeOK
<1>2. jobs[j].amount \in Nat
  BY ExistingJobs DEF Job
<1>3. received' = [received EXCEPT ![j][to] = @ + jobs[j].amount]
  BY DEF Closes, Pay
<1>4. received'[j] = [a \in Accounts |-> IF a = to THEN jobs[j].amount ELSE 0]
  BY <1>1, <1>2, <1>3
<1>5. \A i \in JobId \ {j} : jobs'[i] = jobs[i] /\ received'[i] = received[i]
  BY <1>1, <1>3 DEF Closes, Changed
<1>6. SameTerms(jobs'[j], jobs[j]) /\ jobs'[j].status = st /\ jobs'[j].verdict = v
  BY DEF Closes, Changed
<1>7. PaidOnly(j, to, Ledger)'
  BY <1>4, <1>6 DEF PaidOnly, Ledger, SameTerms
<1>8. frames' = {[to |-> to, before |-> Ledger]}
  BY DEF Closes, Pay
<1> QED BY <1>5, <1>6, <1>7, <1>8 DEF SameTerms

\* A job that advances still has paid nothing.
LEMMA AdvanceUnpaid ==
    ASSUME TypeOK, PaidAsJudged, NEW j \in JobId, Advances(j)
    PROVE  PaidAsJudged'
<1>1. /\ jobs[j].status \in {"None", "Funded", "Delivered"}
      /\ jobs'[j].status \in {"None", "Funded", "Delivered"}
  BY DEF Advances, Changed, Deliverable, Applicable, NoJob
<1>2. received'[j] = [a \in Accounts |-> 0] /\ UNCHANGED <<received, frames>>
  BY <1>1, NothingPaid DEF Advances
<1>3. PaidRight(j, Ledger)'
  BY <1>1, <1>2, AddressAssumption DEF PaidRight, PaidOnly, Ledger
<1>4. \A i \in JobId \ {j} : PaidRight(i, Ledger)'
  BY <1>2, SamePaid DEF Advances, PaidAsJudged
<1>5. \A i \in JobId : \A f \in frames' : PaidRight(i, f.before)
  BY <1>2 DEF PaidAsJudged
<1> QED BY <1>3, <1>4, <1>5 DEF PaidAsJudged

\* A job that ends pays the one the verdict names.
LEMMA EndPays ==
    ASSUME TypeOK, PaidAsJudged, NEW j \in JobId, Ends(j)
    PROVE  PaidAsJudged'
<1>1. ASSUME NEW st, NEW v, NEW to, Closes(j, st, v, to),
             jobs[j].status \in {"Funded", "Delivered"},
             \/ st = "Cancelled" /\ to = jobs[j].buyer
             \/ st = "Settled" /\ v = "Go" /\ to = jobs[j].provider
             \/ st = "Settled" /\ v = "NoGo" /\ to = jobs[j].buyer
             \/ st = "Settled" /\ v = "Caution" /\ to \in {jobs[j].buyer, jobs[j].provider}
      PROVE  PaidAsJudged'
  <2>1. to \in Accounts
    BY <1>1, ClosesTypes
  <2>2. /\ PaidOnly(j, to, Ledger)'
        /\ jobs'[j].status = st /\ jobs'[j].verdict = v
        /\ jobs'[j].buyer = jobs[j].buyer /\ jobs'[j].provider = jobs[j].provider
        /\ \A i \in JobId \ {j} : jobs'[i] = jobs[i] /\ received'[i] = received[i]
        /\ frames' = {[to |-> to, before |-> Ledger]}
    BY <1>1, <2>1, FirstPayment
  <2>3. PaidRight(j, Ledger)'
    BY <1>1, <2>2 DEF PaidRight, Ledger
  <2>4. \A i \in JobId \ {j} : PaidRight(i, Ledger)'
    BY <2>2, SamePaid DEF PaidAsJudged
  <2>5. \A i \in JobId : \A f \in frames' : PaidRight(i, f.before)
    BY <2>2 DEF PaidAsJudged
  <2> QED BY <2>3, <2>4, <2>5 DEF PaidAsJudged
<1>2. ASSUME NEW dec \in Decision, dec.jobId = j, Applicable(dec), dec.verdict # "Caution",
             Closes(j, "Settled", dec.verdict, Beneficiary(dec.verdict, jobs[j]))
      PROVE  PaidAsJudged'
  <2>1. dec.verdict \in {"Go", "NoGo"} /\ jobs[j].status = "Delivered"
    BY <1>2 DEF Applicable, Decision, Verdict
  <2>2. Beneficiary(dec.verdict, jobs[j])
          = IF dec.verdict = "Go" THEN jobs[j].provider ELSE jobs[j].buyer
    BY DEF Beneficiary
  <2> QED BY <1>1, <1>2, <2>1, <2>2
<1>3. ASSUME NEW to \in {jobs[j].buyer, jobs[j].provider}, jobs[j].status = "Delivered",
             Closes(j, "Settled", "Caution", to)
      PROVE  PaidAsJudged'
  BY <1>1, <1>3
<1>4. ASSUME jobs[j].status = "Funded",
             Closes(j, "Cancelled", jobs[j].verdict, jobs[j].buyer)
      PROVE  PaidAsJudged'
  BY <1>1, <1>4
<1> QED BY <1>2, <1>3, <1>4 DEF Ends

\* The money of every job goes, once and in full, where its verdict says, at
\* every moment of every behaviour: also while the payee of another job is
\* running inside a payment, and after a payment that was refused.
THEOREM PaymentCorrect == Spec => []PaidAsJudged
<1>1. Init => PaidAsJudged
  BY AddressAssumption DEF Init, PaidAsJudged, PaidRight, PaidOnly, Ledger, NoJob
<1>2. TypeOK /\ PaidAsJudged /\ [Next]_vars => PaidAsJudged'
  <2> SUFFICES ASSUME TypeOK, PaidAsJudged, [Next]_vars PROVE PaidAsJudged'
    OBVIOUS
  <2>1. CASE Idle
    <3>1. \A j \in JobId : PaidRight(j, Ledger)'
      BY <2>1, SamePaid DEF Idle, PaidAsJudged
    <3> QED BY <2>1, <3>1 DEF Idle, PaidAsJudged
  <2>2. ASSUME NEW j \in JobId, Advances(j) PROVE PaidAsJudged'
    BY <2>2, AdvanceUnpaid
  <2>3. ASSUME NEW j \in JobId, Ends(j) PROVE PaidAsJudged'
    BY <2>3, EndPays
  <2>4. ASSUME NEW f \in frames, PayReturns(f) PROVE PaidAsJudged'
    <3>1. \A j \in JobId : PaidRight(j, Ledger)'
      BY <2>4, SamePaid DEF PayReturns, PaidAsJudged, funds
    <3> QED BY <2>4, <3>1 DEF PayReturns, PaidAsJudged
  <2>5. ASSUME NEW f \in frames, PayFails(f) PROVE PaidAsJudged'
    <3>1. \A j \in JobId : PaidRight(j, f.before)
      BY DEF PaidAsJudged
    <3>2. jobs' = f.before.jobs /\ received' = f.before.received /\ frames' = frames \ {f}
      BY <2>5 DEF PayFails
    <3>3. \A j \in JobId : PaidRight(j, Ledger)'
      BY <3>1, <3>2 DEF PaidRight, PaidOnly, Ledger
    <3> QED BY <3>2, <3>3 DEF PaidAsJudged
  <2> QED BY <2>1, <2>2, <2>3, <2>4, <2>5, StepShapes
<1> QED BY <1>1, <1>2, TypeCorrect, PTL DEF Spec

-----------------------------------------------------------------------------
(* Verdicts rest on signatures.                                            *)

\* A signature goes on backing what it backs: signatures are never unmade.
LEMMA BackingLasts ==
    ASSUME NEW js, VerdictBacked(js), signatures \subseteq signatures'
    PROVE  VerdictBacked(js)'
BY DEF VerdictBacked

\* The frames a step can suspend are backed if the ledger is.
LEMMA FramesBacked ==
    ASSUME VerdictsAreSigned, signatures \subseteq signatures',
           frames' \subseteq frames \cup {f \in frames' : f.before = Ledger}
    PROVE  \A f \in frames' : VerdictBacked(f.before.jobs)'
<1> SUFFICES ASSUME NEW f \in frames' PROVE VerdictBacked(f.before.jobs)'
  OBVIOUS
<1>1. VerdictBacked(f.before.jobs)
  BY DEF VerdictsAreSigned, Ledger
<1> QED BY <1>1 DEF VerdictBacked

\* Accepting a decision backs the verdict it sets.
LEMMA AcceptedIsSigned ==
    ASSUME TypeOK, NEW dec \in Decision, NEW s \in signatures,
           Applicable(dec), RequireVerifierSignature(dec, s)
    PROVE  SignedFor(dec.jobId, [jobs[dec.jobId] EXCEPT !.verdict = dec.verdict], s)
<1>1. s.decision = dec /\ s.domain = Domain
  BY LedgerTypes, AddressAssumption DEF TypeOK, RequireVerifierSignature, Recover
<1>2. jobs[dec.jobId] \in Job
  BY LedgerTypes DEF TypeOK, Decision
<1>3. /\ dec.briefHash = jobs[dec.jobId].briefHash
      /\ dec.deliveryHash = jobs[dec.jobId].deliveryHash
  BY DEF Applicable, ForThisWork
<1> QED BY <1>1, <1>2, <1>3 DEF SignedFor, Job

\* Every verdict in storage was signed for this deployment, for that job, its
\* brief and the very delivery it carries, at every moment.
THEOREM VerdictsCorrect == Spec => []VerdictsAreSigned
<1>1. Init => VerdictsAreSigned
  BY DEF Init, VerdictsAreSigned, VerdictBacked, NoJob
<1>2. TypeOK /\ VerdictsAreSigned /\ [Next]_vars => VerdictsAreSigned'
  <2> SUFFICES ASSUME TypeOK, VerdictsAreSigned, [Next]_vars PROVE VerdictsAreSigned'
    OBVIOUS
  <2>0. VerdictBacked(jobs) /\ \A f \in frames : VerdictBacked(f.before.jobs)
    BY DEF VerdictsAreSigned
  <2>1. CASE Idle
    BY <2>0, <2>1, BackingLasts DEF Idle, VerdictsAreSigned
  <2>2. ASSUME NEW j \in JobId, NEW dec \in Decision, NEW s \in signatures, NEW st,
               dec.jobId = j, Applicable(dec), RequireVerifierSignature(dec, s),
               Changed(j, st, dec.verdict, jobs[j].deliveryHash),
               UNCHANGED signatures
        PROVE  VerdictBacked(jobs)'
    <3>1. SignedFor(j, [jobs[j] EXCEPT !.verdict = dec.verdict], s)
      BY <2>2, AcceptedIsSigned
    <3>2. jobs[j] \in Job
      BY LedgerTypes DEF TypeOK
    <3>3. SignedFor(j, jobs'[j], s)
      BY <2>2, <3>1, <3>2 DEF SignedFor, Changed, SameTerms, Job
    <3> QED BY <2>0, <2>2, <3>3 DEF VerdictBacked, Changed
  <2>3. ASSUME NEW j \in JobId, NEW st, NEW d, UNCHANGED signatures,
               Changed(j, st, jobs[j].verdict, d),
               jobs[j].verdict # "None" => d = jobs[j].deliveryHash
        PROVE  VerdictBacked(jobs)'
    <3>1. jobs[j].verdict # "None" => \E s \in signatures : SignedFor(j, jobs'[j], s)
      BY <2>0, <2>3 DEF VerdictBacked, SignedFor, Changed, SameTerms
    <3> QED BY <2>0, <2>3, <3>1 DEF VerdictBacked, Changed
  <2>4. ASSUME NEW j \in JobId, Advances(j) PROVE VerdictsAreSigned'
    <3>1. UNCHANGED <<signatures, frames>>
      BY <2>4 DEF Advances
    <3>2. VerdictBacked(jobs)'
      <4>1. CASE jobs[j] = NoJob /\ jobs'[j].verdict = "None"
        BY <2>0, <2>4, <3>1, <4>1 DEF Advances, VerdictBacked
      <4>2. ASSUME NEW d \in DeliveryHashes, Deliverable(j), Changed(j, "Delivered", "None", d)
            PROVE  VerdictBacked(jobs)'
        BY <2>3, <3>1, <4>2 DEF Deliverable
      <4>3. ASSUME NEW dec \in Decision, NEW s \in signatures, dec.jobId = j,
                   Applicable(dec), RequireVerifierSignature(dec, s), dec.verdict = "Caution",
                   Changed(j, "Delivered", "Caution", jobs[j].deliveryHash)
            PROVE  VerdictBacked(jobs)'
        BY <2>2, <3>1, <4>3
      <4> QED BY <2>4, <4>1, <4>2, <4>3 DEF Advances
    <3> QED BY <2>0, <3>1, <3>2, BackingLasts DEF VerdictsAreSigned
  <2>5. ASSUME NEW j \in JobId, Ends(j) PROVE VerdictsAreSigned'
    <3>1. ASSUME NEW st, NEW v, NEW to, Closes(j, st, v, to), VerdictBacked(jobs)'
          PROVE  VerdictsAreSigned'
      BY <3>1, FramesBacked DEF Closes, Pay, VerdictsAreSigned
    <3>2. ASSUME NEW dec \in Decision, NEW s \in signatures, dec.jobId = j,
                 Applicable(dec), RequireVerifierSignature(dec, s),
                 Closes(j, "Settled", dec.verdict, Beneficiary(dec.verdict, jobs[j]))
          PROVE  VerdictsAreSigned'
      BY <2>2, <3>1, <3>2 DEF Closes
    <3>3. ASSUME NEW st, NEW to, Closes(j, st, jobs[j].verdict, to) PROVE VerdictsAreSigned'
      BY <2>3, <3>1, <3>3 DEF Closes
    <3> QED BY <2>5, <3>2, <3>3 DEF Ends
  <2>6. ASSUME NEW f \in frames, PayReturns(f) PROVE VerdictsAreSigned'
    BY <2>0, <2>6, BackingLasts DEF PayReturns, VerdictsAreSigned
  <2>7. ASSUME NEW f \in frames, PayFails(f) PROVE VerdictsAreSigned'
    BY <2>0, <2>7, BackingLasts DEF PayFails, VerdictsAreSigned
  <2> QED BY <2>1, <2>4, <2>5, <2>6, <2>7, StepShapes
<1> QED BY <1>1, <1>2, TypeCorrect, PTL DEF Spec

-----------------------------------------------------------------------------
(* The stage of a job tells its history.                                   *)

\* Time passing does not unmake a stage.
LEMMA StageLasts ==
    ASSUME TypeOK, NEW job \in Job, StageRight(job, now), now' \in {now, now + 1}
    PROVE  StageRight(job, now')
BY DEF StageRight, TypeOK, Time, Job

\* A job is cancelled only undelivered and late, and a delivered job ends only
\* by a verdict: there is no other way out of the escrow.
THEOREM StagesCorrect == Spec => []StageTellsHistory
<1>1. Init => StageTellsHistory
  BY DEF Init, StageTellsHistory, StageRight, NoJob
<1>2. TypeOK /\ StageTellsHistory /\ [Next]_vars => StageTellsHistory'
  <2> SUFFICES ASSUME TypeOK, StageTellsHistory, [Next]_vars PROVE StageTellsHistory'
    OBVIOUS
  <2>0. /\ \A i \in JobId : jobs[i] \in Job /\ StageRight(jobs[i], now)
        /\ \A f \in frames : \A i \in JobId :
              f.before.jobs[i] \in Job /\ StageRight(f.before.jobs[i], now)
    BY LedgerTypes DEF StageTellsHistory, TypeOK, LedgerOK
  <2>1. CASE Idle
    BY <2>0, <2>1, StageLasts DEF Idle, StageTellsHistory
  <2>2. ASSUME NEW j \in JobId, Advances(j) PROVE StageTellsHistory'
    <3>1. UNCHANGED <<now, frames>> /\ \A i \in JobId \ {j} : jobs'[i] = jobs[i]
      BY <2>2 DEF Advances
    <3>2. StageRight(jobs[j], now)
      BY <2>0
    <3>3. StageRight(jobs'[j], now')
      <4>1. CASE /\ jobs'[j].status = "Funded"
                 /\ jobs'[j].verdict = "None" /\ jobs'[j].deliveryHash = NoHash
        BY <4>1 DEF StageRight
      <4>2. ASSUME NEW d \in DeliveryHashes, Changed(j, "Delivered", "None", d)
            PROVE  StageRight(jobs'[j], now')
        BY <4>2, HashAssumption DEF StageRight, Changed
      <4>3. ASSUME NEW dec \in Decision, dec.jobId = j, Applicable(dec),
                   Changed(j, "Delivered", "Caution", jobs[j].deliveryHash)
            PROVE  StageRight(jobs'[j], now')
        BY <3>2, <4>3 DEF StageRight, Changed, Applicable
      <4> QED BY <2>2, <4>1, <4>2, <4>3 DEF Advances
    <3> QED BY <2>0, <3>1, <3>3 DEF StageTellsHistory, StageRight
  <2>3. ASSUME NEW j \in JobId, Ends(j) PROVE StageTellsHistory'
    <3>1. StageRight(jobs[j], now)
      BY <2>0
    <3>2. ASSUME NEW st, NEW v, NEW to, Closes(j, st, v, to), StageRight(jobs'[j], now')
          PROVE  StageTellsHistory'
      <4>1. /\ UNCHANGED now /\ \A i \in JobId \ {j} : jobs'[i] = jobs[i]
            /\ frames' = {[to |-> to, before |-> Ledger]}
        BY <3>2 DEF Closes, Changed, Pay
      <4>2. \A i \in JobId \ {j} : StageRight(jobs'[i], now')
        BY <2>0, <4>1 DEF StageRight
      <4>3. \A i \in JobId : StageRight(jobs[i], now')
        BY <2>0, <4>1 DEF StageRight
      <4>4. \A f \in frames' : f.before.jobs = jobs
        BY <4>1 DEF Ledger
      <4> QED BY <3>2, <4>2, <4>3, <4>4 DEF StageTellsHistory, StageRight
    <3>3. ASSUME NEW dec \in Decision, dec.jobId = j, Applicable(dec),
                 Closes(j, "Settled", dec.verdict, Beneficiary(dec.verdict, jobs[j]))
          PROVE  StageTellsHistory'
      <4>1. StageRight(jobs'[j], now')
        BY <3>1, <3>3 DEF StageRight, Closes, Changed, Applicable
      <4> QED BY <3>2, <3>3, <4>1
    <3>4. ASSUME NEW to, jobs[j].status = "Delivered", Closes(j, "Settled", "Caution", to)
          PROVE  StageTellsHistory'
      <4>1. StageRight(jobs'[j], now')
        BY <3>1, <3>4 DEF StageRight, Closes, Changed
      <4> QED BY <3>2, <3>4, <4>1
    <3>5. ASSUME jobs[j].status = "Funded", now > jobs[j].deliverBy,
                 Closes(j, "Cancelled", jobs[j].verdict, jobs[j].buyer)
          PROVE  StageTellsHistory'
      <4>1. now \in Int /\ jobs[j].deliverBy \in Int
        BY <2>0 DEF TypeOK, Time, Job
      <4>2. StageRight(jobs'[j], now')
        BY <3>1, <3>5, <4>1 DEF StageRight, Closes, Changed, SameTerms
      <4> QED BY <3>2, <3>5, <4>2
    <3> QED BY <2>3, <3>3, <3>4, <3>5 DEF Ends
  <2>4. ASSUME NEW f \in frames, PayReturns(f) PROVE StageTellsHistory'
    BY <2>0, <2>4 DEF PayReturns, StageTellsHistory, StageRight
  <2>5. ASSUME NEW f \in frames, PayFails(f) PROVE StageTellsHistory'
    BY <2>0, <2>5 DEF PayFails, StageTellsHistory, StageRight
  <2> QED BY <2>1, <2>2, <2>3, <2>4, <2>5, StepShapes
<1> QED BY <1>1, <1>2, TypeCorrect, PTL DEF Spec

-----------------------------------------------------------------------------
(* Deadlines.                                                              *)

Within(js) == \A j \in JobId : js[j].deliverBy <= now + MaxDeliveryWindow

\* Nobody can commit a buyer's money for longer than a window from now: not by
\* a late clock, a refused payment or a job created while another is paid.
THEOREM LocksAreShort == Spec => []LockedAtMostAWindow
<1> DEFINE Inv == Within(jobs) /\ \A f \in frames : Within(f.before.jobs)
<1>1. Init => Inv
  BY WindowAssumption DEF Init, Within, NoJob
<1>2. TypeOK /\ Inv /\ [Next]_vars => Inv'
  <2> SUFFICES ASSUME TypeOK, Inv, [Next]_vars PROVE Inv'
    OBVIOUS
  <2>0. /\ now \in Nat /\ MaxDeliveryWindow \in Nat
        /\ jobs \in [JobId -> Job]
        /\ \A f \in frames : f.before.jobs \in [JobId -> Job]
    BY LedgerTypes, BoundAssumption, WindowAssumption DEF TypeOK, Time, LedgerOK
  <2>1. ASSUME NEW js \in [JobId -> Job], Within(js), now' \in {now, now + 1}
        PROVE  \A j \in JobId : js[j].deliverBy <= now' + MaxDeliveryWindow
    <3> SUFFICES ASSUME NEW j \in JobId PROVE js[j].deliverBy <= now' + MaxDeliveryWindow
      OBVIOUS
    <3>1. js[j].deliverBy \in Nat /\ js[j].deliverBy <= now + MaxDeliveryWindow
      BY <2>1 DEF Job, Within
    <3> QED BY <2>0, <2>1, <3>1
  <2>2. CASE Idle
    BY <2>0, <2>1, <2>2 DEF Idle, Within
  <2>3. ASSUME NEW j \in JobId, Advances(j) PROVE Inv'
    <3>1. jobs'[j].deliverBy <= now + MaxDeliveryWindow
      BY <2>3 DEF Advances, Changed, SameTerms, Within
    <3> QED BY <2>3, <3>1 DEF Advances, Within
  <2>4. ASSUME NEW j \in JobId, Ends(j) PROVE Inv'
    <3>1. ASSUME NEW st, NEW v, NEW to, Closes(j, st, v, to) PROVE Inv'
      <4>1. /\ UNCHANGED now /\ SameTerms(jobs'[j], jobs[j])
            /\ \A i \in JobId \ {j} : jobs'[i] = jobs[i]
            /\ frames' = {[to |-> to, before |-> Ledger]}
        BY <3>1 DEF Closes, Changed, Pay
      <4>2. \A f \in frames' : f.before.jobs = jobs
        BY <4>1 DEF Ledger
      <4>3. Within(jobs)'
        BY <4>1 DEF Within, SameTerms
      <4> QED BY <4>1, <4>2, <4>3 DEF Within
    <3> QED BY <2>4, <3>1 DEF Ends
  <2>5. ASSUME NEW f \in frames, PayReturns(f) \/ PayFails(f) PROVE Inv'
    BY <2>5 DEF PayReturns, PayFails, Within
  <2> QED BY <2>2, <2>3, <2>4, <2>5, StepShapes
<1>3. Inv => LockedAtMostAWindow
  BY DEF Within, LockedAtMostAWindow
<1> QED BY <1>1, <1>2, <1>3, TypeCorrect, PTL DEF Spec

-----------------------------------------------------------------------------
(* Refinement.  Seen through its committed ledger the contract does nothing *)
(* until a transaction ends: what needs an invariant is the difference      *)
(* between the ledger a payment started from and the one it leaves behind.  *)

\* From the ledger b to the jobs and payments js and got, job i has gone on
\* without a payment, as far as it can during another job's payment.
MovedOn(b, js, got, i) ==
    /\ got[i] = b.received[i]
    /\ \/ js[i] = b.jobs[i]
       \/ /\ b.jobs[i].verdict = "None" /\ js[i].verdict = "None"
          /\ js[i].status \in {"Funded", "Delivered"}
          /\ \/ b.jobs[i].status = "None"
             \/ /\ b.jobs[i].status \in {"Funded", "Delivered"}
                /\ js[i].status = "Delivered"
                /\ SameTerms(js[i], b.jobs[i])

\* From b to js and got, job j was closed and paid out to one of its parties.
ClosedTo(b, js, got, j, to) ==
    /\ SameTerms(js[j], b.jobs[j]) /\ js[j].deliveryHash = b.jobs[j].deliveryHash
    /\ b.received[j] = [a \in Accounts |-> 0]
    /\ got[j] = [a \in Accounts |-> IF a = to THEN b.jobs[j].amount ELSE 0]
    /\ \/ /\ b.jobs[j].status = "Funded" /\ js[j].status = "Cancelled"
          /\ to = b.jobs[j].buyer
       \/ /\ b.jobs[j].status = "Delivered" /\ js[j].status = "Settled"
          /\ to \in {b.jobs[j].buyer, b.jobs[j].provider}

Pending(b, js, got) ==
    \E j \in JobId :
        /\ \E to \in Accounts : ClosedTo(b, js, got, j, to)
        /\ \A i \in JobId \ {j} : MovedOn(b, js, got, i)

PendingInv == \A f \in frames : frames = {f} /\ Pending(f.before, jobs, received)

\* A job that moves on in a step goes on from where it was before the payment.
LEMMA MovesOn ==
    ASSUME NEW b, NEW i \in JobId, Advances(i), frames # {}, MovedOn(b, jobs, received, i)
    PROVE  MovedOn(b, jobs', received', i)
<1>1. received' = received
  BY DEF Advances
<1>2. CASE jobs[i] = NoJob /\ jobs'[i].status = "Funded" /\ jobs'[i].verdict = "None"
  BY <1>1, <1>2 DEF MovedOn, NoJob
<1>3. ASSUME NEW d, Deliverable(i), Changed(i, "Delivered", "None", d)
      PROVE  MovedOn(b, jobs', received', i)
  BY <1>1, <1>3 DEF MovedOn, Deliverable, Changed, SameTerms
<1> QED BY <1>2, <1>3 DEF Advances

LEMMA PendingKept ==
    ASSUME TypeOK, PaidAsJudged, PendingInv, [Next]_vars
    PROVE  PendingInv'
<1>1. CASE Idle
  BY <1>1 DEF Idle, PendingInv
<1>2. ASSUME NEW i \in JobId, Advances(i) PROVE PendingInv'
  <2> SUFFICES ASSUME NEW f \in frames PROVE Pending(f.before, jobs', received')
    BY <1>2 DEF PendingInv, Advances
  <2>1. PICK j \in JobId : /\ \E to \in Accounts : ClosedTo(f.before, jobs, received, j, to)
                           /\ \A k \in JobId \ {j} : MovedOn(f.before, jobs, received, k)
    BY DEF PendingInv, Pending
  <2>2. jobs[j].status \in {"Cancelled", "Settled"}
    BY <2>1 DEF ClosedTo
  <2>3. i # j
    BY <1>2, <2>2 DEF Advances, Deliverable, Applicable, NoJob
  <2>4. received' = received /\ \A k \in JobId \ {i} : jobs'[k] = jobs[k]
    BY <1>2 DEF Advances
  <2>5. \E to \in Accounts : ClosedTo(f.before, jobs', received', j, to)
    BY <2>1, <2>3, <2>4 DEF ClosedTo
  <2>6. MovedOn(f.before, jobs', received', i)
    BY <1>2, <2>1, <2>3, MovesOn
  <2>7. \A k \in JobId \ {i, j} : MovedOn(f.before, jobs', received', k)
    BY <2>1, <2>4 DEF MovedOn
  <2> QED BY <2>5, <2>6, <2>7 DEF Pending
<1>3. ASSUME NEW j \in JobId, Ends(j) PROVE PendingInv'
  <2>1. ASSUME NEW st, NEW v, NEW to, Closes(j, st, v, to),
               \/ jobs[j].status = "Funded" /\ st = "Cancelled" /\ to = jobs[j].buyer
               \/ jobs[j].status = "Delivered" /\ st = "Settled"
        PROVE  PendingInv'
    <3>1. to \in Accounts /\ to \in {jobs[j].buyer, jobs[j].provider}
      BY <2>1, ClosesTypes DEF Closes
    <3>2. /\ PaidOnly(j, to, Ledger)' /\ jobs'[j].status = st
          /\ \A i \in JobId \ {j} : jobs'[i] = jobs[i] /\ received'[i] = received[i]
          /\ frames' = {[to |-> to, before |-> Ledger]}
      BY <2>1, <3>1, FirstPayment
    <3>3. received[j] = [a \in Accounts |-> 0]
      BY <2>1, NothingPaid
    <3>4. SameTerms(jobs'[j], jobs[j]) /\ jobs'[j].deliveryHash = jobs[j].deliveryHash
      BY <2>1 DEF Closes, Changed
    <3>5. received'[j] = [a \in Accounts |-> IF a = to THEN jobs[j].amount ELSE 0]
      BY <3>2, <3>4 DEF PaidOnly, Ledger, SameTerms
    <3>6. Ledger.jobs = jobs /\ Ledger.received = received
      BY DEF Ledger
    <3>7. ClosedTo(Ledger, jobs', received', j, to)
      BY <2>1, <3>1, <3>2, <3>3, <3>4, <3>5, <3>6 DEF ClosedTo
    <3>8. \A i \in JobId \ {j} : MovedOn(Ledger, jobs', received', i)
      BY <3>2, <3>6 DEF MovedOn
    <3>9. Pending(Ledger, jobs', received')
      BY <3>1, <3>7, <3>8 DEF Pending
    <3> QED BY <3>2, <3>9 DEF PendingInv
  <2> QED BY <1>3, <2>1 DEF Ends, Applicable
<1>4. ASSUME NEW f \in frames, PayReturns(f) \/ PayFails(f) PROVE PendingInv'
  <2>1. frames' = {}
    BY <1>4 DEF PayReturns, PayFails, PendingInv
  <2> QED BY <2>1 DEF PendingInv
<1> QED BY <1>1, <1>2, <1>3, <1>4, StepShapes

-----------------------------------------------------------------------------
(* From two ledgers to a step of EscrowPromise.                            *)

\* Progress and Close of the promise, between a ledger and what came of it.
ProgressSeen(b, js, got, j) ==
    LET p == PhaseOf(b.jobs[j], b.received[j])
        q == PhaseOf(js[j], got[j])
    IN  /\ q \in Promise!Ahead(p)
        /\ p # "none" => TermsOf(js[j]) = TermsOf(b.jobs[j])
        /\ q \notin {"none", "funded", "delivered"} =>
             js[j].deliveryHash = b.jobs[j].deliveryHash
        /\ got[j] = b.received[j]

CloseSeen(b, js, got, j) ==
    LET p == PhaseOf(b.jobs[j], b.received[j])
        q == PhaseOf(js[j], got[j])
        InFull(to) == got[j] = [b.received[j] EXCEPT ![to] = b.jobs[j].amount]
    IN  /\ TermsOf(js[j]) = TermsOf(b.jobs[j])
        /\ js[j].deliveryHash = b.jobs[j].deliveryHash
        /\ \/ p = "funded" /\ q = "reclaimed" /\ InFull(b.jobs[j].buyer)
           \/ /\ p \in {"delivered", "held"}
              /\ \/ q = "released" /\ InFull(b.jobs[j].provider)
                 \/ q = "refunded" /\ InFull(b.jobs[j].buyer)

Closings == {{}} \cup {{j} : j \in JobId}

Shows(b, js, got) ==
    \E closing \in Closings :
        \A j \in JobId :
            IF j \in closing THEN CloseSeen(b, js, got, j) ELSE ProgressSeen(b, js, got, j)

\* A job that moved on has made progress in the sense of the promise.
LEMMA ProgressShown ==
    ASSUME NEW b, NEW js, NEW got, NEW i \in JobId, MovedOn(b, js, got, i)
    PROVE  ProgressSeen(b, js, got, i)
<1> DEFINE p == PhaseOf(b.jobs[i], b.received[i])
           q == PhaseOf(js[i], got[i])
<1>1. CASE js[i] = b.jobs[i]
  <2>1. q = p /\ got[i] = b.received[i]
    BY <1>1 DEF MovedOn
  <2>2. p \in Promise!Ahead(p)
    BY DEF Promise!Ahead
  <2> QED BY <1>1, <2>1, <2>2 DEF ProgressSeen
<1>2. CASE /\ b.jobs[i].verdict = "None" /\ js[i].verdict = "None"
           /\ js[i].status \in {"Funded", "Delivered"}
           /\ b.jobs[i].status = "None"
  <2>1. p = "none" /\ q \in {"funded", "delivered"}
    BY <1>2 DEF PhaseOf
  <2> QED BY <2>1 DEF Promise!Ahead, MovedOn, ProgressSeen
<1>3. CASE /\ b.jobs[i].verdict = "None" /\ js[i].verdict = "None"
           /\ b.jobs[i].status \in {"Funded", "Delivered"}
           /\ js[i].status = "Delivered"
           /\ SameTerms(js[i], b.jobs[i])
  <2>1. p \in {"funded", "delivered"} /\ q = "delivered"
    BY <1>3 DEF PhaseOf
  <2>2. TermsOf(js[i]) = TermsOf(b.jobs[i])
    BY <1>3 DEF TermsOf, SameTerms
  <2> QED BY <2>1, <2>2 DEF Promise!Ahead, MovedOn, ProgressSeen
<1> QED BY <1>1, <1>2, <1>3 DEF MovedOn

\* A payment that returns commits one closing of the promise.
LEMMA PendingShown ==
    ASSUME NEW b, LedgerOK(b), NEW js, NEW got, Pending(b, js, got)
    PROVE  Shows(b, js, got)
<1>1. PICK j \in JobId : /\ \E to \in Accounts : ClosedTo(b, js, got, j, to)
                         /\ \A i \in JobId \ {j} : MovedOn(b, js, got, i)
  BY DEF Pending
<1>2. PICK to \in Accounts : ClosedTo(b, js, got, j, to)
  BY <1>1
<1> DEFINE old == b.jobs[j]
           amount == old.amount
           p == PhaseOf(old, b.received[j])
           q == PhaseOf(js[j], got[j])
<1>3. TermsOf(js[j]) = TermsOf(old) /\ js[j].deliveryHash = old.deliveryHash
      /\ js[j].provider = old.provider
  BY <1>2 DEF ClosedTo, SameTerms, TermsOf
<1>4. Exists(old) /\ amount \in Nat /\ amount > 0
  <2>1. old.status # "None"
    BY <1>2 DEF ClosedTo
  <2>2. Exists(old)
    BY <2>1 DEF LedgerOK, NoJob
  <2> QED BY <2>2, AmountAssumption DEF Exists
<1>5. got[j] = [b.received[j] EXCEPT ![to] = amount]
  <2>1. b.received[j] = [a \in Accounts |-> 0]
    BY <1>2 DEF ClosedTo
  <2>2. got[j] = [a \in Accounts |-> IF a = to THEN amount ELSE 0]
    BY <1>2 DEF ClosedTo
  <2> HIDE DEF amount
  <2>3. [[a \in Accounts |-> 0] EXCEPT ![to] = amount]
           = [a \in Accounts |-> IF a = to THEN amount ELSE 0]
    OBVIOUS
  <2> QED BY <2>1, <2>2, <2>3, Zenon
<1>6. got[j][old.provider] > 0 <=> to = old.provider
  <2>1. got[j] = [a \in Accounts |-> IF a = to THEN amount ELSE 0]
    BY <1>2 DEF ClosedTo
  <2>2. old.provider \in Accounts
    BY <1>4 DEF Exists
  <2> HIDE DEF amount, old
  <2> QED BY <1>4, <2>1, <2>2
<1>7. \/ p = "funded" /\ q = "reclaimed" /\ to = old.buyer
      \/ p \in {"delivered", "held"} /\ q = "released" /\ to = old.provider
      \/ p \in {"delivered", "held"} /\ q = "refunded" /\ to = old.buyer
  <2>1. CASE old.status = "Funded" /\ js[j].status = "Cancelled" /\ to = old.buyer
    BY <2>1 DEF PhaseOf
  <2>2. CASE old.status = "Delivered" /\ js[j].status = "Settled" /\ to \in {old.buyer, old.provider}
    <3>1. p \in {"delivered", "held"}
      BY <2>2 DEF PhaseOf
    <3>2. q = IF got[j][old.provider] > 0 THEN "released" ELSE "refunded"
      BY <1>3, <2>2 DEF PhaseOf
    <3> HIDE DEF p, q
    <3> QED BY <1>6, <2>2, <3>1, <3>2
  <2> QED BY <1>2, <2>1, <2>2 DEF ClosedTo
<1>8. {j} \in Closings
  BY DEF Closings
<1>9. \A i \in JobId \ {j} : MovedOn(b, js, got, i)
  BY <1>1
<1>10. CloseSeen(b, js, got, j)
  <2> HIDE DEF p, q
  <2>1. /\ to = old.buyer => got[j] = [b.received[j] EXCEPT ![b.jobs[j].buyer] = b.jobs[j].amount]
        /\ to = old.provider => got[j] = [b.received[j] EXCEPT ![b.jobs[j].provider] = b.jobs[j].amount]
    BY <1>5
  <2>2. TermsOf(js[j]) = TermsOf(b.jobs[j]) /\ js[j].deliveryHash = b.jobs[j].deliveryHash
    BY <1>3
  <2> QED BY <1>7, <2>1, <2>2, Zenon DEF CloseSeen, p, q
<1>11. \A i \in JobId \ {j} : ProgressSeen(b, js, got, i)
  BY <1>9, ProgressShown
<1> QED BY <1>8, <1>10, <1>11, Zenon DEF Shows

\* A transaction without a payment: a job is created, delivered or held.
LEMMA AdvanceShown ==
    ASSUME TypeOK, PaidAsJudged, NEW j \in JobId, Advances(j), frames = {}
    PROVE  Shows(Ledger, jobs', received')
<1>1. Ledger.jobs = jobs /\ Ledger.received = received /\ received' = received
  BY DEF Ledger, Advances
<1>2. \A i \in JobId \ {j} : MovedOn(Ledger, jobs', received', i)
  BY <1>1 DEF Advances, MovedOn
<1>3. CASE MovedOn(Ledger, jobs', received', j)
  <2>1. \A i \in JobId : MovedOn(Ledger, jobs', received', i)
    BY <1>2, <1>3
  <2>2. \A i \in JobId : ProgressSeen(Ledger, jobs', received', i)
    BY <2>1, ProgressShown
  <2>3. {} \in Closings
    BY DEF Closings
  <2> QED BY <2>2, <2>3, Zenon DEF Shows
<1>4. CASE jobs[j] = NoJob /\ jobs'[j].status = "Funded" /\ jobs'[j].verdict = "None"
  <2>1. MovedOn(Ledger, jobs', received', j)
    BY <1>1, <1>4 DEF MovedOn, NoJob
  <2> QED BY <1>3, <2>1
<1>5. ASSUME NEW d, Deliverable(j), Changed(j, "Delivered", "None", d)
      PROVE  Shows(Ledger, jobs', received')
  <2>1. MovedOn(Ledger, jobs', received', j)
    BY <1>1, <1>5 DEF MovedOn, Deliverable, Changed
  <2> QED BY <1>3, <2>1
<1>6. ASSUME NEW dec, dec.jobId = j, Applicable(dec),
             Changed(j, "Delivered", "Caution", jobs[j].deliveryHash)
      PROVE  Shows(Ledger, jobs', received')
  <2> DEFINE p == PhaseOf(jobs[j], received[j])
             q == PhaseOf(jobs'[j], received[j])
  <2>1. p = "delivered"
    BY <1>6 DEF Applicable, PhaseOf
  <2>2. q = "held"
    BY <1>6 DEF Changed, PhaseOf
  <2>3. TermsOf(jobs'[j]) = TermsOf(jobs[j]) /\ jobs'[j].deliveryHash = jobs[j].deliveryHash
    BY <1>6 DEF Changed, SameTerms, TermsOf
  <2>4. q \in Promise!Ahead(p)
    BY <2>1, <2>2 DEF Promise!Ahead
  <2>5. {} \in Closings
    BY DEF Closings
  <2>6. ProgressSeen(Ledger, jobs', received', j)
    BY <1>1, <2>3, <2>4 DEF ProgressSeen
  <2>7. \A i \in JobId : ProgressSeen(Ledger, jobs', received', i)
    BY <1>2, <2>6, ProgressShown
  <2> QED BY <2>5, <2>7, Zenon DEF Shows
<1> QED BY <1>4, <1>5, <1>6 DEF Advances

\* The committed ledger decides what the promise sees.
LEMMA SameCommitted ==
    ASSUME Committed'.jobs = Committed.jobs, Committed'.received = Committed.received
    PROVE  UNCHANGED Promise!promiseVars
BY DEF Promise!promiseVars, Phases

LEMMA CommittedShown ==
    ASSUME Shows(Committed, Committed'.jobs, Committed'.received)
    PROVE  Promise!Next
<1> DEFINE js == Committed'.jobs
           got == Committed'.received
<1>1. PICK closing \in Closings :
        \A j \in JobId :
            IF j \in closing THEN CloseSeen(Committed, js, got, j)
            ELSE ProgressSeen(Committed, js, got, j)
  BY Zenon DEF Shows
<1>2. ASSUME NEW j \in JobId, j \in closing PROVE Promise!Close(j)
  BY <1>1, <1>2 DEF CloseSeen, Promise!Close, Promise!PayInFull, Phases, TermsOf
<1>3. ASSUME NEW j \in JobId, j \notin closing PROVE Promise!Progress(j)
  BY <1>1, <1>3 DEF ProgressSeen, Promise!Progress, Phases
<1>4. Promise!Transaction(closing)
  BY <1>2, <1>3 DEF Promise!Transaction
<1> QED BY <1>4 DEF Promise!Next, Closings

LEMMA StepPromised ==
    ASSUME TypeOK, PaidAsJudged, PendingInv, PendingInv', [Next]_vars
    PROVE  Promise!Next \/ UNCHANGED Promise!promiseVars
<1>1. /\ frames = {} => Committed = Ledger
      /\ frames' = {} => Committed' = Ledger'
  BY DEF Committed
<1>2. /\ \A f \in frames : Committed = f.before
      /\ \A f \in frames' : Committed' = f.before
  BY DEF Committed, PendingInv
<1>3. /\ Ledger.jobs = jobs /\ Ledger.received = received
      /\ Ledger'.jobs = jobs' /\ Ledger'.received = received'
  BY DEF Ledger
<1>4. CASE Idle
  <2>1. Committed'.jobs = Committed.jobs /\ Committed'.received = Committed.received
    <3>1. CASE frames = {}
      BY <1>1, <1>3, <1>4, <3>1 DEF Idle
    <3>2. CASE frames # {}
      BY <1>2, <1>4, <3>2 DEF Idle
    <3> QED BY <3>1, <3>2
  <2> QED BY <2>1, SameCommitted
<1>5. ASSUME NEW j \in JobId, Advances(j) PROVE Promise!Next \/ UNCHANGED Promise!promiseVars
  <2>1. frames' = frames
    BY <1>5 DEF Advances
  <2>2. CASE frames = {}
    <3>1. Shows(Committed, Committed'.jobs, Committed'.received)
      BY <1>1, <1>3, <1>5, <2>1, <2>2, AdvanceShown
    <3> QED BY <3>1, CommittedShown
  <2>3. CASE frames # {}
    <3>1. Committed' = Committed
      BY <1>2, <2>1, <2>3
    <3> QED BY <3>1, SameCommitted
  <2> QED BY <2>2, <2>3
<1>6. ASSUME NEW j \in JobId, Ends(j) PROVE UNCHANGED Promise!promiseVars
  <2>1. PICK to : frames = {} /\ frames' = {[to |-> to, before |-> Ledger]}
    BY <1>6 DEF Ends, Closes, Pay
  <2>2. Committed = Ledger /\ Committed' = Ledger
    BY <1>1, <1>2, <2>1
  <2> QED BY <2>2, SameCommitted
<1>7. ASSUME NEW f \in frames, PayReturns(f) PROVE Promise!Next
  <2>1. frames = {f} /\ frames' = {} /\ jobs' = jobs /\ received' = received
    BY <1>7 DEF PayReturns, PendingInv, funds
  <2>2. Shows(f.before, jobs, received)
    BY PendingShown DEF PendingInv, TypeOK
  <2>3. Committed = f.before /\ Committed'.jobs = jobs /\ Committed'.received = received
    BY <1>1, <1>2, <1>3, <2>1
  <2> QED BY <2>2, <2>3, CommittedShown
<1>8. ASSUME NEW f \in frames, PayFails(f) PROVE UNCHANGED Promise!promiseVars
  <2>1. frames' = {} /\ jobs' = f.before.jobs /\ received' = f.before.received
    BY <1>8 DEF PayFails, PendingInv
  <2>2. Committed'.jobs = Committed.jobs /\ Committed'.received = Committed.received
    BY <1>1, <1>2, <1>3, <2>1
  <2> QED BY <2>2, SameCommitted
<1> QED BY <1>4, <1>5, <1>6, <1>7, <1>8, StepShapes

-----------------------------------------------------------------------------
(* One job, as the server and the pages see it.  During a payment another  *)
(* job can be created and delivered, any number of times, and the commit   *)
(* shows all of it at once: that it is still one step of EscrowJob is what *)
(* needs an invariant.                                                     *)

\* From what x shows of a job to what y shows: a step of EscrowJob, or none.
StepSeen(x, y) ==
    \/ y.status = x.status /\ y.verdict = x.verdict /\ y.deliveryHash = x.deliveryHash
    \/ /\ x.status = "None" /\ y.status = "Funded"
       /\ y.verdict = x.verdict /\ y.deliveryHash = x.deliveryHash
    \/ /\ x.status \in {"None", "Funded", "Delivered"} /\ x.verdict = "None"
       /\ y.status = "Delivered" /\ y.verdict = "None" /\ y.deliveryHash \in DeliveryHashes
    \/ /\ x.status = "Delivered" /\ x.verdict = "None"
       /\ y.verdict \in Verdict \ {"None"} /\ y.deliveryHash = x.deliveryHash
       /\ y.status = IF y.verdict = "Caution" THEN "Delivered" ELSE "Settled"
    \/ /\ x.status = "Delivered" /\ x.verdict = "Caution"
       /\ y.status = "Settled" /\ y.verdict = "Caution" /\ y.deliveryHash = x.deliveryHash
    \/ /\ x.status = "Funded" /\ y.status = "Cancelled"
       /\ y.verdict = x.verdict /\ y.deliveryHash = x.deliveryHash

JobsSeen(js, ks) == \A j \in JobId : StepSeen(js[j], ks[j])

SeenInv == \A f \in frames : frames = {f} /\ JobsSeen(f.before.jobs, jobs)

\* A step that creates, delivers or holds a job is one step of it, and, if there
\* was a payment under way, adds to what the commit will show.
LEMMA AdvanceSeen ==
    ASSUME TypeOK, NEW i \in JobId, Advances(i)
    PROVE  /\ JobsSeen(jobs, jobs')
           /\ \A b : frames # {} /\ JobsSeen(b, jobs) => JobsSeen(b, jobs')
<1>1. \A j \in JobId \ {i} : jobs'[j] = jobs[j]
  BY DEF Advances
<1>2. StepSeen(jobs[i], jobs'[i])
  BY DEF Advances, Changed, Deliverable, Applicable, NoJob, StepSeen, Decision
<1>3. \A j \in JobId : StepSeen(jobs[j], jobs'[j])
  BY <1>1, <1>2 DEF StepSeen
<1>4. ASSUME NEW b, frames # {}, JobsSeen(b, jobs) PROVE JobsSeen(b, jobs')
  <2>1. \/ jobs[i] = NoJob /\ jobs'[i].status = "Funded"
           /\ jobs'[i].verdict = "None" /\ jobs'[i].deliveryHash = NoHash
        \/ /\ jobs[i].status \in {"Funded", "Delivered"} /\ jobs[i].verdict = "None"
           /\ jobs'[i].status = "Delivered" /\ jobs'[i].verdict = "None"
           /\ jobs'[i].deliveryHash \in DeliveryHashes
    BY <1>4 DEF Advances, Changed, Deliverable
  <2>2. StepSeen(b[i], jobs[i])
    BY <1>4 DEF JobsSeen
  <2>3. StepSeen(b[i], jobs'[i])
    BY <2>1, <2>2 DEF StepSeen, NoJob
  <2> QED BY <1>1, <1>4, <2>3 DEF JobsSeen
<1> QED BY <1>3, <1>4 DEF JobsSeen

\* So is one that closes a job.
LEMMA EndSeen ==
    ASSUME TypeOK, NEW j \in JobId, Ends(j)
    PROVE  JobsSeen(jobs, jobs') /\ frames = {}
           /\ \E to : frames' = {[to |-> to, before |-> Ledger]}
<1>1. ASSUME NEW st, NEW v, NEW to, Closes(j, st, v, to),
             \/ /\ jobs[j].status = "Delivered" /\ jobs[j].verdict = "None" /\ st = "Settled"
                /\ v \in Verdict \ {"None", "Caution"}
             \/ /\ jobs[j].status = "Delivered" /\ jobs[j].verdict = "Caution" /\ st = "Settled"
                /\ v = "Caution"
             \/ jobs[j].status = "Funded" /\ st = "Cancelled" /\ v = jobs[j].verdict
      PROVE  JobsSeen(jobs, jobs') /\ frames = {}
             /\ \E x : frames' = {[to |-> x, before |-> Ledger]}
  <2>1. /\ jobs'[j].status = st /\ jobs'[j].verdict = v
        /\ jobs'[j].deliveryHash = jobs[j].deliveryHash
        /\ \A i \in JobId \ {j} : jobs'[i] = jobs[i]
    BY <1>1 DEF Closes, Changed
  <2>2. StepSeen(jobs[j], jobs'[j])
    BY <1>1, <2>1 DEF StepSeen
  <2>3. \A i \in JobId : StepSeen(jobs[i], jobs'[i])
    BY <2>1, <2>2 DEF StepSeen
  <2> QED BY <1>1, <2>3 DEF JobsSeen, Closes, Pay
<1>2. ASSUME NEW dec \in Decision, dec.jobId = j, Applicable(dec), dec.verdict # "Caution"
      PROVE  /\ jobs[j].status = "Delivered" /\ jobs[j].verdict = "None"
             /\ dec.verdict \in Verdict \ {"None", "Caution"}
  BY <1>2 DEF Applicable, Decision
<1> QED BY <1>1, <1>2 DEF Ends

LEMMA SeenKept ==
    ASSUME TypeOK, SeenInv, [Next]_vars
    PROVE  SeenInv'
<1>1. CASE Idle
  BY <1>1 DEF Idle, SeenInv
<1>2. ASSUME NEW j \in JobId, Advances(j) PROVE SeenInv'
  BY <1>2, AdvanceSeen DEF SeenInv, Advances
<1>3. ASSUME NEW j \in JobId, Ends(j) PROVE SeenInv'
  BY <1>3, EndSeen DEF SeenInv, Ledger
<1>4. ASSUME NEW f \in frames, PayReturns(f) \/ PayFails(f) PROVE SeenInv'
  BY <1>4 DEF PayReturns, PayFails, SeenInv
<1> QED BY <1>1, <1>2, <1>3, <1>4, StepShapes

\* What is committed shows each job one step further at most.
LEMMA CommitSeen ==
    ASSUME TypeOK, SeenInv, SeenInv', [Next]_vars
    PROVE  JobsSeen(Committed.jobs, Committed'.jobs)
<1>1. /\ frames = {} => Committed.jobs = jobs
      /\ frames' = {} => Committed'.jobs = jobs'
  BY DEF Committed, Ledger
<1>2. /\ \A f \in frames : Committed = f.before
      /\ \A f \in frames' : Committed' = f.before
  BY DEF Committed, SeenInv
<1>3. ASSUME Committed'.jobs = Committed.jobs PROVE JobsSeen(Committed.jobs, Committed'.jobs)
  BY <1>3 DEF JobsSeen, StepSeen
<1>4. CASE Idle
  BY <1>1, <1>2, <1>3, <1>4 DEF Idle
<1>5. ASSUME NEW j \in JobId, Advances(j) PROVE JobsSeen(Committed.jobs, Committed'.jobs)
  <2>1. frames' = frames
    BY <1>5 DEF Advances
  <2> QED BY <1>1, <1>2, <1>3, <1>5, <2>1, AdvanceSeen
<1>6. ASSUME NEW j \in JobId, Ends(j) PROVE JobsSeen(Committed.jobs, Committed'.jobs)
  <2>1. frames = {} /\ \E to : frames' = {[to |-> to, before |-> Ledger]}
    BY <1>6, EndSeen
  <2>2. Committed'.jobs = jobs
    BY <1>2, <2>1 DEF Ledger
  <2> QED BY <1>1, <1>3, <2>1, <2>2
<1>7. ASSUME NEW f \in frames, PayReturns(f) PROVE JobsSeen(Committed.jobs, Committed'.jobs)
  <2>1. frames' = {} /\ jobs' = jobs /\ JobsSeen(f.before.jobs, jobs)
    BY <1>7 DEF PayReturns, SeenInv
  <2> QED BY <1>1, <1>2, <2>1
<1>8. ASSUME NEW f \in frames, PayFails(f) PROVE JobsSeen(Committed.jobs, Committed'.jobs)
  <2>1. frames' = {} /\ jobs' = f.before.jobs
    BY <1>8 DEF PayFails, SeenInv
  <2> QED BY <1>1, <1>2, <1>3, <2>1
<1> QED BY <1>4, <1>5, <1>6, <1>7, <1>8, StepShapes

\* A job of the contract is the job that the server and the pages deal with:
\* whatever the other jobs, re-entrant calls, refused payments and rotations do,
\* what getJob shows of it moves along EscrowJob, one step at a commit.
THEOREM JobsSeenRight == Spec => JobsAsSeen
<1>1. Init => SeenInv
  BY DEF Init, SeenInv
<1>2. Spec => []SeenInv
  BY <1>1, SeenKept, TypeCorrect, PTL DEF Spec
<1>3. Init => \A j \in JobId : SeenJob(j)!Init
  <2> SUFFICES ASSUME Init, NEW j \in JobId PROVE SeenJob(j)!Init
    OBVIOUS
  <2>1. Committed.jobs[j] = NoJob
    BY DEF Init, Committed, Ledger
  <2> QED BY <2>1 DEF SeenJob!Init, NoJob
<1>4. TypeOK /\ SeenInv /\ SeenInv' /\ [Next]_vars =>
        \A j \in JobId : SeenJob(j)!Next \/ UNCHANGED SeenJob(j)!jobVars
  <2> SUFFICES ASSUME TypeOK, SeenInv, SeenInv', [Next]_vars, NEW j \in JobId
               PROVE  SeenJob(j)!Next \/ UNCHANGED SeenJob(j)!jobVars
    OBVIOUS
  <2>1. StepSeen(Committed.jobs[j], Committed'.jobs[j])
    BY CommitSeen DEF JobsSeen
  <2> QED BY <2>1 DEF StepSeen, SeenJob!Next, SeenJob!jobVars, SeenJob!Create, SeenJob!Deliver,
                      SeenJob!Settle, SeenJob!Resolve, SeenJob!Cancel
<1>5. TypeOK /\ SeenInv /\ SeenInv' /\ [Next]_vars =>
        [\A j \in JobId : SeenJob(j)!Next \/ UNCHANGED SeenJob(j)!jobVars]_vars
  BY <1>4
<1> QED BY <1>2, <1>3, <1>5, TypeCorrect, PTL DEF Spec, JobsAsSeen

-----------------------------------------------------------------------------
(* Both promises.                                                          *)

\* The contract implements its promise: re-entrant calls, refused payments,
\* signatures, clocks and rotations come to no more than one job closed at a
\* time, paid once and in full to a party of it, with the terms it was funded
\* under and the delivery it was judged on; and each job, as others see it, keeps
\* to EscrowJob.
THEOREM PromiseKept == Spec => KeepsPromise
<1>1. Init => PendingInv
  BY DEF Init, PendingInv
<1>2. Spec => []PendingInv
  BY <1>1, PendingKept, TypeCorrect, PaymentCorrect, PTL DEF Spec
<1>3. Init => Promise!Init
  <2> SUFFICES ASSUME Init PROVE Promise!Init
    OBVIOUS
  <2>1. Committed.jobs = [j \in JobId |-> NoJob]
    BY DEF Init, Committed, Ledger
  <2>2. Committed.received = [j \in JobId |-> [a \in Accounts |-> 0]]
    BY DEF Init, Committed, Ledger
  <2>3. \A g : PhaseOf(NoJob, g) = "none"
    BY DEF PhaseOf, NoJob
  <2> QED BY <2>1, <2>2, <2>3 DEF Promise!Init, Phases
<1>4. Spec => Promise!Spec
  BY <1>2, <1>3, StepPromised, TypeCorrect, PaymentCorrect, PTL DEF Spec, Promise!Spec
<1> QED BY <1>4, JobsSeenRight DEF KeepsPromise


-----------------------------------------------------------------------------
(* Solvency.  The balance is a sum over the jobs, and a sum is a recursive  *)
(* function on the subsets of JobId.  That the function exists, and how it  *)
(* changes with one summand, is induction on the subsets' cardinality; the  *)
(* induction is a set's least element, since every set of naturals has one. *)

LEMMA LeastNatural ==
    ASSUME NEW S \in SUBSET Nat, S # {}
    PROVE  \E m \in S : \A n \in S : m <= n
<1> DEFINE R == {ss \in Nat \X Nat : ss[1] < ss[2]}
<1>1. IsWellFoundedOn(R, Nat)
  BY NatLessThanWellFounded DEF OpToRel
<1>2. \A x, y \in Nat : <<y, x>> \in R <=> y < x
  OBVIOUS
<1> HIDE DEF R
<1>3. PICK m \in S : \A n \in S : <<n, m>> \notin R
  BY <1>1, WFMin
<1>4. ASSUME NEW n \in S PROVE m <= n
  <2>1. m \in Nat /\ n \in Nat /\ (<<n, m>> \in R <=> n < m)
    BY <1>2
  <2> QED BY <1>3, <2>1
<1> QED BY <1>4

\* A set of naturals closed under successor holds them all.
LEMMA Inductive ==
    ASSUME NEW S, 0 \in S, \A n \in Nat : n \in S => n + 1 \in S
    PROVE  Nat \subseteq S
<1> SUFFICES ASSUME Nat \ S # {} PROVE FALSE
  OBVIOUS
<1>1. PICK m \in Nat \ S : \A n \in Nat \ S : m <= n
  BY LeastNatural
<1>2. m # 0 /\ m - 1 \in Nat /\ m = (m - 1) + 1
  BY <1>1
<1>3. m - 1 \in S
  BY <1>1, <1>2
<1> QED BY <1>1, <1>2, <1>3

\* The element MapThenSumSet takes from a set first.
First(s) == CHOOSE x \in s : TRUE

\* A property of all sets of jobs, from what remains without the first.
LEMMA JobSetsInduction ==
    ASSUME NEW P, {} \in P,
           \A s \in SUBSET JobId : s # {} /\ s \ {First(s)} \in P => s \in P
    PROVE  SUBSET JobId \subseteq P
<1> DEFINE Sized(n) == {s \in SUBSET JobId : Cardinality(s) = n}
           N == {n \in Nat : Sized(n) \subseteq P}
<1>1. ASSUME NEW s \in SUBSET JobId PROVE IsFiniteSet(s) /\ Cardinality(s) \in Nat
  <2>1. IsFiniteSet(JobId)
    BY BoundAssumption, FS_Interval DEF JobId
  <2>2. IsFiniteSet(s)
    BY <2>1, FS_Subset
  <2> QED BY <2>2, FS_CardinalityType
<1>2. 0 \in N
  BY <1>1, FS_EmptySet
<1>3. ASSUME NEW n \in N PROVE n + 1 \in N
  <2> SUFFICES ASSUME NEW s \in SUBSET JobId, Cardinality(s) = n + 1 PROVE s \in P
    OBVIOUS
  <2>1. s # {}
    BY FS_EmptySet
  <2>2. First(s) \in s
    BY <2>1 DEF First
  <2>3. Cardinality(s \ {First(s)}) = n
    <3>1. IsFiniteSet(s) /\ n \in Nat
      BY <1>1
    <3>2. Cardinality(s \ {First(s)}) = Cardinality(s) - 1
      BY <2>2, <3>1, FS_RemoveElement
    <3> QED BY <3>1, <3>2
  <2> QED BY <2>1, <2>3
<1>4. Nat \subseteq N
  BY <1>2, <1>3, Inductive
<1> QED BY <1>1, <1>4

\* One turn of the recursion; f has the sums of a over all sets of jobs.
Turn(f, a, s) == IF s = {} THEN 0 ELSE a[First(s)] + f[s \ {First(s)}]
Sums(f, a) == \A s \in SUBSET JobId : f[s] = Turn(f, a, s)

\* The recursion has a solution: one that is right up to a size, taken a turn
\* further, is right up to the next.
LEMMA SumsExist ==
    ASSUME NEW a
    PROVE  \E f : f = [s \in SUBSET JobId |-> Turn(f, a, s)]
<1> DEFINE UpTo(f, n) == \A s \in SUBSET JobId : Cardinality(s) <= n => f[s] = Turn(f, a, s)
           N == {n \in Nat : \E f : UpTo(f, n)}
<1>1. IsFiniteSet(JobId)
  BY BoundAssumption, FS_Interval DEF JobId
<1>2. ASSUME NEW s \in SUBSET JobId
      PROVE  IsFiniteSet(s) /\ Cardinality(s) \in Nat /\ Cardinality(s) <= Cardinality(JobId)
  <2>1. IsFiniteSet(s) /\ Cardinality(s) <= Cardinality(JobId)
    BY <1>1, FS_Subset
  <2> QED BY <2>1, FS_CardinalityType
<1>3. ASSUME NEW s \in SUBSET JobId, s # {}
      PROVE  s \ {First(s)} \in SUBSET JobId /\ Cardinality(s \ {First(s)}) = Cardinality(s) - 1
  <2>1. First(s) \in s
    BY <1>3 DEF First
  <2> QED BY <1>2, <2>1, FS_RemoveElement
<1>4. 0 \in N
  <2>1. UpTo([s \in SUBSET JobId |-> 0], 0)
    <3> SUFFICES ASSUME NEW s \in SUBSET JobId, Cardinality(s) <= 0 PROVE s = {}
      BY DEF Turn
    <3>1. IsFiniteSet(s) /\ Cardinality(s) = 0
      BY <1>2
    <3> QED BY <3>1, FS_EmptySet
  <2> QED BY <2>1
<1>5. ASSUME NEW n \in N PROVE n + 1 \in N
  <2>1. PICK f : UpTo(f, n)
    BY <1>5
  <2> DEFINE g == [s \in SUBSET JobId |-> Turn(f, a, s)]
  <2>2. ASSUME NEW s \in SUBSET JobId, Cardinality(s) <= n + 1 PROVE g[s] = Turn(g, a, s)
    <3>1. CASE s = {}
      BY <3>1 DEF Turn
    <3>2. CASE s # {}
      <4> DEFINE r == s \ {First(s)}
      <4>1. r \in SUBSET JobId /\ Cardinality(r) <= n
        BY <1>2, <1>3, <2>2, <3>2
      <4>2. f[r] = g[r]
        BY <2>1, <4>1
      <4> QED BY <3>2, <4>2 DEF Turn
    <3> QED BY <3>1, <3>2
  <2>3. UpTo(g, n + 1)
    BY <2>2
  <2> HIDE DEF g
  <2> QED BY <2>3
<1>6. Nat \subseteq N
  BY <1>4, <1>5, Inductive
<1>7. Cardinality(JobId) \in Nat
  BY <1>1, FS_CardinalityType
<1>8. PICK f : UpTo(f, Cardinality(JobId))
  BY <1>6, <1>7
<1> DEFINE g == [s \in SUBSET JobId |-> f[s]]
<1>9. ASSUME NEW s \in SUBSET JobId PROVE f[s] = Turn(g, a, s)
  <2>1. f[s] = Turn(f, a, s)
    BY <1>2, <1>8
  <2>2. s \ {First(s)} \in SUBSET JobId
    OBVIOUS
  <2> QED BY <2>1, <2>2 DEF Turn
<1>10. g = [s \in SUBSET JobId |-> Turn(g, a, s)]
  BY <1>9
<1> HIDE DEF g
<1> QED BY <1>10

\* Changing one summand changes the sums that have it, by as much.
LEMMA SumsChange ==
    ASSUME NEW a \in [JobId -> Int], NEW b \in [JobId -> Int], NEW j \in JobId,
           \A i \in JobId \ {j} : b[i] = a[i],
           NEW f, Sums(f, a), NEW g, Sums(g, b)
    PROVE  f[JobId] \in Int /\ g[JobId] = f[JobId] + (b[j] - a[j])
<1> DEFINE d(s) == IF j \in s THEN b[j] - a[j] ELSE 0
           P == {s \in SUBSET JobId : f[s] \in Int /\ g[s] = f[s] + d(s)}
<1>1. \A s \in SUBSET JobId : f[s] = Turn(f, a, s) /\ g[s] = Turn(g, b, s)
  BY DEF Sums
<1>2. {} \in P
  <2>1. f[{}] = 0 /\ g[{}] = 0 /\ d({}) = 0
    BY <1>1 DEF Turn
  <2> QED BY <2>1
<1>3. ASSUME NEW s \in SUBSET JobId, s # {}, s \ {First(s)} \in P PROVE s \in P
  <2> DEFINE x == First(s)
             r == s \ {x}
  <2>1. x \in s /\ x \in JobId
    BY <1>3 DEF First
  <2>2. f[s] = a[x] + f[r] /\ g[s] = b[x] + g[r]
    BY <1>1, <1>3 DEF Turn
  <2>3. f[r] \in Int /\ g[r] = f[r] + d(r)
    BY <1>3
  <2>4. CASE x = j
    <3>1. d(r) = 0 /\ d(s) = b[j] - a[j]
      BY <2>1, <2>4
    <3> HIDE DEF d
    <3> QED BY <2>1, <2>2, <2>3, <2>4, <3>1
  <2>5. CASE x # j
    <3>1. d(r) = d(s) /\ d(s) \in Int /\ b[x] = a[x]
      BY <2>1, <2>5
    <3> HIDE DEF d
    <3> QED BY <2>1, <2>2, <2>3, <2>5, <3>1
  <2> QED BY <2>4, <2>5
<1>4. SUBSET JobId \subseteq P
  <2> HIDE DEF P
  <2> QED BY <1>2, <1>3, JobSetsInduction
<1>5. JobId \in P
  BY <1>4
<1> QED BY <1>5

\* A sum of nothing but zeros.
LEMMA SumsZero ==
    ASSUME NEW a, \A i \in JobId : a[i] = 0, NEW f, Sums(f, a)
    PROVE  f[JobId] = 0
<1> DEFINE P == {s \in SUBSET JobId : f[s] = 0}
<1>1. \A s \in SUBSET JobId : f[s] = Turn(f, a, s)
  BY DEF Sums
<1>2. {} \in P
  BY <1>1 DEF Turn
<1>3. ASSUME NEW s \in SUBSET JobId, s # {}, s \ {First(s)} \in P PROVE s \in P
  <2>1. First(s) \in JobId
    BY <1>3 DEF First
  <2>2. f[s] = a[First(s)] + f[s \ {First(s)}]
    BY <1>1, <1>3 DEF Turn
  <2> QED BY <1>3, <2>1, <2>2
<1>4. SUBSET JobId \subseteq P
  <2> HIDE DEF P
  <2> QED BY <1>2, <1>3, JobSetsInduction
<1> QED BY <1>4

\* What the contract owes over all jobs, and the sum that this is.
Owed(js) == MapThenSumSet(LAMBDA j : Due(js[j]), JobId)
Dues(js) == [j \in JobId |-> Due(js[j])]

LEMMA OwedSums ==
    ASSUME NEW js
    PROVE  \E f : Sums(f, Dues(js)) /\ Owed(js) = f[JobId]
<1> DEFINE Body(f, s) == IF s = {} THEN 0
                         ELSE Due(js[CHOOSE x \in s : TRUE]) + f[s \ {CHOOSE x \in s : TRUE}]
           h == CHOOSE f : f = [s \in SUBSET JobId |-> Body(f, s)]
<1>1. Owed(js) = h[JobId]
  BY Zenon DEF Owed, MapThenSumSet, MapThenFoldSet
<1>2. ASSUME NEW f, NEW s \in SUBSET JobId PROVE Body(f, s) = Turn(f, Dues(js), s)
  <2>1. s # {} => First(s) \in s /\ First(s) \in JobId
    BY DEF First
  <2>2. s # {} => Dues(js)[First(s)] = Due(js[First(s)])
    BY <2>1 DEF Dues
  <2> QED BY <2>2 DEF Turn, First
<1>3. PICK g : g = [s \in SUBSET JobId |-> Turn(g, Dues(js), s)]
  BY SumsExist
<1>4. g = [s \in SUBSET JobId |-> Body(g, s)]
  BY <1>2, <1>3
<1> HIDE DEF Body
<1>5. h = [s \in SUBSET JobId |-> Body(h, s)]
  BY <1>4
<1>6. \A s \in SUBSET JobId : h[s] = Body(h, s)
  BY <1>5
<1>7. Sums(h, Dues(js))
  BY <1>2, <1>6 DEF Sums
<1> QED BY <1>1, <1>7

\* One job's change is the change of what is owed.
LEMMA OwedChanges ==
    ASSUME NEW js \in [JobId -> Job], NEW ks \in [JobId -> Job], NEW j \in JobId,
           \A i \in JobId \ {j} : ks[i] = js[i]
    PROVE  /\ Owed(js) \in Int
           /\ Owed(ks) = Owed(js) + (Due(ks[j]) - Due(js[j]))
<1>1. /\ \A i \in JobId : Due(js[i]) \in Int /\ Due(ks[i]) \in Int
      /\ Dues(js) \in [JobId -> Int] /\ Dues(ks) \in [JobId -> Int]
  BY DEF Due, Dues, Job
<1>2. /\ \A i \in JobId \ {j} : Dues(ks)[i] = Dues(js)[i]
      /\ Dues(ks)[j] = Due(ks[j]) /\ Dues(js)[j] = Due(js[j])
  BY DEF Dues
<1>3. PICK f : Sums(f, Dues(js)) /\ Owed(js) = f[JobId]
  BY OwedSums
<1>4. PICK g : Sums(g, Dues(ks)) /\ Owed(ks) = g[JobId]
  BY OwedSums
<1>5. f[JobId] \in Int /\ g[JobId] = f[JobId] + (Dues(ks)[j] - Dues(js)[j])
  BY <1>1, <1>2, <1>3, <1>4, SumsChange
<1> QED BY <1>2, <1>3, <1>4, <1>5

Balanced(l) == l.balance = Owed(l.jobs)

\* The contract holds what it owes, for any number of jobs and amounts and at
\* every moment, a payment under way included; a refused payment brings back a
\* ledger that was balanced when the payment began.
THEOREM AlwaysSolvent == Spec => []Solvent
<1> DEFINE Inv == Balanced(Ledger) /\ \A f \in frames : Balanced(f.before)
<1>1. Init => Inv
  <2> SUFFICES ASSUME Init PROVE Inv
    OBVIOUS
  <2>1. \A i \in JobId : Dues(jobs)[i] = 0
    BY DEF Init, Dues, Due, Open, NoJob
  <2>2. Owed(jobs) = 0
    BY <2>1, OwedSums, SumsZero
  <2> QED BY <2>2 DEF Init, Balanced, Ledger
<1>2. TypeOK /\ Inv /\ [Next]_vars => Inv'
  <2> SUFFICES ASSUME TypeOK, Inv, [Next]_vars PROVE Inv'
    OBVIOUS
  <2>1. balance = Owed(jobs) /\ balance \in Nat /\ jobs \in [JobId -> Job]
    BY LedgerTypes DEF Balanced, Ledger, TypeOK
  <2>2. (balance' = Owed(jobs')) => Balanced(Ledger)'
    BY DEF Balanced, Ledger
  <2>3. CASE Idle
    <3>1. balance' = Owed(jobs')
      BY <2>1, <2>3 DEF Idle
    <3> QED BY <2>2, <2>3, <3>1 DEF Idle
  <2>4. ASSUME NEW j \in JobId, Advances(j) PROVE Inv'
    <3>1. Owed(jobs') = Owed(jobs) + (Due(jobs'[j]) - Due(jobs[j]))
      BY <2>1, <2>4, OwedChanges DEF Advances
    <3>2. balance' = Owed(jobs') /\ frames' = frames
      BY <2>1, <2>4, <3>1 DEF Advances
    <3> QED BY <2>2, <3>2
  <2>5. ASSUME NEW j \in JobId, Ends(j) PROVE Inv'
    <3>1. ASSUME NEW st \in {"Settled", "Cancelled"}, NEW v, NEW to, Closes(j, st, v, to),
                 jobs[j].status \in {"Funded", "Delivered"}
          PROVE  Inv'
      <4>1. /\ jobs' \in [JobId -> Job] /\ \A i \in JobId \ {j} : jobs'[i] = jobs[i]
            /\ jobs'[j].status = st
            /\ balance' = balance - jobs[j].amount
            /\ \A f \in frames' : f \in frames \/ f.before = Ledger
        BY <3>1 DEF Closes, Changed, Pay
      <4>2. Due(jobs[j]) = jobs[j].amount /\ Due(jobs'[j]) = 0 /\ jobs[j].amount \in Nat
        BY <2>1, <3>1, <4>1 DEF Due, Open, Job
      <4>3. balance' = Owed(jobs')
        BY <2>1, <4>1, <4>2, OwedChanges
      <4> QED BY <2>2, <4>1, <4>3
    <3> QED BY <2>5, <3>1 DEF Ends, Applicable
  <2>6. ASSUME NEW f \in frames, PayReturns(f) PROVE Inv'
    BY <2>1, <2>2, <2>6 DEF PayReturns, funds
  <2>7. ASSUME NEW f \in frames, PayFails(f) PROVE Inv'
    <3>1. balance' = Owed(jobs') /\ frames' = frames \ {f}
      BY <2>7 DEF PayFails, Balanced
    <3> QED BY <2>2, <3>1
  <2> QED BY <2>3, <2>4, <2>5, <2>6, <2>7, StepShapes
<1>3. Inv => Solvent
  BY DEF Balanced, Ledger, Owed, Solvent
<1> QED BY <1>1, <1>2, <1>3, TypeCorrect, PTL DEF Spec

=============================================================================

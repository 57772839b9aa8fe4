---------------------- MODULE EvaluationService_proofs ----------------------
(* What the handlers keep true for any number of concurrent calls, any set  *)
(* of deliveries, either store: proofs checked by TLAPS.                    *)
EXTENDS EvaluationService, TLAPS

\* What a call that has got somewhere has established, although the chain, the
\* record and the evaluation may have changed since it read them.
CallKnows(call, reached) ==
    /\ call.step = "brief.put" => call.title \in Titles
    /\ call.step \in {"brief.read", "brief.look"} => call.title \in Titles
    /\ call.step \in {"upload.read", "upload.look", "upload.update"} => call.text \in Deliveries
    /\ call.step \in {"eval.record", "eval.existing", "eval.verify", "eval.put", "decision.load"} =>
            call.seen \in Deliveries
    /\ call.step = "eval.verify" => call.text = call.seen
    /\ call.step = "eval.put" => call.evaluation \in reached

CallsKnow == \A c \in Calls : CallKnows(calls[c], concluded)

\* The brief is stored before a text is, and is never lost.
UploadsFollowBrief == \A c \in Calls : At(c, "upload.update") => BriefStored

\* Every conclusion in the history is one the verifier can reach.
ConclusionsPossible == \A f \in concluded : f.verdict \in PossibleVerdicts(f.deliveryHash)

\* The verdict on chain was signed for the delivery on chain.
VerdictSigned ==
    chain.verdict # None =>
        [deliveryHash |-> chain.deliveryHash, verdict |-> chain.verdict] \in signatures

IInv ==
    /\ TypeOK
    /\ CallsKnow
    /\ UploadsFollowBrief
    /\ StoredVerdictReached
    /\ SignedVerdictReached
    /\ ConclusionsPossible
    /\ VerdictSigned

-----------------------------------------------------------------------------
(* Records.                                                                *)

\* An idle call is well typed and knows nothing.
LEMMA IdleCall ==
    /\ Idle \in Call
    /\ \A s \in Steps : [Idle EXCEPT !.step = s] \in Call
    /\ \A r : CallKnows(Idle, r)
<1>1. NoEvaluation \in Finding \cup {NoEvaluation}
  OBVIOUS
<1>2. Idle \in Call
  BY <1>1 DEF Idle, Call, Steps
<1>3. \A s \in Steps : [Idle EXCEPT !.step = s] \in Call
  BY <1>1 DEF Idle, Call
<1> QED
  BY <1>2, <1>3 DEF CallKnows, Idle

\* Findings are exactly the records of a delivery and a verdict.
LEMMA FindingFields ==
    ASSUME NEW f \in Finding
    PROVE  /\ f.deliveryHash \in Deliveries /\ f.verdict \in Verdict
           /\ f = [deliveryHash |-> f.deliveryHash, verdict |-> f.verdict]
           /\ f # NoEvaluation
<1>1. f.deliveryHash \in Deliveries /\ f.verdict \in Verdict
      /\ f = [deliveryHash |-> f.deliveryHash, verdict |-> f.verdict]
  BY DEF Finding
<1>2. None \notin Deliveries
  BY ContentAssumption
<1> QED
  BY <1>1, <1>2 DEF NoEvaluation

\* The verifier's conclusions are verdicts.
LEMMA PossibleAreVerdicts ==
    ASSUME NEW d \in Deliveries
    PROVE  PossibleVerdicts(d) \subseteq Verdict
  BY ContentAssumption DEF PossibleVerdicts, Verdict

-----------------------------------------------------------------------------
(* One call moves on, and nothing else happens except that the history and  *)
(* the signatures may grow.                                                 *)

LEMMA OneCallMoves ==
    ASSUME IInv, NEW c \in Calls, NEW call \in Call,
           calls' = [calls EXCEPT ![c] = call],
           CallKnows(call, concluded'),
           concluded \subseteq concluded',
           BriefStored => BriefStored',
           call.step = "upload.update" => BriefStored'
    PROVE  calls' \in [Calls -> Call] /\ CallsKnow' /\ UploadsFollowBrief'
<1>1. calls \in [Calls -> Call]
  BY DEF IInv, TypeOK
<1>2. calls' \in [Calls -> Call]
  BY <1>1
<1>3. CallsKnow'
  <2> SUFFICES ASSUME NEW b \in Calls PROVE CallKnows(calls'[b], concluded')
    BY DEF CallsKnow
  <2>1. CASE b = c
    BY <1>1, <2>1
  <2>2. CASE b # c
    <3>1. calls'[b] = calls[b]
      BY <1>1, <2>2
    <3>2. CallKnows(calls[b], concluded)
      BY DEF IInv, CallsKnow
    <3> QED
      BY <3>1, <3>2 DEF CallKnows
  <2> QED
    BY <2>1, <2>2
<1>4. UploadsFollowBrief'
  <2> SUFFICES ASSUME NEW b \in Calls, calls'[b].step = "upload.update" PROVE BriefStored'
    BY DEF UploadsFollowBrief, At
  <2>1. CASE b = c
    BY <1>1, <2>1
  <2>2. CASE b # c
    BY <1>1, <2>2 DEF IInv, UploadsFollowBrief, At
  <2> QED
    BY <2>1, <2>2
<1> QED
  BY <1>2, <1>3, <1>4

\* The whole invariant after a step that only reads.
LEMMA ReadKeeps ==
    ASSUME IInv, NEW c \in Calls, NEW call, Reads(c, call), call \in Call,
           CallKnows(call, concluded), call.step = "upload.update" => BriefStored
    PROVE  IInv'
<1>1. calls' = [calls EXCEPT ![c] = call]
      /\ UNCHANGED <<chain, record, evaluation, concluded, signatures>>
  BY DEF Reads
<1>2. BriefStored' = BriefStored
  BY <1>1 DEF BriefStored
<1>3. calls' \in [Calls -> Call] /\ CallsKnow' /\ UploadsFollowBrief'
  BY <1>1, <1>2, OneCallMoves
<1>4. TypeOK'
  BY <1>1, <1>3 DEF IInv, TypeOK
<1> QED
  BY <1>1, <1>3, <1>4 DEF IInv, StoredVerdictReached, SignedVerdictReached,
     ConclusionsPossible, VerdictSigned

\* A fresh call: one step and one argument set, everything else null.
LEMMA FreshCall ==
    /\ \A s \in Steps, x \in Titles : [Idle EXCEPT !.step = s, !.title = x] \in Call
    /\ \A s \in Steps, x \in Deliveries : [Idle EXCEPT !.step = s, !.text = x] \in Call
    /\ \A s \in Steps, x \in BOOLEAN : [Idle EXCEPT !.step = s, !.force = x] \in Call
<1>1. NoEvaluation \in Finding \cup {NoEvaluation}
  OBVIOUS
<1>2. \A s \in Steps, x \in Titles : [Idle EXCEPT !.step = s, !.title = x] \in Call
  BY <1>1 DEF Idle, Call
<1>3. \A s \in Steps, x \in Deliveries : [Idle EXCEPT !.step = s, !.text = x] \in Call
  BY <1>1 DEF Idle, Call
<1>4. \A s \in Steps, x \in BOOLEAN : [Idle EXCEPT !.step = s, !.force = x] \in Call
  <2> SUFFICES ASSUME NEW s \in Steps, NEW x \in BOOLEAN
               PROVE  [Idle EXCEPT !.step = s, !.force = x] \in Call
    OBVIOUS
  <2>1. CASE x = TRUE
    BY <1>1, <2>1 DEF Idle, Call
  <2>2. CASE x = FALSE
    BY <1>1, <2>2 DEF Idle, Call
  <2> QED
    BY <2>1, <2>2
<1> QED
  BY <1>2, <1>3, <1>4

-----------------------------------------------------------------------------
(* Steps that only read.                                                   *)

\* What the invariant says of one call.
LEMMA CallNow ==
    ASSUME IInv, NEW c \in Calls
    PROVE  calls[c] \in Call /\ CallKnows(calls[c], concluded)
  BY DEF IInv, TypeOK, CallsKnow

\* A new request knows what it was given.
LEMMA ArrivalKeeps ==
    ASSUME IInv, NEW c \in Calls, Arrival(c)
    PROVE  IInv'
<1>1. ASSUME NEW call \in Call, Begin(c, call), CallKnows(call, concluded),
             call.step # "upload.update"
      PROVE  IInv'
  BY <1>1, ReadKeeps DEF Begin, Reads
<1>2. CASE Get(c)
  <2> DEFINE call == [Idle EXCEPT !.step = "get.read"]
  <2>1. call \in Call /\ CallKnows(call, concluded) /\ call.step # "upload.update"
    BY IdleCall DEF Idle, Steps, CallKnows
  <2> QED
    BY <1>1, <1>2, <2>1 DEF Get
<1>3. ASSUME NEW title \in Titles, PostJob(c, title) PROVE IInv'
  <2> DEFINE call == [Idle EXCEPT !.step = "brief.read", !.title = title]
  <2>1. call \in Call
    BY FreshCall DEF Steps
  <2>2. CallKnows(call, concluded) /\ call.step # "upload.update"
    BY DEF Idle, CallKnows
  <2> QED
    BY <1>1, <1>3, <2>1, <2>2 DEF PostJob
<1>4. ASSUME NEW d \in Deliveries, Upload(c, d) PROVE IInv'
  <2> DEFINE call == [Idle EXCEPT !.step = "upload.read", !.text = d]
  <2>1. call \in Call
    BY FreshCall DEF Steps
  <2>2. CallKnows(call, concluded) /\ call.step # "upload.update"
    BY DEF Idle, CallKnows
  <2> QED
    BY <1>1, <1>4, <2>1, <2>2 DEF Upload
<1>5. ASSUME NEW force \in Forcing, Evaluate(c, force) PROVE IInv'
  <2> DEFINE call == [Idle EXCEPT !.step = "eval.read", !.force = force]
  <2>1. call \in Call
    BY FreshCall, ContentAssumption DEF Steps
  <2>2. CallKnows(call, concluded) /\ call.step # "upload.update"
    BY DEF Idle, CallKnows
  <2> QED
    BY <1>1, <1>5, <2>1, <2>2 DEF Evaluate
<1>6. CASE AskDecision(c)
  <2> DEFINE call == [Idle EXCEPT !.step = "decision.read"]
  <2>1. call \in Call /\ CallKnows(call, concluded) /\ call.step # "upload.update"
    BY IdleCall DEF Idle, Steps, CallKnows
  <2> QED
    BY <1>1, <1>6, <2>1 DEF AskDecision
<1> QED
  BY <1>2, <1>3, <1>4, <1>5, <1>6 DEF Arrival

\* A call that ends knows nothing any more.
LEMMA EndingKeeps ==
    ASSUME IInv, NEW c \in Calls, Reads(c, Idle)
    PROVE  IInv'
<1>1. Idle.step # "upload.update"
  BY DEF Idle
<1> QED
  BY <1>1, IdleCall, ReadKeeps

\* readJob tells a call the delivery that awaits a verdict.
LEMMA ReadsJobKeeps ==
    ASSUME IInv, NEW c \in Calls, NEW step, NEW wanted,
           NEW next \in {"upload.look", "eval.record", "get.both", "decision.load"},
           next = "upload.look" => calls[c].text \in Deliveries,
           ReadsJob(c, step, wanted, next)
    PROVE  IInv'
<1> DEFINE call == [calls[c] EXCEPT !.step = next, !.seen = chain.deliveryHash]
<1>1. CASE AwaitsVerdict /\ wanted
  <2>1. chain.deliveryHash \in Deliveries
    BY <1>1 DEF IInv, TypeOK, AwaitsVerdict
  <2>2. call \in Call
    BY <2>1, CallNow DEF Call, Steps
  <2>3. CallKnows(call, concluded) /\ call.step # "upload.update"
    BY <2>1, CallNow DEF Call, CallKnows
  <2>4. Reads(c, call)
    BY <1>1 DEF ReadsJob
  <2> QED
    BY <2>2, <2>3, <2>4, ReadKeeps
<1>2. CASE ~(AwaitsVerdict /\ wanted)
  BY <1>2, EndingKeeps DEF ReadsJob
<1> QED
  BY <1>1, <1>2

LEMMA PostJobReadKeeps ==
    ASSUME IInv, NEW c \in Calls, PostJobReads(c) \/ PostJobLooks(c)
    PROVE  IInv'
<1>1. ASSUME NEW s \in {"brief.look", "brief.put"}, calls[c].title \in Titles,
             Reads(c, [calls[c] EXCEPT !.step = s])
      PROVE  IInv'
  <2> DEFINE call == [calls[c] EXCEPT !.step = s]
  <2>1. call \in Call /\ CallKnows(call, concluded) /\ call.step # "upload.update"
    BY <1>1, CallNow DEF Call, Steps, CallKnows
  <2> QED
    BY <1>1, <2>1, ReadKeeps
<1>2. At(c, "brief.read") \/ At(c, "brief.look") => calls[c].title \in Titles
  BY CallNow DEF CallKnows, At
<1>3. CASE PostJobReads(c)
  BY <1>1, <1>2, <1>3 DEF PostJobReads
<1>4. CASE PostJobLooks(c)
  BY <1>1, <1>2, <1>4, EndingKeeps DEF PostJobLooks
<1> QED
  BY <1>3, <1>4

LEMMA UploadReadKeeps ==
    ASSUME IInv, NEW c \in Calls, UploadReads(c) \/ UploadLooks(c)
    PROVE  IInv'
<1>1. At(c, "upload.read") \/ At(c, "upload.look") => calls[c].text \in Deliveries
  BY CallNow DEF CallKnows, At
<1>2. CASE UploadReads(c)
  <2>1. At(c, "upload.read")
    BY <1>2 DEF UploadReads, ReadsJob
  <2> QED
    BY <1>1, <1>2, <2>1, ReadsJobKeeps DEF UploadReads
<1>3. CASE UploadLooks(c)
  <2> DEFINE call == [calls[c] EXCEPT !.step = "upload.update"]
  <2>1. CASE BriefStored
    <3>1. calls[c].text \in Deliveries
      BY <1>1, <1>3 DEF UploadLooks
    <3>2. call \in Call /\ CallKnows(call, concluded)
      BY <3>1, CallNow DEF Call, Steps, CallKnows
    <3>3. Reads(c, call)
      BY <1>3, <2>1 DEF UploadLooks
    <3> QED
      BY <2>1, <3>2, <3>3, ReadKeeps
  <2>2. CASE ~BriefStored
    BY <1>3, <2>2, EndingKeeps DEF UploadLooks
  <2> QED
    BY <2>1, <2>2
<1> QED
  BY <1>2, <1>3

LEMMA EvaluateReadKeeps ==
    ASSUME IInv, NEW c \in Calls,
           EvaluateReads(c) \/ EvaluateLoads(c) \/ EvaluateChecks(c)
    PROVE  IInv'
<1>1. CASE EvaluateReads(c)
  BY <1>1, ReadsJobKeeps DEF EvaluateReads
<1>2. CASE EvaluateLoads(c)
  <2> DEFINE call == [calls[c] EXCEPT !.step = "eval.existing", !.text = record.delivery]
  <2>1. CASE record.delivery = None
    BY <1>2, <2>1, EndingKeeps DEF EvaluateLoads
  <2>2. CASE record.delivery # None
    <3>1. record.delivery \in Deliveries
      BY <2>2 DEF IInv, TypeOK
    <3>2. calls[c].seen \in Deliveries
      BY <1>2, CallNow DEF CallKnows, EvaluateLoads, At
    <3>3. call \in Call /\ CallKnows(call, concluded) /\ call.step # "upload.update"
      BY <3>1, <3>2, CallNow DEF Call, Steps, CallKnows
    <3>4. Reads(c, call)
      BY <1>2, <2>2 DEF EvaluateLoads
    <3> QED
      BY <3>3, <3>4, ReadKeeps
  <2> QED
    BY <2>1, <2>2
<1>3. CASE EvaluateChecks(c)
  <2> DEFINE call == [calls[c] EXCEPT !.step = "eval.verify"]
  <2>1. CASE Reads(c, call) /\ HashesMatch(calls[c].text, calls[c].seen)
    <3>1. calls[c].seen \in Deliveries /\ calls[c].text = calls[c].seen
      BY <1>3, <2>1, CallNow DEF CallKnows, EvaluateChecks, At, HashesMatch
    <3>2. call \in Call /\ CallKnows(call, concluded) /\ call.step # "upload.update"
      BY <3>1, CallNow DEF Call, Steps, CallKnows
    <3> QED
      BY <2>1, <3>2, ReadKeeps
  <2>2. CASE Reads(c, Idle)
    BY <2>2, EndingKeeps
  <2> QED
    BY <1>3, <2>1, <2>2 DEF EvaluateChecks
<1> QED
  BY <1>1, <1>2, <1>3

LEMMA GetKeeps ==
    ASSUME IInv, NEW c \in Calls, GetStep(c)
    PROVE  IInv'
<1>1. CASE GetReads(c)
  BY <1>1, ReadsJobKeeps DEF GetReads
<1>2. CASE GetLoadsJob(c)
  <2> DEFINE next == IF calls[c].step = "get.both" THEN "get.evaluation" ELSE "get.decide"
             call == [calls[c] EXCEPT !.text = record.delivery, !.step = next]
  <2>1. next \in {"get.evaluation", "get.decide"}
    OBVIOUS
  <2>2. record.delivery \in Deliveries \cup {None}
    BY DEF IInv, TypeOK
  <2>3. Reads(c, call)
    BY <1>2 DEF GetLoadsJob
  <2> HIDE DEF next
  <2>4. call \in Call /\ CallKnows(call, concluded) /\ call.step # "upload.update"
    BY <2>1, <2>2, CallNow DEF Call, Steps, CallKnows
  <2> QED
    BY <2>3, <2>4, ReadKeeps
<1>3. CASE GetLoadsEvaluation(c)
  <2> DEFINE next == IF calls[c].step = "get.both" THEN "get.job" ELSE "get.decide"
             call == [calls[c] EXCEPT !.evaluation = evaluation, !.step = next]
  <2>1. next \in {"get.job", "get.decide"}
    OBVIOUS
  <2>2. evaluation \in Finding \cup {NoEvaluation}
    BY DEF IInv, TypeOK
  <2>3. Reads(c, call)
    BY <1>3 DEF GetLoadsEvaluation
  <2> HIDE DEF next
  <2>4. call \in Call /\ CallKnows(call, concluded) /\ call.step # "upload.update"
    BY <2>1, <2>2, CallNow DEF Call, Steps, CallKnows
  <2> QED
    BY <2>3, <2>4, ReadKeeps
<1>4. CASE GetDecides(c)
  <2> DEFINE call == [Idle EXCEPT !.step = "eval.read"]
  <2>1. call \in Call /\ CallKnows(call, concluded) /\ call.step # "upload.update"
    BY IdleCall DEF Idle, Steps, CallKnows
  <2>2. Reads(c, call) \/ Reads(c, Idle)
    BY <1>4 DEF GetDecides
  <2> QED
    BY <2>1, <2>2, ReadKeeps, EndingKeeps
<1> QED
  BY <1>1, <1>2, <1>3, <1>4 DEF GetStep

-----------------------------------------------------------------------------
(* Steps that write.                                                       *)

\* The brief's row is written: the text may be lost, the brief is not.
LEMMA PostJobStoresKeeps ==
    ASSUME IInv, NEW c \in Calls, PostJobStores(c)
    PROVE  IInv'
<1>1. record' = PutJob(calls[c].title) /\ calls' = [calls EXCEPT ![c] = Idle]
      /\ UNCHANGED <<chain, evaluation, concluded, signatures>>
  BY DEF PostJobStores, End
<1>2. calls[c].title \in Titles
  BY CallNow DEF CallKnows, PostJobStores, At
<1>3. record' \in [title : Titles \cup {None}, delivery : Deliveries \cup {None}]
      /\ record'.title # None
  BY <1>1, <1>2, ContentAssumption DEF PutJob, IInv, TypeOK
<1>4. BriefStored'
  BY <1>3 DEF BriefStored, NoRecord
<1>5. calls' \in [Calls -> Call] /\ CallsKnow' /\ UploadsFollowBrief'
  BY <1>1, <1>4, IdleCall, OneCallMoves
<1>6. TypeOK'
  BY <1>1, <1>3, <1>5 DEF IInv, TypeOK
<1> QED
  BY <1>1, <1>5, <1>6 DEF IInv, StoredVerdictReached, SignedVerdictReached,
     ConclusionsPossible, VerdictSigned

\* The text is written next to a brief that is there.
LEMMA UploadStoresKeeps ==
    ASSUME IInv, NEW c \in Calls, UploadStores(c)
    PROVE  IInv'
<1> DEFINE call == [Idle EXCEPT !.step = "eval.read", !.force = TRUE]
<1>1. record' = [record EXCEPT !.delivery = calls[c].text]
      /\ calls' = [calls EXCEPT ![c] = call]
      /\ UNCHANGED <<chain, evaluation, concluded, signatures>>
  BY DEF UploadStores
<1>2. calls[c].text \in Deliveries
  BY CallNow DEF CallKnows, UploadStores, At
<1>3. record # NoRecord
  BY DEF IInv, UploadsFollowBrief, UploadStores, BriefStored
<1>4. record \in [title : Titles \cup {None}, delivery : Deliveries \cup {None}]
      /\ record.title # None
  BY <1>3 DEF IInv, TypeOK, NoRecord
<1>5. record' \in [title : Titles \cup {None}, delivery : Deliveries \cup {None}]
      /\ record'.title # None
  BY <1>1, <1>2, <1>4
<1>6. BriefStored'
  BY <1>5 DEF BriefStored, NoRecord
<1>7. call \in Call
  BY FreshCall DEF Steps
<1>8. CallKnows(call, concluded') /\ call.step # "upload.update"
  BY DEF Idle, CallKnows
<1> HIDE DEF call
<1>9. calls' \in [Calls -> Call] /\ CallsKnow' /\ UploadsFollowBrief'
  BY <1>1, <1>6, <1>7, <1>8, OneCallMoves
<1>10. TypeOK'
  BY <1>1, <1>5, <1>9 DEF IInv, TypeOK
<1> QED
  BY <1>1, <1>9, <1>10 DEF IInv, StoredVerdictReached, SignedVerdictReached,
     ConclusionsPossible, VerdictSigned

\* The verifier concludes about the text, which is the delivery it was asked
\* about.
LEMMA EvaluateVerifiesKeeps ==
    ASSUME IInv, NEW c \in Calls, NEW v \in Verdict, EvaluateVerifies(c, v)
    PROVE  IInv'
<1> DEFINE finding == [deliveryHash |-> calls[c].seen, verdict |-> v]
           call == [calls[c] EXCEPT !.step = "eval.put", !.evaluation = finding]
<1>1. calls[c].seen \in Deliveries /\ calls[c].text = calls[c].seen
  BY CallNow DEF CallKnows, EvaluateVerifies, At
<1>2. concluded' = concluded \cup {finding} /\ v \in PossibleVerdicts(calls[c].seen)
      /\ calls' = [calls EXCEPT ![c] = call]
      /\ UNCHANGED <<chain, record, evaluation, signatures>>
  <2>1. calls' = [calls EXCEPT ![c] = call]
    BY DEF EvaluateVerifies
  <2> QED
    BY <1>1, <2>1 DEF EvaluateVerifies
<1>3. finding \in Finding
  BY <1>1 DEF Finding
<1>4. BriefStored' = BriefStored
  BY <1>2 DEF BriefStored
<1>5. call \in Call /\ CallKnows(call, concluded') /\ call.step # "upload.update"
  <2> HIDE DEF finding
  <2> QED
    BY <1>1, <1>2, <1>3, CallNow DEF Call, Steps, CallKnows
<1>6. calls' \in [Calls -> Call] /\ CallsKnow' /\ UploadsFollowBrief'
  <2> HIDE DEF call
  <2> QED
    BY <1>2, <1>4, <1>5, OneCallMoves
<1>7. TypeOK'
  BY <1>2, <1>3, <1>6 DEF IInv, TypeOK
<1>8. ConclusionsPossible'
  BY <1>2 DEF IInv, ConclusionsPossible, PossibleVerdicts
<1> QED
  BY <1>2, <1>6, <1>7, <1>8 DEF IInv, StoredVerdictReached, SignedVerdictReached,
     VerdictSigned

\* What is stored is what the call has concluded, however long ago.
LEMMA EvaluateStoresKeeps ==
    ASSUME IInv, NEW c \in Calls, EvaluateStores(c)
    PROVE  IInv'
<1>1. evaluation' = calls[c].evaluation /\ calls' = [calls EXCEPT ![c] = Idle]
      /\ UNCHANGED <<chain, record, concluded, signatures>>
  BY DEF EvaluateStores, End
<1>2. evaluation' \in concluded
  BY <1>1, CallNow DEF CallKnows, EvaluateStores, At
<1>3. BriefStored' = BriefStored
  BY <1>1 DEF BriefStored
<1>4. Idle.step # "upload.update"
  BY DEF Idle
<1>5. calls' \in [Calls -> Call] /\ CallsKnow' /\ UploadsFollowBrief'
  BY <1>1, <1>3, <1>4, IdleCall, OneCallMoves
<1>6. TypeOK'
  BY <1>1, <1>2, <1>5 DEF IInv, TypeOK
<1> QED
  BY <1>1, <1>2, <1>5, <1>6 DEF IInv, StoredVerdictReached, SignedVerdictReached,
     ConclusionsPossible, VerdictSigned

\* What is signed is the stored verdict, for the delivery it is about.
LEMMA DecisionSignsKeeps ==
    ASSUME IInv, NEW c \in Calls, DecisionSigns(c)
    PROVE  IInv'
<1>1. calls' = [calls EXCEPT ![c] = Idle]
      /\ UNCHANGED <<chain, record, evaluation, concluded>>
  BY DEF DecisionSigns, End
<1>2. \/ signatures' = signatures
      \/ signatures' = signatures \cup {evaluation} /\ evaluation \in concluded
  <2>1. CASE evaluation # NoEvaluation /\ SameDelivery(evaluation, calls[c].seen)
    <3>1. evaluation \in concluded /\ evaluation \in Finding
      BY <2>1 DEF IInv, TypeOK, StoredVerdictReached
    <3>2. evaluation = [deliveryHash |-> calls[c].seen, verdict |-> evaluation.verdict]
      BY <2>1, <3>1, FindingFields DEF SameDelivery
    <3> QED
      BY <2>1, <3>1, <3>2 DEF DecisionSigns
  <2>2. CASE ~(evaluation # NoEvaluation /\ SameDelivery(evaluation, calls[c].seen))
    BY <2>2 DEF DecisionSigns
  <2> QED
    BY <2>1, <2>2
<1>3. signatures \subseteq signatures' /\ signatures' \subseteq concluded
  BY <1>2 DEF IInv, SignedVerdictReached
<1>4. BriefStored' = BriefStored
  BY <1>1 DEF BriefStored
<1>5. Idle.step # "upload.update"
  BY DEF Idle
<1>6. calls' \in [Calls -> Call] /\ CallsKnow' /\ UploadsFollowBrief'
  BY <1>1, <1>4, <1>5, IdleCall, OneCallMoves
<1>7. TypeOK'
  BY <1>1, <1>3, <1>6 DEF IInv, TypeOK
<1>8. VerdictSigned'
  BY <1>1, <1>3 DEF IInv, VerdictSigned
<1> QED
  BY <1>1, <1>3, <1>6, <1>7, <1>8 DEF IInv, StoredVerdictReached, SignedVerdictReached,
     ConclusionsPossible

\* The job moves on chain: only Settle brings a verdict, and from a signature.
LEMMA EscrowKeeps ==
    ASSUME IInv, Escrow
    PROVE  IInv'
<1>1. UNCHANGED <<record, evaluation, calls, concluded, signatures>>
  BY DEF Escrow, SubmitDelivery, Settle, ResolveCaution, CancelExpired
<1>2. CallsKnow' /\ UploadsFollowBrief' /\ StoredVerdictReached' /\ SignedVerdictReached'
      /\ ConclusionsPossible'
  BY <1>1 DEF IInv, CallsKnow, UploadsFollowBrief, At, BriefStored, StoredVerdictReached,
     SignedVerdictReached, ConclusionsPossible
<1>3. ASSUME chain' \in [status : {"Funded", "Delivered", "Settled", "Cancelled"},
                         verdict : Verdict \cup {None}, deliveryHash : Deliveries \cup {None}],
             chain'.status = "Delivered" => chain'.deliveryHash # None,
             VerdictSigned'
      PROVE  IInv'
  BY <1>1, <1>2, <1>3 DEF IInv, TypeOK
<1>4. ASSUME NEW d \in Deliveries, SubmitDelivery(d) PROVE IInv'
  BY <1>3, <1>4, ContentAssumption DEF SubmitDelivery, IInv, TypeOK, VerdictSigned
<1>5. ASSUME NEW s \in signatures, Settle(s) PROVE IInv'
  <2>1. s \in Finding
    BY DEF IInv, TypeOK
  <2>2. s.verdict \in Verdict /\ s = [deliveryHash |-> s.deliveryHash, verdict |-> s.verdict]
    BY <2>1, FindingFields
  <2>3. /\ chain'.verdict = s.verdict /\ chain'.deliveryHash = s.deliveryHash
        /\ chain' \in [status : {"Funded", "Delivered", "Settled", "Cancelled"},
                       verdict : Verdict \cup {None}, deliveryHash : Deliveries \cup {None}]
        /\ chain'.status = "Delivered" => chain'.deliveryHash # None
    BY <1>5, <2>2 DEF Settle, AwaitsVerdict, IInv, TypeOK
  <2>4. VerdictSigned'
    BY <1>1, <2>2, <2>3 DEF VerdictSigned
  <2> QED
    BY <1>3, <2>3, <2>4
<1>6. CASE ResolveCaution
  BY <1>1, <1>3, <1>6 DEF ResolveCaution, IInv, TypeOK, VerdictSigned
<1>7. CASE CancelExpired
  BY <1>1, <1>3, <1>7 DEF CancelExpired, IInv, TypeOK, VerdictSigned
<1> QED
  BY <1>4, <1>5, <1>6, <1>7 DEF Escrow

-----------------------------------------------------------------------------
(* The theorems.                                                           *)

LEMMA InitIInv == Init => IInv
<1> SUFFICES ASSUME Init PROVE IInv
  OBVIOUS
<1>1. TypeOK
  BY IdleCall DEF Init, TypeOK, NoRecord
<1>2. CallsKnow /\ UploadsFollowBrief
  BY IdleCall DEF Init, CallsKnow, UploadsFollowBrief, At, Idle
<1> QED
  BY <1>1, <1>2 DEF Init, IInv, StoredVerdictReached, SignedVerdictReached,
     ConclusionsPossible, VerdictSigned

LEMMA NextIInv == IInv /\ [Next]_vars => IInv'
<1> SUFFICES ASSUME IInv, [Next]_vars PROVE IInv'
  OBVIOUS
<1>1. CASE Escrow
  BY <1>1, EscrowKeeps
<1>2. ASSUME NEW c \in Calls, Arrival(c) PROVE IInv'
  BY <1>2, ArrivalKeeps
<1>3. ASSUME NEW c \in Calls, HandlerStep(c) PROVE IInv'
  BY <1>3, PostJobReadKeeps, PostJobStoresKeeps, UploadReadKeeps, UploadStoresKeeps,
     EvaluateReadKeeps, EvaluateVerifiesKeeps, EvaluateStoresKeeps, GetKeeps,
     ReadsJobKeeps, DecisionSignsKeeps
     DEF HandlerStep, EvaluateStep, DecisionReads
<1>4. ASSUME NEW c \in Calls, Abort(c) PROVE IInv'
  BY <1>4, EndingKeeps DEF Abort, End, Reads
<1>5. CASE UNCHANGED vars
  BY <1>5 DEF vars, IInv, TypeOK, CallsKnow, UploadsFollowBrief, At, BriefStored,
     StoredVerdictReached, SignedVerdictReached, ConclusionsPossible, VerdictSigned
<1> QED
  BY <1>1, <1>2, <1>3, <1>4, <1>5 DEF Next

LEMMA Invariant == Spec => []IInv
  BY InitIInv, NextIInv, PTL DEF Spec

\* Types, for any number of concurrent calls.
THEOREM ServiceTypes == Spec => []TypeOK
<1>1. IInv => TypeOK
  BY DEF IInv
<1> QED
  BY <1>1, Invariant, PTL

\* The stored verdict is about the content whose hash it carries: the race
\* of putEvaluation with re-deliveries and uploads cannot mix two contents.
THEOREM StoredVerdictsReached == Spec => []StoredVerdictReached
<1>1. IInv => StoredVerdictReached
  BY DEF IInv
<1> QED
  BY <1>1, Invariant, PTL

\* The decision route signs nothing the verifier has not concluded about the
\* delivery it signs for.
THEOREM SignedVerdictsReached == Spec => []SignedVerdictReached
<1>1. IInv => SignedVerdictReached
  BY DEF IInv
<1> QED
  BY <1>1, Invariant, PTL

\* The provider is paid only for the delivery that was judged GO.
THEOREM PaidOnlyJudgedWork == Spec => []PaidOnlyIfJudged
<1>1. IInv => PaidOnlyIfJudged
  <2> SUFFICES ASSUME IInv, chain.verdict = "GO"
               PROVE  chain.deliveryHash \notin Refused /\ "GO" \in Judgements[chain.deliveryHash]
    BY DEF PaidOnlyIfJudged
  <2>1. "GO" # None
    BY ContentAssumption DEF Verdict
  <2>2. [deliveryHash |-> chain.deliveryHash, verdict |-> "GO"] \in concluded
    BY <2>1 DEF IInv, VerdictSigned, SignedVerdictReached
  <2>3. "GO" \in PossibleVerdicts(chain.deliveryHash)
    BY <2>2 DEF IInv, ConclusionsPossible
  <2> QED
    BY <2>3 DEF PossibleVerdicts
<1> QED
  BY <1>1, Invariant, PTL

\* A post of the brief that lost the race with an upload leaves the text where
\* it is, in a store whose upsert keeps the columns it does not name.
THEOREM UploadsKept == KeepsColumns => (Spec => UploadKept)
<1> SUFFICES ASSUME KeepsColumns PROVE Spec => UploadKept
  OBVIOUS
<1>1. IInv /\ [Next]_vars => [record.delivery # None => record'.delivery # None]_vars
  <2> SUFFICES ASSUME IInv, [Next]_vars, record.delivery # None
               PROVE  record'.delivery # None
    OBVIOUS
  <2>1. CASE UNCHANGED record
    BY <2>1
  <2>2. ASSUME NEW c \in Calls, PostJobStores(c) PROVE record'.delivery # None
    BY <2>2 DEF PostJobStores, PutJob
  <2>3. ASSUME NEW c \in Calls, UploadStores(c) PROVE record'.delivery # None
    <3>1. calls[c].text \in Deliveries
      BY <2>3, CallNow DEF CallKnows, UploadStores, At
    <3>2. record' = [record EXCEPT !.delivery = calls[c].text]
      BY <2>3 DEF UploadStores
    <3>3. record'.delivery = calls[c].text
      BY <3>2 DEF IInv, TypeOK
    <3> QED
      BY <3>1, <3>3, ContentAssumption
  <2>4. ASSUME NEW c \in Calls, Arrival(c) PROVE UNCHANGED record
    BY <2>4 DEF Arrival, Begin, Get, PostJob, Upload, Evaluate, AskDecision
  <2>5. ASSUME NEW c \in Calls, HandlerStep(c), ~PostJobStores(c), ~UploadStores(c)
        PROVE  UNCHANGED record
    BY <2>5 DEF HandlerStep, EvaluateStep, GetStep, Reads, ReadsJob, PostJobReads, PostJobLooks,
       UploadReads, UploadLooks, EvaluateReads, EvaluateLoads, EvaluateChecks, EvaluateVerifies,
       EvaluateStores, GetReads, GetLoadsJob, GetLoadsEvaluation, GetDecides,
       DecisionReads, DecisionSigns
  <2>6. Escrow => UNCHANGED record
    BY DEF Escrow, SubmitDelivery, Settle, ResolveCaution, CancelExpired
  <2>7. \A c \in Calls : Abort(c) => UNCHANGED record
    BY DEF Abort
  <2> QED
    BY <2>1, <2>2, <2>3, <2>4, <2>5, <2>6, <2>7 DEF Next, vars
<1> QED
  BY <1>1, Invariant, PTL DEF Spec, UploadKept

-----------------------------------------------------------------------------
(* The job in the escrow is the contract's.  AgentWorkEscrow_proofs shows  *)
(* that every job of the contract moves along EscrowJob (JobsSeenRight).   *)

\* Nobody but the decision route holds the key: a verdict comes to the chain
\* only with a signature that the route has given.
SignedHere ==
    chain'.verdict # chain.verdict =>
        [deliveryHash |-> chain.deliveryHash, verdict |-> chain'.verdict] \in signatures

\* The handlers are checked against every move of the contract that such
\* signatures allow, and against no other: what the theorems of this module say
\* of Escrow they say of the contract.
THEOREM EscrowIsContract ==
    ASSUME TypeOK, TypeOK'
    PROVE  Escrow <=> /\ Contract!Next /\ SignedHere
                      /\ UNCHANGED <<record, evaluation, calls, concluded, signatures>>
<1> DEFINE Others == UNCHANGED <<record, evaluation, calls, concluded, signatures>>
<1>1. /\ chain = [status |-> chain.status, verdict |-> chain.verdict,
                  deliveryHash |-> chain.deliveryHash]
      /\ chain' = [status |-> chain'.status, verdict |-> chain'.verdict,
                   deliveryHash |-> chain'.deliveryHash]
      /\ chain.status \in {"Funded", "Delivered", "Settled", "Cancelled"}
  BY DEF TypeOK
<1>2. None \notin Verdict
  BY ContentAssumption
<1>3. ASSUME NEW d \in Deliveries
      PROVE  SubmitDelivery(d) <=> Contract!Deliver(d) /\ Others
  BY <1>1 DEF SubmitDelivery, Contract!Deliver
<1>4. ASSUME NEW s \in signatures, Settle(s)
      PROVE  Contract!Settle(s.verdict) /\ SignedHere /\ Others /\ s.verdict \in Verdict
  <2>1. s.verdict \in Verdict /\ s = [deliveryHash |-> s.deliveryHash, verdict |-> s.verdict]
    BY DEF TypeOK, Finding
  <2>2. /\ AwaitsVerdict /\ s.deliveryHash = chain.deliveryHash
        /\ chain'.verdict = s.verdict /\ chain'.deliveryHash = chain.deliveryHash
        /\ chain'.status = IF s.verdict = "CAUTION" THEN "Delivered" ELSE "Settled"
        /\ Others
    BY <1>1, <1>4 DEF Settle
  <2> QED BY <2>1, <2>2 DEF Contract!Settle, SignedHere, AwaitsVerdict
<1>5. ASSUME NEW v \in Verdict, Contract!Settle(v), SignedHere, Others
      PROVE  \E s \in signatures : Settle(s)
  <2> DEFINE s == [deliveryHash |-> chain.deliveryHash, verdict |-> v]
  <2>1. chain.verdict = None /\ chain.status = "Delivered" /\ chain'.verdict = v
    BY <1>5 DEF Contract!Settle
  <2>2. s \in signatures
    BY <1>2, <1>5, <2>1 DEF SignedHere
  <2>3. chain' = [chain EXCEPT !.verdict = v,
                    !.status = IF v = "CAUTION" THEN "Delivered" ELSE "Settled"]
    BY <1>1, <1>5 DEF Contract!Settle
  <2>4. Settle(s)
    BY <1>5, <2>1, <2>3 DEF Settle, AwaitsVerdict
  <2> QED BY <2>2, <2>4
<1>6. ResolveCaution <=> Contract!Resolve /\ Others
  BY <1>1 DEF ResolveCaution, Contract!Resolve
<1>7. CancelExpired <=> Contract!Cancel /\ Others
  BY <1>1 DEF CancelExpired, Contract!Cancel
<1>8. ~Contract!Create
  BY <1>1 DEF Contract!Create
<1>9. ASSUME \/ \E d \in Deliveries : Contract!Deliver(d)
             \/ Contract!Resolve \/ Contract!Cancel
      PROVE  SignedHere
  BY <1>9 DEF SignedHere, Contract!Deliver, Contract!Resolve, Contract!Cancel
<1>10. Escrow => Contract!Next /\ SignedHere /\ Others
  <2> HIDE DEF Others
  <2> QED BY <1>3, <1>4, <1>6, <1>7, <1>9 DEF Escrow, Contract!Next
<1>11. Contract!Next /\ SignedHere /\ Others => Escrow
  <2> HIDE DEF Others
  <2> QED BY <1>3, <1>5, <1>6, <1>7, <1>8 DEF Escrow, Contract!Next
<1> QED BY <1>10, <1>11

\* The chain seen by the handlers is a behaviour of a job of the contract.
THEOREM ChainIsContract == Spec => Contract!Spec
<1>1. Init => Contract!Init
  BY DEF Init, Contract!Init
<1>2. TypeOK /\ TypeOK' /\ [Next]_vars => [Contract!Next]_Contract!jobVars
  <2> SUFFICES ASSUME TypeOK, TypeOK', [Next]_vars
               PROVE  Contract!Next \/ UNCHANGED chain
    BY DEF Contract!jobVars
  <2>1. Escrow => Contract!Next
    BY EscrowIsContract
  <2>2. ASSUME NEW c \in Calls, Arrival(c) \/ HandlerStep(c) \/ Abort(c)
        PROVE  UNCHANGED chain
    BY <2>2 DEF Arrival, Begin, Get, PostJob, Upload, Evaluate, AskDecision, Abort,
       HandlerStep, EvaluateStep, GetStep, Reads, ReadsJob, PostJobReads, PostJobLooks,
       PostJobStores, UploadReads, UploadLooks, UploadStores,
       EvaluateReads, EvaluateLoads, EvaluateChecks, EvaluateVerifies,
       EvaluateStores, GetReads, GetLoadsJob, GetLoadsEvaluation, GetDecides,
       DecisionReads, DecisionSigns
  <2> QED BY <2>1, <2>2 DEF Next, vars
<1> QED BY <1>1, <1>2, ServiceTypes, PTL DEF Spec, Contract!Spec

=============================================================================

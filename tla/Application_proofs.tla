------------------------- MODULE Application_proofs -------------------------
(***************************************************************************)
(* Proofs about the application as its users and its operator meet it:     *)
(* JobPages, for any pages, texts and bounds, and Deployment, for any      *)
(* chains, keys and number of deployments.                                 *)
(***************************************************************************)
EXTENDS JobPages, Deployment, TLAPS

(***************************************************************************)
(* JobPages.  A form that is done knows what it saw at its last step only, *)
(* and what it saw then rests on what was in the air before: on the text   *)
(* that a transaction commits to, and on whose receipt a page waits for.   *)
(***************************************************************************)

\* A receipt comes to a page that waits for it, and to it alone; a page has at
\* most one transaction in the air that it still waits for.
ReceiptsMatch ==
    /\ \A p \in Pages : step[p] # "confirming" => receipt[p] = None
    /\ \A t, u \in pending : t.page = u.page /\ t.page # None => t = u

\* A call that delivers has a text to commit to, one that settles a verdict.
Sendable(kind, arg) ==
    /\ kind = "deliver" => arg.deliveryHash \in Texts
    /\ kind = "settle" => arg.verdict \in Verdict

\* A call under way is of a kind, and has what it needs when it gets to the wallet.
CallsKnown ==
    \A p \in Pages :
        /\ step[p] \in {"fetching", "wallet", "confirming", "uploading"} => call[p].kind \in Kind
        /\ step[p] \in {"wallet", "confirming", "uploading"} => Sendable(call[p].kind, call[p].arg)

\* So has a transaction in the air, whoever waits for it.
SendsKnown == \A tx \in pending : Sendable(tx.kind, tx.arg)

\* An evaluation of a text has a verdict.
Judged == evaluation.deliveryHash \in Texts => evaluation.verdict \in Verdict

\* A delivered job has the hash of a text.
HashKnown == chain.status = "Delivered" => chain.deliveryHash \in Texts

IInv ==
    /\ TypeOK /\ ReceiptsMatch /\ CallsKnown /\ SendsKnown /\ HashKnown /\ Judged
    /\ DoneIsSafe

LEMMA PagesInit == Init => IInv
<1> SUFFICES ASSUME Init PROVE IInv
  OBVIOUS
<1>1. chain \in Job /\ NoFinding \in Finding /\ chain.status = "Funded"
  BY DEF Init, Job, Status, Finding, NoFinding
<1>2. TypeOK
  BY <1>1, BoundAssumption DEF Init, TypeOK, store, poll, run, Step, NoCall, NoView
<1>3. ReceiptsMatch /\ CallsKnown /\ SendsKnown /\ HashKnown /\ DoneIsSafe
  BY <1>1 DEF Init, ReceiptsMatch, CallsKnown, SendsKnown, HashKnown, DoneIsSafe, Pages
<1>4. Judged
  BY NoneAssumption DEF Init, store, NoFinding, Judged
<1> QED BY <1>2, <1>3, <1>4 DEF IInv

\* What a transaction that is accepted does to the job: it stays a job, never
\* goes back before its delivery, and never without a text.
LEMMA ChainMoves ==
    ASSUME chain \in Job, HashKnown, NEW c \in Kind, NEW a \in Finding, Accepts(c, a),
           Sendable(c, a)
    PROVE  LET new == After(c, a) IN
           /\ new \in Job
           /\ new.status = "Delivered" => new.deliveryHash \in Texts
           /\ chain.status \in {"Delivered", "Settled"} => new.status \in {"Delivered", "Settled"}
<1>1. /\ chain.status \in Status /\ chain.verdict \in Verdict \cup {None}
      /\ chain.deliveryHash \in Texts \cup {None}
      /\ a.verdict \in Verdict \cup {None} /\ a.deliveryHash \in Texts \cup {None}
  BY DEF Job, Finding
<1>2. CASE c = "deliver"
  BY <1>1, <1>2 DEF After, Job, Status, Sendable
<1>3. CASE c = "settle"
  <2>1. chain.status = "Delivered"
    BY <1>3 DEF Accepts, Awaits
  <2> QED BY <1>1, <1>3, <2>1 DEF After, Job, Status, HashKnown
<1>4. CASE c \in {"release", "refund"}
  BY <1>1, <1>4 DEF After, Job, Status
<1>5. CASE c = "cancel"
  <2>1. chain.status = "Funded"
    BY <1>5 DEF Accepts
  <2> QED BY <1>1, <1>5, <2>1 DEF After, Job, Status
<1> QED BY <1>2, <1>3, <1>4, <1>5 DEF Kind

\* A page that lets go of its call leaves what it sent to nobody.
LEMMA LetsGoKeeps ==
    ASSUME IInv, NEW p \in Pages, LetsGo(p)
    PROVE  /\ pending' \subseteq [page : Pages \cup {None}, kind : Kind, arg : Finding]
           /\ \A tx \in pending' : tx.page # None =>
                 step'[tx.page] = "confirming" /\ receipt'[tx.page] = None
           /\ step' \in [Pages -> Step]
           /\ call' \in [Pages -> [kind : Kind \cup {None}, arg : Finding]]
           /\ receipt' \in [Pages -> {"success", "reverted", None}]
           /\ ReceiptsMatch' /\ CallsKnown' /\ SendsKnown'
           /\ step'[p] = "idle" /\ \A q \in Pages \ {p} : step'[q] = step[q]
<1>1. /\ step \in [Pages -> Step] /\ receipt \in [Pages -> {"success", "reverted", None}]
      /\ call \in [Pages -> [kind : Kind \cup {None}, arg : Finding]]
  BY DEF IInv, TypeOK
<1>2. /\ step' \in [Pages -> Step] /\ step'[p] = "idle"
      /\ \A q \in Pages \ {p} : step'[q] = step[q]
  BY <1>1 DEF LetsGo, Step
<1>3. /\ receipt' \in [Pages -> {"success", "reverted", None}] /\ receipt'[p] = None
      /\ \A q \in Pages \ {p} : receipt'[q] = receipt[q]
  BY <1>1 DEF LetsGo
<1>4. /\ call' \in [Pages -> [kind : Kind \cup {None}, arg : Finding]]
      /\ \A q \in Pages \ {p} : call'[q] = call[q]
  <2>1. NoCall \in [kind : Kind \cup {None}, arg : Finding]
    BY DEF NoCall, NoFinding, Finding
  <2> QED BY <1>1, <2>1 DEF LetsGo
<1>5. ASSUME NEW u \in pending'
      PROVE  \E tx \in pending :
                /\ u \in [page : Pages \cup {None}, kind : Kind, arg : Finding]
                /\ u.kind = tx.kind /\ u.arg = tx.arg
                /\ u.page # None => u = tx /\ u.page # p
  <2>1. PICK tx \in pending : u = [tx EXCEPT !.page = IF @ = p THEN None ELSE @]
    BY DEF LetsGo
  <2>2. tx \in [page : Pages \cup {None}, kind : Kind, arg : Finding]
    BY DEF IInv, TypeOK
  <2>3. CASE tx.page = p
    BY <2>1, <2>2, <2>3
  <2>4. CASE tx.page # p
    BY <2>1, <2>2, <2>4
  <2> QED BY <2>3, <2>4
<1>6. \A u \in pending' : u \in [page : Pages \cup {None}, kind : Kind, arg : Finding]
  BY <1>5
<1>7. ASSUME NEW u \in pending', u.page # None
      PROVE  step'[u.page] = "confirming" /\ receipt'[u.page] = None
  <2>1. u \in pending /\ u.page \in Pages \ {p}
    BY <1>5, <1>7
  <2>2. step[u.page] = "confirming" /\ receipt[u.page] = None
    BY <1>7, <2>1 DEF IInv, TypeOK
  <2> QED BY <1>2, <1>3, <2>1, <2>2
<1>8. ReceiptsMatch'
  <2>1. \A q \in Pages : step'[q] # "confirming" => receipt'[q] = None
    BY <1>2, <1>3 DEF IInv, ReceiptsMatch
  <2>2. \A t, u \in pending' : t.page = u.page /\ t.page # None => t = u
    BY <1>5 DEF IInv, ReceiptsMatch
  <2> QED BY <2>1, <2>2 DEF ReceiptsMatch
<1>9. CallsKnown'
  BY <1>2, <1>4 DEF IInv, CallsKnown
<1>10. SendsKnown'
  BY <1>5 DEF IInv, SendsKnown
<1> QED BY <1>2, <1>3, <1>4, <1>6, <1>7, <1>8, <1>9, <1>10

\* A page that goes on with nothing in the air: it had not sent anything, or it
\* has the receipt.
LEMMA PageTurns ==
    ASSUME IInv, NEW p \in Pages, NEW to \in Step \ {"confirming"},
           step' = [step EXCEPT ![p] = to], UNCHANGED pending,
           step[p] # "confirming" \/ receipt[p] = "success",
           receipt' = receipt \/ receipt' = [receipt EXCEPT ![p] = None],
           receipt'[p] = None,
           call' \in [Pages -> [kind : Kind \cup {None}, arg : Finding]],
           \A q \in Pages \ {p} : call'[q] = call[q],
           to \in {"fetching", "wallet", "uploading"} => call'[p].kind \in Kind,
           to \in {"wallet", "uploading"} => Sendable(call'[p].kind, call'[p].arg)
    PROVE  /\ \A tx \in pending' : tx.page # None =>
                 step'[tx.page] = "confirming" /\ receipt'[tx.page] = None
           /\ step' \in [Pages -> Step]
           /\ receipt' \in [Pages -> {"success", "reverted", None}]
           /\ ReceiptsMatch' /\ CallsKnown' /\ SendsKnown'
<1>1. step \in [Pages -> Step] /\ receipt \in [Pages -> {"success", "reverted", None}]
  BY DEF IInv, TypeOK
<1>2. /\ step' \in [Pages -> Step] /\ step'[p] = to
      /\ \A q \in Pages \ {p} : step'[q] = step[q]
  BY <1>1
<1>3. /\ receipt' \in [Pages -> {"success", "reverted", None}]
      /\ \A q \in Pages \ {p} : receipt'[q] = receipt[q]
  BY <1>1
<1>4. ASSUME NEW tx \in pending, tx.page # None
      PROVE  step'[tx.page] = "confirming" /\ receipt'[tx.page] = None
  <2>1. tx.page \in Pages /\ step[tx.page] = "confirming" /\ receipt[tx.page] = None
    BY <1>4 DEF IInv, TypeOK
  <2>2. tx.page # p
    BY <2>1, NoneAssumption
  <2> QED BY <1>2, <1>3, <2>1, <2>2
<1>5. ReceiptsMatch'
  BY <1>2, <1>3 DEF IInv, ReceiptsMatch
<1>6. CallsKnown'
  BY <1>2 DEF IInv, CallsKnown
<1>7. SendsKnown'
  BY DEF IInv, SendsKnown
<1> QED BY <1>2, <1>3, <1>4, <1>5, <1>6, <1>7

\* The call whose receipt arrives, at a page or at none.
LEMMA ReceiptKeeps ==
    ASSUME IInv, NEW tx \in pending, NEW outcome \in {"success", "reverted"},
           Receipt(tx, outcome), pending' = pending \ {tx}, UNCHANGED <<step, call>>
    PROVE  /\ \A u \in pending' : u.page # None =>
                 step'[u.page] = "confirming" /\ receipt'[u.page] = None
           /\ receipt' \in [Pages -> {"success", "reverted", None}]
           /\ ReceiptsMatch' /\ CallsKnown' /\ SendsKnown'
<1>1. receipt \in [Pages -> {"success", "reverted", None}]
  BY DEF IInv, TypeOK
<1>2. /\ receipt' \in [Pages -> {"success", "reverted", None}]
      /\ \A p \in Pages : p # tx.page => receipt'[p] = receipt[p]
  BY <1>1 DEF Receipt
<1>3. ASSUME NEW u \in pending', u.page # None
      PROVE  step'[u.page] = "confirming" /\ receipt'[u.page] = None
  <2>1. u \in pending /\ u # tx
    OBVIOUS
  <2>2. u.page \in Pages /\ step[u.page] = "confirming" /\ receipt[u.page] = None
    BY <1>3, <2>1 DEF IInv, TypeOK
  <2>3. u.page # tx.page
    BY <1>3, <2>1 DEF IInv, ReceiptsMatch
  <2> QED BY <1>2, <2>2, <2>3
<1>4. ASSUME NEW p \in Pages, step'[p] # "confirming" PROVE receipt'[p] = None
  <2>1. step[p] # "confirming" /\ receipt[p] = None
    BY <1>4 DEF IInv, ReceiptsMatch
  <2>2. tx.page # p
    <3>1. tx.page # None => step[tx.page] = "confirming"
      BY DEF IInv, TypeOK
    <3> QED BY <2>1, <3>1, NoneAssumption
  <2> QED BY <1>2, <2>1, <2>2
<1>5. ReceiptsMatch' /\ CallsKnown' /\ SendsKnown'
  BY <1>4 DEF IInv, ReceiptsMatch, CallsKnown, SendsKnown
<1> QED BY <1>2, <1>3, <1>5

\* The job in the escrow moves on, whoever sent the transaction.
LEMMA JobKeeps ==
    ASSUME IInv, NEW c \in Kind, NEW a \in Finding, Accepts(c, a), chain' = After(c, a),
           Sendable(c, a), UNCHANGED <<step, delivery>>
    PROVE  chain' \in Job /\ HashKnown' /\ DoneIsSafe'
<1>1. /\ chain' \in Job /\ HashKnown'
      /\ chain.status \in {"Delivered", "Settled"} => chain'.status \in {"Delivered", "Settled"}
  BY ChainMoves DEF IInv, TypeOK, HashKnown
<1> QED BY <1>1 DEF IInv, DoneIsSafe

\* What the upload handler keeps is a text, and what it kept it keeps.
LEMMA TextKept ==
    ASSUME IInv, NEW d, Keeps(d)
    PROVE  /\ delivery' \in Texts \cup {None}
           /\ delivery # None => delivery' # None
           /\ UploadFits(d) => chain.status = "Delivered" /\ delivery' # None
<1>1. UploadFits(d) => chain.status = "Delivered" /\ d \in Texts
  BY DEF UploadFits, Awaits, IInv, HashKnown
<1>2. delivery' = IF UploadFits(d) THEN d ELSE delivery
  BY DEF Keeps
<1>3. delivery \in Texts \cup {None}
  BY DEF IInv, TypeOK
<1> QED BY <1>1, <1>2, <1>3, NoneAssumption

\* Pages that let go of a call, or are closed, change nothing else that
\* matters.
LEMMA LetsGoInv ==
    ASSUME IInv, NEW p \in Pages, LetsGo(p), failures' \in 0..MaxFailures,
           UNCHANGED evaluation,
           view' \in [OutcomePages -> [job : Shown \cup {NoJob}, evaluated : BOOLEAN]],
           shown' \in [DeliverPages -> BOOLEAN],
           delivery' \in Texts \cup {None}, delivery # None => delivery' # None
    PROVE  IInv'
<1>1. UNCHANGED <<now, chain>>
  BY DEF LetsGo
<1>2. TypeOK'
  BY <1>1, LetsGoKeeps DEF IInv, TypeOK
<1>3. HashKnown' /\ Judged'
  BY <1>1 DEF IInv, HashKnown, Judged
<1>4. DoneIsSafe'
  BY <1>1, LetsGoKeeps DEF IInv, DoneIsSafe, Pages
<1> QED BY <1>2, <1>3, <1>4, LetsGoKeeps DEF IInv

\* What a call of a page may be of the shape PageTurns is about.
LEMMA TurnInv ==
    ASSUME IInv, NEW p \in Pages, NEW to \in Step \ {"confirming"},
           step' = [step EXCEPT ![p] = to], UNCHANGED <<now, chain, pending>>,
           step[p] # "confirming" \/ receipt[p] = "success",
           receipt' = receipt \/ receipt' = [receipt EXCEPT ![p] = None],
           receipt'[p] = None,
           call' \in [Pages -> [kind : Kind \cup {None}, arg : Finding]],
           \A q \in Pages \ {p} : call'[q] = call[q],
           to \in {"fetching", "wallet", "uploading"} => call'[p].kind \in Kind,
           to \in {"wallet", "uploading"} => Sendable(call'[p].kind, call'[p].arg),
           failures' \in 0..MaxFailures,
           UNCHANGED evaluation,
           view' \in [OutcomePages -> [job : Shown \cup {NoJob}, evaluated : BOOLEAN]],
           UNCHANGED shown,
           delivery' \in Texts \cup {None}, delivery # None => delivery' # None,
           to = "done" => chain.status = "Delivered" /\ delivery' # None
    PROVE  IInv'
<1>1. TypeOK'
  BY PageTurns DEF IInv, TypeOK
<1>2. HashKnown' /\ Judged'
  BY DEF IInv, HashKnown, Judged
<1>3. step \in [Pages -> Step]
  BY DEF IInv, TypeOK
<1>4. DoneIsSafe'
  BY <1>3 DEF IInv, DoneIsSafe, Pages
<1> QED BY <1>1, <1>2, <1>4, PageTurns DEF IInv

\* The poll's answer.
LEMMA AnsweredInv ==
    ASSUME IInv, NEW p \in OutcomePages, NEW e, Answered(p, e),
           failures' \in 0..MaxFailures, evaluation' \in Finding, Judged'
    PROVE  IInv'
<1>1. p \in Pages /\ step \in [Pages -> Step]
  BY DEF Pages, IInv, TypeOK
<1>2. UNCHANGED <<now, chain, pending, delivery, shown, call, receipt>>
  BY DEF Answered
<1>3. view' \in [OutcomePages -> [job : Shown \cup {NoJob}, evaluated : BOOLEAN]]
  <2>1. [job |-> ShownJob, evaluated |-> e # NoFinding] \in
          [job : Shown \cup {NoJob}, evaluated : BOOLEAN]
    BY DEF IInv, TypeOK, ShownJob, Job, Shown
  <2> QED BY <2>1 DEF Answered, IInv, TypeOK
<1>4. /\ step' \in [Pages -> Step]
      /\ \A q \in Pages :
            step'[q] = step[q] \/ (step[q] = "refreshing" /\ step'[q] = "idle")
  <2> DEFINE to == IF step[p] = "refreshing" THEN "idle" ELSE step[p]
  <2>1. step' = [step EXCEPT ![p] = to]
    BY DEF Answered
  <2>2. to \in Step
    BY <1>1 DEF Step
  <2> QED BY <1>1, <2>1, <2>2
<1>5. TypeOK'
  BY <1>2, <1>3, <1>4 DEF IInv, TypeOK
<1>6. ReceiptsMatch' /\ CallsKnown' /\ SendsKnown' /\ HashKnown'
  BY <1>2, <1>4 DEF IInv, ReceiptsMatch, CallsKnown, SendsKnown, HashKnown
<1>7. DoneIsSafe'
  BY <1>2, <1>4 DEF IInv, DoneIsSafe, Pages
<1> QED BY <1>5, <1>6, <1>7 DEF IInv

LEMMA PagesNext == IInv /\ [Next]_vars => IInv'
<1> SUFFICES ASSUME IInv, [Next]_vars PROVE IInv'
  OBVIOUS
<1>0. /\ step \in [Pages -> Step] /\ receipt \in [Pages -> {"success", "reverted", None}]
      /\ call \in [Pages -> [kind : Kind \cup {None}, arg : Finding]]
      /\ evaluation \in Finding /\ NoFinding \in Finding
      /\ NoCall \in [kind : Kind \cup {None}, arg : Finding]
      /\ DeliverPages \subseteq Pages /\ OutcomePages \subseteq Pages
      /\ view \in [OutcomePages -> [job : Shown \cup {NoJob}, evaluated : BOOLEAN]]
      /\ delivery \in Texts \cup {None}
  BY DEF IInv, TypeOK, Pages, NoFinding, Finding, NoCall
<1>1. failures' \in 0..MaxFailures
  BY BoundAssumption DEF IInv, TypeOK, Next, vars
<1>2. CASE UNCHANGED vars
  BY <1>2 DEF vars, store, poll, run, IInv, TypeOK, ReceiptsMatch, CallsKnown, SendsKnown,
              HashKnown, Judged, DoneIsSafe
<1>3. CASE Tick \/ Evaluate
  <2>1. UNCHANGED <<chain, pending, delivery, poll, run, failures>>
    BY <1>3 DEF Tick, Evaluate, store
  <2>2. now' \in 0..MaxTime /\ evaluation' \in Finding /\ Judged'
    BY <1>0, <1>3, BoundAssumption DEF Tick, Evaluate, Evaluated, store, Finding, IInv, TypeOK, Judged
  <2> QED BY <1>1, <2>1, <2>2 DEF poll, run, IInv, TypeOK, ReceiptsMatch, CallsKnown, SendsKnown,
              HashKnown, Judged, DoneIsSafe
<1>4. ASSUME NEW tx \in pending, Mined(tx) PROVE IInv'
  <2>1. tx.kind \in Kind /\ tx.arg \in Finding /\ Sendable(tx.kind, tx.arg)
    BY DEF IInv, TypeOK, SendsKnown
  <2>2. pending' = pending \ {tx} /\ UNCHANGED <<now, store, poll, step, call>>
    BY <1>4 DEF Mined
  <2>3. PICK outcome \in {"success", "reverted"} : Receipt(tx, outcome)
    BY <1>4 DEF Mined
  <2>4. chain' \in Job /\ HashKnown' /\ Judged' /\ DoneIsSafe'
    <3>1. CASE Accepts(tx.kind, tx.arg) /\ chain' = After(tx.kind, tx.arg)
      BY <2>1, <2>2, <3>1, JobKeeps DEF store, IInv, Judged
    <3>2. CASE UNCHANGED chain
      BY <2>2, <3>2 DEF store, IInv, TypeOK, HashKnown, Judged, DoneIsSafe
    <3> QED BY <1>4, <3>1, <3>2 DEF Mined
  <2>5. TypeOK'
    BY <1>1, <2>2, <2>3, <2>4, ReceiptKeeps DEF store, poll, IInv, TypeOK
  <2> QED BY <2>2, <2>3, <2>4, <2>5, ReceiptKeeps DEF IInv
<1>5. ASSUME NEW tx \in pending, NotMined(tx) PROVE IInv'
  <2>1. pending' = pending \ {tx} /\ UNCHANGED <<now, chain, store, poll, step, call>>
    BY <1>5 DEF NotMined
  <2>2. PICK outcome \in {"reverted", "success"} : Receipt(tx, outcome)
    BY <1>5 DEF NotMined
  <2>3. TypeOK'
    BY <1>1, <2>1, <2>2, ReceiptKeeps DEF store, poll, IInv, TypeOK
  <2>4. HashKnown' /\ Judged' /\ DoneIsSafe'
    BY <2>1 DEF store, IInv, HashKnown, Judged, DoneIsSafe
  <2> QED BY <2>1, <2>2, <2>3, <2>4, ReceiptKeeps DEF IInv
<1>6. ASSUME NEW d \in Texts, DeliverElsewhere(d) PROVE IInv'
  <2> DEFINE a == [deliveryHash |-> d, verdict |-> None]
  <2>1. /\ Accepts("deliver", a) /\ chain' = After("deliver", a)
        /\ UNCHANGED <<now, pending, store, poll, run, failures>>
    BY <1>6 DEF DeliverElsewhere
  <2>2. a \in Finding /\ a.deliveryHash \in Texts
    BY DEF Finding
  <2> HIDE DEF a
  <2>3. chain' \in Job /\ HashKnown' /\ Judged' /\ DoneIsSafe'
    BY <2>1, <2>2, JobKeeps DEF Kind, Sendable, store, run, IInv, Judged
  <2> QED BY <1>1, <2>1, <2>3 DEF store, poll, run, IInv, TypeOK, ReceiptsMatch, CallsKnown, SendsKnown
<1>7. ASSUME NEW d \in Texts, UploadElsewhere(d) PROVE IInv'
  <2>1. Keeps(d) /\ UNCHANGED <<now, chain, pending, evaluation, poll, run, failures>>
    BY <1>7 DEF UploadElsewhere
  <2>2. delivery' \in Texts \cup {None} /\ (delivery # None => delivery' # None)
    BY <2>1, TextKept
  <2> QED BY <1>1, <2>1, <2>2 DEF poll, run, IInv, TypeOK, ReceiptsMatch, CallsKnown, SendsKnown,
              HashKnown, Judged, DoneIsSafe
<1>8. ASSUME NEW p \in Pages, WalletSends(p) PROVE IInv'
  <2> DEFINE tx == [page |-> p, kind |-> call[p].kind, arg |-> call[p].arg]
  <2>1. /\ step[p] = "wallet" /\ step' = [step EXCEPT ![p] = "confirming"]
        /\ pending' = pending \cup {tx}
        /\ UNCHANGED <<now, chain, store, poll, call, receipt>>
    BY <1>8 DEF WalletSends, Goes
  <2>2. /\ tx \in [page : Pages \cup {None}, kind : Kind, arg : Finding]
        /\ tx.page = p /\ tx.kind = call[p].kind /\ tx.arg = call[p].arg
        /\ Sendable(tx.kind, tx.arg)
    BY <1>0, <2>1 DEF IInv, CallsKnown
  <2>3. receipt[p] = None /\ \A u \in pending : u.page # p
    <3>1. ASSUME NEW u \in pending PROVE u.page # p
      BY <2>1, NoneAssumption DEF IInv, TypeOK
    <3> QED BY <2>1, <3>1 DEF IInv, ReceiptsMatch
  <2> HIDE DEF tx
  <2>4. step' \in [Pages -> Step] /\ step'[p] = "confirming" /\ \A q \in Pages \ {p} : step'[q] = step[q]
    BY <1>0, <2>1 DEF Step
  <2>5. ASSUME NEW u \in pending', u.page # None
        PROVE  step'[u.page] = "confirming" /\ receipt'[u.page] = None
    <3>1. CASE u = tx
      BY <2>1, <2>2, <2>3, <2>4, <3>1
    <3>2. CASE u \in pending
      <4>1. u.page \in Pages /\ step[u.page] = "confirming" /\ receipt[u.page] = None
        BY <2>5, <3>2 DEF IInv, TypeOK
      <4> QED BY <2>1, <2>3, <2>4, <3>2, <4>1
    <3> QED BY <2>1, <3>1, <3>2
  <2>6. pending' \subseteq [page : Pages \cup {None}, kind : Kind, arg : Finding]
    BY <2>1, <2>2 DEF IInv, TypeOK
  <2>7. TypeOK'
    BY <1>1, <2>1, <2>4, <2>5, <2>6 DEF store, poll, IInv, TypeOK
  <2>8. ReceiptsMatch'
    <3>1. \A t, u \in pending' : t.page = u.page /\ t.page # None => t = u
      BY <2>1, <2>2, <2>3 DEF IInv, ReceiptsMatch
    <3>2. \A q \in Pages : step'[q] # "confirming" => receipt'[q] = None
      BY <2>1, <2>4 DEF IInv, ReceiptsMatch
    <3> QED BY <3>1, <3>2 DEF ReceiptsMatch
  <2>9. CallsKnown'
    BY <2>1, <2>4 DEF IInv, CallsKnown
  <2>10. SendsKnown' /\ HashKnown' /\ Judged'
    BY <2>1, <2>2 DEF store, IInv, SendsKnown, HashKnown, Judged
  <2>11. DoneIsSafe'
    BY <1>0, <2>1, <2>4 DEF store, IInv, DoneIsSafe
  <2> QED BY <2>7, <2>8, <2>9, <2>10, <2>11 DEF IInv
<1>9. ASSUME NEW p \in Pages, CallFails(p) \/ ReceiptReverted(p) PROVE IInv'
  <2>1. LetsGo(p) /\ UNCHANGED <<store, poll>>
    BY <1>9 DEF CallFails, ReceiptReverted
  <2> QED BY <1>1, <2>1, LetsGoInv DEF store, poll, IInv, TypeOK
<1>10. ASSUME NEW p \in Pages, Reload(p) PROVE IInv'
  <2>1. /\ LetsGo(p) /\ UNCHANGED store
        /\ view' \in [OutcomePages -> [job : Shown \cup {NoJob}, evaluated : BOOLEAN]]
        /\ shown' \in [DeliverPages -> BOOLEAN]
    BY <1>0, <1>10 DEF Reload, NoView, IInv, TypeOK
  <2> QED BY <1>1, <2>1, LetsGoInv DEF store, IInv, TypeOK
<1>11. ASSUME NEW p \in DeliverPages, UploadAnswerLost(p) PROVE IInv'
  <2>1. LetsGo(p) /\ Keeps(Typed(p)) /\ UNCHANGED <<evaluation, poll>>
    BY <1>11 DEF UploadAnswerLost
  <2> QED BY <1>0, <1>1, <2>1, TextKept, LetsGoInv DEF poll, IInv, TypeOK
<1>12. ASSUME NEW p \in DeliverPages, SeesStatus(p) PROVE IInv'
  <2>1. shown' \in [DeliverPages -> BOOLEAN] /\ UNCHANGED <<now, chain, pending, store, view, run>>
    BY <1>12 DEF SeesStatus, IInv, TypeOK
  <2> QED BY <1>1, <2>1 DEF store, run, IInv, TypeOK, ReceiptsMatch, CallsKnown, SendsKnown,
              HashKnown, Judged, DoneIsSafe
<1>13. ASSUME NEW p \in DeliverPages, NEW d \in Texts, Submit(p, d) PROVE IInv'
  <2> DEFINE new == [kind |-> "deliver", arg |-> [deliveryHash |-> d, verdict |-> None]]
  <2>1. /\ step[p] = "idle" /\ step' = [step EXCEPT ![p] = "wallet"]
        /\ call' = [call EXCEPT ![p] = new]
        /\ UNCHANGED <<now, chain, pending, delivery, evaluation, view, shown, receipt>>
    BY <1>13 DEF Submit, CanSubmit, store, poll
  <2>2. new \in [kind : Kind \cup {None}, arg : Finding] /\ new.kind \in Kind
        /\ Sendable(new.kind, new.arg)
    BY DEF Kind, Finding, Sendable
  <2> HIDE DEF new
  <2>3. /\ call' \in [Pages -> [kind : Kind \cup {None}, arg : Finding]] /\ call'[p] = new
        /\ \A q \in Pages \ {p} : call'[q] = call[q]
    BY <1>0, <2>1, <2>2
  <2>4. p \in Pages /\ receipt[p] = None /\ "wallet" \in Step \ {"confirming"}
    BY <1>0, <2>1 DEF IInv, ReceiptsMatch, Step
  <2> QED BY <1>0, <1>1, <2>1, <2>2, <2>3, <2>4, TurnInv
<1>14. ASSUME NEW p \in DeliverPages, DeliveryConfirmed(p) PROVE IInv'
  <2>1. /\ step[p] = "confirming" /\ step' = [step EXCEPT ![p] = "uploading"]
        /\ receipt[p] = "success" /\ receipt' = [receipt EXCEPT ![p] = None]
        /\ UNCHANGED <<now, chain, pending, delivery, evaluation, view, shown, call>>
    BY <1>14 DEF DeliveryConfirmed, Goes, store, poll
  <2>2. /\ p \in Pages /\ receipt'[p] = None /\ "uploading" \in Step \ {"confirming"}
        /\ call[p].kind \in Kind /\ Sendable(call[p].kind, call[p].arg)
    BY <1>0, <2>1 DEF IInv, CallsKnown, Step
  <2> QED BY <1>0, <1>1, <2>1, <2>2, TurnInv
<1>15. ASSUME NEW p \in DeliverPages, Uploads(p) PROVE IInv'
  <2> DEFINE to == AfterUpload(UploadFits(Typed(p)))
  <2>1. /\ step[p] = "uploading" /\ step' = [step EXCEPT ![p] = to]
        /\ Keeps(Typed(p)) /\ call' = [call EXCEPT ![p] = NoCall]
        /\ UNCHANGED <<now, chain, pending, evaluation, view, shown, receipt>>
    BY <1>15 DEF Uploads, Goes, poll
  <2>2. to \in {"idle", "done"} /\ (to = "done" => UploadFits(Typed(p)))
    BY DEF AfterUpload
  <2>3. /\ delivery' \in Texts \cup {None}
        /\ delivery # None => delivery' # None
        /\ to = "done" => chain.status = "Delivered" /\ delivery' # None
    BY <2>1, <2>2, TextKept
  <2>4. /\ call' \in [Pages -> [kind : Kind \cup {None}, arg : Finding]]
        /\ \A q \in Pages \ {p} : call'[q] = call[q]
    BY <1>0, <2>1
  <2>5. p \in Pages /\ receipt[p] = None /\ to \in Step \ {"confirming"}
    BY <1>0, <2>1, <2>2 DEF IInv, ReceiptsMatch, Step
  <2> HIDE DEF to
  <2> QED BY <1>0, <1>1, <2>1, <2>2, <2>3, <2>4, <2>5, TurnInv
<1>16. ASSUME NEW p \in OutcomePages, Poll(p) \/ PollHealsNot(p) PROVE IInv'
  <2>1. /\ \E e : Answered(p, e)
        /\ evaluation' \in Finding /\ Judged'
    BY <1>0, <1>16 DEF Poll, PollHealsNot, Evaluated, Finding, IInv, Judged
  <2> QED BY <1>1, <2>1, AnsweredInv
<1>17. ASSUME NEW p \in OutcomePages, PollFails(p) PROVE IInv'
  <2>1. /\ step[p] = "refreshing" /\ step' = [step EXCEPT ![p] = "idle"]
        /\ UNCHANGED <<now, chain, pending, delivery, evaluation, view, shown, call, receipt>>
    BY <1>17 DEF PollFails, Goes, store, poll
  <2>2. p \in Pages /\ receipt[p] = None /\ "idle" \in Step \ {"confirming"}
    BY <1>0, <2>1 DEF IInv, ReceiptsMatch, Step
  <2> QED BY <1>0, <1>1, <2>1, <2>2, TurnInv
<1>18. ASSUME NEW p \in OutcomePages, NEW c \in Kind, Press(p, c) PROVE IInv'
  <2> DEFINE to == IF c = "settle" THEN "fetching" ELSE "wallet"
  <2>1. /\ step[p] = "idle" /\ step' = [step EXCEPT ![p] = to]
        /\ call' = [call EXCEPT ![p].kind = c]
        /\ UNCHANGED <<now, chain, pending, delivery, evaluation, view, shown, receipt>>
    BY <1>18 DEF Press, Goes, store, poll
  <2>2. c # "deliver"
    BY <1>18 DEF Press, Offers
  <2>3. /\ call' \in [Pages -> [kind : Kind \cup {None}, arg : Finding]] /\ call'[p].kind = c
        /\ \A q \in Pages \ {p} : call'[q] = call[q]
    BY <1>0, <2>1
  <2>4. p \in Pages /\ receipt[p] = None /\ to \in {"fetching", "wallet"}
        /\ to \in Step \ {"confirming"} /\ (to = "wallet" => c # "settle")
    BY <1>0, <2>1 DEF IInv, ReceiptsMatch, Step
  <2>5. to = "wallet" => Sendable(call'[p].kind, call'[p].arg)
    BY <2>2, <2>3, <2>4 DEF Sendable
  <2> HIDE DEF to
  <2> QED BY <1>0, <1>1, <2>1, <2>3, <2>4, <2>5, TurnInv
<1>19. ASSUME NEW p \in OutcomePages, DecisionFetched(p) PROVE IInv'
  <2>1. /\ Signable
        /\ step[p] = "fetching" /\ step' = [step EXCEPT ![p] = "wallet"]
        /\ call' = [call EXCEPT ![p].arg = evaluation]
        /\ UNCHANGED <<now, chain, pending, delivery, evaluation, view, shown, receipt>>
    BY <1>19 DEF DecisionFetched, Goes, store, poll
  <2>2. evaluation.deliveryHash \in Texts /\ evaluation.verdict \in Verdict
    BY <2>1 DEF Signable, Awaits, IInv, HashKnown, Judged
  <2>3. /\ call' \in [Pages -> [kind : Kind \cup {None}, arg : Finding]]
        /\ call'[p].kind = call[p].kind /\ call'[p].arg = evaluation
        /\ \A q \in Pages \ {p} : call'[q] = call[q]
    BY <1>0, <2>1
  <2>4. p \in Pages /\ receipt[p] = None /\ call[p].kind \in Kind /\ "wallet" \in Step \ {"confirming"}
    BY <1>0, <2>1 DEF IInv, ReceiptsMatch, CallsKnown, Step
  <2>5. Sendable(call'[p].kind, call'[p].arg)
    BY <2>2, <2>3 DEF Sendable
  <2> QED BY <1>0, <1>1, <2>1, <2>3, <2>4, <2>5, TurnInv
<1>20. ASSUME NEW p \in OutcomePages, DecisionRefused(p) PROVE IInv'
  <2>1. /\ step[p] = "fetching" /\ step' = [step EXCEPT ![p] = "idle"]
        /\ call' = [call EXCEPT ![p] = NoCall]
        /\ UNCHANGED <<now, chain, pending, delivery, evaluation, view, shown, receipt>>
    BY <1>20 DEF DecisionRefused, Goes, store, poll
  <2>2. /\ call' \in [Pages -> [kind : Kind \cup {None}, arg : Finding]]
        /\ \A q \in Pages \ {p} : call'[q] = call[q]
    BY <1>0, <2>1
  <2>3. p \in Pages /\ receipt[p] = None /\ "idle" \in Step \ {"confirming"}
    BY <1>0, <2>1 DEF IInv, ReceiptsMatch, Step
  <2> QED BY <1>0, <1>1, <2>1, <2>2, <2>3, TurnInv
<1>21. ASSUME NEW p \in OutcomePages, CallConfirmed(p) PROVE IInv'
  <2>1. /\ step[p] = "confirming" /\ step' = [step EXCEPT ![p] = "refreshing"]
        /\ receipt[p] = "success" /\ receipt' = [receipt EXCEPT ![p] = None]
        /\ call' = [call EXCEPT ![p] = NoCall]
        /\ UNCHANGED <<now, chain, pending, delivery, evaluation, view, shown>>
    BY <1>21 DEF CallConfirmed, Goes, store, poll
  <2>2. /\ call' \in [Pages -> [kind : Kind \cup {None}, arg : Finding]]
        /\ \A q \in Pages \ {p} : call'[q] = call[q]
    BY <1>0, <2>1
  <2>3. p \in Pages /\ receipt'[p] = None /\ "refreshing" \in Step \ {"confirming"}
    BY <1>0, <2>1 DEF Step
  <2> QED BY <1>0, <1>1, <2>1, <2>2, <2>3, TurnInv
<1>22. CASE Progress
  BY <1>0, <1>22, <1>3, <1>4, <1>6, <1>7, <1>8, <1>9, <1>12, <1>13, <1>14, <1>15, <1>16, <1>18,
     <1>19, <1>20, <1>21
     DEF Progress, AnyMined, DeliverStep, OutcomeStep, Presses, DecisionAnswered, ReceiptArrives
<1>23. CASE Failure
  BY <1>23, <1>5, <1>9, <1>10, <1>11, <1>16, <1>17 DEF Failure
<1> QED BY <1>2, <1>22, <1>23 DEF Next

\* Whatever fails, and whatever is mined behind a page's back, a page waits for
\* one transaction at most and no receipt comes that it does not wait for.
THEOREM PagesTyped == Spec => []TypeOK
<1>1. IInv => TypeOK
  BY DEF IInv
<1> QED BY <1>1, PagesInit, PagesNext, PTL DEF Spec

\* A deliver form that has got to its end (deliver-form.tsx) tells the truth
\* for ever: the job is delivered, can no longer be cancelled, and the server
\* has a text.
THEOREM DoneForGood == Spec => []DoneIsSafe
<1>1. IInv => DoneIsSafe
  BY DEF IInv
<1> QED BY <1>1, PagesInit, PagesNext, PTL DEF Spec

\* What the pages' transactions do to the job, late or given up on as they may
\* be, is what the contract does to a job (JobsSeenRight in
\* AgentWorkEscrow_proofs): a page never settles without a verdict, nor delivers
\* without a text.
LEMMA ChainStep ==
    ASSUME chain \in Job, NEW c \in Kind, NEW a \in Finding, Accepts(c, a), Sendable(c, a),
           chain' = After(c, a)
    PROVE  Contract!Next
<1>1. /\ chain.status \in Status /\ chain.verdict \in Verdict \cup {None}
      /\ chain.deliveryHash \in Texts \cup {None}
  BY DEF Job
<1>2. CASE c = "deliver"
  <2>1. Contract!Deliver(a.deliveryHash) /\ a.deliveryHash \in Texts
    BY <1>1, <1>2 DEF Accepts, Deliverable, After, Sendable, Contract!Deliver, Job
  <2> QED BY <2>1 DEF Contract!Next
<1>3. CASE c = "settle"
  <2>1. Contract!Settle(a.verdict) /\ a.verdict \in Verdict
    BY <1>1, <1>3 DEF Accepts, Awaits, After, Sendable, Contract!Settle, Job
  <2> QED BY <2>1 DEF Contract!Next
<1>4. CASE c \in {"release", "refund"}
  <2>1. Contract!Resolve
    BY <1>1, <1>4 DEF Accepts, CautionOpen, After, Contract!Resolve, Job
  <2> QED BY <2>1 DEF Contract!Next
<1>5. CASE c = "cancel"
  <2>1. Contract!Cancel
    BY <1>1, <1>5 DEF Accepts, After, Contract!Cancel, Job
  <2> QED BY <2>1 DEF Contract!Next
<1> QED BY <1>2, <1>3, <1>4, <1>5 DEF Kind

THEOREM PagesKeepContract == Spec => Contract!Spec
<1>1. Init => Contract!Init
  BY DEF Init, Contract!Init
<1>2. IInv /\ [Next]_vars => [Contract!Next]_Contract!jobVars
  <2> SUFFICES ASSUME IInv, [Next]_vars PROVE Contract!Next \/ UNCHANGED chain
    BY DEF Contract!jobVars
  <2>1. chain \in Job
    BY DEF IInv, TypeOK
  <2>2. ASSUME NEW tx \in pending, Mined(tx) PROVE Contract!Next \/ UNCHANGED chain
    <3>1. tx.kind \in Kind /\ tx.arg \in Finding /\ Sendable(tx.kind, tx.arg)
      BY DEF IInv, TypeOK, SendsKnown
    <3> QED BY <2>1, <2>2, <3>1, ChainStep DEF Mined
  <2>3. ASSUME NEW d \in Texts, DeliverElsewhere(d) PROVE Contract!Next
    <3> DEFINE a == [deliveryHash |-> d, verdict |-> None]
    <3>1. a \in Finding /\ Sendable("deliver", a)
      BY DEF Finding, Sendable
    <3>2. Accepts("deliver", a) /\ chain' = After("deliver", a)
      BY <2>3 DEF DeliverElsewhere
    <3> HIDE DEF a
    <3> QED BY <2>1, <3>1, <3>2, ChainStep DEF Kind
  <2>4. Progress => \/ \E tx \in pending : Mined(tx)
                    \/ \E d \in Texts : DeliverElsewhere(d)
                    \/ UNCHANGED chain
    BY DEF Progress, Tick, Evaluate, AnyMined, UploadElsewhere, WalletSends, DeliverStep,
           SeesStatus, Submit, DeliveryConfirmed, ReceiptReverted, LetsGo, Uploads,
           OutcomeStep, Poll, Answered, Presses, Press, DecisionAnswered, DecisionFetched,
           DecisionRefused, ReceiptArrives, CallConfirmed
  <2>5. Failure => UNCHANGED chain
    BY DEF Failure, PollHealsNot, Answered, PollFails, UploadAnswerLost, CallFails, Reload,
           LetsGo, NotMined
  <2> QED BY <2>2, <2>3, <2>4, <2>5 DEF Next, vars
<1> QED BY <1>1, <1>2, PagesInit, PagesNext, PTL DEF Spec, Contract!Spec

\* What an outcome page offers (settle-actions.tsx) when it is up to date, and
\* what the escrow accepts, are the same but for the two cases named.
THEOREM OffersAreSound == Spec => []OffersFitContract
<1>1. IInv => OffersFitContract
  <2> SUFFICES ASSUME IInv, NEW p \in OutcomePages,
                      view[p] = [job |-> ShownJob, evaluated |-> evaluation # NoFinding]
               PROVE  /\ \A c \in Offers(p) :
                            \/ Accepts(c, evaluation)
                            \/ c = "cancel" /\ now = Deadline
                            \/ c = "settle" /\ evaluation.deliveryHash # chain.deliveryHash
                      /\ Accepts("settle", evaluation) => "settle" \in Offers(p)
                      /\ p \in BuyerPages =>
                            \A c \in {"release", "refund", "cancel"} :
                               Accepts(c, evaluation) => c \in Offers(p)
    BY DEF OffersFitContract
  <2>1. /\ view[p].job.status = chain.status /\ view[p].job.verdict = chain.verdict
        /\ view[p].evaluated = (evaluation # NoFinding)
    BY DEF ShownJob
  <2>2. now \in Nat /\ Deadline \in Nat
    BY BoundAssumption DEF IInv, TypeOK
  <2>3. ASSUME NEW c \in Offers(p)
        PROVE  \/ Accepts(c, evaluation)
               \/ c = "cancel" /\ now = Deadline
               \/ c = "settle" /\ evaluation.deliveryHash # chain.deliveryHash
    <3>1. CASE c = "settle"
      BY <2>1, <2>3, <3>1 DEF Offers, AwaitingSettlement, Awaits, Accepts
    <3>2. CASE c \in {"release", "refund"}
      BY <2>1, <2>3, <3>2 DEF Offers, CautionOpen, Accepts
    <3>3. CASE c = "cancel"
      BY <2>1, <2>2, <2>3, <3>3 DEF Offers, Cancellable, Expired, Accepts
    <3>4. c \in {"settle", "release", "refund", "cancel"}
      BY <2>3 DEF Offers
    <3> QED BY <3>1, <3>2, <3>3, <3>4
  <2>4. ASSUME Accepts("settle", evaluation) PROVE "settle" \in Offers(p)
    <3>1. Awaits(chain) /\ evaluation.deliveryHash \in Texts
      BY <2>4 DEF Accepts, Awaits, IInv, HashKnown
    <3>2. evaluation # NoFinding
      BY <3>1, NoneAssumption DEF NoFinding
    <3> QED BY <2>1, <3>1, <3>2 DEF Offers, AwaitingSettlement, Awaits, Kind
  <2>5. ASSUME p \in BuyerPages, NEW c \in {"release", "refund", "cancel"}, Accepts(c, evaluation)
        PROVE  c \in Offers(p)
    <3>1. CASE c \in {"release", "refund"}
      BY <2>1, <2>5, <3>1 DEF Offers, CautionOpen, Accepts, Kind
    <3>2. CASE c = "cancel"
      BY <2>1, <2>2, <2>5, <3>2 DEF Offers, Cancellable, Expired, Accepts, Kind
    <3> QED BY <3>1, <3>2
  <2> QED BY <2>3, <2>4, <2>5
<1> QED BY <1>1, PagesInit, PagesNext, PTL DEF Spec

-----------------------------------------------------------------------------
(***************************************************************************)
(* Deployment.  The check and the health answer are about the state as it  *)
(* is, whatever the order of steps that led to it; of the past they need   *)
(* only that every escrow trusts a key (DTypeOK): an unset key would match *)
(* an unset signer.                                                        *)
(***************************************************************************)

LEMMA DeploymentInitTyped == DInit => DTypeOK
<1> SUFFICES ASSUME DInit PROVE DTypeOK
  OBVIOUS
<1>1. env \in Env
  BY DeploymentAssumption DEF DInit, Template, Env
<1>2. deployed \in [Chains -> Seq(Keys)] /\ \A c \in Chains : Len(deployed[c]) = 0
  BY DEF DInit
<1>3. server \in [rpc : Chains, chain : Chains, key : Keys \cup {Unset},
                  escrow : Address \cup {Unset}]
      /\ browser \in [chain : Chains, escrow : Address \cup {Unset}]
  BY DeploymentAssumption DEF DInit, Template, Loaded, Built
<1> QED
  BY <1>1, <1>2, <1>3, DeploymentAssumption DEF DTypeOK

\* Where the deploy script has what it needs, it deploys with a key.
LEMMA SignerIsKey ==
    ASSUME env \in Env, env.key # Unset \/ env.signer # Unset
    PROVE  VerifierSigner \in Keys
BY DEF VerifierSigner, Env

LEMMA DeploymentNextTyped == DTypeOK /\ [DNext]_dvars => DTypeOK'
<1> SUFFICES ASSUME DTypeOK, [DNext]_dvars PROVE DTypeOK'
  OBVIOUS
<1>1. CASE Edit
  BY <1>1 DEF Edit, DTypeOK
<1>2. CASE Deploy
  <2>1. env.rpc \in Chains /\ VerifierSigner \in Keys
    BY <1>2, SignerIsKey DEF Deploy, DTypeOK, Env
  <2>2. deployed[env.rpc] \in Seq(Keys)
    BY <2>1 DEF DTypeOK
  <2>3. Append(deployed[env.rpc], VerifierSigner) \in Seq(Keys)
        /\ Len(Append(deployed[env.rpc], VerifierSigner)) <= MaxDeploys
    <3>1. Len(deployed[env.rpc]) < MaxDeploys
      BY <1>2 DEF Deploy
    <3>2. Len(Append(deployed[env.rpc], VerifierSigner)) = Len(deployed[env.rpc]) + 1
      BY <2>1, <2>2
    <3> QED
      BY <2>1, <2>2, <3>1, <3>2, DeploymentAssumption
  <2>4. deployed' = [deployed EXCEPT ![env.rpc] = Append(@, VerifierSigner)]
        /\ UNCHANGED <<env, server, browser>>
    BY <1>2 DEF Deploy
  <2>5. deployed' \in [Chains -> Seq(Keys)] /\ \A c \in Chains : Len(deployed'[c]) <= MaxDeploys
    BY <2>1, <2>3, <2>4 DEF DTypeOK
  <2> QED
    BY <2>4, <2>5 DEF DTypeOK
<1>3. CASE StartServer
  BY <1>3 DEF StartServer, Loaded, DTypeOK, Env
<1>4. CASE Build
  BY <1>4 DEF Build, Built, DTypeOK, Env
<1>5. ASSUME NEW c \in Chains, NEW a \in Address, NEW k \in Keys, Rotate(c, a, k)
      PROVE  DTypeOK'
  <2>1. deployed[c] \in Seq(Keys) /\ a \in 1..Len(deployed[c])
    BY <1>5 DEF Rotate, Exists, DTypeOK, Address
  <2>2. [deployed[c] EXCEPT ![a] = k] \in Seq(Keys)
        /\ Len([deployed[c] EXCEPT ![a] = k]) = Len(deployed[c])
    BY <1>5, <2>1
  <2>3. deployed' = [deployed EXCEPT ![c] = [deployed[c] EXCEPT ![a] = k]]
        /\ UNCHANGED <<env, server, browser>>
    BY <1>5 DEF Rotate, DTypeOK
  <2>4. deployed' \in [Chains -> Seq(Keys)] /\ \A d \in Chains : Len(deployed'[d]) <= MaxDeploys
    BY <1>5, <2>1, <2>2, <2>3 DEF DTypeOK
  <2> QED
    BY <2>3, <2>4 DEF DTypeOK
<1>6. CASE UNCHANGED dvars
  BY <1>6 DEF dvars, DTypeOK
<1> QED
  BY <1>1, <1>2, <1>3, <1>4, <1>5, <1>6 DEF DNext

\* Whatever is edited, deployed, rotated, started and built, in any order, every
\* escrow on every chain trusts a key.
THEOREM DeploymentTypes == DSpec => []DTypeOK
BY DeploymentInitTyped, DeploymentNextTyped, PTL DEF DSpec

\* docs/deployment.md:131: when chain:verify passes on the environment that the
\* server and the browser run with, key and escrow included, decisions settle.
THEOREM Certified == DSpec => []CertifiedSettles
<1>1. DTypeOK => CertifiedSettles
  <2> SUFFICES ASSUME DTypeOK, VerifyPasses, env.key # Unset, env.escrow # Unset,
                      server = Loaded(env), browser = Built(env)
               PROVE  Settles
    BY DEF CertifiedSettles
  <2>1. /\ server.rpc = env.rpc /\ server.chain = env.chain
        /\ server.key = env.key /\ server.escrow = env.escrow
        /\ browser.chain = env.publicChain /\ browser.escrow = env.publicEscrow
    BY DEF Loaded, Built
  <2>2. /\ env.rpc = env.chain /\ env.chain = env.publicChain
        /\ env.escrow = env.publicEscrow
        /\ Exists(env.rpc, env.escrow) /\ env.key = deployed[env.rpc][env.escrow]
    BY DEF VerifyPasses, ChainMatches, EscrowMatches, MirrorsMatch
  <2> QED
    BY <2>1, <2>2 DEF Settles, AcceptsFrom
<1> QED
  BY <1>1, DeploymentTypes, PTL

\* docs/deployment.md:152: GET /api/health does not call a deployment broken that
\* settles, and calls one sound that does not only if a chain id or a mirror is
\* off.
THEOREM HealthIsRight == DSpec => []HealthTells
<1>1. DTypeOK => HealthTells
  <2> SUFFICES ASSUME DTypeOK PROVE HealthTells
    OBVIOUS
  <2>1. ASSUME Settles PROVE Health = TRUE
    <3>1. /\ server.rpc = browser.chain /\ server.escrow = browser.escrow
          /\ Exists(server.rpc, server.escrow)
          /\ server.key = deployed[server.rpc][server.escrow]
      BY <2>1 DEF Settles, AcceptsFrom
    <3>2. server.rpc \in Chains /\ deployed[server.rpc] \in Seq(Keys)
          /\ server.escrow \in 1..Len(deployed[server.rpc])
      BY <3>1 DEF DTypeOK, Exists, Address
    <3>3. server.key \in Keys
      BY <3>1, <3>2
    <3>4. server.key # Unset /\ Matches(server)
      BY <3>1, <3>3, DeploymentAssumption DEF Matches
    <3> QED
      BY <3>1, <3>4 DEF Health
  <2>2. ASSUME Health = TRUE, server.chain = server.rpc,
               browser = [chain |-> server.chain, escrow |-> server.escrow]
        PROVE  Settles
    <3>1. browser.chain = server.rpc /\ browser.escrow = server.escrow
      BY <2>2
    <3>2. server.key # Unset /\ Exists(server.rpc, server.escrow) /\ Matches(server)
      <4>1. Unset # TRUE
        BY DeploymentAssumption
      <4> QED
        BY <2>2, <4>1 DEF Health
    <3> QED
      BY <2>2, <3>1, <3>2 DEF Settles, AcceptsFrom, Matches
  <2> QED
    BY <2>1, <2>2 DEF HealthTells
<1> QED
  BY <1>1, DeploymentTypes, PTL
=============================================================================

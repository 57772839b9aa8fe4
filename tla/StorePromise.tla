---------------------------- MODULE StorePromise ----------------------------
(***************************************************************************)
(* What the handlers take the Store of lib/store/types.ts to be: a call    *)
(* takes effect at one instant between its start and its answer, and       *)
(* answers what was there at that instant; one that fails took effect so,  *)
(* or not at all, or does so later.  A job's row is merged by columns, an  *)
(* evaluation's or a watermark's is replaced.                              *)
(***************************************************************************)
CONSTANTS
    Calls,      \* calls in flight, one slot each
    Keys,       \* (chain, contract, job) or (chain, contract)
    Values,     \* what a column or a row may hold
    None        \* null

Column == {"brief", "delivery", "createdTx"}
JobRow == [Column -> Values \cup {None}]
NoRow == [c \in Column |-> None]

\* What the application asks for: putJob comes from POST /api/jobs and has no
\* delivery, updateJob from POST /api/jobs/:jobId/delivery and has nothing else.
Request ==
    [op : {"getJob", "getOther"}, key : Keys, value : {None}, tx : {None}]
        \cup [op : {"putJob"}, key : Keys, value : Values, tx : Values \cup {None}]
        \cup [op : {"updateJob", "putOther"}, key : Keys, value : Values, tx : {None}]

VARIABLES
    jobs,       \* the rows of jobs; NoRow where there is none
    others,     \* the rows of evaluations and watermarks
    calls,      \* calls[c]: step, request and answer
    late        \* requests of failed calls that may still take effect

vars == <<jobs, others, calls, late>>

Idle == [step |-> "idle", request |-> None, answer |-> None]

Init ==
    /\ jobs = [k \in Keys |-> NoRow]
    /\ others = [k \in Keys |-> None]
    /\ calls = [c \in Calls |-> Idle]
    /\ late = {}

-----------------------------------------------------------------------------
(* What a request does to the rows, and is answered.                       *)

JobAfter(row, r) ==
    CASE r.op = "putJob" ->
            [row EXCEPT !["brief"] = r.value,
                        !["createdTx"] = IF r.tx = None THEN @ ELSE r.tx]
      [] r.op = "updateJob" /\ row # NoRow -> [row EXCEPT !["delivery"] = r.value]
      [] OTHER -> row

OtherAfter(row, r) == IF r.op = "putOther" THEN r.value ELSE row

Applied(r) ==
    /\ jobs' = [jobs EXCEPT ![r.key] = JobAfter(@, r)]
    /\ others' = [others EXCEPT ![r.key] = OtherAfter(@, r)]

\* Once it is applied.
Answer(r, rows, other) ==
    CASE r.op \in {"getJob", "updateJob"} -> rows[r.key]
      [] r.op = "getOther" -> other[r.key]
      [] OTHER -> None

-----------------------------------------------------------------------------
Ask(c, r) ==
    /\ calls[c].step \in {"idle", "answered", "failed"}
    /\ calls' = [calls EXCEPT ![c] = [step |-> "asked", request |-> r, answer |-> None]]
    /\ UNCHANGED <<jobs, others, late>>

Apply(c) ==
    LET r == calls[c].request IN
    /\ calls[c].step = "asked"
    /\ Applied(r)
    /\ calls' = [calls EXCEPT ![c].step = "applied", ![c].answer = Answer(r, jobs', others')]
    /\ UNCHANGED late

Return(c) ==
    /\ calls[c].step = "applied"
    /\ calls' = [calls EXCEPT ![c] = [Idle EXCEPT !.step = "answered"]]
    /\ UNCHANGED <<jobs, others, late>>

\* Several calls at once, as when a process dies.
Fail(C) ==
    /\ \A c \in C : calls[c].step \in {"asked", "applied"}
    /\ calls' = [c \in Calls |-> IF c \in C THEN [Idle EXCEPT !.step = "failed"] ELSE calls[c]]
    /\ late' \in SUBSET (late \cup {calls[c].request : c \in {d \in C : calls[d].step = "asked"}})
    /\ UNCHANGED <<jobs, others>>

ApplyLate(r) ==
    /\ r \in late
    /\ Applied(r)
    /\ late' = late \ {r}
    /\ UNCHANGED calls

Next ==
    \/ \E c \in Calls, r \in Request : Ask(c, r)
    \/ \E c \in Calls : Apply(c) \/ Return(c)
    \/ \E C \in SUBSET Calls : Fail(C)
    \/ \E r \in late : ApplyLate(r)

Spec == Init /\ [][Next]_vars
=============================================================================

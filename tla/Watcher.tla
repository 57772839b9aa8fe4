------------------------------ MODULE Watcher ------------------------------
(***************************************************************************)
(* The sweep of DeliverySubmitted logs, apps/web/src/lib/watcher.ts, driven *)
(* through /api/cron/tick by a scheduler or by scripts/watch-chain.ts.     *)
(*                                                                         *)
(* One action per await of tickWatcher.  Ticks may overlap: watch-chain    *)
(* abandons a request that takes too long, and the server goes on with it. *)
(* A tick may end at any await: the RPC node or the store throws, the host *)
(* kills the function.                                                     *)
(*                                                                         *)
(* The chain is the sets of jobs whose DeliverySubmitted each block holds; *)
(* it grows, and a reorganisation replaces the blocks that are no deeper   *)
(* than ReorgBuffer.  evaluateJob is one step here, see EvaluationService; *)
(* jobs that leave the delivered status are left out.                      *)
(***************************************************************************)
EXTENDS Integers

CONSTANTS
    Jobs,         \* job ids
    Contents,     \* what a block may hold: sets of jobs
    Uploads,      \* bound: the jobs whose text is ever uploaded
    Ticks,        \* ticks in flight, one slot each
    MayFail,      \* bound: whether an evaluation may fail
    Pollers,      \* the slots whose ticks come again and again
    None,         \* no watermark yet
    ReorgBuffer,  \* REORG_BUFFER
    MaxRange,     \* MAX_RANGE
    MaxHead       \* bound: the last block mined

ASSUME SlotAssumption == Pollers \subseteq Ticks
ASSUME ContentAssumption == Contents \subseteq SUBSET Jobs /\ {} \in Contents
ASSUME FailureAssumption == MayFail \in BOOLEAN
ASSUME RangeAssumption ==
    /\ ReorgBuffer \in Nat /\ MaxRange \in Nat /\ MaxHead \in Nat
    /\ ReorgBuffer < MaxRange
ASSUME NoneAssumption == None \notin Nat

VARIABLES
    head,       \* the number of the latest block
    log,        \* log[b]: the jobs delivered in block b
    stored,     \* jobs whose current text is in the store
    judged,     \* jobs with a stored verdict on their current delivery
    watermark,  \* the watermark, in the store
    ticks,      \* ticks[t]: where the tick is and what it has read; found, the
                \* block of each job it has to do, is a history
    tried,      \* history: <<b, j>> for which a tick has called evaluateJob
    origin      \* history: the first block a cold start has ever looked at

world == <<head, log, stored, judged>>
vars == <<world, watermark, ticks, tried, origin>>

Block == 0..MaxHead

Idle == [step |-> "idle", head |-> 0, from |-> 0, to |-> 0, found |-> {}, todo |-> {}]

Init ==
    /\ head = 0
    /\ log = [b \in Block |-> {}]
    /\ stored = {}
    /\ judged = {}
    /\ watermark = None
    /\ ticks = [t \in Ticks |-> Idle]
    /\ tried = {}
    /\ origin = 0

-----------------------------------------------------------------------------
(* Faulty variants, used by the mutants of PROJECT.json only.              *)

\* A range that is not capped at the head.
BeyondHead(from, h) == from + MaxRange

\* No rewind.
NoRewind(start) == start

\* An evaluateJob that throws ends the tick.
FailureEndsTick(tick, j) == Idle

-----------------------------------------------------------------------------
(* The chain and the other ways to a verdict.                              *)

Delivered(j) == \E b \in Block : j \in log[b]

\* A re-delivery leaves the job with neither the text nor a verdict on it.
Mine(content) ==
    /\ head < MaxHead
    /\ head' = head + 1
    /\ log' = [log EXCEPT ![head + 1] = content]
    /\ stored' = stored \ content
    /\ judged' = judged \ content
    /\ UNCHANGED <<watermark, ticks, tried, origin>>

\* A shallow reorganisation replaces the blocks from k on: deliveries move,
\* appear and disappear.  What was found and tried there counts no more; the
\* tick, which keeps job ids only, does not notice.
Below(pairs, k) == {p \in pairs : p[1] < k}

Reorganise(k) ==
    /\ k \in Block /\ k <= head /\ head <= k + ReorgBuffer
    /\ \E new \in [k..head -> Contents] :
            log' = [b \in Block |-> IF b \in k..head THEN new[b] ELSE log[b]]
    /\ tried' = Below(tried, k)
    /\ ticks' = [t \in Ticks |-> [ticks[t] EXCEPT !.found = Below(@, k)]]
    /\ UNCHANGED <<head, stored, judged, watermark, origin>>

Upload(j) ==
    /\ j \in Uploads /\ Delivered(j) /\ j \notin stored
    /\ stored' = stored \cup {j}
    /\ UNCHANGED <<head, log, judged, watermark, ticks, tried, origin>>

Judgeable(j) == Delivered(j) /\ j \in stored

\* The background evaluation of an upload, or a page's: it may never land.
OtherwiseJudged(j) ==
    /\ Judgeable(j) /\ j \notin judged
    /\ judged' = judged \cup {j}
    /\ UNCHANGED <<head, log, stored, watermark, ticks, tried, origin>>

-----------------------------------------------------------------------------
(* tickWatcher.                                                            *)

At(t, step) == ticks[t].step = step

\* getBlockNumber.
TickReadsHead(t) ==
    /\ At(t, "idle")
    /\ ticks' = [ticks EXCEPT ![t] = [Idle EXCEPT !.step = "watermark", !.head = head]]
    /\ UNCHANGED <<world, watermark, tried, origin>>

\* A cold start looks back one range.
Start(h) == IF watermark # None THEN watermark ELSE IF h > MaxRange THEN h - MaxRange ELSE 0

Rewind(start) == IF start > ReorgBuffer THEN start - ReorgBuffer ELSE 0

RangeEnd(from, h) == IF from + MaxRange < h THEN from + MaxRange ELSE h

\* getWatermark, and the range of this tick.
TickReadsWatermark(t) ==
    LET from == Rewind(Start(ticks[t].head)) IN
    /\ At(t, "watermark")
    /\ ticks' = [ticks EXCEPT ![t].step = "logs", ![t].from = from,
                              ![t].to = RangeEnd(from, ticks[t].head)]
    /\ origin' = IF watermark = None /\ from > origin THEN from ELSE origin
    /\ UNCHANGED <<world, watermark, tried>>

LogsIn(from, to) == {p \in Block \X Jobs : from <= p[1] /\ p[1] <= to /\ p[2] \in log[p[1]]}

\* getLogs; job ids are deduplicated.
TickFetches(t) ==
    LET found == LogsIn(ticks[t].from, ticks[t].to) IN
    /\ At(t, "logs")
    /\ ticks' = [ticks EXCEPT ![t].step = "sweep", ![t].found = found,
                              ![t].todo = {p[2] : p \in found}]
    /\ UNCHANGED <<world, watermark, tried, origin>>

Handled(tick, j) == [tick EXCEPT !.todo = @ \ {j}]

\* A failure is caught and noted.
Caught(tick, j) == [tick EXCEPT !.todo = @ \ {j}]

Tries(t, j) ==
    /\ At(t, "sweep") /\ j \in ticks[t].todo
    /\ tried' = tried \cup {p \in ticks[t].found : p[2] = j}

\* evaluateJob returns: it stores a verdict, or skips the job if its text is
\* not there or judged already.
TickEvaluates(t, j) ==
    /\ Tries(t, j)
    /\ judged' = IF Judgeable(j) THEN judged \cup {j} ELSE judged
    /\ ticks' = [ticks EXCEPT ![t] = Handled(ticks[t], j)]
    /\ UNCHANGED <<head, log, stored, watermark, origin>>

\* evaluateJob throws, or skips because readJob has swallowed an error.
TickFails(t, j) ==
    /\ MayFail
    /\ Tries(t, j)
    /\ ticks' = [ticks EXCEPT ![t] = Caught(ticks[t], j)]
    /\ UNCHANGED <<world, watermark, origin>>

Reached(tick) == tick.to

\* setWatermark, unconditionally.
TickStores(t) ==
    /\ At(t, "sweep") /\ ticks[t].todo = {}
    /\ watermark' = Reached(ticks[t])
    /\ ticks' = [ticks EXCEPT ![t] = Idle]
    /\ UNCHANGED <<world, tried, origin>>

Abort(t) ==
    /\ ~At(t, "idle")
    /\ ticks' = [ticks EXCEPT ![t] = Idle]
    /\ UNCHANGED <<world, watermark, tried, origin>>

-----------------------------------------------------------------------------
World ==
    \/ \E content \in Contents : Mine(content)
    \/ \E k \in Block : Reorganise(k)
    \/ \E j \in Jobs : Upload(j) \/ OtherwiseJudged(j)

TickStep(t) ==
    \/ TickReadsHead(t) \/ TickReadsWatermark(t) \/ TickFetches(t)
    \/ \E j \in Jobs : TickEvaluates(t, j) \/ TickFails(t, j)
    \/ TickStores(t)

Next == World \/ \E t \in Ticks : TickStep(t) \/ Abort(t)

Spec == Init /\ [][Next]_vars

\* watch-chain.ts polls for ever, whatever a tick throws; from some time on
\* the server is not stopped in the middle of a tick, and the chain settles.
PollFairness ==
    /\ \A t \in Pollers : WF_vars(TickStep(t)) /\ <>[][Abort(t) => TickStep(t)]_vars
    /\ <>[][~\E k \in Block : Reorganise(k)]_vars

PolledSpec == Spec /\ PollFairness

-----------------------------------------------------------------------------
(* Properties.                                                             *)

\* Types.
Found == SUBSET (Block \X Jobs)

Tick == [step : {"idle", "watermark", "logs", "sweep"}, head : Block, from : Block,
         to : Block, found : Found, todo : SUBSET Jobs]

TypeOK ==
    /\ head \in Block
    /\ log \in [Block -> SUBSET Jobs]
    /\ stored \in SUBSET Jobs
    /\ judged \in SUBSET Jobs
    /\ watermark \in Block \cup {None}
    /\ ticks \in [Ticks -> Tick]
    /\ tried \in Found
    /\ origin \in Block

\* Every delivery on the canonical chain between the first cold start and the
\* rewound watermark has been tried in the block it is in: neither overlapping
\* ticks nor a reorganisation let a delivery slip behind the watermark.
NothingSlipsBehind ==
    watermark # None =>
        \A b \in Block, j \in Jobs :
            j \in log[b] /\ origin <= b /\ b + ReorgBuffer < watermark => <<b, j>> \in tried

\* A delivery is tried, in the end, in the block that holds it, whatever
\* reorganisations do meanwhile and whatever evaluations fail: one bad job does
\* not stall the sweep.  With its text in the store and no failure that is its
\* verdict.
EveryDeliveryTried ==
    \A b \in Block, j \in Jobs :
        j \in log[b] /\ origin <= b ~> <<b, j>> \in tried \/ j \notin log[b] \/ b < origin

=============================================================================

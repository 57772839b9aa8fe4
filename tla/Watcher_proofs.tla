--------------------------- MODULE Watcher_proofs ---------------------------
(* Nothing slips behind the watermark, for any chain, any number of         *)
(* overlapping ticks, any range and rewind.                                 *)
EXTENDS Watcher, TLAPS

\* The deliveries of chain l in block b that concern the sweep are in tr.
TriedIn(b, l, tr, o) == o <= b => \A j \in Jobs : j \in l[b] => <<b, j>> \in tr

\* Everything behind watermark w is tried.
BehindTried(w, l, tr, o) == \A b \in Block : b + ReorgBuffer < w => TriedIn(b, l, tr, o)

\* What a tick relies on, with the head at h: before getLogs, that its range
\* starts where nothing is left to try before it, beyond the reach of a
\* reorganisation; afterwards, that what it will leave behind the watermark is
\* tried or on its list.
Keeps(tick, h, l, tr, o) ==
    /\ tick.step # "idle" => tick.head <= h
    /\ tick.step \in {"logs", "sweep"} => tick.to <= h
    /\ tick.step = "logs" =>
        /\ tick.from = 0 \/ tick.from + ReorgBuffer <= h
        /\ \A b \in Block : b < tick.from => TriedIn(b, l, tr, o)
    /\ tick.step = "sweep" =>
        \A b \in Block, j \in Jobs :
            j \in l[b] /\ o <= b /\ b + ReorgBuffer < tick.to =>
                <<b, j>> \in tr \/ (<<b, j>> \in tick.found /\ j \in tick.todo)

TicksKeep == \A t \in Ticks : Keeps(ticks[t], head, log, tried, origin)

IInv ==
    /\ TypeOK
    /\ watermark # None => watermark <= head /\ BehindTried(watermark, log, tried, origin)
    /\ TicksKeep

-----------------------------------------------------------------------------
(* Types.                                                                  *)

\* An idle slot.
LEMMA IdleTick == Idle \in Tick
<1>1. 0 \in Block
  BY RangeAssumption DEF Block
<1> QED
  BY <1>1 DEF Idle, Tick, Found

\* The range a tick computes from a watermark and a head lies in the chain.
LEMMA RangeInChain ==
    ASSUME watermark \in Block \cup {None}, NEW h \in Block
    PROVE  LET from == Rewind(Start(h)) IN
           /\ from \in Block /\ RangeEnd(from, h) \in Block
           /\ RangeEnd(from, h) <= h
           /\ from = 0 \/ from + ReorgBuffer = Start(h)
           /\ Start(h) \in Block
<1>1. Start(h) \in Block
  <2>1. CASE watermark # None
    BY <2>1 DEF Start
  <2>2. CASE watermark = None
    BY <2>2, RangeAssumption DEF Start, Block
  <2> QED
    BY <2>1, <2>2
<1>2. Rewind(Start(h)) \in Block
      /\ (Rewind(Start(h)) = 0 \/ Rewind(Start(h)) + ReorgBuffer = Start(h))
  BY <1>1, RangeAssumption DEF Rewind, Block
<1>3. RangeEnd(Rewind(Start(h)), h) \in Block /\ RangeEnd(Rewind(Start(h)), h) <= h
  BY <1>2, RangeAssumption DEF RangeEnd, Block
<1> QED
  BY <1>1, <1>2, <1>3

\* What getLogs finds are pairs of the chain's blocks and jobs.
LEMMA LogTypes ==
    ASSUME NEW from, NEW to
    PROVE  LogsIn(from, to) \in Found /\ {p[2] : p \in LogsIn(from, to)} \in SUBSET Jobs
  BY DEF LogsIn, Found

\* Every step keeps the types.
LEMMA TypesKept == TypeOK /\ [Next]_vars => TypeOK'
<1> SUFFICES ASSUME TypeOK, [Next]_vars PROVE TypeOK'
  OBVIOUS
<1>0. head \in Block /\ MaxHead \in Nat
  BY RangeAssumption DEF TypeOK
<1>1. ASSUME NEW content \in Contents, Mine(content) PROVE TypeOK'
  <2>1. head + 1 \in Block /\ content \subseteq Jobs
    BY <1>0, <1>1, ContentAssumption DEF Mine, Block
  <2> QED
    BY <1>1, <2>1 DEF TypeOK, Mine
<1>2. ASSUME NEW k \in Block, Reorganise(k) PROVE TypeOK'
  <2>1. log' \in [Block -> SUBSET Jobs]
    <3>1. PICK new \in [k..head -> Contents] :
             log' = [b \in Block |-> IF b \in k..head THEN new[b] ELSE log[b]]
      BY <1>2 DEF Reorganise
    <3>2. \A b \in k..head : new[b] \subseteq Jobs
      BY ContentAssumption
    <3> QED
      BY <3>1, <3>2 DEF TypeOK
  <2>2. tried' \in Found
    BY <1>2 DEF Reorganise, TypeOK, Found, Below
  <2>3. ticks' \in [Ticks -> Tick]
    <3>1. \A t \in Ticks : ticks[t] \in Tick /\ Below(ticks[t].found, k) \in Found
      BY DEF TypeOK, Tick, Found, Below
    <3>2. \A t \in Ticks : [ticks[t] EXCEPT !.found = Below(@, k)] \in Tick
      BY <3>1 DEF Tick
    <3> QED
      BY <1>2, <3>2 DEF Reorganise
  <2> QED
    BY <1>2, <2>1, <2>2, <2>3 DEF Reorganise, TypeOK
<1>3. ASSUME NEW j \in Jobs, Upload(j) \/ OtherwiseJudged(j) PROVE TypeOK'
  BY <1>3 DEF Upload, OtherwiseJudged, TypeOK
<1>4. ASSUME NEW t \in Ticks, TickReadsHead(t) PROVE TypeOK'
  <2>1. [Idle EXCEPT !.step = "watermark", !.head = head] \in Tick
    BY <1>0, IdleTick DEF Tick
  <2> QED
    BY <1>4, <2>1 DEF TickReadsHead, TypeOK, world
<1>5. ASSUME NEW t \in Ticks, TickReadsWatermark(t) PROVE TypeOK'
  <2> DEFINE from == Rewind(Start(ticks[t].head))
             to == RangeEnd(from, ticks[t].head)
             new == [ticks[t] EXCEPT !.step = "logs", !.from = from, !.to = to]
  <2>1. ticks[t] \in Tick /\ ticks[t].head \in Block
    BY DEF TypeOK, Tick
  <2>2. from \in Block /\ to \in Block
    BY <2>1, RangeInChain DEF TypeOK
  <2>3. ticks' = [ticks EXCEPT ![t] = new]
    BY <1>5 DEF TickReadsWatermark
  <2>4. origin' \in Block
    BY <1>5, <2>2 DEF TickReadsWatermark, TypeOK
  <2> HIDE DEF from, to
  <2>5. new \in Tick
    BY <2>1, <2>2 DEF Tick
  <2> QED
    BY <1>5, <2>3, <2>4, <2>5 DEF TickReadsWatermark, TypeOK, world
<1>6. ASSUME NEW t \in Ticks, TickFetches(t) PROVE TypeOK'
  <2> DEFINE found == LogsIn(ticks[t].from, ticks[t].to)
             todo == {p[2] : p \in found}
             new == [ticks[t] EXCEPT !.step = "sweep", !.found = found, !.todo = todo]
  <2>1. found \in Found /\ todo \in SUBSET Jobs
    BY LogTypes
  <2>2. ticks' = [ticks EXCEPT ![t] = new]
    BY <1>6 DEF TickFetches
  <2>3. ticks[t] \in Tick
    BY DEF TypeOK
  <2> HIDE DEF found, todo
  <2>4. new \in Tick
    BY <2>1, <2>3 DEF Tick
  <2> QED
    BY <1>6, <2>2, <2>4 DEF TickFetches, TypeOK, world
<1>7. ASSUME NEW t \in Ticks, NEW j \in Jobs, TickEvaluates(t, j) \/ TickFails(t, j) PROVE TypeOK'
  <2> DEFINE new == [ticks[t] EXCEPT !.todo = @ \ {j}]
  <2>1. ticks[t] \in Tick
    BY DEF TypeOK
  <2>2. new \in Tick
    BY <2>1 DEF Tick
  <2>3. ticks' = [ticks EXCEPT ![t] = new]
    BY <1>7 DEF TickEvaluates, TickFails, Handled, Caught
  <2>4. tried' \in Found
    BY <1>7, <2>1 DEF TickEvaluates, TickFails, Tries, TypeOK, Tick, Found
  <2>5. judged' \in SUBSET Jobs
    BY <1>7 DEF TickEvaluates, TickFails, TypeOK, world
  <2>6. UNCHANGED <<head, log, stored, watermark, origin>>
    BY <1>7 DEF TickEvaluates, TickFails, world
  <2> HIDE DEF new
  <2> QED
    BY <2>2, <2>3, <2>4, <2>5, <2>6 DEF TypeOK
<1>8. ASSUME NEW t \in Ticks, TickStores(t) PROVE TypeOK'
  <2>1. ticks[t].to \in Block
    BY DEF TypeOK, Tick
  <2> QED
    BY <1>8, <2>1, IdleTick DEF TickStores, Reached, TypeOK, world
<1>9. ASSUME NEW t \in Ticks, Abort(t) PROVE TypeOK'
  BY <1>9, IdleTick DEF Abort, TypeOK, world
<1>10. CASE UNCHANGED vars
  BY <1>10 DEF vars, world, TypeOK
<1> QED
  BY <1>1, <1>2, <1>3, <1>4, <1>5, <1>6, <1>7, <1>8, <1>9, <1>10 DEF Next, World, TickStep

\* Type correctness.
THEOREM WatcherTypes == Spec => []TypeOK
<1>1. Init => TypeOK
  <2>1. 0 \in Block
    BY RangeAssumption DEF Block
  <2> QED
    BY <2>1, IdleTick DEF Init, TypeOK, Found
<1> QED
  BY <1>1, TypesKept, PTL DEF Spec

-----------------------------------------------------------------------------
(* Nothing slips behind the watermark.                                     *)

\* What a tick relies on outlasts more trying, a later origin and a longer chain.
LEMMA KeepsLasts ==
    ASSUME NEW tick \in Tick, NEW h \in Nat, NEW h2 \in Nat, NEW l, NEW tr, NEW tr2,
           NEW o \in Nat, NEW o2 \in Nat,
           Keeps(tick, h, l, tr, o), h <= h2, tr \subseteq tr2, o <= o2
    PROVE  Keeps(tick, h2, l, tr2, o2)
<1>1. tick.head \in Nat /\ tick.from \in Nat /\ tick.to \in Nat /\ ReorgBuffer \in Nat
  BY RangeAssumption DEF Tick, Block
<1>2. \A b \in Block : b \in Nat
  BY RangeAssumption DEF Block
<1>3. \A b \in Block : TriedIn(b, l, tr, o) => TriedIn(b, l, tr2, o2)
  BY <1>2 DEF TriedIn
<1>4. (tick.from = 0 \/ tick.from + ReorgBuffer <= h) =>
      (tick.from = 0 \/ tick.from + ReorgBuffer <= h2)
  BY <1>1
<1>5. ASSUME NEW b \in Block, NEW j \in Jobs, tick.step = "sweep",
             j \in l[b], o2 <= b, b + ReorgBuffer < tick.to
      PROVE  <<b, j>> \in tr2 \/ (<<b, j>> \in tick.found /\ j \in tick.todo)
  <2>1. o <= b
    BY <1>2, <1>5
  <2> QED
    BY <1>5, <2>1 DEF Keeps
<1>6. tick.head <= h => tick.head <= h2
  BY <1>1
<1>7. tick.to <= h => tick.to <= h2
  BY <1>1
<1> QED
  BY <1>3, <1>4, <1>5, <1>6, <1>7 DEF Keeps

\* The watermark's part likewise.
LEMMA BehindLasts ==
    ASSUME NEW w, NEW l, NEW tr, NEW tr2, NEW o \in Nat, NEW o2 \in Nat,
           BehindTried(w, l, tr, o), tr \subseteq tr2, o <= o2
    PROVE  BehindTried(w, l, tr2, o2)
<1>1. \A b \in Block : b \in Nat
  BY RangeAssumption DEF Block
<1> QED
  BY <1>1 DEF BehindTried, TriedIn

\* Types the arithmetic needs.
LEMMA Numbers ==
    ASSUME TypeOK
    PROVE  /\ head \in Nat /\ origin \in Nat /\ ReorgBuffer \in Nat /\ MaxRange \in Nat
           /\ \A b \in Block : b \in Nat
           /\ watermark # None => watermark \in Nat
           /\ \A t \in Ticks : ticks[t] \in Tick
  BY RangeAssumption DEF TypeOK, Block

\* One tick moves: the chain stays, and so does what the other ticks rely on.
LEMMA OneTickMoves ==
    ASSUME IInv, TypeOK', NEW t \in Ticks,
           \A u \in Ticks \ {t} : ticks'[u] = ticks[u],
           UNCHANGED <<head, log>>,
           tried \subseteq tried', origin <= origin',
           Keeps(ticks'[t], head', log', tried', origin')
    PROVE  TicksKeep'
<1> SUFFICES ASSUME NEW u \in Ticks PROVE Keeps(ticks'[u], head', log', tried', origin')
  BY DEF TicksKeep
<1>1. CASE u = t
  BY <1>1
<1>2. CASE u # t
  <2>1. Keeps(ticks[u], head, log, tried, origin) /\ ticks'[u] = ticks[u]
    BY <1>2 DEF IInv, TicksKeep
  <2>2. ticks[u] \in Tick /\ head \in Nat /\ origin \in Nat
    BY Numbers DEF IInv
  <2>3. origin' \in Nat
    BY RangeAssumption DEF TypeOK, Block
  <2>4. Keeps(ticks[u], head, log, tried', origin')
    BY <2>1, <2>2, <2>3, KeepsLasts
  <2> QED
    BY <2>1, <2>4
<1> QED
  BY <1>1, <1>2

\* A new block holds nothing that is behind a watermark or a range.
LEMMA MineKeeps ==
    ASSUME IInv, TypeOK', NEW content \in Contents, Mine(content)
    PROVE  IInv'
<1>1. head' = head + 1 /\ UNCHANGED <<watermark, ticks, tried, origin>>
      /\ \A b \in Block : b <= head => log'[b] = log[b]
  BY Numbers DEF Mine, IInv, TypeOK
<1>2. watermark # None => BehindTried(watermark, log', tried, origin)
  <2> SUFFICES ASSUME watermark # None, NEW b \in Block, b + ReorgBuffer < watermark
      PROVE TriedIn(b, log', tried, origin)
    BY DEF BehindTried
  <2>1. b <= head
    BY Numbers DEF IInv
  <2> QED
    BY <1>1, <2>1 DEF IInv, BehindTried, TriedIn
<1>3. ASSUME NEW t \in Ticks PROVE Keeps(ticks[t], head + 1, log', tried, origin)
  <2> DEFINE tick == ticks[t]
  <2>1. tick \in Tick /\ tick.head \in Nat /\ tick.from \in Nat /\ tick.to \in Nat
    BY Numbers DEF IInv, Tick
  <2>2. Keeps(tick, head, log, tried, origin)
    BY DEF IInv, TicksKeep
  <2>3. Keeps(tick, head + 1, log, tried, origin)
    BY <2>1, <2>2, Numbers, KeepsLasts DEF IInv
  <2> HIDE DEF tick
  <2>4. ASSUME tick.step = "logs", NEW b \in Block, b < tick.from
        PROVE  TriedIn(b, log', tried, origin)
    <3>1. b <= head
      BY <2>1, <2>2, <2>4, Numbers DEF Keeps, IInv
    <3> QED
      BY <1>1, <2>2, <2>4, <3>1 DEF Keeps, TriedIn
  <2>5. ASSUME tick.step = "sweep", NEW b \in Block, NEW j \in Jobs,
               j \in log'[b], origin <= b, b + ReorgBuffer < tick.to
        PROVE  <<b, j>> \in tried \/ (<<b, j>> \in tick.found /\ j \in tick.todo)
    <3>1. b <= head
      BY <2>1, <2>2, <2>5, Numbers DEF Keeps, IInv
    <3> QED
      BY <1>1, <2>2, <2>5, <3>1 DEF Keeps
  <2>6. Keeps(tick, head + 1, log', tried, origin)
    BY <2>3, <2>4, <2>5 DEF Keeps
  <2> QED
    BY <2>6 DEF tick
<1>4. watermark # None => watermark <= head + 1
  BY Numbers DEF IInv
<1> QED
  BY <1>1, <1>2, <1>3, <1>4 DEF IInv, TicksKeep

\* A reorganisation replaces no block that is behind a watermark or a range.
LEMMA ReorganiseKeeps ==
    ASSUME IInv, TypeOK', NEW k \in Block, Reorganise(k)
    PROVE  IInv'
<1>1. UNCHANGED <<head, watermark, origin>> /\ k \in Nat /\ head <= k + ReorgBuffer
      /\ tried' = Below(tried, k)
      /\ \A t \in Ticks : ticks'[t] = [ticks[t] EXCEPT !.found = Below(@, k)]
  BY Numbers DEF Reorganise, IInv, TypeOK
<1>log. ASSUME NEW b \in Block, b < k PROVE log'[b] = log[b]
  <2>1. b \notin k..head
    BY <1>log, Numbers DEF IInv
  <2> QED
    BY <2>1 DEF Reorganise
<1>2. ASSUME NEW b \in Block, b < k, TriedIn(b, log, tried, origin)
      PROVE  TriedIn(b, log', tried', origin)
  <2>1. ASSUME NEW j \in Jobs, <<b, j>> \in tried PROVE <<b, j>> \in tried'
    <3>1. <<b, j>>[1] = b
      OBVIOUS
    <3>2. <<b, j>> \in Below(tried, k)
      BY <1>2, <2>1, <3>1 DEF Below
    <3> QED
      BY <1>1, <3>2
  <2>2. log'[b] = log[b]
    BY <1>log, <1>2
  <2> QED
    BY <1>2, <2>1, <2>2 DEF TriedIn
<1>3. watermark # None => BehindTried(watermark, log', tried', origin)
  <2> SUFFICES ASSUME watermark # None, NEW b \in Block, b + ReorgBuffer < watermark
      PROVE TriedIn(b, log', tried', origin)
    BY DEF BehindTried
  <2>1. b < k
    BY <1>1, Numbers DEF IInv
  <2> QED
    BY <1>2, <2>1 DEF IInv, BehindTried
<1>4. ASSUME NEW t \in Ticks PROVE Keeps(ticks'[t], head, log', tried', origin)
  <2> DEFINE tick == ticks[t]
             new == ticks'[t]
  <2>1. tick \in Tick /\ tick.head \in Nat /\ tick.from \in Nat /\ tick.to \in Nat
    BY Numbers DEF IInv, Tick
  <2>2. Keeps(tick, head, log, tried, origin)
    BY DEF IInv, TicksKeep
  <2>3. /\ new.step = tick.step /\ new.head = tick.head /\ new.from = tick.from
        /\ new.to = tick.to /\ new.todo = tick.todo /\ new.found = Below(tick.found, k)
    BY <1>1, <2>1 DEF Tick
  <2> HIDE DEF tick, new
  <2>4. ASSUME tick.step = "logs", NEW b \in Block, b < tick.from
        PROVE  TriedIn(b, log', tried', origin)
    <3>1. b < k
      BY <1>1, <2>1, <2>2, <2>4, Numbers DEF Keeps, IInv
    <3> QED
      BY <1>2, <2>2, <2>4, <3>1 DEF Keeps
  <2>5. ASSUME tick.step = "sweep", NEW b \in Block, NEW j \in Jobs,
               j \in log'[b], origin <= b, b + ReorgBuffer < tick.to
        PROVE  <<b, j>> \in tried' \/ (<<b, j>> \in new.found /\ j \in tick.todo)
    <3>1. b < k
      BY <1>1, <2>1, <2>2, <2>5, Numbers DEF Keeps, IInv
    <3>2. <<b, j>> \in tried \/ (<<b, j>> \in tick.found /\ j \in tick.todo)
      BY <1>log, <2>2, <2>5, <3>1 DEF Keeps
    <3> QED
      BY <1>1, <2>3, <3>1, <3>2 DEF Below
  <2>6. Keeps(new, head, log', tried', origin)
    BY <2>2, <2>3, <2>4, <2>5 DEF Keeps
  <2> QED
    BY <2>6 DEF new
<1> QED
  BY <1>1, <1>3, <1>4 DEF IInv, TicksKeep

-----------------------------------------------------------------------------
(* The steps of a tick.                                                    *)

\* The tick remembers a head that the chain has reached.
LEMMA ReadsHeadKeeps ==
    ASSUME IInv, TypeOK', NEW t \in Ticks, TickReadsHead(t)
    PROVE  IInv'
<1>1. UNCHANGED <<head, log, watermark, tried, origin>>
      /\ ticks' = [ticks EXCEPT ![t] = [Idle EXCEPT !.step = "watermark", !.head = head]]
  BY DEF TickReadsHead, world
<1>2. ticks'[t].step = "watermark" /\ ticks'[t].head = head
      /\ \A u \in Ticks \ {t} : ticks'[u] = ticks[u]
  BY <1>1 DEF IInv, TypeOK, Idle
<1>3. Keeps(ticks'[t], head, log, tried, origin)
  BY <1>2, Numbers DEF Keeps, IInv
<1>4. TicksKeep'
  BY <1>1, <1>2, <1>3, Numbers, OneTickMoves DEF IInv
<1> QED
  BY <1>1, <1>4 DEF IInv

\* Before the range everything is tried: the watermark says so, or it is a cold
\* start.
LEMMA ReadsWatermarkKeeps ==
    ASSUME IInv, TypeOK', NEW t \in Ticks, TickReadsWatermark(t)
    PROVE  IInv'
<1> DEFINE h == ticks[t].head
           from == Rewind(Start(h))
           to == RangeEnd(from, h)
<1>0. head \in Nat /\ origin \in Nat /\ ReorgBuffer \in Nat /\ MaxRange \in Nat
      /\ \A b \in Block : b \in Nat
  BY Numbers DEF IInv
<1>1. UNCHANGED <<head, log, watermark, tried>> /\ ticks[t].step = "watermark"
  BY DEF TickReadsWatermark, world, At
<1>ticks. ticks' = [ticks EXCEPT ![t] = [ticks[t] EXCEPT !.step = "logs", !.from = from, !.to = to]]
  BY DEF TickReadsWatermark
<1>origin. origin' = IF watermark = None /\ from > origin THEN from ELSE origin
  BY DEF TickReadsWatermark
<1>2. h \in Block /\ h <= head
  <2>1. ticks[t] \in Tick /\ Keeps(ticks[t], head, log, tried, origin)
    BY DEF IInv, TypeOK, TicksKeep
  <2> QED
    BY <1>1, <2>1 DEF Keeps, Tick
<1>3. from \in Block /\ to \in Block /\ to <= h
      /\ (from = 0 \/ from + ReorgBuffer = Start(h)) /\ Start(h) \in Block
  BY <1>2, RangeInChain DEF IInv, TypeOK
<1>4. Start(h) <= head
  <2>1. CASE watermark # None
    BY <2>1 DEF Start, IInv
  <2>2. CASE watermark = None
    BY <1>0, <1>2, <2>2 DEF Start
  <2> QED
    BY <2>1, <2>2
<1>5. watermark # None => Start(h) = watermark
  BY DEF Start
<1>6. ticks'[t] = [ticks[t] EXCEPT !.step = "logs", !.from = from, !.to = to]
      /\ \A u \in Ticks \ {t} : ticks'[u] = ticks[u]
  BY <1>ticks DEF IInv, TypeOK
<1> HIDE DEF from, to
<1>7. ticks'[t].step = "logs" /\ ticks'[t].from = from /\ ticks'[t].to = to /\ ticks'[t].head = h
  BY <1>6, Numbers DEF IInv, Tick
<1> HIDE DEF h
<1>8. origin \in Nat /\ origin' \in Nat /\ origin <= origin'
  BY <1>0, <1>origin, <1>3
<1>9. ASSUME NEW b \in Block, b < from PROVE TriedIn(b, log, tried, origin')
  <2>1. CASE watermark = None
    <3>1. ~(origin' <= b)
      BY <1>0, <1>origin, <1>3, <1>9, <2>1
    <3> QED
      BY <3>1 DEF TriedIn
  <2>2. CASE watermark # None
    <3>1. b + ReorgBuffer < watermark
      BY <1>0, <1>3, <1>5, <1>9, <2>2, Numbers DEF IInv
    <3>2. TriedIn(b, log, tried, origin)
      BY <2>2, <3>1 DEF IInv, BehindTried
    <3> QED
      BY <1>0, <1>8, <3>2 DEF TriedIn
  <2> QED
    BY <2>1, <2>2
<1>10. to <= head /\ (from = 0 \/ from + ReorgBuffer <= head)
  BY <1>0, <1>2, <1>3, <1>4
<1>11. Keeps(ticks'[t], head, log, tried, origin')
  BY <1>2, <1>7, <1>9, <1>10 DEF Keeps
<1>12. TicksKeep'
  BY <1>1, <1>6, <1>8, <1>11, OneTickMoves
<1>13. watermark # None => BehindTried(watermark, log, tried, origin')
  BY <1>8, BehindLasts DEF IInv
<1> QED
  BY <1>1, <1>12, <1>13 DEF IInv

\* Whatever is in the range is on the list now.
LEMMA FetchesKeeps ==
    ASSUME IInv, TypeOK', NEW t \in Ticks, TickFetches(t)
    PROVE  IInv'
<1> DEFINE found == LogsIn(ticks[t].from, ticks[t].to)
           todo == {p[2] : p \in found}
<1>1. UNCHANGED <<head, log, watermark, tried, origin>> /\ ticks[t].step = "logs"
      /\ ticks' = [ticks EXCEPT ![t].step = "sweep", ![t].found = found, ![t].todo = todo]
  BY DEF TickFetches, world, At
<1>2. ticks'[t] = [ticks[t] EXCEPT !.step = "sweep", !.found = found, !.todo = todo]
      /\ \A u \in Ticks \ {t} : ticks'[u] = ticks[u]
  BY <1>1 DEF IInv, TypeOK
<1> HIDE DEF todo, found
<1>3. /\ ticks'[t].step = "sweep" /\ ticks'[t].found = found /\ ticks'[t].todo = todo
      /\ ticks'[t].head = ticks[t].head /\ ticks'[t].to = ticks[t].to
  BY <1>2, Numbers DEF IInv, Tick
<1>4. Keeps(ticks[t], head, log, tried, origin)
  BY DEF IInv, TicksKeep
<1>5. ASSUME NEW b \in Block, NEW j \in Jobs,
             j \in log[b], origin <= b, b + ReorgBuffer < ticks[t].to
      PROVE  <<b, j>> \in tried \/ (<<b, j>> \in found /\ j \in todo)
  <2>1. ticks[t].from \in Nat /\ ticks[t].to \in Nat /\ b \in Nat /\ ReorgBuffer \in Nat
    BY Numbers DEF IInv, Tick
  <2>2. CASE b < ticks[t].from
    BY <1>1, <1>4, <1>5, <2>2 DEF Keeps, TriedIn
  <2>3. CASE ~(b < ticks[t].from)
    <3>1. ticks[t].from <= b /\ b <= ticks[t].to
      BY <1>5, <2>1, <2>3
    <3>2. <<b, j>> \in found
      BY <1>5, <3>1 DEF LogsIn, found
    <3>3. j \in todo
      BY <3>2 DEF todo
    <3> QED
      BY <3>2, <3>3
  <2> QED
    BY <2>2, <2>3
<1>6. Keeps(ticks'[t], head, log, tried, origin)
  BY <1>1, <1>3, <1>4, <1>5 DEF Keeps
<1>7. TicksKeep'
  <2>1. tried \subseteq tried' /\ origin <= origin'
    BY <1>1, Numbers DEF IInv
  <2> QED
    BY <1>1, <1>2, <1>6, <2>1, OneTickMoves
<1> QED
  BY <1>1, <1>7 DEF IInv

\* A job leaves the list when it has been tried.
LEMMA TryKeeps ==
    ASSUME IInv, TypeOK', NEW t \in Ticks, NEW j \in Jobs,
           TickEvaluates(t, j) \/ TickFails(t, j)
    PROVE  IInv'
<1>1. UNCHANGED <<head, log, watermark, origin>> /\ ticks[t].step = "sweep"
      /\ ticks' = [ticks EXCEPT ![t] = [ticks[t] EXCEPT !.todo = @ \ {j}]]
      /\ tried' = tried \cup {p \in ticks[t].found : p[2] = j}
  BY DEF TickEvaluates, TickFails, Tries, At, Handled, Caught, world
<1>2. ticks'[t] = [ticks[t] EXCEPT !.todo = @ \ {j}]
      /\ \A u \in Ticks \ {t} : ticks'[u] = ticks[u]
  BY <1>1 DEF IInv, TypeOK
<1>3. /\ ticks'[t].step = "sweep" /\ ticks'[t].found = ticks[t].found
      /\ ticks'[t].todo = ticks[t].todo \ {j}
      /\ ticks'[t].head = ticks[t].head /\ ticks'[t].to = ticks[t].to
  BY <1>1, <1>2, Numbers DEF IInv, Tick
<1>4. Keeps(ticks[t], head, log, tried, origin)
  BY DEF IInv, TicksKeep
<1>5. ASSUME NEW b \in Block, NEW i \in Jobs,
             i \in log[b], origin <= b, b + ReorgBuffer < ticks[t].to
      PROVE  <<b, i>> \in tried' \/ (<<b, i>> \in ticks[t].found /\ i \in ticks[t].todo \ {j})
  <2>1. <<b, i>> \in tried \/ (<<b, i>> \in ticks[t].found /\ i \in ticks[t].todo)
    BY <1>1, <1>4, <1>5 DEF Keeps
  <2> QED
    BY <1>1, <2>1
<1>6. Keeps(ticks'[t], head, log, tried', origin)
  BY <1>1, <1>3, <1>4, <1>5 DEF Keeps
<1>7. TicksKeep'
  <2>1. tried \subseteq tried' /\ origin <= origin'
    BY <1>1, Numbers DEF IInv
  <2> QED
    BY <1>1, <1>2, <1>6, <2>1, OneTickMoves
<1>8. watermark # None => BehindTried(watermark, log, tried', origin)
  BY <1>1, Numbers, BehindLasts DEF IInv
<1> QED
  BY <1>1, <1>7, <1>8 DEF IInv

\* With an empty list the end of the range may become the watermark.
LEMMA StoresKeeps ==
    ASSUME IInv, TypeOK', NEW t \in Ticks, TickStores(t) \/ Abort(t)
    PROVE  IInv'
<1>1. UNCHANGED <<head, log, tried, origin>> /\ ticks' = [ticks EXCEPT ![t] = Idle]
  BY DEF TickStores, Abort, world
<1>2. ticks'[t] = Idle /\ \A u \in Ticks \ {t} : ticks'[u] = ticks[u]
  BY <1>1 DEF IInv, TypeOK
<1>3. Keeps(Idle, head, log, tried, origin)
  BY DEF Keeps, Idle
<1>4. TicksKeep'
  BY <1>1, <1>2, <1>3, Numbers, OneTickMoves DEF IInv
<1>5. watermark' # None => watermark' <= head /\ BehindTried(watermark', log, tried, origin)
  <2>1. CASE TickStores(t)
    <3>1. watermark' = ticks[t].to /\ ticks[t].step = "sweep" /\ ticks[t].todo = {}
      BY <2>1 DEF TickStores, Reached, At
    <3>2. Keeps(ticks[t], head, log, tried, origin)
      BY DEF IInv, TicksKeep
    <3> QED
      BY <3>1, <3>2 DEF Keeps, BehindTried, TriedIn
  <2>2. CASE Abort(t)
    BY <2>2 DEF Abort, IInv
  <2> QED
    BY <2>1, <2>2
<1> QED
  BY <1>1, <1>4, <1>5 DEF IInv

\* Every step keeps the invariant.
LEMMA InvariantKept == IInv /\ [Next]_vars => IInv'
<1> SUFFICES ASSUME IInv, [Next]_vars PROVE IInv'
  OBVIOUS
<1>1. TypeOK'
  BY TypesKept DEF IInv
<1>2. ASSUME NEW j \in Jobs, Upload(j) \/ OtherwiseJudged(j) PROVE IInv'
  BY <1>1, <1>2 DEF Upload, OtherwiseJudged, IInv, TicksKeep
<1>3. CASE UNCHANGED vars
  BY <1>1, <1>3 DEF vars, world, IInv, TicksKeep
<1>4. ASSUME NEW t \in Ticks, TickStep(t) PROVE IInv'
  BY <1>1, <1>4, ReadsHeadKeeps, ReadsWatermarkKeeps, FetchesKeeps, TryKeeps, StoresKeeps
     DEF TickStep
<1> QED
  BY <1>1, <1>2, <1>3, <1>4, MineKeeps, ReorganiseKeeps, StoresKeeps DEF Next, World

LEMMA InvariantHolds == Spec => []IInv
<1>1. Init => IInv
  <2>1. ASSUME Init PROVE TypeOK
    <3>1. 0 \in Block
      BY RangeAssumption DEF Block
    <3> QED
      BY <2>1, <3>1, IdleTick DEF Init, TypeOK, Found
  <2> QED
    BY <2>1 DEF Init, IInv, TicksKeep, Keeps, Idle
<1> QED
  BY <1>1, InvariantKept, PTL DEF Spec

\* The sweep misses nothing: a delivery between the first cold start and the
\* rewound watermark has been tried, whatever ticks overlap or end early and
\* whatever reorganisations of at most ReorgBuffer blocks below the head do.
THEOREM SweepMissesNothing == Spec => []NothingSlipsBehind
<1>1. IInv => NothingSlipsBehind
  BY DEF IInv, BehindTried, TriedIn, NothingSlipsBehind
<1> QED
  BY <1>1, InvariantHolds, PTL

=============================================================================

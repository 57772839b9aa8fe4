------------------------ MODULE PostgresStore_proofs ------------------------
(***************************************************************************)
(* Proofs about PostgresStore, for any number of processes, calls, rows    *)
(* and values: what a job's row holds is not lost, and the store is an     *)
(* implementation of StorePromise.  A call of the promise is asked while   *)
(* this one creates the schema or has its statement under way, and takes   *)
(* effect when the statement runs; TypeOK says that by then it has a       *)
(* request, which is all that the refinement needs.                        *)
(***************************************************************************)
EXTENDS PostgresStore, FiniteSetTheorems, TLAPS

-----------------------------------------------------------------------------
(* The rows.                                                               *)

LEMMA RequestFields ==
    ASSUME NEW r \in Request
    PROVE  /\ r.op \in {"getJob", "getOther", "putJob", "updateJob", "putOther"}
           /\ r.key \in Keys /\ r.tx \in Values \cup {None}
           /\ r.op \in {"putJob", "updateJob", "putOther"} => r.value \in Values
           /\ r # None
<1>1. None \notin Request
  BY NoneAssumption
<1> QED
  BY <1>1 DEF Request

LEMMA NoRowTyped == NoRow \in Row /\ \A c \in Column : NoRow[c] = None
BY DEF NoRow, Row

\* A statement makes rows of rows, and forgets no column.
LEMMA UpsertTyped ==
    ASSUME NEW row \in Row, NEW r \in Request, r.op = "putJob"
    PROVE  /\ Upsert(row, r) \in Row
           /\ \A c \in Column : row[c] # None => Upsert(row, r)[c] # None
<1>1. r.value \in Values /\ r.tx \in Values \cup {None} /\ None \notin Values
  BY RequestFields, NoneAssumption
<1>2. CASE row = NoRow
  BY <1>1, <1>2, NoRowTyped DEF Upsert, Row, Column
<1>3. CASE row # NoRow
  BY <1>1, <1>3 DEF Upsert, Row, Column
<1> QED
  BY <1>2, <1>3

LEMMA UpdateTyped ==
    ASSUME NEW row \in Row, NEW r \in Request, r.op = "updateJob"
    PROVE  /\ UpdateRow(row, r) \in Row
           /\ \A c \in Column : row[c] # None => UpdateRow(row, r)[c] # None
<1>1. r.value \in Values /\ None \notin Values
  BY RequestFields, NoneAssumption
<1> QED
  BY <1>1 DEF UpdateRow, Row, Column

LEMMA RunTyped ==
    ASSUME TypeOK, NEW r \in Request, Run(r)
    PROVE  /\ jobs' \in [Keys -> Row] /\ others' \in [Keys -> Values \cup {None}]
           /\ schema' = schema
           /\ \A k \in Keys, c \in Column : jobs[k][c] # None => jobs'[k][c] # None
<1>1. jobs \in [Keys -> Row] /\ others \in [Keys -> Values \cup {None}] /\ jobs[r.key] \in Row
      /\ r.key \in Keys /\ schema' = schema
  BY RequestFields DEF TypeOK, Run
<1>2. others' \in [Keys -> Values \cup {None}]
  BY <1>1, RequestFields DEF Run
<1>3. CASE r.op = "putJob"
  <2>1. jobs' = [jobs EXCEPT ![r.key] = Upsert(jobs[r.key], r)]
    BY <1>3 DEF Run
  <2> QED
    BY <1>1, <1>2, <1>3, <2>1, UpsertTyped
<1>4. CASE r.op = "updateJob"
  <2>1. jobs' = [jobs EXCEPT ![r.key] = UpdateRow(jobs[r.key], r)]
    BY <1>4 DEF Run
  <2> QED
    BY <1>1, <1>2, <1>4, <2>1, UpdateTyped
<1>5. CASE r.op \notin {"putJob", "updateJob"}
  <2>1. jobs' = jobs
    BY <1>5 DEF Run
  <2> QED
    BY <1>1, <1>2, <2>1
<1> QED
  BY <1>3, <1>4, <1>5

\* What comes back is a row, a value or nothing.
LEMMA ReturnedTyped ==
    ASSUME NEW r \in Request, NEW rows \in [Keys -> Row],
           NEW other \in [Keys -> Values \cup {None}]
    PROVE  Returned(r, rows, other) \in Row \cup Values \cup {None}
<1>1. r.key \in Keys /\ rows[r.key] \in Row /\ other[r.key] \in Values \cup {None}
  BY RequestFields
<1> QED
  BY <1>1 DEF Returned

-----------------------------------------------------------------------------
(* The calls.                                                              *)

\* What TypeOK says of one call.
Proper(call, rd) ==
    /\ call.step \notin Ended => call.proc \in Procs /\ call.request \in Request
    /\ call.step \in {"query", "ran"} => rd[call.proc] = "done"

LEMMA TypeParts ==
    TypeOK <=> /\ jobs \in [Keys -> Row] /\ others \in [Keys -> Values \cup {None}]
               /\ schema \in BOOLEAN
               /\ ready \in [Procs -> Ready \cup {None}]
               /\ calls \in [Calls -> CallState]
               /\ \A c \in Calls : Proper(calls[c], ready)
               /\ late \subseteq Request
               /\ \A p \in Procs : ready[p] = "done" => schema
               /\ late # {} => schema
BY DEF TypeOK, Proper

LEMMA CallStateFields ==
    ASSUME NEW call \in CallState
    PROVE  /\ call.step \in Ended \cup {"init", "query", "ran"}
           /\ call.proc \in Procs \cup {None} /\ call.request \in Request \cup {None}
           /\ call.answer \in Row \cup Values \cup {None}
           /\ \A s \in Ended \cup {"init", "query", "ran"} :
                 /\ [call EXCEPT !.step = s] \in CallState
                 /\ [call EXCEPT !.step = s] =
                       [step |-> s, proc |-> call.proc, request |-> call.request,
                        answer |-> call.answer]
BY DEF CallState

LEMMA Resting ==
    ASSUME NEW s \in Ended
    PROVE  /\ [Idle EXCEPT !.step = s] \in CallState
           /\ [Idle EXCEPT !.step = s] =
                 [step |-> s, proc |-> None, request |-> None, answer |-> None]
           /\ \A rd : Proper([Idle EXCEPT !.step = s], rd)
BY DEF Idle, CallState, Ended, Proper

\* A call that moves by itself.
LEMMA CallMoves ==
    ASSUME TypeOK, NEW c \in Calls, NEW new \in CallState, Proper(new, ready),
           calls' = [calls EXCEPT ![c] = new],
           UNCHANGED <<tables, ready, late>>
    PROVE  TypeOK'
<1>1. calls' \in [Calls -> CallState] /\ \A d \in Calls : Proper(calls'[d], ready')
  BY TypeParts
<1> QED
  BY <1>1, TypeParts DEF TypeOK, Proper, tables

\* What is left of calls that are given up on are statements that were sent,
\* over tables that exist.
LEMMA GivenUpTyped ==
    ASSUME TypeOK, NEW C \in SUBSET Calls, GivenUp(C)
    PROVE  /\ calls' \in [Calls -> CallState]
           /\ \A c \in Calls : calls'[c] = IF c \in C THEN [Idle EXCEPT !.step = "failed"]
                                           ELSE calls[c]
           /\ late' \subseteq Request /\ (late' # {} => schema)
           /\ late' \subseteq late \cup {calls[c].request : c \in {d \in C : calls[d].step = "query"}}
<1>1. "failed" \in Ended
  BY DEF Ended
<1>2. [Idle EXCEPT !.step = "failed"] \in CallState
  BY <1>1, Resting
<1>3. calls' = [c \in Calls |-> IF c \in C THEN [Idle EXCEPT !.step = "failed"] ELSE calls[c]]
  BY DEF GivenUp, Failed
<1>4. calls \in [Calls -> CallState]
  BY DEF TypeOK
<1>5. late' \subseteq late \cup Sent(C)
  BY DEF GivenUp
<1>6. ASSUME NEW r \in Sent(C) PROVE r \in Request /\ schema
  <2>1. PICK c \in C : calls[c].step = "query" /\ r = calls[c].request
    BY <1>6 DEF Sent
  <2>2. c \in Calls /\ Proper(calls[c], ready)
    BY <2>1, TypeParts
  <2>3. r \in Request /\ calls[c].proc \in Procs /\ ready[calls[c].proc] = "done"
    BY <2>1, <2>2 DEF Proper, Ended
  <2> QED
    BY <2>3 DEF TypeOK
<1>7. late \subseteq Request /\ (late # {} => schema)
  BY DEF TypeOK
<1>8. Sent(C) \subseteq {calls[c].request : c \in {d \in C : calls[d].step = "query"}}
  BY DEF Sent
<1> QED
  BY <1>2, <1>3, <1>4, <1>5, <1>6, <1>7, <1>8

LEMMA InitTyped == Init => TypeOK
<1> SUFFICES ASSUME Init PROVE TypeOK
  OBVIOUS
<1>1. Idle \in CallState /\ \A rd : Proper(Idle, rd)
  BY DEF Idle, CallState, Proper, Ended
<1>2. ready \in [Procs -> Ready \cup {None}]
      /\ \A p \in Procs : ready[p] # "done"
  BY NoneAssumption DEF Init, Ready
<1> QED
  BY <1>1, <1>2, NoRowTyped, TypeParts DEF Init

LEMMA NextTyped == TypeOK /\ [Next]_vars => TypeOK'
<1> SUFFICES ASSUME TypeOK, [Next]_vars PROVE TypeOK'
  OBVIOUS
<1> USE NoneAssumption
<1>1. ASSUME NEW c \in Calls, NEW p \in Procs, NEW r \in Request, Call(c, p, r)
      PROVE  TypeOK'
  <2> DEFINE new == [step |-> "init", proc |-> p, request |-> r, answer |-> None]
  <2>1. new \in CallState /\ \A rd : Proper(new, rd)
    BY DEF CallState, Proper
  <2>2. calls' = [calls EXCEPT ![c] = new] /\ UNCHANGED <<tables, late>>
    BY <1>1 DEF Call
  <2> HIDE DEF new
  <2>3. ready' = [ready EXCEPT ![p] = IF ready[p] = None THEN "pending" ELSE ready[p]]
    BY <1>1 DEF Call, StartInit
  <2>4. /\ ready' \in [Procs -> Ready \cup {None}]
        /\ \A q \in Procs : ready[q] # None => ready'[q] = ready[q]
        /\ \A q \in Procs : ready'[q] = "done" <=> ready[q] = "done"
    BY <2>3 DEF TypeOK, Ready
  <2>5. calls' \in [Calls -> CallState]
        /\ \A d \in Calls : calls'[d] = IF d = c THEN new ELSE calls[d]
    BY <2>1, <2>2 DEF TypeOK
  <2>6. ASSUME NEW d \in Calls PROVE Proper(calls'[d], ready')
    <3>1. Proper(calls[d], ready)
      BY TypeParts
    <3>2. Proper(calls[d], ready')
      BY <2>4, <3>1 DEF Proper, Ended
    <3> QED
      BY <2>1, <2>5, <3>2
  <2> QED
    BY <2>2, <2>4, <2>5, <2>6, TypeParts DEF TypeOK, Proper, tables
<1>2. ASSUME NEW p \in Procs, SchemaCreated(p) \/ SchemaFails(p)
      PROVE  TypeOK'
  <2>1. /\ ready[p] = "pending" /\ UNCHANGED <<jobs, others, calls, late>>
        /\ schema' \in {schema, TRUE}
        /\ \E s \in {"done", "rejected"} :
              ready' = [ready EXCEPT ![p] = s] /\ (s = "done" => schema')
    BY <1>2 DEF SchemaCreated, SchemaFails
  <2>2. /\ ready' \in [Procs -> Ready \cup {None}]
        /\ \A q \in Procs : q # p => ready'[q] = ready[q]
        /\ ready'[p] = "done" => schema'
    BY <2>1 DEF TypeOK, Ready
  <2>3. schema' \in BOOLEAN /\ (schema => schema')
    <3>1. schema \in BOOLEAN
      BY DEF TypeOK
    <3>2. schema' = schema \/ schema' = TRUE
      BY <2>1
    <3> QED
      BY ONLY <3>1, <3>2
  <2>4. \A q \in Procs : ready'[q] = "done" => schema'
    BY <2>2, <2>3 DEF TypeOK
  <2>5. ASSUME NEW d \in Calls PROVE Proper(calls[d], ready')
    <3>1. Proper(calls[d], ready)
      BY TypeParts
    <3> QED
      BY <2>1, <2>2, <3>1 DEF Proper, Ended
  <2> QED
    BY <2>1, <2>2, <2>3, <2>4, <2>5, TypeParts DEF TypeOK, Proper
<1>3. ASSUME NEW c \in Calls, Sends(c) \/ Answers(c) PROVE TypeOK'
  <2> DEFINE new == IF Sends(c) THEN [calls[c] EXCEPT !.step = "query"]
                    ELSE [Idle EXCEPT !.step = "answered"]
  <2>1. calls[c] \in CallState /\ Proper(calls[c], ready)
    BY TypeParts
  <2>2. CASE Sends(c)
    <3>1. new \in CallState /\ Proper(new, ready)
      <4>1. new \in CallState
            /\ new = [step |-> "query", proc |-> calls[c].proc,
                      request |-> calls[c].request, answer |-> calls[c].answer]
        BY <2>1, <2>2, CallStateFields
      <4>2. calls[c].step = "init" /\ ready[calls[c].proc] = "done"
        BY <2>2 DEF Sends
      <4> HIDE DEF new
      <4> QED
        BY <2>1, <4>1, <4>2 DEF Proper, Ended
    <3>2. calls' = [calls EXCEPT ![c] = new] /\ UNCHANGED <<tables, ready, late>>
      BY <2>2 DEF Sends
    <3> HIDE DEF new
    <3> QED
      BY <3>1, <3>2, CallMoves
  <2>3. CASE ~Sends(c)
    <3>1. new \in CallState /\ Proper(new, ready)
      BY <2>3, Resting DEF Ended
    <3>2. calls' = [calls EXCEPT ![c] = new] /\ UNCHANGED <<tables, ready, late>>
      BY <1>3, <2>3 DEF Answers
    <3> HIDE DEF new
    <3> QED
      BY <3>1, <3>2, CallMoves
  <2> QED
    BY <2>2, <2>3
<1>4. ASSUME NEW c \in Calls, InitRejects(c) PROVE TypeOK'
  <2> DEFINE new == [Idle EXCEPT !.step = "failed"]
  <2>1. new \in CallState /\ Proper(new, ready)
    BY Resting DEF Ended
  <2>2. calls' = [d \in Calls |-> IF d = c THEN new ELSE calls[d]]
        /\ UNCHANGED <<tables, ready, late>>
    BY <1>4 DEF InitRejects, Failed
  <2> HIDE DEF new
  <2>3. calls' = [calls EXCEPT ![c] = new]
    BY <2>2 DEF TypeOK
  <2> QED
    BY <2>1, <2>2, <2>3, CallMoves
<1>5. ASSUME NEW c \in Calls, Runs(c) PROVE TypeOK'
  <2> DEFINE r == calls[c].request
  <2> DEFINE a == Returned(r, jobs', others')
  <2> DEFINE new == [calls[c] EXCEPT !.step = "ran", !.answer = a]
  <2>1. calls[c] \in CallState /\ Proper(calls[c], ready) /\ calls[c].step = "query"
    BY <1>5, TypeParts DEF Runs
  <2>2. r \in Request
    BY <2>1 DEF Proper, Ended
  <2>3. jobs' \in [Keys -> Row] /\ others' \in [Keys -> Values \cup {None}] /\ schema' = schema
    BY <1>5, <2>2, RunTyped DEF Runs
  <2>4. a \in Row \cup Values \cup {None}
    BY <2>2, <2>3, ReturnedTyped
  <2>5. calls' = [calls EXCEPT ![c] = new] /\ UNCHANGED <<ready, late>>
    <3>1. calls' = [calls EXCEPT ![c].step = "ran", ![c].answer = a] /\ UNCHANGED <<ready, late>>
      BY <1>5 DEF Runs
    <3> HIDE DEF a
    <3> QED
      BY <3>1 DEF TypeOK
  <2>6. new \in CallState /\ Proper(new, ready)
    <3> HIDE DEF a
    <3>1. new \in CallState /\ new.step = "ran" /\ new.proc = calls[c].proc
          /\ new.request = calls[c].request
      BY <2>1, <2>4 DEF CallState
    <3> HIDE DEF new
    <3> QED
      BY <2>1, <3>1 DEF Proper, Ended
  <2> HIDE DEF new
  <2>7. calls' \in [Calls -> CallState] /\ \A d \in Calls : Proper(calls'[d], ready)
    BY <2>5, <2>6, TypeParts
  <2> QED
    BY <2>3, <2>5, <2>7, TypeParts DEF TypeOK, Proper
<1>6. ASSUME NEW c \in Calls, QueryFails(c) PROVE TypeOK'
  <2>1. /\ calls' \in [Calls -> CallState] /\ late' \subseteq Request /\ (late' # {} => schema)
        /\ \A d \in Calls : calls'[d] = IF d \in {c} THEN [Idle EXCEPT !.step = "failed"]
                                        ELSE calls[d]
    BY <1>6, GivenUpTyped DEF QueryFails
  <2>2. UNCHANGED <<jobs, others, schema, ready>>
    BY <1>6 DEF QueryFails, tables
  <2>3. \A d \in Calls : Proper(calls'[d], ready)
    BY <2>1, Resting, TypeParts DEF Ended
  <2> QED
    BY <2>1, <2>2, <2>3, TypeParts DEF TypeOK, Proper
<1>7. ASSUME NEW r \in late, RunsLate(r) PROVE TypeOK'
  <2>1. r \in Request
    BY DEF TypeOK
  <2>2. jobs' \in [Keys -> Row] /\ others' \in [Keys -> Values \cup {None}] /\ schema' = schema
    BY <1>7, <2>1, RunTyped DEF RunsLate
  <2>3. UNCHANGED <<ready, calls>> /\ late' \subseteq late
    BY <1>7 DEF RunsLate
  <2> QED
    BY <2>2, <2>3 DEF TypeOK
<1>8. ASSUME NEW p \in Procs, Crash(p) PROVE TypeOK'
  <2> DEFINE C == {c \in Calls : calls[c].step \notin Ended /\ calls[c].proc = p}
  <2>1. C \in SUBSET Calls /\ GivenUp(C)
    BY <1>8 DEF Crash
  <2>2. /\ calls' \in [Calls -> CallState] /\ late' \subseteq Request /\ (late' # {} => schema)
        /\ \A d \in Calls : calls'[d] = IF d \in C THEN [Idle EXCEPT !.step = "failed"]
                                        ELSE calls[d]
    <3> HIDE DEF C
    <3> QED
      BY <2>1, GivenUpTyped
  <2>3. /\ ready' = [ready EXCEPT ![p] = None] /\ UNCHANGED <<jobs, others>>
        /\ schema' \in BOOLEAN /\ (schema => schema')
    <3>1. schema \in BOOLEAN
      BY DEF TypeOK
    <3>2. schema' = schema \/ schema' = (schema \/ ready[p] = "pending")
      BY <1>8 DEF Crash
    <3>3. schema' \in BOOLEAN /\ (schema => schema')
      BY ONLY <3>1, <3>2, Zenon
    <3> QED
      BY <1>8, <3>3 DEF Crash
  <2>4. /\ ready' \in [Procs -> Ready \cup {None}]
        /\ \A q \in Procs : q # p => ready'[q] = ready[q]
        /\ ready'[p] = None
    BY <2>3 DEF TypeOK
  <2>5. ASSUME NEW q \in Procs, ready'[q] = "done" PROVE schema'
    <3>1. ready[q] = "done"
      BY <2>4, <2>5 DEF Ready
    <3>2. schema
      BY <3>1 DEF TypeOK
    <3> QED
      BY ONLY <2>3, <3>2
  <2>6. ASSUME NEW d \in Calls PROVE Proper(calls'[d], ready')
    <3>1. CASE d \in C
      BY <2>2, <3>1, Resting DEF Ended
    <3>2. CASE d \notin C
      <4>1. Proper(calls[d], ready) /\ calls'[d] = calls[d]
        BY <2>2, <3>2, TypeParts
      <4>2. calls[d].step \in Ended \/ calls[d].proc # p
        BY <3>2
      <4> QED
        BY <2>4, <4>1, <4>2, CallStateFields DEF Proper, Ended, TypeOK
    <3> QED
      BY <3>1, <3>2
  <2> QED
    BY <2>2, <2>3, <2>4, <2>5, <2>6, TypeParts DEF TypeOK, Proper
<1>9. CASE UNCHANGED vars
  BY <1>9 DEF vars, tables, TypeOK
<1> QED
  BY <1>1, <1>2, <1>3, <1>4, <1>5, <1>6, <1>7, <1>8, <1>9 DEF Next, Advance

\* No statement is under way before the tables exist, whoever creates them,
\* fails to, or dies.
THEOREM StoreTyped == Spec => []TypeOK
BY InitTyped, NextTyped, PTL DEF Spec

\* postgres-store.ts:171: however statements are repeated, reordered or late,
\* no column of a job that was set becomes null again.
THEOREM NothingForgotten == Spec => ColumnsKept
<1>1. ASSUME TypeOK, [Next]_vars
      PROVE  [\A k \in Keys, c \in Column : jobs[k][c] # None => jobs'[k][c] # None]_jobs
  <2>1. CASE UNCHANGED jobs
    BY <2>1
  <2>2. ASSUME NEW c \in Calls, Runs(c)
        PROVE  \A k \in Keys, col \in Column : jobs[k][col] # None => jobs'[k][col] # None
    <3>1. calls[c].request \in Request
      BY <1>1, <2>2, TypeParts DEF Runs, Proper, Ended
    <3> QED
      BY <1>1, <2>2, <3>1, RunTyped DEF Runs
  <2>3. ASSUME NEW r \in late, RunsLate(r)
        PROVE  \A k \in Keys, col \in Column : jobs[k][col] # None => jobs'[k][col] # None
    BY <1>1, <2>3, RunTyped DEF RunsLate, TypeOK
  <2>4. CASE UNCHANGED jobs \/ (\E c \in Calls : Runs(c)) \/ (\E r \in late : RunsLate(r))
    BY <2>1, <2>2, <2>3, <2>4
  <2>5. ASSUME NEW c \in Calls, NEW p \in Procs, NEW r \in Request, Call(c, p, r)
        PROVE  UNCHANGED jobs
    BY <2>5 DEF Call, tables
  <2>6. ASSUME NEW p \in Procs, SchemaCreated(p) \/ SchemaFails(p) \/ Crash(p)
        PROVE  UNCHANGED jobs
    BY <2>6 DEF SchemaCreated, SchemaFails, Crash
  <2>7. ASSUME NEW c \in Calls, Sends(c) \/ InitRejects(c) \/ Answers(c) \/ QueryFails(c)
        PROVE  UNCHANGED jobs
    BY <2>7 DEF Sends, InitRejects, Answers, QueryFails, tables
  <2>8. CASE UNCHANGED vars
    BY <2>4, <2>8 DEF vars, tables
  <2> QED
    BY <1>1, <2>4, <2>5, <2>6, <2>7, <2>8 DEF Next, Advance
<1> QED
  BY <1>1, StoreTyped, PTL DEF Spec, ColumnsKept

-----------------------------------------------------------------------------
(* The refinement.                                                         *)

Abstract(cs) == [c \in Calls |-> Shown(cs[c])]

LEMMA SameRequests == Promise!Request = Request
BY DEF Promise!Request, Request

LEMMA SameRows == Promise!NoRow = NoRow
BY DEF Promise!NoRow, NoRow, Promise!Column, Column

LEMMA RunApplies ==
    ASSUME TypeOK, NEW r \in Request, Run(r)
    PROVE  Promise!Applied(r)
<1>1. r.key \in Keys /\ jobs \in [Keys -> Row] /\ jobs[r.key] \in Row
      /\ others \in [Keys -> Values \cup {None}]
  BY RequestFields DEF TypeOK
<1>2. others' = [others EXCEPT ![r.key] = Promise!OtherAfter(others[r.key], r)]
  BY <1>1 DEF Run, Promise!OtherAfter
<1>3. jobs' = [jobs EXCEPT ![r.key] = Promise!JobAfter(jobs[r.key], r)]
  <2> DEFINE row == jobs[r.key]
  <2>1. CASE r.op = "putJob"
    <3>1. jobs' = [jobs EXCEPT ![r.key] = Upsert(row, r)]
      BY <2>1 DEF Run
    <3>2. Upsert(row, r) = [row EXCEPT !["brief"] = r.value,
                                       !["createdTx"] = IF r.tx = None THEN row["createdTx"] ELSE r.tx]
      <4>1. row \in Row
        BY <1>1
      <4> HIDE DEF row
      <4>2. CASE row = NoRow
        BY <4>1, <4>2, NoRowTyped DEF Upsert, Row, Column
      <4>3. CASE row # NoRow
        BY <4>1, <4>3 DEF Upsert, Row, Column
      <4> QED
        BY <4>2, <4>3
    <3>3. Promise!JobAfter(row, r) =
            [row EXCEPT !["brief"] = r.value,
                        !["createdTx"] = IF r.tx = None THEN row["createdTx"] ELSE r.tx]
      BY <1>1, <2>1 DEF Promise!JobAfter, Row, Column
    <3> QED
      BY <3>1, <3>2, <3>3
  <2>2. CASE r.op = "updateJob"
    BY <2>2, SameRows DEF Run, UpdateRow, Promise!JobAfter
  <2>3. CASE r.op \notin {"putJob", "updateJob"}
    BY <1>1, <2>3 DEF Run, Promise!JobAfter
  <2> QED
    BY <2>1, <2>2, <2>3
<1> QED
  BY <1>2, <1>3 DEF Promise!Applied

LEMMA SameAnswers ==
    ASSUME NEW r \in Request, NEW rows, NEW other
    PROVE  Promise!Answer(r, rows, other) = Returned(r, rows, other)
BY RequestFields DEF Promise!Answer, Returned

\* What the promise sees of a call.
LEMMA ShownFields ==
    ASSUME NEW call
    PROVE  Shown(call).step = Step(call.step) /\ Shown(call).request = call.request
           /\ Shown(call).answer = call.answer
BY DEF Shown

LEMMA InitShown == Init => Promise!Init
<1> SUFFICES ASSUME Init PROVE Promise!Init
  OBVIOUS
<1>1. Shown(Idle) = Promise!Idle
  BY DEF Shown, Idle, Promise!Idle, Step
<1> QED
  BY <1>1, SameRows DEF Init, Promise!Init

\* Several calls fail.
LEMMA FailShown ==
    ASSUME TypeOK, NEW C \in SUBSET Calls, \A c \in C : calls[c].step \notin Ended,
           \/ GivenUp(C)
           \/ calls' = Failed(C) /\ UNCHANGED late,
           UNCHANGED <<jobs, others>>
    PROVE  Promise!Fail(C)
<1> DEFINE gone == [Idle EXCEPT !.step = "failed"]
<1>1. Shown(gone) = [Promise!Idle EXCEPT !.step = "failed"]
  BY DEF Shown, Idle, Promise!Idle, Step
<1>2. calls' = [c \in Calls |-> IF c \in C THEN gone ELSE calls[c]]
  BY DEF GivenUp, Failed
<1>3. Abstract(calls') =
        [c \in Calls |-> IF c \in C THEN [Promise!Idle EXCEPT !.step = "failed"]
                         ELSE Abstract(calls)[c]]
  <2> HIDE DEF gone
  <2> QED
    BY <1>1, <1>2 DEF Abstract
<1>4. ASSUME NEW c \in C PROVE Abstract(calls)[c].step \in {"asked", "applied"}
  <2>1. calls[c].step \in {"init", "query", "ran"}
    BY CallStateFields DEF TypeOK
  <2> QED
    BY <2>1, ShownFields DEF Abstract, Step
<1>5. late' \in SUBSET (late \cup {Abstract(calls)[c].request :
                                    c \in {d \in C : Abstract(calls)[d].step = "asked"}})
  <2>1. late' \subseteq late \cup {calls[c].request : c \in {d \in C : calls[d].step = "query"}}
    BY GivenUpTyped
  <2>2. ASSUME NEW c \in C, calls[c].step = "query"
        PROVE  Abstract(calls)[c].step = "asked" /\ Abstract(calls)[c].request = calls[c].request
    BY <2>2, ShownFields DEF Abstract, Step
  <2> QED
    BY <2>1, <2>2
<1> QED
  BY <1>3, <1>4, <1>5 DEF Promise!Fail, Abstract

LEMMA StepShown == TypeOK /\ [Next]_vars => [Promise!Next]_(Promise!vars)
<1> SUFFICES ASSUME TypeOK, [Next]_vars
             PROVE  Promise!Next \/ UNCHANGED Promise!vars
  OBVIOUS
<1>1. ASSUME UNCHANGED <<jobs, others, late>>, Abstract(calls') = Abstract(calls)
      PROVE  UNCHANGED Promise!vars
  BY <1>1 DEF Promise!vars, Abstract
<1>2. ASSUME NEW c \in Calls, NEW p \in Procs, NEW r \in Request, Call(c, p, r)
      PROVE  Promise!Ask(c, r)
  <2> DEFINE new == [step |-> "init", proc |-> p, request |-> r, answer |-> None]
  <2>1. Shown(new) = [step |-> "asked", request |-> r, answer |-> None]
    BY DEF Shown, Step
  <2>2. calls' = [calls EXCEPT ![c] = new] /\ calls[c].step \in Ended
        /\ UNCHANGED <<jobs, others, late>>
    BY <1>2 DEF Call, tables
  <2> HIDE DEF new
  <2>3. Abstract(calls') =
          [Abstract(calls) EXCEPT ![c] = [step |-> "asked", request |-> r, answer |-> None]]
    BY <2>1, <2>2 DEF Abstract, TypeOK
  <2>4. Abstract(calls)[c].step \in {"idle", "answered", "failed"}
    BY <2>2, ShownFields DEF Abstract, Step, Ended
  <2> QED
    BY <2>2, <2>3, <2>4 DEF Promise!Ask, Abstract
<1>3. ASSUME NEW p \in Procs, SchemaCreated(p) \/ SchemaFails(p)
      PROVE  UNCHANGED Promise!vars
  BY <1>1, <1>3 DEF SchemaCreated, SchemaFails
<1>4. ASSUME NEW c \in Calls, Sends(c) PROVE UNCHANGED Promise!vars
  <2> DEFINE new == [calls[c] EXCEPT !.step = "query"]
  <2>1. /\ new.step = "query" /\ new.request = calls[c].request /\ new.answer = calls[c].answer
        /\ calls[c].step = "init"
    BY <1>4, CallStateFields DEF Sends, TypeOK
  <2>2. calls' = [calls EXCEPT ![c] = new] /\ UNCHANGED <<jobs, others, late>>
    BY <1>4 DEF Sends, tables
  <2> HIDE DEF new
  <2>3. Shown(new) = Shown(calls[c])
    BY <2>1 DEF Shown, Step
  <2>4. Abstract(calls') = Abstract(calls)
    BY <2>2, <2>3 DEF Abstract, TypeOK
  <2> QED
    BY <1>1, <2>2, <2>4
<1>5. ASSUME NEW c \in Calls, InitRejects(c) PROVE Promise!Fail({c})
  <2>1. /\ calls' = Failed({c}) /\ UNCHANGED late /\ UNCHANGED <<jobs, others>>
        /\ {c} \in SUBSET Calls /\ \A d \in {c} : calls[d].step \notin Ended
    BY <1>5 DEF InitRejects, Rejected, Ended, tables
  <2> QED
    BY <2>1, FailShown
<1>6. ASSUME NEW c \in Calls, Runs(c) PROVE Promise!Apply(c)
  <2> DEFINE r == calls[c].request
  <2> DEFINE a == Returned(r, jobs', others')
  <2>1. calls[c] \in CallState /\ r \in Request /\ calls[c].step = "query"
    BY <1>6, TypeParts DEF Runs, Proper, Ended
  <2>2. Run(r) /\ UNCHANGED late
        /\ calls' = [calls EXCEPT ![c].step = "ran", ![c].answer = a]
    BY <1>6 DEF Runs
  <2>3. Promise!Applied(r) /\ Promise!Answer(r, jobs', others') = a
    BY <2>1, <2>2, RunApplies, SameAnswers
  <2>4. Abstract(calls)[c].step = "asked" /\ Abstract(calls)[c].request = r
    BY <2>1, ShownFields DEF Abstract, Step
  <2>5. Abstract(calls') = [Abstract(calls) EXCEPT ![c].step = "applied", ![c].answer = a]
    <3> DEFINE new == [calls[c] EXCEPT !.step = "ran", !.answer = a]
    <3> HIDE DEF a
    <3>1. new = [step |-> "ran", proc |-> calls[c].proc, request |-> r, answer |-> a]
      <4> DEFINE call == calls[c]
      <4> DEFINE q == [call EXCEPT !.step = "ran"]
      <4>1. q = [step |-> "ran", proc |-> call.proc, request |-> call.request,
                 answer |-> call.answer]
        BY <2>1, CallStateFields
      <4>2. new = [q EXCEPT !.answer = a]
        OBVIOUS
      <4>3. [q EXCEPT !.answer = a] =
            [step |-> "ran", proc |-> call.proc, request |-> call.request, answer |-> a]
        <5> HIDE DEF q, call
        <5> QED
          BY <4>1
      <4> QED
        BY <4>2, <4>3
    <3>2. calls' = [calls EXCEPT ![c] = new]
      BY <2>2 DEF TypeOK
    <3> HIDE DEF new
    <3>3. Shown(new) = [step |-> "applied", request |-> r, answer |-> a]
      BY <3>1 DEF Shown, Step
    <3>4. Abstract(calls)[c] = [step |-> "asked", request |-> r, answer |-> calls[c].answer]
      BY <2>1 DEF Abstract, Shown, Step
    <3>5. Abstract(calls') = [Abstract(calls) EXCEPT ![c] = [step |-> "applied", request |-> r,
                                                             answer |-> a]]
      BY <3>2, <3>3 DEF Abstract, TypeOK
    <3>6. [Abstract(calls) EXCEPT ![c].step = "applied", ![c].answer = a] =
          [Abstract(calls) EXCEPT ![c] = [step |-> "applied", request |-> r, answer |-> a]]
      <4> DEFINE f == Abstract(calls)
      <4> DEFINE y == [step |-> "asked", request |-> r, answer |-> calls[c].answer]
      <4> DEFINE z == [step |-> "applied", request |-> r, answer |-> calls[c].answer]
      <4> DEFINE w == [step |-> "applied", request |-> r, answer |-> a]
      <4> DEFINE g == [f EXCEPT ![c].step = "applied"]
      <4>1. f = [d \in Calls |-> f[d]] /\ f[c] = y
        BY <3>4 DEF Abstract
      <4>2. [y EXCEPT !.step = "applied"] = z /\ [z EXCEPT !.answer = a] = w
        OBVIOUS
      <4>3. [f EXCEPT ![c].step = "applied", ![c].answer = a] = [g EXCEPT ![c].answer = a]
        OBVIOUS
      <4> HIDE DEF f, y, z, w
      <4>4. g = [f EXCEPT ![c] = z]
        BY <4>1, <4>2
      <4>5. g = [d \in Calls |-> IF d = c THEN z ELSE f[d]]
        BY <4>1, <4>4
      <4> HIDE DEF g
      <4>6. [g EXCEPT ![c].answer = a] = [d \in Calls |-> IF d = c THEN w ELSE f[d]]
        BY <4>2, <4>5
      <4>7. [f EXCEPT ![c] = w] = [d \in Calls |-> IF d = c THEN w ELSE f[d]]
        BY <4>1
      <4>8. [g EXCEPT ![c].answer = a] = [f EXCEPT ![c] = w]
        BY <4>6, <4>7
      <4> QED
        BY <4>3, <4>8 DEF f, g, w
    <3> QED
      BY <3>5, <3>6
  <2> HIDE DEF r, a
  <2> QED
    BY <2>2, <2>3, <2>4, <2>5 DEF Promise!Apply, Abstract
<1>7. ASSUME NEW c \in Calls, Answers(c) PROVE Promise!Return(c)
  <2> DEFINE new == [Idle EXCEPT !.step = "answered"]
  <2>1. Shown(new) = [Promise!Idle EXCEPT !.step = "answered"]
    BY DEF Shown, Idle, Promise!Idle, Step
  <2>2. calls' = [calls EXCEPT ![c] = new] /\ calls[c].step = "ran"
        /\ UNCHANGED <<jobs, others, late>>
    BY <1>7 DEF Answers, tables
  <2> HIDE DEF new
  <2>3. Abstract(calls') = [Abstract(calls) EXCEPT ![c] = [Promise!Idle EXCEPT !.step = "answered"]]
    BY <2>1, <2>2 DEF Abstract, TypeOK
  <2>4. Abstract(calls)[c].step = "applied"
    BY <2>2, ShownFields DEF Abstract, Step
  <2> QED
    BY <2>2, <2>3, <2>4 DEF Promise!Return, Abstract
<1>8. ASSUME NEW c \in Calls, QueryFails(c) PROVE Promise!Fail({c})
  <2>1. /\ GivenUp({c}) /\ UNCHANGED <<jobs, others>>
        /\ {c} \in SUBSET Calls /\ \A d \in {c} : calls[d].step \notin Ended
    BY <1>8 DEF QueryFails, Ended, tables
  <2> QED
    BY <2>1, FailShown
<1>9. ASSUME NEW p \in Procs, Crash(p)
      PROVE  Promise!Fail({c \in Calls : calls[c].step \notin Ended /\ calls[c].proc = p})
  <2> DEFINE C == {c \in Calls : calls[c].step \notin Ended /\ calls[c].proc = p}
  <2>1. /\ GivenUp(C) /\ UNCHANGED <<jobs, others>>
        /\ C \in SUBSET Calls /\ \A d \in C : calls[d].step \notin Ended
    BY <1>9 DEF Crash
  <2> HIDE DEF C
  <2>2. Promise!Fail(C)
    BY <2>1, FailShown
  <2> QED
    BY <2>2 DEF C
<1>10. ASSUME NEW r \in late, RunsLate(r) PROVE Promise!ApplyLate(r)
  <2>1. r \in Request /\ Run(r) /\ late' = late \ {r} /\ calls' = calls
    BY <1>10 DEF RunsLate, TypeOK
  <2>2. Promise!Applied(r)
    BY <2>1, RunApplies
  <2> QED
    BY <2>1, <2>2 DEF Promise!ApplyLate
<1>11. CASE UNCHANGED vars
  BY <1>1, <1>11 DEF vars, tables
<1>12. ASSUME NEW c \in Calls, Advance(c) \/ QueryFails(c)
       PROVE  Promise!Next \/ UNCHANGED Promise!vars
  BY <1>4, <1>5, <1>6, <1>7, <1>8, <1>12 DEF Advance, Promise!Next
<1>13. ASSUME NEW p \in Procs, SchemaCreated(p) \/ SchemaFails(p) \/ Crash(p)
       PROVE  Promise!Next \/ UNCHANGED Promise!vars
  BY <1>3, <1>9, <1>13 DEF Promise!Next
<1> QED
  BY <1>2, <1>10, <1>11, <1>12, <1>13, SameRequests DEF Next, Promise!Next

\* lib/store/types.ts: whatever fails, dies or arrives late, each call of the
\* Store takes effect at one instant, or not at all, or later than its failure.
THEOREM PromiseKept == Spec => KeepsPromise
BY InitShown, StepShown, StoreTyped, PTL DEF Spec, KeepsPromise, Promise!Spec
=============================================================================

--------------------------- MODULE PostgresStore ---------------------------
(***************************************************************************)
(* The Postgres store, apps/web/src/lib/store/postgres-store.ts, as the    *)
(* server processes share it: serverless instances or workers, each with a *)
(* store of its own (getStore) that creates the schema before its first    *)
(* query, over one database.                                               *)
(*                                                                         *)
(* Each call awaits init(), sends one statement and awaits its answer.     *)
(* Any query may fail; a process may die.  A statement that was sent runs  *)
(* to its end at the server, whoever still waits for it.                   *)
(*                                                                         *)
(* Abstracted: of a job's columns the brief (set by every putJob), the     *)
(* delivery (and what updateJob sets with it) and createdTx are kept;      *)
(* evaluations and watermarks are replaced whole; listJobs is a getJob of  *)
(* several rows; one statement is one step at the server.                  *)
(***************************************************************************)
EXTENDS Integers, FiniteSets

CONSTANTS
    Procs,      \* processes
    Calls,      \* calls in flight, one slot each
    Keys,       \* (chain_id, contract_address, job_id), lower-cased
    Values,     \* what a column or a row may hold
    None,       \* null
    MaxLate     \* bound: statements that outlive the call that sent them

Column == {"brief", "delivery", "createdTx"}
Row == [Column -> Values \cup {None}]
NoRow == [c \in Column |-> None]

Request ==
    [op : {"getJob", "getOther"}, key : Keys, value : {None}, tx : {None}]
        \cup [op : {"putJob"}, key : Keys, value : Values, tx : Values \cup {None}]
        \cup [op : {"updateJob", "putOther"}, key : Keys, value : Values, tx : {None}]

Ready == {"pending", "done", "rejected"}

ASSUME NoneAssumption ==
    /\ None \notin Values \cup Procs \cup Request \cup Row \cup Ready
    /\ Values # {}

VARIABLES
    jobs, others,  \* the tables: jobs, and evaluations or watermarks
    schema,        \* whether the tables exist
    ready,         \* ready[p]: this.ready of p's store
    calls,         \* calls[c]: where the call is
    late           \* statements sent by calls that have failed since

tables == <<jobs, others, schema>>
vars == <<tables, ready, calls, late>>

Idle == [step |-> "idle", proc |-> None, request |-> None, answer |-> None]

Init ==
    /\ jobs = [k \in Keys |-> NoRow]
    /\ others = [k \in Keys |-> None]
    /\ schema = FALSE
    /\ ready = [p \in Procs |-> None]
    /\ calls = [c \in Calls |-> Idle]
    /\ late = {}

-----------------------------------------------------------------------------
(* Faulty variants, used by the mutants of PROJECT.json only.              *)

\* An upsert that writes every column.
UpsertAll(row, r) ==
    [row EXCEPT !["brief"] = r.value, !["delivery"] = None, !["createdTx"] = r.tx]

\* UPDATE as an upsert.
UpdateInserts(row, r) == [row EXCEPT !["delivery"] = r.value]

\* The tables taken to exist.
SchemaSkipped(p) == ready' = [ready EXCEPT ![p] = IF @ = None THEN "done" ELSE @]

-----------------------------------------------------------------------------
(* The statements, at the server.                                          *)

\* INSERT ... ON CONFLICT DO UPDATE: the delivery's columns are not in it.
Upsert(row, r) ==
    IF row = NoRow
    THEN [NoRow EXCEPT !["brief"] = r.value, !["createdTx"] = r.tx]
    ELSE [row EXCEPT !["brief"] = r.value,
                     !["createdTx"] = IF r.tx # None THEN r.tx ELSE @]  \* COALESCE

\* UPDATE ... WHERE: no row, no update.
UpdateRow(row, r) ==
    IF row = NoRow THEN row ELSE [row EXCEPT !["delivery"] = r.value]

Run(r) ==
    /\ jobs' = CASE r.op = "putJob" -> [jobs EXCEPT ![r.key] = Upsert(@, r)]
                 [] r.op = "updateJob" -> [jobs EXCEPT ![r.key] = UpdateRow(@, r)]
                 [] OTHER -> jobs
    /\ others' = IF r.op = "putOther" THEN [others EXCEPT ![r.key] = r.value] ELSE others
    /\ UNCHANGED schema

\* What toJob and toEvaluation make of the rows that come back.
Returned(r, rows, other) ==
    CASE r.op = "getJob" -> rows[r.key]
      [] r.op = "updateJob" -> rows[r.key]  \* RETURNING *
      [] r.op = "getOther" -> other[r.key]
      [] OTHER -> None

-----------------------------------------------------------------------------
(* The store in a process.                                                 *)

\* init(): this.ready ??= ...
StartInit(p) == ready' = [ready EXCEPT ![p] = IF @ = None THEN "pending" ELSE @]

Ended == {"idle", "answered", "failed"}

Call(c, p, r) ==
    /\ calls[c].step \in Ended
    /\ calls' = [calls EXCEPT ![c] = [step |-> "init", proc |-> p,
                                      request |-> r, answer |-> None]]
    /\ StartInit(p)
    /\ UNCHANGED <<tables, late>>

SchemaCreated(p) ==
    /\ ready[p] = "pending"
    /\ schema' = TRUE
    /\ ready' = [ready EXCEPT ![p] = "done"]
    /\ UNCHANGED <<jobs, others, calls, late>>

\* The connection fails, before or after, or another process is creating the
\* same tables.  this.ready keeps the rejection.
SchemaFails(p) ==
    /\ ready[p] = "pending"
    /\ ready' = [ready EXCEPT ![p] = "rejected"]
    /\ schema' \in {schema, TRUE}
    /\ UNCHANGED <<jobs, others, calls, late>>

Sends(c) ==
    /\ calls[c].step = "init" /\ ready[calls[c].proc] = "done"
    /\ calls' = [calls EXCEPT ![c].step = "query"]
    /\ UNCHANGED <<tables, ready, late>>

Failed(C) == [c \in Calls |-> IF c \in C THEN [Idle EXCEPT !.step = "failed"] ELSE calls[c]]

Rejected(c) == calls[c].step = "init" /\ ready[calls[c].proc] = "rejected"

InitRejects(c) ==
    /\ Rejected(c)
    /\ calls' = Failed({c})
    /\ UNCHANGED <<tables, ready, late>>

Runs(c) ==
    LET r == calls[c].request IN
    /\ calls[c].step = "query" /\ schema
    /\ Run(r)
    /\ calls' = [calls EXCEPT ![c].step = "ran", ![c].answer = Returned(r, jobs', others')]
    /\ UNCHANGED <<ready, late>>

Answers(c) ==
    /\ calls[c].step = "ran"
    /\ calls' = [calls EXCEPT ![c] = [Idle EXCEPT !.step = "answered"]]
    /\ UNCHANGED <<tables, ready, late>>

\* The statements under way of calls that are given up on; of reads nothing is
\* left.
Sent(C) ==
    {r \in {calls[c].request : c \in {d \in C : calls[d].step = "query"}} :
        r.op \notin {"getJob", "getOther"}}

GivenUp(C) ==
    /\ calls' = Failed(C)
    /\ late' \in {late, late \cup Sent(C)}
    /\ Cardinality(late') <= MaxLate

QueryFails(c) ==
    /\ calls[c].step \in {"query", "ran"}
    /\ GivenUp({c})
    /\ UNCHANGED <<tables, ready>>

RunsLate(r) ==
    /\ r \in late
    /\ Run(r)
    /\ late' = late \ {r}
    /\ UNCHANGED <<ready, calls>>

\* The process dies, or is frozen for good; another may take its place.
Crash(p) ==
    /\ ready[p] # None
    /\ GivenUp({c \in Calls : calls[c].step \notin Ended /\ calls[c].proc = p})
    /\ ready' = [ready EXCEPT ![p] = None]
    /\ schema' \in {schema, schema \/ ready[p] = "pending"}
    /\ UNCHANGED <<jobs, others>>

Advance(c) == Sends(c) \/ InitRejects(c) \/ Runs(c) \/ Answers(c)

Next ==
    \/ \E c \in Calls, p \in Procs, r \in Request : Call(c, p, r)
    \/ \E p \in Procs : SchemaCreated(p) \/ SchemaFails(p) \/ Crash(p)
    \/ \E c \in Calls : Advance(c) \/ QueryFails(c)
    \/ \E r \in late : RunsLate(r)

Spec == Init /\ [][Next]_vars

-----------------------------------------------------------------------------
(* Properties.                                                             *)

CallState == [step : Ended \cup {"init", "query", "ran"}, proc : Procs \cup {None},
              request : Request \cup {None}, answer : Row \cup Values \cup {None}]

\* Types; no statement is under way before the tables exist.
TypeOK ==
    /\ jobs \in [Keys -> Row]
    /\ others \in [Keys -> Values \cup {None}]
    /\ schema \in BOOLEAN
    /\ ready \in [Procs -> Ready \cup {None}]
    /\ calls \in [Calls -> CallState]
    /\ late \subseteq Request
    /\ \A c \in Calls : calls[c].step \notin Ended =>
          calls[c].proc \in Procs /\ calls[c].request \in Request
    /\ \A p \in Procs : ready[p] = "done" => schema
    /\ late # {} => schema
    /\ \A c \in Calls : calls[c].step \in {"query", "ran"} => ready[calls[c].proc] = "done"

\* Whatever is posted again, in whatever order and however late, a brief, a
\* delivery or the transaction of a job that was stored is not lost: it changes
\* only for another one.
ColumnsKept ==
    [][\A k \in Keys, c \in Column : jobs[k][c] # None => jobs'[k][c] # None]_jobs

\* The promise of the store.
Step(step) ==
    CASE step \in {"init", "query"} -> "asked" [] step = "ran" -> "applied" [] OTHER -> step

Shown(call) == [step |-> Step(call.step), request |-> call.request, answer |-> call.answer]

Promise == INSTANCE StorePromise WITH calls <- [c \in Calls |-> Shown(calls[c])]

KeepsPromise == Promise!Spec

=============================================================================

----------------------------- MODULE FileStore -----------------------------
(***************************************************************************)
(* The JSON file store, apps/web/src/lib/store/file-store.ts: a cache that *)
(* the first access of a process fills, a queue that serialises mutations, *)
(* and a file replaced by rename.                                          *)
(*                                                                         *)
(* One action per await.  The cache is a reference to an object: each call *)
(* that loads makes an object of its own (a call loads at most once, and a *)
(* slot is not used for another load before the process restarts, since    *)
(* nothing but a crash empties the cache).                                 *)
(*                                                                         *)
(* Abstracted: a record is None, "brief" or "full" (with the delivery).    *)
(* putEvaluation and setWatermark are mutations like putJob.               *)
(***************************************************************************)
EXTENDS Integers, Sequences

CONSTANTS
    Keys,       \* jobs, evaluations, watermarks
    Writers,    \* calls in flight of putJob and updateJob, one slot each
    Readers,    \* calls in flight of getJob and listJobs
    None        \* no record, no object

Calls == Writers \cup Readers

ASSUME CallAssumption == None \notin Calls /\ Writers \cap Readers = {}
Record == {"brief", "full"}

ASSUME RecordAssumption == None \notin Record

Contents == [Keys -> Record \cup {None}]
Empty == [k \in Keys |-> None]

VARIABLES
    disk,     \* the file (Empty while there is none)
    cache,    \* this.cache: the call whose object it is, or None
    object,   \* object[c]: the object that call c has made by loading
    queue,    \* this.queue: the mutations that have not ended, in order
    calls,    \* calls[c]: where the call is and what it holds
    may,      \* history: may[k] is what key k may rightly hold: what the last
              \* successful mutation left there, or what a later one tried to
    touched,  \* history: the keys that mutations of this process have changed
    replaced  \* history: whether a load has ever replaced a cache that another
              \* call had filled

history == <<may, touched, replaced>>
vars == <<disk, cache, object, queue, calls, history>>

Idle == [step |-> "idle", op |-> "get", key |-> None, read |-> Empty, data |-> None]

Init ==
    /\ disk = Empty
    /\ cache = None
    /\ object = [c \in Calls |-> Empty]
    /\ queue = <<>>
    /\ calls = [c \in Calls |-> Idle]
    /\ may = [k \in Keys |-> {None}]
    /\ touched = {}
    /\ replaced = FALSE

-----------------------------------------------------------------------------
(* Faulty variants, used by the mutants of PROJECT.json only.              *)

\* Mutations that do not wait for one another.
NoQueue(c) == TRUE

\* An updateJob that does not look whether there is a record to patch.
PatchesNothing(op, old) == IF op = "put" THEN "brief" ELSE IF old = None THEN "patch" ELSE "full"

\* Writing to the file itself instead of a temporary one.
InPlace(c) == Empty

-----------------------------------------------------------------------------
At(c, step) == calls[c].step = step

Goes(c, step) == calls' = [calls EXCEPT ![c].step = step]

End(c) == calls' = [calls EXCEPT ![c] = Idle]

(* load: at once from the cache, otherwise from the file.                  *)

Warm(c) == cache # None

\* readFile takes the file as it is when it is opened.
LoadStarts(c, from, reading) ==
    /\ At(c, from) /\ ~Warm(c)
    /\ calls' = [calls EXCEPT ![c].step = reading, ![c].read = disk]
    /\ UNCHANGED <<disk, cache, object, queue, history>>

\* The object becomes the cache, even if another call has filled it meanwhile.
LoadEnds(c, reading, next) ==
    /\ At(c, reading)
    /\ object' = [object EXCEPT ![c] = calls[c].read]
    /\ cache' = c
    /\ replaced' = (replaced \/ cache # None)
    /\ calls' = [calls EXCEPT ![c].step = next, ![c].read = Empty, ![c].data = c]
    /\ UNCHANGED <<disk, queue, may, touched>>

LoadIsCached(c, from, next) ==
    /\ At(c, from) /\ Warm(c)
    /\ calls' = [calls EXCEPT ![c].step = next, ![c].data = cache]
    /\ UNCHANGED <<disk, cache, object, queue, history>>

\* A read error or a file that does not parse.
LoadFails(c, reading) ==
    /\ At(c, reading)
    /\ End(c)
    /\ queue' = IF c \in Writers THEN Tail(queue) ELSE queue
    /\ UNCHANGED <<disk, cache, object, history>>

-----------------------------------------------------------------------------
(* putJob and updateJob: mutation.                                         *)

Mutate(c, op, k) ==
    /\ At(c, "idle")
    /\ calls' = [calls EXCEPT ![c] = [Idle EXCEPT !.step = "queued", !.op = op, !.key = k]]
    /\ queue' = Append(queue, c)
    /\ UNCHANGED <<disk, cache, object, history>>

MyTurn(c) == queue # <<>> /\ Head(queue) = c

TurnComes(c) ==
    /\ At(c, "queued") /\ MyTurn(c)
    /\ Goes(c, "load")
    /\ UNCHANGED <<disk, cache, object, queue, history>>

\* putJob replaces the record, updateJob patches one that exists.
Patched(op, old) ==
    IF op = "put" THEN "brief" ELSE IF old = None THEN None ELSE "full"

\* mutate(data): at once in the object that load returned.
MutationApplies(c) ==
    LET call == calls[c]
        new == Patched(call.op, object[call.data][call.key])
    IN  /\ At(c, "mutate")
        /\ object' = [object EXCEPT ![call.data][call.key] = new]
        /\ may' = [may EXCEPT ![call.key] = @ \cup {new}]
        /\ touched' = touched \cup {call.key}
        /\ Goes(c, "flush")
        /\ UNCHANGED <<disk, cache, queue, replaced>>

\* The file while the temporary one is written.
WhileWriting(c) == disk

\* mkdir, then writeFile of the object as it is now to the temporary file.
FlushWrites(c) ==
    /\ At(c, "flush")
    /\ calls' = [calls EXCEPT ![c].step = "rename", ![c].read = object[calls[c].data]]
    /\ disk' = WhileWriting(c)
    /\ UNCHANGED <<cache, object, queue, history>>

\* rename, and the mutation returns to its caller.
FlushRenames(c) ==
    LET k == calls[c].key IN
    /\ At(c, "rename")
    /\ disk' = calls[c].read
    /\ may' = [may EXCEPT ![k] = {calls[c].read[k]}]
    /\ queue' = Tail(queue)
    /\ End(c)
    /\ UNCHANGED <<cache, object, touched, replaced>>

\* mkdir, writeFile or rename fails: the caller gets the error, the object
\* keeps the change.
FlushFails(c) ==
    /\ calls[c].step \in {"flush", "rename"}
    /\ queue' = Tail(queue)
    /\ End(c)
    /\ UNCHANGED <<disk, cache, object, history>>

-----------------------------------------------------------------------------
(* getJob and the other reads: they do not queue.                          *)

Get(c) ==
    /\ At(c, "idle")
    /\ calls' = [calls EXCEPT ![c] = [Idle EXCEPT !.step = "get"]]
    /\ UNCHANGED <<disk, cache, object, queue, history>>

\* The records are taken from the object that load returned.
GetReturns(c) ==
    /\ At(c, "return")
    /\ End(c)
    /\ UNCHANGED <<disk, cache, object, queue, history>>

-----------------------------------------------------------------------------
\* The process ends: nothing is left but the file.
Crash ==
    /\ cache' = None
    /\ object' = [c \in Calls |-> Empty]
    /\ queue' = <<>>
    /\ calls' = [c \in Calls |-> Idle]
    /\ touched' = {}
    /\ UNCHANGED <<disk, may, replaced>>

WriterStep(c) ==
    \/ \E op \in {"put", "update"}, k \in Keys : Mutate(c, op, k)
    \/ TurnComes(c)
    \/ LoadStarts(c, "load", "reading") \/ LoadEnds(c, "reading", "mutate")
    \/ LoadIsCached(c, "load", "mutate") \/ LoadFails(c, "reading")
    \/ MutationApplies(c)
    \/ FlushWrites(c) \/ FlushRenames(c) \/ FlushFails(c)

ReaderStep(c) ==
    \/ Get(c)
    \/ LoadStarts(c, "get", "getting") \/ LoadEnds(c, "getting", "return")
    \/ LoadIsCached(c, "get", "return") \/ LoadFails(c, "getting")
    \/ GetReturns(c)

Next ==
    \/ \E c \in Writers : WriterStep(c)
    \/ \E c \in Readers : ReaderStep(c)
    \/ Crash

Spec == Init /\ [][Next]_vars

-----------------------------------------------------------------------------
(* Properties.                                                             *)

\* Types.
Call == [step : {"idle", "queued", "load", "reading", "mutate", "flush", "rename",
                 "get", "getting", "return"},
         op : {"put", "update", "get"}, key : Keys \cup {None},
         read : Contents, data : Calls \cup {None}]

TypeOK ==
    /\ disk \in Contents
    /\ cache \in Calls \cup {None}
    /\ object \in [Calls -> Contents]
    /\ queue \in Seq(Writers)
    /\ calls \in [Calls -> Call]
    /\ may \in [Keys -> SUBSET (Record \cup {None})]
    /\ touched \subseteq Keys
    /\ replaced \in BOOLEAN

\* What file-store.ts:6 says the store must do: what a caller was told is
\* stored stays in the file, through crashes, failed mutations and mutations of
\* other records, until a later mutation of the same record replaces it.
NothingIsLost == \A k \in Keys : disk[k] \in may[k]

\* It does so as long as no two calls load at once.
StoredIsKept == replaced \/ NothingIsLost

\* As long as that, no read returns a record that a completed mutation has
\* replaced.
ReadsAreCurrent ==
    \A c \in Readers, k \in Keys :
        At(c, "return") => replaced \/ object[calls[c].data][k] \in may[k]

\* The file changes in the records that this process has mutated, and in no
\* other: neither a stale object nor a crash takes older records with it.
OnlyMutatedChange ==
    [][\A k \in Keys : disk'[k] # disk[k] => k \in touched]_vars

=============================================================================

-------------------------- MODULE FileStore_proofs --------------------------
(***************************************************************************)
(* Proofs about FileStore, for any number of records and calls.            *)
(*                                                                         *)
(* The queue is what makes StoredIsKept true: only the head of the queue   *)
(* is past "queued", so nothing changes the cached object between the      *)
(* moment a mutation applies and the moment its copy is renamed into       *)
(* place (Sound).  Without that, a rename could bring an older copy back.  *)
(***************************************************************************)
EXTENDS FileStore, TLAPS

\* Steps of a mutation that has its turn, and steps of a call that has loaded.
Active == {"load", "reading", "mutate", "flush", "rename"}
Holding == {"mutate", "flush", "rename", "return"}
Loading == {"reading", "getting"}

\* A call is where its kind may be; a mutation with its turn is at the head of
\* the queue; what has loaded refers to an object.
Proper(c, call, q, ca) ==
    /\ c \in Readers => call.step \in {"idle", "get", "getting", "return"}
    /\ c \in Writers => call.step \in {"idle", "queued"} \cup Active
    /\ c \in Writers /\ call.step # "idle" => call.key \in Keys
    /\ call.step \in Active => q # <<>> /\ Head(q) = c
    /\ call.step \in Holding => ca # None /\ call.data \in Calls

\* With one load in the life of the cache, every call works on the cached
\* object, and a copy that is being written is the object as it still is.
Sound(call, ca, obj, dk) ==
    /\ call.step \in Holding => call.data = ca
    /\ call.step = "rename" => call.read = obj[ca]
    /\ call.step \in Loading /\ ca = None => call.read = dk

\* Contents that differ from the file in mutated records only.
Apart(a, dk, keys) == \A k \in Keys : a[k] # dk[k] => k \in keys

Near(call, obj, dk, keys) ==
    /\ call.data # None => Apart(obj[call.data], dk, keys)
    /\ call.step \in Loading \cup {"rename"} => Apart(call.read, dk, keys)

\* The file and the cached object hold what they may.
Kept(ca, obj, dk, m) ==
    /\ \A k \in Keys : dk[k] \in m[k]
    /\ ca # None => \A k \in Keys : obj[ca][k] \in m[k]

IInv ==
    /\ TypeOK
    /\ \A c \in Calls : Proper(c, calls[c], queue, cache)
    /\ cache # None => Apart(object[cache], disk, touched)
    /\ \A c \in Calls : Near(calls[c], object, disk, touched)
    /\ replaced \/ (Kept(cache, object, disk, may)
                    /\ \A c \in Calls : Sound(calls[c], cache, object, disk))

-----------------------------------------------------------------------------
\* An idle slot.
LEMMA IdleCall ==
    /\ Idle \in Call /\ Empty \in Contents
    /\ Idle.step = "idle" /\ Idle.data = None /\ Idle.read = Empty
BY DEF Idle, Call, Empty, Contents

\* A slot that changes, the others as they were.
LEMMA OneCallMoves ==
    ASSUME TypeOK, NEW c \in Calls, NEW new \in Call, calls' = [calls EXCEPT ![c] = new]
    PROVE  /\ calls' \in [Calls -> Call]
           /\ calls'[c] = new
           /\ \A d \in Calls : d # c => calls'[d] = calls[d]
BY DEF TypeOK

\* The initial state satisfies the invariant.
LEMMA InitHolds == Init => IInv
<1> SUFFICES ASSUME Init PROVE IInv
  OBVIOUS
<1>1. TypeOK
  <2>1. object \in [Calls -> Contents] /\ calls \in [Calls -> Call] /\ disk \in Contents
    BY IdleCall DEF Init
  <2>2. may \in [Keys -> SUBSET (Record \cup {None})]
    BY DEF Init
  <2>3. cache \in Calls \cup {None} /\ touched \subseteq Keys /\ replaced \in BOOLEAN
    BY DEF Init
  <2>4. queue \in Seq(Writers)
    BY DEF Init
  <2> QED
    BY <2>1, <2>2, <2>3, <2>4 DEF TypeOK
<1>2. \A c \in Calls : calls[c] = Idle
  BY DEF Init
<1>3. \A c \in Calls : Proper(c, calls[c], queue, cache)
  BY <1>2, IdleCall DEF Proper, Active, Holding
<1>4. \A c \in Calls : Near(calls[c], object, disk, touched)
  BY <1>2, IdleCall DEF Near, Loading
<1>5. \A c \in Calls : Sound(calls[c], cache, object, disk)
  BY <1>2, IdleCall DEF Sound, Holding, Loading
<1>6. Kept(cache, object, disk, may) /\ cache = None
  BY DEF Init, Kept, Empty
<1> QED
  BY <1>1, <1>3, <1>4, <1>5, <1>6 DEF IInv

\* A step that moves one call and no data: the call's own parts of the
\* invariant are enough.
LEMMA CallMoves ==
    ASSUME IInv, NEW c \in Calls, NEW new \in Call, calls' = [calls EXCEPT ![c] = new],
           UNCHANGED <<disk, cache, object, history>>, queue' \in Seq(Writers),
           \A d \in Calls \ {c} : Proper(d, calls[d], queue', cache),
           Proper(c, new, queue', cache),
           Near(new, object, disk, touched),
           replaced \/ Sound(new, cache, object, disk)
    PROVE  IInv'
<1>1. TypeOK
  BY DEF IInv
<1>2. /\ calls' \in [Calls -> Call] /\ calls'[c] = new
      /\ \A d \in Calls : d # c => calls'[d] = calls[d]
  BY <1>1, OneCallMoves
<1>3. TypeOK'
  BY <1>1, <1>2 DEF TypeOK, history
<1>4. \A d \in Calls : Proper(d, calls'[d], queue', cache')
  BY <1>2
<1>5. \A d \in Calls : Near(calls'[d], object', disk', touched')
  BY <1>2 DEF IInv, history
<1>6. replaced' \/ (/\ Kept(cache', object', disk', may')
                    /\ \A d \in Calls : Sound(calls'[d], cache', object', disk'))
  BY <1>2 DEF IInv, history
<1>7. cache' # None => Apart(object'[cache'], disk', touched')
  BY DEF IInv, history
<1> QED
  BY <1>3, <1>4, <1>5, <1>6, <1>7 DEF IInv

-----------------------------------------------------------------------------
(* load.                                                                   *)

\* The contents that readFile takes differ from nothing.
LEMMA LoadStartsKeeps ==
    ASSUME IInv, NEW c \in Calls, NEW from, NEW reading, LoadStarts(c, from, reading),
           \/ c \in Writers /\ from = "load" /\ reading = "reading"
           \/ c \in Readers /\ from = "get" /\ reading = "getting"
    PROVE  IInv'
<1> DEFINE new == [calls[c] EXCEPT !.step = reading, !.read = disk]
<1>1. calls[c] \in Call /\ disk \in Contents
  BY DEF IInv, TypeOK
<1>2. /\ new \in Call
      /\ new.step = reading /\ new.read = disk
      /\ new.key = calls[c].key /\ new.data = calls[c].data
  BY <1>1 DEF Call
<1>3. calls' = [calls EXCEPT ![c] = new]
  BY DEF LoadStarts
<1>4. cache = None /\ calls[c].step = from /\ UNCHANGED <<disk, cache, object, queue, history>>
  BY DEF LoadStarts, Warm, At
<1>5. /\ Proper(c, calls[c], queue, cache) /\ Near(calls[c], object, disk, touched)
      /\ queue \in Seq(Writers) /\ \A d \in Calls : Proper(d, calls[d], queue, cache)
  BY DEF IInv, TypeOK
<1> HIDE DEF new
<1>6. Proper(c, new, queue, cache)
  BY <1>2, <1>4, <1>5, CallAssumption DEF Proper, Active, Holding
<1>7. Near(new, object, disk, touched)
  BY <1>2, <1>5 DEF Near, Apart
<1>8. Sound(new, cache, object, disk)
  BY <1>2 DEF Sound, Holding, Loading
<1> QED
  BY <1>2, <1>3, <1>4, <1>5, <1>6, <1>7, <1>8, CallMoves

\* A load that finds the cache returns its object.
LEMMA LoadIsCachedKeeps ==
    ASSUME IInv, NEW c \in Calls, NEW from, NEW next, LoadIsCached(c, from, next),
           \/ c \in Writers /\ from = "load" /\ next = "mutate"
           \/ c \in Readers /\ from = "get" /\ next = "return"
    PROVE  IInv'
<1> DEFINE new == [calls[c] EXCEPT !.step = next, !.data = cache]
<1>1. calls[c] \in Call /\ cache \in Calls \cup {None}
  BY DEF IInv, TypeOK
<1>2. /\ new \in Call
      /\ new.step = next /\ new.data = cache
      /\ new.key = calls[c].key /\ new.read = calls[c].read
  BY <1>1 DEF Call
<1>3. calls' = [calls EXCEPT ![c] = new]
  BY DEF LoadIsCached
<1>4. cache # None /\ calls[c].step = from /\ UNCHANGED <<disk, cache, object, queue, history>>
  BY DEF LoadIsCached, Warm, At
<1>5. /\ Proper(c, calls[c], queue, cache) /\ Apart(object[cache], disk, touched)
      /\ queue \in Seq(Writers) /\ \A d \in Calls : Proper(d, calls[d], queue, cache)
  BY <1>4 DEF IInv, TypeOK
<1> HIDE DEF new
<1>6. Proper(c, new, queue, cache)
  BY <1>1, <1>2, <1>4, <1>5, CallAssumption DEF Proper, Active, Holding
<1>7. Near(new, object, disk, touched)
  BY <1>2, <1>5 DEF Near, Loading
<1>8. Sound(new, cache, object, disk)
  BY <1>2 DEF Sound, Loading
<1> QED
  BY <1>2, <1>3, <1>4, <1>5, <1>6, <1>7, <1>8, CallMoves

\* While the cache is empty no call holds an object, so the first object of the
\* cache is the file, and nothing works on another one.
LEMMA LoadEndsKeeps ==
    ASSUME IInv, NEW c \in Calls, NEW reading, NEW next, LoadEnds(c, reading, next),
           \/ c \in Writers /\ reading = "reading" /\ next = "mutate"
           \/ c \in Readers /\ reading = "getting" /\ next = "return"
    PROVE  IInv'
<1> DEFINE new == [calls[c] EXCEPT !.step = next, !.read = Empty, !.data = c]
           read == calls[c].read
<1>1. TypeOK /\ calls[c] \in Call /\ read \in Contents
  BY DEF IInv, TypeOK, Call
<1>2. /\ new \in Call
      /\ new.step = next /\ new.data = c /\ new.key = calls[c].key
  BY <1>1, IdleCall DEF Call
<1>3. calls' = [calls EXCEPT ![c] = new]
  BY DEF LoadEnds
<1>4. /\ calls[c].step = reading /\ cache' = c /\ UNCHANGED <<disk, queue, may, touched>>
      /\ object' = [object EXCEPT ![c] = read] /\ replaced' = (replaced \/ cache # None)
  BY DEF LoadEnds, At
<1>5. c # None /\ None \notin Calls
  BY CallAssumption DEF Calls
<1> HIDE DEF new
<1>6. /\ calls' \in [Calls -> Call] /\ calls'[c] = new
      /\ \A d \in Calls : d # c => calls'[d] = calls[d]
  BY <1>1, <1>2, <1>3, OneCallMoves
<1>7. /\ object' \in [Calls -> Contents] /\ object'[c] = read
      /\ \A x \in Calls : x # c => object'[x] = object[x]
  BY <1>1, <1>4 DEF TypeOK
<1>8. TypeOK'
  BY <1>1, <1>4, <1>6, <1>7 DEF TypeOK
<1>9. Apart(read, disk, touched)
  BY <1>4 DEF IInv, Near, Loading
<1>10. ASSUME NEW d \in Calls PROVE Proper(d, calls'[d], queue', cache')
  <2>1. Proper(d, calls[d], queue, cache)
    BY DEF IInv
  <2>2. CASE d = c
    BY <1>2, <1>4, <1>5, <1>6, <2>1, <2>2, CallAssumption DEF Proper, Active, Holding
  <2>3. CASE d # c
    BY <1>4, <1>5, <1>6, <2>1, <2>3 DEF Proper
  <2> QED
    BY <2>2, <2>3
<1>11. ASSUME NEW d \in Calls PROVE Near(calls'[d], object', disk', touched')
  <2>1. Near(calls[d], object, disk, touched) /\ calls[d].data \in Calls \cup {None}
    BY <1>1 DEF IInv, TypeOK, Call
  <2>2. CASE d = c
    BY <1>2, <1>4, <1>6, <1>7, <1>9, <2>2 DEF Near, Loading
  <2>3. CASE d # c
    BY <1>4, <1>6, <1>7, <1>9, <2>1, <2>3 DEF Near
  <2> QED
    BY <2>2, <2>3
<1>12. ASSUME ~replaced'
       PROVE  /\ Kept(cache', object', disk', may')
              /\ \A d \in Calls : Sound(calls'[d], cache', object', disk')
  <2>1. /\ cache = None /\ Kept(cache, object, disk, may)
        /\ \A d \in Calls : Sound(calls[d], cache, object, disk)
    BY <1>4, <1>12 DEF IInv
  <2>2. read = disk
    BY <1>4, <2>1 DEF Sound, Loading
  <2>3. Kept(cache', object', disk', may')
    BY <1>4, <1>7, <2>1, <2>2 DEF Kept
  <2>4. ASSUME NEW d \in Calls PROVE Sound(calls'[d], cache', object', disk')
    <3>1. CASE d = c
      BY <1>2, <1>4, <1>5, <1>6, <3>1 DEF Sound, Loading
    <3>2. CASE d # c
      <4>1. calls[d].step \notin Holding /\ calls'[d] = calls[d]
        BY <1>6, <2>1, <3>2 DEF IInv, Proper
      <4> QED
        BY <1>4, <1>5, <4>1 DEF Sound, Holding, Loading
    <3> QED
      BY <3>1, <3>2
  <2> QED
    BY <2>3, <2>4
<1>13. cache' # None => Apart(object'[cache'], disk', touched')
  BY <1>4, <1>7, <1>9
<1> QED
  BY <1>8, <1>10, <1>11, <1>12, <1>13 DEF IInv
-----------------------------------------------------------------------------
(* Calls that end.                                                         *)

\* An idle slot satisfies whatever a call must.
LEMMA IdleKeeps ==
    ASSUME NEW c, NEW q, NEW ca, NEW obj, NEW dk, NEW keys
    PROVE  Proper(c, Idle, q, ca) /\ Near(Idle, obj, dk, keys) /\ Sound(Idle, ca, obj, dk)
<1>1. Idle.step = "idle" /\ Idle.data = None
  BY DEF Idle
<1> QED
  BY <1>1 DEF Proper, Near, Sound, Active, Holding, Loading

\* When the mutation at the head ends, no other has its turn yet.
LEMMA HeadEnds ==
    ASSUME IInv, NEW c \in Calls, calls[c].step \in Active
    PROVE  /\ Tail(queue) \in Seq(Writers)
           /\ \A d \in Calls \ {c} : calls[d].step \notin Active
           /\ \A d \in Calls \ {c} : Proper(d, calls[d], Tail(queue), cache)
<1>1. queue \in Seq(Writers) /\ \A d \in Calls : Proper(d, calls[d], queue, cache)
  BY DEF IInv, TypeOK
<1>2. queue # <<>> /\ Head(queue) = c
  BY <1>1 DEF Proper
<1>3. Tail(queue) \in Seq(Writers)
  BY <1>1, <1>2
<1>4. \A d \in Calls \ {c} : calls[d].step \notin Active
  BY <1>1, <1>2 DEF Proper
<1> QED
  BY <1>1, <1>3, <1>4 DEF Proper

\* A mutation that ends without touching file or cache.
LEMMA HeadEndsKeeps ==
    ASSUME IInv, NEW c \in Calls, calls[c].step \in Active, End(c),
           queue' = Tail(queue), UNCHANGED <<disk, cache, object, history>>
    PROVE  IInv'
<1>1. calls' = [calls EXCEPT ![c] = Idle]
  BY DEF End
<1> QED
  BY <1>1, IdleCall, IdleKeeps, HeadEnds, CallMoves

\* A read that ends.
LEMMA ReadEndsKeeps ==
    ASSUME IInv, NEW c \in Calls, End(c), UNCHANGED <<disk, cache, object, queue, history>>
    PROVE  IInv'
<1>1. /\ calls' = [calls EXCEPT ![c] = Idle] /\ queue \in Seq(Writers)
      /\ \A d \in Calls : Proper(d, calls[d], queue, cache)
  BY DEF End, IInv, TypeOK
<1> QED
  BY <1>1, IdleCall, IdleKeeps, CallMoves

LEMMA LoadFailsKeeps ==
    ASSUME IInv, NEW c \in Calls, NEW reading, LoadFails(c, reading),
           \/ c \in Writers /\ reading = "reading"
           \/ c \in Readers /\ reading = "getting"
    PROVE  IInv'
<1>1. CASE c \in Writers /\ reading = "reading"
  BY <1>1, HeadEndsKeeps DEF LoadFails, At, Active
<1>2. CASE c \in Readers /\ reading = "getting"
  BY <1>2, CallAssumption, ReadEndsKeeps DEF LoadFails
<1> QED
  BY <1>1, <1>2

-----------------------------------------------------------------------------
(* Mutations.                                                              *)

\* A call whose step alone changes.
LEMMA StepMoves ==
    ASSUME IInv, NEW c \in Calls, NEW step,
           step \in {"load", "reading", "mutate", "flush", "rename"},
           Goes(c, step)
    PROVE  LET new == [calls[c] EXCEPT !.step = step]
           IN  /\ calls' = [calls EXCEPT ![c] = new]
               /\ new \in Call /\ new.step = step
               /\ new.key = calls[c].key /\ new.data = calls[c].data /\ new.read = calls[c].read
BY DEF IInv, TypeOK, Call, Goes

\* A mutation joins the queue behind the one that has its turn.
LEMMA MutateKeeps ==
    ASSUME IInv, NEW c \in Writers, NEW op \in {"put", "update"}, NEW k \in Keys,
           Mutate(c, op, k)
    PROVE  IInv'
<1> DEFINE new == [Idle EXCEPT !.step = "queued", !.op = op, !.key = k]
<1>1. new \in Call /\ new.step = "queued" /\ new.key = k /\ new.data = None
  BY IdleCall DEF Call, Idle
<1>2. calls' = [calls EXCEPT ![c] = new] /\ queue' = Append(queue, c)
      /\ UNCHANGED <<disk, cache, object, history>>
  BY DEF Mutate
<1>3. queue \in Seq(Writers) /\ \A d \in Calls : Proper(d, calls[d], queue, cache)
  BY DEF IInv, TypeOK
<1> HIDE DEF new
<1>4. queue' \in Seq(Writers) /\ (queue # <<>> => queue' # <<>> /\ Head(queue') = Head(queue))
  BY <1>2, <1>3
<1>5. \A d \in Calls : Proper(d, calls[d], queue', cache)
  BY <1>3, <1>4 DEF Proper
<1>6. Proper(c, new, queue', cache) /\ Near(new, object, disk, touched)
      /\ Sound(new, cache, object, disk)
  BY <1>1, CallAssumption DEF Proper, Near, Sound, Active, Holding, Loading
<1>7. c \in Calls
  BY DEF Calls
<1> QED
  BY <1>1, <1>2, <1>4, <1>5, <1>6, <1>7, CallMoves

LEMMA TurnComesKeeps ==
    ASSUME IInv, NEW c \in Writers, TurnComes(c)
    PROVE  IInv'
<1> DEFINE new == [calls[c] EXCEPT !.step = "load"]
<1>1. c \in Calls
  BY DEF Calls
<1>2. calls' = [calls EXCEPT ![c] = new] /\ new \in Call /\ new.step = "load"
      /\ new.key = calls[c].key /\ new.data = calls[c].data
  BY <1>1, StepMoves DEF TurnComes
<1>3. calls[c].step = "queued" /\ queue # <<>> /\ Head(queue) = c
      /\ UNCHANGED <<disk, cache, object, queue, history>>
  BY DEF TurnComes, At, MyTurn
<1>4. /\ queue \in Seq(Writers) /\ \A d \in Calls : Proper(d, calls[d], queue, cache)
      /\ Near(calls[c], object, disk, touched)
  BY <1>1 DEF IInv, TypeOK
<1> HIDE DEF new
<1>5. Proper(c, new, queue, cache)
  BY <1>1, <1>2, <1>3, <1>4, CallAssumption DEF Proper, Active, Holding
<1>6. Near(new, object, disk, touched) /\ Sound(new, cache, object, disk)
  BY <1>2, <1>4 DEF Near, Sound, Holding, Loading
<1> QED
  BY <1>1, <1>2, <1>3, <1>4, <1>5, <1>6, CallMoves

\* A record stays a record or nothing.
LEMMA PatchedIsRecord ==
    ASSUME NEW op, NEW old \in Record \cup {None}
    PROVE  Patched(op, old) \in Record \cup {None}
BY DEF Patched, Record

\* A mutation changes one record of its object: what no other call has copied.
LEMMA MutationKeeps ==
    ASSUME IInv, NEW c \in Writers, MutationApplies(c)
    PROVE  IInv'
<1> DEFINE new == [calls[c] EXCEPT !.step = "flush"]
           o == calls[c].data
           k == calls[c].key
           rec == Patched(calls[c].op, object[o][k])
<1>1. c \in Calls /\ calls[c].step = "mutate" /\ TypeOK
  BY DEF Calls, MutationApplies, At, IInv
<1>2. calls' = [calls EXCEPT ![c] = new] /\ new \in Call /\ new.step = "flush"
      /\ new.key = k /\ new.data = o
  BY <1>1, StepMoves DEF MutationApplies
<1>3. Proper(c, calls[c], queue, cache) /\ \A d \in Calls : Proper(d, calls[d], queue, cache)
  BY <1>1 DEF IInv
<1>4. k \in Keys /\ o \in Calls /\ cache # None /\ o # None
  BY <1>1, <1>3, CallAssumption DEF Proper, Holding
<1>5. rec \in Record \cup {None}
  <2>1. object[o][k] \in Record \cup {None}
    BY <1>1, <1>4 DEF TypeOK, Contents
  <2> QED
    BY <2>1, PatchedIsRecord
<1>6. /\ object' = [object EXCEPT ![o][k] = rec]
      /\ may' = [may EXCEPT ![k] = @ \cup {rec}]
      /\ touched' = touched \cup {k} /\ UNCHANGED <<disk, cache, queue, replaced>>
  BY DEF MutationApplies
<1> HIDE DEF new, o, k, rec
<1>7. object \in [Calls -> Contents] /\ may \in [Keys -> SUBSET (Record \cup {None})]
      /\ object[o] \in Contents
  BY <1>1, <1>4 DEF TypeOK
<1>8. /\ object' \in [Calls -> Contents]
      /\ object'[o][k] = rec
      /\ \A j \in Keys : j # k => object'[o][j] = object[o][j]
      /\ \A x \in Calls : x # o => object'[x] = object[x]
  <2> DEFINE a == [object[o] EXCEPT ![k] = rec]
  <2>1. a \in Contents /\ a[k] = rec /\ \A j \in Keys : j # k => a[j] = object[o][j]
    BY <1>4, <1>5, <1>7 DEF Contents
  <2>2. object' = [object EXCEPT ![o] = a]
    BY <1>6
  <2> HIDE DEF a
  <2> QED
    BY <1>4, <1>7, <2>1, <2>2
<1>9. /\ may' \in [Keys -> SUBSET (Record \cup {None})]
      /\ rec \in may'[k] /\ \A j \in Keys : may[j] \subseteq may'[j]
  BY <1>4, <1>5, <1>6, <1>7
<1>10. /\ calls' \in [Calls -> Call] /\ calls'[c] = new
       /\ \A d \in Calls : d # c => calls'[d] = calls[d]
  BY <1>1, <1>2, OneCallMoves
<1>11. TypeOK'
  BY <1>1, <1>4, <1>6, <1>8, <1>9, <1>10 DEF TypeOK
<1>12. \A d \in Calls : d # c => calls[d].step \notin Active
  BY <1>1, HeadEnds DEF Active
<1>13. ASSUME NEW d \in Calls PROVE Proper(d, calls'[d], queue', cache')
  <2>1. CASE d = c
    BY <1>1, <1>2, <1>3, <1>4, <1>6, <1>10, <2>1, CallAssumption DEF Proper, Active, Holding
  <2>2. CASE d # c
    BY <1>3, <1>6, <1>10, <2>2
  <2> QED
    BY <2>1, <2>2
<1>14. ASSUME NEW x \in Calls, Apart(object[x], disk, touched)
       PROVE  Apart(object'[x], disk', touched')
  BY <1>4, <1>6, <1>8, <1>14 DEF Apart
<1>15. ASSUME NEW d \in Calls PROVE Near(calls'[d], object', disk', touched')
  <2>1. Near(calls[d], object, disk, touched) /\ calls[d].data \in Calls \cup {None}
    BY <1>1 DEF IInv, TypeOK, Call
  <2>2. CASE d = c
    BY <1>2, <1>4, <1>10, <1>14, <2>1, <2>2 DEF Near, Loading, o
  <2>3. CASE d # c
    <3>1. calls'[d] = calls[d]
      BY <1>10, <2>3
    <3>2. calls[d].data # None => Apart(object'[calls[d].data], disk', touched')
      BY <1>14, <2>1 DEF Near
    <3>3. calls[d].step \in Loading \cup {"rename"} => Apart(calls[d].read, disk', touched')
      BY <1>6, <2>1 DEF Near, Apart
    <3> QED
      BY <3>1, <3>2, <3>3 DEF Near
  <2> QED
    BY <2>2, <2>3
<1>16. ASSUME ~replaced'
       PROVE  /\ Kept(cache', object', disk', may')
              /\ \A d \in Calls : Sound(calls'[d], cache', object', disk')
  <2>1. Kept(cache, object, disk, may) /\ \A d \in Calls : Sound(calls[d], cache, object, disk)
    BY <1>6, <1>16 DEF IInv
  <2>2. o = cache
    BY <1>1, <2>1 DEF Sound, Holding, o
  <2>3. Kept(cache', object', disk', may')
    BY <1>4, <1>6, <1>8, <1>9, <2>1, <2>2 DEF Kept
  <2>4. ASSUME NEW d \in Calls PROVE Sound(calls'[d], cache', object', disk')
    <3>1. CASE d = c
      BY <1>2, <1>6, <1>10, <2>2, <3>1 DEF Sound, Loading
    <3>2. CASE d # c
      <4>1. calls'[d] = calls[d] /\ calls[d].step # "rename"
        BY <1>10, <1>12, <3>2 DEF Active
      <4> QED
        BY <1>4, <1>6, <2>1, <4>1 DEF Sound
    <3> QED
      BY <3>1, <3>2
  <2> QED
    BY <2>3, <2>4
<1>17. cache' # None => Apart(object'[cache'], disk', touched')
  BY <1>1, <1>4, <1>6, <1>14 DEF IInv, TypeOK
<1> QED
  BY <1>11, <1>13, <1>15, <1>16, <1>17 DEF IInv

\* The temporary file is a copy of the object.
LEMMA FlushWritesKeeps ==
    ASSUME IInv, NEW c \in Writers, FlushWrites(c)
    PROVE  IInv'
<1> DEFINE new == [calls[c] EXCEPT !.step = "rename", !.read = object[calls[c].data]]
<1>1. c \in Calls /\ calls[c].step = "flush" /\ TypeOK /\ calls[c] \in Call
      /\ queue \in Seq(Writers) /\ UNCHANGED <<disk, cache, object, queue, history>>
  BY DEF Calls, FlushWrites, WhileWriting, At, IInv, TypeOK
<1>2. /\ Near(calls[c], object, disk, touched)
      /\ \A d \in Calls : Proper(d, calls[d], queue, cache)
      /\ ~replaced => Sound(calls[c], cache, object, disk)
  BY <1>1 DEF IInv
<1>3. calls[c].data \in Calls /\ calls[c].data # None /\ object[calls[c].data] \in Contents
  BY <1>1, <1>2, CallAssumption DEF Proper, Holding, TypeOK
<1>4. calls' = [calls EXCEPT ![c] = new]
  BY DEF FlushWrites
<1>5. /\ new \in Call /\ new.step = "rename" /\ new.read = object[calls[c].data]
      /\ new.key = calls[c].key /\ new.data = calls[c].data
  BY <1>1, <1>3 DEF Call
<1> HIDE DEF new
<1>6. Proper(c, new, queue, cache)
  BY <1>1, <1>2, <1>5, CallAssumption DEF Proper, Active, Holding
<1>7. Near(new, object, disk, touched)
  BY <1>2, <1>3, <1>5 DEF Near
<1>8. replaced \/ Sound(new, cache, object, disk)
  BY <1>1, <1>2, <1>5 DEF Sound, Holding, Loading
<1> QED
  BY <1>1, <1>2, <1>4, <1>5, <1>6, <1>7, <1>8, CallMoves

\* The copy that becomes the file is the object as it still is: the file gets
\* the mutated record and keeps what it may of the others.
LEMMA FlushRenamesKeeps ==
    ASSUME IInv, NEW c \in Writers, FlushRenames(c)
    PROVE  IInv'
<1> DEFINE k == calls[c].key
           read == calls[c].read
<1>1. c \in Calls /\ calls[c].step = "rename" /\ TypeOK /\ calls[c] \in Call
  BY DEF Calls, FlushRenames, At, IInv, TypeOK
<1>2. \A d \in Calls : Proper(d, calls[d], queue, cache) /\ Near(calls[d], object, disk, touched)
  BY DEF IInv
<1>3. k \in Keys /\ cache # None /\ cache \in Calls /\ read \in Contents
      /\ Apart(read, disk, touched)
  BY <1>1, <1>2 DEF Proper, Holding, Near, TypeOK, Call
<1>4. /\ disk' = read /\ may' = [may EXCEPT ![k] = {read[k]}]
      /\ queue' = Tail(queue) /\ calls' = [calls EXCEPT ![c] = Idle]
      /\ UNCHANGED <<cache, object, touched, replaced>>
  BY DEF FlushRenames, End
<1> HIDE DEF k, read
<1>5. /\ calls' \in [Calls -> Call] /\ calls'[c] = Idle
      /\ \A d \in Calls : d # c => calls'[d] = calls[d]
  BY <1>1, <1>4, IdleCall, OneCallMoves
<1>6. /\ Tail(queue) \in Seq(Writers)
      /\ \A d \in Calls \ {c} : calls[d].step \notin Active
      /\ \A d \in Calls \ {c} : Proper(d, calls[d], Tail(queue), cache)
  BY <1>1, HeadEnds DEF Active
<1>7. /\ may' \in [Keys -> SUBSET (Record \cup {None})]
      /\ may'[k] = {read[k]} /\ \A j \in Keys : j # k => may'[j] = may[j]
  <2>1. read[k] \in Record \cup {None}
    BY <1>3 DEF Contents
  <2> QED
    BY <1>1, <1>3, <1>4, <2>1 DEF TypeOK
<1>8. TypeOK'
  BY <1>1, <1>3, <1>4, <1>5, <1>6, <1>7 DEF TypeOK
<1>9. ASSUME NEW d \in Calls PROVE Proper(d, calls'[d], queue', cache')
  BY <1>4, <1>5, <1>6, IdleKeeps
<1>10. ASSUME NEW a, Apart(a, disk, touched) PROVE Apart(a, disk', touched')
  BY <1>3, <1>4, <1>10 DEF Apart
<1>11. ASSUME NEW d \in Calls PROVE Near(calls'[d], object', disk', touched')
  <2>1. CASE d = c
    BY <1>5, <2>1, IdleKeeps
  <2>2. CASE d # c
    BY <1>2, <1>4, <1>5, <1>10, <2>2 DEF Near
  <2> QED
    BY <2>1, <2>2
<1>12. ASSUME ~replaced'
       PROVE  /\ Kept(cache', object', disk', may')
              /\ \A d \in Calls : Sound(calls'[d], cache', object', disk')
  <2>1. Kept(cache, object, disk, may) /\ \A d \in Calls : Sound(calls[d], cache, object, disk)
    BY <1>4, <1>12 DEF IInv
  <2>2. read = object[cache]
    BY <1>1, <2>1 DEF Sound, read
  <2>3. Kept(cache', object', disk', may')
    BY <1>3, <1>4, <1>7, <2>1, <2>2 DEF Kept
  <2>4. ASSUME NEW d \in Calls PROVE Sound(calls'[d], cache', object', disk')
    <3>1. CASE d = c
      BY <1>5, <3>1, IdleKeeps
    <3>2. CASE d # c
      BY <1>3, <1>4, <1>5, <2>1, <3>2 DEF Sound
    <3> QED
      BY <3>1, <3>2
  <2> QED
    BY <2>3, <2>4
<1>13. cache' # None => Apart(object'[cache'], disk', touched')
  BY <1>4, <1>10 DEF IInv
<1> QED
  BY <1>8, <1>9, <1>11, <1>12, <1>13 DEF IInv

-----------------------------------------------------------------------------
(* Reads, and the end of the process.                                      *)

LEMMA GetKeeps ==
    ASSUME IInv, NEW c \in Readers, Get(c)
    PROVE  IInv'
<1> DEFINE new == [Idle EXCEPT !.step = "get"]
<1>1. new \in Call /\ new.step = "get" /\ new.data = None
  BY IdleCall DEF Call, Idle
<1>2. calls' = [calls EXCEPT ![c] = new] /\ UNCHANGED <<disk, cache, object, queue, history>>
      /\ c \in Calls
  BY DEF Get, Calls
<1>3. queue \in Seq(Writers) /\ \A d \in Calls : Proper(d, calls[d], queue, cache)
  BY DEF IInv, TypeOK
<1> HIDE DEF new
<1>4. Proper(c, new, queue, cache) /\ Near(new, object, disk, touched)
      /\ Sound(new, cache, object, disk)
  BY <1>1, CallAssumption DEF Proper, Near, Sound, Active, Holding, Loading
<1> QED
  BY <1>1, <1>2, <1>3, <1>4, CallMoves

\* Only the file survives, and it holds what it may.
LEMMA CrashKeeps ==
    ASSUME IInv, Crash
    PROVE  IInv'
<1>1. /\ cache' = None /\ queue' = <<>> /\ touched' = {} /\ UNCHANGED <<disk, may, replaced>>
      /\ object' = [x \in Calls |-> Empty] /\ calls' = [x \in Calls |-> Idle]
  BY DEF Crash
<1>2. TypeOK /\ (replaced \/ Kept(cache, object, disk, may))
  BY DEF IInv
<1>3. calls' \in [Calls -> Call] /\ object' \in [Calls -> Contents]
  BY <1>1, IdleCall
<1>4. queue' \in Seq(Writers)
  BY <1>1
<1>5. TypeOK'
  BY <1>1, <1>2, <1>3, <1>4 DEF TypeOK
<1>6. \A d \in Calls : calls'[d] = Idle
  BY <1>1
<1>7. replaced' \/ Kept(cache', object', disk', may')
  BY <1>1, <1>2 DEF Kept
<1>8. \A d \in Calls : /\ Proper(d, calls'[d], queue', cache')
                      /\ Near(calls'[d], object', disk', touched')
                      /\ Sound(calls'[d], cache', object', disk')
  BY <1>6, IdleKeeps
<1> QED
  BY <1>1, <1>5, <1>7, <1>8 DEF IInv

-----------------------------------------------------------------------------
\* The invariant is inductive.
LEMMA NextKeeps == IInv /\ [Next]_vars => IInv'
<1> SUFFICES ASSUME IInv, [Next]_vars PROVE IInv'
  OBVIOUS
<1>1. ASSUME NEW c \in Writers, WriterStep(c) PROVE IInv'
  <2>1. c \in Calls
    BY DEF Calls
  <2>2. ASSUME NEW op \in {"put", "update"}, NEW k \in Keys, Mutate(c, op, k) PROVE IInv'
    BY <2>2, MutateKeeps
  <2>3. ASSUME LoadStarts(c, "load", "reading") PROVE IInv'
    BY <2>1, <2>3, LoadStartsKeeps
  <2>4. ASSUME LoadEnds(c, "reading", "mutate") PROVE IInv'
    BY <2>1, <2>4, LoadEndsKeeps
  <2>5. ASSUME LoadIsCached(c, "load", "mutate") PROVE IInv'
    BY <2>1, <2>5, LoadIsCachedKeeps
  <2>6. ASSUME LoadFails(c, "reading") PROVE IInv'
    BY <2>1, <2>6, LoadFailsKeeps
  <2>7. ASSUME FlushFails(c) PROVE IInv'
    BY <2>1, <2>7, HeadEndsKeeps DEF FlushFails, Active
  <2> QED
    BY <1>1, <2>2, <2>3, <2>4, <2>5, <2>6, <2>7, TurnComesKeeps, MutationKeeps, FlushWritesKeeps,
       FlushRenamesKeeps DEF WriterStep
<1>2. ASSUME NEW c \in Readers, ReaderStep(c) PROVE IInv'
  <2>1. c \in Calls
    BY DEF Calls
  <2>2. ASSUME LoadStarts(c, "get", "getting") PROVE IInv'
    BY <2>1, <2>2, LoadStartsKeeps
  <2>3. ASSUME LoadEnds(c, "getting", "return") PROVE IInv'
    BY <2>1, <2>3, LoadEndsKeeps
  <2>4. ASSUME LoadIsCached(c, "get", "return") PROVE IInv'
    BY <2>1, <2>4, LoadIsCachedKeeps
  <2>5. ASSUME LoadFails(c, "getting") PROVE IInv'
    BY <2>1, <2>5, LoadFailsKeeps
  <2>6. ASSUME GetReturns(c) PROVE IInv'
    BY <2>1, <2>6, ReadEndsKeeps DEF GetReturns
  <2> QED
    BY <1>2, <2>2, <2>3, <2>4, <2>5, <2>6, GetKeeps DEF ReaderStep
<1>3. CASE UNCHANGED vars
  BY <1>3 DEF vars, history, IInv, TypeOK
<1> QED
  BY <1>1, <1>2, <1>3, CrashKeeps DEF Next

LEMMA Invariant == Spec => []IInv
BY InitHolds, NextKeeps, PTL DEF Spec

\* The store's state is well typed for any number of records and calls.
THEOREM StoreTypes == Spec => []TypeOK
<1>1. IInv => TypeOK
  BY DEF IInv
<1> QED
  BY <1>1, Invariant, PTL

\* What a caller was told is stored stays in the file (file-store.ts:6), for
\* any interleaving of mutations, failures and crashes in which no two calls
\* load at once.
THEOREM StoredKept == Spec => []StoredIsKept
<1>1. IInv => StoredIsKept
  BY DEF IInv, StoredIsKept, NothingIsLost, Kept
<1> QED
  BY <1>1, Invariant, PTL

\* Reads return no record that a completed mutation has replaced, unless two
\* calls have loaded at once.
THEOREM ReadsCurrent == Spec => []ReadsAreCurrent
<1>1. ASSUME IInv, NEW c \in Readers, NEW k \in Keys, At(c, "return"), ~replaced
      PROVE  object[calls[c].data][k] \in may[k]
  <2>1. c \in Calls /\ Sound(calls[c], cache, object, disk) /\ Proper(c, calls[c], queue, cache)
        /\ Kept(cache, object, disk, may)
    BY <1>1 DEF IInv, Calls
  <2> QED
    BY <1>1, <2>1 DEF Sound, Proper, Kept, Holding, At
<1>2. IInv => ReadsAreCurrent
  BY <1>1 DEF ReadsAreCurrent
<1> QED
  BY <1>2, Invariant, PTL

\* A rename changes the file in records that mutations of this process have
\* changed, and nothing else changes it, two loads at once included.
THEOREM OnlyMutated == Spec => OnlyMutatedChange
<1>1. ASSUME IInv, [Next]_vars
      PROVE  [\A k \in Keys : disk'[k] # disk[k] => k \in touched]_vars
  <2> SUFFICES ASSUME NEW k \in Keys, disk'[k] # disk[k], Next PROVE k \in touched
    BY <1>1
  <2>1. PICK c \in Writers : FlushRenames(c)
    BY DEF Next, WriterStep, ReaderStep, Mutate, TurnComes, LoadStarts, LoadEnds, LoadIsCached,
           LoadFails, MutationApplies, FlushWrites, WhileWriting, FlushFails, Get, GetReturns, Crash
  <2>2. disk' = calls[c].read /\ Near(calls[c], object, disk, touched) /\ calls[c].step = "rename"
    BY <1>1, <2>1 DEF FlushRenames, At, IInv, Calls
  <2> QED
    BY <2>2 DEF Near, Apart
<1> QED
  BY <1>1, Invariant, PTL DEF Spec, OnlyMutatedChange
=============

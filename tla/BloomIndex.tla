------------------------------ MODULE BloomIndex ------------------------------
(***************************************************************************)
(* The registry's content index behind its counting Bloom filter:          *)
(* lookup_content, register_content and deregister_content of              *)
(* crates/capsule-registry with crates/common/src/security/bloom_dedup.rs, *)
(* called by concurrent writers and by deletes.                            *)
(*                                                                         *)
(* The filter's counters are separate atomics.  A registration updates     *)
(* them after it has given up the lock of the store, a deregistration      *)
(* while it holds it, a lookup reads them with no lock.                    *)
(***************************************************************************)
EXTENDS Integers, Sequences, FiniteSets, Maps

CONSTANTS
    Hashes,         \* content hashes
    Buckets,        \* the counters of the filter
    Indexes,        \* the buckets of a hash, one after the other; they may coincide
    MaxCount,       \* largest value of a counter, 255
    Threads,
    MaxStored,      \* bound: segments stored
    Idle            \* what a thread does between calls

ASSUME BloomAssumption ==
    /\ IsFiniteSet(Hashes) /\ IsFiniteSet(Threads)
    /\ Indexes \in [Hashes -> Seq(Buckets)]
    /\ MaxCount \in Nat \ {0} /\ MaxStored \in Nat
    /\ Idle \notin [kind : {"probe", "miss", "insert", "remove"}, hash : Hashes, todo : Seq(Buckets)]

VARIABLES
    content_store,  \* hash to segment
    counters,       \* the filter
    segments,       \* <<hash, segment>> stored and not deleted
    next_segment,
    op,             \* what each thread is doing
    clipped,        \* history: counters that were full when they should have been raised
    lossy           \* history: one of those has been lowered since

bloom_vars == <<content_store, counters, segments, next_segment, op, clipped, lossy>>

Drop(f, x) == [z \in DOMAIN f \ {x} |-> f[z]]

BloomInit ==
    /\ content_store = Empty
    /\ counters = [b \in Buckets |-> 0]
    /\ segments = {} /\ next_segment = 1
    /\ op = [t \in Threads |-> Idle]
    /\ clipped = {} /\ lossy = FALSE

Doing(t, kind) == op[t] # Idle /\ op[t].kind = kind
Set(t, kind, hash, todo) == op' = [op EXCEPT ![t] = [kind |-> kind, hash |-> hash, todo |-> todo]]
Step(t) == op' = [op EXCEPT ![t].todo = Tail(@)]
Done(t) == op' = [op EXCEPT ![t] = Idle]

(* The store's lock is held while counters are lowered.                    *)
StoreFree == \A t \in Threads : ~Doing(t, "remove")

-----------------------------------------------------------------------------
(* A writer looks its chunk up: every counter of the hash, then the store. *)

LookupContent(t, hash) ==
    /\ op[t] = Idle
    /\ Set(t, "probe", hash, Indexes[hash])
    /\ UNCHANGED <<content_store, counters, segments, next_segment, clipped, lossy>>

MightContain(t) ==
    /\ Doing(t, "probe") /\ op[t].todo # <<>>
    /\ IF counters[Head(op[t].todo)] = 0 THEN Set(t, "miss", op[t].hash, <<>>) ELSE Step(t)
    /\ UNCHANGED <<content_store, counters, segments, next_segment, clipped, lossy>>

ReadStore(t) ==
    /\ Doing(t, "probe") /\ op[t].todo = <<>> /\ StoreFree
    /\ IF op[t].hash \in DOMAIN content_store THEN Done(t)
       ELSE Set(t, "miss", op[t].hash, <<>>)
    /\ UNCHANGED <<content_store, counters, segments, next_segment, clipped, lossy>>

(* On a miss it stores the chunk and registers it, over an older entry if  *)
(* there is one.                                                           *)
RegisterContent(t) ==
    /\ Doing(t, "miss") /\ StoreFree
    /\ IF next_segment > MaxStored
       THEN Done(t) /\ UNCHANGED <<content_store, segments, next_segment>>
       ELSE /\ content_store' = Put(content_store, op[t].hash, next_segment)
            /\ segments' = segments \cup {<<op[t].hash, next_segment>>}
            /\ next_segment' = next_segment + 1
            /\ Set(t, "insert", op[t].hash, Indexes[op[t].hash])
    /\ UNCHANGED <<counters, clipped, lossy>>

(* Mutant: the counter wraps around.                                       *)
RaisedWrap(count) == (count + 1) % (MaxCount + 1)

Raised(count) == IF count = MaxCount THEN MaxCount ELSE count + 1

InsertCell(t) ==
    /\ Doing(t, "insert") /\ op[t].todo # <<>>
    /\ LET b == Head(op[t].todo)
       IN  /\ counters' = [counters EXCEPT ![b] = Raised(@)]
           /\ clipped' = IF counters[b] = MaxCount THEN clipped \cup {b} ELSE clipped
    /\ IF Len(op[t].todo) = 1 THEN Done(t) ELSE Step(t)
    /\ UNCHANGED <<content_store, segments, next_segment, lossy>>

-----------------------------------------------------------------------------
(* The last reference to a segment is gone: the entry goes with it, if it  *)
(* is still this segment's.                                                *)

IsEntry(hash, seg) == hash \in DOMAIN content_store /\ content_store[hash] = seg

DeregisterContent(t, hash, seg) ==
    /\ op[t] = Idle /\ StoreFree
    /\ <<hash, seg>> \in segments
    /\ segments' = segments \ {<<hash, seg>>}
    /\ IF IsEntry(hash, seg)
       THEN content_store' = Drop(content_store, hash) /\ Set(t, "remove", hash, Indexes[hash])
       ELSE UNCHANGED <<content_store, op>>
    /\ UNCHANGED <<counters, next_segment, clipped, lossy>>

Lowered(count) == IF count = 0 THEN 0 ELSE count - 1

RemoveCell(t) ==
    /\ Doing(t, "remove") /\ op[t].todo # <<>>
    /\ LET b == Head(op[t].todo)
       IN  /\ counters' = [counters EXCEPT ![b] = Lowered(@)]
           /\ lossy' = (lossy \/ b \in clipped)
    /\ IF Len(op[t].todo) = 1 THEN Done(t) ELSE Step(t)
    /\ UNCHANGED <<content_store, segments, next_segment, clipped>>

(* The process starts again: with_existing inserts every stored hash.      *)
Uses(b, hash) == {<<hash, i>> : i \in {j \in DOMAIN Indexes[hash] : Indexes[hash][j] = b}}
Needed(b) == Cardinality(UNION {Uses(b, hash) : hash \in DOMAIN content_store})

Reopen ==
    /\ \A t \in Threads : op[t] = Idle
    /\ counters' = [b \in Buckets |-> IF Needed(b) > MaxCount THEN MaxCount ELSE Needed(b)]
    /\ clipped' = {b \in Buckets : Needed(b) > MaxCount} /\ lossy' = FALSE
    /\ UNCHANGED <<content_store, segments, next_segment, op>>

BloomNext ==
    \/ \E t \in Threads :
        \/ \E hash \in Hashes : LookupContent(t, hash)
        \/ MightContain(t) \/ ReadStore(t) \/ RegisterContent(t) \/ InsertCell(t) \/ RemoveCell(t)
        \/ \E hash \in Hashes, seg \in 1 .. MaxStored : DeregisterContent(t, hash, seg)
    \/ Reopen

BloomSpec == BloomInit /\ [][BloomNext]_bloom_vars

-----------------------------------------------------------------------------
(* Updates of bucket b that calls have still to make, counted from their   *)
(* last one.                                                               *)
Todo(t, b) == {<<t, Len(op[t].todo) - i>> : i \in {j \in DOMAIN op[t].todo : op[t].todo[j] = b}}
Pending(kind, b) == Cardinality(UNION {Todo(t, b) : t \in {u \in Threads : Doing(u, kind)}})

(* The filter has no false negatives unless a counter that had stuck at    *)
(* its limit is lowered: with the updates still to come every counter      *)
(* covers the stored hashes that use it, so that no update in flight is    *)
(* lost, one that has stuck stays there, and when no update is in flight   *)
(* every stored hash passes the filter.                                    *)
NoFalseNegatives ==
    ~lossy =>
        /\ \A b \in Buckets :
            \/ b \in clipped /\ counters[b] = MaxCount
            \/ counters[b] + Pending("insert", b) >= Needed(b) + Pending("remove", b)
        /\ (\A t \in Threads : ~Doing(t, "insert") /\ ~Doing(t, "remove")) =>
            \A hash \in DOMAIN content_store : \A i \in DOMAIN Indexes[hash] :
                counters[Indexes[hash][i]] > 0
=============================================================================

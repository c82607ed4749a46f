----------------------------- MODULE WritePipeline -----------------------------
(***************************************************************************)
(* Capsules over deduplicated, reference-counted segments:                 *)
(* crates/capsule-registry/src/{lib,pipeline,gc}.rs over the segment map   *)
(* of crates/nvram-sim (whose data file is module NvramLog).               *)
(*                                                                         *)
(* Threads share one WritePipeline (all its methods take &self).  The      *)
(* registry and the segment map are in memory and are saved as a whole     *)
(* after each change.  A step is one critical section of the code: the     *)
(* change of a map under its lock, then the save.  NvramLog's save holds   *)
(* the read guard while it writes, so it is one step.  The registry's      *)
(* save clones the three maps, releases the guards and writes the clone:   *)
(* two steps, between which other threads run.                             *)
(*                                                                         *)
(* The data of a capsule is a sequence of chunk contents; equal contents   *)
(* have equal content hashes, because compression is deterministic and the *)
(* hash is taken before encryption.                                        *)
(***************************************************************************)
EXTENDS Integers, Sequences, FiniteSets, Functions, Maps

CONSTANTS
    Threads,        \* callers of the pipeline
    Contents,       \* chunk contents, which also stand for their hashes
    MaxCapsules,    \* bound: number of writes
    MaxChunks,      \* bound: chunks per write
    Ops,            \* the operations callers use: "write", "delete", "gc"
    Usages,         \* ways the pipeline may be used, one of which is the case
    NoHash          \* content_hash is None

ASSUME PipelineAssumption ==
    /\ MaxCapsules \in Nat /\ MaxChunks \in Nat
    /\ Ops \subseteq {"write", "delete", "gc"}
    /\ Usages \subseteq [calls : {"serial", "apart", "mixed"}, fails : Nat, crashes : Nat]
    /\ NoHash \notin Contents

VARIABLES
    mode,           \* "up", "down", "recover" (in new), "recovered" (new is done)
    registry,       \* CapsuleRegistry: capsules, next_segment_id, content_store
    registry_file,  \* the saved RegistryState
    segment_map,    \* NvramLog::segment_map
    segments_file,  \* the saved segment map
    job,            \* the call each thread is in, with its local variables
    saving,         \* the save a thread has to do before its call goes on
    snap,           \* the RegistryState a thread has cloned in save
    data_of,        \* history: the data of the n-th write
    acked,          \* history: capsules a write returned, with its dedup hits
    fails, crashes, \* failures and crashes still allowed by the bounds
    usage           \* calls: "serial", one at a time; "apart", writes overlap with
                    \* writes, deletes and sweeps with deletes and sweeps; "mixed",
                    \* anything overlaps; and the bounds: failing file writes and
                    \* chunk preparations, crashes of the process

memory == <<registry, segment_map>>
disk == <<registry_file, segments_file>>
vars == <<mode, registry, registry_file, segment_map, segments_file, job, saving, snap,
          data_of, acked, fails, crashes, usage>>

CapsuleIds == 1 .. MaxCapsules
MaxSegments == MaxCapsules * MaxChunks      \* ids the writes can allocate
SegIds == 0 .. (MaxSegments - 1)
EmptyRegistry == [capsules |-> Empty, next_segment_id |-> 0, content_store |-> Empty]
Datas == UNION {[1 .. n -> Contents] : n \in 0 .. MaxChunks}

(* Local variables of a call; each kind of call uses some of the fields.   *)
IdleJob == [pc |-> "idle", cap |-> 0, dedupe |-> FALSE, todo |-> <<>>, segs |-> <<>>,
            seg |-> 0, hash |-> NoHash, hits |-> 0, victims |-> {}]

Drop(f, x) == Restrict(f, DOMAIN f \ {x})

Init ==
    /\ mode = "up"
    /\ registry = EmptyRegistry
    /\ registry_file = EmptyRegistry
    /\ segment_map = Empty
    /\ segments_file = Empty
    /\ job = [t \in Threads |-> IdleJob]
    /\ saving = [t \in Threads |-> "no"]
    /\ snap = [t \in Threads |-> EmptyRegistry]
    /\ data_of = <<>>
    /\ acked = Empty
    /\ usage \in Usages
    /\ fails = usage.fails
    /\ crashes = usage.crashes

-----------------------------------------------------------------------------
(* Control flow of a call.                                                 *)

(* Thread t is at pc and owes no save.                                     *)
At(t, pc) == job[t].pc = pc /\ saving[t] = "no"

Goto(t, pc) == job' = [job EXCEPT ![t].pc = pc]

(* The call returns, Ok or Err.                                            *)
Return(t) == job' = [job EXCEPT ![t] = IdleJob]

Owe(t, file) == saving' = [saving EXCEPT ![t] = file]

WritePcs == {"chunk", "increment", "append", "update", "register", "stats", "create",
             "written"}
Writing(t) == job[t].pc \in WritePcs
Reclaiming(t) == job[t].pc \notin WritePcs \cup {"idle"}

(* A new call.  Only the callers can keep writes apart from deletes and    *)
(* sweeps; no lock of the pipeline does.                                   *)
Start(t, op) ==
    /\ op \in Ops
    /\ mode \in {"up", "recovered"}
    /\ At(t, "idle")
    /\ CASE usage.calls = "serial" -> \A u \in Threads : At(u, "idle")
         [] usage.calls = "apart" -> \A u \in Threads :
                                        IF op = "write" THEN ~Reclaiming(u) ELSE ~Writing(u)
         [] usage.calls = "mixed" -> TRUE
    /\ mode' = "up"

-----------------------------------------------------------------------------
(* Saves.                                                                  *)

(* Mutants: a save that writes nothing.                                    *)
SaveSegmentMapSkipped(t) ==
    /\ saving[t] = "log"
    /\ Owe(t, "no")
    /\ UNCHANGED <<mode, memory, disk, job, snap, data_of, acked, fails, crashes, usage>>

WriteRegistrySkipped(t) ==
    /\ saving[t] = "clone"
    /\ Owe(t, "no")
    /\ UNCHANGED <<mode, memory, disk, job, snap, data_of, acked, fails, crashes, usage>>

(* NvramLog::save_segment_map.                                             *)
SaveSegmentMap(t) ==
    /\ saving[t] = "log"
    /\ segments_file' = segment_map
    /\ Owe(t, "no")
    /\ UNCHANGED <<mode, memory, registry_file, job, snap, data_of, acked, fails, crashes, usage>>

(* CapsuleRegistry::save, the clone of the state.                          *)
CloneRegistry(t) ==
    /\ saving[t] = "registry"
    /\ snap' = [snap EXCEPT ![t] = registry]
    /\ Owe(t, "clone")
    /\ UNCHANGED <<mode, memory, disk, job, data_of, acked, fails, crashes, usage>>

(* CapsuleRegistry::save, fs::write of the clone.                          *)
WriteRegistry(t) ==
    /\ saving[t] = "clone"
    /\ registry_file' = snap[t]
    /\ snap' = [snap EXCEPT ![t] = EmptyRegistry]
    /\ Owe(t, "no")
    /\ UNCHANGED <<mode, memory, segments_file, job, data_of, acked, fails, crashes, usage>>

(* fs::write fails: every caller returns the error at once with ?, and the *)
(* change in memory stays.  new only logs the error.                       *)
SaveFails(t) ==
    /\ saving[t] \in {"log", "clone"}
    /\ fails > 0
    /\ fails' = fails - 1
    /\ snap' = [snap EXCEPT ![t] = EmptyRegistry]
    /\ Owe(t, "no")
    /\ Return(t)
    /\ mode' = "up"
    /\ UNCHANGED <<memory, disk, data_of, acked, crashes, usage>>

-----------------------------------------------------------------------------
(* write_capsule_with_policy (synchronous).                                *)

WriteCapsule(t, data, dedupe) ==
    /\ Start(t, "write")
    /\ Len(data_of) < MaxCapsules
    /\ data_of' = Append(data_of, data)
    /\ job' = [job EXCEPT ![t] = [IdleJob EXCEPT !.pc = "chunk", !.todo = data,
                                     !.cap = Len(data_of) + 1, !.dedupe = dedupe]]
    /\ UNCHANGED <<memory, disk, saving, snap, acked, fails, crashes, usage>>

(* The chunk at hand is stored in segment id; the loop goes on.            *)
NextChunk(t, id, hit) ==
    job' = [job EXCEPT ![t].pc = "chunk", ![t].todo = Tail(@), ![t].segs = Append(@, id),
                       ![t].hits = IF hit THEN @ + 1 ELSE @]

(* Compression, encryption or the MAC of the chunk at hand fails: the      *)
(* write returns the error and keeps what it stored for earlier chunks.    *)
PrepareFails(t) ==
    /\ At(t, "chunk")
    /\ job[t].todo # <<>>
    /\ fails > 0
    /\ fails' = fails - 1
    /\ Return(t)
    /\ UNCHANGED <<mode, memory, disk, saving, snap, data_of, acked, crashes, usage>>

(* The dedup decision for a chunk: lookup_content when the policy asks for *)
(* deduplication.                                                          *)
LookupContent(t) ==
    /\ At(t, "chunk")
    /\ job[t].todo # <<>>
    /\ LET hash == Head(job[t].todo) IN
       IF job[t].dedupe /\ hash \in DOMAIN registry.content_store
       THEN job' = [job EXCEPT ![t].pc = "increment",
                               ![t].seg = registry.content_store[hash]]
       ELSE Goto(t, "append")
    /\ UNCHANGED <<mode, memory, disk, saving, snap, data_of, acked, fails, crashes, usage>>

(* Mutant: the count is not changed.                                       *)
CountedByNothing(id, n) == segment_map

(* The segment map after a change of one reference count by n.             *)
CountedBy(id, n) == [segment_map EXCEPT ![id].ref_count = @ + n]

(* increment_refcount of the segment found; it may be gone by now, and     *)
(* then the write fails.                                                   *)
IncrementRefcount(t) ==
    /\ At(t, "increment")
    /\ LET id == job[t].seg IN
       IF id \in DOMAIN segment_map
       THEN /\ segment_map' = CountedBy(id, 1)
            /\ NextChunk(t, id, TRUE)
            /\ Owe(t, "log")
       ELSE /\ Return(t)
            /\ UNCHANGED <<segment_map, saving>>
    /\ UNCHANGED <<mode, registry, disk, snap, data_of, acked, fails, crashes, usage>>

(* alloc_segment and NvramLog::append.                                     *)
AppendSegment(t) ==
    /\ At(t, "append")
    /\ LET id == registry.next_segment_id IN
        /\ registry' = [registry EXCEPT !.next_segment_id = @ + 1]
        /\ segment_map' = Put(segment_map, id, [data |-> Head(job[t].todo),
                                                hash |-> NoHash, ref_count |-> 1])
        /\ job' = [job EXCEPT ![t].pc = "update", ![t].seg = id]
    /\ Owe(t, "log")
    /\ UNCHANGED <<mode, disk, snap, data_of, acked, fails, crashes, usage>>

(* The write of the data file fails in NvramLog::append, before the map    *)
(* changes; the id is spent.                                               *)
AppendFails(t) ==
    /\ At(t, "append")
    /\ fails > 0
    /\ fails' = fails - 1
    /\ registry' = [registry EXCEPT !.next_segment_id = @ + 1]
    /\ Return(t)
    /\ UNCHANGED <<mode, segment_map, disk, saving, snap, data_of, acked, crashes, usage>>

(* update_segment_metadata with the content hash and one reference.        *)
UpdateMetadata(t) ==
    /\ At(t, "update")
    /\ LET id == job[t].seg
           content == Head(job[t].todo)
       IN /\ segment_map' =
               Put(segment_map, id, [data |-> content, ref_count |-> 1,
                                     hash |-> IF job[t].dedupe THEN content ELSE NoHash])
          /\ IF job[t].dedupe THEN Goto(t, "register") ELSE NextChunk(t, id, FALSE)
    /\ Owe(t, "log")
    /\ UNCHANGED <<mode, registry, disk, snap, data_of, acked, fails, crashes, usage>>

RegisterContent(t) ==
    /\ At(t, "register")
    /\ registry' = [registry EXCEPT !.content_store =
                       Put(@, Head(job[t].todo), job[t].seg)]
    /\ NextChunk(t, job[t].seg, FALSE)
    /\ Owe(t, "registry")
    /\ UNCHANGED <<mode, segment_map, disk, snap, data_of, acked, fails, crashes, usage>>

(* add_deduped_bytes, after the last chunk: it looks the capsule up and    *)
(* changes nothing when there is none; it does not save.                   *)
AddDedupedBytes(t) ==
    /\ At(t, "chunk")
    /\ job[t].todo = <<>>
    /\ registry' = IF job[t].cap \in DOMAIN registry.capsules
                   THEN [registry EXCEPT !.capsules[job[t].cap].deduped_bytes =
                            @ + job[t].hits]
                   ELSE registry
    /\ Goto(t, "create")
    /\ UNCHANGED <<mode, segment_map, disk, saving, snap, data_of, acked, fails, crashes, usage>>

(* create_capsule_with_segments.                                           *)
CreateCapsule(t) ==
    /\ At(t, "create")
    /\ registry' = [registry EXCEPT !.capsules =
                       Put(@, job[t].cap, [segments |-> job[t].segs, deduped_bytes |-> 0])]
    /\ Goto(t, "written")
    /\ Owe(t, "registry")
    /\ UNCHANGED <<mode, segment_map, disk, snap, data_of, acked, fails, crashes, usage>>

(* The write returns the capsule id.                                       *)
WriteReturns(t) ==
    /\ At(t, "written")
    /\ acked' = Put(acked, job[t].cap, job[t].hits)
    /\ Return(t)
    /\ UNCHANGED <<mode, memory, disk, saving, snap, data_of, fails, crashes, usage>>

-----------------------------------------------------------------------------
(* delete_capsule.                                                         *)

DeleteCapsule(t, cap) ==
    /\ Start(t, "delete")
    /\ cap \in DOMAIN registry.capsules
    /\ registry' = [registry EXCEPT !.capsules = Drop(@, cap)]
    /\ acked' = Drop(acked, cap)
    /\ job' = [job EXCEPT ![t] = [IdleJob EXCEPT !.pc = "decrement",
                                     !.segs = registry.capsules[cap].segments]]
    /\ Owe(t, "registry")
    /\ UNCHANGED <<segment_map, disk, snap, data_of, fails, crashes, usage>>

(* Mutant: the removal starts one reference early.                         *)
UnreferencedEarly(count) == count <= 1

(* What the new count says of a segment: the last reference is gone.       *)
Unreferenced(count) == count = 0

(* decrement_refcount of the next segment; a missing segment or a count of *)
(* zero is an error.  The last reference starts the removal.               *)
DecrementRefcount(t) ==
    /\ At(t, "decrement")
    /\ job[t].segs # <<>>
    /\ LET id == Head(job[t].segs) IN
       IF id \in DOMAIN segment_map /\ segment_map[id].ref_count > 0
       THEN LET hash == segment_map[id].hash
                last == Unreferenced(segment_map[id].ref_count - 1)
            IN /\ segment_map' = CountedBy(id, -1)
               /\ job' = [job EXCEPT
                    ![t].pc = IF ~last THEN "decrement"
                              ELSE IF hash = NoHash THEN "remove" ELSE "deregister",
                    ![t].segs = Tail(@), ![t].seg = id, ![t].hash = hash]
               /\ Owe(t, "log")
       ELSE /\ Return(t)
            /\ UNCHANGED <<segment_map, saving>>
    /\ UNCHANGED <<mode, registry, disk, snap, data_of, acked, fails, crashes, usage>>

(* Mutant: nothing is deregistered.                                        *)
DeregisterNothing(t, hash, id) == UNCHANGED <<registry, saving>>

(* deregister_content(hash, id): only an entry that still names id goes,   *)
(* and only then the registry is saved.                                    *)
Deregister(t, hash, id) ==
    IF hash \in DOMAIN registry.content_store /\ registry.content_store[hash] = id
    THEN /\ registry' = [registry EXCEPT !.content_store = Drop(@, hash)]
         /\ Owe(t, "registry")
    ELSE UNCHANGED <<registry, saving>>

DeregisterContent(t) ==
    /\ At(t, "deregister")
    /\ Deregister(t, job[t].hash, job[t].seg)
    /\ Goto(t, "remove")
    /\ UNCHANGED <<mode, segment_map, disk, snap, data_of, acked, fails, crashes, usage>>

(* remove_segment; a segment that is already gone is no error here.        *)
RemoveSegment(t) ==
    /\ At(t, "remove")
    /\ IF job[t].seg \in DOMAIN segment_map
       THEN segment_map' = Drop(segment_map, job[t].seg) /\ Owe(t, "log")
       ELSE UNCHANGED <<segment_map, saving>>
    /\ Goto(t, "decrement")
    /\ UNCHANGED <<mode, registry, disk, snap, data_of, acked, fails, crashes, usage>>

DeleteReturns(t) ==
    /\ At(t, "decrement")
    /\ job[t].segs = <<>>
    /\ Return(t)
    /\ UNCHANGED <<mode, memory, disk, saving, snap, data_of, acked, fails, crashes, usage>>

-----------------------------------------------------------------------------
(* GarbageCollector::sweep.                                                *)

(* list_segments, filtered by ref_count = 0: copies the sweep works from.  *)
ZeroRefs == {[id |-> id, hash |-> segment_map[id].hash] :
                id \in {i \in DOMAIN segment_map : segment_map[i].ref_count = 0}}

GarbageCollect(t) ==
    /\ Start(t, "gc")
    /\ job' = [job EXCEPT ![t] = [IdleJob EXCEPT !.pc = "sweep", !.victims = ZeroRefs]]
    /\ UNCHANGED <<memory, disk, saving, snap, data_of, acked, fails, crashes, usage>>

(* reclaim_segment, first half: deregister_content for a hashed segment.   *)
ReclaimDeregister(t, v) ==
    /\ At(t, "sweep")
    /\ v \in job[t].victims
    /\ IF v.hash = NoHash THEN UNCHANGED <<registry, saving>>
                          ELSE Deregister(t, v.hash, v.id)
    /\ job' = [job EXCEPT ![t].pc = "reclaim", ![t].seg = v.id,
                          ![t].victims = @ \ {v}]
    /\ UNCHANGED <<mode, segment_map, disk, snap, data_of, acked, fails, crashes, usage>>

(* reclaim_segment, second half: a segment that has vanished is an error.  *)
ReclaimRemove(t) ==
    /\ At(t, "reclaim")
    /\ IF job[t].seg \in DOMAIN segment_map
       THEN /\ segment_map' = Drop(segment_map, job[t].seg)
            /\ Owe(t, "log")
            /\ Goto(t, "sweep")
       ELSE /\ Return(t)
            /\ UNCHANGED <<segment_map, saving>>
    /\ UNCHANGED <<mode, registry, disk, snap, data_of, acked, fails, crashes, usage>>

SweepReturns(t) ==
    /\ At(t, "sweep")
    /\ job[t].victims = {}
    /\ Return(t)
    /\ mode' = IF mode = "recover" THEN "recovered" ELSE mode
    /\ UNCHANGED <<memory, disk, saving, snap, data_of, acked, fails, crashes, usage>>

-----------------------------------------------------------------------------
(* Crash, restart and reconcile_refcounts.                                 *)

Crash ==
    /\ mode # "down"
    /\ crashes > 0
    /\ crashes' = crashes - 1
    /\ mode' = "down"
    /\ registry' = EmptyRegistry
    /\ segment_map' = Empty
    /\ job' = [t \in Threads |-> IdleJob]
    /\ saving' = [t \in Threads |-> "no"]
    /\ snap' = [t \in Threads |-> EmptyRegistry]
    /\ UNCHANGED <<disk, data_of, acked, fails, usage>>

(* How often the capsules of cs refer to segment id.                       *)
References(cs, id) ==
    Cardinality(UNION {{<<c, i>> : i \in {j \in DOMAIN cs[c].segments :
                                             cs[c].segments[j] = id}} : c \in DOMAIN cs})

(* Mutant: no segment is found to have drifted.                            *)
DriftedNone(cs, map) == {}

(* Segments whose reference count is not what the capsules say.            *)
Drifted(cs, map) == {id \in DOMAIN map : map[id].ref_count # References(cs, id)}

(* CapsuleRegistry::open, NvramLog::open and WritePipeline::new, whose     *)
(* reconcile_refcounts runs before anybody else has the pipeline; thread t *)
(* is the one that opens it.                                               *)
Open(t) ==
    /\ mode = "down"
    /\ registry' = registry_file
    /\ segment_map' = segments_file
    /\ mode' = "recover"
    /\ job' = [job EXCEPT ![t] = [IdleJob EXCEPT !.pc = "reconcile",
                                     !.victims = Drifted(registry_file.capsules,
                                                         segments_file)]]
    /\ UNCHANGED <<disk, saving, snap, data_of, acked, fails, crashes, usage>>

(* update_segment_metadata with the expected count.                        *)
ReconcileSegment(t, id) ==
    /\ At(t, "reconcile")
    /\ id \in job[t].victims
    /\ segment_map' = [segment_map EXCEPT
                          ![id].ref_count = References(registry.capsules, id)]
    /\ job' = [job EXCEPT ![t].victims = @ \ {id}]
    /\ Owe(t, "log")
    /\ UNCHANGED <<mode, registry, disk, snap, data_of, acked, fails, crashes, usage>>

ReconcileSweep(t) ==
    /\ At(t, "reconcile")
    /\ job[t].victims = {}
    /\ job' = [job EXCEPT ![t].pc = "sweep", ![t].victims = ZeroRefs]
    /\ UNCHANGED <<mode, memory, disk, saving, snap, data_of, acked, fails, crashes, usage>>

-----------------------------------------------------------------------------
Next ==
    \/ \E t \in Threads :
        \/ \E data \in Datas, dedupe \in BOOLEAN : WriteCapsule(t, data, dedupe)
        \/ PrepareFails(t) \/ LookupContent(t) \/ IncrementRefcount(t)
        \/ AppendSegment(t) \/ AppendFails(t)
        \/ UpdateMetadata(t) \/ RegisterContent(t) \/ AddDedupedBytes(t)
        \/ CreateCapsule(t) \/ WriteReturns(t)
        \/ \E cap \in CapsuleIds : DeleteCapsule(t, cap)
        \/ DecrementRefcount(t) \/ DeregisterContent(t) \/ RemoveSegment(t)
        \/ DeleteReturns(t)
        \/ GarbageCollect(t) \/ ReclaimRemove(t) \/ SweepReturns(t)
        \/ \E v \in job[t].victims : ReclaimDeregister(t, v)
        \/ SaveSegmentMap(t) \/ CloneRegistry(t) \/ WriteRegistry(t) \/ SaveFails(t)
        \/ Open(t)
        \/ \E id \in SegIds : ReconcileSegment(t, id)
        \/ ReconcileSweep(t)
    \/ Crash

Spec == Init /\ [][Next]_vars

-----------------------------------------------------------------------------
(* Properties.                                                             *)

SegmentInfo == [data : Contents, hash : Contents \cup {NoHash}, ref_count : Nat]

RegistryOK(r) ==
    /\ DOMAIN r = {"capsules", "next_segment_id", "content_store"}
    /\ DOMAIN r.capsules \subseteq CapsuleIds
    /\ \A c \in DOMAIN r.capsules : r.capsules[c].segments \in Seq(SegIds)
    /\ r.next_segment_id \in 0 .. MaxSegments
    /\ DOMAIN r.content_store \subseteq Contents
    /\ \A h \in DOMAIN r.content_store : r.content_store[h] \in SegIds

MapOK(m) == DOMAIN m \subseteq SegIds /\ m \in [DOMAIN m -> SegmentInfo]

(* Every variable has the type its field has in the code.                  *)
TypeOK ==
    /\ mode \in {"up", "down", "recover", "recovered"}
    /\ RegistryOK(registry) /\ RegistryOK(registry_file)
    /\ \A t \in Threads : RegistryOK(snap[t])
    /\ MapOK(segment_map) /\ MapOK(segments_file)
    /\ \A t \in Threads :
        /\ saving[t] \in {"no", "log", "registry", "clone"}
        /\ job[t].todo \in Seq(Contents)
        /\ job[t].segs \in Seq(SegIds)
    /\ DOMAIN acked \subseteq 1 .. Len(data_of)

(* Capsule c of the capsules cs can be read back from map: its segments    *)
(* exist and hold the data that was written.                               *)
Readable(cs, map, c) ==
    /\ Len(cs[c].segments) = Len(data_of[c])
    /\ \A i \in 1 .. Len(data_of[c]) :
        /\ cs[c].segments[i] \in DOMAIN map
        /\ map[cs[c].segments[i]].data = data_of[c][i]

(* No capsule dangles: read_capsule of any capsule in the registry returns *)
(* the data of its write.                                                  *)
NoDangling ==
    mode # "down" => \A c \in DOMAIN registry.capsules :
                        Readable(registry.capsules, segment_map, c)

(* The same holds of the two saved files at every moment of a call that    *)
(* runs alone, so that a crash at any step leaves a registry whose         *)
(* capsules can all be read.                                               *)
DiskConsistent ==
    usage.calls = "serial" => \A c \in DOMAIN registry_file.capsules :
        Readable(registry_file.capsules, segments_file, c)

(* A capsule whose write returned Ok and whose delete has not begun is in  *)
(* the saved registry.  (Not when calls overlap: an older clone may be the *)
(* last one written.)                                                      *)
AckedDurable == usage.calls = "serial" => DOMAIN acked \subseteq DOMAIN registry_file.capsules

(* References running calls still hold: segments a write has collected     *)
(* and segments a delete has not yet released.                             *)
HeldReferences(id) ==
    Cardinality(UNION {{<<t, i>> : i \in {j \in DOMAIN job[t].segs :
                                             job[t].segs[j] = id}} :
                          t \in {u \in Threads : job[u].pc # "written"}})

(* The reference count of a segment covers all its users: capsules,        *)
(* writes that have counted themselves in and deletes that have not yet    *)
(* counted themselves out.  A count that is too small frees live data.     *)
RefcountCovers ==
    mode \in {"up", "recovered"} =>
        \A id \in DOMAIN segment_map :
            segment_map[id].ref_count >= References(registry.capsules, id)
                                            + HeldReferences(id)

(* As long as no call has failed, a hash in the content store names a      *)
(* segment that exists and has that content, so a dedup hit never fails    *)
(* and never stores other data; and when calls run one at a time the same  *)
(* holds of the two saved files at every moment, and so after a crash.     *)
ContentStoreLive ==
    fails = usage.fails =>
        /\ \A h \in DOMAIN registry.content_store :
            LET id == registry.content_store[h] IN
            id \in DOMAIN segment_map /\ segment_map[id].data = h
        /\ usage.calls = "serial" =>
            Range(registry_file.content_store) \subseteq DOMAIN segments_file

AllIdle == \A t \in Threads : At(t, "idle")

(* When no call is running nothing has leaked, without failing saves, and  *)
(* once reconcile_refcounts has run, whatever a crash or an earlier        *)
(* failure had left: every count is exact, no segment is unused, and no id *)
(* in use will be allocated again.                                         *)
NoLeak ==
    (AllIdle /\ fails = usage.fails /\ mode # "down") \/ mode = "recovered" =>
        \A id \in DOMAIN segment_map :
            /\ segment_map[id].ref_count = References(registry.capsules, id)
            /\ segment_map[id].ref_count > 0
            /\ id < registry.next_segment_id

(* A capsule's deduped_bytes are what the write saved by deduplication     *)
(* (counted in chunks).                                                    *)
DedupedBytesTracked ==
    \A c \in DOMAIN acked \cap DOMAIN registry.capsules :
        registry.capsules[c].deduped_bytes = acked[c]
=============================================================================

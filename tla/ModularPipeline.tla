---------------------------- MODULE ModularPipeline ----------------------------
(***************************************************************************)
(* The trait-based pipeline of crates/pipeline over a storage backend of   *)
(* crates/storage, a capsule catalog (its own InMemoryCatalog or the       *)
(* CapsuleRegistry) and the fixed layout of crates/layout-engine.          *)
(*                                                                         *)
(* All operations that change state take &mut self and the handle is       *)
(* shared behind a mutex, so one call runs at a time; a crash or a failing *)
(* file write can fall between any two of its steps.  A step is one call   *)
(* of the catalog or one transaction of the backend.                       *)
(*                                                                         *)
(* A capsule's data is a sequence of units.  A chunk stands for its        *)
(* compressed form, which is a function of the chunk, and for its hash.    *)
(***************************************************************************)
EXTENDS Integers, Sequences, FiniteSets, SequencesExt, Maps

CONSTANTS
    Units,          \* what data is made of
    MaxUnits,       \* bound: length of a capsule's data
    SegmentSize,    \* LayoutStrategy::default_segment_size
    Setups,         \* assemblies checked: "memory", "nvram", "registry"
    Encryptors,     \* encryptors checked: "noop", "xts"
    MaxCapsules,    \* bound: number of writes
    MaxFails,       \* bound: failing file writes
    MaxCrashes,     \* bound: crashes of the process
    Idle            \* no call is running

(* The running call: a write, a delete or a garbage collection.            *)
Zone == [offset : Nat, length : Nat]
WriteCall ==
    [pc : {"chunk", "register"}, id : Nat, enc : BOOLEAN, data : Seq(Units),
     todo : Seq(Zone), segs : Seq(Nat), seg : Nat]
DeleteCall == [pc : {"release", "deregister"}, id : Nat, todo : Seq(Nat)]
SweepCall == [pc : {"sweep"}, dereg : SUBSET Nat, remove : SUBSET Nat]

ASSUME ModularAssumption ==
    /\ Idle \notin WriteCall \cup DeleteCall \cup SweepCall
    /\ MaxUnits \in Nat /\ SegmentSize \in Nat \ {0}
    /\ Setups \subseteq {"memory", "nvram", "registry"}
    /\ Encryptors \subseteq {"noop", "xts"}
    /\ MaxCapsules \in Nat /\ MaxFails \in Nat /\ MaxCrashes \in Nat

VARIABLES
    setup,          \* "memory": InMemoryBackend, InMemoryCatalog; "nvram":
                    \* NvramBackend, InMemoryCatalog; "registry": NvramBackend,
                    \* CapsuleRegistry
    encryptor,      \* NoopEncryptor or XtsEncryptor
    catalog,        \* capsules, next_segment and content of the catalog
    catalog_file,   \* what the registry last saved
    metadata,       \* the backend's Segment records
    metadata_file,  \* the segment map NvramLog last saved
    segments,       \* InMemoryBackend: the payload of every segment
    call,           \* the running call with its local variables, or Idle
    data_of,        \* history: data and encryption policy of the n-th write
    broken,         \* history: capsules whose delete began and has not succeeded
    abandoned,      \* history: segments that a write had listed when it returned an
                    \* error, with their counts raised and no capsule to list them
    torn,           \* history: segments whose removal or deregistration returned an
                    \* error or was cut off
    fails,          \* failures still allowed by MaxFails
    crashes         \* crashes still allowed by MaxCrashes

vars == <<setup, encryptor, catalog, catalog_file, metadata, metadata_file, segments,
          call, data_of, broken, abandoned, torn, fails, crashes>>

Drop(f, X) == [z \in DOMAIN f \ X |-> f[z]]

EmptyCatalog == [capsules |-> Empty, next_segment |-> 0, content |-> Empty]
CapsuleIds == 1 .. MaxCapsules
Datas == UNION {[1 .. n -> Units] : n \in 0 .. MaxUnits}

OnNvram == setup # "memory"

Init ==
    /\ setup \in Setups
    /\ encryptor \in Encryptors
    /\ catalog = EmptyCatalog /\ catalog_file = EmptyCatalog
    /\ metadata = Empty /\ metadata_file = Empty
    /\ segments = Empty
    /\ call = Idle
    /\ data_of = <<>> /\ broken = {} /\ abandoned = {} /\ torn = {}
    /\ fails = MaxFails /\ crashes = MaxCrashes

-----------------------------------------------------------------------------
(* The layout: where each segment of the data begins and how long it is.   *)

(* Mutant: the last zone is not pushed when it is not full.                *)
BuildPlanFullZones(data) ==
    [i \in 1 .. Len(data) \div SegmentSize |->
        [offset |-> (i - 1) * SegmentSize, length |-> SegmentSize]]

(* write_capsule cuts the data into slices of the segment size, so every   *)
(* slice is one segment; the last may be short.                            *)
BuildPlan(data) ==
    LET n == (Len(data) + SegmentSize - 1) \div SegmentSize
        start(i) == (i - 1) * SegmentSize
        left(i) == Len(data) - start(i)
    IN  [i \in 1 .. n |->
            [offset |-> start(i),
             length |-> IF left(i) < SegmentSize THEN left(i) ELSE SegmentSize]]

ChunkOf(data, seg) == SubSeq(data, seg.offset + 1, seg.offset + seg.length)

-----------------------------------------------------------------------------
(* Encryption: XtsEncryptor's ciphertext is never the plaintext, and its   *)
(* decrypt hands the ciphertext back.                                      *)

Encrypt(chunk, enabled) ==
    [chunk |-> chunk, cipher |-> enabled /\ encryptor = "xts"]

-----------------------------------------------------------------------------
(* Steps that write a file: the change is in memory before the save, and a *)
(* failing save leaves it there.                                           *)

CanFail == fails > 0 /\ fails' = fails - 1
NoFail == UNCHANGED fails

SaveCatalog == catalog_file' = IF setup = "registry" THEN catalog' ELSE EmptyCatalog
SaveCatalogFails == setup = "registry" /\ CanFail /\ UNCHANGED catalog_file

SaveMetadata == metadata_file' = IF OnNvram THEN metadata' ELSE Empty
SaveMetadataFails == OnNvram /\ CanFail /\ UNCHANGED metadata_file

Return == call' = Idle
At(pc) == call # Idle /\ call.pc = pc
Goto(pc) == call' = [call EXCEPT !.pc = pc]

UnchangedCatalog == UNCHANGED <<catalog, catalog_file>>
UnchangedStorage == UNCHANGED <<metadata, metadata_file, segments>>
UnchangedSetup == UNCHANGED <<setup, encryptor, crashes>>
UnchangedHistory == UNCHANGED <<data_of, broken, abandoned, torn>>

-----------------------------------------------------------------------------
(* write_capsule                                                           *)

WriteCapsule(data, enc) ==
    /\ call = Idle
    /\ Len(data_of) < MaxCapsules
    /\ data_of' = Append(data_of, [data |-> data, enc |-> enc])
    /\ call' = [pc |-> "chunk", id |-> Len(data_of) + 1, enc |-> enc, data |-> data,
                todo |-> BuildPlan(data), segs |-> <<>>, seg |-> 0]
    /\ UnchangedCatalog /\ UnchangedStorage /\ UnchangedSetup
    /\ UNCHANGED <<broken, abandoned, torn, fails>>

ThisChunk == ChunkOf(call.data, Head(call.todo))
NextChunk(seg) == [call EXCEPT !.pc = "chunk", !.todo = Tail(call.todo),
                               !.segs = Append(call.segs, seg)]
Known == ThisChunk \in DOMAIN catalog.content

(* The write goes on with the next chunk, or returns an error: the chunks  *)
(* before this one stay stored and counted.                                *)
KeepGoing(next) == call' = next /\ UNCHANGED abandoned
Abandon == Return /\ abandoned' = abandoned \cup ToSet(call.segs)
UnchangedWriteHistory == UNCHANGED <<data_of, broken, torn>>

(* Mutant: the count of a shared segment is not raised.                    *)
AddReferenceSkipped(seg) == UNCHANGED metadata

AddReference(seg) == metadata' = [metadata EXCEPT ![seg].ref_count = @ + 1]

(* The content is known: raise the count of its segment.  A transaction of *)
(* NvramLog sets the metadata of segments it has staged and of no other,   *)
(* so on NVRAM the write fails here, as it does when the segment is gone.  *)
DedupChunk ==
    /\ At("chunk") /\ call.todo # <<>> /\ Known
    /\ LET seg == catalog.content[ThisChunk]
       IN  IF seg \in DOMAIN metadata /\ ~OnNvram
           THEN AddReference(seg) /\ KeepGoing(NextChunk(seg))
           ELSE Abandon /\ UNCHANGED metadata
    /\ SaveMetadata
    /\ NoFail /\ UnchangedCatalog /\ UnchangedSetup /\ UnchangedWriteHistory
    /\ UNCHANGED segments

(* The encryptor refuses: XtsEncryptor a payload that compression has left *)
(* with fewer than 16 bytes, or a policy whose key version is not there.   *)
(* The segment has been allocated, and its transaction is dropped.         *)
EncryptRefuses ==
    /\ At("chunk") /\ call.todo # <<>> /\ ~Known
    /\ call.enc /\ encryptor = "xts"
    /\ catalog' = [catalog EXCEPT !.next_segment = @ + 1]
    /\ Abandon
    /\ NoFail /\ UnchangedStorage /\ UnchangedSetup /\ UnchangedWriteHistory
    /\ UNCHANGED catalog_file

(* The content is new: allocate a segment, store payload and metadata in   *)
(* one transaction.  (The metadata staged has offset 0, which misplaces    *)
(* the payload in NvramLog's data file: module NvramLog, KeepOffset.)      *)
StoreChunk ==
    /\ At("chunk") /\ call.todo # <<>> /\ ~Known
    /\ LET seg == catalog.next_segment
           payload == Encrypt(ThisChunk, call.enc)
       IN  /\ catalog' = [catalog EXCEPT !.next_segment = @ + 1]
           /\ segments' = IF OnNvram THEN segments ELSE Put(segments, seg, payload)
           /\ \/ \* the data write of the transaction fails
                 /\ OnNvram /\ CanFail /\ Abandon
                 /\ UNCHANGED <<metadata, metadata_file>>
              \/ /\ metadata' = Put(metadata, seg,
                        [content_hash |-> ThisChunk, ref_count |-> 1,
                         encrypted |-> call.enc])
                 /\ \/ SaveMetadata /\ NoFail
                       /\ KeepGoing([call EXCEPT !.pc = "register", !.seg = seg])
                    \/ SaveMetadataFails /\ Abandon
    /\ UnchangedSetup /\ UnchangedWriteHistory /\ UNCHANGED catalog_file

RegisterContent ==
    /\ At("register")
    /\ catalog' = [catalog EXCEPT !.content = Put(@, ThisChunk, call.seg)]
    /\ \/ SaveCatalog /\ NoFail /\ KeepGoing(NextChunk(call.seg))
       \/ SaveCatalogFails /\ Abandon
    /\ UnchangedStorage /\ UnchangedSetup /\ UnchangedWriteHistory

CreateCapsule ==
    /\ At("chunk") /\ call.todo = <<>>
    /\ catalog' = [catalog EXCEPT !.capsules = Put(@, call.id, call.segs)]
    /\ (SaveCatalog /\ NoFail) \/ SaveCatalogFails
    /\ Return
    /\ UnchangedStorage /\ UnchangedSetup /\ UnchangedHistory

-----------------------------------------------------------------------------
(* delete_capsule: give up the segments one by one, then the capsule.      *)

DeleteCapsule(id) ==
    /\ call = Idle
    /\ id \in DOMAIN catalog.capsules
    /\ call' = [pc |-> "release", id |-> id, todo |-> catalog.capsules[id]]
    /\ broken' = broken \cup {id}
    /\ UnchangedCatalog /\ UnchangedStorage /\ UnchangedSetup
    /\ UNCHANGED <<data_of, abandoned, torn, fails>>

Releasing == At("release") /\ call.todo # <<>>

(* Mutant: two references are taken for the last one.                      *)
SharedByMore(seg) == metadata[seg].ref_count > 2

Shared(seg) == metadata[seg].ref_count > 1

(* The segment is gone (an earlier delete of this capsule failed half way) *)
(* or is shared on NVRAM, where set_segment_metadata finds nothing staged. *)
ReleaseFails ==
    /\ Releasing
    /\ LET seg == Head(call.todo)
       IN  \/ seg \notin DOMAIN metadata
           \/ seg \in DOMAIN metadata /\ Shared(seg) /\ OnNvram
    /\ Return
    /\ NoFail /\ UnchangedCatalog /\ UnchangedStorage /\ UnchangedSetup /\ UnchangedHistory

ReleaseShared ==
    /\ Releasing /\ ~OnNvram
    /\ LET seg == Head(call.todo)
       IN  /\ seg \in DOMAIN metadata /\ Shared(seg)
           /\ metadata' = [metadata EXCEPT ![seg].ref_count = @ - 1]
    /\ call' = [call EXCEPT !.todo = Tail(@)]
    /\ NoFail /\ UnchangedCatalog /\ UnchangedSetup /\ UnchangedHistory
    /\ UNCHANGED <<metadata_file, segments>>

(* storage.delete of the last reference.                                   *)
ReleaseLast ==
    /\ Releasing
    /\ LET seg == Head(call.todo)
       IN  /\ seg \in DOMAIN metadata /\ ~Shared(seg)
           /\ metadata' = Drop(metadata, {seg})
           /\ segments' = Drop(segments, {seg})
           /\ torn' = torn \cup {seg}
           /\ \/ SaveMetadata /\ NoFail
                 /\ Goto("deregister")
              \/ SaveMetadataFails /\ Return
    /\ UnchangedCatalog /\ UnchangedSetup /\ UNCHANGED <<data_of, broken, abandoned>>

(* Mutant: the entry of a shared content hash is left behind.              *)
DeregisterLeft(seg) == UNCHANGED catalog

(* Remove the entry of a content hash, if it is this segment's.            *)
Deregister(seg) ==
    catalog' = [catalog EXCEPT !.content =
                    Drop(@, {h \in DOMAIN catalog.content : catalog.content[h] = seg})]

DeregisterContent ==
    /\ At("deregister")
    /\ LET seg == Head(call.todo)
       IN  /\ Deregister(seg)
           /\ \/ /\ SaveCatalog /\ NoFail
                 /\ call' = [call EXCEPT !.pc = "release", !.todo = Tail(@)]
                 /\ torn' = torn \ {seg}
              \/ SaveCatalogFails /\ Return /\ UNCHANGED torn
    /\ UnchangedStorage /\ UnchangedSetup /\ UNCHANGED <<data_of, broken, abandoned>>

RemoveCapsule ==
    /\ At("release") /\ call.todo = <<>>
    /\ catalog' = [catalog EXCEPT !.capsules = Drop(@, {call.id})]
    /\ \/ SaveCatalog /\ NoFail /\ broken' = broken \ {call.id}
       \/ SaveCatalogFails /\ UNCHANGED broken
    /\ Return
    /\ UnchangedStorage /\ UnchangedSetup /\ UNCHANGED <<data_of, abandoned, torn>>

-----------------------------------------------------------------------------
(* garbage_collect: deregister every victim while its deletion is staged,  *)
(* then commit, which on NVRAM removes them one by one.                    *)

Referenced == UNION {ToSet(catalog.capsules[id]) : id \in DOMAIN catalog.capsules}
Kept(seg) == seg \in Referenced /\ metadata[seg].ref_count > 0

GarbageCollect ==
    /\ call = Idle
    /\ LET victims == {seg \in DOMAIN metadata : ~Kept(seg)}
           known == {catalog.content[h] : h \in DOMAIN catalog.content}
       IN  /\ victims # {}
           /\ call' = [pc |-> "sweep", dereg |-> victims \cap known, remove |-> victims]
    /\ NoFail /\ UnchangedCatalog /\ UnchangedStorage /\ UnchangedSetup /\ UnchangedHistory

SweepDeregister ==
    /\ At("sweep")
    /\ \E seg \in call.dereg :
        /\ Deregister(seg)
        /\ \/ SaveCatalog /\ NoFail /\ UNCHANGED torn
              /\ call' = [call EXCEPT !.dereg = @ \ {seg}]
           \/ SaveCatalogFails /\ Return /\ torn' = torn \cup {seg}
    /\ UnchangedStorage /\ UnchangedSetup /\ UNCHANGED <<data_of, broken, abandoned>>

SweepCommit ==
    /\ At("sweep") /\ call.dereg = {}
    /\ IF OnNvram
       THEN \E seg \in call.remove :
                /\ metadata' = Drop(metadata, {seg})
                /\ UNCHANGED segments
                /\ \/ /\ SaveMetadata /\ NoFail
                      /\ call' = IF call.remove = {seg} THEN Idle
                                 ELSE [call EXCEPT !.remove = @ \ {seg}]
                   \/ SaveMetadataFails /\ Return
       ELSE /\ metadata' = Drop(metadata, call.remove)
            /\ segments' = Drop(segments, call.remove)
            /\ NoFail /\ Return /\ UNCHANGED metadata_file
    /\ UnchangedCatalog /\ UnchangedSetup /\ UnchangedHistory

-----------------------------------------------------------------------------
(* The process dies and is started again: the segment map and the registry *)
(* are read back, an InMemoryCatalog is empty.                             *)
Restart ==
    /\ OnNvram
    /\ crashes > 0 /\ crashes' = crashes - 1
    /\ metadata' = metadata_file
    /\ catalog' = catalog_file
    /\ torn' = IF setup = "registry" THEN torn ELSE {}
    /\ Return
    /\ UNCHANGED <<setup, encryptor, catalog_file, metadata_file, segments, data_of, broken,
                   abandoned, fails>>

Next ==
    \/ \E data \in Datas, enc \in BOOLEAN : WriteCapsule(data, enc)
    \/ DedupChunk \/ EncryptRefuses \/ StoreChunk \/ RegisterContent \/ CreateCapsule
    \/ \E id \in CapsuleIds : DeleteCapsule(id)
    \/ ReleaseFails \/ ReleaseShared \/ ReleaseLast \/ DeregisterContent \/ RemoveCapsule
    \/ GarbageCollect \/ SweepDeregister \/ SweepCommit
    \/ Restart

Spec == Init /\ [][Next]_vars

-----------------------------------------------------------------------------
(* read_capsule on the in-memory backend: the payloads of the segments,    *)
(* which the encryptor's decrypt hands back as they are.                   *)
ReadCapsule(id) ==
    [i \in DOMAIN catalog.capsules[id] |-> segments[catalog.capsules[id][i]]]

(* Type invariant.                                                         *)
TypeOK ==
    /\ setup \in Setups /\ encryptor \in Encryptors
    /\ \A cat \in {catalog, catalog_file} :
        /\ DOMAIN cat.capsules \subseteq CapsuleIds
        /\ cat.next_segment \in Nat
        /\ \A h \in DOMAIN cat.content : cat.content[h] < cat.next_segment
    /\ \A map \in {metadata, metadata_file} : \A seg \in DOMAIN map :
        map[seg].ref_count \in Nat \ {0}
    /\ call \in WriteCall \cup DeleteCall \cup SweepCall \cup {Idle}
    /\ broken \subseteq CapsuleIds /\ abandoned \subseteq Nat
    /\ fails \in 0 .. MaxFails /\ crashes \in 0 .. MaxCrashes

(* Every segment of a capsule whose delete never began is there, and the   *)
(* content hashes of the segments are those of the chunks of its data, in  *)
(* order, on all assemblies.  The bytes of the segments are another matter *)
(* on NVRAM, where the write stages offset 0 for every segment and each    *)
(* commit overwrites the one before: the run NvramLogModular.              *)
SegmentsDescribed ==
    \A id \in DOMAIN catalog.capsules \ broken :
        LET segs == catalog.capsules[id]
        IN  /\ ToSet(segs) \subseteq DOMAIN metadata
            /\ FlattenSeq([i \in DOMAIN segs |-> metadata[segs[i]].content_hash])
                    = data_of[id].data

(* On the in-memory backend read_capsule of such a capsule returns its     *)
(* data, unless XtsEncryptor encrypted it.                                 *)
ReadBack ==
    ~OnNvram =>
        \A id \in DOMAIN catalog.capsules \ broken :
            LET segs == catalog.capsules[id]
            IN  /\ ToSet(segs) \subseteq DOMAIN segments
                /\ (\A i \in DOMAIN segs : ~ReadCapsule(id)[i].cipher) =>
                    FlattenSeq([i \in DOMAIN segs |-> ReadCapsule(id)[i].chunk])
                        = data_of[id].data

(* Where the capsules ids list the segment.                                *)
Listings(seg, ids) ==
    UNION {{<<id, i>> : i \in {j \in DOMAIN catalog.capsules[id] :
                                catalog.capsules[id][j] = seg}} : id \in ids}
HeldBy(seg, ids) == Cardinality(Listings(seg, ids))

(* The count of a segment covers the capsules that list it, so that no     *)
(* delete removes a segment in use.  In memory it is exact between calls,  *)
(* so that the last delete does remove it, unless a write that returned an *)
(* error had counted the segment: nothing takes that count back.           *)
RefCountCovers ==
    \A seg \in DOMAIN metadata :
        LET held == HeldBy(seg, DOMAIN catalog.capsules \ broken)
        IN  /\ metadata[seg].ref_count >= held
            /\ call = Idle /\ ~OnNvram /\ seg \notin abandoned =>
                metadata[seg].ref_count = held

(* The content index points to a stored segment of that content, so that   *)
(* writes of known content do not fail; the only exception is a segment    *)
(* whose removal or deregistration failed or was cut off in between.       *)
ContentLive ==
    \A h \in DOMAIN catalog.content :
        LET seg == catalog.content[h]
        IN  seg \in torn \/ (seg \in DOMAIN metadata /\ metadata[seg].content_hash = h)
=============================================================================

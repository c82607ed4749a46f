----------------------------- MODULE SegmentCodec -----------------------------
(***************************************************************************)
(* What a write does to a chunk (compress, hash, encrypt, deduplicate) and *)
(* what a read undoes: write_capsule_with_policy and read_capsule of       *)
(* crates/capsule-registry, crates/compression, crates/encryption and the  *)
(* ML-KEM profile of crates/common.  Capsules of different policies share  *)
(* segments, keys are rotated between any two chunks of a write, and the   *)
(* process restarts with or without its master key.  What a crash does to  *)
(* the maps is module WritePipeline; here a restart keeps them.            *)
(*                                                                         *)
(* Bytes are abstract: raw data r, or the frame an algorithm makes of r,   *)
(* which a caller may also write as its data.  Equal bytes have equal      *)
(* hashes.  A key is what it is derived from.                              *)
(***************************************************************************)
EXTENDS Integers, Sequences, FiniteSets, Maps

CONSTANTS
    Compressible,   \* raw chunks that shrink under every algorithm
    Incompressible, \* raw chunks of high entropy or that do not shrink
    Short,          \* raw chunks of less than 16 bytes; they do not shrink either
    Datas,          \* what callers write: sequences of chunks
    Algorithms,     \* CompressionPolicy: "None", "LZ4", "Zstd"
    Profiles,       \* CryptoProfile: "Classical", "HybridKyber"
    Providers,      \* where the master key comes from: "env", "tpm"
    Provisions,     \* what a start may find: [keys |-> master key set,
                    \* mlkem |-> ML-KEM key pair loaded]
    MaxCapsules,    \* bound: number of writes
    MaxVersion,     \* bound: key version
    MaxRestarts,    \* bound: restarts
    None            \* no key manager, no key, no hash, no call

ASSUME CodecAssumption ==
    /\ Algorithms \subseteq {"None", "LZ4", "Zstd"}
    /\ Profiles \subseteq {"Classical", "HybridKyber"}
    /\ Providers \subseteq {"env", "tpm"}
    /\ Provisions \subseteq [keys : BOOLEAN, mlkem : BOOLEAN]
    /\ {MaxCapsules, MaxVersion, MaxRestarts} \subseteq Nat

VARIABLES
    provider,       \* the source of the master key, fixed for an installation
    key_manager,    \* the pipeline's KeyManager, None without SPACE_MASTER_KEY
    mlkem_manager,  \* the ML-KEM key pair could be loaded
    segment_map,    \* NvramLog: segments with payload and encryption metadata
    content_store,  \* CapsuleRegistry: hash of a chunk to its segment
    capsules,       \* CapsuleRegistry: policy and segments of each capsule
    job,            \* the running write, or None
    data_of,        \* history: data of the n-th write
    restarts        \* restarts still allowed by MaxRestarts

vars == <<provider, key_manager, mlkem_manager, segment_map, content_store, capsules, job,
          data_of, restarts>>
store == <<segment_map, content_store, capsules>>

Raws == Compressible \cup Incompressible \cup Short
Raw(r) == [kind |-> "raw", of |-> r]
Frame(alg, bytes) == [kind |-> alg, of |-> bytes.of]
Chunks == {Raw(r) : r \in Raws} \cup
          {Frame(alg, Raw(r)) : alg \in Algorithms \ {"None"}, r \in Compressible}

(* chunks() cuts the data into full chunks; only the last may be short.    *)
ASSUME DatasAssumption ==
    /\ Datas \subseteq Seq(Chunks)
    /\ \A d \in Datas : \A i \in DOMAIN d : d[i].of \in Short => i = Len(d)

Policies == {p \in [compression : Algorithms, encrypt : BOOLEAN, profile : Profiles,
                    dedupe : BOOLEAN] : p.profile # "Classical" => p.encrypt}

-----------------------------------------------------------------------------
(* Compression.                                                            *)

Shrinks(chunk) == chunk.kind = "raw" /\ chunk.of \in Compressible

(* adaptive_compress: data that does not shrink is stored as it is.        *)
Compress(chunk, alg) ==
    IF alg # "None" /\ Shrinks(chunk) THEN Frame(alg, chunk) ELSE chunk

(* read_capsule decompresses by the capsule's policy and takes bytes that  *)
(* are no frame of that algorithm for data stored uncompressed.            *)
Decompress(bytes, alg) == IF bytes.kind = alg THEN Raw(bytes.of) ELSE bytes

-----------------------------------------------------------------------------
(* Keys.                                                                   *)

DeriveKey(salt, version) == [salt |-> salt, version |-> version]
DerivedKeys == [salt : {"default", "tpm"}, version : Nat]

(* KeyManager::new derives the key of version 1 with the default salt.     *)
NewKeyManager ==
    [salt |-> "default", current_version |-> 1, rotating |-> FALSE,
     key_cache |-> [v \in {1} |-> DeriveKey("default", v)]]

(* Mutant: the keys derived with the default salt stay in the cache.       *)
FromTpmCached == [NewKeyManager EXCEPT !.salt = "tpm"]

FromTpm ==
    [NewKeyManager EXCEPT !.salt = "tpm",
                          !.key_cache = [v \in {1} |-> DeriveKey("tpm", v)]]

StartKeyManager(found) ==
    IF ~found.keys THEN None ELSE IF provider = "tpm" THEN FromTpm ELSE NewKeyManager

(* get_key: the cached key, or else the derived one.                       *)
GetKey(version) ==
    IF version \in DOMAIN key_manager.key_cache THEN key_manager.key_cache[version]
    ELSE DeriveKey(key_manager.salt, version)

CacheKeys(versions) ==
    [key_manager EXCEPT !.key_cache = [v \in DOMAIN @ \cup versions |-> GetKey(v)]]

(* derive_material of the hybrid profile binds the key to the capsule, the *)
(* index of the chunk and its hash.                                        *)
WrapKey(key, cap, index, hash) ==
    [base |-> key, capsule |-> cap, index |-> index, hash |-> hash]
WrappedKeys == [base : DerivedKeys, capsule : Nat, index : Nat, hash : Chunks]

ASSUME NoneAssumption == None \notin Chunks \cup DerivedKeys \cup WrappedKeys

Rotate ==
    /\ key_manager # None
    /\ ~key_manager.rotating
    /\ key_manager.current_version < MaxVersion
    /\ key_manager' =
        LET v == key_manager.current_version + 1
        IN  [key_manager EXCEPT !.rotating = TRUE, !.current_version = v,
                !.key_cache = Put(@, v, DeriveKey(key_manager.salt, v))]
    /\ UNCHANGED <<provider, mlkem_manager, store, job, data_of, restarts>>

CompleteRotation ==
    /\ key_manager # None
    /\ key_manager.rotating
    /\ key_manager' = [key_manager EXCEPT !.rotating = FALSE]
    /\ UNCHANGED <<provider, mlkem_manager, store, job, data_of, restarts>>

ClearCache ==
    /\ key_manager # None
    /\ key_manager.key_cache # Empty
    /\ key_manager' = [key_manager EXCEPT !.key_cache = Empty]
    /\ UNCHANGED <<provider, mlkem_manager, store, job, data_of, restarts>>

-----------------------------------------------------------------------------
Init ==
    /\ provider \in Providers
    /\ \E found \in Provisions :
        /\ key_manager = StartKeyManager(found)
        /\ mlkem_manager = found.mlkem
    /\ segment_map = <<>>
    /\ content_store = Empty
    /\ capsules = Empty
    /\ job = None
    /\ data_of = <<>>
    /\ restarts = MaxRestarts

(* The process starts again; the version of the key manager is not saved.  *)
Restart ==
    /\ restarts > 0 /\ restarts' = restarts - 1
    /\ \E found \in Provisions :
        /\ key_manager' = StartKeyManager(found)
        /\ mlkem_manager' = found.mlkem
    /\ job' = None
    /\ UNCHANGED <<provider, store, data_of>>

-----------------------------------------------------------------------------
(* Writes.                                                                 *)

(* Mutant: chunks are stored in the clear while keys are rotated.          *)
EncryptionEnabledSteady(policy) ==
    policy.encrypt /\ key_manager # None /\ ~key_manager.rotating

(* Without a key manager an encrypting policy stores plaintext.            *)
EncryptionEnabled(policy) == policy.encrypt /\ key_manager # None

WriteCapsule(data, policy) ==
    /\ job = None
    /\ Len(data_of) < MaxCapsules
    /\ data_of' = Append(data_of, data)
    /\ job' = [cap |-> Len(data_of) + 1, policy |-> policy, segs |-> <<>>]
    /\ UNCHANGED <<provider, key_manager, mlkem_manager, store, restarts>>

Index == Len(job.segs) + 1

(* The key of this chunk: wrapped when the profile asks for it and ML-KEM  *)
(* is available, else the key of the version.                              *)
Hybrid == job.policy.profile = "HybridKyber" /\ mlkem_manager
ChunkKey(hash) ==
    LET key == GetKey(key_manager.current_version)
    IN  IF Hybrid THEN WrapKey(key, job.cap, Index, hash) ELSE key

(* A chunk compressed, hashed and, if enabled, encrypted; by tells which   *)
(* write made it.                                                          *)
Prepared ==
    LET bytes == Compress(data_of[job.cap][Index], job.policy.compression)
        on == EncryptionEnabled(job.policy)
    IN  [hash |-> bytes, payload |-> bytes, by |-> <<job.cap, Index>>, pq |-> on /\ Hybrid,
         key |-> IF on THEN ChunkKey(bytes) ELSE None,
         key_version |-> IF on THEN key_manager.current_version ELSE 0]

(* The key manager's lock is held while a chunk is encrypted and given up  *)
(* before the next, so keys may be rotated in between.                     *)
UseKey ==
    key_manager' = IF EncryptionEnabled(job.policy)
                   THEN CacheKeys({key_manager.current_version}) ELSE key_manager

AtChunk == job # None /\ Index <= Len(data_of[job.cap])
Refused(p) == p.key # None /\ p.payload.of \in Short
Known(p) == job.policy.dedupe /\ p.hash \in DOMAIN content_store

(* XTS refuses less than one block, and the write fails with the chunks    *)
(* before it stored.                                                       *)
RefuseChunk ==
    /\ AtChunk /\ Refused(Prepared)
    /\ job' = None
    /\ UseKey
    /\ UNCHANGED <<provider, mlkem_manager, store, data_of, restarts>>

ReuseSegment ==
    /\ AtChunk /\ ~Refused(Prepared) /\ Known(Prepared)
    /\ job' = [job EXCEPT !.segs = Append(@, content_store[Prepared.hash])]
    /\ UseKey
    /\ UNCHANGED <<provider, mlkem_manager, store, data_of, restarts>>

(* The content hash is kept with the segment only if the policy            *)
(* deduplicates.                                                           *)
NewSegment ==
    /\ AtChunk /\ ~Refused(Prepared) /\ ~Known(Prepared)
    /\ LET seg == Len(segment_map) + 1
           p == Prepared
           dedupe == job.policy.dedupe
       IN  /\ segment_map' = Append(segment_map,
                  [p EXCEPT !.hash = IF dedupe THEN p.hash ELSE None])
           /\ content_store' = IF dedupe THEN Put(content_store, p.hash, seg)
                               ELSE content_store
           /\ job' = [job EXCEPT !.segs = Append(@, seg)]
    /\ UseKey
    /\ UNCHANGED <<provider, mlkem_manager, capsules, data_of, restarts>>

CreateCapsule ==
    /\ job # None
    /\ Index > Len(data_of[job.cap])
    /\ capsules' = Put(capsules, job.cap, [policy |-> job.policy, segments |-> job.segs])
    /\ job' = None
    /\ UNCHANGED <<provider, key_manager, mlkem_manager, segment_map, content_store, data_of,
                   restarts>>

-----------------------------------------------------------------------------
(* Reads.                                                                  *)

SegmentAt(cap, i) == segment_map[capsules[cap].segments[i]]
Encrypted(seg) == seg.key # None

(* The key the read uses for the i-th segment of a capsule.                *)
ReadKey(cap, i) ==
    LET seg == SegmentAt(cap, i)
        key == GetKey(seg.key_version)
        unwraps == /\ capsules[cap].policy.profile = "HybridKyber"
                   /\ mlkem_manager /\ seg.pq /\ seg.hash # None
    IN  IF unwraps THEN WrapKey(key, cap, i, seg.hash) ELSE key

(* Mutant: the MAC is not verified.                                        *)
VerifyMacSkipped(seg, key) == TRUE

(* The MAC key is derived from the XTS key.                                *)
VerifyMac(seg, key) == key = seg.key

(* XTS under another key gives other bytes.                                *)
DecryptSegment(seg, key) ==
    IF key = seg.key THEN seg.payload ELSE [kind |-> "garbage", of |-> None]

(* What the read of one segment gives: bytes, or None for an error.        *)
ReadSegment(cap, i) ==
    LET seg == SegmentAt(cap, i)
        alg == capsules[cap].policy.compression
    IN  IF ~Encrypted(seg) THEN Decompress(seg.payload, alg)
        ELSE IF key_manager = None \/ ~VerifyMac(seg, ReadKey(cap, i)) THEN None
        ELSE Decompress(DecryptSegment(seg, ReadKey(cap, i)), alg)

Positions(cap) == DOMAIN capsules[cap].segments

(* read_capsule changes nothing but the key cache, up to the segment that  *)
(* fails or to the last.                                                   *)
ReadCapsule(cap) ==
    /\ cap \in DOMAIN capsules
    /\ key_manager # None
    /\ LET tried == {i \in Positions(cap) :
                        \A j \in 1 .. (i - 1) : ReadSegment(cap, j) # None}
           versions == {SegmentAt(cap, i).key_version :
                            i \in {j \in tried : Encrypted(SegmentAt(cap, j))}}
       IN  key_manager' = CacheKeys(versions)
    /\ UNCHANGED <<provider, mlkem_manager, store, job, data_of, restarts>>

Next ==
    \/ Rotate \/ CompleteRotation \/ ClearCache
    \/ Restart
    \/ \E data \in Datas, policy \in Policies : WriteCapsule(data, policy)
    \/ RefuseChunk \/ ReuseSegment \/ NewSegment \/ CreateCapsule
    \/ \E cap \in 1 .. MaxCapsules : ReadCapsule(cap)

Spec == Init /\ [][Next]_vars

-----------------------------------------------------------------------------
(* The chunk is itself a frame of the capsule's algorithm: it was stored   *)
(* as it is and the read decompresses it once too often.                   *)
TakenForFrame(cap, i) == data_of[cap][i].kind = capsules[cap].policy.compression

(* A hybrid key opens its segment only for the capsule and the index it    *)
(* was wrapped for, read under the hybrid profile, with the hash at hand.  *)
HybridOutOfPlace(cap, i) ==
    /\ SegmentAt(cap, i).pq
    /\ ~(SegmentAt(cap, i).by = <<cap, i>> /\ capsules[cap].policy.dedupe)

KeysAtHand(cap, i) ==
    /\ Encrypted(SegmentAt(cap, i)) => key_manager # None
    /\ SegmentAt(cap, i).pq => mlkem_manager

(* With its keys at hand a capsule reads back as it was written, whatever  *)
(* rotations, cleared caches and restarts came in between and whichever    *)
(* capsule of whichever policy stored the shared segment first; the two    *)
(* exceptions are data that looks like a compressed frame and hybrid       *)
(* segments read from another place.                                       *)
ReadBack ==
    \A cap \in DOMAIN capsules : \A i \in Positions(cap) :
        \/ ~KeysAtHand(cap, i) \/ TakenForFrame(cap, i) \/ HybridOutOfPlace(cap, i)
        \/ ReadSegment(cap, i) = data_of[cap][i]

(* A read never returns other data than was written without an error,      *)
(* wrong keys and misplaced hybrid segments included; the one exception is *)
(* data that looks like a compressed frame.                                *)
NoWrongData ==
    \A cap \in DOMAIN capsules : \A i \in Positions(cap) :
        ReadSegment(cap, i) \in {None, data_of[cap][i]} \/ TakenForFrame(cap, i)

(* A segment stored in the clear is never the first copy made for an       *)
(* encrypting policy while a key manager is there; ghost of the write that *)
(* stored it: by.  (A capsule of an encrypting policy does share segments  *)
(* that a plaintext capsule stored earlier.)                               *)
ClearOnlyIfShared ==
    \A cap \in DOMAIN capsules : \A i \in Positions(cap) :
        LET seg == SegmentAt(cap, i)
        IN  capsules[cap].policy.encrypt /\ restarts = MaxRestarts /\ key_manager # None
                => Encrypted(seg) \/ (seg.by[1] # cap /\ capsules[cap].policy.dedupe)

(* What the HybridKyber profile stores can be read with the keys at hand.  *)
HybridReadable ==
    \A cap \in DOMAIN capsules : \A i \in Positions(cap) :
        capsules[cap].policy.profile = "HybridKyber" /\ KeysAtHand(cap, i)
            => ReadSegment(cap, i) # None
=============================================================================

-------------------------- MODULE SegmentCodecProofs --------------------------
(***************************************************************************)
(* Proofs about SegmentCodec: a capsule reads back what was written, never *)
(* other data, and a segment in the clear was made for nobody who had      *)
(* asked for encryption and had keys.                                      *)
(*                                                                         *)
(* The inductive invariant ties what is stored with a segment to the key   *)
(* it was encrypted with: whatever was rotated, cached, forgotten or       *)
(* restarted in between, the version alone derives that key again.         *)
(***************************************************************************)
EXTENDS SegmentCodec, SequenceTheorems, TLAPS

(* Every key manager of an installation derives with the same salt.        *)
Salt == IF provider = "tpm" THEN "tpm" ELSE "default"

Keys == DerivedKeys \cup WrappedKeys
Segment == [hash : Chunks \cup {None}, payload : Chunks, by : Nat \X Nat, pq : BOOLEAN,
            key : Keys \cup {None}, key_version : Nat]

(* A key manager derives any key anew to what its cache holds.             *)
Manager(salt, km) ==
    /\ DOMAIN km = {"salt", "current_version", "rotating", "key_cache"}
    /\ km.salt = salt /\ km.current_version \in Nat /\ km.rotating \in BOOLEAN
    /\ \A v \in DOMAIN km.key_cache : km.key_cache[v] = DeriveKey(salt, v)

KeysOK ==
    /\ provider \in {"env", "tpm"} /\ mlkem_manager \in BOOLEAN
    /\ key_manager # None => Manager(Salt, key_manager)
    /\ restarts \in Nat /\ restarts <= MaxRestarts

(* The key a segment was encrypted with, from what is stored with it.      *)
KeyOf(salt, seg) ==
    IF seg.pq THEN WrapKey(DeriveKey(salt, seg.key_version), seg.by[1], seg.by[2], seg.payload)
    ELSE DeriveKey(salt, seg.key_version)

SegmentOK(d, salt, seg) ==
    /\ seg \in Segment /\ seg.by[1] \in 1 .. Len(d)
    /\ seg.hash \in {None, seg.payload} /\ seg.key \in {None, KeyOf(salt, seg)}

SegmentsOK ==
    /\ segment_map \in Seq(Segment)
    /\ \A s \in DOMAIN segment_map : SegmentOK(data_of, Salt, segment_map[s])

StoreOK ==
    \A h \in DOMAIN content_store :
        /\ content_store[h] \in DOMAIN segment_map
        /\ segment_map[content_store[h]].payload = h

(* No restart yet, and keys: all that ran so far had keys.                 *)
Keyed == restarts = MaxRestarts /\ key_manager # None

(* The segments write c has made, under policy p.                          *)
Made(m, keyed, c, p) ==
    \A s \in DOMAIN m : m[s].by[1] = c =>
        /\ m[s].pq => p.profile = "HybridKyber"
        /\ p.dedupe => m[s].hash # None
        /\ keyed /\ p.encrypt => m[s].key # None

(* The segments write c has collected, its own or shared ones.             *)
Collected(d, m, c, p, segs) ==
    /\ segs \in Seq(Nat) /\ Len(segs) <= Len(d[c])
    /\ \A i \in 1 .. Len(segs) :
        /\ segs[i] \in DOMAIN m
        /\ m[segs[i]].payload = Compress(d[c][i], p.compression)
        /\ m[segs[i]].by[1] = c \/ p.dedupe

WriteOK(d, m, keyed, c, p, segs) ==
    /\ c \in 1 .. Len(d) /\ p \in Policies
    /\ Made(m, keyed, c, p) /\ Collected(d, m, c, p, segs)

CapsulesOK ==
    \A c \in DOMAIN capsules :
        WriteOK(data_of, segment_map, Keyed, c, capsules[c].policy, capsules[c].segments)

JobOK ==
    job # None => /\ WriteOK(data_of, segment_map, Keyed, job.cap, job.policy, job.segs)
                  /\ job.cap \notin DOMAIN capsules
                  /\ DOMAIN job = {"cap", "policy", "segs"}

IndInv ==
    /\ data_of \in Seq(Seq(Chunks)) /\ KeysOK /\ SegmentsOK /\ StoreOK
    /\ CapsulesOK /\ JobOK

-----------------------------------------------------------------------------
(* Chunks and compression.                                                 *)

LEMMA ChunkIs ==
    ASSUME NEW x, x \in Chunks
    PROVE  /\ x = [kind |-> x.kind, of |-> x.of] /\ x # None
           /\ x.kind \in {"raw"} \cup (Algorithms \ {"None"})
<1>1. x # None
    BY NoneAssumption
<1>2. CASE \E r \in Raws : x = Raw(r)
    BY <1>1, <1>2 DEF Raw
<1>3. CASE \E alg \in Algorithms \ {"None"}, r \in Compressible : x = Frame(alg, Raw(r))
    <2>1. PICK alg \in Algorithms \ {"None"}, r \in Compressible : x = Frame(alg, Raw(r))
        BY <1>3
    <2>2. x = [kind |-> alg, of |-> r]
        BY <2>1 DEF Frame, Raw
    <2> QED  BY <1>1, <2>2
<1> QED  BY <1>2, <1>3 DEF Chunks

LEMMA CompressIs ==
    ASSUME NEW x, x \in Chunks, NEW alg, alg \in Algorithms
    PROVE  /\ Compress(x, alg) \in Chunks
           /\ x.kind # alg => Decompress(Compress(x, alg), alg) = x
<1>1. x = [kind |-> x.kind, of |-> x.of]
    BY ChunkIs
<1>2. CASE alg # "None" /\ Shrinks(x)
    <2>1. x.kind = "raw" /\ x.of \in Compressible
        BY <1>2 DEF Shrinks
    <2>2. x = Raw(x.of)
        BY <1>1, <2>1 DEF Raw
    <2>3. Compress(x, alg) = Frame(alg, Raw(x.of))
        BY <1>2, <2>2 DEF Compress
    <2>4. Compress(x, alg) \in Chunks
        BY <1>2, <2>1, <2>3 DEF Chunks
    <2>5. Compress(x, alg) = [kind |-> alg, of |-> x.of]
        BY <1>2 DEF Compress, Frame
    <2>6. Decompress(Compress(x, alg), alg) = Raw(x.of)
        BY <2>5 DEF Decompress
    <2> QED  BY <2>2, <2>4, <2>6
<1>3. CASE ~(alg # "None" /\ Shrinks(x))
    <2>1. Compress(x, alg) = x
        BY <1>3 DEF Compress
    <2> QED  BY <2>1 DEF Decompress
<1> QED  BY <1>2, <1>3

-----------------------------------------------------------------------------
(* Keys.                                                                   *)

LEMMA SaltIs ==
    ASSUME KeysOK
    PROVE  Salt \in {"default", "tpm"}
BY DEF Salt

LEMMA DeriveIs ==
    ASSUME KeysOK, NEW v \in Nat
    PROVE  DeriveKey(Salt, v) \in DerivedKeys
BY SaltIs DEF DeriveKey, DerivedKeys

(* get_key gives the derived key, cached or not.                           *)
LEMMA GetKeyIs ==
    ASSUME KeysOK, key_manager # None, NEW v
    PROVE  GetKey(v) = DeriveKey(Salt, v)
BY DEF KeysOK, Manager, GetKey

LEMMA KeyOfIs ==
    ASSUME KeysOK, NEW seg, seg \in Segment
    PROVE  KeyOf(Salt, seg) \in Keys /\ KeyOf(Salt, seg) # None
<1>1. seg.pq \in BOOLEAN /\ seg.key_version \in Nat /\ seg.payload \in Chunks /\ seg.by \in Nat \X Nat
    BY DEF Segment
<1>2. seg.by[1] \in Nat /\ seg.by[2] \in Nat
    BY <1>1
<1>3. DeriveKey(Salt, seg.key_version) \in DerivedKeys
    BY <1>1, DeriveIs
<1>4. WrapKey(DeriveKey(Salt, seg.key_version), seg.by[1], seg.by[2], seg.payload) \in WrappedKeys
    BY <1>1, <1>2, <1>3 DEF WrapKey, WrappedKeys
<1>5. KeyOf(Salt, seg) \in Keys
    BY <1>3, <1>4 DEF KeyOf, Keys
<1> QED  BY <1>5, NoneAssumption DEF Keys

-----------------------------------------------------------------------------
(* What a step leaves of writes it does not concern.                       *)

(* Data and segments are only added.                                       *)
Grown(d, m, d2, m2) ==
    /\ Len(d) <= Len(d2) /\ \A c \in 1 .. Len(d) : d2[c] = d[c]
    /\ DOMAIN m \subseteq DOMAIN m2 /\ \A s \in DOMAIN m : m2[s] = m[s]

LEMMA WriteStays ==
    ASSUME NEW d, d \in Seq(Seq(Chunks)), NEW d2, d2 \in Seq(Seq(Chunks)), NEW m, NEW m2, Grown(d, m, d2, m2),
           NEW keyed, NEW keyed2, keyed2 => keyed, NEW c, NEW p, NEW segs,
           WriteOK(d, m, keyed, c, p, segs), \A s \in DOMAIN m2 \ DOMAIN m : m2[s].by[1] # c
    PROVE  WriteOK(d2, m2, keyed2, c, p, segs)
<1>1. Len(d) \in Nat /\ Len(d2) \in Nat /\ Len(d) <= Len(d2)
    BY LenProperties DEF Grown
<1>2. c \in 1 .. Len(d) /\ p \in Policies /\ Made(m, keyed, c, p) /\ Collected(d, m, c, p, segs)
    BY DEF WriteOK
<1>3. c \in 1 .. Len(d2) /\ d2[c] = d[c]
    BY <1>1, <1>2 DEF Grown
<1>4. Made(m2, keyed2, c, p)
    BY <1>2 DEF Made, Grown
<1>5. Collected(d2, m2, c, p, segs)
    BY <1>2, <1>3 DEF Collected, Grown
<1> QED  BY <1>2, <1>3, <1>4, <1>5 DEF WriteOK

LEMMA SegmentStays ==
    ASSUME NEW d, d \in Seq(Seq(Chunks)), NEW d2, d2 \in Seq(Seq(Chunks)), Len(d) <= Len(d2), NEW salt, NEW seg,
           SegmentOK(d, salt, seg)
    PROVE  SegmentOK(d2, salt, seg)
<1>1. Len(d) \in Nat /\ Len(d2) \in Nat
    BY LenProperties
<1> QED  BY <1>1 DEF SegmentOK

(* A step that stores no segment and no data.                              *)
LEMMA QuietStep ==
    ASSUME IndInv, KeysOK', UNCHANGED <<provider, segment_map, content_store, capsules, data_of>>,
           Keyed' => Keyed, JobOK'
    PROVE  IndInv'
<1>1. Salt' = Salt
    BY DEF Salt
<1>2. data_of \in Seq(Seq(Chunks)) /\ Grown(data_of, segment_map, data_of, segment_map)
    BY LenProperties DEF IndInv, Grown
<1>3. SegmentsOK'
    BY <1>1 DEF IndInv, SegmentsOK
<1>4. StoreOK'
    BY DEF IndInv, StoreOK
<1>5. CapsulesOK'
    <2> SUFFICES ASSUME NEW c \in DOMAIN capsules
                 PROVE  WriteOK(data_of, segment_map, Keyed', c, capsules[c].policy, capsules[c].segments)
        BY DEF CapsulesOK
    <2>1. WriteOK(data_of, segment_map, Keyed, c, capsules[c].policy, capsules[c].segments)
        BY DEF IndInv, CapsulesOK
    <2> QED  BY <1>2, <2>1, WriteStays
<1> QED  BY <1>3, <1>4, <1>5 DEF IndInv

(* The job stays as it is.                                                 *)
LEMMA JobStays ==
    ASSUME IndInv, UNCHANGED <<segment_map, capsules, job, data_of>>, Keyed' => Keyed
    PROVE  JobOK'
<1> SUFFICES ASSUME job # None
             PROVE  WriteOK(data_of, segment_map, Keyed', job.cap, job.policy, job.segs)
    BY DEF JobOK, IndInv
<1>1. WriteOK(data_of, segment_map, Keyed, job.cap, job.policy, job.segs)
    BY DEF IndInv, JobOK
<1>2. data_of \in Seq(Seq(Chunks)) /\ Grown(data_of, segment_map, data_of, segment_map)
    BY LenProperties DEF IndInv, Grown
<1> QED  BY <1>1, <1>2, WriteStays

-----------------------------------------------------------------------------
(* Steps of the key manager.                                               *)

LEMMA KeysStep ==
    ASSUME IndInv, UNCHANGED <<provider, mlkem_manager, restarts>>,
           key_manager' # None => key_manager # None /\ Manager(Salt, key_manager')
    PROVE  KeysOK' /\ (Keyed' => Keyed)
<1>1. Salt' = Salt
    BY DEF Salt
<1> QED  BY <1>1 DEF IndInv, KeysOK, Keyed

LEMMA KeyStep ==
    ASSUME IndInv, UNCHANGED <<provider, mlkem_manager, store, job, data_of, restarts>>,
           key_manager # None, Manager(Salt, key_manager')
    PROVE  IndInv'
<1>1. KeysOK' /\ (Keyed' => Keyed)
    BY KeysStep
<1>2. UNCHANGED <<provider, segment_map, content_store, capsules, data_of>>
    BY DEF store
<1>3. JobOK'
    BY <1>1, <1>2, JobStays
<1> QED  BY <1>1, <1>2, <1>3, QuietStep

LEMMA StepRotate ==
    ASSUME IndInv, Rotate
    PROVE  IndInv'
<1> DEFINE v == key_manager.current_version + 1
           cache == Put(key_manager.key_cache, v, DeriveKey(key_manager.salt, v))
<1>1. /\ key_manager # None /\ UNCHANGED <<provider, mlkem_manager, store, job, data_of, restarts>>
      /\ key_manager' = [key_manager EXCEPT !.rotating = TRUE, !.current_version = v, !.key_cache = cache]
    BY DEF Rotate
<1>2. Manager(Salt, key_manager)
    BY <1>1 DEF IndInv, KeysOK
<1>3. v \in Nat
    BY <1>2 DEF Manager
<1>4. \A w \in DOMAIN cache : cache[w] = DeriveKey(Salt, w)
    BY <1>2 DEF Manager, Put
<1> HIDE DEF v, cache
<1>5. Manager(Salt, key_manager')
    BY <1>1, <1>2, <1>3, <1>4 DEF Manager
<1> QED  BY <1>1, <1>5, KeyStep

LEMMA StepCompleteRotation ==
    ASSUME IndInv, CompleteRotation
    PROVE  IndInv'
<1>1. /\ key_manager # None /\ UNCHANGED <<provider, mlkem_manager, store, job, data_of, restarts>>
      /\ key_manager' = [key_manager EXCEPT !.rotating = FALSE]
    BY DEF CompleteRotation
<1>2. Manager(Salt, key_manager)
    BY <1>1 DEF IndInv, KeysOK
<1>3. Manager(Salt, key_manager')
    BY <1>1, <1>2 DEF Manager
<1> QED  BY <1>1, <1>3, KeyStep

LEMMA StepClearCache ==
    ASSUME IndInv, ClearCache
    PROVE  IndInv'
<1>1. /\ key_manager # None /\ UNCHANGED <<provider, mlkem_manager, store, job, data_of, restarts>>
      /\ key_manager' = [key_manager EXCEPT !.key_cache = Empty]
    BY DEF ClearCache
<1>2. Manager(Salt, key_manager) /\ DOMAIN Empty = {}
    BY <1>1 DEF IndInv, KeysOK, Empty
<1>3. Manager(Salt, key_manager')
    BY <1>1, <1>2 DEF Manager
<1> QED  BY <1>1, <1>3, KeyStep

(* Whatever is cached is what would be derived.                            *)
LEMMA CacheIs ==
    ASSUME KeysOK, key_manager # None, NEW versions
    PROVE  Manager(Salt, CacheKeys(versions))
<1> DEFINE cache == [v \in DOMAIN key_manager.key_cache \cup versions |-> GetKey(v)]
<1>1. Manager(Salt, key_manager)
    BY DEF KeysOK
<1>2. \A v \in DOMAIN cache : cache[v] = DeriveKey(Salt, v)
    BY GetKeyIs
<1>3. CacheKeys(versions) = [key_manager EXCEPT !.key_cache = cache]
    BY DEF CacheKeys
<1> HIDE DEF cache
<1> QED  BY <1>1, <1>2, <1>3 DEF Manager

LEMMA StepReadCapsule ==
    ASSUME IndInv, NEW cap, ReadCapsule(cap)
    PROVE  IndInv'
<1>1. /\ key_manager # None /\ UNCHANGED <<provider, mlkem_manager, store, job, data_of, restarts>>
      /\ \E versions : key_manager' = CacheKeys(versions)
    BY DEF ReadCapsule
<1>2. Manager(Salt, key_manager')
    BY <1>1, CacheIs DEF IndInv
<1> QED  BY <1>1, <1>2, KeyStep

(* The key manager a start finds.                                          *)
LEMMA StartIs ==
    ASSUME NEW found \in Provisions, provider \in {"env", "tpm"}, StartKeyManager(found) # None
    PROVE  Manager(Salt, StartKeyManager(found))
<1>1. CASE provider = "tpm"
    <2>1. StartKeyManager(found) = FromTpm /\ Salt = "tpm"
        BY <1>1 DEF StartKeyManager, Salt
    <2> QED  BY <2>1 DEF FromTpm, NewKeyManager, Manager
<1>2. CASE provider # "tpm"
    <2>1. StartKeyManager(found) = NewKeyManager /\ Salt = "default"
        BY <1>2 DEF StartKeyManager, Salt
    <2> QED  BY <2>1 DEF NewKeyManager, Manager
<1> QED  BY <1>1, <1>2

LEMMA StepRestart ==
    ASSUME IndInv, Restart
    PROVE  IndInv'
<1>1. /\ restarts > 0 /\ restarts' = restarts - 1 /\ job' = None
      /\ UNCHANGED <<provider, segment_map, content_store, capsules, data_of>>
    BY DEF Restart, store
<1>2. PICK found \in Provisions : key_manager' = StartKeyManager(found) /\ mlkem_manager' = found.mlkem
    BY DEF Restart
<1>3. provider \in {"env", "tpm"} /\ restarts \in Nat /\ restarts <= MaxRestarts /\ MaxRestarts \in Nat
    BY CodecAssumption DEF IndInv, KeysOK
<1>4. found.mlkem \in BOOLEAN
    BY CodecAssumption
<1>5. key_manager' # None => Manager(Salt, key_manager')
    BY <1>2, <1>3, StartIs
<1>6. Salt' = Salt
    BY <1>1 DEF Salt
<1>7. restarts' \in Nat /\ restarts' <= MaxRestarts /\ restarts' # MaxRestarts
    BY <1>1, <1>3
<1>8. KeysOK'
    BY <1>1, <1>2, <1>3, <1>4, <1>5, <1>6, <1>7 DEF KeysOK
<1>9. ~Keyed'
    BY <1>7 DEF Keyed
<1>10. JobOK'
    BY <1>1 DEF JobOK
<1> QED  BY <1>1, <1>8, <1>9, <1>10, QuietStep

-----------------------------------------------------------------------------
(* Steps of a write.                                                       *)

LEMMA UseKeyIs ==
    ASSUME IndInv, UseKey, UNCHANGED <<provider, mlkem_manager, restarts>>
    PROVE  KeysOK' /\ (Keyed' => Keyed)
<1>1. CASE EncryptionEnabled(job.policy)
    <2>1. key_manager # None /\ key_manager' = CacheKeys({key_manager.current_version})
        BY <1>1 DEF UseKey, EncryptionEnabled
    <2>2. Manager(Salt, key_manager')
        BY <2>1, CacheIs DEF IndInv
    <2> QED  BY <2>1, <2>2, KeysStep
<1>2. CASE ~EncryptionEnabled(job.policy)
    <2>1. key_manager' = key_manager
        BY <1>2 DEF UseKey
    <2> QED  BY <2>1, KeysStep DEF IndInv, KeysOK
<1> QED  BY <1>1, <1>2

LEMMA StepWriteCapsule ==
    ASSUME IndInv, NEW data \in Datas, NEW policy \in Policies, WriteCapsule(data, policy)
    PROVE  IndInv'
<1> DEFINE n == Len(data_of)
<1>1. /\ data_of' = Append(data_of, data) /\ job' = [cap |-> n + 1, policy |-> policy, segs |-> <<>>]
      /\ UNCHANGED <<provider, key_manager, mlkem_manager, segment_map, content_store, capsules, restarts>>
    BY DEF WriteCapsule, store
<1>2. data_of \in Seq(Seq(Chunks)) /\ data \in Seq(Chunks)
    BY DatasAssumption DEF IndInv
<1>3. /\ n \in Nat /\ data_of' \in Seq(Seq(Chunks)) /\ Len(data_of') = n + 1
      /\ data_of'[n + 1] = data /\ \A c \in 1 .. n : data_of'[c] = data_of[c]
    BY <1>1, <1>2, LenProperties, AppendProperties
<1>4. Grown(data_of, segment_map, data_of', segment_map)
    BY <1>3 DEF Grown
<1>5. KeysOK' /\ (Keyed' => Keyed)
    <2>1. key_manager' # None => key_manager # None /\ Manager(Salt, key_manager')
        BY <1>1 DEF IndInv, KeysOK
    <2> QED  BY <1>1, <2>1, KeysStep
<1>6. Salt' = Salt
    BY <1>1 DEF Salt
<1>7. SegmentsOK'
    <2>1. segment_map \in Seq(Segment) /\ \A s \in DOMAIN segment_map : SegmentOK(data_of, Salt, segment_map[s])
        BY DEF IndInv, SegmentsOK
    <2>2. Len(data_of) <= Len(data_of')
        BY <1>3
    <2>3. \A s \in DOMAIN segment_map : SegmentOK(data_of', Salt, segment_map[s])
        BY <1>2, <1>3, <2>1, <2>2, SegmentStays
    <2> QED  BY <1>1, <1>6, <2>1, <2>3 DEF SegmentsOK
<1>8. StoreOK'
    BY <1>1 DEF IndInv, StoreOK
<1>9. CapsulesOK'
    <2> SUFFICES ASSUME NEW c \in DOMAIN capsules
                 PROVE  WriteOK(data_of', segment_map, Keyed', c, capsules[c].policy, capsules[c].segments)
        BY <1>1 DEF CapsulesOK
    <2>1. WriteOK(data_of, segment_map, Keyed, c, capsules[c].policy, capsules[c].segments)
        BY DEF IndInv, CapsulesOK
    <2>2. data_of \in Seq(Seq(Chunks)) /\ data_of' \in Seq(Seq(Chunks)) /\ (Keyed' => Keyed)
        BY <1>2, <1>3, <1>5
    <2> QED  BY <1>4, <2>1, <2>2, WriteStays
<1>10. WriteOK(data_of', segment_map, Keyed', n + 1, policy, <<>>)
    <2>1. \A s \in DOMAIN segment_map : segment_map[s].by[1] # n + 1
        <3> SUFFICES ASSUME NEW s \in DOMAIN segment_map
                     PROVE  segment_map[s].by[1] # n + 1
            OBVIOUS
        <3>1. segment_map[s].by[1] \in 1 .. n
            BY DEF IndInv, SegmentsOK, SegmentOK
        <3> QED  BY <1>3, <3>1
    <2>2. Made(segment_map, Keyed', n + 1, policy)
        BY <2>1 DEF Made
    <2>3. <<>> \in Seq(Nat) /\ Len(<<>>) = 0 /\ Len(data) \in Nat
        BY <1>2, EmptySeq, LenProperties
    <2>4. Collected(data_of', segment_map, n + 1, policy, <<>>)
        BY <1>3, <2>3 DEF Collected
    <2>5. n + 1 \in 1 .. Len(data_of')
        BY <1>3
    <2> QED  BY <2>2, <2>4, <2>5 DEF WriteOK
<1>11. n + 1 \notin DOMAIN capsules
    <2>1. \A c \in DOMAIN capsules : c \in 1 .. n
        BY DEF IndInv, CapsulesOK, WriteOK
    <2> QED  BY <1>3, <2>1
<1>12. JobOK'
    <2>1. job'.cap = n + 1 /\ job'.policy = policy /\ job'.segs = <<>> /\ DOMAIN job' = {"cap", "policy", "segs"}
        BY <1>1
    <2> QED  BY <1>1, <1>10, <1>11, <2>1 DEF JobOK
<1> QED  BY <1>3, <1>5, <1>7, <1>8, <1>9, <1>12 DEF IndInv

LEMMA StepRefuseChunk ==
    ASSUME IndInv, RefuseChunk
    PROVE  IndInv'
<1>1. /\ job' = None /\ UseKey
      /\ UNCHANGED <<provider, mlkem_manager, segment_map, content_store, capsules, data_of, restarts>>
    BY DEF RefuseChunk, store
<1>2. KeysOK' /\ (Keyed' => Keyed)
    BY <1>1, UseKeyIs
<1>3. JobOK'
    BY <1>1 DEF JobOK
<1> QED  BY <1>1, <1>2, <1>3, QuietStep

(* What AtChunk says of the running write.                                 *)
LEMMA AtChunkIs ==
    ASSUME IndInv, AtChunk
    PROVE  /\ WriteOK(data_of, segment_map, Keyed, job.cap, job.policy, job.segs)
           /\ job # None /\ job.cap \notin DOMAIN capsules /\ DOMAIN job = {"cap", "policy", "segs"}
           /\ job.cap \in 1 .. Len(data_of) /\ job.cap \in Nat /\ job.policy \in Policies /\ job.segs \in Seq(Nat)
           /\ Index = Len(job.segs) + 1 /\ Index \in Nat /\ Index <= Len(data_of[job.cap])
           /\ data_of[job.cap][Index] \in Chunks
<1>1. job # None /\ Index <= Len(data_of[job.cap])
    BY DEF AtChunk
<1>2. /\ WriteOK(data_of, segment_map, Keyed, job.cap, job.policy, job.segs)
      /\ job.cap \notin DOMAIN capsules /\ DOMAIN job = {"cap", "policy", "segs"}
    BY <1>1 DEF IndInv, JobOK
<1>3. job.cap \in 1 .. Len(data_of) /\ job.policy \in Policies /\ job.segs \in Seq(Nat)
    BY <1>2 DEF WriteOK, Collected
<1>4. Len(job.segs) \in Nat /\ Len(data_of) \in Nat
    BY <1>3, LenProperties DEF IndInv
<1>5. Index = Len(job.segs) + 1 /\ Index \in Nat /\ job.cap \in Nat
    BY <1>3, <1>4 DEF Index
<1>6. data_of[job.cap] \in Seq(Chunks)
    BY <1>3, ElementOfSeq DEF IndInv
<1>7. data_of[job.cap][Index] \in Chunks
    <2>1. Index \in 1 .. Len(data_of[job.cap])
        BY <1>1, <1>4, <1>5, <1>6, LenProperties
    <2> QED  BY <1>6, <2>1, ElementOfSeq
<1> QED  BY <1>1, <1>2, <1>3, <1>5, <1>7

(* The chunk at hand, ready to be stored: its key is the one that what is  *)
(* stored with it derives.                                                 *)
LEMMA PreparedIs ==
    ASSUME IndInv, AtChunk
    PROVE  /\ Prepared \in Segment /\ Prepared.by[1] = job.cap
           /\ Prepared.payload = Compress(data_of[job.cap][Index], job.policy.compression)
           /\ Prepared.hash = Prepared.payload /\ Prepared.key \in {None, KeyOf(Salt, Prepared)}
           /\ Prepared.pq => job.policy.profile = "HybridKyber"
           /\ Keyed /\ job.policy.encrypt => Prepared.key # None
<1> DEFINE bytes == Compress(data_of[job.cap][Index], job.policy.compression)
           on == EncryptionEnabled(job.policy)
           key == IF on THEN ChunkKey(bytes) ELSE None
           version == IF on THEN key_manager.current_version ELSE 0
           by == <<job.cap, Index>>
           pq == on /\ Hybrid
<1>1. job.policy.compression \in Algorithms /\ job.policy.encrypt \in BOOLEAN /\ job.cap \in Nat /\ Index \in Nat
    BY AtChunkIs DEF Policies
<1>2. bytes \in Chunks
    BY <1>1, AtChunkIs, CompressIs
<1>3. Prepared = [hash |-> bytes, payload |-> bytes, by |-> by, pq |-> pq, key |-> key, key_version |-> version]
    BY DEF Prepared
<1>4. by \in Nat \X Nat /\ by[1] = job.cap /\ by[2] = Index
    BY <1>1
<1>5. pq \in BOOLEAN
    BY DEF IndInv, KeysOK, Hybrid, EncryptionEnabled
<1>6. on => /\ key = IF pq THEN WrapKey(DeriveKey(Salt, version), by[1], by[2], bytes)
                     ELSE DeriveKey(Salt, version)
            /\ version \in Nat
    <2> SUFFICES ASSUME on
                 PROVE  /\ key = IF pq THEN WrapKey(DeriveKey(Salt, version), by[1], by[2], bytes)
                                 ELSE DeriveKey(Salt, version)
                        /\ version \in Nat
        OBVIOUS
    <2>1. key_manager # None /\ KeysOK
        BY DEF EncryptionEnabled, IndInv
    <2>2. version = key_manager.current_version /\ version \in Nat
        BY <2>1 DEF KeysOK, Manager
    <2>3. GetKey(key_manager.current_version) = DeriveKey(Salt, version)
        BY <2>1, <2>2, GetKeyIs
    <2>4. key = ChunkKey(bytes) /\ (pq <=> Hybrid)
        OBVIOUS
    <2> HIDE DEF on, key, version, bytes, pq
    <2>5. key = IF Hybrid THEN WrapKey(DeriveKey(Salt, version), job.cap, Index, bytes)
                ELSE DeriveKey(Salt, version)
        BY <2>3, <2>4 DEF ChunkKey
    <2> QED  BY <1>4, <2>2, <2>4, <2>5
<1>7. pq => job.policy.profile = "HybridKyber"
    BY DEF Hybrid
<1>8. Keyed /\ job.policy.encrypt => on
    BY DEF Keyed, EncryptionEnabled
<1>9. ~on => key = None /\ version = 0
    OBVIOUS
<1> HIDE DEF bytes, on, key, version, by, pq
<1> DEFINE k == IF pq THEN WrapKey(DeriveKey(Salt, version), by[1], by[2], bytes) ELSE DeriveKey(Salt, version)
           seg0 == [hash |-> bytes, payload |-> bytes, by |-> by, pq |-> pq, key |-> None, key_version |-> version]
<1>10. version \in Nat
    BY <1>6, <1>9
<1>11. k \in Keys /\ k # None
    <2>1. seg0 \in Segment
        BY <1>2, <1>4, <1>5, <1>10 DEF Segment
    <2>2. KeyOf(Salt, seg0) = k
        BY DEF KeyOf
    <2> HIDE DEF seg0, k
    <2> QED  BY <2>1, <2>2, KeyOfIs DEF IndInv
<1>12. key \in {None, k} /\ (on => key = k)
    BY <1>6, <1>9
<1>13. KeyOf(Salt, Prepared) = k
    BY <1>3 DEF KeyOf
<1> HIDE DEF k
<1>14. Prepared \in Segment
    BY <1>2, <1>3, <1>4, <1>5, <1>10, <1>11, <1>12 DEF Segment
<1>15. /\ Prepared.by = by /\ Prepared.payload = bytes /\ Prepared.hash = bytes /\ Prepared.key = key
       /\ (Prepared.pq <=> pq)
    BY <1>3
<1> QED  BY <1>4, <1>7, <1>8, <1>11, <1>12, <1>13, <1>14, <1>15 DEF bytes

(* One more segment collected.                                             *)
LEMMA CollectMore ==
    ASSUME NEW d, NEW m, NEW c, NEW p, NEW segs, Collected(d, m, c, p, segs), d[c] \in Seq(Chunks),
           Len(segs) + 1 <= Len(d[c]), NEW id, id \in Nat, id \in DOMAIN m,
           m[id].payload = Compress(d[c][Len(segs) + 1], p.compression), m[id].by[1] = c \/ p.dedupe
    PROVE  Collected(d, m, c, p, Append(segs, id))
<1> DEFINE n == Len(segs)
           segs2 == Append(segs, id)
<1>1. segs \in Seq(Nat)
    BY DEF Collected
<1>2. /\ n \in Nat /\ segs2 \in Seq(Nat) /\ Len(segs2) = n + 1 /\ segs2[n + 1] = id
      /\ \A i \in 1 .. n : segs2[i] = segs[i]
    BY <1>1, LenProperties, AppendProperties
<1>3. \A i \in 1 .. n : /\ segs[i] \in DOMAIN m /\ m[segs[i]].payload = Compress(d[c][i], p.compression)
                        /\ m[segs[i]].by[1] = c \/ p.dedupe
    BY DEF Collected
<1>4. n + 1 <= Len(d[c]) /\ m[id].payload = Compress(d[c][n + 1], p.compression)
    OBVIOUS
<1> HIDE DEF n, segs2
<1>5. \A i \in 1 .. (n + 1) : i \in 1 .. n \/ i = n + 1
    BY <1>2
<1> QED  BY <1>2, <1>3, <1>4, <1>5 DEF Collected, segs2

LEMMA StepReuseSegment ==
    ASSUME IndInv, ReuseSegment
    PROVE  IndInv'
<1> DEFINE id == content_store[Prepared.hash]
           segs2 == Append(job.segs, id)
<1>1. /\ AtChunk /\ Known(Prepared) /\ UseKey /\ job' = [job EXCEPT !.segs = segs2]
      /\ UNCHANGED <<provider, mlkem_manager, segment_map, content_store, capsules, data_of, restarts>>
    BY DEF ReuseSegment, store
<1>2. KeysOK' /\ (Keyed' => Keyed)
    BY <1>1, UseKeyIs
<1>3. /\ WriteOK(data_of, segment_map, Keyed, job.cap, job.policy, job.segs)
      /\ job.cap \notin DOMAIN capsules /\ DOMAIN job = {"cap", "policy", "segs"}
      /\ job.cap \in 1 .. Len(data_of) /\ Index = Len(job.segs) + 1 /\ Index <= Len(data_of[job.cap])
    BY <1>1, AtChunkIs
<1>4. job.policy.dedupe /\ id \in DOMAIN segment_map /\ segment_map[id].payload = Prepared.hash
    BY <1>1 DEF Known, IndInv, StoreOK
<1>5. segment_map[id].payload = Compress(data_of[job.cap][Index], job.policy.compression)
    BY <1>1, <1>4, PreparedIs
<1>6. id \in Nat
    <2>1. segment_map \in Seq(Segment)
        BY DEF IndInv, SegmentsOK
    <2> QED  BY <1>4, <2>1, LenProperties
<1> HIDE DEF id
<1>7. Collected(data_of, segment_map, job.cap, job.policy, segs2)
    <2>1. Collected(data_of, segment_map, job.cap, job.policy, job.segs)
        BY <1>3 DEF WriteOK
    <2>2. data_of[job.cap] \in Seq(Chunks)
        BY <1>3, ElementOfSeq DEF IndInv
    <2>3. /\ Len(job.segs) + 1 <= Len(data_of[job.cap])
          /\ segment_map[id].payload = Compress(data_of[job.cap][Len(job.segs) + 1], job.policy.compression)
        BY <1>3, <1>5
    <2> QED  BY <1>4, <1>6, <2>1, <2>2, <2>3, CollectMore
<1> HIDE DEF segs2
<1>8. job'.cap = job.cap /\ job'.policy = job.policy /\ job'.segs = segs2 /\ DOMAIN job' = {"cap", "policy", "segs"}
    BY <1>1, <1>3
<1>9. WriteOK(data_of, segment_map, Keyed', job.cap, job.policy, segs2)
    BY <1>2, <1>3, <1>7 DEF WriteOK, Made
<1>10. JobOK'
    BY <1>1, <1>3, <1>8, <1>9 DEF JobOK
<1> QED  BY <1>1, <1>2, <1>10, QuietStep

LEMMA StepNewSegment ==
    ASSUME IndInv, NewSegment
    PROVE  IndInv'
<1> DEFINE p == Prepared
           n == Len(segment_map)
           hash == IF job.policy.dedupe THEN p.hash ELSE None
           e == [p EXCEPT !.hash = hash]
           segs2 == Append(job.segs, n + 1)
<1>1. /\ AtChunk /\ UseKey /\ job' = [job EXCEPT !.segs = segs2]
      /\ segment_map' = Append(segment_map, e)
      /\ content_store' = IF job.policy.dedupe THEN Put(content_store, p.hash, n + 1) ELSE content_store
      /\ UNCHANGED <<provider, mlkem_manager, capsules, data_of, restarts>>
    BY DEF NewSegment
<1>2. KeysOK' /\ (Keyed' => Keyed) /\ Salt' = Salt
    BY <1>1, UseKeyIs DEF Salt
<1>3. /\ WriteOK(data_of, segment_map, Keyed, job.cap, job.policy, job.segs)
      /\ job.cap \notin DOMAIN capsules /\ DOMAIN job = {"cap", "policy", "segs"}
      /\ job.cap \in 1 .. Len(data_of) /\ Index = Len(job.segs) + 1 /\ Index <= Len(data_of[job.cap])
      /\ job.policy \in Policies
    BY <1>1, AtChunkIs
<1>4. /\ p \in Segment /\ p.by[1] = job.cap
      /\ p.payload = Compress(data_of[job.cap][Index], job.policy.compression)
      /\ p.hash = p.payload /\ p.key \in {None, KeyOf(Salt, p)}
      /\ p.pq => job.policy.profile = "HybridKyber"
      /\ Keyed /\ job.policy.encrypt => p.key # None
    BY <1>1, PreparedIs
<1>5. p.payload \in Chunks /\ p.payload # None
    BY <1>4, ChunkIs DEF Segment
<1>6. hash \in {None, p.payload} /\ (job.policy.dedupe => hash # None) /\ hash \in Chunks \cup {None}
    BY <1>4, <1>5
<1> HIDE DEF p, hash
<1>7. /\ e \in Segment /\ e.hash = hash /\ e.payload = p.payload /\ e.by = p.by /\ e.pq = p.pq /\ e.key = p.key
      /\ e.key_version = p.key_version
    BY <1>4, <1>6 DEF Segment
<1> HIDE DEF e
<1>8. SegmentOK(data_of, Salt, e)
    <2>1. KeyOf(Salt, e) = KeyOf(Salt, p)
        BY <1>7 DEF KeyOf
    <2>2. e.key \in {None, KeyOf(Salt, e)} /\ e.hash \in {None, e.payload} /\ e.by[1] \in 1 .. Len(data_of)
        BY <1>3, <1>4, <1>6, <1>7, <2>1
    <2> QED  BY <1>7, <2>2 DEF SegmentOK
<1>9. segment_map \in Seq(Segment) /\ \A s \in DOMAIN segment_map : SegmentOK(data_of, Salt, segment_map[s])
    BY DEF IndInv, SegmentsOK
<1>10. /\ n \in Nat /\ segment_map' \in Seq(Segment) /\ DOMAIN segment_map = 1 .. n
       /\ DOMAIN segment_map' = 1 .. (n + 1) /\ segment_map'[n + 1] = e
       /\ \A s \in 1 .. n : segment_map'[s] = segment_map[s]
    BY <1>1, <1>7, <1>9, LenProperties, AppendProperties
<1> HIDE DEF n
<1>11. /\ \A s \in DOMAIN segment_map' : s \in DOMAIN segment_map \/ s = n + 1
       /\ DOMAIN segment_map \subseteq DOMAIN segment_map' /\ n + 1 \in DOMAIN segment_map' /\ n + 1 \in Nat
       /\ \A s \in DOMAIN segment_map : segment_map'[s] = segment_map[s]
       /\ segment_map'[n + 1].payload = p.payload /\ segment_map'[n + 1].by[1] = job.cap
    BY <1>4, <1>7, <1>10
<1>12. SegmentsOK'
    BY <1>1, <1>2, <1>8, <1>9, <1>10, <1>11 DEF SegmentsOK
<1>13. StoreOK'
    <2> SUFFICES ASSUME NEW h \in DOMAIN content_store'
                 PROVE  content_store'[h] \in DOMAIN segment_map' /\ segment_map'[content_store'[h]].payload = h
        BY DEF StoreOK
    <2>1. \A x \in DOMAIN content_store : /\ content_store[x] \in DOMAIN segment_map
                                          /\ segment_map[content_store[x]].payload = x
        BY DEF IndInv, StoreOK
    <2>2. CASE h \in DOMAIN content_store /\ content_store'[h] = content_store[h]
        BY <1>11, <2>1, <2>2
    <2>3. CASE h = p.hash /\ content_store'[h] = n + 1
        BY <1>4, <1>11, <2>3
    <2>4. \/ h \in DOMAIN content_store /\ content_store'[h] = content_store[h]
          \/ h = p.hash /\ content_store'[h] = n + 1
        BY <1>1 DEF Put
    <2> QED  BY <2>2, <2>3, <2>4
<1>14. data_of \in Seq(Seq(Chunks)) /\ Grown(data_of, segment_map, data_of, segment_map')
    BY <1>11, LenProperties DEF IndInv, Grown
<1>15. CapsulesOK'
    <2> SUFFICES ASSUME NEW c \in DOMAIN capsules
                 PROVE  WriteOK(data_of, segment_map', Keyed', c, capsules[c].policy, capsules[c].segments)
        BY <1>1 DEF CapsulesOK
    <2>1. WriteOK(data_of, segment_map, Keyed, c, capsules[c].policy, capsules[c].segments)
        BY DEF IndInv, CapsulesOK
    <2>2. \A s \in DOMAIN segment_map' \ DOMAIN segment_map : segment_map'[s].by[1] # c
        BY <1>3, <1>11
    <2> QED  BY <1>2, <1>14, <2>1, <2>2, WriteStays
<1>16. Made(segment_map', Keyed', job.cap, job.policy)
    <2>1. Made(segment_map, Keyed, job.cap, job.policy)
        BY <1>3 DEF WriteOK
    <2>2. /\ segment_map'[n + 1].pq => job.policy.profile = "HybridKyber"
          /\ job.policy.dedupe => segment_map'[n + 1].hash # None
          /\ Keyed /\ job.policy.encrypt => segment_map'[n + 1].key # None
        BY <1>4, <1>6, <1>7, <1>10
    <2> QED  BY <1>2, <1>11, <2>1, <2>2 DEF Made
<1>17. Collected(data_of, segment_map', job.cap, job.policy, segs2)
    <2>1. Collected(data_of, segment_map', job.cap, job.policy, job.segs)
        BY <1>3, <1>11 DEF WriteOK, Collected
    <2>2. data_of[job.cap] \in Seq(Chunks)
        BY <1>3, <1>14, ElementOfSeq
    <2>3. /\ Len(job.segs) + 1 <= Len(data_of[job.cap])
          /\ segment_map'[n + 1].payload = Compress(data_of[job.cap][Len(job.segs) + 1], job.policy.compression)
        BY <1>3, <1>4, <1>11
    <2> QED  BY <1>11, <2>1, <2>2, <2>3, CollectMore
<1> HIDE DEF segs2
<1>18. WriteOK(data_of, segment_map', Keyed', job.cap, job.policy, segs2)
    BY <1>3, <1>16, <1>17 DEF WriteOK
<1>19. job'.cap = job.cap /\ job'.policy = job.policy /\ job'.segs = segs2 /\ DOMAIN job' = {"cap", "policy", "segs"}
    BY <1>1, <1>3
<1>20. JobOK'
    BY <1>1, <1>3, <1>18, <1>19 DEF JobOK
<1> QED  BY <1>1, <1>2, <1>12, <1>13, <1>14, <1>15, <1>20 DEF IndInv

LEMMA StepCreateCapsule ==
    ASSUME IndInv, CreateCapsule
    PROVE  IndInv'
<1> DEFINE entry == [policy |-> job.policy, segments |-> job.segs]
<1>1. /\ job # None /\ capsules' = Put(capsules, job.cap, entry) /\ job' = None
      /\ UNCHANGED <<provider, key_manager, mlkem_manager, segment_map, content_store, data_of, restarts>>
    BY DEF CreateCapsule
<1>2. WriteOK(data_of, segment_map, Keyed, job.cap, job.policy, job.segs)
    BY <1>1 DEF IndInv, JobOK
<1>3. Salt' = Salt /\ Keyed' = Keyed
    BY <1>1 DEF Salt, Keyed
<1>4. KeysOK' /\ SegmentsOK' /\ StoreOK' /\ JobOK'
    BY <1>1, <1>3 DEF IndInv, KeysOK, SegmentsOK, StoreOK, JobOK
<1>5. CapsulesOK'
    <2> SUFFICES ASSUME NEW c \in DOMAIN capsules'
                 PROVE  WriteOK(data_of, segment_map, Keyed, c, capsules'[c].policy, capsules'[c].segments)
        BY <1>1, <1>3 DEF CapsulesOK
    <2>1. CASE c = job.cap
        <3>1. capsules'[c] = entry
            BY <1>1, <2>1 DEF Put
        <3> QED  BY <1>2, <2>1, <3>1
    <2>2. CASE c # job.cap
        <3>1. c \in DOMAIN capsules /\ capsules'[c] = capsules[c]
            BY <1>1, <2>2 DEF Put
        <3> QED  BY <3>1 DEF IndInv, CapsulesOK
    <2> QED  BY <2>1, <2>2
<1> QED  BY <1>1, <1>4, <1>5 DEF IndInv

-----------------------------------------------------------------------------
(* The theorems.                                                           *)

LEMMA Starts ==
    ASSUME Init
    PROVE  IndInv
<1>1. /\ provider \in Providers /\ segment_map = <<>> /\ content_store = Empty /\ capsules = Empty
      /\ job = None /\ data_of = <<>> /\ restarts = MaxRestarts
    BY DEF Init
<1>2. PICK found \in Provisions : key_manager = StartKeyManager(found) /\ mlkem_manager = found.mlkem
    BY DEF Init
<1>3. provider \in {"env", "tpm"} /\ found.mlkem \in BOOLEAN /\ MaxRestarts \in Nat
    BY <1>1, CodecAssumption
<1>4. KeysOK
    BY <1>1, <1>2, <1>3, StartIs DEF KeysOK
<1>5. segment_map \in Seq(Segment) /\ data_of \in Seq(Seq(Chunks)) /\ DOMAIN segment_map = {}
    BY <1>1, EmptySeq
<1>6. DOMAIN content_store = {} /\ DOMAIN capsules = {}
    BY <1>1 DEF Empty
<1> QED  BY <1>1, <1>4, <1>5, <1>6 DEF IndInv, SegmentsOK, StoreOK, CapsulesOK, JobOK

LEMMA Stutters ==
    ASSUME IndInv, UNCHANGED vars
    PROVE  IndInv'
<1>1. /\ UNCHANGED <<provider, segment_map, content_store, capsules, data_of>>
      /\ UNCHANGED <<key_manager, mlkem_manager, job, restarts>>
    BY DEF vars
<1>2. KeysOK' /\ (Keyed' => Keyed)
    <2>1. key_manager' # None => key_manager # None /\ Manager(Salt, key_manager')
        BY <1>1 DEF IndInv, KeysOK
    <2> QED  BY <1>1, <2>1, KeysStep
<1>3. JobOK'
    BY <1>1, <1>2, JobStays
<1> QED  BY <1>1, <1>2, <1>3, QuietStep

(* In every state a segment's version and its place derive the key it was  *)
(* encrypted with, and the segments of a capsule hold its compressed data. *)
THEOREM CodecInvariant == Spec => []IndInv
<1>1. Init => IndInv
    BY Starts
<1>2. IndInv /\ [Next]_vars => IndInv'
    BY Stutters, StepRotate, StepCompleteRotation, StepClearCache, StepRestart, StepWriteCapsule,
       StepRefuseChunk, StepReuseSegment, StepNewSegment, StepCreateCapsule, StepReadCapsule DEF Next
<1> QED  BY <1>1, <1>2, PTL DEF Spec

(* What a read finds at a place of a capsule.                              *)
LEMMA PlaceIs ==
    ASSUME IndInv, NEW cap \in DOMAIN capsules, NEW i \in Positions(cap)
    PROVE  /\ SegmentOK(data_of, Salt, SegmentAt(cap, i)) /\ capsules[cap].policy \in Policies
           /\ SegmentAt(cap, i).by[1] = cap \/ capsules[cap].policy.dedupe
           /\ SegmentAt(cap, i).by[1] = cap =>
                /\ SegmentAt(cap, i).pq => capsules[cap].policy.profile = "HybridKyber"
                /\ capsules[cap].policy.dedupe => SegmentAt(cap, i).hash # None
                /\ Keyed /\ capsules[cap].policy.encrypt => SegmentAt(cap, i).key # None
           /\ TakenForFrame(cap, i) \/
                Decompress(SegmentAt(cap, i).payload, capsules[cap].policy.compression) = data_of[cap][i]
<1> DEFINE p == capsules[cap].policy
           segs == capsules[cap].segments
           seg == segment_map[segs[i]]
<1>1. WriteOK(data_of, segment_map, Keyed, cap, p, segs)
    BY DEF IndInv, CapsulesOK
<1>2. cap \in 1 .. Len(data_of) /\ p \in Policies /\ segs \in Seq(Nat) /\ Len(segs) <= Len(data_of[cap])
    BY <1>1 DEF WriteOK, Collected
<1>3. i \in 1 .. Len(segs)
    BY <1>2, LenProperties DEF Positions
<1>4. /\ segs[i] \in DOMAIN segment_map /\ seg.payload = Compress(data_of[cap][i], p.compression)
      /\ seg.by[1] = cap \/ p.dedupe
    BY <1>1, <1>3 DEF WriteOK, Collected
<1>5. SegmentOK(data_of, Salt, seg)
    BY <1>4 DEF IndInv, SegmentsOK
<1>6. seg.by[1] = cap => /\ seg.pq => p.profile = "HybridKyber"
                         /\ p.dedupe => seg.hash # None
                         /\ Keyed /\ p.encrypt => seg.key # None
    BY <1>1, <1>4 DEF WriteOK, Made
<1>7. data_of[cap][i] \in Chunks
    <2>1. data_of[cap] \in Seq(Chunks)
        BY <1>2, ElementOfSeq DEF IndInv
    <2>2. i \in 1 .. Len(data_of[cap])
        BY <1>2, <1>3, <2>1, LenProperties
    <2> QED  BY <2>1, <2>2, ElementOfSeq
<1>8. p.compression \in Algorithms
    BY <1>2 DEF Policies
<1>9. data_of[cap][i].kind = p.compression \/ Decompress(seg.payload, p.compression) = data_of[cap][i]
    BY <1>4, <1>7, <1>8, CompressIs
<1>10. SegmentAt(cap, i) = seg
    BY DEF SegmentAt
<1> QED  BY <1>2, <1>4, <1>5, <1>6, <1>9, <1>10 DEF TakenForFrame

(* What read_capsule makes of it, when the MAC verifies.                   *)
LEMMA ReadIs ==
    ASSUME IndInv, NEW cap \in DOMAIN capsules, NEW i \in Positions(cap)
    PROVE  \/ ReadSegment(cap, i) = Decompress(SegmentAt(cap, i).payload, capsules[cap].policy.compression)
           \/ /\ ReadSegment(cap, i) = None /\ Encrypted(SegmentAt(cap, i))
              /\ key_manager = None \/ ReadKey(cap, i) # SegmentAt(cap, i).key
BY DEF ReadSegment, VerifyMac, DecryptSegment

(* A read never returns other data than was written without an error, for  *)
(* every set of chunks, policies and providers, any number of capsules,    *)
(* rotations and restarts.                                                 *)
THEOREM CodecNoWrongData == Spec => []NoWrongData
<1>1. IndInv => NoWrongData
    BY PlaceIs, ReadIs DEF NoWrongData
<1> QED  BY <1>1, CodecInvariant, PTL

(* With its keys at hand read_capsule returns what was written: the key of *)
(* any version is derived again after rotations, cleared caches and        *)
(* restarts, whichever capsule of whichever policy stored the segment.     *)
THEOREM CodecReadsBack == Spec => []ReadBack
<1>1. ASSUME IndInv, NEW cap \in DOMAIN capsules, NEW i \in Positions(cap), KeysAtHand(cap, i),
             ~TakenForFrame(cap, i), ~HybridOutOfPlace(cap, i)
      PROVE  ReadSegment(cap, i) = data_of[cap][i]
    <2> DEFINE seg == SegmentAt(cap, i)
    <2>1. /\ SegmentOK(data_of, Salt, seg)
          /\ seg.by[1] = cap =>
                /\ seg.pq => capsules[cap].policy.profile = "HybridKyber"
                /\ capsules[cap].policy.dedupe => seg.hash # None
          /\ Decompress(seg.payload, capsules[cap].policy.compression) = data_of[cap][i]
        BY <1>1, PlaceIs
    <2>2. SUFFICES ASSUME Encrypted(seg), key_manager # None
                   PROVE  ReadKey(cap, i) = seg.key
        BY <1>1, <2>1, ReadIs DEF KeysAtHand
    <2>3. /\ seg.key = KeyOf(Salt, seg) /\ seg.hash \in {None, seg.payload} /\ seg.pq \in BOOLEAN
        BY <2>1, <2>2 DEF SegmentOK, Encrypted, Segment
    <2>4. GetKey(seg.key_version) = DeriveKey(Salt, seg.key_version)
        BY <1>1, <2>2, GetKeyIs DEF IndInv
    <2>5. CASE ~seg.pq
        BY <2>3, <2>4, <2>5 DEF ReadKey, KeyOf
    <2>6. CASE seg.pq
        <3>1. mlkem_manager /\ seg.by = <<cap, i>> /\ capsules[cap].policy.dedupe
            BY <1>1, <2>6 DEF KeysAtHand, HybridOutOfPlace
        <3>2. seg.by[1] = cap /\ seg.by[2] = i
            BY <3>1
        <3>3. capsules[cap].policy.profile = "HybridKyber" /\ seg.hash # None /\ seg.hash = seg.payload
            BY <2>1, <2>3, <2>6, <3>1, <3>2
        <3>4. KeyOf(Salt, seg) = WrapKey(DeriveKey(Salt, seg.key_version), cap, i, seg.payload)
            BY <2>6, <3>2 DEF KeyOf
        <3>5. ReadKey(cap, i) = WrapKey(GetKey(seg.key_version), cap, i, seg.hash)
            BY <2>6, <3>1, <3>3 DEF ReadKey
        <3> QED  BY <2>3, <2>4, <3>3, <3>4, <3>5
    <2> QED  BY <2>5, <2>6
<1>2. IndInv => ReadBack
    BY <1>1 DEF ReadBack
<1> QED  BY <1>2, CodecInvariant, PTL

(* While a pipeline that started with keys runs, a segment that a capsule  *)
(* of an encrypting policy finds in the clear was stored for another       *)
(* capsule and shared by deduplication.                                    *)
THEOREM CodecClearOnlyIfShared == Spec => []ClearOnlyIfShared
<1>1. ASSUME IndInv, NEW cap \in DOMAIN capsules, NEW i \in Positions(cap),
             capsules[cap].policy.encrypt, restarts = MaxRestarts, key_manager # None
      PROVE  \/ Encrypted(SegmentAt(cap, i))
             \/ SegmentAt(cap, i).by[1] # cap /\ capsules[cap].policy.dedupe
    BY <1>1, PlaceIs DEF Keyed, Encrypted
<1>2. IndInv => ClearOnlyIfShared
    BY <1>1 DEF ClearOnlyIfShared
<1> QED  BY <1>2, CodecInvariant, PTL
=============================================================================

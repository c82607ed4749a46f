-------------------------- MODULE WritePipelineProofs --------------------------
(***************************************************************************)
(* Reference counts cover all users of a segment, no capsule dangles, and  *)
(* the saved files of calls that run one at a time always fit together; as *)
(* long as nothing has failed a registered hash names a segment that       *)
(* exists, and counts are exact, as they are after every restart: for all  *)
(* sets of threads and contents, any number of writes, failures and        *)
(* crashes, as long as callers keep writes apart from deletes and sweeps   *)
(* and, if the process may crash, run one call at a time.                  *)
(***************************************************************************)
EXTENDS WritePipeline, SetLemmas

-----------------------------------------------------------------------------
(* Types.                                                                  *)

Partial(S, T) == UNION {[D -> T] : D \in SUBSET S}

LEMMA PartialIs ==
    ASSUME NEW S, NEW T, NEW f
    PROVE  f \in Partial(S, T) <=>
             /\ DOMAIN f \subseteq S /\ f = [x \in DOMAIN f |-> f[x]]
             /\ \A x \in DOMAIN f : f[x] \in T
<1>1. ASSUME f \in Partial(S, T)
      PROVE  DOMAIN f \subseteq S /\ f = [x \in DOMAIN f |-> f[x]] /\ \A x \in DOMAIN f : f[x] \in T
    BY <1>1 DEF Partial
<1>2. ASSUME DOMAIN f \subseteq S, f = [x \in DOMAIN f |-> f[x]], \A x \in DOMAIN f : f[x] \in T
      PROVE  f \in Partial(S, T)
    <2>1. f \in [DOMAIN f -> T]
        BY <1>2
    <2> QED  BY <1>2, <2>1 DEF Partial
<1> QED  BY <1>1, <1>2

(* g is f with x mapped to y, or without x.                                *)
IsPut(g, f, x, y) ==
    /\ DOMAIN g = DOMAIN f \cup {x} /\ g[x] = y /\ \A z \in DOMAIN f \ {x} : g[z] = f[z]
IsDrop(g, f, x) == DOMAIN g = DOMAIN f \ {x} /\ \A z \in DOMAIN f \ {x} : g[z] = f[z]

LEMMA PartialPut ==
    ASSUME NEW S, NEW T, NEW f, f \in Partial(S, T), NEW x, x \in S, NEW y, y \in T
    PROVE  Put(f, x, y) \in Partial(S, T) /\ IsPut(Put(f, x, y), f, x, y)
<1> DEFINE g == Put(f, x, y)
<1>1. DOMAIN f \subseteq S /\ \A z \in DOMAIN f : f[z] \in T
    BY PartialIs
<1>2. DOMAIN g = DOMAIN f \cup {x} /\ g[x] = y /\ \A z \in DOMAIN f \ {x} : g[z] = f[z]
    BY DEF Put
<1>3. DOMAIN g \subseteq S /\ \A z \in DOMAIN g : g[z] \in T
    BY <1>1, <1>2
<1>4. g = [z \in DOMAIN g |-> g[z]]
    BY DEF Put
<1>5. g \in Partial(S, T)
    BY <1>3, <1>4, PartialIs
<1> QED  BY <1>2, <1>5 DEF IsPut

LEMMA PartialDrop ==
    ASSUME NEW S, NEW T, NEW f, f \in Partial(S, T), NEW x
    PROVE  Drop(f, x) \in Partial(S, T) /\ IsDrop(Drop(f, x), f, x)
<1> DEFINE g == Drop(f, x)
<1>1. DOMAIN f \subseteq S /\ \A z \in DOMAIN f : f[z] \in T
    BY PartialIs
<1>2. DOMAIN g = DOMAIN f \ {x} /\ \A z \in DOMAIN f \ {x} : g[z] = f[z]
    BY DEF Drop, Restrict
<1>3. DOMAIN g \subseteq S /\ \A z \in DOMAIN g : g[z] \in T
    BY <1>1, <1>2
<1>4. g = [z \in DOMAIN g |-> g[z]]
    BY DEF Drop, Restrict
<1>5. g \in Partial(S, T)
    BY <1>3, <1>4, PartialIs
<1> QED  BY <1>2, <1>5 DEF IsDrop

LEMMA PartialEmpty ==
    ASSUME NEW S, NEW T
    PROVE  Empty \in Partial(S, T) /\ DOMAIN Empty = {}
<1>1. DOMAIN Empty = {} /\ Empty = [x \in DOMAIN Empty |-> Empty[x]]
    BY DEF Empty
<1> QED  BY <1>1, PartialIs

Capsule == [segments : Seq(Nat), deduped_bytes : Nat]
Capsules == Partial(Nat, Capsule)
Stores == Partial(Contents, Nat)
Maps == Partial(Nat, SegmentInfo)
Registries == [capsules : Capsules, next_segment_id : Nat, content_store : Stores]
Hash == Contents \cup {NoHash}
Victim == [id : Nat, hash : Hash]
Pcs == WritePcs \cup {"idle", "decrement", "deregister", "remove", "sweep", "reclaim", "reconcile"}
Jobs == [pc : Pcs, cap : Nat, dedupe : BOOLEAN, todo : Seq(Contents), segs : Seq(Nat),
         seg : Nat, hash : Hash, hits : Nat, victims : SUBSET (Nat \cup Victim)]
JobsOf == [Threads -> Jobs]

LEMMA IdleType == IdleJob \in Jobs
<1>1. << >> \in Seq(Contents) /\ << >> \in Seq(Nat)
    BY EmptySeq
<1> QED  BY <1>1 DEF IdleJob, Jobs, Pcs, Hash

LEMMA EmptyType ==
    EmptyRegistry \in Registries /\ Empty \in Maps
BY PartialEmpty DEF EmptyRegistry, Registries, Capsules, Stores, Maps

(* What a capsule's entry and a segment's entry look like.                 *)
LEMMA CapsuleType ==
    ASSUME NEW cs \in Capsules, NEW c \in DOMAIN cs
    PROVE  /\ cs[c] \in Capsule /\ cs[c].segments \in Seq(Nat) /\ Len(cs[c].segments) \in Nat
           /\ DOMAIN cs[c].segments = 1 .. Len(cs[c].segments)
<1>1. cs[c] \in Capsule
    BY PartialIs DEF Capsules
<1>2. cs[c].segments \in Seq(Nat)
    BY <1>1 DEF Capsule
<1> QED  BY <1>1, <1>2, LenProperties

LEMMA SegmentType ==
    ASSUME NEW m \in Maps, NEW id \in DOMAIN m
    PROVE  /\ id \in Nat /\ m[id] \in SegmentInfo /\ m[id].data \in Contents
           /\ m[id].hash \in Hash /\ m[id].ref_count \in Nat
<1>1. m[id] \in SegmentInfo /\ id \in Nat
    BY PartialIs DEF Maps
<1> QED  BY <1>1 DEF SegmentInfo, Hash

LEMMA StoreType ==
    ASSUME NEW s \in Stores, NEW h \in DOMAIN s
    PROVE  h \in Contents /\ s[h] \in Nat
BY PartialIs DEF Stores

(* The maps of the pipeline after an entry is put or dropped.              *)
LEMMA PutCapsule ==
    ASSUME NEW cs, cs \in Capsules, NEW c, c \in Nat, NEW k, k \in Capsule
    PROVE  Put(cs, c, k) \in Capsules /\ IsPut(Put(cs, c, k), cs, c, k)
BY PartialPut DEF Capsules

LEMMA DropCapsule ==
    ASSUME NEW cs, cs \in Capsules, NEW c
    PROVE  Drop(cs, c) \in Capsules /\ IsDrop(Drop(cs, c), cs, c)
BY PartialDrop DEF Capsules

LEMMA PutSegment ==
    ASSUME NEW m, m \in Maps, NEW id, id \in Nat, NEW e, e \in SegmentInfo
    PROVE  Put(m, id, e) \in Maps /\ IsPut(Put(m, id, e), m, id, e)
BY PartialPut DEF Maps

LEMMA DropSegment ==
    ASSUME NEW m, m \in Maps, NEW id
    PROVE  Drop(m, id) \in Maps /\ IsDrop(Drop(m, id), m, id)
BY PartialDrop DEF Maps

LEMMA PutStore ==
    ASSUME NEW st, st \in Stores, NEW h, h \in Contents, NEW id, id \in Nat
    PROVE  Put(st, h, id) \in Stores /\ IsPut(Put(st, h, id), st, h, id)
BY PartialPut DEF Stores

LEMMA DropStore ==
    ASSUME NEW st, st \in Stores, NEW h
    PROVE  Drop(st, h) \in Stores /\ IsDrop(Drop(st, h), st, h)
BY PartialDrop DEF Stores

(* One reference count changed.                                            *)
IsCounted(g, m, id, n) ==
    /\ DOMAIN g = DOMAIN m /\ g[id].ref_count = n
    /\ \A x \in DOMAIN m : g[x].data = m[x].data /\ g[x].hash = m[x].hash /\ (x # id => g[x] = m[x])

LEMMA CountSegment ==
    ASSUME NEW m, m \in Maps, NEW id, id \in DOMAIN m, NEW n, n \in Nat
    PROVE  /\ [m EXCEPT ![id].ref_count = n] \in Maps
           /\ IsCounted([m EXCEPT ![id].ref_count = n], m, id, n)
<1> DEFINE m2 == [m EXCEPT ![id].ref_count = n]
           e == [m[id] EXCEPT !.ref_count = n]
<1>1. m[id] \in SegmentInfo /\ DOMAIN m \subseteq Nat /\ \A x \in DOMAIN m : m[x] \in SegmentInfo
    BY PartialIs DEF Maps
<1>2. e \in SegmentInfo /\ e.data = m[id].data /\ e.hash = m[id].hash /\ e.ref_count = n
    BY <1>1 DEF SegmentInfo
<1>3. m2 = [m EXCEPT ![id] = e]
    OBVIOUS
<1> HIDE DEF e
<1>4. /\ DOMAIN m2 = DOMAIN m /\ m2[id] = e /\ \A x \in DOMAIN m : x # id => m2[x] = m[x]
      /\ m2 = [x \in DOMAIN m2 |-> m2[x]]
    BY <1>3
<1> HIDE DEF m2
<1>5. m2 \in Maps
    <2>1. \A x \in DOMAIN m2 : m2[x] \in SegmentInfo
        BY <1>1, <1>2, <1>4
    <2> QED  BY <1>1, <1>4, <2>1, PartialIs DEF Maps
<1>6. IsCounted(m2, m, id, n)
    BY <1>2, <1>4 DEF IsCounted
<1> QED  BY <1>5, <1>6 DEF m2

-----------------------------------------------------------------------------
(* Counting references of capsules.                                        *)

RefsBut(cs, id, c) == Cardinality(UNION {Labelled(d, cs[d].segments, id) : d \in DOMAIN cs \ {c}})

LEMMA RefsSplit ==
    ASSUME NEW cs \in Capsules, IsFiniteSet(DOMAIN cs), NEW c \in DOMAIN cs, NEW id
    PROVE  /\ References(cs, id) = RefsBut(cs, id, c) + Times(cs[c].segments, id)
           /\ RefsBut(cs, id, c) \in Nat /\ Times(cs[c].segments, id) \in Nat
<1> DEFINE F == [d \in DOMAIN cs |-> Labelled(d, cs[d].segments, id)]
<1>1. \A d \in DOMAIN cs : /\ IsFiniteSet(F[d]) /\ \A p \in F[d] : p[1] = d
                           /\ Cardinality(F[d]) = Times(cs[d].segments, id)
    BY CapsuleType, LabelledSize
<1>2. References(cs, id) = Cardinality(UnionOver(F, DOMAIN cs))
    BY DEF References, Labelled, UnionOver
<1>3. RefsBut(cs, id, c) = Cardinality(UnionOver(F, DOMAIN cs \ {c}))
    <2>1. {F[d] : d \in DOMAIN cs \ {c}} = {Labelled(d, cs[d].segments, id) : d \in DOMAIN cs \ {c}}
        OBVIOUS
    <2> QED  BY <2>1 DEF RefsBut, UnionOver
<1> DEFINE D == DOMAIN cs
<1>4. IsFiniteSet(D) /\ c \in D /\ \A d \in D : IsFiniteSet(F[d]) /\ \A p \in F[d] : p[1] = d
    BY <1>1
<1> HIDE DEF F, D
<1>5. /\ Cardinality(UnionOver(F, D)) = Cardinality(UnionOver(F, D \ {c})) + Cardinality(F[c])
      /\ Cardinality(UnionOver(F, D \ {c})) \in Nat /\ Cardinality(F[c]) \in Nat
    BY <1>4, LabelledUnion
<1> QED  BY <1>1, <1>2, <1>3, <1>5 DEF D

LEMMA RefsFinite ==
    ASSUME NEW cs \in Capsules, IsFiniteSet(DOMAIN cs), NEW id
    PROVE  /\ References(cs, id) \in Nat
           /\ References(cs, id) = 0 <=>
                \A c \in DOMAIN cs : \A i \in DOMAIN cs[c].segments : cs[c].segments[i] # id
<1> DEFINE T == {Labelled(c, cs[c].segments, id) : c \in DOMAIN cs}
           f == [c \in DOMAIN cs |-> Labelled(c, cs[c].segments, id)]
<1>1. f \in [DOMAIN cs -> T] /\ \A z \in T : \E c \in DOMAIN cs : f[c] = z
    OBVIOUS
<1>2. \A z \in T : IsFiniteSet(z)
    BY CapsuleType, LabelledSize
<1>3. References(cs, id) = Cardinality(UNION T)
    BY DEF References, Labelled
<1>4. UNION T = {} <=> \A c \in DOMAIN cs : \A i \in DOMAIN cs[c].segments : cs[c].segments[i] # id
    <2>1. UNION T = {} <=> \A c \in DOMAIN cs : Labelled(c, cs[c].segments, id) = {}
        OBVIOUS
    <2>2. \A c \in DOMAIN cs : Labelled(c, cs[c].segments, id) = {} <=>
              \A i \in DOMAIN cs[c].segments : cs[c].segments[i] # id
        BY DEF Labelled
    <2> QED  BY <2>1, <2>2
<1> HIDE DEF T, f
<1>5. IsFiniteSet(UNION T)
    BY <1>1, <1>2, FiniteUnion
<1> QED  BY <1>3, <1>4, <1>5, FS_CardinalityType, FS_EmptySet

LEMMA RefsPut ==
    ASSUME NEW cs \in Capsules, IsFiniteSet(DOMAIN cs), NEW c \in Nat, c \notin DOMAIN cs,
           NEW k \in Capsule, NEW id
    PROVE  /\ References(Put(cs, c, k), id) = References(cs, id) + Times(k.segments, id)
           /\ References(cs, id) \in Nat /\ Times(k.segments, id) \in Nat
           /\ IsFiniteSet(DOMAIN Put(cs, c, k))
<1> DEFINE g == Put(cs, c, k)
<1>1. /\ g \in Capsules /\ DOMAIN g = DOMAIN cs \cup {c} /\ g[c] = k
      /\ \A d \in DOMAIN cs : g[d] = cs[d]
    <2>1. g \in Capsules /\ IsPut(g, cs, c, k)
        BY PutCapsule
    <2> QED  BY <2>1 DEF IsPut
<1>2. IsFiniteSet(DOMAIN g)
    BY <1>1, FS_AddElement
<1>3. RefsBut(g, id, c) = References(cs, id)
    <2>1. {Labelled(d, g[d].segments, id) : d \in DOMAIN g \ {c}}
            = {Labelled(d, cs[d].segments, id) : d \in DOMAIN cs}
        <3>1. DOMAIN g \ {c} = DOMAIN cs
            BY <1>1
        <3> QED  BY <1>1, <3>1
    <2> QED  BY <2>1 DEF RefsBut, References, Labelled
<1> HIDE DEF g
<1>4. /\ References(g, id) = RefsBut(g, id, c) + Times(g[c].segments, id)
      /\ RefsBut(g, id, c) \in Nat /\ Times(g[c].segments, id) \in Nat
    BY <1>1, <1>2, RefsSplit
<1> QED  BY <1>1, <1>2, <1>3, <1>4 DEF g

LEMMA RefsDrop ==
    ASSUME NEW cs \in Capsules, IsFiniteSet(DOMAIN cs), NEW c \in DOMAIN cs, NEW id
    PROVE  /\ References(cs, id) = References(Drop(cs, c), id) + Times(cs[c].segments, id)
           /\ References(Drop(cs, c), id) \in Nat /\ Times(cs[c].segments, id) \in Nat
<1> DEFINE g == Drop(cs, c)
<1>1. g \in Capsules /\ DOMAIN g = DOMAIN cs \ {c} /\ \A d \in DOMAIN g : g[d] = cs[d]
    <2>1. g \in Capsules /\ IsDrop(g, cs, c)
        BY DropCapsule
    <2> QED  BY <2>1 DEF IsDrop
<1>2. RefsBut(cs, id, c) = References(g, id)
    <2>1. {Labelled(d, g[d].segments, id) : d \in DOMAIN g}
            = {Labelled(d, cs[d].segments, id) : d \in DOMAIN cs \ {c}}
        BY <1>1
    <2> QED  BY <2>1 DEF RefsBut, References, Labelled
<1> QED  BY <1>2, RefsSplit

-----------------------------------------------------------------------------
(* Counting references that calls hold.                                    *)

OwnTimes(j, id) == IF j.pc = "written" THEN 0 ELSE Times(j.segs, id)
Holds(jb, id) ==
    Cardinality(UNION {Labelled(t, jb[t].segs, id) : t \in {u \in Threads : jb[u].pc # "written"}})

LEMMA HeldIs ==
    ASSUME NEW id
    PROVE  HeldReferences(id) = Holds(job, id) /\ HeldReferences(id)' = Holds(job', id)
BY DEF HeldReferences, Holds, Labelled

LEMMA JobType ==
    ASSUME NEW jb \in JobsOf, NEW t \in Threads
    PROVE  /\ jb[t] \in Jobs /\ jb[t].segs \in Seq(Nat) /\ Len(jb[t].segs) \in Nat
           /\ DOMAIN jb[t].segs = 1 .. Len(jb[t].segs)
           /\ jb[t].todo \in Seq(Contents) /\ Len(jb[t].todo) \in Nat
           /\ DOMAIN jb[t].todo = 1 .. Len(jb[t].todo)
           /\ jb[t].cap \in Nat /\ jb[t].seg \in Nat /\ jb[t].hits \in Nat /\ jb[t].pc \in Pcs
           /\ jb[t].hash \in Hash
<1>1. jb[t] \in Jobs
    BY DEF JobsOf
<1>2. /\ jb[t].segs \in Seq(Nat) /\ jb[t].todo \in Seq(Contents) /\ jb[t].cap \in Nat
      /\ jb[t].seg \in Nat /\ jb[t].hits \in Nat /\ jb[t].pc \in Pcs /\ jb[t].hash \in Hash
    BY <1>1 DEF Jobs
<1> QED  BY <1>1, <1>2, LenProperties

HoldsBut(jb, id, t) == Cardinality(UNION {IF jb[u].pc = "written" THEN {} ELSE Labelled(u, jb[u].segs, id) :
                                              u \in Threads \ {t}})

LEMMA HoldsSplit ==
    ASSUME IsFiniteSet(Threads), NEW jb \in JobsOf, NEW t \in Threads, NEW id
    PROVE  /\ Holds(jb, id) = HoldsBut(jb, id, t) + OwnTimes(jb[t], id)
           /\ HoldsBut(jb, id, t) \in Nat /\ OwnTimes(jb[t], id) \in Nat /\ Holds(jb, id) \in Nat
<1> DEFINE F == [u \in Threads |-> IF jb[u].pc = "written" THEN {} ELSE Labelled(u, jb[u].segs, id)]
<1>1. \A u \in Threads : /\ IsFiniteSet(F[u]) /\ \A p \in F[u] : p[1] = u
                         /\ Cardinality(F[u]) = OwnTimes(jb[u], id)
    <2> SUFFICES ASSUME NEW u \in Threads
                 PROVE  /\ IsFiniteSet(F[u]) /\ \A p \in F[u] : p[1] = u
                        /\ Cardinality(F[u]) = OwnTimes(jb[u], id)
        OBVIOUS
    <2>1. /\ IsFiniteSet(Labelled(u, jb[u].segs, id)) /\ \A p \in Labelled(u, jb[u].segs, id) : p[1] = u
          /\ Cardinality(Labelled(u, jb[u].segs, id)) = Times(jb[u].segs, id)
        BY JobType, LabelledSize
    <2>2. IsFiniteSet({}) /\ Cardinality({}) = 0
        BY FS_EmptySet
    <2> QED  BY <2>1, <2>2 DEF OwnTimes
<1>2. Holds(jb, id) = Cardinality(UnionOver(F, Threads))
    <2>1. UNION {Labelled(u, jb[u].segs, id) : u \in {w \in Threads : jb[w].pc # "written"}}
            = UnionOver(F, Threads)
        BY DEF UnionOver
    <2> QED  BY <2>1 DEF Holds
<1>3. HoldsBut(jb, id, t) = Cardinality(UnionOver(F, Threads \ {t}))
    <2>1. {F[u] : u \in Threads \ {t}}
            = {IF jb[u].pc = "written" THEN {} ELSE Labelled(u, jb[u].segs, id) : u \in Threads \ {t}}
        OBVIOUS
    <2> QED  BY <2>1 DEF HoldsBut, UnionOver
<1> HIDE DEF F
<1>4. /\ Cardinality(UnionOver(F, Threads))
            = Cardinality(UnionOver(F, Threads \ {t})) + Cardinality(F[t])
      /\ Cardinality(UnionOver(F, Threads \ {t})) \in Nat /\ Cardinality(F[t]) \in Nat
    BY <1>1, LabelledUnion
<1> QED  BY <1>1, <1>2, <1>3, <1>4

(* The job of t becomes k.                                                 *)
Becomes(jb, t, k, jb2) == jb2 \in JobsOf /\ jb2[t] = k /\ \A u \in Threads \ {t} : jb2[u] = jb[u]

LEMMA BecomesIs ==
    ASSUME NEW jb, jb \in JobsOf, NEW t \in Threads, NEW k, k \in Jobs
    PROVE  Becomes(jb, t, k, [jb EXCEPT ![t] = k])
BY DEF Becomes, JobsOf

(* A step of call t in terms of its own holdings.                          *)
LEMMA HoldsStep ==
    ASSUME IsFiniteSet(Threads), NEW jb, jb \in JobsOf, NEW t \in Threads, NEW k, k \in Jobs,
           NEW jb2, Becomes(jb, t, k, jb2), NEW id
    PROVE  /\ Holds(jb2, id) - OwnTimes(k, id) = Holds(jb, id) - OwnTimes(jb[t], id)
           /\ Holds(jb2, id) \in Nat /\ Holds(jb, id) \in Nat
           /\ OwnTimes(k, id) \in Nat /\ OwnTimes(jb[t], id) \in Nat
           /\ OwnTimes(jb[t], id) <= Holds(jb, id)
<1>1. jb2 \in JobsOf /\ jb2[t] = k /\ \A u \in Threads \ {t} : jb2[u] = jb[u]
    BY DEF Becomes
<1>2. HoldsBut(jb2, id, t) = HoldsBut(jb, id, t)
    <2>1. {IF jb2[u].pc = "written" THEN {} ELSE Labelled(u, jb2[u].segs, id) : u \in Threads \ {t}}
            = {IF jb[u].pc = "written" THEN {} ELSE Labelled(u, jb[u].segs, id) : u \in Threads \ {t}}
        BY <1>1
    <2> QED  BY <2>1 DEF HoldsBut
<1>3. Holds(jb, id) = HoldsBut(jb, id, t) + OwnTimes(jb[t], id)
      /\ HoldsBut(jb, id, t) \in Nat /\ OwnTimes(jb[t], id) \in Nat
    BY HoldsSplit
<1>4. Holds(jb2, id) = HoldsBut(jb2, id, t) + OwnTimes(jb2[t], id) /\ OwnTimes(jb2[t], id) \in Nat
    BY <1>1, HoldsSplit
<1>5. OwnTimes(k, id) = OwnTimes(jb2[t], id)
    BY <1>1
<1> QED  BY <1>2, <1>3, <1>4, <1>5

LEMMA HoldsNone ==
    ASSUME NEW jb \in JobsOf, NEW id,
           \A t \in Threads : \A i \in DOMAIN jb[t].segs : jb[t].segs[i] # id
    PROVE  Holds(jb, id) = 0
<1>1. UNION {Labelled(t, jb[t].segs, id) : t \in {u \in Threads : jb[u].pc # "written"}} = {}
    BY DEF Labelled
<1> QED  BY <1>1, FS_EmptySet DEF Holds

-----------------------------------------------------------------------------
(* The invariant of the memory: data written, registry, segment map and    *)
(* calls are the parameters, so that the state before and the state after  *)
(* a step are two instances.                                               *)

FreshPcs == {"update", "register"}

Uses(r, jb, id) == References(r.capsules, id) + Holds(jb, id)

(* The capsules of r can be read from m, its counts cover them, and the    *)
(* content store does not name a segment of other content.                 *)
Fits(d, r, m) ==
    /\ \A c \in DOMAIN r.capsules :
        /\ Len(r.capsules[c].segments) = Len(d[c])
        /\ \A i \in 1 .. Len(d[c]) :
            /\ r.capsules[c].segments[i] \in DOMAIN m
            /\ m[r.capsules[c].segments[i]].data = d[c][i]
    /\ \A id \in DOMAIN m : m[id].ref_count >= References(r.capsules, id)
    /\ \A h \in DOMAIN r.content_store :
        r.content_store[h] \in DOMAIN m => m[r.content_store[h]].data = h

(* Ids in use will not be allocated again.                                 *)
Below(d, r) ==
    /\ DOMAIN r.capsules \subseteq 1 .. Len(d)
    /\ \A c \in DOMAIN r.capsules : \A i \in DOMAIN r.capsules[c].segments :
        r.capsules[c].segments[i] < r.next_segment_id
    /\ \A h \in DOMAIN r.content_store : r.content_store[h] < r.next_segment_id

(* A write: what it has stored is the beginning of its data, what it has   *)
(* to do is the rest.                                                      *)
Worker(d, r, m, j) ==
    /\ j.cap \in 1 .. Len(d)
    /\ Len(j.segs) + Len(j.todo) = Len(d[j.cap])
    /\ \A i \in 1 .. Len(j.segs) : j.segs[i] \in DOMAIN m /\ m[j.segs[i]].data = d[j.cap][i]
    /\ \A i \in 1 .. Len(j.todo) : j.todo[i] = d[j.cap][Len(j.segs) + i]
    /\ j.pc \in {"create", "written"} => j.todo = << >>
    /\ j.pc \in {"increment", "append", "update", "register"} => j.todo # << >>
    /\ j.pc # "written" => j.cap \notin DOMAIN r.capsules
    /\ j.pc = "increment" => /\ j.seg < r.next_segment_id
                             /\ j.seg \in DOMAIN m => m[j.seg].data = Head(j.todo)

(* A segment nobody but its writer knows yet.                              *)
Fresh(r, m, jb, j) ==
    /\ j.seg < r.next_segment_id
    /\ j.seg \in DOMAIN m /\ m[j.seg].data = Head(j.todo) /\ m[j.seg].ref_count >= 1
    /\ Uses(r, jb, j.seg) = 0
    /\ \A h \in DOMAIN r.content_store : r.content_store[h] # j.seg

(* What a delete or a sweep is about to remove has no user.                *)
Doomed(r, jb, j) ==
    /\ j.pc \in {"deregister", "remove", "reclaim"} => Uses(r, jb, j.seg) = 0
    /\ j.pc \in {"sweep", "reclaim"} => \A v \in j.victims : v \in Victim /\ Uses(r, jb, v.id) = 0

JobOK(d, r, m, jb, t) ==
    /\ jb[t].pc \in WritePcs => Worker(d, r, m, jb[t])
    /\ jb[t].pc \in FreshPcs => Fresh(r, m, jb, jb[t])
    /\ \A i \in DOMAIN jb[t].segs : jb[t].segs[i] < r.next_segment_id
    /\ Doomed(r, jb, jb[t])

Distinct(jb, t, u) ==
    /\ jb[t].pc \in WritePcs /\ jb[u].pc \in WritePcs => jb[t].cap # jb[u].cap
    /\ jb[t].pc \in FreshPcs /\ jb[u].pc \in FreshPcs \cup {"increment"} => jb[t].seg # jb[u].seg
    /\ jb[t].pc \in WritePcs => jb[u].pc \in WritePcs \cup {"idle"}

Types(d, r, m, jb) ==
    d \in Seq(Seq(Contents)) /\ r \in Registries /\ m \in Maps /\ jb \in JobsOf

Inv(d, r, m, jb) ==
    /\ Below(d, r) /\ Fits(d, r, m)
    /\ \A id \in DOMAIN m : m[id].ref_count >= Uses(r, jb, id)
    /\ \A t \in Threads : JobOK(d, r, m, jb, t)
    /\ \A t, u \in Threads : t # u => Distinct(jb, t, u)

LEMMA RegistryType ==
    ASSUME NEW r \in Registries
    PROVE  r.capsules \in Capsules /\ r.next_segment_id \in Nat /\ r.content_store \in Stores
BY DEF Registries

LEMMA FiniteCapsules ==
    ASSUME NEW d \in Seq(Seq(Contents)), NEW r \in Registries, Below(d, r)
    PROVE  IsFiniteSet(DOMAIN r.capsules)
<1>1. IsFiniteSet(1 .. Len(d))
    BY FS_Interval, LenProperties
<1> QED  BY <1>1, FS_Subset DEF Below

LEMMA UsesType ==
    ASSUME IsFiniteSet(Threads), NEW d, NEW r, NEW m, NEW jb, Types(d, r, m, jb), Below(d, r), NEW id
    PROVE  /\ Uses(r, jb, id) = References(r.capsules, id) + Holds(jb, id)
           /\ References(r.capsules, id) \in Nat /\ Holds(jb, id) \in Nat /\ Uses(r, jb, id) \in Nat
<1>1. References(r.capsules, id) \in Nat
    BY RegistryType, FiniteCapsules, RefsFinite DEF Types
<1>2. Holds(jb, id) \in Nat
    <2>1. CASE Threads = {}
        <3>1. Holds(jb, id) = 0
            BY <2>1, HoldsNone DEF Types
        <3> QED  BY <3>1
    <2>2. CASE Threads # {}
        BY <2>2, HoldsSplit DEF Types
    <2> QED  BY <2>1, <2>2
<1> QED  BY <1>1, <1>2 DEF Uses

(* Steps of a write leave the other writes alone.                          *)
Grown(d, r, m, d2, r2, m2) ==
    /\ r2.next_segment_id >= r.next_segment_id
    /\ Len(d2) >= Len(d) /\ \A c \in 1 .. Len(d) : d2[c] = d[c]
    /\ DOMAIN m \subseteq DOMAIN m2
    /\ \A id \in DOMAIN m2 : id < r.next_segment_id => id \in DOMAIN m /\ m2[id].data = m[id].data

LEMMA WorkerGrown ==
    ASSUME NEW d, NEW r, NEW m, NEW d2, NEW r2, NEW m2, Grown(d, r, m, d2, r2, m2),
           NEW j \in Jobs, Worker(d, r, m, j), d \in Seq(Seq(Contents)), d2 \in Seq(Seq(Contents)),
           r \in Registries, r2 \in Registries,
           \A i \in DOMAIN j.segs : j.segs[i] < r.next_segment_id,
           j.pc # "written" => j.cap \notin DOMAIN r2.capsules
    PROVE  Worker(d2, r2, m2, j) /\ \A i \in DOMAIN j.segs : j.segs[i] < r2.next_segment_id
<1>1. Len(d) \in Nat /\ Len(d2) \in Nat /\ r.next_segment_id \in Nat /\ r2.next_segment_id \in Nat
    BY LenProperties, RegistryType
<1>2. j.segs \in Seq(Nat) /\ j.seg \in Nat /\ DOMAIN j.segs = 1 .. Len(j.segs)
    <2>1. j.segs \in Seq(Nat) /\ j.seg \in Nat
        BY DEF Jobs
    <2> QED  BY <2>1, LenProperties
<1>3. j.cap \in 1 .. Len(d) /\ j.cap \in 1 .. Len(d2) /\ d2[j.cap] = d[j.cap]
    BY <1>1 DEF Worker, Grown
<1>4. \A i \in 1 .. Len(j.segs) : j.segs[i] \in DOMAIN m2 /\ m2[j.segs[i]].data = d[j.cap][i]
    BY <1>2 DEF Worker, Grown
<1>5. \A i \in DOMAIN j.segs : j.segs[i] < r2.next_segment_id
    <2>1. \A i \in DOMAIN j.segs : j.segs[i] \in Nat
        BY <1>2, ElementOfSeq
    <2> QED  BY <1>1, <2>1 DEF Grown
<1>6. j.pc = "increment" => /\ j.seg < r2.next_segment_id
                            /\ j.seg \in DOMAIN m2 => m2[j.seg].data = Head(j.todo)
    BY <1>1, <1>2 DEF Worker, Grown
<1> QED  BY <1>3, <1>4, <1>5, <1>6 DEF Worker

(* A step of call t: the invariant of what all share and of t itself.      *)
OwnStep(d, r, m, jb, d2, r2, m2, jb2, t) ==
    /\ Types(d, r, m, jb) /\ Inv(d, r, m, jb) /\ Types(d2, r2, m2, jb2)
    /\ Becomes(jb, t, jb2[t], jb2)
    /\ Below(d2, r2) /\ Fits(d2, r2, m2)
    /\ \A id \in DOMAIN m2 : m2[id].ref_count >= Uses(r2, jb2, id)
    /\ JobOK(d2, r2, m2, jb2, t)

(* A step of write t is right for all when it is right for t: it may touch *)
(* one segment x that no other write is about to publish.                  *)
WriteStep(d, r, m, jb, d2, r2, m2, jb2, t, x) ==
    /\ OwnStep(d, r, m, jb, d2, r2, m2, jb2, t)
    /\ Grown(d, r, m, d2, r2, m2)
    /\ \A u \in Threads \ {t} :
        /\ jb[u].pc \in WritePcs \cup {"idle"}
        /\ Distinct(jb2, t, u) /\ Distinct(jb2, u, t)
        /\ jb[u].pc \in WritePcs \ {"written"} =>
               (jb[u].cap \in DOMAIN r2.capsules => jb[u].cap \in DOMAIN r.capsules)
        /\ jb[u].pc \in FreshPcs => jb[u].seg # x /\ Uses(r2, jb2, jb[u].seg) = 0
    /\ \A id \in DOMAIN m : id # x => m2[id].ref_count >= m[id].ref_count
    /\ \A h \in DOMAIN r2.content_store : r2.content_store[h] = x \/
           (h \in DOMAIN r.content_store /\ r2.content_store[h] = r.content_store[h])

LEMMA WriterStep ==
    ASSUME IsFiniteSet(Threads), NEW t \in Threads, NEW d, NEW r, NEW m, NEW jb,
           NEW d2, NEW r2, NEW m2, NEW jb2, NEW x, WriteStep(d, r, m, jb, d2, r2, m2, jb2, t, x)
    PROVE  Types(d2, r2, m2, jb2) /\ Inv(d2, r2, m2, jb2)
<1> USE DEF WriteStep, OwnStep
<1>1. \A u \in Threads \ {t} : jb2[u] = jb[u]
    BY DEF Becomes
<1>2. ASSUME NEW u \in Threads \ {t}
      PROVE  JobOK(d2, r2, m2, jb2, u)
    <2> DEFINE j == jb[u]
    <2>1. JobOK(d, r, m, jb, u) /\ j \in Jobs /\ jb2[u] = j
        BY <1>1, JobType DEF Inv, Types
    <2>2. j.pc \in WritePcs => Worker(d2, r2, m2, j)
        <3>1. SUFFICES ASSUME j.pc \in WritePcs
                       PROVE  Worker(d2, r2, m2, j)
            OBVIOUS
        <3>2. Worker(d, r, m, j) /\ \A i \in DOMAIN j.segs : j.segs[i] < r.next_segment_id
            BY <2>1, <3>1 DEF JobOK
        <3>3. j.pc # "written" => j.cap \notin DOMAIN r2.capsules
            BY <3>1, <3>2 DEF Worker
        <3> HIDE DEF j
        <3> QED  BY <2>1, <3>2, <3>3, WorkerGrown DEF Types
    <2>3. \A i \in DOMAIN j.segs : j.segs[i] < r2.next_segment_id
        <3>1. \A i \in DOMAIN j.segs : j.segs[i] < r.next_segment_id /\ j.segs[i] \in Nat
            BY <2>1, JobType, ElementOfSeq DEF JobOK, Types
        <3>2. r.next_segment_id \in Nat /\ r2.next_segment_id \in Nat
            BY RegistryType DEF Types
        <3> QED  BY <3>1, <3>2 DEF Grown
    <2>4. j.pc \in FreshPcs => Fresh(r2, m2, jb2, j)
        <3>1. SUFFICES ASSUME j.pc \in FreshPcs
                       PROVE  Fresh(r2, m2, jb2, j)
            OBVIOUS
        <3>2. Fresh(r, m, jb, j) /\ j.seg # x
            BY <2>1, <3>1 DEF JobOK
        <3>3. j.seg \in Nat /\ r.next_segment_id \in Nat /\ r2.next_segment_id \in Nat
            BY JobType, RegistryType DEF Types
        <3>4. j.seg \in DOMAIN m2 /\ m2[j.seg].data = m[j.seg].data
            BY <3>2 DEF Fresh, Grown
        <3>5. m2[j.seg].ref_count >= 1
            <4>1. m[j.seg].ref_count \in Nat /\ m2[j.seg].ref_count \in Nat
                BY <3>2, <3>4, SegmentType DEF Fresh, Types
            <4>2. m[j.seg].ref_count >= 1 /\ m2[j.seg].ref_count >= m[j.seg].ref_count
                BY <3>2 DEF Fresh
            <4> QED  BY <4>1, <4>2
        <3>6. j.seg < r2.next_segment_id
            BY <3>2, <3>3 DEF Fresh, Grown
        <3>7. Uses(r2, jb2, j.seg) = 0
            BY <3>1
        <3>8. \A h \in DOMAIN r2.content_store : r2.content_store[h] # j.seg
            BY <3>2 DEF Fresh
        <3> HIDE DEF j
        <3> QED  BY <3>2, <3>4, <3>5, <3>6, <3>7, <3>8 DEF Fresh
    <2>5. Doomed(r2, jb2, j)
        <3>1. j.pc \in WritePcs \cup {"idle"}
            OBVIOUS
        <3> HIDE DEF j
        <3> QED  BY <3>1 DEF Doomed, WritePcs
    <2> HIDE DEF j
    <2> QED  BY <2>1, <2>2, <2>3, <2>4, <2>5 DEF JobOK
<1>3. \A u \in Threads : JobOK(d2, r2, m2, jb2, u)
    BY <1>2
<1>4. ASSUME NEW u \in Threads, NEW w \in Threads, u # w
      PROVE  Distinct(jb2, u, w)
    <2>1. CASE u = t
        BY <1>4, <2>1
    <2>2. CASE w = t
        BY <1>4, <2>2
    <2>3. CASE u # t /\ w # t
        <3>1. Distinct(jb, u, w)
            BY <1>4 DEF Inv
        <3> QED  BY <1>1, <2>3, <3>1 DEF Distinct
    <2> QED  BY <2>1, <2>2, <2>3
<1> QED  BY <1>3, <1>4 DEF Inv

(* Likewise a step of a delete or a sweep, which only gives up uses.       *)
ReduceStep(d, r, m, jb, r2, m2, jb2, t) ==
    /\ OwnStep(d, r, m, jb, d, r2, m2, jb2, t)
    /\ \A u \in Threads \ {t} : jb[u].pc \notin WritePcs
    /\ jb2[t].pc \notin WritePcs
    /\ r2.next_segment_id >= r.next_segment_id
    /\ \A id : Uses(r, jb, id) = 0 => Uses(r2, jb2, id) = 0

LEMMA ReclaimStep ==
    ASSUME IsFiniteSet(Threads), NEW t \in Threads, NEW d, NEW r, NEW m, NEW jb,
           NEW r2, NEW m2, NEW jb2, ReduceStep(d, r, m, jb, r2, m2, jb2, t)
    PROVE  Types(d, r2, m2, jb2) /\ Inv(d, r2, m2, jb2)
<1> USE DEF ReduceStep, OwnStep
<1>1. \A u \in Threads \ {t} : jb2[u] = jb[u]
    BY DEF Becomes
<1>2. ASSUME NEW u \in Threads \ {t}
      PROVE  JobOK(d, r2, m2, jb2, u)
    <2> DEFINE j == jb[u]
    <2>1. JobOK(d, r, m, jb, u) /\ j \in Jobs /\ jb2[u] = j /\ j.pc \notin WritePcs
        BY <1>1, JobType DEF Inv, Types
    <2>2. \A i \in DOMAIN j.segs : j.segs[i] < r2.next_segment_id
        <3>1. \A i \in DOMAIN j.segs : j.segs[i] < r.next_segment_id /\ j.segs[i] \in Nat
            BY <2>1, JobType, ElementOfSeq DEF JobOK, Types
        <3>2. r.next_segment_id \in Nat /\ r2.next_segment_id \in Nat
            BY RegistryType DEF Types
        <3> QED  BY <3>1, <3>2
    <2>3. Doomed(r2, jb2, j)
        BY <2>1 DEF JobOK, Doomed
    <2>4. j.pc \notin FreshPcs
        BY <2>1 DEF FreshPcs, WritePcs
    <2> HIDE DEF j
    <2> QED  BY <2>1, <2>2, <2>3, <2>4 DEF JobOK
<1>3. \A u \in Threads : JobOK(d, r2, m2, jb2, u)
    BY <1>2
<1>4. \A u \in Threads : jb2[u].pc \notin WritePcs
    BY <1>1
<1>5. \A u, w \in Threads : Distinct(jb2, u, w)
    BY <1>4 DEF Distinct, FreshPcs, WritePcs
<1> QED  BY <1>3, <1>5 DEF Inv

-----------------------------------------------------------------------------
(* Changes of the segment map that a registry still fits.                  *)

LEMMA FitsMap ==
    ASSUME NEW d, NEW r, r \in Registries, NEW m, NEW m2, Fits(d, r, m),
           \A c \in DOMAIN r.capsules : \A i \in DOMAIN r.capsules[c].segments :
               r.capsules[c].segments[i] \in DOMAIN m =>
                   /\ r.capsules[c].segments[i] \in DOMAIN m2
                   /\ m2[r.capsules[c].segments[i]].data = m[r.capsules[c].segments[i]].data,
           \A id \in DOMAIN m2 : m2[id].ref_count >= References(r.capsules, id),
           \A h \in DOMAIN r.content_store : r.content_store[h] \in DOMAIN m2 =>
               /\ r.content_store[h] \in DOMAIN m
               /\ m2[r.content_store[h]].data = m[r.content_store[h]].data
    PROVE  Fits(d, r, m2)
<1>1. ASSUME NEW c \in DOMAIN r.capsules, NEW i \in 1 .. Len(d[c])
      PROVE  /\ r.capsules[c].segments[i] \in DOMAIN m2
             /\ m2[r.capsules[c].segments[i]].data = d[c][i]
    <2>1. i \in DOMAIN r.capsules[c].segments
        BY CapsuleType, RegistryType DEF Fits
    <2>2. r.capsules[c].segments[i] \in DOMAIN m /\ m[r.capsules[c].segments[i]].data = d[c][i]
        BY DEF Fits
    <2> QED  BY <2>1, <2>2
<1> QED  BY <1>1 DEF Fits

LEMMA FitsCounted ==
    ASSUME NEW d, NEW r, r \in Registries, NEW m, NEW m2, Fits(d, r, m), NEW id, NEW n,
           IsCounted(m2, m, id, n), n >= References(r.capsules, id)
    PROVE  Fits(d, r, m2)
<1>1. DOMAIN m2 = DOMAIN m /\ \A x \in DOMAIN m : m2[x].data = m[x].data
    BY DEF IsCounted
<1>2. \A x \in DOMAIN m2 : m2[x].ref_count >= References(r.capsules, x)
    BY DEF IsCounted, Fits
<1> QED  BY <1>1, <1>2, FitsMap

(* No capsule and no hash names id.                                        *)
LEMMA FitsNew ==
    ASSUME NEW d, d \in Seq(Seq(Contents)), NEW r, r \in Registries, Below(d, r),
           NEW m, NEW m2, Fits(d, r, m),
           NEW id, id \in Nat, id >= r.next_segment_id, NEW e, IsPut(m2, m, id, e), e.ref_count = 1
    PROVE  Fits(d, r, m2) /\ References(r.capsules, id) = 0
<1>1. r.next_segment_id \in Nat /\ r.capsules \in Capsules /\ r.content_store \in Stores
    BY RegistryType
<1>2. \A c \in DOMAIN r.capsules : \A i \in DOMAIN r.capsules[c].segments : r.capsules[c].segments[i] # id
    <2> SUFFICES ASSUME NEW c \in DOMAIN r.capsules, NEW i \in DOMAIN r.capsules[c].segments
                 PROVE  r.capsules[c].segments[i] # id
        OBVIOUS
    <2>1. r.capsules[c].segments[i] \in Nat
        BY <1>1, CapsuleType, ElementOfSeq
    <2>2. r.capsules[c].segments[i] < r.next_segment_id
        BY DEF Below
    <2> QED  BY <1>1, <2>1, <2>2
<1>3. \A h \in DOMAIN r.content_store : r.content_store[h] # id
    <2> SUFFICES ASSUME NEW h \in DOMAIN r.content_store
                 PROVE  r.content_store[h] # id
        OBVIOUS
    <2>1. r.content_store[h] \in Nat /\ r.content_store[h] < r.next_segment_id
        BY <1>1, StoreType DEF Below
    <2> QED  BY <1>1, <2>1
<1>4. References(r.capsules, id) = 0
    BY <1>1, <1>2, FiniteCapsules, RefsFinite
<1>5. \A x \in DOMAIN m2 : x # id => x \in DOMAIN m /\ m2[x] = m[x]
    BY DEF IsPut
<1>6. \A x \in DOMAIN m2 : m2[x].ref_count >= References(r.capsules, x)
    BY <1>4, <1>5 DEF IsPut, Fits
<1>7. \A x \in DOMAIN m : x \in DOMAIN m2
    BY DEF IsPut
<1> QED  BY <1>2, <1>3, <1>4, <1>5, <1>6, <1>7, FitsMap

LEMMA FitsRewritten ==
    ASSUME NEW d, NEW r, r \in Registries, NEW m, NEW m2, Fits(d, r, m),
           NEW id \in DOMAIN m, NEW e, IsPut(m2, m, id, e), e.data = m[id].data, e.ref_count = 1,
           References(r.capsules, id) = 0
    PROVE  Fits(d, r, m2)
<1>1. DOMAIN m2 = DOMAIN m /\ \A x \in DOMAIN m : m2[x].data = m[x].data
    BY DEF IsPut
<1>2. \A x \in DOMAIN m2 : m2[x].ref_count >= References(r.capsules, x)
    BY <1>1 DEF IsPut, Fits
<1> QED  BY <1>1, <1>2, FitsMap

LEMMA FitsDropped ==
    ASSUME NEW d, d \in Seq(Seq(Contents)), NEW r, r \in Registries, Below(d, r),
           NEW m, NEW m2, Fits(d, r, m), NEW id, IsDrop(m2, m, id), References(r.capsules, id) = 0
    PROVE  Fits(d, r, m2)
<1>1. DOMAIN m2 = DOMAIN m \ {id} /\ \A x \in DOMAIN m2 : m2[x] = m[x]
    BY DEF IsDrop
<1>2. \A x \in DOMAIN m2 : m2[x].ref_count >= References(r.capsules, x)
    BY <1>1 DEF Fits
<1>3. \A c \in DOMAIN r.capsules : \A i \in DOMAIN r.capsules[c].segments : r.capsules[c].segments[i] # id
    BY RegistryType, FiniteCapsules, RefsFinite
<1> QED  BY <1>1, <1>2, <1>3, FitsMap

-----------------------------------------------------------------------------
(* Steps of a write, in the memory.                                        *)

LEMMA UsesStep ==
    ASSUME IsFiniteSet(Threads), NEW d, NEW r, NEW m, NEW jb, Types(d, r, m, jb), Below(d, r),
           NEW t \in Threads, NEW k, k \in Jobs, NEW jb2, Becomes(jb, t, k, jb2),
           NEW r2, r2.capsules = r.capsules, NEW id
    PROVE  /\ Uses(r2, jb2, id) = Uses(r, jb, id) - OwnTimes(jb[t], id) + OwnTimes(k, id)
           /\ Uses(r, jb, id) \in Nat /\ Uses(r2, jb2, id) \in Nat
           /\ OwnTimes(jb[t], id) \in Nat /\ OwnTimes(k, id) \in Nat
           /\ OwnTimes(jb[t], id) <= Uses(r, jb, id)
<1>1. /\ Uses(r, jb, id) = References(r.capsules, id) + Holds(jb, id)
      /\ References(r.capsules, id) \in Nat /\ Holds(jb, id) \in Nat
    BY UsesType
<1>2. Uses(r2, jb2, id) = References(r.capsules, id) + Holds(jb2, id)
    BY DEF Uses
<1>3. /\ Holds(jb2, id) - OwnTimes(k, id) = Holds(jb, id) - OwnTimes(jb[t], id)
      /\ Holds(jb2, id) \in Nat /\ OwnTimes(k, id) \in Nat /\ OwnTimes(jb[t], id) \in Nat
      /\ OwnTimes(jb[t], id) <= Holds(jb, id)
    BY HoldsStep DEF Types
<1> QED  BY <1>1, <1>2, <1>3

(* Segment id has no more users than before.                               *)
NoMore(r, jb, r2, jb2, id) ==
    Uses(r2, jb2, id) \in Nat /\ Uses(r, jb, id) \in Nat /\ Uses(r2, jb2, id) <= Uses(r, jb, id)

LEMMA StillCovered ==
    ASSUME NEW d, NEW r, NEW m, NEW jb, Types(d, r, m, jb), Inv(d, r, m, jb),
           NEW r2, NEW jb2, NEW id, id \in DOMAIN m, NoMore(r, jb, r2, jb2, id)
    PROVE  m[id].ref_count >= Uses(r2, jb2, id)
<1>1. m[id].ref_count \in Nat /\ m[id].ref_count >= Uses(r, jb, id)
    BY SegmentType DEF Inv, Types
<1> QED  BY <1>1 DEF NoMore

(* A segment that only its writer knows is one that exists, and of a       *)
(* lower id than the next.                                                 *)
LEMMA FreshIs ==
    ASSUME NEW d, NEW r, NEW m, NEW jb, Types(d, r, m, jb), Inv(d, r, m, jb),
           NEW u \in Threads, jb[u].pc \in FreshPcs
    PROVE  Uses(r, jb, jb[u].seg) = 0 /\ jb[u].seg # r.next_segment_id
<1>1. Fresh(r, m, jb, jb[u])
    BY DEF Inv, JobOK
<1>2. jb[u].seg \in Nat /\ r.next_segment_id \in Nat
    BY JobType, RegistryType DEF Types
<1> QED  BY <1>1, <1>2 DEF Fresh

(* A step that changes neither capsules nor segments and takes no          *)
(* reference: lookups, failures, returns.                                  *)
LEMMA WriterQuiet ==
    ASSUME IsFiniteSet(Threads), NEW d, NEW r, NEW m, NEW jb, Types(d, r, m, jb), Inv(d, r, m, jb),
           NEW t \in Threads, jb[t].pc \in WritePcs, NEW k, k \in Jobs, NEW jb2, Becomes(jb, t, k, jb2),
           NEW r2 \in Registries, r2.capsules = r.capsules, r2.content_store = r.content_store,
           r2.next_segment_id >= r.next_segment_id,
           k.pc \in (WritePcs \ FreshPcs) \cup {"idle"},
           k.pc = "idle" => k.segs = << >>,
           k.pc # "idle" => /\ k.segs = jb[t].segs /\ k.cap = jb[t].cap
                            /\ k.pc # "written" /\ jb[t].pc # "written"
                            /\ Worker(d, r2, m, k)
                            /\ k.pc = "increment" =>
                                   \E h \in DOMAIN r.content_store : k.seg = r.content_store[h]
    PROVE  Types(d, r2, m, jb2) /\ Inv(d, r2, m, jb2)
<1>1. jb2 \in JobsOf /\ jb2[t] = k /\ \A u \in Threads \ {t} : jb2[u] = jb[u]
    BY DEF Becomes
<1>2. Types(d, r2, m, jb2)
    BY <1>1 DEF Types
<1>3. Below(d, r) /\ Fits(d, r, m) /\ r.next_segment_id \in Nat /\ r2.next_segment_id \in Nat
    BY RegistryType DEF Inv, Types
<1>4. Below(d, r2)
    <2>1. \A c \in DOMAIN r.capsules : \A i \in DOMAIN r.capsules[c].segments :
              r.capsules[c].segments[i] \in Nat
        BY CapsuleType, RegistryType, ElementOfSeq DEF Types
    <2>2. \A h \in DOMAIN r.content_store : r.content_store[h] \in Nat
        BY StoreType, RegistryType DEF Types
    <2> QED  BY <1>3, <2>1, <2>2 DEF Below
<1>5. Fits(d, r2, m)
    BY <1>3 DEF Fits
<1>6. \A id : /\ OwnTimes(k, id) = OwnTimes(jb[t], id) \/ OwnTimes(k, id) = 0
    BY TimesEmpty DEF OwnTimes
<1>7. \A id : NoMore(r, jb, r2, jb2, id)
    <2> TAKE id
    <2>1. /\ Uses(r2, jb2, id) = Uses(r, jb, id) - OwnTimes(jb[t], id) + OwnTimes(k, id)
          /\ Uses(r, jb, id) \in Nat /\ Uses(r2, jb2, id) \in Nat
          /\ OwnTimes(jb[t], id) \in Nat /\ OwnTimes(k, id) \in Nat
        BY <1>3, UsesStep
    <2> QED  BY <1>6, <2>1 DEF NoMore
<1>8. \A id \in DOMAIN m : m[id].ref_count >= Uses(r2, jb2, id)
    BY <1>7, StillCovered
<1>9. \A u \in Threads \ {t} : Distinct(jb, t, u) /\ Distinct(jb, u, t) /\ jb[u].pc \in WritePcs \cup {"idle"}
    BY DEF Inv, Distinct
<1>10. JobOK(d, r2, m, jb2, t)
    <2>1. k.pc \in WritePcs => Worker(d, r2, m, k)
        BY DEF WritePcs
    <2>2. k.pc \notin FreshPcs
        BY DEF FreshPcs, WritePcs
    <2>3. \A i \in DOMAIN k.segs : k.segs[i] < r2.next_segment_id
        <3>1. \A i \in DOMAIN jb[t].segs : jb[t].segs[i] < r.next_segment_id /\ jb[t].segs[i] \in Nat
            BY JobType, ElementOfSeq DEF Inv, JobOK, Types
        <3>2. k.segs = << >> \/ k.segs = jb[t].segs
            OBVIOUS
        <3> QED  BY <1>3, <3>1, <3>2
    <2>4. Doomed(r2, jb2, k)
        BY DEF Doomed, WritePcs
    <2> QED  BY <1>1, <2>1, <2>2, <2>3, <2>4 DEF JobOK
<1>11. ASSUME NEW u \in Threads \ {t}
       PROVE  Distinct(jb2, t, u) /\ Distinct(jb2, u, t)
    <2>1. Distinct(jb, t, u) /\ Distinct(jb, u, t) /\ jb[u].pc \in WritePcs \cup {"idle"}
        BY <1>9
    <2>2. ASSUME jb[u].pc \in FreshPcs, k.pc = "increment"
          PROVE  jb[u].seg # k.seg
        BY <2>2 DEF Inv, JobOK, Fresh
    <2>3. k.pc \in WritePcs => k.cap = jb[t].cap
        BY DEF WritePcs
    <2>4. k.pc \notin FreshPcs
        BY DEF FreshPcs, WritePcs
    <2> QED  BY <1>1, <2>1, <2>2, <2>3, <2>4 DEF Distinct
<1>12. Grown(d, r, m, d, r2, m)
    <2>1. Len(d) \in Nat
        BY LenProperties DEF Types
    <2> QED  BY <2>1 DEF Grown
<1>13. \A u \in Threads \ {t} : jb[u].pc \in FreshPcs =>
           jb[u].seg # r.next_segment_id /\ Uses(r2, jb2, jb[u].seg) = 0
    <2> SUFFICES ASSUME NEW u \in Threads \ {t}, jb[u].pc \in FreshPcs
                 PROVE  jb[u].seg # r.next_segment_id /\ Uses(r2, jb2, jb[u].seg) = 0
        OBVIOUS
    <2>1. Uses(r, jb, jb[u].seg) = 0 /\ jb[u].seg # r.next_segment_id
        BY FreshIs
    <2>2. NoMore(r, jb, r2, jb2, jb[u].seg)
        BY <1>7
    <2> QED  BY <2>1, <2>2 DEF NoMore
<1>14. \A id \in DOMAIN m : m[id].ref_count >= m[id].ref_count
    <2>1. \A id \in DOMAIN m : m[id].ref_count \in Nat
        BY SegmentType DEF Types
    <2> QED  BY <2>1
<1>15. OwnStep(d, r, m, jb, d, r2, m, jb2, t)
    BY <1>1, <1>2, <1>4, <1>5, <1>8, <1>10 DEF OwnStep
<1>16. WriteStep(d, r, m, jb, d, r2, m, jb2, t, r.next_segment_id)
    BY <1>9, <1>11, <1>12, <1>13, <1>14, <1>15 DEF WriteStep
<1> QED  BY <1>16, WriterStep

(* The segment at hand becomes one of those that a write has collected.    *)
Takes(j, k) ==
    /\ j.pc \in {"increment", "update", "register"} /\ k.pc = "chunk" /\ k.cap = j.cap
    /\ k.todo = Tail(j.todo) /\ k.segs = Append(j.segs, j.seg)

LEMMA NextWorker ==
    ASSUME NEW d, d \in Seq(Seq(Contents)), NEW r, NEW m, NEW j, j \in Jobs, Worker(d, r, m, j),
           NEW k, Takes(j, k), j.seg \in DOMAIN m, m[j.seg].data = Head(j.todo)
    PROVE  Worker(d, r, m, k)
<1>1. /\ j.segs \in Seq(Nat) /\ j.todo \in Seq(Contents) /\ j.todo # << >> /\ j.pc # "written"
      /\ k.cap = j.cap /\ k.pc = "chunk" /\ k.todo = Tail(j.todo) /\ k.segs = Append(j.segs, j.seg)
      /\ j.seg \in Nat
    BY DEF Takes, Worker, Jobs
<1>2. /\ Len(j.segs) \in Nat /\ Len(j.todo) \in Nat /\ Len(j.todo) > 0 /\ Head(j.todo) = j.todo[1]
    BY <1>1, LenProperties, EmptySeq
<1>a. k.cap = j.cap
    BY <1>1
<1>3. /\ Len(k.todo) = Len(j.todo) - 1 /\ \A i \in 1 .. Len(k.todo) : k.todo[i] = j.todo[i + 1]
    BY <1>1, HeadTailProperties
<1>b. Len(k.todo) = Len(j.todo) - 1
    BY <1>3
<1>4. /\ Len(k.segs) = Len(j.segs) + 1 /\ \A i \in 1 .. Len(j.segs) : k.segs[i] = j.segs[i]
      /\ k.segs[Len(j.segs) + 1] = j.seg
    BY <1>1, AppendProperties
<1>c. Len(k.segs) = Len(j.segs) + 1
    BY <1>4
<1>5. /\ Len(j.segs) + Len(j.todo) = Len(d[j.cap])
      /\ \A i \in 1 .. Len(j.segs) : j.segs[i] \in DOMAIN m /\ m[j.segs[i]].data = d[j.cap][i]
      /\ \A i \in 1 .. Len(j.todo) : j.todo[i] = d[j.cap][Len(j.segs) + i]
    BY DEF Worker
<1>d. Len(j.segs) + Len(j.todo) = Len(d[j.cap])
    BY <1>5
<1> DEFINE L(s) == Len(s)
<1>e. /\ L(k.todo) = L(j.todo) - 1 /\ L(k.segs) = L(j.segs) + 1
      /\ L(d[k.cap]) = L(j.segs) + L(j.todo) /\ L(j.segs) \in Nat /\ L(j.todo) \in Nat
    BY <1>2, <1>a, <1>b, <1>c, <1>d
<1>6. Len(k.segs) + Len(k.todo) = Len(d[k.cap])
    <2> HIDE DEF L
    <2>1. L(k.segs) + L(k.todo) = L(d[k.cap])
        BY <1>e
    <2> QED  BY <2>1 DEF L
<1>7. \A i \in 1 .. Len(k.segs) : k.segs[i] \in DOMAIN m /\ m[k.segs[i]].data = d[k.cap][i]
    <2> SUFFICES ASSUME NEW i \in 1 .. Len(k.segs)
                 PROVE  k.segs[i] \in DOMAIN m /\ m[k.segs[i]].data = d[k.cap][i]
        OBVIOUS
    <2>1. CASE i \in 1 .. Len(j.segs)
        BY <1>1, <1>4, <1>5, <2>1
    <2>2. CASE i = Len(j.segs) + 1
        <3>1. j.todo[1] = d[j.cap][Len(j.segs) + 1]
            BY <1>2, <1>5
        <3> QED  BY <1>1, <1>2, <1>4, <2>2, <3>1
    <2> QED  BY <1>2, <1>4, <2>1, <2>2
<1>8. \A i \in 1 .. Len(k.todo) : k.todo[i] = d[k.cap][Len(k.segs) + i]
    <2> HIDE DEF L
    <2> SUFFICES ASSUME NEW i, i \in 1 .. L(k.todo)
                 PROVE  k.todo[i] = d[k.cap][L(k.segs) + i]
        BY DEF L
    <2>1. i \in 1 .. (L(j.todo) - 1) /\ i \in Nat
        BY <1>e
    <2>2. i + 1 \in 1 .. L(j.todo)
        BY <1>e, <2>1
    <2>5. L(j.segs) + (i + 1) = L(k.segs) + i
        BY <1>e, <2>1
    <2>3. j.todo[i + 1] = d[j.cap][L(j.segs) + (i + 1)]
        BY <1>5, <2>2 DEF L
    <2>4. k.todo[i] = j.todo[i + 1]
        BY <1>3 DEF L
    <2> QED  BY <1>a, <2>5, <2>3, <2>4
<1> QED  BY <1>1, <1>6, <1>7, <1>8 DEF Worker

LEMMA UsesTaken ==
    ASSUME IsFiniteSet(Threads), NEW d, NEW r, NEW m, NEW jb, Types(d, r, m, jb), Below(d, r),
           NEW t \in Threads, NEW k, k \in Jobs, NEW jb2, Becomes(jb, t, k, jb2),
           NEW r2, r2.capsules = r.capsules, Takes(jb[t], k), NEW x
    PROVE  /\ Uses(r2, jb2, x) = Uses(r, jb, x) + (IF jb[t].seg = x THEN 1 ELSE 0)
           /\ Uses(r, jb, x) \in Nat /\ Uses(r2, jb2, x) \in Nat
<1>1. jb[t].segs \in Seq(Nat) /\ jb[t].seg \in Nat
    BY JobType DEF Types
<1>2. /\ OwnTimes(jb[t], x) = Times(jb[t].segs, x) /\ OwnTimes(k, x) = Times(k.segs, x)
      /\ IsAppend(k.segs, jb[t].segs, jb[t].seg)
    BY DEF OwnTimes, Takes, IsAppend
<1>3. /\ Times(k.segs, x) = Times(jb[t].segs, x) + (IF jb[t].seg = x THEN 1 ELSE 0)
      /\ Times(jb[t].segs, x) \in Nat
    BY <1>1, <1>2, TimesAppended
<1>4. /\ Uses(r2, jb2, x) = Uses(r, jb, x) - OwnTimes(jb[t], x) + OwnTimes(k, x)
      /\ Uses(r, jb, x) \in Nat /\ Uses(r2, jb2, x) \in Nat
    BY UsesStep
<1>5. OwnTimes(k, x) = OwnTimes(jb[t], x) + (IF jb[t].seg = x THEN 1 ELSE 0) /\ OwnTimes(jb[t], x) \in Nat
    BY <1>2, <1>3
<1> QED  BY <1>4, <1>5

(* Other calls and a write whose capsule stays the same and whose segment  *)
(* at hand, if nobody else may know it, is not known.                      *)
LEMMA StayDistinct ==
    ASSUME NEW d, NEW r, NEW m, NEW jb, Inv(d, r, m, jb), NEW t \in Threads, jb[t].pc \in WritePcs,
           NEW k, NEW jb2, Becomes(jb, t, k, jb2), k.pc \in WritePcs \ {"increment"}, k.cap = jb[t].cap,
           k.pc \in FreshPcs => \A u \in Threads \ {t} :
               jb[u].pc \in FreshPcs \cup {"increment"} => jb[u].seg # k.seg
    PROVE  \A u \in Threads \ {t} : /\ jb[u].pc \in WritePcs \cup {"idle"}
                                    /\ Distinct(jb2, t, u) /\ Distinct(jb2, u, t)
<1> SUFFICES ASSUME NEW u \in Threads \ {t}
             PROVE  /\ jb[u].pc \in WritePcs \cup {"idle"}
                    /\ Distinct(jb2, t, u) /\ Distinct(jb2, u, t)
    OBVIOUS
<1>1. jb2[t] = k /\ jb2[u] = jb[u]
    BY DEF Becomes
<1>2. Distinct(jb, t, u) /\ Distinct(jb, u, t)
    BY DEF Inv
<1>3. jb[u].pc \in WritePcs \cup {"idle"}
    BY <1>2 DEF Distinct
<1>4. Distinct(jb2, t, u)
    BY <1>1, <1>2, <1>3 DEF Distinct
<1>5. Distinct(jb2, u, t)
    BY <1>1, <1>2 DEF Distinct, FreshPcs
<1> QED  BY <1>3, <1>4, <1>5

(* A write collects a segment: it has counted it, created it or put it     *)
(* into the content store.                                                 *)
LEMMA WriterTakes ==
    ASSUME IsFiniteSet(Threads), NEW d, NEW r, NEW m, NEW jb, Types(d, r, m, jb), Inv(d, r, m, jb),
           NEW t \in Threads, NEW k, k \in Jobs, NEW jb2, Becomes(jb, t, k, jb2), Takes(jb[t], k),
           NEW r2, r2 \in Registries, r2.capsules = r.capsules, r2.next_segment_id = r.next_segment_id,
           \A h \in DOMAIN r2.content_store : r2.content_store[h] = jb[t].seg \/
               (h \in DOMAIN r.content_store /\ r2.content_store[h] = r.content_store[h]),
           NEW m2, m2 \in Maps, Fits(d, r2, m2), DOMAIN m2 = DOMAIN m,
           \A id \in DOMAIN m : m2[id].data = m[id].data,
           \A id \in DOMAIN m \ {jb[t].seg} : m2[id].ref_count = m[id].ref_count,
           jb[t].seg \in DOMAIN m, m[jb[t].seg].data = Head(jb[t].todo),
           jb[t].seg < r.next_segment_id,
           m2[jb[t].seg].ref_count >= Uses(r, jb, jb[t].seg) + 1
    PROVE  Types(d, r2, m2, jb2) /\ Inv(d, r2, m2, jb2)
<1>1. jb2 \in JobsOf /\ jb2[t] = k /\ \A u \in Threads \ {t} : jb2[u] = jb[u]
    BY DEF Becomes
<1>2. /\ jb[t].pc \in {"increment", "update", "register"} /\ jb[t].pc \in WritePcs \ {"written"}
      /\ k.pc = "chunk" /\ k.cap = jb[t].cap /\ k.segs = Append(jb[t].segs, jb[t].seg)
    BY DEF Takes, WritePcs
<1>3. Types(d, r2, m2, jb2)
    BY <1>1 DEF Types
<1>4. Below(d, r) /\ Fits(d, r, m) /\ r.next_segment_id \in Nat
    BY RegistryType DEF Inv, Types
<1>5. Below(d, r2)
    BY <1>4 DEF Below
<1>6. \A x : /\ Uses(r2, jb2, x) = Uses(r, jb, x) + (IF jb[t].seg = x THEN 1 ELSE 0)
             /\ Uses(r, jb, x) \in Nat /\ Uses(r2, jb2, x) \in Nat
    BY <1>4, UsesTaken
<1>7. \A id \in DOMAIN m2 : m2[id].ref_count >= Uses(r2, jb2, id)
    <2> SUFFICES ASSUME NEW id \in DOMAIN m2
                 PROVE  m2[id].ref_count >= Uses(r2, jb2, id)
        OBVIOUS
    <2>1. CASE id = jb[t].seg
        <3>1. Uses(r2, jb2, id) = Uses(r, jb, id) + 1
            BY <1>6, <2>1
        <3> QED  BY <2>1, <3>1
    <2>2. CASE id # jb[t].seg
        <3>1. Uses(r2, jb2, id) = Uses(r, jb, id)
            BY <1>6, <2>2
        <3>2. m[id].ref_count >= Uses(r, jb, id) /\ m2[id].ref_count = m[id].ref_count
            BY <2>2 DEF Inv
        <3> QED  BY <3>1, <3>2
    <2> QED  BY <2>1, <2>2
<1>8. JobOK(d, r, m, jb, t) /\ jb[t] \in Jobs /\ Worker(d, r, m, jb[t])
    BY <1>2, JobType DEF Inv, Types, JobOK
<1>9. Grown(d, r, m, d, r2, m2)
    <2>1. Len(d) \in Nat
        BY LenProperties DEF Types
    <2> QED  BY <1>4, <2>1 DEF Grown
<1>10. Worker(d, r2, m2, jb[t]) /\ \A i \in DOMAIN jb[t].segs : jb[t].segs[i] < r2.next_segment_id
    <2>1. \A i \in DOMAIN jb[t].segs : jb[t].segs[i] < r.next_segment_id
        BY <1>8 DEF JobOK
    <2>2. jb[t].pc # "written" => jb[t].cap \notin DOMAIN r2.capsules
        BY <1>8 DEF Worker
    <2> QED  BY <1>8, <1>9, <2>1, <2>2, WorkerGrown DEF Types
<1>11. JobOK(d, r2, m2, jb2, t)
    <2>1. Worker(d, r2, m2, k)
        <3>1. d \in Seq(Seq(Contents)) /\ jb[t].seg \in DOMAIN m2 /\ m2[jb[t].seg].data = Head(jb[t].todo)
            BY DEF Types
        <3> QED  BY <1>8, <1>10, <3>1, NextWorker
    <2>2. \A i \in DOMAIN k.segs : k.segs[i] < r2.next_segment_id
        <3>1. jb[t].segs \in Seq(Nat) /\ jb[t].seg \in Nat
            BY JobType DEF Types
        <3>2. /\ Len(jb[t].segs) \in Nat /\ DOMAIN jb[t].segs = 1 .. Len(jb[t].segs)
            BY <3>1, LenProperties
        <3>3. /\ k.segs \in Seq(Nat) /\ Len(k.segs) = Len(jb[t].segs) + 1
              /\ \A i \in 1 .. Len(jb[t].segs) : k.segs[i] = jb[t].segs[i]
              /\ k.segs[Len(jb[t].segs) + 1] = jb[t].seg
            BY <1>2, <3>1, AppendProperties
        <3>4. DOMAIN k.segs = 1 .. (Len(jb[t].segs) + 1)
            BY <3>3, LenProperties
        <3> SUFFICES ASSUME NEW i \in DOMAIN k.segs
                     PROVE  k.segs[i] < r2.next_segment_id
            OBVIOUS
        <3>5. CASE i = Len(jb[t].segs) + 1
            BY <3>3, <3>5
        <3>6. CASE i \in 1 .. Len(jb[t].segs)
            BY <1>10, <3>2, <3>3, <3>6
        <3>7. i = Len(jb[t].segs) + 1 \/ i \in 1 .. Len(jb[t].segs)
            <4> DEFINE n == Len(jb[t].segs)
            <4>1. n \in Nat /\ i \in 1 .. (n + 1)
                BY <3>2, <3>4
            <4> HIDE DEF n
            <4>2. i = n + 1 \/ i \in 1 .. n
                BY <4>1
            <4> QED  BY <4>2 DEF n
        <3> QED  BY <3>5, <3>6, <3>7
    <2>3. Doomed(r2, jb2, k)
        BY <1>2 DEF Doomed
    <2>4. k.pc \notin FreshPcs
        BY <1>2 DEF FreshPcs
    <2> QED  BY <1>1, <2>1, <2>2, <2>3, <2>4 DEF JobOK
<1>12. \A u \in Threads \ {t} : /\ jb[u].pc \in WritePcs \cup {"idle"}
                                /\ Distinct(jb2, t, u) /\ Distinct(jb2, u, t)
    <2>1. k.pc \in WritePcs \ {"increment"} /\ k.pc \notin FreshPcs /\ jb[t].pc \in WritePcs
        BY <1>2 DEF FreshPcs, WritePcs
    <2> QED  BY <1>2, <2>1, StayDistinct
<1>13. \A u \in Threads \ {t} : jb[u].pc \in FreshPcs =>
           jb[u].seg # jb[t].seg /\ Uses(r2, jb2, jb[u].seg) = 0
    <2> SUFFICES ASSUME NEW u \in Threads \ {t}, jb[u].pc \in FreshPcs
                 PROVE  jb[u].seg # jb[t].seg /\ Uses(r2, jb2, jb[u].seg) = 0
        OBVIOUS
    <2>1. Distinct(jb, u, t)
        BY DEF Inv
    <2>2. jb[u].seg # jb[t].seg
        BY <1>2, <2>1 DEF Distinct, FreshPcs
    <2>3. Uses(r, jb, jb[u].seg) = 0
        BY FreshIs
    <2> QED  BY <1>6, <2>2, <2>3
<1>14. \A id \in DOMAIN m : id # jb[t].seg => m2[id].ref_count >= m[id].ref_count
    <2>1. \A id \in DOMAIN m : m[id].ref_count \in Nat
        BY SegmentType DEF Types
    <2> QED  BY <2>1
<1>15. OwnStep(d, r, m, jb, d, r2, m2, jb2, t)
    BY <1>1, <1>3, <1>5, <1>7, <1>11 DEF OwnStep
<1>16. WriteStep(d, r, m, jb, d, r2, m2, jb2, t, jb[t].seg)
    BY <1>9, <1>12, <1>13, <1>14, <1>15 DEF WriteStep
<1> QED  BY <1>16, WriterStep

(* A write creates a segment or fills in its metadata.                     *)
LEMMA WriterFresh ==
    ASSUME IsFiniteSet(Threads), NEW d, NEW r, NEW m, NEW jb, Types(d, r, m, jb), Inv(d, r, m, jb),
           NEW t \in Threads, jb[t].pc \in {"append", "update"},
           NEW k, k \in Jobs, NEW jb2, Becomes(jb, t, k, jb2), k.pc \in FreshPcs,
           k.segs = jb[t].segs, k.todo = jb[t].todo, k.cap = jb[t].cap,
           NEW r2, r2 \in Registries, r2.capsules = r.capsules, r2.content_store = r.content_store,
           r2.next_segment_id >= r.next_segment_id, k.seg < r2.next_segment_id,
           NEW m2, m2 \in Maps, Fits(d, r2, m2), NEW e, IsPut(m2, m, k.seg, e),
           e.data = Head(jb[t].todo), e.ref_count = 1,
           k.seg = r.next_segment_id \/ (k.seg = jb[t].seg /\ jb[t].pc = "update"),
           Uses(r, jb, k.seg) = 0
    PROVE  Types(d, r2, m2, jb2) /\ Inv(d, r2, m2, jb2)
<1>1. jb2 \in JobsOf /\ jb2[t] = k /\ \A u \in Threads \ {t} : jb2[u] = jb[u]
    BY DEF Becomes
<1>2. /\ jb[t].pc \in WritePcs \ {"written"} /\ k.pc \in WritePcs \ {"increment", "written", "create"}
      /\ k.pc \in {"update", "register"}
    BY DEF WritePcs, FreshPcs
<1>3. Types(d, r2, m2, jb2)
    BY <1>1 DEF Types
<1>4. Below(d, r) /\ Fits(d, r, m) /\ r.next_segment_id \in Nat /\ r2.next_segment_id \in Nat
    BY RegistryType DEF Inv, Types
<1>5. Below(d, r2)
    <2>1. \A c \in DOMAIN r.capsules : \A i \in DOMAIN r.capsules[c].segments :
              r.capsules[c].segments[i] \in Nat
        BY CapsuleType, RegistryType, ElementOfSeq DEF Types
    <2>2. \A h \in DOMAIN r.content_store : r.content_store[h] \in Nat
        BY StoreType, RegistryType DEF Types
    <2> QED  BY <1>4, <2>1, <2>2 DEF Below
<1>6. \A x : Uses(r2, jb2, x) = Uses(r, jb, x) /\ Uses(r, jb, x) \in Nat
    <2> TAKE x
    <2>1. /\ Uses(r2, jb2, x) = Uses(r, jb, x) - OwnTimes(jb[t], x) + OwnTimes(k, x)
          /\ Uses(r, jb, x) \in Nat /\ Uses(r2, jb2, x) \in Nat
          /\ OwnTimes(jb[t], x) \in Nat /\ OwnTimes(k, x) \in Nat
        BY <1>4, UsesStep
    <2>2. OwnTimes(k, x) = OwnTimes(jb[t], x)
        BY <1>2 DEF OwnTimes
    <2> QED  BY <2>1, <2>2
<1>7. \A id \in DOMAIN m2 : m2[id].ref_count >= Uses(r2, jb2, id)
    <2> SUFFICES ASSUME NEW id \in DOMAIN m2
                 PROVE  m2[id].ref_count >= Uses(r, jb, id)
        BY <1>6
    <2>1. CASE id = k.seg
        <3>1. m2[id].ref_count = 1 /\ Uses(r, jb, id) = 0
            BY <2>1 DEF IsPut
        <3> QED  BY <3>1
    <2>2. CASE id # k.seg
        <3>1. id \in DOMAIN m /\ m2[id] = m[id]
            BY <2>2 DEF IsPut
        <3> QED  BY <3>1 DEF Inv
    <2> QED  BY <2>1, <2>2
<1>8. JobOK(d, r, m, jb, t) /\ jb[t] \in Jobs /\ Worker(d, r, m, jb[t])
    BY <1>2, JobType DEF Inv, Types, JobOK
<1>9. k.seg \in Nat /\ jb[t].pc = "update" => Fresh(r, m, jb, jb[t])
    BY <1>8 DEF JobOK, FreshPcs, Jobs
<1>10. Grown(d, r, m, d, r2, m2)
    <2>1. Len(d) \in Nat
        BY LenProperties DEF Types
    <2>2. ASSUME NEW id \in DOMAIN m2, id < r.next_segment_id
          PROVE  id \in DOMAIN m /\ m2[id].data = m[id].data
        <3>1. CASE id # k.seg
            BY <3>1 DEF IsPut
        <3>2. CASE id = k.seg
            <4>1. k.seg = jb[t].seg /\ jb[t].pc = "update"
                BY <1>4, <2>2, <3>2
            <4>2. Fresh(r, m, jb, jb[t])
                BY <1>8, <4>1 DEF JobOK, FreshPcs
            <4> QED  BY <3>2, <4>1, <4>2 DEF Fresh, IsPut
        <3> QED  BY <3>1, <3>2
    <2>3. DOMAIN m \subseteq DOMAIN m2
        BY DEF IsPut
    <2> QED  BY <2>1, <2>2, <2>3 DEF Grown
<1>11. Worker(d, r2, m2, jb[t]) /\ \A i \in DOMAIN jb[t].segs : jb[t].segs[i] < r2.next_segment_id
    <2>1. \A i \in DOMAIN jb[t].segs : jb[t].segs[i] < r.next_segment_id
        BY <1>8 DEF JobOK
    <2>2. jb[t].pc # "written" => jb[t].cap \notin DOMAIN r2.capsules
        BY <1>8 DEF Worker
    <2> QED  BY <1>8, <1>10, <2>1, <2>2, WorkerGrown DEF Types
<1>12. \A h \in DOMAIN r.content_store : r.content_store[h] # k.seg
    <2>1. CASE k.seg = r.next_segment_id
        <3> SUFFICES ASSUME NEW h \in DOMAIN r.content_store
                     PROVE  r.content_store[h] # k.seg
            OBVIOUS
        <3>1. r.content_store[h] \in Nat /\ r.content_store[h] < r.next_segment_id
            BY <1>4, StoreType, RegistryType DEF Below, Types
        <3> QED  BY <1>4, <2>1, <3>1
    <2>2. CASE k.seg = jb[t].seg /\ jb[t].pc = "update"
        BY <1>8, <2>2 DEF JobOK, FreshPcs, Fresh
    <2> QED  BY <2>1, <2>2
<1>13. JobOK(d, r2, m2, jb2, t)
    <2>1. Worker(d, r2, m2, k)
        BY <1>2, <1>11 DEF Worker
    <2>2. Fresh(r2, m2, jb2, k)
        <3>1. k.seg \in DOMAIN m2 /\ m2[k.seg].data = Head(k.todo) /\ m2[k.seg].ref_count >= 1
            BY DEF IsPut
        <3>2. Uses(r2, jb2, k.seg) = 0
            BY <1>6
        <3> QED  BY <1>12, <3>1, <3>2 DEF Fresh
    <2>3. Doomed(r2, jb2, k)
        BY <1>2 DEF Doomed
    <2> QED  BY <1>1, <1>11, <2>1, <2>2, <2>3 DEF JobOK
<1>14. \A u \in Threads \ {t} : jb[u].pc \in FreshPcs \cup {"increment"} => jb[u].seg # k.seg
    <2> SUFFICES ASSUME NEW u \in Threads \ {t}, jb[u].pc \in FreshPcs \cup {"increment"}
                 PROVE  jb[u].seg # k.seg
        OBVIOUS
    <2>1. CASE k.seg = r.next_segment_id
        <3>1. CASE jb[u].pc \in FreshPcs
            BY <2>1, <3>1, FreshIs
        <3>2. CASE jb[u].pc = "increment"
            <4>1. jb[u].seg < r.next_segment_id
                BY <3>2 DEF Inv, JobOK, Worker, WritePcs
            <4>2. jb[u].seg \in Nat
                BY JobType DEF Types
            <4> QED  BY <1>4, <2>1, <4>1, <4>2
        <3> QED  BY <3>1, <3>2
    <2>2. CASE k.seg = jb[t].seg /\ jb[t].pc = "update"
        <3>1. Distinct(jb, t, u)
            BY DEF Inv
        <3> QED  BY <2>2, <3>1 DEF Distinct, FreshPcs
    <2> QED  BY <2>1, <2>2
<1>15. \A u \in Threads \ {t} : /\ jb[u].pc \in WritePcs \cup {"idle"}
                                /\ Distinct(jb2, t, u) /\ Distinct(jb2, u, t)
    BY <1>2, <1>14, StayDistinct
<1>16. \A u \in Threads \ {t} : jb[u].pc \in FreshPcs =>
           jb[u].seg # k.seg /\ Uses(r2, jb2, jb[u].seg) = 0
    BY <1>6, <1>14, FreshIs
<1>17. \A id \in DOMAIN m : id # k.seg => m2[id].ref_count >= m[id].ref_count
    <2>1. \A id \in DOMAIN m : m[id].ref_count \in Nat
        BY SegmentType DEF Types
    <2> QED  BY <2>1 DEF IsPut
<1>18. OwnStep(d, r, m, jb, d, r2, m2, jb2, t)
    BY <1>1, <1>3, <1>5, <1>7, <1>13 DEF OwnStep
<1>19. WriteStep(d, r, m, jb, d, r2, m2, jb2, t, k.seg)
    BY <1>10, <1>15, <1>16, <1>17, <1>18 DEF WriteStep
<1> QED  BY <1>19, WriterStep

(* The data of one more write.                                             *)
LEMMA MoreData ==
    ASSUME NEW d, d \in Seq(Seq(Contents)), NEW data, data \in Seq(Contents), NEW d2, d2 = Append(d, data)
    PROVE  /\ d2 \in Seq(Seq(Contents)) /\ Len(d) \in Nat /\ Len(d2) = Len(d) + 1 /\ d2[Len(d) + 1] = data
           /\ \A c \in 1 .. Len(d) : d2[c] = d[c] /\ c \in 1 .. Len(d2)
<1>1. /\ Append(d, data) \in Seq(Seq(Contents)) /\ Len(Append(d, data)) = Len(d) + 1
      /\ \A i \in 1 .. Len(d) : Append(d, data)[i] = d[i]
      /\ Append(d, data)[Len(d) + 1] = data
    BY AppendProperties
<1>2. Len(d) \in Nat
    BY LenProperties
<1>3. ASSUME NEW c \in 1 .. Len(d)
      PROVE  c \in 1 .. Len(d2)
    <2> DEFINE n == Len(d)
    <2>1. n \in Nat /\ c \in 1 .. n /\ Len(d2) = n + 1
        BY <1>1, <1>2
    <2> HIDE DEF n
    <2>2. c \in 1 .. (n + 1)
        BY <2>1
    <2> QED  BY <2>1, <2>2
<1> QED  BY <1>1, <1>2, <1>3

LEMMA FitsMoreData ==
    ASSUME NEW d, d \in Seq(Seq(Contents)), NEW data, data \in Seq(Contents), NEW d2, d2 = Append(d, data),
           NEW r, Below(d, r)
    PROVE  Below(d2, r) /\ \A m : Fits(d, r, m) => Fits(d2, r, m)
<1>1. \A c \in 1 .. Len(d) : d2[c] = d[c] /\ c \in 1 .. Len(d2)
    BY MoreData
<1>2. DOMAIN r.capsules \subseteq 1 .. Len(d)
    BY DEF Below
<1>3. Below(d2, r)
    BY <1>1, <1>2 DEF Below
<1>4. ASSUME NEW m, Fits(d, r, m)
      PROVE  Fits(d2, r, m)
    <2>1. \A c \in DOMAIN r.capsules : d2[c] = d[c]
        BY <1>1, <1>2
    <2>2. \A c \in DOMAIN r.capsules :
            /\ Len(r.capsules[c].segments) = Len(d2[c])
            /\ \A i \in 1 .. Len(d2[c]) :
                /\ r.capsules[c].segments[i] \in DOMAIN m
                /\ m[r.capsules[c].segments[i]].data = d2[c][i]
        <3> SUFFICES ASSUME NEW c \in DOMAIN r.capsules
                     PROVE  /\ Len(r.capsules[c].segments) = Len(d2[c])
                            /\ \A i \in 1 .. Len(d2[c]) :
                                /\ r.capsules[c].segments[i] \in DOMAIN m
                                /\ m[r.capsules[c].segments[i]].data = d2[c][i]
            OBVIOUS
        <3>1. d2[c] = d[c]
            BY <2>1
        <3>2. /\ Len(r.capsules[c].segments) = Len(d[c])
              /\ \A i \in 1 .. Len(d[c]) :
                  /\ r.capsules[c].segments[i] \in DOMAIN m
                  /\ m[r.capsules[c].segments[i]].data = d[c][i]
            BY <1>4 DEF Fits
        <3> QED  BY <3>1, <3>2
    <2>3. /\ \A id \in DOMAIN m : m[id].ref_count >= References(r.capsules, id)
          /\ \A h \in DOMAIN r.content_store :
              r.content_store[h] \in DOMAIN m => m[r.content_store[h]].data = h
        BY <1>4 DEF Fits
    <2> QED  BY <2>2, <2>3 DEF Fits
<1> QED  BY <1>3, <1>4

(* write_capsule_with_policy begins.                                       *)
LEMMA WriterStarts ==
    ASSUME IsFiniteSet(Threads), NEW d, NEW r, NEW m, NEW jb, Types(d, r, m, jb), Inv(d, r, m, jb),
           NEW t \in Threads, jb[t].pc = "idle", jb[t].segs = << >>,
           \A u \in Threads : jb[u].pc \in WritePcs \cup {"idle"},
           NEW data, data \in Seq(Contents), NEW d2, d2 = Append(d, data),
           NEW k, k \in Jobs, NEW jb2, Becomes(jb, t, k, jb2), k.pc = "chunk", k.segs = << >>,
           k.todo = data, k.cap = Len(d) + 1
    PROVE  Types(d2, r, m, jb2) /\ Inv(d2, r, m, jb2)
<1>1. jb2 \in JobsOf /\ jb2[t] = k /\ \A u \in Threads \ {t} : jb2[u] = jb[u]
    BY DEF Becomes
<1>2. d \in Seq(Seq(Contents)) /\ Below(d, r) /\ Fits(d, r, m) /\ r.next_segment_id \in Nat
    BY RegistryType DEF Inv, Types
<1>3. /\ d2 \in Seq(Seq(Contents)) /\ Len(d) \in Nat /\ Len(d2) = Len(d) + 1 /\ d2[Len(d) + 1] = data
      /\ \A c \in 1 .. Len(d) : d2[c] = d[c] /\ c \in 1 .. Len(d2)
    BY <1>2, MoreData
<1>4. Types(d2, r, m, jb2)
    BY <1>1, <1>3 DEF Types
<1>5. Below(d2, r) /\ Fits(d2, r, m)
    BY <1>2, FitsMoreData
<1>6. \A x : Uses(r, jb2, x) = Uses(r, jb, x) /\ Uses(r, jb, x) \in Nat
    <2> TAKE x
    <2>1. /\ Uses(r, jb2, x) = Uses(r, jb, x) - OwnTimes(jb[t], x) + OwnTimes(k, x)
          /\ Uses(r, jb, x) \in Nat /\ Uses(r, jb2, x) \in Nat
          /\ OwnTimes(jb[t], x) \in Nat /\ OwnTimes(k, x) \in Nat
        BY <1>2, UsesStep
    <2>2. OwnTimes(k, x) = OwnTimes(jb[t], x)
        BY DEF OwnTimes
    <2> QED  BY <2>1, <2>2
<1>7. \A id \in DOMAIN m : m[id].ref_count >= Uses(r, jb2, id)
    BY <1>6 DEF Inv
<1>8. Len(d) + 1 \notin 1 .. Len(d) /\ Len(d) + 1 \in 1 .. Len(d2)
    <2> DEFINE n == Len(d)
    <2>1. n \in Nat /\ Len(d2) = n + 1
        BY <1>3
    <2> HIDE DEF n
    <2>2. n + 1 \notin 1 .. n /\ n + 1 \in 1 .. (n + 1)
        BY <2>1
    <2> QED  BY <2>1, <2>2 DEF n
<1>9. Worker(d2, r, m, k)
    <2>1. k.cap \in 1 .. Len(d2) /\ k.cap \notin DOMAIN r.capsules /\ d2[k.cap] = k.todo
        BY <1>2, <1>3, <1>8 DEF Below
    <2>2. Len(k.segs) = 0 /\ Len(k.todo) \in Nat
        BY LenProperties
    <2>3. \A i \in 1 .. Len(k.segs) : FALSE
        BY <2>2
    <2>4. \A i \in 1 .. Len(k.todo) : Len(k.segs) + i = i
        BY <2>2
    <2>5. Len(k.segs) + Len(k.todo) = Len(d2[k.cap])
        BY <2>1, <2>2
    <2> QED  BY <2>1, <2>3, <2>4, <2>5 DEF Worker
<1>10. JobOK(d2, r, m, jb2, t)
    <2>1. Doomed(r, jb2, k)
        BY DEF Doomed
    <2>2. k.pc \notin FreshPcs /\ \A i \in DOMAIN k.segs : FALSE
        BY DEF FreshPcs
    <2> QED  BY <1>1, <1>9, <2>1, <2>2 DEF JobOK
<1>11. ASSUME NEW u \in Threads \ {t}
       PROVE  Distinct(jb2, t, u) /\ Distinct(jb2, u, t)
    <2>1. jb[u].pc \in WritePcs => jb[u].cap \in 1 .. Len(d)
        BY DEF Inv, JobOK, Worker
    <2>2. jb[u].pc \in WritePcs => jb[u].cap # k.cap
        BY <1>8, <2>1
    <2>3. jb2[t] = k /\ jb2[u] = jb[u] /\ k.pc \notin FreshPcs \cup {"increment"} /\ k.pc \in WritePcs
        BY <1>1 DEF FreshPcs, WritePcs
    <2> QED  BY <2>2, <2>3 DEF Distinct
<1>12. Grown(d, r, m, d2, r, m)
    <2>1. Len(d2) >= Len(d)
        BY <1>3
    <2> QED  BY <1>2, <1>3, <2>1 DEF Grown
<1>13. \A u \in Threads \ {t} : jb[u].pc \in FreshPcs =>
           jb[u].seg # r.next_segment_id /\ Uses(r, jb2, jb[u].seg) = 0
    BY <1>6, FreshIs
<1>14. \A id \in DOMAIN m : m[id].ref_count >= m[id].ref_count
    <2>1. \A id \in DOMAIN m : m[id].ref_count \in Nat
        BY SegmentType DEF Types
    <2> QED  BY <2>1
<1>15. OwnStep(d, r, m, jb, d2, r, m, jb2, t)
    BY <1>1, <1>4, <1>5, <1>7, <1>10 DEF OwnStep
<1>16. WriteStep(d, r, m, jb, d2, r, m, jb2, t, r.next_segment_id)
    BY <1>11, <1>12, <1>13, <1>14, <1>15 DEF WriteStep
<1> QED  BY <1>16, WriterStep

(* create_capsule_with_segments: the references a write holds become those *)
(* of its capsule.                                                         *)
LEMMA RefsCreated ==
    ASSUME NEW cs, cs \in Capsules, IsFiniteSet(DOMAIN cs), NEW c, c \in Nat, c \notin DOMAIN cs,
           NEW k, k \in Capsule, NEW cs2, cs2 = Put(cs, c, k), NEW x
    PROVE  /\ References(cs2, x) = References(cs, x) + Times(k.segments, x)
           /\ References(cs, x) \in Nat /\ Times(k.segments, x) \in Nat
BY RefsPut

LEMMA FitsCreated ==
    ASSUME NEW d, d \in Seq(Seq(Contents)), NEW r, r \in Registries, Below(d, r),
           NEW r2, NEW m, Fits(d, r, m), NEW j, j \in Jobs, Worker(d, r, m, j), j.pc = "create",
           NEW k, k \in Capsule, k.segments = j.segs, r2.capsules = Put(r.capsules, j.cap, k),
           r2.content_store = r.content_store, r2.next_segment_id = r.next_segment_id,
           \A i \in DOMAIN j.segs : j.segs[i] < r.next_segment_id,
           NEW f, Fits(d, r, f), f = m \/ j.segs = << >>,
           \A id \in DOMAIN f : f[id].ref_count >= References(r2.capsules, id)
    PROVE  Below(d, r2) /\ Fits(d, r2, f)
<1>1. IsPut(r2.capsules, r.capsules, j.cap, k)
    BY RegistryType, PutCapsule DEF Jobs
<1>2. DOMAIN r2.capsules = DOMAIN r.capsules \cup {j.cap} /\ r2.capsules[j.cap] = k
    BY <1>1 DEF IsPut
<1>3. \A c \in DOMAIN r2.capsules : c # j.cap => c \in DOMAIN r.capsules /\ r2.capsules[c] = r.capsules[c]
    BY <1>1 DEF IsPut
<1>4. j.cap \in 1 .. Len(d) /\ j.todo = << >>
    BY DEF Worker
<1>5. /\ Len(j.segs) = Len(d[j.cap])
      /\ \A i \in 1 .. Len(d[j.cap]) : j.segs[i] \in DOMAIN f /\ f[j.segs[i]].data = d[j.cap][i]
    <2>1. Len(j.segs) \in Nat /\ Len(j.todo) = 0
        BY <1>4, LenProperties DEF Jobs
    <2>2. Len(j.segs) + Len(j.todo) = Len(d[j.cap])
        BY DEF Worker
    <2>3. Len(j.segs) = Len(d[j.cap])
        BY <2>1, <2>2
    <2>4. j.segs = << >> => \A i \in 1 .. Len(d[j.cap]) : FALSE
        BY <2>3
    <2> QED  BY <2>3, <2>4 DEF Worker
<1>6. Below(d, r2)
    <2>1. \A c \in DOMAIN r2.capsules : \A i \in DOMAIN r2.capsules[c].segments :
            r2.capsules[c].segments[i] < r2.next_segment_id
        BY <1>2, <1>3 DEF Below
    <2> QED  BY <1>2, <1>4, <2>1 DEF Below
<1>7. \A c \in DOMAIN r2.capsules :
        /\ Len(r2.capsules[c].segments) = Len(d[c])
        /\ \A i \in 1 .. Len(d[c]) :
            /\ r2.capsules[c].segments[i] \in DOMAIN f
            /\ f[r2.capsules[c].segments[i]].data = d[c][i]
    <2> SUFFICES ASSUME NEW c \in DOMAIN r2.capsules
                 PROVE  /\ Len(r2.capsules[c].segments) = Len(d[c])
                        /\ \A i \in 1 .. Len(d[c]) :
                            /\ r2.capsules[c].segments[i] \in DOMAIN f
                            /\ f[r2.capsules[c].segments[i]].data = d[c][i]
        OBVIOUS
    <2>1. CASE c = j.cap
        <3>1. r2.capsules[c].segments = j.segs
            BY <1>2, <2>1
        <3> QED  BY <1>5, <2>1, <3>1
    <2>2. CASE c # j.cap
        <3>1. c \in DOMAIN r.capsules /\ r2.capsules[c] = r.capsules[c]
            BY <1>3, <2>2
        <3> QED  BY <3>1 DEF Fits
    <2> QED  BY <2>1, <2>2
<1>8. \A h \in DOMAIN r2.content_store :
        r2.content_store[h] \in DOMAIN f => f[r2.content_store[h]].data = h
    BY DEF Fits
<1> QED  BY <1>6, <1>7, <1>8 DEF Fits

LEMMA WriterCreates ==
    ASSUME IsFiniteSet(Threads), NEW d, NEW r, NEW m, NEW jb, Types(d, r, m, jb), Inv(d, r, m, jb),
           NEW t \in Threads, jb[t].pc = "create",
           NEW k, k \in Jobs, NEW jb2, Becomes(jb, t, k, jb2), k.pc = "written",
           k.segs = jb[t].segs, k.todo = jb[t].todo, k.cap = jb[t].cap,
           NEW cp, cp \in Capsule, cp.segments = jb[t].segs,
           NEW r2, r2 \in Registries, r2.capsules = Put(r.capsules, jb[t].cap, cp),
           r2.content_store = r.content_store, r2.next_segment_id = r.next_segment_id
    PROVE  Types(d, r2, m, jb2) /\ Inv(d, r2, m, jb2)
<1>1. jb2 \in JobsOf /\ jb2[t] = k /\ \A u \in Threads \ {t} : jb2[u] = jb[u]
    BY DEF Becomes
<1>2. Types(d, r2, m, jb2)
    BY <1>1 DEF Types
<1>3. /\ d \in Seq(Seq(Contents)) /\ r \in Registries /\ Below(d, r) /\ Fits(d, r, m) /\ m \in Maps
      /\ r.next_segment_id \in Nat
    BY RegistryType DEF Inv, Types
<1>4. JobOK(d, r, m, jb, t) /\ jb[t] \in Jobs /\ Worker(d, r, m, jb[t]) /\ jb[t].cap \in Nat
    BY JobType DEF Inv, Types, JobOK, WritePcs
<1>5. jb[t].cap \notin DOMAIN r.capsules /\ \A i \in DOMAIN jb[t].segs : jb[t].segs[i] < r.next_segment_id
    BY <1>4 DEF Worker, JobOK
<1>6. \A x : Uses(r2, jb2, x) = Uses(r, jb, x) /\ Uses(r, jb, x) \in Nat
             /\ References(r2.capsules, x) \in Nat /\ References(r2.capsules, x) <= Uses(r, jb, x)
    <2> TAKE x
    <2>1. /\ References(r2.capsules, x) = References(r.capsules, x) + Times(cp.segments, x)
          /\ References(r.capsules, x) \in Nat /\ Times(cp.segments, x) \in Nat
        <3>1. r.capsules \in Capsules /\ IsFiniteSet(DOMAIN r.capsules)
            BY <1>3, RegistryType, FiniteCapsules
        <3> QED  BY <1>4, <1>5, <3>1, RefsCreated
    <2>2. /\ Holds(jb2, x) - OwnTimes(k, x) = Holds(jb, x) - OwnTimes(jb[t], x)
          /\ Holds(jb2, x) \in Nat /\ Holds(jb, x) \in Nat
          /\ OwnTimes(k, x) \in Nat /\ OwnTimes(jb[t], x) \in Nat
        BY HoldsStep DEF Types
    <2>3. OwnTimes(k, x) = 0 /\ OwnTimes(jb[t], x) = Times(cp.segments, x)
        BY DEF OwnTimes
    <2> QED  BY <2>1, <2>2, <2>3 DEF Uses
<1>7. \A id \in DOMAIN m : m[id].ref_count >= Uses(r2, jb2, id)
    BY <1>6 DEF Inv
<1>8. \A id \in DOMAIN m : m[id].ref_count >= References(r2.capsules, id)
    <2> SUFFICES ASSUME NEW id \in DOMAIN m
                 PROVE  m[id].ref_count >= References(r2.capsules, id)
        OBVIOUS
    <2>1. m[id].ref_count >= Uses(r, jb, id) /\ m[id].ref_count \in Nat
        BY <1>3, SegmentType DEF Inv
    <2> QED  BY <1>6, <2>1
<1>9. Below(d, r2) /\ Fits(d, r2, m)
    BY <1>3, <1>4, <1>5, <1>8, FitsCreated
<1>10. JobOK(d, r2, m, jb2, t)
    <2>1. Worker(d, r2, m, k)
        BY <1>4 DEF Worker
    <2>2. Doomed(r2, jb2, k)
        BY DEF Doomed
    <2>3. k.pc \notin FreshPcs
        BY DEF FreshPcs
    <2> QED  BY <1>1, <1>5, <2>1, <2>2, <2>3 DEF JobOK
<1>11. \A u \in Threads \ {t} : /\ jb[u].pc \in WritePcs \cup {"idle"}
                                /\ Distinct(jb2, t, u) /\ Distinct(jb2, u, t)
    <2>1. k.pc \in WritePcs \ {"increment"} /\ k.pc \notin FreshPcs /\ jb[t].pc \in WritePcs
        BY DEF FreshPcs, WritePcs
    <2> QED  BY <2>1, StayDistinct
<1>12. \A u \in Threads \ {t} : jb[u].pc \in WritePcs \ {"written"} =>
           (jb[u].cap \in DOMAIN r2.capsules => jb[u].cap \in DOMAIN r.capsules)
    <2>1. IsPut(r2.capsules, r.capsules, jb[t].cap, cp)
        BY <1>3, <1>4, RegistryType, PutCapsule
    <2>2. DOMAIN r2.capsules = DOMAIN r.capsules \cup {jb[t].cap}
        BY <2>1 DEF IsPut
    <2>3. \A u \in Threads \ {t} : jb[u].pc \in WritePcs => jb[u].cap # jb[t].cap
        BY DEF Inv, Distinct, WritePcs
    <2> QED  BY <2>2, <2>3
<1>13. Grown(d, r, m, d, r2, m)
    <2>1. Len(d) \in Nat
        BY <1>3, LenProperties
    <2> QED  BY <1>3, <2>1 DEF Grown
<1>14. \A u \in Threads \ {t} : jb[u].pc \in FreshPcs =>
           jb[u].seg # r.next_segment_id /\ Uses(r2, jb2, jb[u].seg) = 0
    BY <1>6, FreshIs
<1>15. \A id \in DOMAIN m : m[id].ref_count >= m[id].ref_count
    <2>1. \A id \in DOMAIN m : m[id].ref_count \in Nat
        BY SegmentType DEF Types
    <2> QED  BY <2>1
<1>16. OwnStep(d, r, m, jb, d, r2, m, jb2, t)
    BY <1>1, <1>2, <1>7, <1>9, <1>10 DEF OwnStep
<1>17. WriteStep(d, r, m, jb, d, r2, m, jb2, t, r.next_segment_id)
    BY <1>11, <1>12, <1>13, <1>14, <1>15, <1>16 DEF WriteStep
<1> QED  BY <1>17, WriterStep

-----------------------------------------------------------------------------
(* Steps of a delete or a sweep, in the memory.                            *)

(* Segments nobody uses, and hashes, may go.                               *)
LEMMA ReclaimQuiet ==
    ASSUME IsFiniteSet(Threads), NEW d, NEW r, NEW m, NEW jb, Types(d, r, m, jb), Inv(d, r, m, jb),
           NEW t \in Threads, \A u \in Threads : jb[u].pc \notin WritePcs,
           NEW k, k \in Jobs, NEW jb2, Becomes(jb, t, k, jb2), k.pc \notin WritePcs,
           k.segs = jb[t].segs \/ k.segs = << >>, Doomed(r, jb, k),
           NEW r2, r2 \in Registries, r2.capsules = r.capsules, r2.next_segment_id = r.next_segment_id,
           \A h \in DOMAIN r2.content_store :
               h \in DOMAIN r.content_store /\ r2.content_store[h] = r.content_store[h],
           NEW m2, m2 \in Maps, Fits(d, r, m2),
           \A id \in DOMAIN m2 : id \in DOMAIN m /\ m2[id].ref_count = m[id].ref_count
    PROVE  Types(d, r2, m2, jb2) /\ Inv(d, r2, m2, jb2)
<1>1. jb2 \in JobsOf /\ jb2[t] = k /\ \A u \in Threads \ {t} : jb2[u] = jb[u]
    BY DEF Becomes
<1>2. Types(d, r2, m2, jb2)
    BY <1>1 DEF Types
<1>3. Below(d, r) /\ r.next_segment_id \in Nat
    BY RegistryType DEF Inv, Types
<1>4. Below(d, r2) /\ Fits(d, r2, m2)
    BY <1>3 DEF Below, Fits
<1>5. k.pc # "written" /\ jb[t].pc # "written"
    BY DEF WritePcs
<1>6. \A id : NoMore(r, jb, r2, jb2, id)
    <2> TAKE id
    <2>1. /\ Uses(r2, jb2, id) = Uses(r, jb, id) - OwnTimes(jb[t], id) + OwnTimes(k, id)
          /\ Uses(r, jb, id) \in Nat /\ Uses(r2, jb2, id) \in Nat
          /\ OwnTimes(jb[t], id) \in Nat /\ OwnTimes(k, id) \in Nat
        BY <1>3, UsesStep
    <2>2. OwnTimes(k, id) = OwnTimes(jb[t], id) \/ OwnTimes(k, id) = 0
        BY <1>5, TimesEmpty DEF OwnTimes
    <2> QED  BY <2>1, <2>2 DEF NoMore
<1>7. \A id : Uses(r, jb, id) = 0 => Uses(r2, jb2, id) = 0
    BY <1>6 DEF NoMore
<1>8. \A id \in DOMAIN m2 : m2[id].ref_count >= Uses(r2, jb2, id)
    BY <1>6, StillCovered
<1>9. JobOK(d, r2, m2, jb2, t)
    <2>1. Doomed(r2, jb2, k)
        BY <1>7 DEF Doomed
    <2>2. \A i \in DOMAIN k.segs : k.segs[i] < r2.next_segment_id
        <3>1. \A i \in DOMAIN jb[t].segs : jb[t].segs[i] < r.next_segment_id
            BY DEF Inv, JobOK
        <3> QED  BY <3>1
    <2>3. k.pc \notin FreshPcs
        BY DEF FreshPcs, WritePcs
    <2> QED  BY <1>1, <2>1, <2>2, <2>3 DEF JobOK
<1>10. OwnStep(d, r, m, jb, d, r2, m2, jb2, t)
    BY <1>1, <1>2, <1>4, <1>8, <1>9 DEF OwnStep
<1>11. ReduceStep(d, r, m, jb, r2, m2, jb2, t)
    BY <1>1, <1>3, <1>7, <1>10 DEF ReduceStep
<1> QED  BY <1>11, ReclaimStep

(* delete_capsule takes over the references of the capsule.                *)
LEMMA FitsDeleted ==
    ASSUME NEW d, d \in Seq(Seq(Contents)), NEW r, r \in Registries, Below(d, r), NEW c, c \in DOMAIN r.capsules,
           NEW r2, r2.capsules = Drop(r.capsules, c), r2.content_store = r.content_store,
           r2.next_segment_id = r.next_segment_id
    PROVE  Below(d, r2) /\ \A m \in Maps : Fits(d, r, m) => Fits(d, r2, m)
<1>1. r.capsules \in Capsules /\ IsFiniteSet(DOMAIN r.capsules)
    BY RegistryType, FiniteCapsules
<1>2. IsDrop(r2.capsules, r.capsules, c)
    BY <1>1, DropCapsule
<1>3. \A x \in DOMAIN r2.capsules : x \in DOMAIN r.capsules /\ r2.capsules[x] = r.capsules[x]
    BY <1>2 DEF IsDrop
<1>4. Below(d, r2)
    BY <1>3 DEF Below
<1>5. ASSUME NEW m \in Maps, Fits(d, r, m)
      PROVE  Fits(d, r2, m)
    <2>1. \A id \in DOMAIN m : m[id].ref_count >= References(r2.capsules, id)
        <3> SUFFICES ASSUME NEW id \in DOMAIN m
                     PROVE  m[id].ref_count >= References(r2.capsules, id)
            OBVIOUS
        <3>1. /\ References(r.capsules, id) = References(r2.capsules, id) + Times(r.capsules[c].segments, id)
              /\ References(r2.capsules, id) \in Nat /\ Times(r.capsules[c].segments, id) \in Nat
            BY <1>1, RefsDrop
        <3>2. m[id].ref_count >= References(r.capsules, id) /\ m[id].ref_count \in Nat
            BY <1>5, SegmentType DEF Fits
        <3> QED  BY <3>1, <3>2
    <2> QED  BY <1>3, <1>5, <2>1 DEF Fits
<1> QED  BY <1>4, <1>5

LEMMA ReclaimDeletes ==
    ASSUME IsFiniteSet(Threads), NEW d, NEW r, NEW m, NEW jb, Types(d, r, m, jb), Inv(d, r, m, jb),
           NEW t \in Threads, \A u \in Threads : jb[u].pc \notin WritePcs, jb[t].segs = << >>,
           NEW c, c \in DOMAIN r.capsules,
           NEW k, k \in Jobs, NEW jb2, Becomes(jb, t, k, jb2), k.pc = "decrement",
           k.segs = r.capsules[c].segments,
           NEW r2, r2 \in Registries, r2.capsules = Drop(r.capsules, c),
           r2.content_store = r.content_store, r2.next_segment_id = r.next_segment_id
    PROVE  Types(d, r2, m, jb2) /\ Inv(d, r2, m, jb2)
<1>1. jb2 \in JobsOf /\ jb2[t] = k /\ \A u \in Threads \ {t} : jb2[u] = jb[u]
    BY DEF Becomes
<1>2. Types(d, r2, m, jb2)
    BY <1>1 DEF Types
<1>3. /\ d \in Seq(Seq(Contents)) /\ r \in Registries /\ m \in Maps /\ Below(d, r) /\ Fits(d, r, m)
      /\ r.next_segment_id \in Nat
    BY RegistryType DEF Inv, Types
<1>4. Below(d, r2) /\ Fits(d, r2, m)
    BY <1>3, FitsDeleted
<1>5. \A x : Uses(r2, jb2, x) = Uses(r, jb, x)
    <2> TAKE x
    <2>1. /\ References(r.capsules, x) = References(r2.capsules, x) + Times(r.capsules[c].segments, x)
          /\ References(r2.capsules, x) \in Nat /\ Times(r.capsules[c].segments, x) \in Nat
        BY <1>3, RegistryType, FiniteCapsules, RefsDrop
    <2>2. /\ Holds(jb2, x) - OwnTimes(k, x) = Holds(jb, x) - OwnTimes(jb[t], x)
          /\ Holds(jb2, x) \in Nat /\ Holds(jb, x) \in Nat
          /\ OwnTimes(k, x) \in Nat /\ OwnTimes(jb[t], x) \in Nat
        BY HoldsStep DEF Types
    <2>3. OwnTimes(k, x) = Times(r.capsules[c].segments, x) /\ OwnTimes(jb[t], x) = 0
        BY TimesEmpty DEF OwnTimes
    <2> QED  BY <2>1, <2>2, <2>3 DEF Uses
<1>6. \A id \in DOMAIN m : m[id].ref_count >= Uses(r2, jb2, id)
    BY <1>5 DEF Inv
<1>7. JobOK(d, r2, m, jb2, t)
    <2>1. Doomed(r2, jb2, k) /\ k.pc \notin FreshPcs /\ k.pc \notin WritePcs
        BY DEF Doomed, FreshPcs, WritePcs
    <2>2. \A i \in DOMAIN k.segs : k.segs[i] < r2.next_segment_id
        BY <1>3 DEF Below
    <2> QED  BY <1>1, <2>1, <2>2 DEF JobOK
<1>8. OwnStep(d, r, m, jb, d, r2, m, jb2, t)
    BY <1>1, <1>2, <1>4, <1>6, <1>7 DEF OwnStep
<1>9. ReduceStep(d, r, m, jb, r2, m, jb2, t)
    <2>1. k.pc \notin WritePcs
        BY DEF WritePcs
    <2> QED  BY <1>1, <1>3, <1>5, <1>8, <2>1 DEF ReduceStep
<1> QED  BY <1>9, ReclaimStep

(* decrement_refcount gives up one reference of the delete.                *)
LEMMA ReclaimDecrements ==
    ASSUME IsFiniteSet(Threads), NEW d, NEW r, NEW m, NEW jb, Types(d, r, m, jb), Inv(d, r, m, jb),
           NEW t \in Threads, \A u \in Threads : jb[u].pc \notin WritePcs,
           NEW k, k \in Jobs, NEW jb2, Becomes(jb, t, k, jb2), IsHeadTail(jb[t].segs, k.seg, k.segs),
           k.pc \in {"decrement", "deregister", "remove"},
           k.seg \in DOMAIN m, m[k.seg].ref_count > 0,
           NEW m2, m2 \in Maps, NEW n, n = m[k.seg].ref_count - 1, IsCounted(m2, m, k.seg, n),
           k.pc # "decrement" => n = 0
    PROVE  Types(d, r, m2, jb2) /\ Inv(d, r, m2, jb2)
<1>1. jb2 \in JobsOf /\ jb2[t] = k /\ \A u \in Threads \ {t} : jb2[u] = jb[u]
    BY DEF Becomes
<1>2. Types(d, r, m2, jb2)
    BY <1>1 DEF Types
<1>3. /\ d \in Seq(Seq(Contents)) /\ r \in Registries /\ m \in Maps /\ Below(d, r) /\ Fits(d, r, m)
      /\ r.next_segment_id \in Nat
    BY RegistryType DEF Inv, Types
<1>4. k.pc # "written" /\ jb[t].pc # "written" /\ k.pc \notin WritePcs /\ k.pc \notin FreshPcs
    BY DEF WritePcs, FreshPcs
<1>5. \A x : /\ Uses(r, jb, x) = Uses(r, jb2, x) + (IF k.seg = x THEN 1 ELSE 0)
             /\ Uses(r, jb, x) \in Nat /\ Uses(r, jb2, x) \in Nat
    <2> TAKE x
    <2>1. /\ Uses(r, jb2, x) = Uses(r, jb, x) - OwnTimes(jb[t], x) + OwnTimes(k, x)
          /\ Uses(r, jb, x) \in Nat /\ Uses(r, jb2, x) \in Nat
          /\ OwnTimes(jb[t], x) \in Nat /\ OwnTimes(k, x) \in Nat
        BY <1>3, UsesStep
    <2>2. jb[t].segs \in Seq(Nat)
        BY JobType DEF Types
    <2>3. Times(jb[t].segs, x) = Times(k.segs, x) + (IF k.seg = x THEN 1 ELSE 0)
        BY <2>2, TimesTailed
    <2>4. OwnTimes(jb[t], x) = OwnTimes(k, x) + (IF k.seg = x THEN 1 ELSE 0)
        BY <1>4, <2>3 DEF OwnTimes
    <2> QED  BY <2>1, <2>4
<1>6. DOMAIN m2 = DOMAIN m /\ m2[k.seg].ref_count = n /\ \A x \in DOMAIN m : x # k.seg => m2[x] = m[x]
    BY DEF IsCounted
<1>7. m[k.seg].ref_count \in Nat /\ m[k.seg].ref_count >= Uses(r, jb, k.seg)
    BY <1>3, SegmentType DEF Inv
<1>8. n \in Nat /\ n >= Uses(r, jb2, k.seg)
    <2>1. Uses(r, jb, k.seg) = Uses(r, jb2, k.seg) + 1 /\ Uses(r, jb2, k.seg) \in Nat
        BY <1>5
    <2> QED  BY <1>7, <2>1
<1>9. \A id \in DOMAIN m2 : m2[id].ref_count >= Uses(r, jb2, id)
    <2> SUFFICES ASSUME NEW id \in DOMAIN m2
                 PROVE  m2[id].ref_count >= Uses(r, jb2, id)
        OBVIOUS
    <2>1. CASE id = k.seg
        BY <1>6, <1>8, <2>1
    <2>2. CASE id # k.seg
        <3>1. m[id].ref_count >= Uses(r, jb, id) /\ m2[id] = m[id]
            BY <1>6, <2>2 DEF Inv
        <3>2. Uses(r, jb2, id) = Uses(r, jb, id)
            BY <1>5, <2>2
        <3> QED  BY <3>1, <3>2
    <2> QED  BY <2>1, <2>2
<1>10. Fits(d, r, m2)
    <2>1. /\ Uses(r, jb2, k.seg) = References(r.capsules, k.seg) + Holds(jb2, k.seg)
          /\ References(r.capsules, k.seg) \in Nat /\ Holds(jb2, k.seg) \in Nat
        BY <1>2, <1>3, UsesType
    <2>2. n >= References(r.capsules, k.seg)
        BY <1>8, <2>1
    <2> QED  BY <1>3, <2>2, FitsCounted
<1>11. JobOK(d, r, m2, jb2, t)
    <2>1. Doomed(r, jb2, k)
        <3>1. k.pc # "decrement" => Uses(r, jb2, k.seg) = 0
            BY <1>5, <1>8
        <3> QED  BY <3>1 DEF Doomed
    <2>2. \A i \in DOMAIN k.segs : k.segs[i] < r.next_segment_id
        <3>1. /\ jb[t].segs \in Seq(Nat) /\ jb[t].segs # << >> /\ k.segs = Tail(jb[t].segs)
              /\ DOMAIN jb[t].segs = 1 .. Len(jb[t].segs) /\ Len(jb[t].segs) \in Nat
            BY JobType DEF Types, IsHeadTail
        <3>2. /\ k.segs \in Seq(Nat) /\ Len(k.segs) = Len(jb[t].segs) - 1
              /\ \A i \in 1 .. Len(k.segs) : k.segs[i] = jb[t].segs[i + 1]
            BY <3>1, HeadTailProperties
        <3>3. DOMAIN k.segs = 1 .. Len(k.segs)
            BY <3>2, LenProperties
        <3> SUFFICES ASSUME NEW i, i \in DOMAIN k.segs
                     PROVE  k.segs[i] < r.next_segment_id
            OBVIOUS
        <3>4. i + 1 \in 1 .. Len(jb[t].segs)
            <4> DEFINE l == Len(jb[t].segs)
            <4>1. l \in Nat /\ Len(k.segs) = l - 1 /\ i \in 1 .. Len(k.segs)
                BY <3>1, <3>2, <3>3
            <4>2. i \in 1 .. (l - 1)
                BY <4>1
            <4> HIDE DEF l
            <4>3. i + 1 \in 1 .. l
                BY <4>1, <4>2
            <4> QED  BY <4>3 DEF l
        <3>5. jb[t].segs[i + 1] < r.next_segment_id
            BY <3>1, <3>4 DEF Inv, JobOK
        <3> QED  BY <3>2, <3>3, <3>5
    <2> QED  BY <1>1, <1>4, <2>1, <2>2 DEF JobOK
<1>12. OwnStep(d, r, m, jb, d, r, m2, jb2, t)
    BY <1>1, <1>2, <1>3, <1>9, <1>10, <1>11 DEF OwnStep
<1>13. \A id : Uses(r, jb, id) = 0 => Uses(r, jb2, id) = 0
    BY <1>5
<1>14. ReduceStep(d, r, m, jb, r, m2, jb2, t)
    BY <1>1, <1>3, <1>4, <1>12, <1>13 DEF ReduceStep
<1> QED  BY <1>14, ReclaimStep

(* Calls that hold nothing and are about to do nothing.                    *)
LEMMA InvCalm ==
    ASSUME NEW d, NEW r, NEW m, NEW jb, Types(d, r, m, jb), Below(d, r), Fits(d, r, m),
           \A t \in Threads : jb[t].pc \in {"idle", "reconcile"} /\ jb[t].segs = << >>
    PROVE  Inv(d, r, m, jb)
<1>1. \A t \in Threads : jb[t].pc \notin WritePcs /\ jb[t].pc \notin FreshPcs /\ Doomed(r, jb, jb[t])
    BY DEF WritePcs, FreshPcs, Doomed
<1>2. \A t \in Threads : JobOK(d, r, m, jb, t)
    BY <1>1 DEF JobOK
<1>3. \A t, u \in Threads : Distinct(jb, t, u)
    BY <1>1 DEF Distinct
<1>4. \A id \in DOMAIN m : m[id].ref_count >= Uses(r, jb, id)
    <2> SUFFICES ASSUME NEW id \in DOMAIN m
                 PROVE  m[id].ref_count >= Uses(r, jb, id)
        OBVIOUS
    <2>1. Holds(jb, id) = 0
        BY HoldsNone DEF Types
    <2>2. References(r.capsules, id) \in Nat
        BY RegistryType, FiniteCapsules, RefsFinite DEF Types
    <2>3. Uses(r, jb, id) = References(r.capsules, id)
        BY <2>1, <2>2 DEF Uses
    <2> QED  BY <2>3 DEF Fits
<1> QED  BY <1>2, <1>3, <1>4 DEF Inv

-----------------------------------------------------------------------------
(* The files, for calls that run one at a time.                            *)

(* Memory and files fit together in all four combinations, so that any of  *)
(* the two may be saved, and any of them lost in a crash.                  *)
Saved(d, r, m, rf, mf) ==
    /\ Below(d, rf) /\ Fits(d, rf, mf) /\ Fits(d, r, mf) /\ Fits(d, rf, m)
    /\ rf.next_segment_id <= r.next_segment_id

(* How far the files may be behind during call j, which owes the save s.   *)
Settled(j, s, sn, r, m, rf, mf) ==
    /\ s = "clone" => sn = r
    /\ j.pc \in {"decrement", "deregister", "remove"} /\ s \in {"no", "log"} => rf.capsules = r.capsules
    /\ j.pc = "reconcile" => rf.capsules = r.capsules
    /\ j.pc \in {"reclaim", "update", "register"} => References(rf.capsules, j.seg) = 0
    /\ j.pc \in {"sweep", "reclaim"} => \A v \in j.victims : References(rf.capsules, v.id) = 0
    /\ j.pc \in WritePcs /\ s # "log" /\ (j.segs # << >> \/ j.pc \in FreshPcs) => mf = m
    /\ j.pc = "written" => /\ j.cap \in DOMAIN r.capsules
                           /\ s \in {"no", "log"} => j.cap \in DOMAIN rf.capsules

Saves == {"no", "log", "registry", "clone"}

FilesOK ==
    /\ registry_file \in Registries /\ segments_file \in Maps
    /\ snap \in [Threads -> Registries] /\ saving \in [Threads -> Saves]
    /\ mode \in {"up", "down", "recover", "recovered"}

Calls ==
    /\ usage.calls \in {"serial", "apart"}
    /\ usage.calls = "apart" => crashes = 0 /\ mode = "up"
    /\ usage.calls = "serial" => \A t, u \in Threads : t = u \/ job[t].pc = "idle" \/ job[u].pc = "idle"
    /\ \A t \in Threads : job[t].pc = "idle" => saving[t] = "no" /\ job[t].segs = << >>
    /\ mode = "down" => \A t \in Threads : job[t].pc = "idle"
    /\ \A t \in Threads : job[t].pc = "reconcile" => usage.calls = "serial" /\ job[t].segs = << >>

Disk ==
    usage.calls = "serial" =>
        /\ Below(data_of, registry_file) /\ Fits(data_of, registry_file, segments_file)
        /\ DOMAIN acked \subseteq DOMAIN registry_file.capsules
        /\ mode # "down" => /\ Saved(data_of, registry, segment_map, registry_file, segments_file)
                            /\ DOMAIN acked \subseteq DOMAIN registry.capsules
        /\ \A t \in Threads : Settled(job[t], saving[t], snap[t], registry, segment_map,
                                      registry_file, segments_file)

IndInv ==
    /\ Types(data_of, registry, segment_map, job) /\ Inv(data_of, registry, segment_map, job)
    /\ FilesOK /\ Calls /\ Disk

(* A step of call t which is no crash: what it does to the others.         *)
Act(t) ==
    /\ Becomes(job, t, job'[t], job')
    /\ saving' \in [Threads -> Saves] /\ \A u \in Threads \ {t} : saving'[u] = saving[u]
    /\ snap' \in [Threads -> Registries] /\ \A u \in Threads \ {t} : snap'[u] = snap[u]
    /\ usage' = usage /\ crashes' = crashes
    /\ mode' \in {"up", "recover", "recovered"} /\ (usage.calls # "serial" => mode' = "up")
    /\ usage.calls = "serial" => \A u \in Threads \ {t} : job[u].pc = "idle"
    /\ job'[t].pc = "idle" => saving'[t] = "no" /\ job'[t].segs = << >>
    /\ job'[t].pc = "reconcile" => usage.calls = "serial" /\ job'[t].segs = << >>

(* What a step of call t has to leave on disk.                             *)
Keeps(t) ==
    /\ Saved(data_of, registry, segment_map, registry_file, segments_file)'
    /\ (DOMAIN acked \subseteq DOMAIN registry.capsules)'
    /\ (DOMAIN acked \subseteq DOMAIN registry_file.capsules)'
    /\ Settled(job'[t], saving'[t], snap'[t], registry', segment_map', registry_file', segments_file')

LEMMA StepIs ==
    ASSUME IndInv, NEW t \in Threads, Act(t),
           Types(data_of', registry', segment_map', job') /\ Inv(data_of', registry', segment_map', job'),
           registry_file' \in Registries, segments_file' \in Maps, usage.calls = "serial" => Keeps(t)
    PROVE  IndInv'
<1>1. \A u \in Threads \ {t} : job'[u] = job[u] /\ saving'[u] = saving[u]
    BY DEF Act, Becomes
<1>2. FilesOK'
    BY DEF Act, FilesOK
<1>3. Calls'
    <2>1. /\ usage'.calls \in {"serial", "apart"} /\ (usage'.calls = "apart" => crashes' = 0 /\ mode' = "up")
          /\ mode' # "down"
        BY DEF Act, IndInv, Calls
    <2>2. usage'.calls = "serial" => \A u, w \in Threads : u = w \/ job'[u].pc = "idle" \/ job'[w].pc = "idle"
        BY <1>1 DEF Act
    <2>3. \A u \in Threads : job'[u].pc = "idle" => saving'[u] = "no" /\ job'[u].segs = << >>
        BY <1>1 DEF Act, IndInv, Calls
    <2>4. \A u \in Threads : job'[u].pc = "reconcile" => usage'.calls = "serial" /\ job'[u].segs = << >>
        BY <1>1 DEF Act, IndInv, Calls
    <2> QED  BY <2>1, <2>2, <2>3, <2>4 DEF Calls
<1>4. Disk'
    <2> SUFFICES ASSUME usage'.calls = "serial"
                 PROVE  Disk'
        BY DEF Disk
    <2>1. usage.calls = "serial" /\ Keeps(t)
        BY DEF Act
    <2>2. \A u \in Threads : Settled(job'[u], saving'[u], snap'[u], registry', segment_map',
                                     registry_file', segments_file')
        <3> SUFFICES ASSUME NEW u \in Threads \ {t}
                     PROVE  Settled(job'[u], saving'[u], snap'[u], registry', segment_map',
                                    registry_file', segments_file')
            BY <2>1 DEF Keeps
        <3>1. job'[u].pc = "idle" /\ saving'[u] = "no"
            BY <1>1, <2>1 DEF Act, IndInv, Calls
        <3> QED  BY <3>1 DEF Settled, WritePcs
    <2>3. /\ Below(data_of', registry_file') /\ Fits(data_of', registry_file', segments_file')
          /\ Saved(data_of', registry', segment_map', registry_file', segments_file')
        BY <2>1 DEF Keeps, Saved
    <2>4. DOMAIN acked' \subseteq DOMAIN registry_file'.capsules /\ DOMAIN acked' \subseteq DOMAIN registry'.capsules
        BY <2>1 DEF Keeps
    <2> QED  BY <2>2, <2>3, <2>4 DEF Disk
<1> QED  BY <1>2, <1>3, <1>4 DEF IndInv

-----------------------------------------------------------------------------
(* Control flow of calls.                                                  *)

LEMMA GotoIs ==
    ASSUME job \in JobsOf, NEW t \in Threads, NEW pc \in Pcs, Goto(t, pc)
    PROVE  /\ Becomes(job, t, job'[t], job') /\ job'[t] \in Jobs /\ job'[t].pc = pc
           /\ job'[t].cap = job[t].cap /\ job'[t].todo = job[t].todo /\ job'[t].segs = job[t].segs
           /\ job'[t].seg = job[t].seg /\ job'[t].victims = job[t].victims
<1> DEFINE k == [job[t] EXCEPT !.pc = pc]
<1>1. job[t] \in Jobs
    BY JobType
<1>2. /\ k \in Jobs /\ k.pc = pc /\ k.cap = job[t].cap /\ k.todo = job[t].todo /\ k.segs = job[t].segs
      /\ k.seg = job[t].seg /\ k.victims = job[t].victims
    BY <1>1 DEF Jobs
<1>3. job' = [job EXCEPT ![t] = k]
    BY DEF Goto
<1> HIDE DEF k
<1>4. job'[t] = k
    BY <1>3 DEF JobsOf
<1> QED  BY <1>2, <1>3, <1>4, BecomesIs

LEMMA ReturnIs ==
    ASSUME job \in JobsOf, NEW t \in Threads, Return(t)
    PROVE  /\ Becomes(job, t, job'[t], job') /\ job'[t] \in Jobs /\ job'[t].pc = "idle"
           /\ job'[t].segs = << >>
<1>1. job' = [job EXCEPT ![t] = IdleJob] /\ IdleJob \in Jobs
    BY IdleType DEF Return
<1>2. job'[t] = IdleJob
    BY <1>1 DEF JobsOf
<1>3. IdleJob.pc = "idle" /\ IdleJob.segs = << >>
    BY DEF IdleJob
<1> QED  BY <1>1, <1>2, <1>3, BecomesIs

LEMMA NextChunkIs ==
    ASSUME job \in JobsOf, NEW t \in Threads, NEW hit, NextChunk(t, job[t].seg, hit),
           job[t].todo # << >>, job[t].pc \in {"increment", "update", "register"}
    PROVE  Becomes(job, t, job'[t], job') /\ job'[t] \in Jobs /\ Takes(job[t], job'[t])
<1> DEFINE td == Tail(job[t].todo)
           sg == Append(job[t].segs, job[t].seg)
           ht == IF hit THEN job[t].hits + 1 ELSE job[t].hits
           k == [job[t] EXCEPT !.pc = "chunk", !.todo = td, !.segs = sg, !.hits = ht]
<1>1. job[t] \in Jobs
    BY JobType
<1>2. td \in Seq(Contents)
    BY JobType, HeadTailProperties
<1>3. sg \in Seq(Nat)
    BY JobType, AppendProperties
<1>4. ht \in Nat
    BY JobType
<1>5. job' = [job EXCEPT ![t] = k]
    BY DEF NextChunk
<1> HIDE DEF td, sg, ht
<1>6. k \in Jobs /\ k.pc = "chunk" /\ k.cap = job[t].cap /\ k.todo = td /\ k.segs = sg
    BY <1>1, <1>2, <1>3, <1>4 DEF Jobs, Pcs, WritePcs
<1> HIDE DEF k
<1>7. job'[t] = k
    BY <1>5 DEF JobsOf
<1> QED  BY <1>5, <1>6, <1>7, BecomesIs DEF Takes, td, sg

LEMMA OweIs ==
    ASSUME saving \in [Threads -> Saves], NEW t \in Threads, NEW s \in Saves, Owe(t, s)
    PROVE  /\ saving' \in [Threads -> Saves] /\ saving'[t] = s
           /\ \A u \in Threads \ {t} : saving'[u] = saving[u]
BY DEF Owe

(* The invariant as the steps of calls use it.                             *)
LEMMA IndInvIs ==
    ASSUME IndInv
    PROVE  /\ Types(data_of, registry, segment_map, job) /\ Inv(data_of, registry, segment_map, job)
           /\ job \in JobsOf /\ registry \in Registries /\ segment_map \in Maps
           /\ data_of \in Seq(Seq(Contents)) /\ Below(data_of, registry) /\ Fits(data_of, registry, segment_map)
           /\ registry_file \in Registries /\ segments_file \in Maps
           /\ snap \in [Threads -> Registries] /\ saving \in [Threads -> Saves]
BY DEF IndInv, Types, Inv, FilesOK

(* While call t runs.                                                      *)
LEMMA Running ==
    ASSUME IndInv, NEW t \in Threads, job[t].pc # "idle"
    PROVE  /\ usage.calls = "serial" =>
                /\ \A u \in Threads \ {t} : job[u].pc = "idle"
                /\ Saved(data_of, registry, segment_map, registry_file, segments_file)
                /\ Settled(job[t], saving[t], snap[t], registry, segment_map, registry_file, segments_file)
                /\ DOMAIN acked \subseteq DOMAIN registry_file.capsules
                /\ DOMAIN acked \subseteq DOMAIN registry.capsules
           /\ mode \in {"up", "recover", "recovered"} /\ (usage.calls # "serial" => mode = "up")
<1>1. mode # "down"
    BY DEF IndInv, Calls
<1>2. mode \in {"up", "recover", "recovered"} /\ (usage.calls # "serial" => mode = "up")
    BY <1>1 DEF IndInv, Calls, FilesOK
<1>3. usage.calls = "serial" => \A u \in Threads \ {t} : job[u].pc = "idle"
    BY DEF IndInv, Calls
<1> QED  BY <1>1, <1>2, <1>3 DEF IndInv, Disk

LEMMA ActIs ==
    ASSUME IndInv, NEW t \in Threads, job[t].pc # "idle", Becomes(job, t, job'[t], job'),
           saving' \in [Threads -> Saves], \A u \in Threads \ {t} : saving'[u] = saving[u],
           UNCHANGED <<mode, snap, crashes, usage>>,
           job'[t].pc = "idle" => saving'[t] = "no" /\ job'[t].segs = << >>,
           job'[t].pc = "reconcile" => usage.calls = "serial" /\ job'[t].segs = << >>
    PROVE  Act(t)
<1>1. /\ mode \in {"up", "recover", "recovered"} /\ (usage.calls # "serial" => mode = "up")
      /\ usage.calls = "serial" => \A u \in Threads \ {t} : job[u].pc = "idle"
    BY Running
<1>2. snap \in [Threads -> Registries]
    BY IndInvIs
<1> QED  BY <1>1, <1>2 DEF Act

(* Calls at rest ask nothing of the files.                                 *)
LEMMA KeepsIdle ==
    ASSUME NEW t \in Threads, job'[t].pc = "idle", saving'[t] = "no",
           Saved(data_of', registry', segment_map', registry_file', segments_file'),
           DOMAIN acked' \subseteq DOMAIN registry'.capsules,
           DOMAIN acked' \subseteq DOMAIN registry_file'.capsules
    PROVE  Keeps(t)
<1>1. Settled(job'[t], saving'[t], snap'[t], registry', segment_map', registry_file', segments_file')
    BY DEF Settled, WritePcs
<1> QED  BY <1>1 DEF Keeps

LEMMA WritingIs ==
    ASSUME IndInv, NEW t \in Threads, job[t].pc \in WritePcs
    PROVE  /\ JobOK(data_of, registry, segment_map, job, t) /\ Worker(data_of, registry, segment_map, job[t])
           /\ job[t].pc # "idle" /\ job[t] \in Jobs
           /\ \A i \in DOMAIN job[t].segs : job[t].segs[i] < registry.next_segment_id
<1>1. JobOK(data_of, registry, segment_map, job, t)
    BY DEF IndInv, Inv
<1>2. job[t] \in Jobs
    BY IndInvIs, JobType
<1> QED  BY <1>1, <1>2 DEF JobOK, WritePcs

-----------------------------------------------------------------------------
(* The steps of a write.                                                   *)

(* The call returns and has changed at most the next segment id.           *)
LEMMA WriteGivesUp ==
    ASSUME IsFiniteSet(Threads), IndInv, NEW t \in Threads, job[t].pc \in WritePcs, Return(t),
           saving[t] = "no", registry' \in Registries, registry'.capsules = registry.capsules,
           registry'.content_store = registry.content_store,
           registry'.next_segment_id >= registry.next_segment_id,
           UNCHANGED <<mode, segment_map, disk, saving, snap, data_of, acked, crashes, usage>>
    PROVE  IndInv'
<1>1. job[t].pc # "idle"
    BY WritingIs
<1>2. /\ Becomes(job, t, job'[t], job') /\ job'[t] \in Jobs /\ job'[t].pc = "idle" /\ job'[t].segs = << >>
    BY IndInvIs, ReturnIs
<1>3. Types(data_of', registry', segment_map', job') /\ Inv(data_of', registry', segment_map', job')
    BY <1>2, IndInvIs, WriterQuiet DEF WritePcs
<1>4. Act(t)
    BY <1>1, <1>2, IndInvIs, ActIs
<1>5. usage.calls = "serial" => Keeps(t)
    <2> SUFFICES ASSUME usage.calls = "serial"
                 PROVE  Keeps(t)
        OBVIOUS
    <2>1. /\ Saved(data_of, registry, segment_map, registry_file, segments_file)
          /\ DOMAIN acked \subseteq DOMAIN registry_file.capsules
          /\ DOMAIN acked \subseteq DOMAIN registry.capsules
        BY <1>1, Running
    <2>2. Saved(data_of', registry', segment_map', registry_file', segments_file')
        <3>1. /\ registry.next_segment_id \in Nat /\ registry'.next_segment_id \in Nat
              /\ registry_file.next_segment_id \in Nat
            BY IndInvIs, RegistryType
        <3> QED  BY <2>1, <3>1 DEF Saved, Fits, disk
    <2> QED  BY <1>2, <2>1, <2>2, KeepsIdle DEF disk
<1> QED  BY <1>3, <1>4, <1>5, IndInvIs, StepIs DEF disk

LEMMA StepPrepareFails ==
    ASSUME IsFiniteSet(Threads), IndInv, NEW t \in Threads, PrepareFails(t)
    PROVE  IndInv'
<1>1. registry \in Registries /\ registry.next_segment_id \in Nat
    BY IndInvIs, RegistryType
<1> QED  BY <1>1, WriteGivesUp DEF PrepareFails, At, WritePcs, memory

LEMMA StepAppendFails ==
    ASSUME IsFiniteSet(Threads), IndInv, NEW t \in Threads, AppendFails(t)
    PROVE  IndInv'
<1>1. registry \in Registries /\ registry.next_segment_id \in Nat
    BY IndInvIs, RegistryType
<1>2. /\ registry' \in Registries /\ registry'.capsules = registry.capsules
      /\ registry'.content_store = registry.content_store
      /\ registry'.next_segment_id = registry.next_segment_id + 1
    BY <1>1 DEF AppendFails, Registries
<1>3. registry'.next_segment_id >= registry.next_segment_id
    BY <1>1, <1>2
<1> QED  BY <1>2, <1>3, WriteGivesUp DEF AppendFails, At, WritePcs

(* A write goes on without a change of memory or files.                    *)
LEMMA WriteGoesOn ==
    ASSUME IsFiniteSet(Threads), IndInv, NEW t \in Threads, job[t].pc \in WritePcs \ {"written"},
           job[t].pc \notin FreshPcs, saving[t] = "no",
           Becomes(job, t, job'[t], job'), job'[t] \in Jobs, job'[t].pc \in {"increment", "append", "create"},
           job'[t].segs = job[t].segs, job'[t].cap = job[t].cap,
           Worker(data_of, registry, segment_map, job'[t]),
           job'[t].pc = "increment" =>
               \E h \in DOMAIN registry.content_store : job'[t].seg = registry.content_store[h],
           UNCHANGED <<mode, memory, disk, saving, snap, data_of, acked, crashes, usage>>
    PROVE  IndInv'
<1>1. job[t].pc # "idle" /\ job[t].pc \in WritePcs
    BY WritingIs
<1>2. /\ job'[t].pc \in WritePcs \ {"written"} /\ job'[t].pc \notin FreshPcs
      /\ job'[t].pc # "idle" /\ job'[t].pc # "reconcile"
    BY DEF WritePcs, FreshPcs
<1>3. registry \in Registries /\ registry.next_segment_id >= registry.next_segment_id
    BY IndInvIs, RegistryType
<1>4. Types(data_of, registry, segment_map, job') /\ Inv(data_of, registry, segment_map, job')
    BY <1>1, <1>2, <1>3, IndInvIs, WriterQuiet
<1>5. Act(t)
    BY <1>1, <1>2, IndInvIs, ActIs
<1>6. usage.calls = "serial" => Keeps(t)
    <2> SUFFICES ASSUME usage.calls = "serial"
                 PROVE  Keeps(t)
        OBVIOUS
    <2>1. /\ Saved(data_of, registry, segment_map, registry_file, segments_file)
          /\ Settled(job[t], saving[t], snap[t], registry, segment_map, registry_file, segments_file)
          /\ DOMAIN acked \subseteq DOMAIN registry_file.capsules
          /\ DOMAIN acked \subseteq DOMAIN registry.capsules
        BY <1>1, Running
    <2>2. Settled(job'[t], saving[t], snap[t], registry, segment_map, registry_file, segments_file)
        BY <1>1, <1>2, <2>1 DEF Settled
    <2> QED  BY <2>1, <2>2 DEF Keeps, memory, disk
<1> QED  BY <1>4, <1>5, <1>6, IndInvIs, StepIs DEF memory, disk

LEMMA StepLookupContent ==
    ASSUME IsFiniteSet(Threads), IndInv, NEW t \in Threads, LookupContent(t)
    PROVE  IndInv'
<1>1. /\ job[t].pc = "chunk" /\ saving[t] = "no" /\ job[t].todo # << >>
      /\ UNCHANGED <<mode, memory, disk, saving, snap, data_of, acked, crashes, usage>>
    BY DEF LookupContent, At
<1>2. job[t].pc \in WritePcs \ {"written"} /\ job[t].pc \notin FreshPcs
    BY <1>1 DEF WritePcs, FreshPcs
<1>3. Worker(data_of, registry, segment_map, job[t]) /\ job[t] \in Jobs
    BY <1>2, WritingIs
<1> DEFINE h == Head(job[t].todo)
           id == registry.content_store[h]
           k == [job[t] EXCEPT !.pc = "increment", !.seg = id]
<1>4. CASE job[t].dedupe /\ h \in DOMAIN registry.content_store
    <2>1. job' = [job EXCEPT ![t] = k]
        BY <1>4 DEF LookupContent
    <2>2. id \in Nat /\ id < registry.next_segment_id /\ (id \in DOMAIN segment_map => segment_map[id].data = h)
        BY <1>4, IndInvIs, RegistryType, StoreType DEF Below, Fits
    <2> HIDE DEF id
    <2>3. k \in Jobs /\ k.pc = "increment" /\ k.seg = id /\ k.segs = job[t].segs /\ k.cap = job[t].cap
          /\ k.todo = job[t].todo
        BY <1>3, <2>2 DEF Jobs, Pcs, WritePcs
    <2> HIDE DEF k
    <2>4. job'[t] = k /\ Becomes(job, t, k, job')
        BY <2>1, <2>3, IndInvIs, BecomesIs DEF JobsOf
    <2>5. Worker(data_of, registry, segment_map, k)
        BY <1>1, <1>3, <2>2, <2>3 DEF Worker
    <2>6. \E g \in DOMAIN registry.content_store : k.seg = registry.content_store[g]
        BY <1>4, <2>3 DEF id
    <2> QED  BY <1>1, <1>2, <2>3, <2>4, <2>5, <2>6, WriteGoesOn
<1>5. CASE ~(job[t].dedupe /\ h \in DOMAIN registry.content_store)
    <2>1. Goto(t, "append") /\ "append" \in Pcs
        BY <1>5 DEF LookupContent, Pcs, WritePcs
    <2>2. /\ Becomes(job, t, job'[t], job') /\ job'[t] \in Jobs /\ job'[t].pc = "append"
          /\ job'[t].cap = job[t].cap /\ job'[t].todo = job[t].todo /\ job'[t].segs = job[t].segs
        BY <2>1, IndInvIs, GotoIs
    <2>3. Worker(data_of, registry, segment_map, job'[t])
        BY <1>1, <1>3, <2>2 DEF Worker
    <2> QED  BY <1>1, <1>2, <2>2, <2>3, WriteGoesOn
<1> QED  BY <1>4, <1>5

LEMMA StepAddDedupedBytes ==
    ASSUME IsFiniteSet(Threads), IndInv, NEW t \in Threads, AddDedupedBytes(t)
    PROVE  IndInv'
<1>1. job[t].pc = "chunk" /\ saving[t] = "no" /\ job[t].todo = << >> /\ Goto(t, "create")
    BY DEF AddDedupedBytes, At
<1>2. job[t].pc \in WritePcs \ {"written"} /\ job[t].pc \notin FreshPcs /\ "create" \in Pcs
    BY <1>1 DEF WritePcs, FreshPcs, Pcs
<1>3. Worker(data_of, registry, segment_map, job[t])
    BY <1>2, WritingIs
<1>4. job[t].cap \notin DOMAIN registry.capsules
    BY <1>1, <1>3 DEF Worker
<1>5. UNCHANGED <<mode, memory, disk, saving, snap, data_of, acked, crashes, usage>>
    BY <1>4 DEF AddDedupedBytes, memory
<1>6. /\ Becomes(job, t, job'[t], job') /\ job'[t] \in Jobs /\ job'[t].pc = "create"
      /\ job'[t].cap = job[t].cap /\ job'[t].todo = job[t].todo /\ job'[t].segs = job[t].segs
    BY <1>1, <1>2, IndInvIs, GotoIs
<1>7. Worker(data_of, registry, segment_map, job'[t])
    BY <1>1, <1>3, <1>6 DEF Worker
<1> QED  BY <1>1, <1>2, <1>5, <1>6, <1>7, WriteGoesOn

(* A write has collected a segment and owes a save.                        *)
LEMMA WriteCollects ==
    ASSUME IndInv, NEW t \in Threads, job[t].pc # "idle", NEW s, s \in {"log", "registry"}, Owe(t, s),
           Becomes(job, t, job'[t], job'), job'[t].pc = "chunk",
           Types(data_of', registry', segment_map', job') /\ Inv(data_of', registry', segment_map', job'),
           registry'.capsules = registry.capsules,
           usage.calls = "serial" =>
               /\ Saved(data_of, registry', segment_map', registry_file, segments_file)
               /\ s = "registry" => segments_file = segment_map',
           UNCHANGED <<mode, disk, snap, data_of, acked, crashes, usage>>
    PROVE  IndInv'
<1>1. saving' \in [Threads -> Saves] /\ saving'[t] = s /\ \A u \in Threads \ {t} : saving'[u] = saving[u]
    <2>1. s \in Saves /\ saving \in [Threads -> Saves]
        BY IndInvIs DEF Saves
    <2> QED  BY <2>1, OweIs
<1>2. Act(t)
    BY <1>1, ActIs
<1>3. usage.calls = "serial" => Keeps(t)
    <2> SUFFICES ASSUME usage.calls = "serial"
                 PROVE  Keeps(t)
        OBVIOUS
    <2>1. /\ DOMAIN acked \subseteq DOMAIN registry_file.capsules
          /\ DOMAIN acked \subseteq DOMAIN registry.capsules
        BY Running
    <2>2. Settled(job'[t], saving'[t], snap'[t], registry', segment_map', registry_file, segments_file)
        BY <1>1 DEF Settled
    <2> QED  BY <2>1, <2>2 DEF Keeps, disk
<1> QED  BY <1>2, <1>3, IndInvIs, StepIs DEF disk

LEMMA StepIncrementRefcount ==
    ASSUME IsFiniteSet(Threads), IndInv, NEW t \in Threads, IncrementRefcount(t)
    PROVE  IndInv'
<1> DEFINE id == job[t].seg
<1>1. /\ job[t].pc = "increment" /\ saving[t] = "no"
      /\ UNCHANGED <<mode, registry, disk, snap, data_of, acked, crashes, usage>>
    BY DEF IncrementRefcount, At
<1>2. job[t].pc \in WritePcs /\ job[t].pc \in {"increment", "update", "register"}
    BY <1>1 DEF WritePcs
<1>3. /\ Worker(data_of, registry, segment_map, job[t]) /\ job[t].pc # "idle" /\ job[t].todo # << >>
      /\ id < registry.next_segment_id
      /\ (id \in DOMAIN segment_map => segment_map[id].data = Head(job[t].todo))
    BY <1>1, <1>2, WritingIs DEF Worker
<1>4. registry \in Registries /\ registry.next_segment_id \in Nat
    BY IndInvIs, RegistryType
<1>5. CASE id \notin DOMAIN segment_map
    <2>1. Return(t) /\ UNCHANGED <<segment_map, saving>>
        BY <1>5 DEF IncrementRefcount
    <2> QED  BY <1>1, <1>2, <1>4, <2>1, WriteGivesUp
<1>6. CASE id \in DOMAIN segment_map
    <2> DEFINE n == segment_map[id].ref_count + 1
    <2>1. segment_map' = [segment_map EXCEPT ![id].ref_count = n] /\ NextChunk(t, id, TRUE) /\ Owe(t, "log")
        BY <1>6 DEF IncrementRefcount, CountedBy
    <2>2. segment_map[id].ref_count \in Nat /\ n \in Nat
        BY <1>6, IndInvIs, SegmentType
    <2>3. Becomes(job, t, job'[t], job') /\ job'[t] \in Jobs /\ Takes(job[t], job'[t])
        BY <1>2, <1>3, <2>1, IndInvIs, NextChunkIs
    <2>4. segment_map[id].ref_count >= Uses(registry, job, id)
        BY <1>6, IndInvIs DEF Inv
    <2>5. Uses(registry, job, id) \in Nat
        BY IndInvIs, UsesType
    <2>6. n >= Uses(registry, job, id) + 1
        BY <2>2, <2>4, <2>5
    <2> HIDE DEF id
    <2>7. segment_map' \in Maps /\ IsCounted(segment_map', segment_map, id, n)
        <3> HIDE DEF n
        <3> QED  BY <1>6, <2>1, <2>2, IndInvIs, CountSegment
    <2>8. ASSUME NEW r, r \in Registries, Below(data_of, r), Fits(data_of, r, segment_map)
          PROVE  Fits(data_of, r, segment_map')
        <3>1. References(r.capsules, id) \in Nat
            BY <2>8, IndInvIs, RegistryType, FiniteCapsules, RefsFinite
        <3>2. segment_map[id].ref_count >= References(r.capsules, id)
            BY <1>6, <2>8 DEF Fits
        <3>3. n >= References(r.capsules, id)
            BY <2>2, <3>1, <3>2
        <3> HIDE DEF n
        <3> QED  BY <2>7, <2>8, <3>3, FitsCounted
    <2>9. /\ DOMAIN segment_map' = DOMAIN segment_map /\ segment_map'[id].ref_count = n
          /\ \A x \in DOMAIN segment_map : segment_map'[x].data = segment_map[x].data
          /\ \A x \in DOMAIN segment_map \ {id} : segment_map'[x].ref_count = segment_map[x].ref_count
        BY <2>7 DEF IsCounted
    <2>10. Fits(data_of, registry, segment_map')
        BY <1>4, <2>8, IndInvIs
    <2>11. Types(data_of, registry, segment_map', job') /\ Inv(data_of, registry, segment_map', job')
        <3> HIDE DEF n
        <3> QED  BY <1>3, <1>4, <1>6, <2>3, <2>6, <2>7, <2>9, <2>10, IndInvIs, WriterTakes DEF id
    <2>12. usage.calls = "serial" => Saved(data_of, registry, segment_map', registry_file, segments_file)
        BY <1>3, <2>8, IndInvIs, Running DEF Saved
    <2> QED  BY <1>1, <1>3, <2>1, <2>3, <2>11, <2>12, WriteCollects DEF Takes
<1> QED  BY <1>5, <1>6

(* The next segment id has no users.                                       *)
LEMMA NextUnused ==
    ASSUME IndInv
    PROVE  Uses(registry, job, registry.next_segment_id) = 0
<1> DEFINE id == registry.next_segment_id
<1>1. id \in Nat /\ registry.capsules \in Capsules /\ IsFiniteSet(DOMAIN registry.capsules)
    BY IndInvIs, RegistryType, FiniteCapsules
<1>2. ASSUME NEW c \in DOMAIN registry.capsules, NEW i \in DOMAIN registry.capsules[c].segments
      PROVE  registry.capsules[c].segments[i] # id
    <2>1. registry.capsules[c].segments[i] \in Nat
        BY <1>1, CapsuleType, ElementOfSeq
    <2>2. registry.capsules[c].segments[i] < id
        BY IndInvIs DEF Below
    <2> QED  BY <1>1, <2>1, <2>2
<1>3. ASSUME NEW t \in Threads, NEW i \in DOMAIN job[t].segs
      PROVE  job[t].segs[i] # id
    <2>1. job[t].segs[i] \in Nat
        BY IndInvIs, JobType, ElementOfSeq
    <2>2. job[t].segs[i] < id
        BY DEF IndInv, Inv, JobOK
    <2> QED  BY <1>1, <2>1, <2>2
<1> HIDE DEF id
<1>4. References(registry.capsules, id) = 0
    BY <1>1, <1>2, RefsFinite
<1>5. Holds(job, id) = 0
    BY <1>3, IndInvIs, HoldsNone
<1> QED  BY <1>4, <1>5 DEF Uses, id

(* A write has created a segment or filled in its metadata, and owes the   *)
(* save of the segment map.                                                *)
LEMMA WritePublishes ==
    ASSUME IndInv, NEW t \in Threads, job[t].pc # "idle", Owe(t, "log"),
           Becomes(job, t, job'[t], job'), job'[t].pc \in FreshPcs,
           Types(data_of', registry', segment_map', job') /\ Inv(data_of', registry', segment_map', job'),
           registry'.capsules = registry.capsules,
           usage.calls = "serial" =>
               /\ Saved(data_of, registry', segment_map', registry_file, segments_file)
               /\ References(registry_file.capsules, job'[t].seg) = 0,
           UNCHANGED <<mode, disk, snap, data_of, acked, crashes, usage>>
    PROVE  IndInv'
<1>1. saving' \in [Threads -> Saves] /\ saving'[t] = "log" /\ \A u \in Threads \ {t} : saving'[u] = saving[u]
    <2>1. "log" \in Saves /\ saving \in [Threads -> Saves]
        BY IndInvIs DEF Saves
    <2> QED  BY <2>1, OweIs
<1>2. job'[t].pc \in {"update", "register"}
    BY DEF FreshPcs
<1>3. Act(t)
    BY <1>1, <1>2, ActIs
<1>4. usage.calls = "serial" => Keeps(t)
    <2> SUFFICES ASSUME usage.calls = "serial"
                 PROVE  Keeps(t)
        OBVIOUS
    <2>1. /\ DOMAIN acked \subseteq DOMAIN registry_file.capsules
          /\ DOMAIN acked \subseteq DOMAIN registry.capsules
        BY Running
    <2>2. Settled(job'[t], saving'[t], snap'[t], registry', segment_map', registry_file, segments_file)
        BY <1>1, <1>2 DEF Settled
    <2> QED  BY <2>1, <2>2 DEF Keeps, disk
<1> QED  BY <1>3, <1>4, IndInvIs, StepIs DEF disk

LEMMA StepAppendSegment ==
    ASSUME IsFiniteSet(Threads), IndInv, NEW t \in Threads, AppendSegment(t)
    PROVE  IndInv'
<1> DEFINE id == registry.next_segment_id
           e == [data |-> Head(job[t].todo), hash |-> NoHash, ref_count |-> 1]
           k == [job[t] EXCEPT !.pc = "update", !.seg = id]
<1>1. /\ job[t].pc = "append" /\ Owe(t, "log")
      /\ registry' = [registry EXCEPT !.next_segment_id = @ + 1]
      /\ segment_map' = Put(segment_map, id, e)
      /\ job' = [job EXCEPT ![t] = k]
      /\ UNCHANGED <<mode, disk, snap, data_of, acked, crashes, usage>>
    BY DEF AppendSegment, At
<1>2. job[t].pc \in WritePcs /\ job[t].pc \in {"append", "update"}
    BY <1>1 DEF WritePcs
<1>3. /\ Worker(data_of, registry, segment_map, job[t]) /\ job[t].pc # "idle" /\ job[t].todo # << >>
      /\ job[t] \in Jobs
    BY <1>1, <1>2, WritingIs DEF Worker
<1>4. registry \in Registries /\ id \in Nat
    BY IndInvIs, RegistryType
<1>5. /\ registry' \in Registries /\ registry'.capsules = registry.capsules
      /\ registry'.content_store = registry.content_store /\ registry'.next_segment_id = id + 1
    BY <1>1, <1>4 DEF Registries
<1>6. Head(job[t].todo) \in Contents
    BY <1>3, IndInvIs, JobType, HeadTailProperties
<1>7. e \in SegmentInfo /\ e.data = Head(job[t].todo) /\ e.ref_count = 1
    BY <1>6 DEF SegmentInfo
<1> HIDE DEF e, id
<1>8. /\ k \in Jobs /\ k.pc = "update" /\ k.seg = id /\ k.segs = job[t].segs /\ k.todo = job[t].todo
      /\ k.cap = job[t].cap
    BY <1>3, <1>4 DEF Jobs, Pcs, WritePcs
<1> HIDE DEF k
<1>9. job'[t] = k /\ Becomes(job, t, k, job') /\ k.pc \in FreshPcs
    BY <1>1, <1>8, IndInvIs, BecomesIs DEF JobsOf, FreshPcs
<1>10. segment_map' \in Maps /\ IsPut(segment_map', segment_map, id, e)
    BY <1>1, <1>4, <1>7, IndInvIs, PutSegment
<1>11. ASSUME NEW r, r \in Registries, Below(data_of, r), Fits(data_of, r, segment_map),
              r.next_segment_id <= id
       PROVE  Fits(data_of, r, segment_map') /\ References(r.capsules, id) = 0
    <2>1. r.next_segment_id \in Nat
        BY <1>11, RegistryType
    <2>2. id >= r.next_segment_id
        BY <1>4, <1>11, <2>1
    <2> QED  BY <1>4, <1>7, <1>10, <1>11, <2>2, IndInvIs, FitsNew
<1>12. Fits(data_of, registry, segment_map')
    BY <1>4, <1>11, IndInvIs DEF id
<1>13. Fits(data_of, registry', segment_map')
    BY <1>5, <1>12 DEF Fits
<1>14. Uses(registry, job, k.seg) = 0
    BY <1>8, NextUnused DEF id
<1>15. registry'.next_segment_id >= registry.next_segment_id /\ k.seg < registry'.next_segment_id
    BY <1>4, <1>5, <1>8 DEF id
<1>16. Types(data_of, registry', segment_map', job') /\ Inv(data_of, registry', segment_map', job')
    BY <1>2, <1>5, <1>7, <1>8, <1>9, <1>10, <1>13, <1>14, <1>15, IndInvIs, WriterFresh DEF id
<1>17. usage.calls = "serial" =>
           /\ Saved(data_of, registry', segment_map', registry_file, segments_file)
           /\ References(registry_file.capsules, k.seg) = 0
    <2> SUFFICES ASSUME usage.calls = "serial"
                 PROVE  /\ Saved(data_of, registry', segment_map', registry_file, segments_file)
                        /\ References(registry_file.capsules, k.seg) = 0
        OBVIOUS
    <2>1. Saved(data_of, registry, segment_map, registry_file, segments_file)
        BY <1>3, Running
    <2>2. registry_file \in Registries /\ registry_file.next_segment_id \in Nat
        BY IndInvIs, RegistryType
    <2>3. Fits(data_of, registry_file, segment_map') /\ References(registry_file.capsules, id) = 0
        BY <1>11, <2>1, <2>2 DEF Saved, id
    <2>4. Fits(data_of, registry', segments_file)
        BY <1>5, <2>1 DEF Saved, Fits
    <2>5. registry_file.next_segment_id <= registry'.next_segment_id
        BY <1>4, <1>5, <2>1, <2>2 DEF Saved, id
    <2> QED  BY <1>8, <2>1, <2>3, <2>4, <2>5 DEF Saved
<1> QED  BY <1>1, <1>3, <1>5, <1>9, <1>16, <1>17, WritePublishes

LEMMA StepUpdateMetadata ==
    ASSUME IsFiniteSet(Threads), IndInv, NEW t \in Threads, UpdateMetadata(t)
    PROVE  IndInv'
<1> DEFINE id == job[t].seg
           content == Head(job[t].todo)
           hash == IF job[t].dedupe THEN content ELSE NoHash
           e == [data |-> content, ref_count |-> 1, hash |-> hash]
<1>1. /\ job[t].pc = "update" /\ saving[t] = "no" /\ Owe(t, "log")
      /\ segment_map' = Put(segment_map, id, e)
      /\ IF job[t].dedupe THEN Goto(t, "register") ELSE NextChunk(t, id, FALSE)
      /\ UNCHANGED <<mode, registry, disk, snap, data_of, acked, crashes, usage>>
    BY DEF UpdateMetadata, At
<1>2. /\ job[t].pc \in WritePcs /\ job[t].pc \in FreshPcs /\ job[t].pc \in {"append", "update"}
      /\ job[t].pc \in {"increment", "update", "register"} /\ "register" \in Pcs
    BY <1>1 DEF WritePcs, FreshPcs, Pcs
<1>3. /\ Worker(data_of, registry, segment_map, job[t]) /\ job[t].pc # "idle" /\ job[t].todo # << >>
      /\ job[t] \in Jobs /\ Fresh(registry, segment_map, job, job[t])
    BY <1>1, <1>2, WritingIs DEF Worker, JobOK
<1>4. /\ id < registry.next_segment_id /\ id \in DOMAIN segment_map /\ segment_map[id].data = content
      /\ segment_map[id].ref_count >= 1 /\ Uses(registry, job, id) = 0
      /\ \A h \in DOMAIN registry.content_store : registry.content_store[h] # id
    BY <1>3 DEF Fresh
<1>5. id \in Nat /\ content \in Contents /\ registry \in Registries /\ registry.next_segment_id \in Nat
    BY <1>3, IndInvIs, JobType, HeadTailProperties, RegistryType
<1>6. e \in SegmentInfo /\ e.data = content /\ e.ref_count = 1
    BY <1>5 DEF SegmentInfo
<1> HIDE DEF e, id, content
<1>7. segment_map' \in Maps /\ IsPut(segment_map', segment_map, id, e)
    BY <1>1, <1>5, <1>6, IndInvIs, PutSegment
<1>8. ASSUME NEW r, r \in Registries, Fits(data_of, r, segment_map), References(r.capsules, id) = 0
      PROVE  Fits(data_of, r, segment_map')
    BY <1>4, <1>6, <1>7, <1>8, FitsRewritten
<1>9. References(registry.capsules, id) = 0
    <2>1. /\ Uses(registry, job, id) = References(registry.capsules, id) + Holds(job, id)
          /\ References(registry.capsules, id) \in Nat /\ Holds(job, id) \in Nat
        BY IndInvIs, UsesType
    <2> QED  BY <1>4, <2>1
<1>10. Fits(data_of, registry, segment_map')
    BY <1>5, <1>8, <1>9, IndInvIs
<1>11. usage.calls = "serial" =>
           /\ Saved(data_of, registry, segment_map', registry_file, segments_file)
           /\ References(registry_file.capsules, id) = 0
    <2> SUFFICES ASSUME usage.calls = "serial"
                 PROVE  /\ Saved(data_of, registry, segment_map', registry_file, segments_file)
                        /\ References(registry_file.capsules, id) = 0
        OBVIOUS
    <2>1. /\ Saved(data_of, registry, segment_map, registry_file, segments_file)
          /\ Settled(job[t], saving[t], snap[t], registry, segment_map, registry_file, segments_file)
        BY <1>3, Running
    <2>2. References(registry_file.capsules, id) = 0
        BY <1>1, <2>1 DEF Settled, id
    <2> QED  BY <1>8, <2>1, <2>2, IndInvIs DEF Saved
<1>12. CASE job[t].dedupe
    <2>1. /\ Becomes(job, t, job'[t], job') /\ job'[t] \in Jobs /\ job'[t].pc = "register"
          /\ job'[t].cap = job[t].cap /\ job'[t].todo = job[t].todo /\ job'[t].segs = job[t].segs
          /\ job'[t].seg = id
        BY <1>1, <1>2, <1>12, IndInvIs, GotoIs DEF id
    <2>2. job'[t].pc \in FreshPcs
        BY <2>1 DEF FreshPcs
    <2>3. registry.next_segment_id >= registry.next_segment_id
        BY <1>5
    <2>4. Types(data_of, registry, segment_map', job') /\ Inv(data_of, registry, segment_map', job')
        BY <1>1, <1>2, <1>4, <1>5, <1>6, <1>7, <1>10, <2>1, <2>2, <2>3, IndInvIs, WriterFresh DEF id, content
    <2> QED  BY <1>1, <1>3, <1>11, <2>1, <2>2, <2>4, WritePublishes
<1>13. CASE ~job[t].dedupe
    <2>1. Becomes(job, t, job'[t], job') /\ job'[t] \in Jobs /\ Takes(job[t], job'[t])
        BY <1>1, <1>2, <1>3, <1>13, IndInvIs, NextChunkIs DEF id
    <2>2. /\ DOMAIN segment_map' = DOMAIN segment_map
          /\ \A x \in DOMAIN segment_map : segment_map'[x].data = segment_map[x].data
          /\ \A x \in DOMAIN segment_map \ {id} : segment_map'[x].ref_count = segment_map[x].ref_count
          /\ segment_map'[id].ref_count = 1
        BY <1>4, <1>6, <1>7 DEF IsPut
    <2>3. segment_map'[id].ref_count >= Uses(registry, job, id) + 1
        BY <1>4, <2>2
    <2>4. Types(data_of, registry, segment_map', job') /\ Inv(data_of, registry, segment_map', job')
        BY <1>4, <1>5, <1>7, <1>10, <2>1, <2>2, <2>3, IndInvIs, WriterTakes DEF id, content
    <2> QED  BY <1>1, <1>3, <1>11, <2>1, <2>4, WriteCollects DEF Takes
<1> QED  BY <1>12, <1>13

LEMMA StepRegisterContent ==
    ASSUME IsFiniteSet(Threads), IndInv, NEW t \in Threads, RegisterContent(t)
    PROVE  IndInv'
<1> DEFINE id == job[t].seg
           content == Head(job[t].todo)
           st == Put(registry.content_store, content, id)
<1>1. /\ job[t].pc = "register" /\ saving[t] = "no" /\ Owe(t, "registry")
      /\ registry' = [registry EXCEPT !.content_store = st]
      /\ NextChunk(t, id, FALSE)
      /\ UNCHANGED <<mode, segment_map, disk, snap, data_of, acked, crashes, usage>>
    BY DEF RegisterContent, At
<1>2. /\ job[t].pc \in WritePcs /\ job[t].pc \in FreshPcs
      /\ job[t].pc \in {"increment", "update", "register"}
    BY <1>1 DEF WritePcs, FreshPcs
<1>3. /\ Worker(data_of, registry, segment_map, job[t]) /\ job[t].pc # "idle" /\ job[t].todo # << >>
      /\ job[t] \in Jobs /\ Fresh(registry, segment_map, job, job[t])
    BY <1>1, <1>2, WritingIs DEF Worker, JobOK
<1>4. /\ id < registry.next_segment_id /\ id \in DOMAIN segment_map /\ segment_map[id].data = content
      /\ segment_map[id].ref_count >= 1 /\ Uses(registry, job, id) = 0
    BY <1>3 DEF Fresh
<1>5. id \in Nat /\ content \in Contents /\ registry \in Registries /\ registry.content_store \in Stores
    BY <1>3, IndInvIs, JobType, HeadTailProperties, RegistryType
<1> HIDE DEF id, content
<1>6. st \in Stores /\ IsPut(st, registry.content_store, content, id)
    BY <1>5, PutStore
<1> HIDE DEF st
<1>7. /\ registry' \in Registries /\ registry'.capsules = registry.capsules
      /\ registry'.next_segment_id = registry.next_segment_id /\ registry'.content_store = st
    BY <1>1, <1>5, <1>6 DEF Registries
<1>8. \A h \in DOMAIN st : (h = content /\ st[h] = id) \/
          (h \in DOMAIN registry.content_store /\ st[h] = registry.content_store[h])
    BY <1>6 DEF IsPut
<1>9. ASSUME NEW m, Fits(data_of, registry, m), id \in DOMAIN m => m[id].data = content
      PROVE  Fits(data_of, registry', m)
    <2>1. \A h \in DOMAIN registry'.content_store :
              registry'.content_store[h] \in DOMAIN m => m[registry'.content_store[h]].data = h
        BY <1>7, <1>8, <1>9 DEF Fits
    <2> QED  BY <1>7, <1>9, <2>1 DEF Fits
<1>10. Fits(data_of, registry', segment_map)
    BY <1>4, <1>9, IndInvIs
<1>11. Becomes(job, t, job'[t], job') /\ job'[t] \in Jobs /\ Takes(job[t], job'[t])
    BY <1>1, <1>2, <1>3, IndInvIs, NextChunkIs DEF id
<1>12. segment_map[id].ref_count >= Uses(registry, job, id) + 1
    BY <1>4
<1>13. \A h \in DOMAIN registry'.content_store : registry'.content_store[h] = id \/
          (h \in DOMAIN registry.content_store /\ registry'.content_store[h] = registry.content_store[h])
    BY <1>7, <1>8
<1>14. Types(data_of, registry', segment_map, job') /\ Inv(data_of, registry', segment_map, job')
    BY <1>4, <1>7, <1>10, <1>11, <1>12, <1>13, IndInvIs, WriterTakes DEF id, content
<1>15. usage.calls = "serial" => /\ Saved(data_of, registry', segment_map, registry_file, segments_file)
                                 /\ segments_file = segment_map
    <2> SUFFICES ASSUME usage.calls = "serial"
                 PROVE  /\ Saved(data_of, registry', segment_map, registry_file, segments_file)
                        /\ segments_file = segment_map
        OBVIOUS
    <2>1. /\ Saved(data_of, registry, segment_map, registry_file, segments_file)
          /\ Settled(job[t], saving[t], snap[t], registry, segment_map, registry_file, segments_file)
        BY <1>3, Running
    <2>2. segments_file = segment_map
        BY <1>1, <1>2, <2>1 DEF Settled
    <2> QED  BY <1>7, <1>10, <2>1, <2>2 DEF Saved
<1> QED  BY <1>1, <1>3, <1>7, <1>11, <1>14, <1>15, WriteCollects DEF Takes

LEMMA StepCreateCapsule ==
    ASSUME IsFiniteSet(Threads), IndInv, NEW t \in Threads, CreateCapsule(t)
    PROVE  IndInv'
<1> DEFINE cap == job[t].cap
           cp == [segments |-> job[t].segs, deduped_bytes |-> 0]
           cs == Put(registry.capsules, cap, cp)
<1>1. /\ job[t].pc = "create" /\ saving[t] = "no" /\ Owe(t, "registry") /\ Goto(t, "written")
      /\ registry' = [registry EXCEPT !.capsules = cs]
      /\ UNCHANGED <<mode, segment_map, disk, snap, data_of, acked, crashes, usage>>
    BY DEF CreateCapsule, At
<1>2. job[t].pc \in WritePcs /\ job[t].pc \notin FreshPcs /\ "written" \in Pcs
    BY <1>1 DEF WritePcs, FreshPcs, Pcs
<1>3. /\ Worker(data_of, registry, segment_map, job[t]) /\ job[t].pc # "idle" /\ job[t] \in Jobs
      /\ \A i \in DOMAIN job[t].segs : job[t].segs[i] < registry.next_segment_id
    BY <1>1, <1>2, WritingIs
<1>4. cap \in Nat /\ job[t].segs \in Seq(Nat) /\ registry \in Registries /\ registry.capsules \in Capsules
      /\ cap \notin DOMAIN registry.capsules /\ registry.next_segment_id \in Nat
    BY <1>1, <1>3, IndInvIs, JobType, RegistryType DEF Worker
<1>5. cp \in Capsule /\ cp.segments = job[t].segs
    BY <1>4 DEF Capsule
<1> HIDE DEF cap, cp
<1>6. cs \in Capsules /\ IsPut(cs, registry.capsules, cap, cp)
    BY <1>4, <1>5, PutCapsule
<1>7. /\ registry' \in Registries /\ registry'.capsules = cs
      /\ registry'.next_segment_id = registry.next_segment_id
      /\ registry'.content_store = registry.content_store
    <2> HIDE DEF cs
    <2> QED  BY <1>1, <1>4, <1>6 DEF Registries
<1>8. DOMAIN cs = DOMAIN registry.capsules \cup {cap}
    BY <1>6 DEF IsPut
<1>9. /\ Becomes(job, t, job'[t], job') /\ job'[t] \in Jobs /\ job'[t].pc = "written"
      /\ job'[t].cap = cap /\ job'[t].todo = job[t].todo /\ job'[t].segs = job[t].segs
    BY <1>1, <1>2, IndInvIs, GotoIs DEF cap
<1>10. Types(data_of, registry', segment_map, job') /\ Inv(data_of, registry', segment_map, job')
    <2>1. registry'.capsules = Put(registry.capsules, job[t].cap, cp) /\ job'[t].cap = job[t].cap
        BY <1>7, <1>9 DEF cap
    <2>2. Types(data_of, registry, segment_map, job) /\ Inv(data_of, registry, segment_map, job)
        BY IndInvIs
    <2>3. /\ registry' \in Registries /\ registry'.next_segment_id = registry.next_segment_id
          /\ registry'.content_store = registry.content_store /\ job[t].pc = "create"
        BY <1>1, <1>7
    <2> QED  BY <1>5, <1>9, <2>1, <2>2, <2>3, WriterCreates
<1>11. saving' \in [Threads -> Saves] /\ saving'[t] = "registry" /\ \A u \in Threads \ {t} : saving'[u] = saving[u]
    <2>1. "registry" \in Saves /\ saving \in [Threads -> Saves]
        BY IndInvIs DEF Saves
    <2> QED  BY <1>1, <2>1, OweIs
<1>12. Act(t)
    BY <1>1, <1>3, <1>9, <1>11, ActIs
<1>13. usage.calls = "serial" => Keeps(t)
    <2> SUFFICES ASSUME usage.calls = "serial"
                 PROVE  Keeps(t)
        OBVIOUS
    <2>1. /\ Saved(data_of, registry, segment_map, registry_file, segments_file)
          /\ Settled(job[t], saving[t], snap[t], registry, segment_map, registry_file, segments_file)
          /\ DOMAIN acked \subseteq DOMAIN registry_file.capsules
          /\ DOMAIN acked \subseteq DOMAIN registry.capsules
        BY <1>3, Running
    <2>2. segments_file = segment_map \/ job[t].segs = << >>
        BY <1>1, <1>2, <2>1 DEF Settled
    <2>3. \A x \in DOMAIN segments_file : segments_file[x].ref_count >= References(registry'.capsules, x)
        <3>1. CASE segments_file = segment_map
            BY <1>10, <3>1 DEF Inv, Fits
        <3>2. CASE job[t].segs = << >>
            <4> SUFFICES ASSUME NEW x \in DOMAIN segments_file
                         PROVE  segments_file[x].ref_count >= References(registry'.capsules, x)
                OBVIOUS
            <4>1. IsFiniteSet(DOMAIN registry.capsules)
                BY IndInvIs, FiniteCapsules
            <4>2. /\ References(cs, x) = References(registry.capsules, x) + Times(cp.segments, x)
                  /\ References(registry.capsules, x) \in Nat
                BY <1>4, <1>5, <4>1, RefsCreated
            <4>3. Times(cp.segments, x) = 0
                BY <1>5, <3>2, TimesEmpty
            <4>4. References(cs, x) = References(registry.capsules, x)
                BY <4>2, <4>3
            <4> QED  BY <1>7, <2>1, <4>4 DEF Saved, Fits
        <3> QED  BY <2>2, <3>1, <3>2
    <2>4. Fits(data_of, registry', segments_file)
        <3>1. Fits(data_of, registry, segments_file)
            BY <2>1 DEF Saved
        <3> QED  BY <1>1, <1>3, <1>5, <1>7, <2>2, <2>3, <3>1, IndInvIs, FitsCreated DEF cap
    <2>5. Saved(data_of, registry', segment_map, registry_file, segments_file)
        BY <1>7, <2>1, <2>4 DEF Saved
    <2>6. Settled(job'[t], "registry", snap[t], registry', segment_map, registry_file, segments_file)
        <3>1. cap \in DOMAIN registry'.capsules
            BY <1>7, <1>8
        <3>2. job'[t].segs # << >> => segments_file = segment_map
            BY <1>9, <2>2
        <3>3. job'[t].pc \notin FreshPcs
            BY <1>9 DEF FreshPcs
        <3> QED  BY <1>9, <3>1, <3>2, <3>3 DEF Settled
    <2>7. DOMAIN acked \subseteq DOMAIN registry'.capsules
        BY <1>7, <1>8, <2>1
    <2> QED  BY <1>1, <1>11, <2>1, <2>5, <2>6, <2>7 DEF Keeps, disk
<1> QED  BY <1>1, <1>10, <1>12, <1>13, IndInvIs, StepIs DEF disk

LEMMA StepWriteReturns ==
    ASSUME IsFiniteSet(Threads), IndInv, NEW t \in Threads, WriteReturns(t)
    PROVE  IndInv'
<1>1. /\ job[t].pc = "written" /\ saving[t] = "no" /\ Return(t)
      /\ acked' = Put(acked, job[t].cap, job[t].hits)
      /\ UNCHANGED <<mode, memory, disk, saving, snap, data_of, crashes, usage>>
    BY DEF WriteReturns, At
<1>2. job[t].pc \in WritePcs /\ job[t].pc # "idle" /\ registry \in Registries
      /\ registry.next_segment_id >= registry.next_segment_id
    BY <1>1, IndInvIs, RegistryType DEF WritePcs
<1>3. /\ Becomes(job, t, job'[t], job') /\ job'[t] \in Jobs /\ job'[t].pc = "idle" /\ job'[t].segs = << >>
    BY <1>1, IndInvIs, ReturnIs
<1>4. Types(data_of, registry, segment_map, job') /\ Inv(data_of, registry, segment_map, job')
    BY <1>2, <1>3, IndInvIs, WriterQuiet DEF WritePcs
<1>5. Act(t)
    BY <1>1, <1>2, <1>3, IndInvIs, ActIs
<1>6. usage.calls = "serial" => Keeps(t)
    <2> SUFFICES ASSUME usage.calls = "serial"
                 PROVE  Keeps(t)
        OBVIOUS
    <2>1. /\ Saved(data_of, registry, segment_map, registry_file, segments_file)
          /\ Settled(job[t], saving[t], snap[t], registry, segment_map, registry_file, segments_file)
          /\ DOMAIN acked \subseteq DOMAIN registry_file.capsules
          /\ DOMAIN acked \subseteq DOMAIN registry.capsules
        BY <1>2, Running
    <2>2. job[t].cap \in DOMAIN registry.capsules /\ job[t].cap \in DOMAIN registry_file.capsules
        BY <1>1, <2>1 DEF Settled
    <2>3. DOMAIN acked' = DOMAIN acked \cup {job[t].cap}
        BY <1>1 DEF Put
    <2> QED  BY <1>1, <1>3, <2>1, <2>2, <2>3, KeepsIdle DEF memory, disk
<1> QED  BY <1>1, <1>4, <1>5, <1>6, IndInvIs, StepIs DEF memory, disk

(* A new call.                                                             *)
LEMMA StartIs ==
    ASSUME IndInv, NEW t \in Threads, NEW op, Start(t, op)
    PROVE  /\ job[t].pc = "idle" /\ saving[t] = "no" /\ job[t].segs = << >> /\ mode' = "up"
           /\ usage.calls = "serial" =>
                /\ \A u \in Threads \ {t} : job[u].pc = "idle"
                /\ Saved(data_of, registry, segment_map, registry_file, segments_file)
                /\ DOMAIN acked \subseteq DOMAIN registry_file.capsules
                /\ DOMAIN acked \subseteq DOMAIN registry.capsules
           /\ op = "write" => \A u \in Threads : job[u].pc \in WritePcs \cup {"idle"}
           /\ op # "write" => \A u \in Threads : job[u].pc \notin WritePcs
<1>1. job[t].pc = "idle" /\ saving[t] = "no" /\ mode \in {"up", "recovered"} /\ mode' = "up"
    BY DEF Start, At
<1>2. job[t].segs = << >> /\ usage.calls \in {"serial", "apart"}
    BY <1>1 DEF IndInv, Calls
<1>3. CASE usage.calls = "serial"
    <2>1. \A u \in Threads : job[u].pc = "idle"
        BY <1>3 DEF Start, At
    <2>2. \A u \in Threads : job[u].pc \notin WritePcs
        BY <2>1 DEF WritePcs
    <2> QED  BY <1>1, <1>2, <1>3, <2>1, <2>2 DEF IndInv, Disk
<1>4. CASE usage.calls = "apart"
    <2>1. \A u \in Threads : IF op = "write" THEN ~Reclaiming(u) ELSE ~Writing(u)
        BY <1>4 DEF Start
    <2> QED  BY <1>1, <1>2, <1>4, <2>1 DEF Reclaiming, Writing
<1> QED  BY <1>2, <1>3, <1>4

LEMMA StartAct ==
    ASSUME IndInv, NEW t \in Threads, NEW op, Start(t, op), Becomes(job, t, job'[t], job'),
           job'[t].pc \notin {"idle", "reconcile"},
           saving' \in [Threads -> Saves], \A u \in Threads \ {t} : saving'[u] = saving[u],
           UNCHANGED <<snap, crashes, usage>>
    PROVE  Act(t)
BY IndInvIs, StartIs DEF Act

LEMMA StepWriteCapsule ==
    ASSUME IsFiniteSet(Threads), IndInv, NEW t \in Threads, NEW data \in Datas, NEW dedupe \in BOOLEAN,
           WriteCapsule(t, data, dedupe)
    PROVE  IndInv'
<1> DEFINE k == [IdleJob EXCEPT !.pc = "chunk", !.todo = data, !.cap = Len(data_of) + 1, !.dedupe = dedupe]
<1>1. /\ Start(t, "write") /\ data_of' = Append(data_of, data) /\ job' = [job EXCEPT ![t] = k]
      /\ UNCHANGED <<memory, disk, saving, snap, acked, crashes, usage>>
    BY DEF WriteCapsule
<1>2. data \in Seq(Contents)
    <2>1. PICK n \in 0 .. MaxChunks : data \in [1 .. n -> Contents]
        BY DEF Datas
    <2> QED  BY <2>1
<1>3. Len(data_of) \in Nat
    BY IndInvIs, LenProperties
<1> DEFINE c == Len(data_of) + 1
<1>4. c \in Nat
    BY <1>3
<1> HIDE DEF c
<1>5. /\ k \in Jobs /\ k.pc = "chunk" /\ k.todo = data /\ k.cap = Len(data_of) + 1 /\ k.segs = << >>
    <2>1. k = [IdleJob EXCEPT !.pc = "chunk", !.todo = data, !.cap = c, !.dedupe = dedupe]
        BY DEF c
    <2>2. << >> \in Seq(Nat)
        BY EmptySeq
    <2> HIDE DEF k
    <2>3. k \in Jobs /\ k.pc = "chunk" /\ k.todo = data /\ k.cap = c /\ k.segs = << >>
        BY <1>2, <1>4, <2>1, <2>2 DEF IdleJob, Jobs, Pcs, WritePcs, Hash
    <2> QED  BY <2>3 DEF c
<1> HIDE DEF k
<1>6. job'[t] = k /\ Becomes(job, t, k, job')
    BY <1>1, <1>5, IndInvIs, BecomesIs DEF JobsOf
<1>7. Types(data_of', registry, segment_map, job') /\ Inv(data_of', registry, segment_map, job')
    BY <1>1, <1>2, <1>5, <1>6, IndInvIs, StartIs, WriterStarts
<1>8. Act(t)
    BY <1>1, <1>5, <1>6, IndInvIs, StartAct
<1>9. usage.calls = "serial" => Keeps(t)
    <2> SUFFICES ASSUME usage.calls = "serial"
                 PROVE  Keeps(t)
        OBVIOUS
    <2>1. /\ Saved(data_of, registry, segment_map, registry_file, segments_file)
          /\ DOMAIN acked \subseteq DOMAIN registry_file.capsules
          /\ DOMAIN acked \subseteq DOMAIN registry.capsules /\ saving[t] = "no"
        BY <1>1, StartIs
    <2>2. Saved(data_of', registry, segment_map, registry_file, segments_file)
        BY <1>1, <1>2, <2>1, IndInvIs, FitsMoreData DEF Saved
    <2>3. Settled(k, "no", snap[t], registry, segment_map, registry_file, segments_file)
        BY <1>5 DEF Settled, FreshPcs
    <2> QED  BY <1>1, <1>6, <2>1, <2>2, <2>3 DEF Keeps, memory, disk
<1> QED  BY <1>1, <1>7, <1>8, <1>9, IndInvIs, StepIs DEF memory, disk

-----------------------------------------------------------------------------
(* The steps of a delete or a sweep.                                       *)

LEMMA ReclaimingIs ==
    ASSUME IndInv, NEW t \in Threads, job[t].pc \notin WritePcs \cup {"idle"}
    PROVE  /\ \A u \in Threads : job[u].pc \notin WritePcs
           /\ Doomed(registry, job, job[t]) /\ job[t] \in Jobs
<1>1. Doomed(registry, job, job[t])
    BY DEF IndInv, Inv, JobOK
<1>2. \A u \in Threads \ {t} : Distinct(job, u, t)
    BY DEF IndInv, Inv
<1>3. job[t] \in Jobs
    BY IndInvIs, JobType
<1> QED  BY <1>1, <1>2, <1>3 DEF Distinct

(* Any call may return, whatever it was doing.                             *)
LEMMA CallEnds ==
    ASSUME IsFiniteSet(Threads), IndInv, NEW t \in Threads, job[t].pc # "idle", Return(t),
           saving' \in [Threads -> Saves], saving'[t] = "no", \A u \in Threads \ {t} : saving'[u] = saving[u],
           snap' \in [Threads -> Registries], \A u \in Threads \ {t} : snap'[u] = snap[u],
           mode' \in {mode, "up"} \/ (mode = "recover" /\ mode' = "recovered"),
           UNCHANGED <<memory, disk, data_of, acked, crashes, usage>>
    PROVE  IndInv'
<1>1. /\ Becomes(job, t, job'[t], job') /\ job'[t] \in Jobs /\ job'[t].pc = "idle" /\ job'[t].segs = << >>
    BY IndInvIs, ReturnIs
<1>2. Types(data_of, registry, segment_map, job') /\ Inv(data_of, registry, segment_map, job')
    <2>1. registry \in Registries /\ registry.next_segment_id >= registry.next_segment_id
          /\ segment_map \in Maps
        BY IndInvIs, RegistryType
    <2>2. CASE job[t].pc \in WritePcs
        BY <1>1, <2>1, <2>2, IndInvIs, WriterQuiet DEF WritePcs
    <2>3. CASE job[t].pc \notin WritePcs
        <3>1. \A u \in Threads : job[u].pc \notin WritePcs
            BY <2>3, ReclaimingIs
        <3>2. Doomed(registry, job, job'[t]) /\ job'[t].pc \notin WritePcs
            BY <1>1 DEF Doomed, WritePcs
        <3> QED  BY <1>1, <2>1, <3>1, <3>2, IndInvIs, ReclaimQuiet
    <2> QED  BY <2>2, <2>3
<1>3. Act(t)
    <2>1. /\ mode \in {"up", "recover", "recovered"} /\ (usage.calls # "serial" => mode = "up")
          /\ usage.calls = "serial" => \A u \in Threads \ {t} : job[u].pc = "idle"
        BY Running
    <2> QED  BY <1>1, <2>1 DEF Act
<1>4. usage.calls = "serial" => Keeps(t)
    BY <1>1, Running, KeepsIdle DEF memory, disk
<1> QED  BY <1>2, <1>3, <1>4, IndInvIs, StepIs DEF memory, disk

LEMMA StepDeleteReturns ==
    ASSUME IsFiniteSet(Threads), IndInv, NEW t \in Threads, DeleteReturns(t)
    PROVE  IndInv'
<1>1. job[t].pc # "idle" /\ saving[t] = "no" /\ Return(t)
      /\ UNCHANGED <<mode, memory, disk, saving, snap, data_of, acked, crashes, usage>>
    BY DEF DeleteReturns, At
<1> QED  BY <1>1, IndInvIs, CallEnds

LEMMA StepSweepReturns ==
    ASSUME IsFiniteSet(Threads), IndInv, NEW t \in Threads, SweepReturns(t)
    PROVE  IndInv'
<1>1. job[t].pc # "idle" /\ saving[t] = "no" /\ Return(t)
      /\ mode' = (IF mode = "recover" THEN "recovered" ELSE mode)
      /\ UNCHANGED <<memory, disk, saving, snap, data_of, acked, crashes, usage>>
    BY DEF SweepReturns, At
<1>2. mode' \in {mode, "up"} \/ (mode = "recover" /\ mode' = "recovered")
    BY <1>1
<1> QED  BY <1>1, <1>2, IndInvIs, CallEnds

LEMMA StepSaveFails ==
    ASSUME IsFiniteSet(Threads), IndInv, NEW t \in Threads, SaveFails(t)
    PROVE  IndInv'
<1>1. /\ saving[t] \in {"log", "clone"} /\ Return(t) /\ Owe(t, "no") /\ mode' = "up"
      /\ snap' = [snap EXCEPT ![t] = EmptyRegistry]
      /\ UNCHANGED <<memory, disk, data_of, acked, crashes, usage>>
    BY DEF SaveFails
<1>2. job[t].pc # "idle"
    BY <1>1 DEF IndInv, Calls
<1>3. saving' \in [Threads -> Saves] /\ saving'[t] = "no" /\ \A u \in Threads \ {t} : saving'[u] = saving[u]
    <2>1. "no" \in Saves /\ saving \in [Threads -> Saves]
        BY IndInvIs DEF Saves
    <2> QED  BY <1>1, <2>1, OweIs
<1>4. snap' \in [Threads -> Registries] /\ \A u \in Threads \ {t} : snap'[u] = snap[u]
    BY <1>1, IndInvIs, EmptyType
<1> QED  BY <1>1, <1>2, <1>3, <1>4, CallEnds

(* deregister_content.                                                     *)
LEMMA DeregisterIs ==
    ASSUME IndInv, NEW t \in Threads, saving[t] = "no", NEW hash, NEW id,
           Deregister(t, hash, id) \/ UNCHANGED <<registry, saving>>
    PROVE  /\ registry' \in Registries /\ registry'.capsules = registry.capsules
           /\ registry'.next_segment_id = registry.next_segment_id
           /\ \A h \in DOMAIN registry'.content_store :
                  h \in DOMAIN registry.content_store /\ registry'.content_store[h] = registry.content_store[h]
           /\ \A m : Fits(data_of, registry, m) => Fits(data_of, registry', m)
           /\ saving' \in [Threads -> Saves] /\ saving'[t] \in {"no", "registry"}
           /\ \A u \in Threads \ {t} : saving'[u] = saving[u]
<1>1. registry \in Registries /\ registry.content_store \in Stores /\ saving \in [Threads -> Saves]
    BY IndInvIs, RegistryType
<1>2. CASE UNCHANGED <<registry, saving>>
    BY <1>1, <1>2
<1>3. CASE ~UNCHANGED <<registry, saving>>
    <2> DEFINE st == Drop(registry.content_store, hash)
    <2>1. registry' = [registry EXCEPT !.content_store = st] /\ Owe(t, "registry")
        BY <1>3 DEF Deregister
    <2>2. st \in Stores /\ IsDrop(st, registry.content_store, hash)
        BY <1>1, DropStore
    <2>3. \A h \in DOMAIN st : h \in DOMAIN registry.content_store /\ st[h] = registry.content_store[h]
        BY <2>2 DEF IsDrop
    <2> HIDE DEF st
    <2>4. /\ registry' \in Registries /\ registry'.capsules = registry.capsules
          /\ registry'.next_segment_id = registry.next_segment_id /\ registry'.content_store = st
        BY <1>1, <2>1, <2>2 DEF Registries
    <2>5. \A m : Fits(data_of, registry, m) => Fits(data_of, registry', m)
        BY <2>3, <2>4 DEF Fits
    <2>6. saving' \in [Threads -> Saves] /\ saving'[t] = "registry" /\ \A u \in Threads \ {t} : saving'[u] = saving[u]
        <3>1. "registry" \in Saves
            BY DEF Saves
        <3> QED  BY <1>1, <2>1, <3>1, OweIs
    <2> QED  BY <2>3, <2>4, <2>5, <2>6
<1> QED  BY <1>2, <1>3

LEMMA StepDeregisterContent ==
    ASSUME IsFiniteSet(Threads), IndInv, NEW t \in Threads, DeregisterContent(t)
    PROVE  IndInv'
<1>1. /\ job[t].pc = "deregister" /\ saving[t] = "no" /\ Deregister(t, job[t].hash, job[t].seg)
      /\ Goto(t, "remove")
      /\ UNCHANGED <<mode, segment_map, disk, snap, data_of, acked, crashes, usage>>
    BY DEF DeregisterContent, At
<1>2. job[t].pc \notin WritePcs \cup {"idle"} /\ job[t].pc # "idle" /\ "remove" \in Pcs
    BY <1>1 DEF WritePcs, Pcs
<1>3. (\A u \in Threads : job[u].pc \notin WritePcs) /\ Doomed(registry, job, job[t])
    BY <1>2, ReclaimingIs
<1>4. /\ registry' \in Registries /\ registry'.capsules = registry.capsules
      /\ registry'.next_segment_id = registry.next_segment_id
      /\ \A h \in DOMAIN registry'.content_store :
             h \in DOMAIN registry.content_store /\ registry'.content_store[h] = registry.content_store[h]
      /\ \A m : Fits(data_of, registry, m) => Fits(data_of, registry', m)
      /\ saving' \in [Threads -> Saves] /\ saving'[t] \in {"no", "registry"}
      /\ \A u \in Threads \ {t} : saving'[u] = saving[u]
    BY <1>1, DeregisterIs
<1>5. /\ Becomes(job, t, job'[t], job') /\ job'[t] \in Jobs /\ job'[t].pc = "remove"
      /\ job'[t].segs = job[t].segs /\ job'[t].seg = job[t].seg
    BY <1>1, <1>2, IndInvIs, GotoIs
<1>6. Types(data_of, registry', segment_map, job') /\ Inv(data_of, registry', segment_map, job')
    <2>1. Doomed(registry, job, job'[t]) /\ job'[t].pc \notin WritePcs
        BY <1>1, <1>3, <1>5 DEF Doomed, WritePcs
    <2> QED  BY <1>3, <1>4, <1>5, <2>1, IndInvIs, ReclaimQuiet
<1>7. Act(t)
    BY <1>1, <1>2, <1>4, <1>5, ActIs
<1>8. usage.calls = "serial" => Keeps(t)
    <2> SUFFICES ASSUME usage.calls = "serial"
                 PROVE  Keeps(t)
        OBVIOUS
    <2>1. /\ Saved(data_of, registry, segment_map, registry_file, segments_file)
          /\ Settled(job[t], saving[t], snap[t], registry, segment_map, registry_file, segments_file)
          /\ DOMAIN acked \subseteq DOMAIN registry_file.capsules
          /\ DOMAIN acked \subseteq DOMAIN registry.capsules
        BY <1>2, Running
    <2>2. Saved(data_of, registry', segment_map, registry_file, segments_file)
        BY <1>4, <2>1 DEF Saved
    <2>3. Settled(job'[t], saving'[t], snap[t], registry', segment_map, registry_file, segments_file)
        BY <1>1, <1>4, <1>5, <2>1 DEF Settled, WritePcs
    <2> QED  BY <1>1, <1>4, <2>1, <2>2, <2>3 DEF Keeps, disk
<1> QED  BY <1>1, <1>6, <1>7, <1>8, IndInvIs, StepIs DEF disk

(* A segment without users has no references.                              *)
LEMMA UnusedIs ==
    ASSUME IsFiniteSet(Threads), IndInv, NEW id, Uses(registry, job, id) = 0
    PROVE  References(registry.capsules, id) = 0
<1>1. /\ Uses(registry, job, id) = References(registry.capsules, id) + Holds(job, id)
      /\ References(registry.capsules, id) \in Nat /\ Holds(job, id) \in Nat
    BY IndInvIs, UsesType
<1> QED  BY <1>1

(* remove_segment.                                                         *)
LEMMA DropIs ==
    ASSUME IndInv, NEW id, segment_map' = Drop(segment_map, id)
    PROVE  /\ segment_map' \in Maps
           /\ \A x \in DOMAIN segment_map' :
                  x \in DOMAIN segment_map /\ segment_map'[x].ref_count = segment_map[x].ref_count
           /\ \A r \in Registries :
                  Below(data_of, r) /\ Fits(data_of, r, segment_map) /\ References(r.capsules, id) = 0
                    => Fits(data_of, r, segment_map')
<1>1. segment_map' \in Maps /\ IsDrop(segment_map', segment_map, id)
    BY IndInvIs, DropSegment
<1>2. \A x \in DOMAIN segment_map' : x \in DOMAIN segment_map /\ segment_map'[x] = segment_map[x]
    BY <1>1 DEF IsDrop
<1>3. ASSUME NEW r \in Registries, Below(data_of, r), Fits(data_of, r, segment_map),
             References(r.capsules, id) = 0
      PROVE  Fits(data_of, r, segment_map')
    BY <1>1, <1>3, IndInvIs, FitsDropped
<1> QED  BY <1>1, <1>2, <1>3

(* A delete or a sweep goes on: hashes and unused segments may be gone.    *)
LEMMA ReclaimGoesOn ==
    ASSUME IsFiniteSet(Threads), IndInv, NEW t \in Threads, job[t].pc \notin WritePcs \cup {"idle"},
           Becomes(job, t, job'[t], job'), job'[t] \in Jobs, job'[t].segs = job[t].segs,
           job'[t].pc \in {"decrement", "sweep", "reclaim"}, Doomed(registry, job, job'[t]),
           saving' \in [Threads -> Saves], \A u \in Threads \ {t} : saving'[u] = saving[u],
           registry' \in Registries, registry'.capsules = registry.capsules,
           registry'.next_segment_id = registry.next_segment_id,
           \A h \in DOMAIN registry'.content_store :
               h \in DOMAIN registry.content_store /\ registry'.content_store[h] = registry.content_store[h],
           \A m : Fits(data_of, registry, m) => Fits(data_of, registry', m),
           segment_map' \in Maps, Fits(data_of, registry, segment_map'),
           \A id \in DOMAIN segment_map' :
               id \in DOMAIN segment_map /\ segment_map'[id].ref_count = segment_map[id].ref_count,
           usage.calls = "serial" =>
               /\ Fits(data_of, registry_file, segment_map')
               /\ Settled(job'[t], saving'[t], snap[t], registry', segment_map', registry_file, segments_file),
           UNCHANGED <<mode, disk, snap, data_of, acked, crashes, usage>>
    PROVE  IndInv'
<1>1. job[t].pc # "idle" /\ \A u \in Threads : job[u].pc \notin WritePcs
    BY ReclaimingIs
<1>2. job'[t].pc \notin WritePcs /\ job'[t].pc # "idle" /\ job'[t].pc # "reconcile"
    BY DEF WritePcs
<1>3. Types(data_of, registry', segment_map', job') /\ Inv(data_of, registry', segment_map', job')
    BY <1>1, <1>2, IndInvIs, ReclaimQuiet
<1>4. Act(t)
    BY <1>1, <1>2, ActIs
<1>5. usage.calls = "serial" => Keeps(t)
    <2> SUFFICES ASSUME usage.calls = "serial"
                 PROVE  Keeps(t)
        OBVIOUS
    <2>1. /\ Saved(data_of, registry, segment_map, registry_file, segments_file)
          /\ DOMAIN acked \subseteq DOMAIN registry_file.capsules
          /\ DOMAIN acked \subseteq DOMAIN registry.capsules
        BY <1>1, Running
    <2>2. Saved(data_of, registry', segment_map', registry_file, segments_file)
        BY <2>1 DEF Saved
    <2> QED  BY <2>1, <2>2 DEF Keeps, disk
<1> QED  BY <1>3, <1>4, <1>5, IndInvIs, StepIs DEF disk

LEMMA StepRemoveSegment ==
    ASSUME IsFiniteSet(Threads), IndInv, NEW t \in Threads, RemoveSegment(t)
    PROVE  IndInv'
<1> DEFINE id == job[t].seg
<1>1. /\ job[t].pc = "remove" /\ saving[t] = "no" /\ Goto(t, "decrement")
      /\ IF id \in DOMAIN segment_map
         THEN segment_map' = Drop(segment_map, id) /\ Owe(t, "log")
         ELSE UNCHANGED <<segment_map, saving>>
      /\ UNCHANGED <<mode, registry, disk, snap, data_of, acked, crashes, usage>>
    BY DEF RemoveSegment, At
<1>2. job[t].pc \notin WritePcs \cup {"idle"} /\ job[t].pc # "idle" /\ "decrement" \in Pcs
    BY <1>1 DEF WritePcs, Pcs
<1>3. Uses(registry, job, id) = 0
    BY <1>1, <1>2, ReclaimingIs DEF Doomed
<1>4. References(registry.capsules, id) = 0
    BY <1>3, UnusedIs
<1>5. /\ Becomes(job, t, job'[t], job') /\ job'[t] \in Jobs /\ job'[t].pc = "decrement"
      /\ job'[t].segs = job[t].segs
    BY <1>1, <1>2, IndInvIs, GotoIs
<1> HIDE DEF id
<1>6. /\ segment_map' \in Maps
      /\ \A x \in DOMAIN segment_map' :
             x \in DOMAIN segment_map /\ segment_map'[x].ref_count = segment_map[x].ref_count
      /\ \A r \in Registries :
             Below(data_of, r) /\ Fits(data_of, r, segment_map) /\ References(r.capsules, id) = 0
               => Fits(data_of, r, segment_map')
    <2>1. CASE id \in DOMAIN segment_map
        BY <1>1, <2>1, DropIs
    <2>2. CASE id \notin DOMAIN segment_map
        BY <1>1, <2>2, IndInvIs
    <2> QED  BY <2>1, <2>2
<1>7. /\ saving' \in [Threads -> Saves] /\ saving'[t] \in {"no", "log"}
      /\ \A u \in Threads \ {t} : saving'[u] = saving[u]
    <2>1. "log" \in Saves /\ saving \in [Threads -> Saves]
        BY IndInvIs DEF Saves
    <2>2. CASE id \in DOMAIN segment_map
        BY <1>1, <2>1, <2>2, OweIs
    <2>3. CASE id \notin DOMAIN segment_map
        BY <1>1, <2>1, <2>3
    <2> QED  BY <2>2, <2>3
<1>8. Fits(data_of, registry, segment_map')
    BY <1>4, <1>6, IndInvIs
<1>9. Doomed(registry, job, job'[t])
    BY <1>5 DEF Doomed
<1>10. usage.calls = "serial" =>
           /\ Fits(data_of, registry_file, segment_map')
           /\ Settled(job'[t], saving'[t], snap[t], registry, segment_map', registry_file, segments_file)
    <2> SUFFICES ASSUME usage.calls = "serial"
                 PROVE  /\ Fits(data_of, registry_file, segment_map')
                        /\ Settled(job'[t], saving'[t], snap[t], registry, segment_map', registry_file, segments_file)
        OBVIOUS
    <2>1. /\ Saved(data_of, registry, segment_map, registry_file, segments_file)
          /\ Settled(job[t], saving[t], snap[t], registry, segment_map, registry_file, segments_file)
        BY <1>2, Running
    <2>2. registry_file.capsules = registry.capsules
        BY <1>1, <2>1 DEF Settled
    <2>3. Fits(data_of, registry_file, segment_map')
        BY <1>4, <1>6, <2>1, <2>2, IndInvIs DEF Saved
    <2>4. Settled(job'[t], saving'[t], snap[t], registry, segment_map', registry_file, segments_file)
        BY <1>5, <1>7, <2>2 DEF Settled, WritePcs
    <2> QED  BY <2>3, <2>4
<1> QED  BY <1>1, <1>2, <1>5, <1>6, <1>7, <1>8, <1>9, <1>10, IndInvIs, ReclaimGoesOn

LEMMA StepReclaimRemove ==
    ASSUME IsFiniteSet(Threads), IndInv, NEW t \in Threads, ReclaimRemove(t)
    PROVE  IndInv'
<1> DEFINE id == job[t].seg
<1>1. /\ job[t].pc = "reclaim" /\ saving[t] = "no"
      /\ UNCHANGED <<mode, registry, disk, snap, data_of, acked, crashes, usage>>
    BY DEF ReclaimRemove, At
<1>2. job[t].pc \notin WritePcs \cup {"idle"} /\ job[t].pc # "idle" /\ "sweep" \in Pcs
    BY <1>1 DEF WritePcs, Pcs
<1>3. CASE id \notin DOMAIN segment_map
    <2>1. Return(t) /\ UNCHANGED <<segment_map, saving>>
        BY <1>3 DEF ReclaimRemove
    <2>2. UNCHANGED <<memory, disk, data_of, acked, crashes, usage>>
        BY <1>1, <2>1 DEF memory
    <2> QED  BY <1>1, <1>2, <2>1, <2>2, IndInvIs, CallEnds
<1>4. CASE id \in DOMAIN segment_map
    <2>1. segment_map' = Drop(segment_map, id) /\ Owe(t, "log") /\ Goto(t, "sweep")
        BY <1>4 DEF ReclaimRemove
    <2>2. Uses(registry, job, id) = 0
        BY <1>1, <1>2, ReclaimingIs DEF Doomed
    <2>3. References(registry.capsules, id) = 0
        BY <2>2, UnusedIs
    <2>4. /\ Becomes(job, t, job'[t], job') /\ job'[t] \in Jobs /\ job'[t].pc = "sweep"
          /\ job'[t].segs = job[t].segs /\ job'[t].victims = job[t].victims
        BY <1>2, <2>1, IndInvIs, GotoIs
    <2>5. /\ segment_map' \in Maps
          /\ \A x \in DOMAIN segment_map' :
                 x \in DOMAIN segment_map /\ segment_map'[x].ref_count = segment_map[x].ref_count
          /\ \A r \in Registries :
                 Below(data_of, r) /\ Fits(data_of, r, segment_map) /\ References(r.capsules, id) = 0
                   => Fits(data_of, r, segment_map')
        BY <2>1, DropIs
    <2>6. saving' \in [Threads -> Saves] /\ saving'[t] = "log" /\ \A u \in Threads \ {t} : saving'[u] = saving[u]
        <3>1. "log" \in Saves /\ saving \in [Threads -> Saves]
            BY IndInvIs DEF Saves
        <3> QED  BY <2>1, <3>1, OweIs
    <2>7. Fits(data_of, registry, segment_map')
        BY <2>3, <2>5, IndInvIs
    <2>8. Doomed(registry, job, job'[t])
        BY <1>1, <1>2, <2>4, ReclaimingIs DEF Doomed
    <2>9. usage.calls = "serial" =>
               /\ Fits(data_of, registry_file, segment_map')
               /\ Settled(job'[t], saving'[t], snap[t], registry, segment_map', registry_file, segments_file)
        <3> SUFFICES ASSUME usage.calls = "serial"
                     PROVE  /\ Fits(data_of, registry_file, segment_map')
                            /\ Settled(job'[t], saving'[t], snap[t], registry, segment_map', registry_file,
                                       segments_file)
            OBVIOUS
        <3>1. /\ Saved(data_of, registry, segment_map, registry_file, segments_file)
              /\ Settled(job[t], saving[t], snap[t], registry, segment_map, registry_file, segments_file)
            BY <1>2, Running
        <3>2. References(registry_file.capsules, id) = 0
            BY <1>1, <3>1 DEF Settled
        <3>3. Fits(data_of, registry_file, segment_map')
            BY <2>5, <3>1, <3>2, IndInvIs DEF Saved
        <3>4. Settled(job'[t], saving'[t], snap[t], registry, segment_map', registry_file, segments_file)
            BY <1>1, <2>4, <2>6, <3>1 DEF Settled, WritePcs
        <3> QED  BY <3>3, <3>4
    <2>10. registry \in Registries
        BY IndInvIs
    <2> QED  BY <1>1, <1>2, <2>4, <2>5, <2>6, <2>7, <2>8, <2>9, <2>10, ReclaimGoesOn
<1> QED  BY <1>3, <1>4

LEMMA StepReclaimDeregister ==
    ASSUME IsFiniteSet(Threads), IndInv, NEW t \in Threads, NEW v \in job[t].victims, ReclaimDeregister(t, v)
    PROVE  IndInv'
<1> DEFINE id == v.id
           rest == job[t].victims \ {v}
           k == [job[t] EXCEPT !.pc = "reclaim", !.seg = id, !.victims = rest]
<1>1. /\ job[t].pc = "sweep" /\ saving[t] = "no" /\ job' = [job EXCEPT ![t] = k]
      /\ Deregister(t, v.hash, v.id) \/ UNCHANGED <<registry, saving>>
      /\ UNCHANGED <<mode, segment_map, disk, snap, data_of, acked, crashes, usage>>
    BY DEF ReclaimDeregister, At
<1>2. job[t].pc \notin WritePcs \cup {"idle"} /\ job[t].pc # "idle"
    BY <1>1 DEF WritePcs
<1>3. Doomed(registry, job, job[t]) /\ job[t] \in Jobs
    BY <1>2, ReclaimingIs
<1>4. v \in Victim /\ Uses(registry, job, id) = 0 /\ \A w \in rest : w \in Victim /\ Uses(registry, job, w.id) = 0
    BY <1>1, <1>3 DEF Doomed
<1>5. id \in Nat /\ rest \in SUBSET (Nat \cup Victim)
    BY <1>3, <1>4 DEF Victim, Jobs
<1> HIDE DEF id, rest
<1>6. /\ k \in Jobs /\ k.pc = "reclaim" /\ k.seg = id /\ k.victims = rest /\ k.segs = job[t].segs
    BY <1>3, <1>5 DEF Jobs, Pcs
<1> HIDE DEF k
<1>7. job'[t] = k /\ Becomes(job, t, k, job')
    BY <1>1, <1>6, IndInvIs, BecomesIs DEF JobsOf
<1>8. /\ registry' \in Registries /\ registry'.capsules = registry.capsules
      /\ registry'.next_segment_id = registry.next_segment_id
      /\ \A h \in DOMAIN registry'.content_store :
             h \in DOMAIN registry.content_store /\ registry'.content_store[h] = registry.content_store[h]
      /\ \A m : Fits(data_of, registry, m) => Fits(data_of, registry', m)
      /\ saving' \in [Threads -> Saves] /\ saving'[t] \in {"no", "registry"}
      /\ \A u \in Threads \ {t} : saving'[u] = saving[u]
    BY <1>1, DeregisterIs
<1>9. Doomed(registry, job, k)
    BY <1>4, <1>6 DEF Doomed
<1>10. usage.calls = "serial" =>
           /\ Fits(data_of, registry_file, segment_map)
           /\ Settled(k, saving'[t], snap[t], registry', segment_map, registry_file, segments_file)
    <2> SUFFICES ASSUME usage.calls = "serial"
                 PROVE  /\ Fits(data_of, registry_file, segment_map)
                        /\ Settled(k, saving'[t], snap[t], registry', segment_map, registry_file, segments_file)
        OBVIOUS
    <2>1. /\ Saved(data_of, registry, segment_map, registry_file, segments_file)
          /\ Settled(job[t], saving[t], snap[t], registry, segment_map, registry_file, segments_file)
        BY <1>2, Running
    <2>2. References(registry_file.capsules, id) = 0 /\ \A w \in rest : References(registry_file.capsules, w.id) = 0
        BY <1>1, <2>1 DEF Settled, id, rest
    <2>3. Settled(k, saving'[t], snap[t], registry', segment_map, registry_file, segments_file)
        BY <1>6, <1>8, <2>2 DEF Settled, WritePcs
    <2> QED  BY <2>1, <2>3 DEF Saved
<1>11. segment_map \in Maps /\ Fits(data_of, registry, segment_map)
    BY IndInvIs
<1> QED  BY <1>1, <1>2, <1>6, <1>7, <1>8, <1>9, <1>10, <1>11, ReclaimGoesOn

(* list_segments, filtered by a count of zero: nobody uses these.          *)
LEMMA ZeroRefsIs ==
    ASSUME IsFiniteSet(Threads), IndInv
    PROVE  /\ ZeroRefs \in SUBSET (Nat \cup Victim)
           /\ \A v \in ZeroRefs : /\ v \in Victim /\ Uses(registry, job, v.id) = 0
                                  /\ \A r \in Registries : Below(data_of, r) /\ Fits(data_of, r, segment_map) =>
                                         References(r.capsules, v.id) = 0
<1> SUFFICES ASSUME NEW v \in ZeroRefs
             PROVE  /\ v \in Victim /\ Uses(registry, job, v.id) = 0
                    /\ \A r \in Registries : Below(data_of, r) /\ Fits(data_of, r, segment_map) =>
                           References(r.capsules, v.id) = 0
    OBVIOUS
<1>1. PICK id \in DOMAIN segment_map : /\ v = [id |-> id, hash |-> segment_map[id].hash]
                                       /\ segment_map[id].ref_count = 0
    BY DEF ZeroRefs
<1>2. id \in Nat /\ segment_map[id].hash \in Hash
    BY IndInvIs, SegmentType
<1>3. v \in Victim /\ v.id = id
    BY <1>1, <1>2 DEF Victim
<1>4. Uses(registry, job, id) = 0
    <2>1. segment_map[id].ref_count >= Uses(registry, job, id)
        BY IndInvIs DEF Inv
    <2>2. Uses(registry, job, id) \in Nat
        BY IndInvIs, UsesType
    <2> QED  BY <1>1, <2>1, <2>2
<1>5. ASSUME NEW r \in Registries, Below(data_of, r), Fits(data_of, r, segment_map)
      PROVE  References(r.capsules, id) = 0
    <2>1. segment_map[id].ref_count >= References(r.capsules, id)
        BY <1>5 DEF Fits
    <2>2. References(r.capsules, id) \in Nat
        BY <1>5, IndInvIs, RegistryType, FiniteCapsules, RefsFinite
    <2> QED  BY <1>1, <2>1, <2>2
<1> QED  BY <1>3, <1>4, <1>5

LEMMA StepReconcileSweep ==
    ASSUME IsFiniteSet(Threads), IndInv, NEW t \in Threads, ReconcileSweep(t)
    PROVE  IndInv'
<1> DEFINE vs == ZeroRefs
           k == [job[t] EXCEPT !.pc = "sweep", !.victims = vs]
<1>1. /\ job[t].pc = "reconcile" /\ saving[t] = "no" /\ job' = [job EXCEPT ![t] = k]
      /\ UNCHANGED <<mode, registry, segment_map, disk, saving, snap, data_of, acked, crashes, usage>>
    BY DEF ReconcileSweep, At, memory
<1>2. job[t].pc \notin WritePcs \cup {"idle"} /\ job[t].pc # "idle"
    BY <1>1 DEF WritePcs
<1>3. /\ vs \in SUBSET (Nat \cup Victim)
      /\ \A v \in vs : /\ v \in Victim /\ Uses(registry, job, v.id) = 0
                       /\ \A r \in Registries : Below(data_of, r) /\ Fits(data_of, r, segment_map) =>
                              References(r.capsules, v.id) = 0
    BY ZeroRefsIs
<1> HIDE DEF vs
<1>4. /\ k \in Jobs /\ k.pc = "sweep" /\ k.victims = vs /\ k.segs = job[t].segs
    BY <1>2, <1>3, ReclaimingIs DEF Jobs, Pcs
<1> HIDE DEF k
<1>5. job'[t] = k /\ Becomes(job, t, k, job')
    BY <1>1, <1>4, IndInvIs, BecomesIs DEF JobsOf
<1>6. Doomed(registry, job, k)
    BY <1>3, <1>4 DEF Doomed
<1>7. usage.calls = "serial" =>
           /\ Fits(data_of, registry_file, segment_map)
           /\ Settled(k, "no", snap[t], registry, segment_map, registry_file, segments_file)
    <2> SUFFICES ASSUME usage.calls = "serial"
                 PROVE  /\ Fits(data_of, registry_file, segment_map)
                        /\ Settled(k, "no", snap[t], registry, segment_map, registry_file, segments_file)
        OBVIOUS
    <2>1. Saved(data_of, registry, segment_map, registry_file, segments_file)
        BY <1>2, Running
    <2>2. \A v \in vs : References(registry_file.capsules, v.id) = 0
        BY <1>3, <2>1, IndInvIs DEF Saved
    <2> QED  BY <1>4, <2>1, <2>2 DEF Settled, WritePcs, Saved
<1>8. /\ segment_map \in Maps /\ Fits(data_of, registry, segment_map) /\ registry \in Registries
      /\ saving \in [Threads -> Saves]
    BY IndInvIs
<1> QED  BY <1>1, <1>2, <1>4, <1>5, <1>6, <1>7, <1>8, ReclaimGoesOn

LEMMA StepGarbageCollect ==
    ASSUME IsFiniteSet(Threads), IndInv, NEW t \in Threads, GarbageCollect(t)
    PROVE  IndInv'
<1> DEFINE vs == ZeroRefs
           k == [IdleJob EXCEPT !.pc = "sweep", !.victims = vs]
<1>1. /\ Start(t, "gc") /\ job' = [job EXCEPT ![t] = k]
      /\ UNCHANGED <<registry, segment_map, disk, saving, snap, data_of, acked, crashes, usage>>
    BY DEF GarbageCollect, memory
<1>2. /\ \A u \in Threads : job[u].pc \notin WritePcs
      /\ job[t].segs = << >> /\ saving[t] = "no"
    BY <1>1, StartIs
<1>3. /\ vs \in SUBSET (Nat \cup Victim)
      /\ \A v \in vs : /\ v \in Victim /\ Uses(registry, job, v.id) = 0
                       /\ \A r \in Registries : Below(data_of, r) /\ Fits(data_of, r, segment_map) =>
                              References(r.capsules, v.id) = 0
    BY ZeroRefsIs
<1> HIDE DEF vs
<1>4. k \in Jobs /\ k.pc = "sweep" /\ k.victims = vs /\ k.segs = << >>
    <2>1. << >> \in Seq(Nat) /\ << >> \in Seq(Contents)
        BY EmptySeq
    <2> QED  BY <1>3, <2>1 DEF IdleJob, Jobs, Pcs, Hash
<1> HIDE DEF k
<1>5. job'[t] = k /\ Becomes(job, t, k, job') /\ k.pc \notin WritePcs
    BY <1>1, <1>4, IndInvIs, BecomesIs DEF JobsOf, WritePcs
<1>6. Doomed(registry, job, k)
    BY <1>3, <1>4 DEF Doomed
<1>7. /\ segment_map \in Maps /\ Fits(data_of, registry, segment_map) /\ registry \in Registries
      /\ saving \in [Threads -> Saves]
    BY IndInvIs
<1>8. Types(data_of, registry, segment_map, job') /\ Inv(data_of, registry, segment_map, job')
    BY <1>2, <1>4, <1>5, <1>6, <1>7, IndInvIs, ReclaimQuiet
<1>9. Act(t)
    BY <1>1, <1>4, <1>5, <1>7, StartAct
<1>10. usage.calls = "serial" => Keeps(t)
    <2> SUFFICES ASSUME usage.calls = "serial"
                 PROVE  Keeps(t)
        OBVIOUS
    <2>1. /\ Saved(data_of, registry, segment_map, registry_file, segments_file)
          /\ DOMAIN acked \subseteq DOMAIN registry_file.capsules
          /\ DOMAIN acked \subseteq DOMAIN registry.capsules
        BY <1>1, StartIs
    <2>2. \A v \in vs : References(registry_file.capsules, v.id) = 0
        BY <1>3, <2>1, IndInvIs DEF Saved
    <2>3. Settled(k, "no", snap[t], registry, segment_map, registry_file, segments_file)
        BY <1>4, <2>2 DEF Settled, WritePcs
    <2> QED  BY <1>1, <1>2, <1>5, <2>1, <2>3 DEF Keeps, disk
<1> QED  BY <1>1, <1>8, <1>9, <1>10, IndInvIs, StepIs DEF disk

(* delete_capsule turns the references of the capsule into references the  *)
(* call holds, so that no count changes.                                   *)
LEMMA StepDeleteCapsule ==
    ASSUME IsFiniteSet(Threads), IndInv, NEW t \in Threads, NEW cap, DeleteCapsule(t, cap)
    PROVE  IndInv'
<1> DEFINE cs == Drop(registry.capsules, cap)
           sg == registry.capsules[cap].segments
           k == [IdleJob EXCEPT !.pc = "decrement", !.segs = sg]
<1>1. /\ Start(t, "delete") /\ cap \in DOMAIN registry.capsules /\ job' = [job EXCEPT ![t] = k]
      /\ registry' = [registry EXCEPT !.capsules = cs] /\ acked' = Drop(acked, cap) /\ Owe(t, "registry")
      /\ UNCHANGED <<segment_map, disk, snap, data_of, crashes, usage>>
    BY DEF DeleteCapsule
<1>2. /\ \A u \in Threads : job[u].pc \notin WritePcs
      /\ job[t].segs = << >> /\ saving[t] = "no"
    BY <1>1, StartIs
<1>3. registry \in Registries /\ registry.capsules \in Capsules /\ Below(data_of, registry)
    BY IndInvIs, RegistryType
<1>4. cs \in Capsules /\ IsDrop(cs, registry.capsules, cap) /\ sg \in Seq(Nat)
    BY <1>1, <1>3, DropCapsule, CapsuleType
<1>5. cs = Drop(registry.capsules, cap) /\ sg = registry.capsules[cap].segments
    OBVIOUS
<1> HIDE DEF cs, sg
<1>6. k \in Jobs /\ k.pc = "decrement" /\ k.segs = sg
    <2>1. << >> \in Seq(Nat) /\ << >> \in Seq(Contents)
        BY EmptySeq
    <2> QED  BY <1>4, <2>1 DEF IdleJob, Jobs, Pcs, Hash
<1> HIDE DEF k
<1>7. job'[t] = k /\ Becomes(job, t, k, job')
    BY <1>1, <1>6, IndInvIs, BecomesIs DEF JobsOf
<1>8. /\ registry' \in Registries /\ registry'.capsules = cs
      /\ registry'.content_store = registry.content_store
      /\ registry'.next_segment_id = registry.next_segment_id
    BY <1>1, <1>3, <1>4 DEF Registries
<1>9. Types(data_of, registry', segment_map, job') /\ Inv(data_of, registry', segment_map, job')
    <2>1. registry'.capsules = Drop(registry.capsules, cap) /\ k.segs = registry.capsules[cap].segments
          /\ cap \in DOMAIN registry.capsules
        BY <1>1, <1>5, <1>6, <1>8
    <2>2. Types(data_of, registry, segment_map, job) /\ Inv(data_of, registry, segment_map, job)
        BY IndInvIs
    <2> QED  BY <1>2, <1>6, <1>7, <1>8, <2>1, <2>2, ReclaimDeletes
<1>10. /\ saving' \in [Threads -> Saves] /\ saving'[t] = "registry"
       /\ \A u \in Threads \ {t} : saving'[u] = saving[u]
    <2>1. "registry" \in Saves /\ saving \in [Threads -> Saves]
        BY IndInvIs DEF Saves
    <2> QED  BY <1>1, <2>1, OweIs
<1>11. Act(t)
    BY <1>1, <1>6, <1>7, <1>10, StartAct
<1>12. usage.calls = "serial" => Keeps(t)
    <2> SUFFICES ASSUME usage.calls = "serial"
                 PROVE  Keeps(t)
        OBVIOUS
    <2>1. /\ Saved(data_of, registry, segment_map, registry_file, segments_file)
          /\ DOMAIN acked \subseteq DOMAIN registry_file.capsules
          /\ DOMAIN acked \subseteq DOMAIN registry.capsules
        BY <1>1, StartIs
    <2>2. Fits(data_of, registry', segments_file)
        <3>1. registry'.capsules = Drop(registry.capsules, cap) /\ cap \in DOMAIN registry.capsules
            BY <1>1, <1>5, <1>8
        <3>2. \A m \in Maps : Fits(data_of, registry, m) => Fits(data_of, registry', m)
            BY <1>3, <1>8, <3>1, IndInvIs, FitsDeleted
        <3> QED  BY <2>1, <3>2, IndInvIs DEF Saved
    <2>3. Saved(data_of, registry', segment_map, registry_file, segments_file)
        BY <1>8, <2>1, <2>2 DEF Saved
    <2>4. Settled(k, "registry", snap[t], registry', segment_map, registry_file, segments_file)
        BY <1>6 DEF Settled, WritePcs
    <2>5. DOMAIN acked' = DOMAIN acked \ {cap}
        BY <1>1 DEF Drop, Restrict
    <2>6. DOMAIN registry'.capsules = DOMAIN registry.capsules \ {cap}
        BY <1>4, <1>8 DEF IsDrop
    <2> QED  BY <1>1, <1>7, <1>10, <2>1, <2>3, <2>4, <2>5, <2>6 DEF Keeps, disk
<1> QED  BY <1>1, <1>8, <1>9, <1>11, <1>12, IndInvIs, StepIs DEF disk

LEMMA StepDecrementRefcount ==
    ASSUME IsFiniteSet(Threads), IndInv, NEW t \in Threads, DecrementRefcount(t)
    PROVE  IndInv'
<1> DEFINE id == Head(job[t].segs)
           tl == Tail(job[t].segs)
           hs == segment_map[id].hash
           n == segment_map[id].ref_count - 1
           pc == IF n # 0 THEN "decrement" ELSE IF hs = NoHash THEN "remove" ELSE "deregister"
           k == [job[t] EXCEPT !.pc = pc, !.segs = tl, !.seg = id, !.hash = hs]
<1>1. /\ job[t].pc = "decrement" /\ saving[t] = "no" /\ job[t].segs # << >>
      /\ UNCHANGED <<mode, registry, disk, snap, data_of, acked, crashes, usage>>
    BY DEF DecrementRefcount, At
<1>2. job[t].pc \notin WritePcs \cup {"idle"} /\ job[t].pc # "idle"
    BY <1>1 DEF WritePcs
<1>3. CASE ~(id \in DOMAIN segment_map /\ segment_map[id].ref_count > 0)
    <2>1. Return(t) /\ UNCHANGED <<segment_map, saving>>
        BY <1>3 DEF DecrementRefcount
    <2>2. UNCHANGED <<memory, disk, data_of, acked, crashes, usage>>
        BY <1>1, <2>1 DEF memory
    <2> QED  BY <1>1, <1>2, <2>1, <2>2, IndInvIs, CallEnds
<1>4. CASE id \in DOMAIN segment_map /\ segment_map[id].ref_count > 0
    <2>1. /\ segment_map' = [segment_map EXCEPT ![id].ref_count = segment_map[id].ref_count + (-1)]
          /\ job' = [job EXCEPT ![t] = k] /\ Owe(t, "log")
        BY <1>4 DEF DecrementRefcount, CountedBy, Unreferenced
    <2>2. segment_map[id].ref_count \in Nat /\ hs \in Hash /\ id \in Nat
        BY <1>4, IndInvIs, SegmentType
    <2>3. n \in Nat /\ n = segment_map[id].ref_count + (-1) /\ n = segment_map[id].ref_count - 1
        BY <1>4, <2>2
    <2>4. IsHeadTail(job[t].segs, id, tl)
        BY <1>1 DEF IsHeadTail
    <2>5. tl \in Seq(Nat)
        BY <1>1, IndInvIs, JobType, HeadTailProperties
    <2>6. pc \in {"decrement", "deregister", "remove"} /\ (pc # "decrement" => n = 0)
        OBVIOUS
    <2> HIDE DEF id, tl, hs, n, pc
    <2>7. segment_map' = [segment_map EXCEPT ![id].ref_count = n]
        BY <2>1, <2>3
    <2>8. segment_map' \in Maps /\ IsCounted(segment_map', segment_map, id, n)
        BY <1>4, <2>3, <2>7, IndInvIs, CountSegment
    <2>9. k \in Jobs /\ k.pc = pc /\ k.segs = tl /\ k.seg = id
        BY <1>2, <2>2, <2>5, <2>6, ReclaimingIs DEF Jobs, Pcs
    <2> HIDE DEF k
    <2>10. job'[t] = k /\ Becomes(job, t, k, job')
        BY <2>1, <2>9, IndInvIs, BecomesIs DEF JobsOf
    <2>11. Types(data_of, registry, segment_map', job') /\ Inv(data_of, registry, segment_map', job')
        <3>1. \A u \in Threads : job[u].pc \notin WritePcs
            BY <1>2, ReclaimingIs
        <3>2. Types(data_of, registry, segment_map, job) /\ Inv(data_of, registry, segment_map, job)
            BY IndInvIs
        <3>3. /\ IsHeadTail(job[t].segs, k.seg, k.segs) /\ k.seg \in DOMAIN segment_map
              /\ segment_map[k.seg].ref_count > 0 /\ n = segment_map[k.seg].ref_count - 1
              /\ IsCounted(segment_map', segment_map, k.seg, n)
              /\ k.pc \in {"decrement", "deregister", "remove"} /\ (k.pc # "decrement" => n = 0)
            BY <1>4, <2>3, <2>4, <2>6, <2>8, <2>9
        <3>4. segment_map' \in Maps /\ k \in Jobs /\ Becomes(job, t, k, job')
            BY <2>8, <2>9, <2>10
        <3> QED  BY <3>1, <3>2, <3>3, <3>4, ReclaimDecrements
    <2>12. /\ saving' \in [Threads -> Saves] /\ saving'[t] = "log"
           /\ \A u \in Threads \ {t} : saving'[u] = saving[u]
        <3>1. "log" \in Saves /\ saving \in [Threads -> Saves]
            BY IndInvIs DEF Saves
        <3> QED  BY <2>1, <3>1, OweIs
    <2>13. Act(t)
        BY <1>1, <1>2, <2>6, <2>9, <2>10, <2>12, ActIs
    <2>14. usage.calls = "serial" => Keeps(t)
        <3> SUFFICES ASSUME usage.calls = "serial"
                     PROVE  Keeps(t)
            OBVIOUS
        <3>1. /\ Saved(data_of, registry, segment_map, registry_file, segments_file)
              /\ Settled(job[t], saving[t], snap[t], registry, segment_map, registry_file, segments_file)
              /\ DOMAIN acked \subseteq DOMAIN registry_file.capsules
              /\ DOMAIN acked \subseteq DOMAIN registry.capsules
            BY <1>2, Running
        <3>2. registry_file.capsules = registry.capsules
            BY <1>1, <3>1 DEF Settled
        <3>3. n >= References(registry_file.capsules, id)
            <4>1. Fits(data_of, registry, segment_map')
                BY <2>11 DEF Inv
            <4>2. id \in DOMAIN segment_map' /\ segment_map'[id].ref_count = n
                BY <1>4, <2>8 DEF IsCounted
            <4> QED  BY <3>2, <4>1, <4>2 DEF Fits
        <3>4. Fits(data_of, registry_file, segment_map')
            BY <2>8, <3>1, <3>3, IndInvIs, FitsCounted DEF Saved
        <3>5. Saved(data_of, registry, segment_map', registry_file, segments_file)
            BY <3>1, <3>4 DEF Saved
        <3>6. Settled(k, "log", snap[t], registry, segment_map', registry_file, segments_file)
            BY <2>6, <2>9, <3>2 DEF Settled, WritePcs
        <3> QED  BY <1>1, <2>10, <2>12, <3>1, <3>5, <3>6 DEF Keeps, disk
    <2> QED  BY <1>1, <2>8, <2>11, <2>13, <2>14, IndInvIs, StepIs DEF disk
<1> QED  BY <1>3, <1>4

-----------------------------------------------------------------------------
(* Reconciliation, saves, crash and restart.                               *)

(* reconcile_refcounts runs alone and sets a count to what the capsules    *)
(* of both registry and registry file say.                                 *)
LEMMA StepReconcileSegment ==
    ASSUME IsFiniteSet(Threads), IndInv, NEW t \in Threads, NEW id, ReconcileSegment(t, id)
    PROVE  IndInv'
<1> DEFINE n == References(registry.capsules, id)
           rest == job[t].victims \ {id}
           k == [job[t] EXCEPT !.victims = rest]
<1>1. /\ job[t].pc = "reconcile" /\ saving[t] = "no" /\ job' = [job EXCEPT ![t] = k] /\ Owe(t, "log")
      /\ segment_map' = [segment_map EXCEPT ![id].ref_count = n]
      /\ UNCHANGED <<mode, registry, disk, snap, data_of, acked, crashes, usage>>
    BY DEF ReconcileSegment, At
<1>2. usage.calls = "serial" /\ job[t].segs = << >> /\ job[t].pc # "idle"
    BY <1>1 DEF IndInv, Calls
<1>3. /\ \A u \in Threads \ {t} : job[u].pc = "idle" /\ job[u].segs = << >>
      /\ Saved(data_of, registry, segment_map, registry_file, segments_file)
      /\ Settled(job[t], saving[t], snap[t], registry, segment_map, registry_file, segments_file)
      /\ DOMAIN acked \subseteq DOMAIN registry_file.capsules
      /\ DOMAIN acked \subseteq DOMAIN registry.capsules
    BY <1>2, Running DEF IndInv, Calls
<1>4. job[t] \in Jobs
    BY IndInvIs, JobType
<1>5. k \in Jobs /\ k.pc = "reconcile" /\ k.segs = << >>
    BY <1>1, <1>2, <1>4 DEF Jobs
<1>6. n \in Nat
    BY IndInvIs, RegistryType, FiniteCapsules, RefsFinite
<1>7. registry_file.capsules = registry.capsules
    BY <1>1, <1>3 DEF Settled
<1> HIDE DEF k
<1>8. job'[t] = k /\ Becomes(job, t, k, job')
    BY <1>1, <1>5, IndInvIs, BecomesIs DEF JobsOf
<1>9. /\ segment_map' \in Maps /\ Fits(data_of, registry, segment_map')
      /\ Fits(data_of, registry_file, segment_map')
    <2>1. CASE id \in DOMAIN segment_map
        <3>1. n >= n /\ n = References(registry.capsules, id) /\ n = References(registry_file.capsules, id)
            BY <1>6, <1>7
        <3> HIDE DEF n
        <3>2. segment_map' \in Maps /\ IsCounted(segment_map', segment_map, id, n)
            BY <1>1, <1>6, <2>1, IndInvIs, CountSegment
        <3>3. n >= References(registry.capsules, id) /\ n >= References(registry_file.capsules, id)
            BY <3>1
        <3>4. Fits(data_of, registry, segment_map')
            BY <3>2, <3>3, IndInvIs, FitsCounted
        <3>5. Fits(data_of, registry_file, segment_map')
            BY <1>3, <3>2, <3>3, IndInvIs, FitsCounted DEF Saved
        <3> QED  BY <3>2, <3>4, <3>5
    <2>2. CASE id \notin DOMAIN segment_map
        <3>1. segment_map = [x \in DOMAIN segment_map |-> segment_map[x]]
            BY IndInvIs, PartialIs DEF Maps
        <3>2. segment_map' = segment_map
            BY <1>1, <2>2, <3>1
        <3> QED  BY <1>3, <3>2, IndInvIs DEF Saved
    <2> QED  BY <2>1, <2>2
<1>10. Types(data_of, registry, segment_map', job') /\ Inv(data_of, registry, segment_map', job')
    <2>1. job' \in JobsOf /\ \A u \in Threads : job'[u].pc \in {"idle", "reconcile"} /\ job'[u].segs = << >>
        BY <1>3, <1>5, <1>8 DEF Becomes
    <2>2. Types(data_of, registry, segment_map', job')
        BY <1>9, <2>1, IndInvIs DEF Types
    <2> QED  BY <1>9, <2>1, <2>2, IndInvIs, InvCalm
<1>11. /\ saving' \in [Threads -> Saves] /\ saving'[t] = "log"
       /\ \A u \in Threads \ {t} : saving'[u] = saving[u]
    <2>1. "log" \in Saves /\ saving \in [Threads -> Saves]
        BY IndInvIs DEF Saves
    <2> QED  BY <1>1, <2>1, OweIs
<1>12. Act(t)
    BY <1>1, <1>2, <1>5, <1>8, <1>11, ActIs
<1>13. Keeps(t)
    <2>1. Saved(data_of, registry, segment_map', registry_file, segments_file)
        BY <1>3, <1>9 DEF Saved
    <2>2. Settled(k, "log", snap[t], registry, segment_map', registry_file, segments_file)
        BY <1>5, <1>7 DEF Settled, WritePcs
    <2> QED  BY <1>1, <1>3, <1>8, <1>11, <2>1, <2>2 DEF Keeps, disk
<1> QED  BY <1>1, <1>9, <1>10, <1>12, <1>13, IndInvIs, StepIs DEF disk

(* A step of a save: only the files, what is owed and the clone change.    *)
SaveStep(t, s) ==
    /\ saving[t] # "no" /\ s \in Saves /\ Owe(t, s)
    /\ snap' \in [Threads -> Registries] /\ \A u \in Threads \ {t} : snap'[u] = snap[u]
    /\ UNCHANGED <<mode, registry, segment_map, job, data_of, acked, crashes, usage>>

LEMMA SaveAct ==
    ASSUME IndInv, NEW t \in Threads, NEW s, SaveStep(t, s)
    PROVE  /\ Act(t) /\ saving'[t] = s /\ job[t].pc # "idle"
           /\ Types(data_of', registry', segment_map', job') /\ Inv(data_of', registry', segment_map', job')
           /\ usage.calls = "serial" =>
                /\ Saved(data_of, registry, segment_map, registry_file, segments_file)
                /\ Settled(job[t], saving[t], snap[t], registry, segment_map, registry_file, segments_file)
                /\ DOMAIN acked \subseteq DOMAIN registry_file.capsules
                /\ DOMAIN acked \subseteq DOMAIN registry.capsules
<1>1. /\ saving[t] # "no" /\ s \in Saves /\ Owe(t, s)
      /\ UNCHANGED <<mode, registry, segment_map, job, data_of, acked, crashes, usage>>
      /\ snap' \in [Threads -> Registries] /\ \A u \in Threads \ {t} : snap'[u] = snap[u]
    BY DEF SaveStep
<1>2. job[t].pc # "idle"
    BY <1>1 DEF IndInv, Calls
<1>3. saving' \in [Threads -> Saves] /\ saving'[t] = s /\ \A u \in Threads \ {t} : saving'[u] = saving[u]
    BY <1>1, IndInvIs, OweIs
<1>4. Becomes(job, t, job'[t], job')
    BY <1>1, IndInvIs DEF Becomes
<1>5. /\ mode \in {"up", "recover", "recovered"} /\ (usage.calls # "serial" => mode = "up")
      /\ usage.calls = "serial" => \A u \in Threads \ {t} : job[u].pc = "idle"
    BY <1>2, Running
<1>6. job[t].pc = "reconcile" => usage.calls = "serial" /\ job[t].segs = << >>
    BY DEF IndInv, Calls
<1>7. Act(t)
    BY <1>1, <1>2, <1>3, <1>4, <1>5, <1>6 DEF Act
<1>8. Types(data_of', registry', segment_map', job') /\ Inv(data_of', registry', segment_map', job')
    BY <1>1, IndInvIs
<1> QED  BY <1>2, <1>3, <1>7, <1>8, Running

LEMMA StepSaveSegmentMap ==
    ASSUME IsFiniteSet(Threads), IndInv, NEW t \in Threads, SaveSegmentMap(t)
    PROVE  IndInv'
<1>1. /\ saving[t] = "log" /\ segments_file' = segment_map
      /\ UNCHANGED <<registry, segment_map, registry_file, job, snap, data_of, acked, usage>>
    BY DEF SaveSegmentMap, memory
<1>2. SaveStep(t, "no")
    BY IndInvIs DEF SaveSegmentMap, SaveStep, Saves, memory
<1>3. Act(t) /\ saving'[t] = "no" /\ Types(data_of', registry', segment_map', job')
      /\ Inv(data_of', registry', segment_map', job')
    BY <1>2, SaveAct
<1>4. usage.calls = "serial" => Keeps(t)
    <2> SUFFICES ASSUME usage.calls = "serial"
                 PROVE  Keeps(t)
        OBVIOUS
    <2>1. /\ Saved(data_of, registry, segment_map, registry_file, segments_file)
          /\ Settled(job[t], saving[t], snap[t], registry, segment_map, registry_file, segments_file)
          /\ DOMAIN acked \subseteq DOMAIN registry_file.capsules
          /\ DOMAIN acked \subseteq DOMAIN registry.capsules
        BY <1>2, SaveAct
    <2>2. Saved(data_of, registry, segment_map, registry_file, segment_map)
        BY <2>1, IndInvIs DEF Saved
    <2>3. Settled(job[t], "no", snap[t], registry, segment_map, registry_file, segment_map)
        BY <1>1, <2>1 DEF Settled
    <2> QED  BY <1>1, <1>3, <2>1, <2>2, <2>3 DEF Keeps
<1> QED  BY <1>1, <1>3, <1>4, IndInvIs, StepIs

LEMMA StepCloneRegistry ==
    ASSUME IsFiniteSet(Threads), IndInv, NEW t \in Threads, CloneRegistry(t)
    PROVE  IndInv'
<1>1. /\ saving[t] = "registry" /\ snap' = [snap EXCEPT ![t] = registry]
      /\ UNCHANGED <<registry, segment_map, registry_file, segments_file, job, data_of, acked, usage>>
    BY DEF CloneRegistry, memory, disk
<1>2. snap' \in [Threads -> Registries] /\ snap'[t] = registry /\ \A u \in Threads \ {t} : snap'[u] = snap[u]
    BY <1>1, IndInvIs
<1>3. SaveStep(t, "clone")
    BY <1>2 DEF CloneRegistry, SaveStep, Saves, memory
<1>4. Act(t) /\ saving'[t] = "clone" /\ Types(data_of', registry', segment_map', job')
      /\ Inv(data_of', registry', segment_map', job')
    BY <1>3, SaveAct
<1>5. usage.calls = "serial" => Keeps(t)
    <2> SUFFICES ASSUME usage.calls = "serial"
                 PROVE  Keeps(t)
        OBVIOUS
    <2>1. /\ Saved(data_of, registry, segment_map, registry_file, segments_file)
          /\ Settled(job[t], saving[t], snap[t], registry, segment_map, registry_file, segments_file)
          /\ DOMAIN acked \subseteq DOMAIN registry_file.capsules
          /\ DOMAIN acked \subseteq DOMAIN registry.capsules
        BY <1>3, SaveAct
    <2>2. Settled(job[t], "clone", registry, registry, segment_map, registry_file, segments_file)
        BY <1>1, <2>1 DEF Settled
    <2> QED  BY <1>1, <1>2, <1>4, <2>1, <2>2 DEF Keeps
<1> QED  BY <1>1, <1>4, <1>5, IndInvIs, StepIs

(* The clone written is the registry itself when calls run one at a time.  *)
LEMMA StepWriteRegistry ==
    ASSUME IsFiniteSet(Threads), IndInv, NEW t \in Threads, WriteRegistry(t)
    PROVE  IndInv'
<1>1. /\ saving[t] = "clone" /\ registry_file' = snap[t] /\ snap' = [snap EXCEPT ![t] = EmptyRegistry]
      /\ UNCHANGED <<registry, segment_map, segments_file, job, data_of, acked, usage>>
    BY DEF WriteRegistry, memory
<1>2. snap' \in [Threads -> Registries] /\ \A u \in Threads \ {t} : snap'[u] = snap[u]
    BY <1>1, IndInvIs, EmptyType
<1>3. SaveStep(t, "no")
    BY <1>2 DEF WriteRegistry, SaveStep, Saves, memory
<1>4. Act(t) /\ saving'[t] = "no" /\ Types(data_of', registry', segment_map', job')
      /\ Inv(data_of', registry', segment_map', job') /\ job[t].pc # "idle"
    BY <1>3, SaveAct
<1>5. snap[t] \in Registries
    BY IndInvIs
<1>6. usage.calls = "serial" => Keeps(t)
    <2> SUFFICES ASSUME usage.calls = "serial"
                 PROVE  Keeps(t)
        OBVIOUS
    <2>1. /\ Saved(data_of, registry, segment_map, registry_file, segments_file)
          /\ Settled(job[t], saving[t], snap[t], registry, segment_map, registry_file, segments_file)
          /\ DOMAIN acked \subseteq DOMAIN registry.capsules
        BY <1>3, SaveAct
    <2>2. registry_file' = registry
        BY <1>1, <2>1 DEF Settled
    <2>3. Saved(data_of, registry, segment_map, registry, segments_file)
        <3>1. registry.next_segment_id <= registry.next_segment_id
            BY IndInvIs, RegistryType
        <3> QED  BY <2>1, <3>1, IndInvIs DEF Saved
    <2>4. JobOK(data_of, registry, segment_map, job, t)
        BY DEF IndInv, Inv
    <2>5. job[t].pc \in {"reclaim", "update", "register"} => References(registry.capsules, job[t].seg) = 0
        <3>1. CASE job[t].pc = "reclaim"
            BY <2>4, <3>1, UnusedIs DEF JobOK, Doomed
        <3>2. CASE job[t].pc \in FreshPcs
            BY <2>4, <3>2, UnusedIs DEF JobOK, Fresh
        <3> QED  BY <3>1, <3>2 DEF FreshPcs
    <2>6. job[t].pc \in {"sweep", "reclaim"} => \A v \in job[t].victims : References(registry.capsules, v.id) = 0
        BY <2>4, UnusedIs DEF JobOK, Doomed
    <2>7. Settled(job[t], "no", snap'[t], registry, segment_map, registry, segments_file)
        BY <1>1, <2>1, <2>5, <2>6 DEF Settled
    <2> QED  BY <1>1, <1>4, <2>1, <2>2, <2>3, <2>7 DEF Keeps
<1> QED  BY <1>1, <1>4, <1>5, <1>6, IndInvIs, StepIs

LEMMA StepOpen ==
    ASSUME IsFiniteSet(Threads), IndInv, NEW t \in Threads, Open(t)
    PROVE  IndInv'
<1> DEFINE vs == Drifted(registry_file.capsules, segments_file)
           k == [IdleJob EXCEPT !.pc = "reconcile", !.victims = vs]
<1>1. /\ mode = "down" /\ registry' = registry_file /\ segment_map' = segments_file /\ mode' = "recover"
      /\ job' = [job EXCEPT ![t] = k]
      /\ UNCHANGED <<registry_file, segments_file, saving, snap, data_of, acked, crashes, usage>>
    BY DEF Open, disk
<1>2. /\ usage.calls = "serial"
      /\ \A u \in Threads : job[u].pc = "idle" /\ saving[u] = "no" /\ job[u].segs = << >>
    BY <1>1 DEF IndInv, Calls
<1>3. /\ Below(data_of, registry_file) /\ Fits(data_of, registry_file, segments_file)
      /\ DOMAIN acked \subseteq DOMAIN registry_file.capsules
    BY <1>2 DEF IndInv, Disk
<1>4. vs \in SUBSET (Nat \cup Victim)
    BY IndInvIs, SegmentType DEF Drifted
<1> HIDE DEF vs
<1>5. k \in Jobs /\ k.pc = "reconcile" /\ k.segs = << >>
    <2>1. << >> \in Seq(Nat) /\ << >> \in Seq(Contents)
        BY EmptySeq
    <2> QED  BY <1>4, <2>1 DEF IdleJob, Jobs, Pcs, Hash
<1> HIDE DEF k
<1>6. job'[t] = k /\ Becomes(job, t, k, job')
    BY <1>1, <1>5, IndInvIs, BecomesIs DEF JobsOf
<1>7. Types(data_of', registry', segment_map', job') /\ Inv(data_of', registry', segment_map', job')
    <2>1. job' \in JobsOf /\ \A u \in Threads : job'[u].pc \in {"idle", "reconcile"} /\ job'[u].segs = << >>
        BY <1>2, <1>5, <1>6 DEF Becomes
    <2>2. Types(data_of, registry_file, segments_file, job')
        BY <2>1, IndInvIs DEF Types
    <2>3. Inv(data_of, registry_file, segments_file, job')
        BY <1>3, <2>1, <2>2, InvCalm
    <2> QED  BY <1>1, <2>2, <2>3
<1>8. Act(t)
    BY <1>1, <1>2, <1>5, <1>6, IndInvIs DEF Act
<1>9. Keeps(t)
    <2>1. registry_file.next_segment_id <= registry_file.next_segment_id
        BY IndInvIs, RegistryType
    <2>2. Saved(data_of, registry_file, segments_file, registry_file, segments_file)
        BY <1>3, <2>1 DEF Saved
    <2>3. Settled(k, "no", snap[t], registry_file, segments_file, registry_file, segments_file)
        BY <1>5 DEF Settled, WritePcs
    <2> QED  BY <1>1, <1>2, <1>3, <1>6, <2>2, <2>3 DEF Keeps
<1> QED  BY <1>1, <1>7, <1>8, <1>9, IndInvIs, StepIs

(* Nothing is in memory and no call runs: at the start and after a crash.  *)
LEMMA InvBlank ==
    ASSUME NEW d \in Seq(Seq(Contents)), NEW jb, jb = [t \in Threads |-> IdleJob]
    PROVE  /\ Types(d, EmptyRegistry, Empty, jb) /\ Inv(d, EmptyRegistry, Empty, jb)
           /\ Below(d, EmptyRegistry) /\ Fits(d, EmptyRegistry, Empty)
           /\ \A t \in Threads : jb[t].pc = "idle" /\ jb[t].segs = << >>
<1>1. EmptyRegistry \in Registries /\ Empty \in Maps
    BY EmptyType
<1>2. jb \in JobsOf /\ \A t \in Threads : jb[t].pc = "idle" /\ jb[t].segs = << >>
    <2>1. IdleJob \in Jobs /\ IdleJob.pc = "idle" /\ IdleJob.segs = << >>
        BY IdleType DEF IdleJob
    <2> HIDE DEF IdleJob
    <2> QED  BY <2>1 DEF JobsOf
<1>3. Types(d, EmptyRegistry, Empty, jb)
    BY <1>1, <1>2 DEF Types
<1>4. /\ DOMAIN EmptyRegistry.capsules = {} /\ DOMAIN EmptyRegistry.content_store = {} /\ DOMAIN Empty = {}
    BY DEF EmptyRegistry, Empty
<1>5. Below(d, EmptyRegistry) /\ Fits(d, EmptyRegistry, Empty)
    BY <1>4 DEF Below, Fits
<1>6. \A t \in Threads : jb[t].pc \in {"idle", "reconcile"} /\ jb[t].segs = << >>
    BY <1>2
<1>7. Inv(d, EmptyRegistry, Empty, jb)
    BY <1>3, <1>5, <1>6, InvCalm
<1> QED  BY <1>2, <1>3, <1>5, <1>7

LEMMA StepCrash ==
    ASSUME IndInv, Crash
    PROVE  IndInv'
<1>1. /\ crashes > 0 /\ mode' = "down" /\ registry' = EmptyRegistry /\ segment_map' = Empty
      /\ job' = [t \in Threads |-> IdleJob] /\ saving' = [t \in Threads |-> "no"]
      /\ snap' = [t \in Threads |-> EmptyRegistry]
      /\ UNCHANGED <<registry_file, segments_file, data_of, acked, usage>>
    BY DEF Crash, disk
<1>2. usage.calls = "serial"
    BY <1>1 DEF IndInv, Calls
<1>3. /\ Types(data_of, registry', segment_map', job') /\ Inv(data_of, registry', segment_map', job')
      /\ \A t \in Threads : job'[t].pc = "idle" /\ job'[t].segs = << >>
    BY <1>1, IndInvIs, InvBlank
<1>4. \A t \in Threads : saving'[t] = "no"
    BY <1>1
<1>5. FilesOK'
    BY <1>1, IndInvIs, EmptyType DEF FilesOK, Saves
<1>6. Calls'
    BY <1>1, <1>2, <1>3, <1>4 DEF Calls
<1>7. Disk'
    <2>1. /\ Below(data_of, registry_file) /\ Fits(data_of, registry_file, segments_file)
          /\ DOMAIN acked \subseteq DOMAIN registry_file.capsules
        BY <1>2 DEF IndInv, Disk
    <2>2. \A t \in Threads : Settled(job'[t], saving'[t], snap'[t], registry', segment_map',
                                     registry_file', segments_file')
        BY <1>3, <1>4 DEF Settled, WritePcs
    <2> QED  BY <1>1, <2>1, <2>2 DEF Disk
<1> QED  BY <1>1, <1>3, <1>5, <1>6, <1>7 DEF IndInv

-----------------------------------------------------------------------------
(* The theorems.                                                           *)

(* How the pipeline is used: finitely many threads; calls run one at a     *)
(* time, with any number of failures and crashes, or writes overlap only   *)
(* with writes and deletes and sweeps only with deletes and sweeps, with   *)
(* any number of failures and no crash.  No lock in the code ensures it.   *)
KeptApart ==
    /\ IsFiniteSet(Threads)
    /\ \A u \in Usages : u.calls = "serial" \/ (u.calls = "apart" /\ u.crashes = 0)

LEMMA Starts ==
    ASSUME KeptApart, Init
    PROVE  IndInv
<1>1. /\ mode = "up" /\ registry = EmptyRegistry /\ registry_file = EmptyRegistry /\ segment_map = Empty
      /\ segments_file = Empty /\ job = [t \in Threads |-> IdleJob] /\ saving = [t \in Threads |-> "no"]
      /\ snap = [t \in Threads |-> EmptyRegistry] /\ data_of = << >> /\ acked = Empty
      /\ usage \in Usages /\ crashes = usage.crashes
    BY DEF Init
<1>2. data_of \in Seq(Seq(Contents))
    BY <1>1, EmptySeq
<1>3. /\ Types(data_of, registry, segment_map, job) /\ Inv(data_of, registry, segment_map, job)
      /\ Below(data_of, EmptyRegistry) /\ Fits(data_of, EmptyRegistry, Empty)
      /\ \A t \in Threads : job[t].pc = "idle" /\ job[t].segs = << >>
    BY <1>1, <1>2, InvBlank
<1>4. usage.calls \in {"serial", "apart"} /\ (usage.calls = "apart" => crashes = 0)
    BY <1>1 DEF KeptApart
<1>5. \A t \in Threads : saving[t] = "no"
    BY <1>1
<1>6. FilesOK
    BY <1>1, EmptyType DEF FilesOK, Saves
<1>7. Calls
    BY <1>1, <1>3, <1>4, <1>5 DEF Calls
<1>8. Disk
    <2>1. Saved(data_of, registry, segment_map, registry_file, segments_file)
        <3>1. EmptyRegistry.next_segment_id <= EmptyRegistry.next_segment_id
            BY EmptyType, RegistryType
        <3> QED  BY <1>1, <1>3, <3>1 DEF Saved
    <2>2. \A t \in Threads : Settled(job[t], saving[t], snap[t], registry, segment_map,
                                     registry_file, segments_file)
        BY <1>3, <1>5 DEF Settled, WritePcs
    <2>3. DOMAIN acked = {}
        BY <1>1 DEF Empty
    <2> QED  BY <1>1, <1>3, <2>1, <2>2, <2>3 DEF Disk
<1> QED  BY <1>3, <1>6, <1>7, <1>8 DEF IndInv

LEMMA Stutters ==
    ASSUME IndInv, UNCHANGED vars
    PROVE  IndInv'
<1>1. /\ mode' = mode /\ registry' = registry /\ registry_file' = registry_file /\ segment_map' = segment_map
      /\ segments_file' = segments_file /\ job' = job /\ saving' = saving /\ snap' = snap
      /\ data_of' = data_of /\ acked' = acked /\ crashes' = crashes /\ usage' = usage
    BY DEF vars
<1>2. FilesOK'
    BY <1>1 DEF IndInv, FilesOK
<1>3. Calls'
    BY <1>1 DEF IndInv, Calls
<1>4. Disk'
    BY <1>1 DEF IndInv, Disk
<1> QED  BY <1>1, <1>2, <1>3, <1>4 DEF IndInv

LEMMA Steps ==
    ASSUME IsFiniteSet(Threads), IndInv, Next
    PROVE  IndInv'
<1>1. CASE Crash
    BY <1>1, StepCrash
<1>2. ASSUME NEW t \in Threads,
             \/ \E data \in Datas, dedupe \in BOOLEAN : WriteCapsule(t, data, dedupe)
             \/ PrepareFails(t) \/ LookupContent(t) \/ IncrementRefcount(t)
             \/ AppendSegment(t) \/ AppendFails(t)
             \/ UpdateMetadata(t) \/ RegisterContent(t) \/ AddDedupedBytes(t)
             \/ CreateCapsule(t) \/ WriteReturns(t)
      PROVE  IndInv'
    BY <1>2, StepWriteCapsule, StepPrepareFails, StepLookupContent, StepIncrementRefcount,
       StepAppendSegment, StepAppendFails, StepUpdateMetadata, StepRegisterContent,
       StepAddDedupedBytes, StepCreateCapsule, StepWriteReturns
<1>3. ASSUME NEW t \in Threads,
             \/ \E cap \in CapsuleIds : DeleteCapsule(t, cap)
             \/ DecrementRefcount(t) \/ DeregisterContent(t) \/ RemoveSegment(t)
             \/ DeleteReturns(t)
             \/ GarbageCollect(t) \/ ReclaimRemove(t) \/ SweepReturns(t)
             \/ \E v \in job[t].victims : ReclaimDeregister(t, v)
      PROVE  IndInv'
    BY <1>3, StepDeleteCapsule, StepDecrementRefcount, StepDeregisterContent, StepRemoveSegment,
       StepDeleteReturns, StepGarbageCollect, StepReclaimRemove, StepSweepReturns, StepReclaimDeregister
<1>4. ASSUME NEW t \in Threads,
             \/ SaveSegmentMap(t) \/ CloneRegistry(t) \/ WriteRegistry(t) \/ SaveFails(t)
             \/ Open(t)
             \/ \E id \in SegIds : ReconcileSegment(t, id)
             \/ ReconcileSweep(t)
      PROVE  IndInv'
    BY <1>4, StepSaveSegmentMap, StepCloneRegistry, StepWriteRegistry, StepSaveFails, StepOpen,
       StepReconcileSegment, StepReconcileSweep
<1> QED  BY <1>1, <1>2, <1>3, <1>4 DEF Next

(* Every state of a pipeline whose callers keep writes apart from deletes  *)
(* and sweeps satisfies the inductive invariant: the maps of the registry  *)
(* and the log cover what capsules and running calls use, segments about   *)
(* to be removed have no user, and the files lag behind memory only as far *)
(* as the running call may lose.                                           *)
THEOREM PipelineInvariant ==
    ASSUME KeptApart
    PROVE  Spec => []IndInv
<1>1. Init => IndInv
    BY Starts
<1>2. IndInv /\ [Next]_vars => IndInv'
    BY Steps, Stutters DEF KeptApart
<1> QED  BY <1>1, <1>2, PTL DEF Spec

(* No capsule of the registry dangles, for every number of threads,        *)
(* contents, capsules and chunks: neither a sweep nor a delete that meets  *)
(* another one removes a segment read_capsule still needs, and a dedup hit *)
(* never gives a capsule other data.                                       *)
THEOREM PipelineNoDangling ==
    ASSUME KeptApart
    PROVE  Spec => []NoDangling
<1>1. IndInv => NoDangling
    BY IndInvIs DEF NoDangling, Readable, Fits
<1> QED  BY <1>1, PipelineInvariant, PTL

(* Reference counts cover the capsules, the writes that have counted       *)
(* themselves in and the deletes that have not counted themselves out.     *)
THEOREM PipelineRefcountCovers ==
    ASSUME KeptApart
    PROVE  Spec => []RefcountCovers
<1>1. IndInv => RefcountCovers
    BY HeldIs DEF IndInv, Inv, Uses, RefcountCovers
<1> QED  BY <1>1, PipelineInvariant, PTL

(* When calls run one at a time the capsules of the saved registry can be  *)
(* read from the saved segment map at every step, so that a crash between  *)
(* the saves of a write, a delete or a sweep loses no capsule.             *)
THEOREM PipelineDiskConsistent ==
    ASSUME KeptApart
    PROVE  Spec => []DiskConsistent
<1>1. IndInv => DiskConsistent
    BY DEF IndInv, Disk, DiskConsistent, Readable, Fits
<1> QED  BY <1>1, PipelineInvariant, PTL

(* When calls run one at a time a capsule whose write returned is in the   *)
(* saved registry until its delete begins, whatever saves fail and however *)
(* often the process crashes.                                              *)
THEOREM PipelineAckedDurable ==
    ASSUME KeptApart
    PROVE  Spec => []AckedDurable
<1>1. IndInv => AckedDurable
    BY DEF IndInv, Disk, AckedDurable
<1> QED  BY <1>1, PipelineInvariant, PTL

-----------------------------------------------------------------------------
(* The content store, as long as nothing has failed.                       *)

(* No hash but h names segment id.  NoHash is not a key of the store, so   *)
(* Names(st, id, NoHash) says that none does.                              *)
Names(st, id, h) == \A g \in DOMAIN st : st[g] = id => g = h

(* A hash names a segment that exists and has this hash.                   *)
Named(st, m) == \A h \in DOMAIN st : st[h] \in DOMAIN m /\ m[st[h]].hash = h

(* What a call relies on: a segment found by lookup_content is there, one  *)
(* about to be registered has its hash, and one about to be removed loses  *)
(* its name first.                                                         *)
Finds(st, m, j) ==
    /\ j.pc = "increment" => j.seg \in DOMAIN m
    /\ j.pc = "register" => m[j.seg].hash = Head(j.todo)
    /\ j.pc = "deregister" => Names(st, j.seg, j.hash)
    /\ j.pc \in {"remove", "reclaim"} => Names(st, j.seg, NoHash)
    /\ j.pc \in {"sweep", "reclaim"} => \A v \in j.victims : Names(st, v.id, v.hash)

NamesLive(st, m, jb) == Named(st, m) /\ \A t \in Threads : Finds(st, m, jb[t])

(* A file is behind only while a call has still to write it.               *)
Live ==
    /\ fails \in Nat /\ usage.fails \in Nat /\ fails <= usage.fails
    /\ fails = usage.fails =>
        /\ NamesLive(registry.content_store, segment_map, job)
        /\ usage.calls = "serial" =>
            /\ Named(registry_file.content_store, segments_file)
            /\ mode # "down" =>
                /\ \/ registry_file.content_store = registry.content_store
                   \/ \E t \in Threads : saving[t] \in {"registry", "clone"}
                /\ segments_file = segment_map \/ \E t \in Threads : saving[t] = "log"

(* After a failure nothing is claimed.                                     *)
LEMMA LiveFails ==
    ASSUME Live, fails > 0, fails' = fails - 1, usage' = usage
    PROVE  Live'
<1>1. fails' \in Nat /\ usage'.fails \in Nat /\ fails' <= usage'.fails /\ fails' # usage'.fails
    BY DEF Live
<1> QED  BY <1>1 DEF Live

(* Call t runs, or starts: nobody else has a save to do when calls run one *)
(* at a time.                                                              *)
Alone(t) ==
    /\ mode # "down"
    /\ usage.calls = "serial" => \A u \in Threads \ {t} : job[u].pc = "idle"

LEMMA AloneIs ==
    ASSUME IndInv, NEW t \in Threads, job[t].pc # "idle" \/ \E op \in Ops : Start(t, op)
    PROVE  Alone(t)
<1>1. CASE job[t].pc # "idle"
    BY <1>1, Running DEF Alone
<1>2. CASE \E op \in Ops : Start(t, op)
    <2>1. PICK op \in Ops : Start(t, op)
        BY <1>2
    <2>2. mode # "down"
        BY <2>1 DEF Start
    <2> QED  BY <2>1, <2>2, StartIs DEF Alone
<1> QED  BY <1>1, <1>2

(* A step that does not write a file.                                      *)
LEMMA LiveMoves ==
    ASSUME IndInv, Live, NEW t \in Threads, Alone(t), saving[t] = "no",
           UNCHANGED <<disk, fails, usage>>,
           registry'.content_store = registry.content_store \/ saving'[t] = "registry",
           segment_map' = segment_map \/ saving'[t] = "log",
           fails = usage.fails /\ NamesLive(registry.content_store, segment_map, job) =>
               NamesLive(registry'.content_store, segment_map', job')
    PROVE  Live'
<1>1. registry_file' = registry_file /\ segments_file' = segments_file /\ fails' = fails /\ usage' = usage
    BY DEF disk
<1>2. fails' \in Nat /\ usage'.fails \in Nat /\ fails' <= usage'.fails
    BY <1>1 DEF Live
<1>3. ASSUME fails' = usage'.fails
      PROVE  /\ NamesLive(registry'.content_store, segment_map', job')
             /\ usage'.calls = "serial" =>
                /\ Named(registry_file'.content_store, segments_file')
                /\ \/ registry_file'.content_store = registry'.content_store
                   \/ \E u \in Threads : saving'[u] \in {"registry", "clone"}
                /\ segments_file' = segment_map' \/ \E u \in Threads : saving'[u] = "log"
    <2>1. fails = usage.fails /\ NamesLive(registry.content_store, segment_map, job)
        BY <1>1, <1>3 DEF Live
    <2>2. SUFFICES ASSUME usage.calls = "serial"
                   PROVE  /\ Named(registry_file'.content_store, segments_file')
                          /\ \/ registry_file'.content_store = registry'.content_store
                             \/ \E u \in Threads : saving'[u] \in {"registry", "clone"}
                          /\ segments_file' = segment_map' \/ \E u \in Threads : saving'[u] = "log"
        BY <1>1, <2>1
    <2>3. \A u \in Threads : saving[u] = "no"
        BY <2>2 DEF Alone, IndInv, Calls
    <2>4. /\ Named(registry_file.content_store, segments_file)
          /\ registry_file.content_store = registry.content_store /\ segments_file = segment_map
        BY <2>1, <2>2, <2>3 DEF Live, Alone
    <2> QED  BY <1>1, <2>4
<1> QED  BY <1>2, <1>3 DEF Live

(* What a write does to the names: it adds segments, and a segment another *)
(* write is about to register keeps its hash.                              *)
LEMMA WriterNames ==
    ASSUME IndInv, NEW t \in Threads, NEW k, NEW jb, Becomes(job, t, k, jb),
           \A u \in Threads \ {t} : job[u].pc \in WritePcs \cup {"idle"},
           NEW s1, NEW m1, NamesLive(s1, m1, job), NEW s2, NEW m2, Named(s2, m2), Finds(s2, m2, k),
           DOMAIN m1 \subseteq DOMAIN m2,
           \A u \in Threads \ {t} : job[u].pc = "register" => m2[job[u].seg].hash = m1[job[u].seg].hash
    PROVE  NamesLive(s2, m2, jb)
<1>1. ASSUME NEW u \in Threads \ {t}
      PROVE  Finds(s2, m2, job[u])
    <2>1. Finds(s1, m1, job[u]) /\ job[u].pc \in WritePcs \cup {"idle"}
        BY DEF NamesLive
    <2> QED  BY <2>1 DEF Finds, WritePcs
<1>2. jb[t] = k /\ \A u \in Threads \ {t} : jb[u] = job[u]
    BY DEF Becomes
<1> QED  BY <1>1, <1>2 DEF NamesLive

(* A delete or a sweep only takes names away.                              *)
LEMMA ReclaimNames ==
    ASSUME NEW t \in Threads, NEW k, NEW jb, Becomes(job, t, k, jb),
           \A u \in Threads \ {t} : job[u].pc \notin WritePcs,
           NEW s1, NEW m1, NamesLive(s1, m1, job), NEW s2, NEW m2, Named(s2, m2), Finds(s2, m2, k),
           \A h \in DOMAIN s2 : h \in DOMAIN s1 /\ s2[h] = s1[h]
    PROVE  NamesLive(s2, m2, jb)
<1>1. ASSUME NEW u \in Threads \ {t}
      PROVE  Finds(s2, m2, job[u])
    <2>1. Finds(s1, m1, job[u]) /\ job[u].pc \notin WritePcs
        BY DEF NamesLive
    <2>2. \A id, h : Names(s1, id, h) => Names(s2, id, h)
        BY DEF Names
    <2> QED  BY <2>1, <2>2 DEF Finds, WritePcs
<1>2. jb[t] = k /\ \A u \in Threads \ {t} : jb[u] = job[u]
    BY DEF Becomes
<1> QED  BY <1>1, <1>2 DEF NamesLive

(* Other calls while a write, or a delete or a sweep, is running.          *)
LEMMA OthersWrite ==
    ASSUME IndInv, NEW t \in Threads, job[t].pc \in WritePcs
    PROVE  \A u \in Threads \ {t} : job[u].pc \in WritePcs \cup {"idle"} /\ Distinct(job, u, t)
BY DEF IndInv, Inv, Distinct

(* A step that changes no store and no segment.                            *)
LEMMA LiveQuiet ==
    ASSUME IndInv, Live, NEW t \in Threads, Alone(t), saving[t] = "no", Becomes(job, t, job'[t], job'),
           UNCHANGED <<disk, fails, usage>>,
           registry'.content_store = registry.content_store, segment_map' = segment_map,
           fails = usage.fails /\ NamesLive(registry.content_store, segment_map, job) =>
               Finds(registry.content_store, segment_map, job'[t])
    PROVE  Live'
<1>1. ASSUME fails = usage.fails, NamesLive(registry.content_store, segment_map, job)
      PROVE  NamesLive(registry'.content_store, segment_map', job')
    BY <1>1 DEF NamesLive, Becomes
<1> QED  BY <1>1, LiveMoves

LEMMA FindsIdle ==
    ASSUME NEW st, NEW m, NEW j,
           j.pc \in {"idle", "chunk", "append", "update", "create", "written", "decrement", "reconcile"}
    PROVE  Finds(st, m, j)
BY DEF Finds

LEMMA LiveReturns ==
    ASSUME IndInv, Live, NEW t \in Threads, job[t].pc # "idle", saving[t] = "no", Return(t),
           UNCHANGED <<disk, fails, usage>>,
           registry'.content_store = registry.content_store, segment_map' = segment_map
    PROVE  Live'
<1>1. Becomes(job, t, job'[t], job') /\ job'[t].pc = "idle"
    BY IndInvIs, ReturnIs
<1>2. Alone(t)
    BY AloneIs
<1> QED  BY <1>1, <1>2, FindsIdle, LiveQuiet

LEMMA LiveLookupContent ==
    ASSUME IndInv, Live, NEW t \in Threads, LookupContent(t)
    PROVE  Live'
<1> DEFINE h == Head(job[t].todo)
           id == registry.content_store[h]
           k == [job[t] EXCEPT !.pc = "increment", !.seg = id]
<1>1. /\ job[t].pc = "chunk" /\ saving[t] = "no" /\ job[t].pc # "idle" /\ job[t] \in Jobs
      /\ registry' = registry /\ segment_map' = segment_map /\ UNCHANGED <<disk, fails, usage>>
    BY IndInvIs, JobType DEF LookupContent, At, memory
<1>2. Alone(t)
    BY <1>1, AloneIs
<1>3. CASE job[t].dedupe /\ h \in DOMAIN registry.content_store
    <2>1. job' = [job EXCEPT ![t] = k]
        BY <1>3 DEF LookupContent
    <2>2. id \in Nat
        BY <1>3, IndInvIs, RegistryType, StoreType
    <2>3. Named(registry.content_store, segment_map) => id \in DOMAIN segment_map
        BY <1>3 DEF Named
    <2> HIDE DEF id
    <2>4. k \in Jobs /\ k.pc = "increment" /\ k.seg = id
        BY <1>1, <2>2 DEF Jobs, Pcs, WritePcs
    <2> HIDE DEF k
    <2>5. job'[t] = k /\ Becomes(job, t, k, job')
        BY <2>1, <2>4, IndInvIs, BecomesIs DEF JobsOf
    <2>6. NamesLive(registry.content_store, segment_map, job) =>
              Finds(registry.content_store, segment_map, job'[t])
        BY <2>3, <2>4, <2>5 DEF NamesLive, Finds
    <2> QED  BY <1>1, <1>2, <2>5, <2>6, LiveQuiet
<1>4. CASE ~(job[t].dedupe /\ h \in DOMAIN registry.content_store)
    <2>1. Goto(t, "append") /\ "append" \in Pcs
        BY <1>4 DEF LookupContent, Pcs, WritePcs
    <2>2. Becomes(job, t, job'[t], job') /\ job'[t].pc = "append"
        BY <2>1, IndInvIs, GotoIs
    <2> QED  BY <1>1, <1>2, <2>2, FindsIdle, LiveQuiet
<1> QED  BY <1>3, <1>4

LEMMA LiveAddDedupedBytes ==
    ASSUME IndInv, Live, NEW t \in Threads, AddDedupedBytes(t)
    PROVE  Live'
<1>1. /\ job[t].pc = "chunk" /\ saving[t] = "no" /\ job[t].pc # "idle" /\ Goto(t, "create")
      /\ segment_map' = segment_map /\ UNCHANGED <<disk, fails, usage>>
    BY DEF AddDedupedBytes, At
<1>2. job[t].cap \notin DOMAIN registry.capsules
    BY <1>1, WritingIs DEF Worker, WritePcs
<1>3. registry' = registry /\ "create" \in Pcs
    BY <1>2 DEF AddDedupedBytes, Pcs, WritePcs
<1>4. Becomes(job, t, job'[t], job') /\ job'[t].pc = "create" /\ Alone(t)
    BY <1>1, <1>3, IndInvIs, GotoIs, AloneIs
<1> QED  BY <1>1, <1>3, <1>4, FindsIdle, LiveQuiet

LEMMA LiveCreateCapsule ==
    ASSUME IndInv, Live, NEW t \in Threads, CreateCapsule(t)
    PROVE  Live'
<1> DEFINE cs == Put(registry.capsules, job[t].cap, [segments |-> job[t].segs, deduped_bytes |-> 0])
<1>1. /\ job[t].pc = "create" /\ saving[t] = "no" /\ job[t].pc # "idle" /\ Goto(t, "written")
      /\ registry' = [registry EXCEPT !.capsules = cs]
      /\ segment_map' = segment_map /\ UNCHANGED <<disk, fails, usage>>
    BY DEF CreateCapsule, At
<1>2. registry'.content_store = registry.content_store /\ "written" \in Pcs
    BY <1>1, IndInvIs DEF Registries, Pcs, WritePcs
<1>3. Becomes(job, t, job'[t], job') /\ job'[t].pc = "written" /\ Alone(t)
    BY <1>1, <1>2, IndInvIs, GotoIs, AloneIs
<1> QED  BY <1>1, <1>2, <1>3, FindsIdle, LiveQuiet

LEMMA LiveWriteCapsule ==
    ASSUME IndInv, Live, NEW t \in Threads, NEW data \in Datas, NEW dedupe \in BOOLEAN,
           WriteCapsule(t, data, dedupe)
    PROVE  Live'
<1> DEFINE k == [IdleJob EXCEPT !.pc = "chunk", !.todo = data, !.cap = Len(data_of) + 1, !.dedupe = dedupe]
<1>1. /\ Start(t, "write") /\ "write" \in Ops /\ job' = [job EXCEPT ![t] = k]
      /\ registry' = registry /\ segment_map' = segment_map /\ UNCHANGED <<disk, fails, usage>>
    BY DEF WriteCapsule, memory, Start
<1>2. k.pc = "chunk"
    BY DEF IdleJob
<1> HIDE DEF k
<1>3. job'[t].pc = "chunk" /\ \A u \in Threads \ {t} : job'[u] = job[u]
    BY <1>1, <1>2, IndInvIs DEF JobsOf
<1>4. Alone(t) /\ saving[t] = "no"
    BY <1>1, AloneIs, StartIs
<1>5. NamesLive(registry.content_store, segment_map, job) => NamesLive(registry'.content_store, segment_map', job')
    BY <1>1, <1>3, FindsIdle DEF NamesLive
<1> QED  BY <1>1, <1>4, <1>5, LiveMoves

(* A step of a write: it may add segments and names, but a segment another *)
(* write is about to register keeps its hash.                              *)
LEMMA LiveWrites ==
    ASSUME IndInv, Live, NEW t \in Threads, job[t].pc \in WritePcs, saving[t] = "no",
           Becomes(job, t, job'[t], job'), UNCHANGED <<disk, fails, usage>>,
           registry'.content_store = registry.content_store \/ saving'[t] = "registry",
           segment_map' = segment_map \/ saving'[t] = "log",
           DOMAIN segment_map \subseteq DOMAIN segment_map',
           \A u \in Threads \ {t} : job[u].pc = "register" =>
               segment_map'[job[u].seg].hash = segment_map[job[u].seg].hash,
           NamesLive(registry.content_store, segment_map, job) =>
               /\ Named(registry'.content_store, segment_map')
               /\ Finds(registry'.content_store, segment_map', job'[t])
    PROVE  Live'
<1>1. job[t].pc # "idle"
    BY WritingIs
<1>2. Alone(t)
    BY <1>1, AloneIs
<1>3. \A u \in Threads \ {t} : job[u].pc \in WritePcs \cup {"idle"}
    BY OthersWrite
<1>4. NamesLive(registry.content_store, segment_map, job) =>
          NamesLive(registry'.content_store, segment_map', job')
    BY <1>3, WriterNames
<1> QED  BY <1>2, <1>4, LiveMoves

LEMMA LiveIncrementRefcount ==
    ASSUME IndInv, Live, NEW t \in Threads, IncrementRefcount(t)
    PROVE  Live'
<1> DEFINE id == job[t].seg
           n == segment_map[id].ref_count + 1
<1>1. /\ job[t].pc = "increment" /\ saving[t] = "no" /\ registry' = registry
      /\ UNCHANGED <<disk, fails, usage>>
    BY DEF IncrementRefcount, At
<1>2. /\ job[t].pc \in WritePcs /\ job[t].pc \in {"increment", "update", "register"} /\ job[t].pc # "idle"
    BY <1>1 DEF WritePcs
<1>3. CASE id \notin DOMAIN segment_map
    BY <1>1, <1>2, <1>3, LiveReturns DEF IncrementRefcount
<1>4. CASE id \in DOMAIN segment_map
    <2>1. segment_map' = [segment_map EXCEPT ![id].ref_count = n] /\ NextChunk(t, id, TRUE) /\ Owe(t, "log")
        BY <1>4 DEF IncrementRefcount, CountedBy
    <2>2. n \in Nat
        BY <1>4, IndInvIs, SegmentType
    <2>3. job[t].todo # << >>
        BY <1>1, <1>2, WritingIs DEF Worker
    <2>4. Becomes(job, t, job'[t], job') /\ job'[t].pc = "chunk"
        BY <1>2, <2>1, <2>3, IndInvIs, NextChunkIs DEF Takes
    <2>5. saving'[t] = "log"
        BY <2>1, IndInvIs, OweIs DEF Saves
    <2> HIDE DEF n, id
    <2>6. IsCounted(segment_map', segment_map, id, n)
        BY <1>4, <2>1, <2>2, IndInvIs, CountSegment
    <2>7. /\ DOMAIN segment_map' = DOMAIN segment_map
          /\ \A x \in DOMAIN segment_map : segment_map'[x].hash = segment_map[x].hash
        BY <2>6 DEF IsCounted
    <2>8. \A u \in Threads \ {t} : job[u].pc = "register" => job[u].seg \in DOMAIN segment_map
        BY DEF IndInv, Inv, JobOK, Fresh, FreshPcs
    <2>9. NamesLive(registry.content_store, segment_map, job) =>
              /\ Named(registry'.content_store, segment_map')
              /\ Finds(registry'.content_store, segment_map', job'[t])
        BY <1>1, <2>4, <2>7, FindsIdle DEF NamesLive, Named
    <2> QED  BY <1>1, <1>2, <2>4, <2>5, <2>7, <2>8, <2>9, LiveWrites
<1> QED  BY <1>3, <1>4

(* A new segment has no name.                                              *)
LEMMA LiveAppendSegment ==
    ASSUME IndInv, Live, NEW t \in Threads, AppendSegment(t)
    PROVE  Live'
<1> DEFINE id == registry.next_segment_id
           e == [data |-> Head(job[t].todo), hash |-> NoHash, ref_count |-> 1]
           k == [job[t] EXCEPT !.pc = "update", !.seg = id]
<1>1. /\ job[t].pc = "append" /\ saving[t] = "no" /\ Owe(t, "log")
      /\ registry' = [registry EXCEPT !.next_segment_id = @ + 1]
      /\ segment_map' = Put(segment_map, id, e)
      /\ job' = [job EXCEPT ![t] = k]
      /\ UNCHANGED <<disk, fails, usage>>
    BY DEF AppendSegment, At
<1>2. job[t].pc \in WritePcs
    BY <1>1 DEF WritePcs
<1>3. job[t].todo # << >> /\ job[t] \in Jobs
    BY <1>1, <1>2, WritingIs DEF Worker
<1>4. id \in Nat /\ registry'.content_store = registry.content_store
    BY <1>1, IndInvIs, RegistryType DEF Registries
<1>5. Head(job[t].todo) \in Contents
    BY <1>3, IndInvIs, JobType, HeadTailProperties
<1>6. e \in SegmentInfo
    BY <1>5 DEF SegmentInfo
<1> HIDE DEF e, id
<1>7. k \in Jobs /\ k.pc = "update"
    BY <1>3, <1>4 DEF Jobs, Pcs, WritePcs
<1> HIDE DEF k
<1>8. job'[t] = k /\ Becomes(job, t, k, job')
    BY <1>1, <1>7, IndInvIs, BecomesIs DEF JobsOf
<1>9. IsPut(segment_map', segment_map, id, e)
    BY <1>1, <1>4, <1>6, IndInvIs, PutSegment
<1>10. \A h \in DOMAIN registry.content_store : registry.content_store[h] # id
    <2> SUFFICES ASSUME NEW h \in DOMAIN registry.content_store
                 PROVE  registry.content_store[h] # id
        OBVIOUS
    <2>1. registry.content_store[h] \in Nat /\ registry.content_store[h] < id
        BY IndInvIs, RegistryType, StoreType DEF Below, id
    <2> QED  BY <1>4, <2>1
<1>11. \A u \in Threads \ {t} : job[u].pc = "register" => job[u].seg \in DOMAIN segment_map /\ job[u].seg # id
    <2> SUFFICES ASSUME NEW u \in Threads \ {t}, job[u].pc = "register"
                 PROVE  job[u].seg \in DOMAIN segment_map /\ job[u].seg # id
        OBVIOUS
    <2>1. job[u].seg \in DOMAIN segment_map /\ job[u].seg < id /\ job[u].seg \in Nat
        BY IndInvIs, JobType DEF IndInv, Inv, JobOK, Fresh, FreshPcs, id
    <2> QED  BY <1>4, <2>1
<1>12. /\ DOMAIN segment_map \subseteq DOMAIN segment_map'
       /\ \A x \in DOMAIN segment_map : x # id => segment_map'[x] = segment_map[x]
    BY <1>9 DEF IsPut
<1>13. NamesLive(registry.content_store, segment_map, job) =>
           /\ Named(registry'.content_store, segment_map')
           /\ Finds(registry'.content_store, segment_map', job'[t])
    BY <1>4, <1>7, <1>8, <1>10, <1>12, FindsIdle DEF NamesLive, Named
<1>14. saving'[t] = "log"
    BY <1>1, IndInvIs, OweIs DEF Saves
<1> QED  BY <1>1, <1>2, <1>4, <1>8, <1>11, <1>12, <1>13, <1>14, LiveWrites

(* The metadata gives it its hash.                                         *)
LEMMA LiveUpdateMetadata ==
    ASSUME IndInv, Live, NEW t \in Threads, UpdateMetadata(t)
    PROVE  Live'
<1> DEFINE id == job[t].seg
           content == Head(job[t].todo)
           hash == IF job[t].dedupe THEN content ELSE NoHash
           e == [data |-> content, ref_count |-> 1, hash |-> hash]
<1>1. /\ job[t].pc = "update" /\ saving[t] = "no" /\ Owe(t, "log") /\ registry' = registry
      /\ segment_map' = Put(segment_map, id, e)
      /\ IF job[t].dedupe THEN Goto(t, "register") ELSE NextChunk(t, id, FALSE)
      /\ UNCHANGED <<disk, fails, usage>>
    BY DEF UpdateMetadata, At
<1>2. /\ job[t].pc \in WritePcs /\ job[t].pc \in FreshPcs
      /\ job[t].pc \in {"increment", "update", "register"} /\ "register" \in Pcs
    BY <1>1 DEF WritePcs, FreshPcs, Pcs
<1>3. job[t].todo # << >> /\ Fresh(registry, segment_map, job, job[t])
    BY <1>1, <1>2, WritingIs DEF Worker, JobOK
<1>4. id \in DOMAIN segment_map /\ \A h \in DOMAIN registry.content_store : registry.content_store[h] # id
    BY <1>3 DEF Fresh
<1>5. id \in Nat /\ content \in Contents
    BY <1>3, IndInvIs, JobType, HeadTailProperties
<1>6. e \in SegmentInfo /\ (job[t].dedupe => e.hash = content)
    BY <1>5 DEF SegmentInfo
<1> HIDE DEF e, id, content
<1>7. IsPut(segment_map', segment_map, id, e)
    BY <1>1, <1>5, <1>6, IndInvIs, PutSegment
<1>8. /\ DOMAIN segment_map \subseteq DOMAIN segment_map' /\ segment_map'[id] = e
      /\ \A x \in DOMAIN segment_map : x # id => segment_map'[x] = segment_map[x]
    BY <1>7 DEF IsPut
<1>9. \A u \in Threads \ {t} : job[u].pc = "register" => job[u].seg \in DOMAIN segment_map /\ job[u].seg # id
    BY <1>2, OthersWrite DEF IndInv, Inv, JobOK, Fresh, FreshPcs, Distinct, id
<1>10. saving'[t] = "log"
    BY <1>1, IndInvIs, OweIs DEF Saves
<1>11. NamesLive(registry.content_store, segment_map, job) => Named(registry'.content_store, segment_map')
    BY <1>1, <1>4, <1>8 DEF NamesLive, Named
<1>12. Becomes(job, t, job'[t], job') /\ Finds(registry'.content_store, segment_map', job'[t])
    <2>1. CASE job[t].dedupe
        <3>1. /\ Becomes(job, t, job'[t], job') /\ job'[t].pc = "register" /\ job'[t].todo = job[t].todo
              /\ job'[t].seg = id
            BY <1>1, <1>2, <2>1, IndInvIs, GotoIs DEF id
        <3>2. segment_map'[job'[t].seg].hash = Head(job'[t].todo)
            BY <1>6, <1>8, <2>1, <3>1 DEF content
        <3> QED  BY <3>1, <3>2 DEF Finds
    <2>2. CASE ~job[t].dedupe
        <3>1. Becomes(job, t, job'[t], job') /\ job'[t].pc = "chunk"
            BY <1>1, <1>2, <1>3, <2>2, IndInvIs, NextChunkIs DEF id, Takes
        <3> QED  BY <3>1, FindsIdle
    <2> QED  BY <2>1, <2>2
<1> QED  BY <1>1, <1>2, <1>8, <1>9, <1>10, <1>11, <1>12, LiveWrites

LEMMA LiveRegisterContent ==
    ASSUME IndInv, Live, NEW t \in Threads, RegisterContent(t)
    PROVE  Live'
<1> DEFINE id == job[t].seg
           content == Head(job[t].todo)
           st == Put(registry.content_store, content, id)
<1>1. /\ job[t].pc = "register" /\ saving[t] = "no" /\ Owe(t, "registry") /\ segment_map' = segment_map
      /\ registry' = [registry EXCEPT !.content_store = st]
      /\ NextChunk(t, id, FALSE)
      /\ UNCHANGED <<disk, fails, usage>>
    BY DEF RegisterContent, At
<1>2. /\ job[t].pc \in WritePcs /\ job[t].pc \in FreshPcs
      /\ job[t].pc \in {"increment", "update", "register"}
    BY <1>1 DEF WritePcs, FreshPcs
<1>3. job[t].todo # << >> /\ id \in DOMAIN segment_map
    BY <1>1, <1>2, WritingIs DEF Worker, JobOK, Fresh
<1>4. id \in Nat /\ content \in Contents /\ registry \in Registries /\ registry.content_store \in Stores
    BY <1>3, IndInvIs, JobType, HeadTailProperties, RegistryType
<1>5. NamesLive(registry.content_store, segment_map, job) => segment_map[id].hash = content
    BY <1>1 DEF NamesLive, Finds
<1>6. Becomes(job, t, job'[t], job') /\ job'[t].pc = "chunk"
    BY <1>1, <1>2, <1>3, IndInvIs, NextChunkIs DEF Takes
<1> HIDE DEF id, content
<1>7. IsPut(st, registry.content_store, content, id)
    BY <1>4, PutStore
<1> HIDE DEF st
<1>8. registry'.content_store = st
    BY <1>1, <1>4 DEF Registries
<1>9. \A h \in DOMAIN st : (h = content /\ st[h] = id) \/
          (h \in DOMAIN registry.content_store /\ st[h] = registry.content_store[h])
    BY <1>7 DEF IsPut
<1>10. NamesLive(registry.content_store, segment_map, job) =>
           /\ Named(registry'.content_store, segment_map')
           /\ Finds(registry'.content_store, segment_map', job'[t])
    BY <1>1, <1>3, <1>5, <1>6, <1>8, <1>9, FindsIdle DEF NamesLive, Named
<1>11. saving'[t] = "registry"
    BY <1>1, IndInvIs, OweIs DEF Saves
<1> QED  BY <1>1, <1>2, <1>6, <1>10, <1>11, LiveWrites

LEMMA LiveWriteReturns ==
    ASSUME IndInv, Live, NEW t \in Threads, WriteReturns(t)
    PROVE  Live'
BY LiveReturns DEF WriteReturns, At, memory

LEMMA LiveDeleteReturns ==
    ASSUME IndInv, Live, NEW t \in Threads, DeleteReturns(t)
    PROVE  Live'
BY LiveReturns DEF DeleteReturns, At, memory

LEMMA LiveSweepReturns ==
    ASSUME IndInv, Live, NEW t \in Threads, SweepReturns(t)
    PROVE  Live'
BY LiveReturns DEF SweepReturns, At, memory

LEMMA LiveFailures ==
    ASSUME Live, NEW t \in Threads, PrepareFails(t) \/ AppendFails(t) \/ SaveFails(t)
    PROVE  Live'
BY LiveFails DEF PrepareFails, AppendFails, SaveFails

-----------------------------------------------------------------------------
(* The names during a delete or a sweep.                                   *)

(* A step that only takes names and segments away.                         *)
LEMMA LiveReclaims ==
    ASSUME IndInv, Live, NEW t \in Threads, job[t].pc \notin WritePcs \cup {"idle"}, saving[t] = "no",
           Becomes(job, t, job'[t], job'), UNCHANGED <<disk, fails, usage>>,
           registry'.content_store = registry.content_store \/ saving'[t] = "registry",
           segment_map' = segment_map \/ saving'[t] = "log",
           \A h \in DOMAIN registry'.content_store :
               h \in DOMAIN registry.content_store /\ registry'.content_store[h] = registry.content_store[h],
           NamesLive(registry.content_store, segment_map, job) =>
               /\ Named(registry'.content_store, segment_map')
               /\ Finds(registry'.content_store, segment_map', job'[t])
    PROVE  Live'
<1>1. job[t].pc # "idle" /\ \A u \in Threads : job[u].pc \notin WritePcs
    BY ReclaimingIs
<1>2. Alone(t)
    BY <1>1, AloneIs
<1>3. NamesLive(registry.content_store, segment_map, job) =>
          NamesLive(registry'.content_store, segment_map', job')
    BY <1>1, ReclaimNames
<1> QED  BY <1>2, <1>3, LiveMoves

LEMMA LiveDeleteCapsule ==
    ASSUME IndInv, Live, NEW t \in Threads, NEW cap, DeleteCapsule(t, cap)
    PROVE  Live'
<1> DEFINE cs == Drop(registry.capsules, cap)
           sg == registry.capsules[cap].segments
           k == [IdleJob EXCEPT !.pc = "decrement", !.segs = sg]
<1>1. /\ Start(t, "delete") /\ "delete" \in Ops /\ cap \in DOMAIN registry.capsules
      /\ job' = [job EXCEPT ![t] = k]
      /\ registry' = [registry EXCEPT !.capsules = cs] /\ segment_map' = segment_map
      /\ UNCHANGED <<disk, fails, usage>>
    BY DEF DeleteCapsule, Start
<1>2. sg \in Seq(Nat) /\ registry'.content_store = registry.content_store
    BY <1>1, IndInvIs, RegistryType, CapsuleType DEF Registries
<1> HIDE DEF sg, cs
<1>3. k \in Jobs /\ k.pc = "decrement"
    <2>1. << >> \in Seq(Nat) /\ << >> \in Seq(Contents)
        BY EmptySeq
    <2> QED  BY <1>2, <2>1 DEF IdleJob, Jobs, Pcs, Hash
<1> HIDE DEF k
<1>4. job'[t] = k /\ Becomes(job, t, k, job')
    BY <1>1, <1>3, IndInvIs, BecomesIs DEF JobsOf
<1>5. Alone(t) /\ saving[t] = "no"
    BY <1>1, AloneIs, StartIs
<1>6. Finds(registry.content_store, segment_map, job'[t])
    BY <1>3, <1>4, FindsIdle
<1> QED  BY <1>1, <1>2, <1>4, <1>5, <1>6, LiveQuiet

(* The hash read with the last reference is the only name of the segment.  *)
LEMMA LiveDecrementRefcount ==
    ASSUME IndInv, Live, NEW t \in Threads, DecrementRefcount(t)
    PROVE  Live'
<1> DEFINE id == Head(job[t].segs)
           tl == Tail(job[t].segs)
           hs == segment_map[id].hash
           n == segment_map[id].ref_count - 1
           pc == IF n # 0 THEN "decrement" ELSE IF hs = NoHash THEN "remove" ELSE "deregister"
           k == [job[t] EXCEPT !.pc = pc, !.segs = tl, !.seg = id, !.hash = hs]
<1>1. /\ job[t].pc = "decrement" /\ saving[t] = "no" /\ job[t].segs # << >> /\ registry' = registry
      /\ UNCHANGED <<disk, fails, usage>>
    BY DEF DecrementRefcount, At
<1>2. job[t].pc \notin WritePcs \cup {"idle"} /\ job[t].pc # "idle"
    BY <1>1 DEF WritePcs
<1>3. CASE ~(id \in DOMAIN segment_map /\ segment_map[id].ref_count > 0)
    BY <1>1, <1>2, <1>3, LiveReturns DEF DecrementRefcount
<1>4. CASE id \in DOMAIN segment_map /\ segment_map[id].ref_count > 0
    <2>1. /\ segment_map' = [segment_map EXCEPT ![id].ref_count = segment_map[id].ref_count + (-1)]
          /\ job' = [job EXCEPT ![t] = k] /\ Owe(t, "log")
        BY <1>4 DEF DecrementRefcount, CountedBy, Unreferenced
    <2>2. segment_map[id].ref_count \in Nat /\ hs \in Hash /\ id \in Nat
        BY <1>4, IndInvIs, SegmentType
    <2>3. n \in Nat /\ n = segment_map[id].ref_count + (-1)
        BY <1>4, <2>2
    <2>4. tl \in Seq(Nat)
        BY <1>1, IndInvIs, JobType, HeadTailProperties
    <2>5. pc \in {"decrement", "deregister", "remove"} /\ (pc = "remove" => hs = NoHash)
        OBVIOUS
    <2>6. Named(registry.content_store, segment_map) => Names(registry.content_store, id, hs)
        BY DEF Named, Names
    <2> HIDE DEF id, tl, hs, n, pc
    <2>7. segment_map' = [segment_map EXCEPT ![id].ref_count = n]
        BY <2>1, <2>3
    <2>8. IsCounted(segment_map', segment_map, id, n)
        BY <1>4, <2>3, <2>7, IndInvIs, CountSegment
    <2>9. k \in Jobs /\ k.pc = pc /\ k.seg = id /\ k.hash = hs
        BY <1>2, <2>2, <2>4, <2>5, ReclaimingIs DEF Jobs, Pcs
    <2> HIDE DEF k
    <2>10. job'[t] = k /\ Becomes(job, t, k, job')
        BY <2>1, <2>9, IndInvIs, BecomesIs DEF JobsOf
    <2>11. /\ DOMAIN segment_map' = DOMAIN segment_map
           /\ \A x \in DOMAIN segment_map : segment_map'[x].hash = segment_map[x].hash
        BY <2>8 DEF IsCounted
    <2>12. NamesLive(registry.content_store, segment_map, job) =>
               /\ Named(registry'.content_store, segment_map')
               /\ Finds(registry'.content_store, segment_map', job'[t])
        BY <1>1, <2>5, <2>6, <2>9, <2>10, <2>11 DEF NamesLive, Named, Finds
    <2>13. saving'[t] = "log"
        BY <2>1, IndInvIs, OweIs DEF Saves
    <2> QED  BY <1>1, <1>2, <2>10, <2>12, <2>13, LiveReclaims
<1> QED  BY <1>3, <1>4

(* deregister_content takes the last name of a segment.                    *)
LEMMA DeregisterNames ==
    ASSUME IndInv, NEW t \in Threads, saving[t] = "no", NEW hash, NEW id,
           Deregister(t, hash, id) \/ (hash = NoHash /\ UNCHANGED <<registry, saving>>)
    PROVE  /\ registry'.content_store = registry.content_store \/ saving'[t] = "registry"
           /\ \A h \in DOMAIN registry'.content_store :
                  h \in DOMAIN registry.content_store /\ registry'.content_store[h] = registry.content_store[h]
           /\ \A x, h : Names(registry.content_store, x, h) => Names(registry'.content_store, x, h)
           /\ Names(registry.content_store, id, hash) => Names(registry'.content_store, id, NoHash)
           /\ \A m : Named(registry.content_store, m) => Named(registry'.content_store, m)
<1> DEFINE st == registry.content_store
           dr == Drop(st, hash)
<1>1. registry \in Registries /\ st \in Stores /\ saving \in [Threads -> Saves] /\ "registry" \in Saves
    BY IndInvIs, RegistryType DEF Saves
<1>2. \A h \in DOMAIN registry'.content_store : h \in DOMAIN st /\ registry'.content_store[h] = st[h]
    BY DeregisterIs
<1>3. \A x, h : Names(st, x, h) => Names(registry'.content_store, x, h)
    BY <1>2 DEF Names
<1>4. \A m : Named(st, m) => Named(registry'.content_store, m)
    BY <1>2 DEF Named
<1>5. /\ registry'.content_store = st \/ saving'[t] = "registry"
      /\ Names(st, id, hash) => Names(registry'.content_store, id, NoHash)
    <2>1. CASE Deregister(t, hash, id) /\ hash \in DOMAIN st /\ st[hash] = id
        <3>1. registry' = [registry EXCEPT !.content_store = dr] /\ Owe(t, "registry")
            BY <2>1 DEF Deregister
        <3>2. DOMAIN dr = DOMAIN st \ {hash}
            BY <1>1, DropStore DEF IsDrop
        <3> HIDE DEF dr
        <3>3. registry'.content_store = dr
            BY <1>1, <3>1 DEF Registries
        <3>4. saving'[t] = "registry"
            BY <1>1, <3>1, OweIs
        <3>5. Names(st, id, hash) => Names(registry'.content_store, id, NoHash)
            BY <1>2, <3>2, <3>3 DEF Names
        <3> QED  BY <3>4, <3>5
    <2>2. CASE Deregister(t, hash, id) /\ ~(hash \in DOMAIN st /\ st[hash] = id)
        <3>1. registry' = registry
            BY <2>2 DEF Deregister
        <3> QED  BY <2>2, <3>1 DEF Names
    <2>3. CASE hash = NoHash /\ UNCHANGED <<registry, saving>>
        BY <2>3
    <2> QED  BY <2>1, <2>2, <2>3
<1> QED  BY <1>2, <1>3, <1>4, <1>5

LEMMA LiveDeregisterContent ==
    ASSUME IndInv, Live, NEW t \in Threads, DeregisterContent(t)
    PROVE  Live'
<1>1. /\ job[t].pc = "deregister" /\ saving[t] = "no" /\ Deregister(t, job[t].hash, job[t].seg)
      /\ Goto(t, "remove") /\ segment_map' = segment_map /\ UNCHANGED <<disk, fails, usage>>
    BY DEF DeregisterContent, At
<1>2. job[t].pc \notin WritePcs \cup {"idle"} /\ "remove" \in Pcs
    BY <1>1 DEF WritePcs, Pcs
<1>3. Becomes(job, t, job'[t], job') /\ job'[t].pc = "remove" /\ job'[t].seg = job[t].seg
    BY <1>1, <1>2, IndInvIs, GotoIs
<1>4. /\ registry'.content_store = registry.content_store \/ saving'[t] = "registry"
      /\ \A h \in DOMAIN registry'.content_store :
             h \in DOMAIN registry.content_store /\ registry'.content_store[h] = registry.content_store[h]
      /\ Names(registry.content_store, job[t].seg, job[t].hash) => Names(registry'.content_store, job[t].seg, NoHash)
      /\ \A m : Named(registry.content_store, m) => Named(registry'.content_store, m)
    BY <1>1, DeregisterNames
<1>5. NamesLive(registry.content_store, segment_map, job) =>
          /\ Named(registry'.content_store, segment_map')
          /\ Finds(registry'.content_store, segment_map', job'[t])
    BY <1>1, <1>3, <1>4 DEF NamesLive, Finds
<1> QED  BY <1>1, <1>2, <1>3, <1>4, <1>5, LiveReclaims

(* A segment without a name may go.                                        *)
LEMMA DropUnnamed ==
    ASSUME IndInv, NEW id, Names(registry.content_store, id, NoHash),
           Named(registry.content_store, segment_map), segment_map' = Drop(segment_map, id)
    PROVE  Named(registry.content_store, segment_map')
<1>1. IsDrop(segment_map', segment_map, id)
    BY IndInvIs, DropSegment
<1>2. \A h \in DOMAIN registry.content_store : h # NoHash
    BY IndInvIs, RegistryType, StoreType, PipelineAssumption
<1>3. \A h \in DOMAIN registry.content_store : registry.content_store[h] # id
    BY <1>2 DEF Names
<1> QED  BY <1>1, <1>3 DEF Named, IsDrop

LEMMA LiveRemoveSegment ==
    ASSUME IndInv, Live, NEW t \in Threads, RemoveSegment(t)
    PROVE  Live'
<1> DEFINE id == job[t].seg
<1>1. /\ job[t].pc = "remove" /\ saving[t] = "no" /\ Goto(t, "decrement") /\ registry' = registry
      /\ IF id \in DOMAIN segment_map
         THEN segment_map' = Drop(segment_map, id) /\ Owe(t, "log")
         ELSE UNCHANGED <<segment_map, saving>>
      /\ UNCHANGED <<disk, fails, usage>>
    BY DEF RemoveSegment, At
<1>2. job[t].pc \notin WritePcs \cup {"idle"} /\ "decrement" \in Pcs
    BY <1>1 DEF WritePcs, Pcs
<1>3. Becomes(job, t, job'[t], job') /\ job'[t].pc = "decrement"
    BY <1>1, <1>2, IndInvIs, GotoIs
<1>4. NamesLive(registry.content_store, segment_map, job) =>
          Names(registry.content_store, id, NoHash) /\ Named(registry.content_store, segment_map)
    BY <1>1 DEF NamesLive, Finds
<1> HIDE DEF id
<1>5. NamesLive(registry.content_store, segment_map, job) => Named(registry'.content_store, segment_map')
    BY <1>1, <1>4, DropUnnamed
<1>6. segment_map' = segment_map \/ saving'[t] = "log"
    BY <1>1, IndInvIs, OweIs DEF Saves
<1>7. Finds(registry'.content_store, segment_map', job'[t])
    BY <1>3, FindsIdle
<1> QED  BY <1>1, <1>2, <1>3, <1>5, <1>6, <1>7, LiveReclaims

LEMMA LiveReclaimRemove ==
    ASSUME IndInv, Live, NEW t \in Threads, ReclaimRemove(t)
    PROVE  Live'
<1> DEFINE id == job[t].seg
<1>1. /\ job[t].pc = "reclaim" /\ saving[t] = "no" /\ registry' = registry /\ UNCHANGED <<disk, fails, usage>>
    BY DEF ReclaimRemove, At
<1>2. job[t].pc \notin WritePcs \cup {"idle"} /\ job[t].pc # "idle" /\ "sweep" \in Pcs
    BY <1>1 DEF WritePcs, Pcs
<1>3. CASE id \notin DOMAIN segment_map
    BY <1>1, <1>2, <1>3, LiveReturns DEF ReclaimRemove
<1>4. CASE id \in DOMAIN segment_map
    <2>1. segment_map' = Drop(segment_map, id) /\ Owe(t, "log") /\ Goto(t, "sweep")
        BY <1>4 DEF ReclaimRemove
    <2>2. Becomes(job, t, job'[t], job') /\ job'[t].pc = "sweep" /\ job'[t].victims = job[t].victims
        BY <1>2, <2>1, IndInvIs, GotoIs
    <2>3. NamesLive(registry.content_store, segment_map, job) =>
              /\ Names(registry.content_store, id, NoHash) /\ Named(registry.content_store, segment_map)
              /\ \A v \in job[t].victims : Names(registry.content_store, v.id, v.hash)
        BY <1>1 DEF NamesLive, Finds
    <2> HIDE DEF id
    <2>4. NamesLive(registry.content_store, segment_map, job) => Named(registry'.content_store, segment_map')
        BY <1>1, <2>1, <2>3, DropUnnamed
    <2>5. saving'[t] = "log"
        BY <2>1, IndInvIs, OweIs DEF Saves
    <2>6. NamesLive(registry.content_store, segment_map, job) =>
              Finds(registry'.content_store, segment_map', job'[t])
        BY <1>1, <2>2, <2>3 DEF Finds
    <2> QED  BY <1>1, <1>2, <2>2, <2>4, <2>5, <2>6, LiveReclaims
<1> QED  BY <1>3, <1>4

LEMMA LiveReclaimDeregister ==
    ASSUME IndInv, Live, NEW t \in Threads, NEW v \in job[t].victims, ReclaimDeregister(t, v)
    PROVE  Live'
<1> DEFINE id == v.id
           rest == job[t].victims \ {v}
           k == [job[t] EXCEPT !.pc = "reclaim", !.seg = id, !.victims = rest]
<1>1. /\ job[t].pc = "sweep" /\ saving[t] = "no" /\ job' = [job EXCEPT ![t] = k] /\ segment_map' = segment_map
      /\ Deregister(t, v.hash, v.id) \/ (v.hash = NoHash /\ UNCHANGED <<registry, saving>>)
      /\ UNCHANGED <<disk, fails, usage>>
    BY DEF ReclaimDeregister, At
<1>2. job[t].pc \notin WritePcs \cup {"idle"}
    BY <1>1 DEF WritePcs
<1>3. job[t] \in Jobs /\ v \in Victim
    BY <1>1, <1>2, ReclaimingIs DEF Doomed
<1>4. id \in Nat /\ rest \in SUBSET (Nat \cup Victim) /\ rest \subseteq job[t].victims
    BY <1>3 DEF Victim, Jobs
<1>5. /\ registry'.content_store = registry.content_store \/ saving'[t] = "registry"
      /\ \A h \in DOMAIN registry'.content_store :
             h \in DOMAIN registry.content_store /\ registry'.content_store[h] = registry.content_store[h]
      /\ \A x, h : Names(registry.content_store, x, h) => Names(registry'.content_store, x, h)
      /\ Names(registry.content_store, id, v.hash) => Names(registry'.content_store, id, NoHash)
      /\ \A m : Named(registry.content_store, m) => Named(registry'.content_store, m)
    BY <1>1, DeregisterNames
<1>6. NamesLive(registry.content_store, segment_map, job) =>
          /\ Names(registry'.content_store, id, NoHash) /\ Named(registry'.content_store, segment_map')
          /\ \A w \in rest : Names(registry'.content_store, w.id, w.hash)
    BY <1>1, <1>4, <1>5 DEF NamesLive, Finds
<1> HIDE DEF id, rest
<1>7. k \in Jobs /\ k.pc = "reclaim" /\ k.seg = id /\ k.victims = rest
    BY <1>3, <1>4 DEF Jobs, Pcs
<1> HIDE DEF k
<1>8. job'[t] = k /\ Becomes(job, t, k, job')
    BY <1>1, <1>7, IndInvIs, BecomesIs DEF JobsOf
<1>9. NamesLive(registry.content_store, segment_map, job) =>
          /\ Named(registry'.content_store, segment_map')
          /\ Finds(registry'.content_store, segment_map', job'[t])
    BY <1>6, <1>7, <1>8 DEF Finds
<1> QED  BY <1>1, <1>2, <1>5, <1>8, <1>9, LiveReclaims

(* A sweep reads the only name of each victim.                             *)
LEMMA ZeroRefsNames ==
    ASSUME IndInv, Named(registry.content_store, segment_map), NEW v \in ZeroRefs
    PROVE  Names(registry.content_store, v.id, v.hash)
<1>1. PICK id \in DOMAIN segment_map : v = [id |-> id, hash |-> segment_map[id].hash]
    BY DEF ZeroRefs
<1> QED  BY <1>1 DEF Named, Names

LEMMA LiveGarbageCollect ==
    ASSUME IsFiniteSet(Threads), IndInv, Live, NEW t \in Threads, GarbageCollect(t)
    PROVE  Live'
<1> DEFINE vs == ZeroRefs
           k == [IdleJob EXCEPT !.pc = "sweep", !.victims = vs]
<1>1. /\ Start(t, "gc") /\ "gc" \in Ops /\ job' = [job EXCEPT ![t] = k] /\ registry' = registry
      /\ segment_map' = segment_map /\ UNCHANGED <<disk, fails, usage>>
    BY DEF GarbageCollect, memory, Start
<1>2. vs \in SUBSET (Nat \cup Victim)
    BY ZeroRefsIs
<1>3. Named(registry.content_store, segment_map) => \A v \in vs : Names(registry.content_store, v.id, v.hash)
    BY ZeroRefsNames
<1> HIDE DEF vs
<1>4. k \in Jobs /\ k.pc = "sweep" /\ k.victims = vs
    <2>1. << >> \in Seq(Nat) /\ << >> \in Seq(Contents)
        BY EmptySeq
    <2> QED  BY <1>2, <2>1 DEF IdleJob, Jobs, Pcs, Hash
<1> HIDE DEF k
<1>5. job'[t] = k /\ Becomes(job, t, k, job')
    BY <1>1, <1>4, IndInvIs, BecomesIs DEF JobsOf
<1>6. Alone(t) /\ saving[t] = "no"
    BY <1>1, AloneIs, StartIs
<1>7. NamesLive(registry.content_store, segment_map, job) =>
          Finds(registry.content_store, segment_map, job'[t])
    BY <1>3, <1>4, <1>5 DEF NamesLive, Finds
<1> QED  BY <1>1, <1>5, <1>6, <1>7, LiveQuiet

LEMMA LiveReconcileSweep ==
    ASSUME IsFiniteSet(Threads), IndInv, Live, NEW t \in Threads, ReconcileSweep(t)
    PROVE  Live'
<1> DEFINE vs == ZeroRefs
           k == [job[t] EXCEPT !.pc = "sweep", !.victims = vs]
<1>1. /\ job[t].pc = "reconcile" /\ saving[t] = "no" /\ job' = [job EXCEPT ![t] = k] /\ registry' = registry
      /\ segment_map' = segment_map /\ UNCHANGED <<disk, fails, usage>>
    BY DEF ReconcileSweep, At, memory
<1>2. job[t].pc \notin WritePcs \cup {"idle"} /\ job[t].pc # "idle"
    BY <1>1 DEF WritePcs
<1>3. vs \in SUBSET (Nat \cup Victim) /\ job[t] \in Jobs
    BY <1>2, ZeroRefsIs, ReclaimingIs
<1>4. Named(registry.content_store, segment_map) => \A v \in vs : Names(registry.content_store, v.id, v.hash)
    BY ZeroRefsNames
<1> HIDE DEF vs
<1>5. k \in Jobs /\ k.pc = "sweep" /\ k.victims = vs
    BY <1>3 DEF Jobs, Pcs
<1> HIDE DEF k
<1>6. job'[t] = k /\ Becomes(job, t, k, job')
    BY <1>1, <1>5, IndInvIs, BecomesIs DEF JobsOf
<1>7. NamesLive(registry.content_store, segment_map, job) =>
          Finds(registry.content_store, segment_map, job'[t])
    BY <1>4, <1>5, <1>6 DEF NamesLive, Finds
<1> QED  BY <1>1, <1>2, <1>6, <1>7, AloneIs, LiveQuiet

LEMMA LiveReconcileSegment ==
    ASSUME IndInv, Live, NEW t \in Threads, NEW id, ReconcileSegment(t, id)
    PROVE  Live'
<1> DEFINE n == References(registry.capsules, id)
           rest == job[t].victims \ {id}
           k == [job[t] EXCEPT !.victims = rest]
<1>1. /\ job[t].pc = "reconcile" /\ saving[t] = "no" /\ job' = [job EXCEPT ![t] = k] /\ Owe(t, "log")
      /\ segment_map' = [segment_map EXCEPT ![id].ref_count = n]
      /\ registry' = registry /\ UNCHANGED <<disk, fails, usage>>
    BY DEF ReconcileSegment, At
<1>2. job[t].pc \notin WritePcs \cup {"idle"} /\ job[t].pc # "idle"
    BY <1>1 DEF WritePcs
<1>3. job[t] \in Jobs /\ n \in Nat
    BY <1>2, ReclaimingIs, IndInvIs, RegistryType, FiniteCapsules, RefsFinite
<1>4. k \in Jobs /\ k.pc = "reconcile"
    BY <1>1, <1>3 DEF Jobs
<1> HIDE DEF k, n
<1>5. job'[t] = k /\ Becomes(job, t, k, job')
    BY <1>1, <1>4, IndInvIs, BecomesIs DEF JobsOf
<1>6. /\ DOMAIN segment_map' = DOMAIN segment_map
      /\ \A x \in DOMAIN segment_map : segment_map'[x].hash = segment_map[x].hash
    <2>1. CASE id \in DOMAIN segment_map
        <3>1. IsCounted(segment_map', segment_map, id, n)
            BY <1>1, <1>3, <2>1, IndInvIs, CountSegment
        <3> QED  BY <3>1 DEF IsCounted
    <2>2. CASE id \notin DOMAIN segment_map
        BY <1>1, <2>2
    <2> QED  BY <2>1, <2>2
<1>7. NamesLive(registry.content_store, segment_map, job) => Named(registry'.content_store, segment_map')
    BY <1>1, <1>6 DEF NamesLive, Named
<1>8. Finds(registry'.content_store, segment_map', job'[t])
    BY <1>4, <1>5, FindsIdle
<1>9. saving'[t] = "log"
    BY <1>1, IndInvIs, OweIs DEF Saves
<1> QED  BY <1>1, <1>2, <1>5, <1>7, <1>8, <1>9, LiveReclaims

(* The names in the files: a save leaves none of the two behind.           *)
LEMMA LiveSaves ==
    ASSUME IndInv, Live, NEW t \in Threads, saving[t] # "no",
           UNCHANGED <<mode, registry, segment_map, job, fails, usage>>,
           fails = usage.fails /\ usage.calls = "serial" =>
               /\ Named(registry_file'.content_store, segments_file')
               /\ registry_file'.content_store = registry.content_store \/ saving'[t] \in {"registry", "clone"}
               /\ segments_file' = segment_map \/ saving'[t] = "log"
    PROVE  Live'
BY DEF Live

(* When calls run one at a time, at most one file is behind.               *)
LEMMA OneBehind ==
    ASSUME IndInv, Live, fails = usage.fails, usage.calls = "serial", NEW t \in Threads, saving[t] # "no"
    PROVE  /\ Named(registry.content_store, segment_map) /\ Named(registry_file.content_store, segments_file)
           /\ saving[t] = "log" => registry_file.content_store = registry.content_store
           /\ saving[t] # "log" => segments_file = segment_map
<1>1. job[t].pc # "idle"
    BY DEF IndInv, Calls
<1>2. mode # "down" /\ \A u \in Threads \ {t} : saving[u] = "no"
    BY <1>1 DEF IndInv, Calls
<1>3. /\ NamesLive(registry.content_store, segment_map, job)
      /\ Named(registry_file.content_store, segments_file)
      /\ \/ registry_file.content_store = registry.content_store
         \/ \E u \in Threads : saving[u] \in {"registry", "clone"}
      /\ segments_file = segment_map \/ \E u \in Threads : saving[u] = "log"
    BY <1>2 DEF Live
<1> QED  BY <1>2, <1>3 DEF NamesLive

LEMMA LiveSaveSegmentMap ==
    ASSUME IndInv, Live, NEW t \in Threads, SaveSegmentMap(t)
    PROVE  Live'
<1>1. /\ saving[t] = "log" /\ segments_file' = segment_map /\ registry_file' = registry_file
      /\ UNCHANGED <<mode, registry, segment_map, job, fails, usage>>
    BY DEF SaveSegmentMap, memory
<1>2. fails = usage.fails /\ usage.calls = "serial" =>
          /\ Named(registry_file'.content_store, segments_file')
          /\ registry_file'.content_store = registry.content_store
    BY <1>1, OneBehind
<1> QED  BY <1>1, <1>2, LiveSaves

LEMMA LiveCloneRegistry ==
    ASSUME IndInv, Live, NEW t \in Threads, CloneRegistry(t)
    PROVE  Live'
<1>1. /\ saving[t] = "registry" /\ Owe(t, "clone") /\ UNCHANGED <<registry_file, segments_file>>
      /\ UNCHANGED <<mode, registry, segment_map, job, fails, usage>>
    BY DEF CloneRegistry, memory, disk
<1>2. saving'[t] = "clone"
    BY <1>1, IndInvIs, OweIs DEF Saves
<1>3. fails = usage.fails /\ usage.calls = "serial" =>
          Named(registry_file'.content_store, segments_file') /\ segments_file' = segment_map
    BY <1>1, OneBehind
<1> QED  BY <1>1, <1>2, <1>3, LiveSaves

LEMMA LiveWriteRegistry ==
    ASSUME IndInv, Live, NEW t \in Threads, WriteRegistry(t)
    PROVE  Live'
<1>1. /\ saving[t] = "clone" /\ registry_file' = snap[t] /\ segments_file' = segments_file
      /\ UNCHANGED <<mode, registry, segment_map, job, fails, usage>>
    BY DEF WriteRegistry, memory
<1>2. usage.calls = "serial" => snap[t] = registry
    BY <1>1 DEF IndInv, Disk, Settled
<1>3. fails = usage.fails /\ usage.calls = "serial" =>
          Named(registry.content_store, segment_map) /\ segments_file = segment_map
    BY <1>1, OneBehind
<1>4. fails = usage.fails /\ usage.calls = "serial" =>
          /\ Named(registry_file'.content_store, segments_file')
          /\ registry_file'.content_store = registry.content_store /\ segments_file' = segment_map
    BY <1>1, <1>2, <1>3
<1> QED  BY <1>1, <1>4, LiveSaves

(* Nothing but what the files hold is in memory, and nobody uses it yet.   *)
LEMMA LiveCalm ==
    ASSUME NEW st, NEW m, NEW jb, Named(st, m), \A t \in Threads : jb[t].pc \in {"idle", "reconcile"}
    PROVE  NamesLive(st, m, jb)
BY FindsIdle DEF NamesLive

LEMMA LiveOpen ==
    ASSUME IndInv, Live, NEW t \in Threads, Open(t)
    PROVE  Live'
<1>1. /\ mode = "down" /\ registry' = registry_file /\ segment_map' = segments_file
      /\ UNCHANGED <<registry_file, segments_file, fails, usage>>
    BY DEF Open, disk
<1>2. usage.calls = "serial" /\ \A u \in Threads : job[u].pc = "idle"
    BY <1>1 DEF IndInv, Calls
<1>3. \A u \in Threads : job'[u].pc \in {"idle", "reconcile"}
    <2> DEFINE vs == Drifted(registry_file.capsules, segments_file)
               k == [IdleJob EXCEPT !.pc = "reconcile", !.victims = vs]
    <2>1. job' = [job EXCEPT ![t] = k]
        BY DEF Open
    <2>2. k.pc = "reconcile"
        BY DEF IdleJob
    <2> HIDE DEF k
    <2> QED  BY <1>2, <2>1, <2>2, IndInvIs DEF JobsOf
<1>4. fails = usage.fails => Named(registry_file.content_store, segments_file)
    BY <1>2 DEF Live
<1>5. fails = usage.fails => NamesLive(registry_file.content_store, segments_file, job')
    BY <1>3, <1>4, LiveCalm
<1> QED  BY <1>1, <1>4, <1>5 DEF Live

LEMMA LiveCrash ==
    ASSUME IndInv, Live, Crash
    PROVE  Live'
<1>1. /\ mode' = "down" /\ registry' = EmptyRegistry /\ segment_map' = Empty
      /\ job' = [t \in Threads |-> IdleJob] /\ UNCHANGED <<registry_file, segments_file, fails, usage>>
    BY DEF Crash, disk
<1>2. \A t \in Threads : job'[t].pc \in {"idle", "reconcile"}
    BY <1>1 DEF IdleJob
<1>3. Named(EmptyRegistry.content_store, Empty)
    BY DEF EmptyRegistry, Empty, Named
<1>4. NamesLive(registry'.content_store, segment_map', job')
    BY <1>1, <1>2, <1>3, LiveCalm
<1> QED  BY <1>1, <1>4 DEF Live

LEMMA LiveStarts ==
    ASSUME Init
    PROVE  Live
<1>1. /\ mode = "up" /\ registry = EmptyRegistry /\ registry_file = EmptyRegistry /\ segment_map = Empty
      /\ segments_file = Empty /\ job = [t \in Threads |-> IdleJob]
      /\ usage \in Usages /\ fails = usage.fails
    BY DEF Init
<1>2. \A t \in Threads : job[t].pc \in {"idle", "reconcile"}
    BY <1>1 DEF IdleJob
<1>3. Named(EmptyRegistry.content_store, Empty)
    BY DEF EmptyRegistry, Empty, Named
<1>4. NamesLive(registry.content_store, segment_map, job)
    BY <1>1, <1>2, <1>3, LiveCalm
<1>5. usage.fails \in Nat
    BY <1>1, PipelineAssumption
<1> QED  BY <1>1, <1>3, <1>4, <1>5 DEF Live

LEMMA LiveSteps ==
    ASSUME IsFiniteSet(Threads), IndInv, Live, [Next]_vars
    PROVE  Live'
<1>1. CASE UNCHANGED vars
    BY <1>1 DEF Live, vars
<1>2. CASE Crash
    BY <1>2, LiveCrash
<1>3. ASSUME NEW t \in Threads,
             \/ \E data \in Datas, dedupe \in BOOLEAN : WriteCapsule(t, data, dedupe)
             \/ PrepareFails(t) \/ LookupContent(t) \/ IncrementRefcount(t)
             \/ AppendSegment(t) \/ AppendFails(t)
             \/ UpdateMetadata(t) \/ RegisterContent(t) \/ AddDedupedBytes(t)
             \/ CreateCapsule(t) \/ WriteReturns(t)
      PROVE  Live'
    BY <1>3, LiveWriteCapsule, LiveFailures, LiveLookupContent, LiveIncrementRefcount,
       LiveAppendSegment, LiveUpdateMetadata, LiveRegisterContent, LiveAddDedupedBytes,
       LiveCreateCapsule, LiveWriteReturns
<1>4. ASSUME NEW t \in Threads,
             \/ \E cap \in CapsuleIds : DeleteCapsule(t, cap)
             \/ DecrementRefcount(t) \/ DeregisterContent(t) \/ RemoveSegment(t)
             \/ DeleteReturns(t)
             \/ GarbageCollect(t) \/ ReclaimRemove(t) \/ SweepReturns(t)
             \/ \E v \in job[t].victims : ReclaimDeregister(t, v)
      PROVE  Live'
    BY <1>4, LiveDeleteCapsule, LiveDecrementRefcount, LiveDeregisterContent, LiveRemoveSegment,
       LiveDeleteReturns, LiveGarbageCollect, LiveReclaimRemove, LiveSweepReturns, LiveReclaimDeregister
<1>5. ASSUME NEW t \in Threads,
             \/ SaveSegmentMap(t) \/ CloneRegistry(t) \/ WriteRegistry(t) \/ SaveFails(t)
             \/ Open(t)
             \/ \E id \in SegIds : ReconcileSegment(t, id)
             \/ ReconcileSweep(t)
      PROVE  Live'
    BY <1>5, LiveSaveSegmentMap, LiveCloneRegistry, LiveWriteRegistry, LiveFailures, LiveOpen,
       LiveReconcileSegment, LiveReconcileSweep
<1> QED  BY <1>1, <1>2, <1>3, <1>4, <1>5 DEF Next

(* As long as nothing has failed, every hash in the content store names a  *)
(* segment that exists and has its content, so a dedup hit never fails;    *)
(* and when calls run one at a time no crash breaks it: register_content   *)
(* is saved after the segment, and deregister_content before its removal.  *)
THEOREM PipelineContentStoreLive ==
    ASSUME KeptApart
    PROVE  Spec => []ContentStoreLive
<1>1. Init => Live
    BY LiveStarts
<1>2. IndInv /\ Live /\ [Next]_vars => Live'
    BY LiveSteps DEF KeptApart
<1>3. IndInv /\ Live => ContentStoreLive
    <2> SUFFICES ASSUME IndInv, Live, fails = usage.fails
                 PROVE  ContentStoreLive
        BY DEF ContentStoreLive
    <2>1. Named(registry.content_store, segment_map)
        BY DEF Live, NamesLive
    <2>2. \A h \in DOMAIN registry.content_store :
              /\ registry.content_store[h] \in DOMAIN segment_map
              /\ segment_map[registry.content_store[h]].data = h
        BY <2>1, IndInvIs DEF Named, Fits
    <2>3. usage.calls = "serial" => Range(registry_file.content_store) \subseteq DOMAIN segments_file
        BY DEF Live, Named, Range
    <2> QED  BY <2>2, <2>3 DEF ContentStoreLive
<1> QED  BY <1>1, <1>2, <1>3, PipelineInvariant, PTL DEF Spec

-----------------------------------------------------------------------------
(* Exact reference counts, as long as nothing has failed and after the     *)
(* reconciliation of a restart.                                            *)

(* A segment is used as often as its count says; or its writer has still   *)
(* to collect it; or a delete is about to remove it.                       *)
Accounted(r, m, jb, id) ==
    \/ m[id].ref_count = Uses(r, jb, id) /\ m[id].ref_count > 0
    \/ m[id].ref_count = 1 /\ \E t \in Threads : jb[t].pc \in FreshPcs /\ jb[t].seg = id
    \/ \E t \in Threads : jb[t].pc \in {"deregister", "remove"} /\ jb[t].seg = id

Held(m, j) == \A i \in DOMAIN j.segs : j.segs[i] \in DOMAIN m

Balanced(r, m, jb) ==
    /\ \A t \in Threads : Held(m, jb[t])
    /\ \A id \in DOMAIN m : Accounted(r, m, jb, id)

(* reconcile_refcounts and its sweep: counts not yet corrected are still   *)
(* on the list, then segments not yet removed are.                         *)
Recovers(r, m, j) ==
    /\ j.pc \in {"reconcile", "sweep", "reclaim"}
    /\ j.pc = "reconcile" => \A id \in DOMAIN m \ j.victims : m[id].ref_count = References(r.capsules, id)
    /\ j.pc \in {"sweep", "reclaim"} =>
        /\ \A v \in j.victims : v.id \in DOMAIN m
        /\ \A v, w \in j.victims : v.id = w.id => v = w
        /\ \A id \in DOMAIN m :
            /\ m[id].ref_count = References(r.capsules, id)
            /\ m[id].ref_count > 0 \/ (\E v \in j.victims : v.id = id) \/ (j.pc = "reclaim" /\ j.seg = id)
    /\ j.pc = "reclaim" => j.seg \in DOMAIN m /\ \A v \in j.victims : v.id # j.seg

AllUsed(r, m) == \A id \in DOMAIN m : m[id].ref_count = References(r.capsules, id) /\ m[id].ref_count > 0

Exact ==
    /\ \A t \in Threads : job[t].pc \in {"sweep", "reclaim"} => job[t].segs = << >>
    /\ mode = "up" => \A t \in Threads : job[t].pc # "reconcile"
    /\ mode = "up" /\ fails = usage.fails => Balanced(registry, segment_map, job)
    /\ mode = "recover" => \E t \in Threads : Recovers(registry, segment_map, job[t])
    /\ mode = "recovered" => /\ \A t \in Threads : job[t].pc = "idle"
                             /\ AllUsed(registry, segment_map)

(* Only the opening of the pipeline runs before it is up.                  *)
LEMMA UpIs ==
    ASSUME IndInv, Exact, NEW t \in Threads,
           job[t].pc \notin {"idle", "reconcile", "sweep", "reclaim"}
    PROVE  mode = "up"
<1>1. mode \in {"up", "recover", "recovered"} /\ (usage.calls # "serial" => mode = "up")
    BY Running
<1>2. mode # "recovered"
    BY DEF Exact
<1>3. ASSUME mode = "recover"
      PROVE  FALSE
    <2>1. PICK u \in Threads : Recovers(registry, segment_map, job[u])
        BY <1>3 DEF Exact
    <2>2. job[u].pc # "idle" /\ u # t
        BY <2>1 DEF Recovers
    <2>3. usage.calls = "serial"
        BY <1>1, <1>3
    <2> QED  BY <2>2, <2>3 DEF IndInv, Calls
<1> QED  BY <1>1, <1>2, <1>3

(* While the pipeline is opened its opener is the only call.               *)
LEMMA RecoverIs ==
    ASSUME IndInv, Exact, NEW t \in Threads, job[t].pc # "idle", mode = "recover"
    PROVE  /\ Recovers(registry, segment_map, job[t]) /\ usage.calls = "serial"
           /\ \A u \in Threads \ {t} : job[u].pc = "idle" /\ job[u].segs = << >>
           /\ job[t].segs = << >>
<1>1. usage.calls = "serial"
    BY DEF IndInv, Calls
<1>2. PICK u \in Threads : Recovers(registry, segment_map, job[u])
    BY DEF Exact
<1>3. job[u].pc # "idle" /\ job[u].pc \in {"reconcile", "sweep", "reclaim"}
    BY <1>2 DEF Recovers
<1>4. u = t
    BY <1>1, <1>3 DEF IndInv, Calls
<1>5. job[t].segs = << >>
    BY <1>3, <1>4 DEF IndInv, Calls, Exact
<1> QED  BY <1>1, <1>2, <1>4, <1>5 DEF IndInv, Calls

(* A call that starts finds the counts exact.                              *)
LEMMA StartExact ==
    ASSUME IsFiniteSet(Threads), IndInv, Exact, NEW t \in Threads, NEW op, Start(t, op)
    PROVE  /\ \A u \in Threads : job[u].pc # "reconcile"
           /\ fails = usage.fails => Balanced(registry, segment_map, job)
<1>1. mode \in {"up", "recovered"}
    BY DEF Start
<1>2. CASE mode = "up"
    BY <1>2 DEF Exact
<1>3. CASE mode = "recovered"
    <2>1. (\A u \in Threads : job[u].pc = "idle" /\ job[u].segs = << >>) /\ AllUsed(registry, segment_map)
        BY <1>3 DEF Exact, IndInv, Calls
    <2>2. \A u \in Threads : Held(segment_map, job[u])
        BY <2>1 DEF Held
    <2>3. ASSUME NEW id \in DOMAIN segment_map
          PROVE  Accounted(registry, segment_map, job, id)
        <3>1. Holds(job, id) = 0
            BY <2>1, IndInvIs, HoldsNone
        <3>2. Uses(registry, job, id) = References(registry.capsules, id)
            BY <3>1, IndInvIs, UsesType
        <3> QED  BY <2>1, <3>2 DEF Accounted, AllUsed
    <2> QED  BY <2>1, <2>2, <2>3 DEF Balanced
<1> QED  BY <1>1, <1>2, <1>3

(* Call t runs or starts while the pipeline is up.                         *)
LEMMA ExactUp ==
    ASSUME Exact, NEW t \in Threads, mode' = "up", Becomes(job, t, job'[t], job'),
           \A u \in Threads \ {t} : job[u].pc # "reconcile", job'[t].pc # "reconcile",
           job'[t].pc \in {"sweep", "reclaim"} => job'[t].segs = << >>,
           fails' = usage'.fails => Balanced(registry', segment_map', job')
    PROVE  Exact'
<1>1. \A u \in Threads \ {t} : job'[u] = job[u]
    BY DEF Becomes
<1>2. \A u \in Threads : job'[u].pc \in {"sweep", "reclaim"} => job'[u].segs = << >>
    BY <1>1 DEF Exact
<1>3. \A u \in Threads : job'[u].pc # "reconcile"
    BY <1>1
<1> QED  BY <1>2, <1>3 DEF Exact

LEMMA UsesKept ==
    ASSUME IsFiniteSet(Threads), IndInv, NEW t \in Threads, Becomes(job, t, job'[t], job'),
           registry'.capsules = registry.capsules, NEW x, OwnTimes(job'[t], x) = OwnTimes(job[t], x)
    PROVE  Uses(registry', job', x) = Uses(registry, job, x)
<1>1. job'[t] \in Jobs
    BY JobType DEF Becomes
<1>2. /\ Uses(registry', job', x) = Uses(registry, job, x) - OwnTimes(job[t], x) + OwnTimes(job'[t], x)
      /\ Uses(registry, job, x) \in Nat /\ OwnTimes(job[t], x) \in Nat
    BY <1>1, IndInvIs, UsesStep
<1> QED  BY <1>2

(* Call t is still about to collect or to remove its segment.              *)
Stays(j, k) ==
    /\ j.pc \in FreshPcs => k.pc \in FreshPcs /\ k.seg = j.seg
    /\ j.pc \in {"deregister", "remove"} => k.pc \in {"deregister", "remove"} /\ k.seg = j.seg

LEMMA StillAccounted ==
    ASSUME NEW r, NEW m, NEW jb, NEW r2, NEW m2, NEW jb2, NEW t \in Threads, Becomes(jb, t, jb2[t], jb2), NEW id,
           Accounted(r, m, jb, id), m2[id].ref_count = m[id].ref_count, Uses(r2, jb2, id) = Uses(r, jb, id),
           Stays(jb[t], jb2[t]) \/ jb[t].seg # id
    PROVE  Accounted(r2, m2, jb2, id)
<1>1. \A u \in Threads \ {t} : jb2[u] = jb[u]
    BY DEF Becomes
<1>2. CASE m[id].ref_count = Uses(r, jb, id) /\ m[id].ref_count > 0
    BY <1>2 DEF Accounted
<1>3. CASE m[id].ref_count = 1 /\ \E u \in Threads : jb[u].pc \in FreshPcs /\ jb[u].seg = id
    <2>1. PICK u \in Threads : jb[u].pc \in FreshPcs /\ jb[u].seg = id
        BY <1>3
    <2>2. jb2[u].pc \in FreshPcs /\ jb2[u].seg = id
        BY <1>1, <2>1 DEF Stays
    <2> QED  BY <1>3, <2>2 DEF Accounted
<1>4. CASE \E u \in Threads : jb[u].pc \in {"deregister", "remove"} /\ jb[u].seg = id
    <2>1. PICK u \in Threads : jb[u].pc \in {"deregister", "remove"} /\ jb[u].seg = id
        BY <1>4
    <2>2. jb2[u].pc \in {"deregister", "remove"} /\ jb2[u].seg = id
        BY <1>1, <2>1 DEF Stays
    <2> QED  BY <2>2 DEF Accounted
<1> QED  BY <1>2, <1>3, <1>4 DEF Accounted

(* A step that leaves the segment map alone.                               *)
LEMMA BalancedQuiet ==
    ASSUME Balanced(registry, segment_map, job), NEW t \in Threads, Becomes(job, t, job'[t], job'),
           segment_map' = segment_map, Held(segment_map, job'[t]), Stays(job[t], job'[t]),
           \A x : Uses(registry', job', x) = Uses(registry, job, x)
    PROVE  Balanced(registry', segment_map', job')
<1>1. \A u \in Threads : Held(segment_map', job'[u])
    BY DEF Balanced, Becomes
<1>2. ASSUME NEW id \in DOMAIN segment_map
      PROVE  Accounted(registry', segment_map', job', id)
    <2>1. Accounted(registry, segment_map, job, id)
        BY DEF Balanced
    <2>2. segment_map'[id].ref_count = segment_map[id].ref_count /\ Uses(registry', job', id) = Uses(registry, job, id)
        OBVIOUS
    <2> QED  BY <2>1, <2>2, StillAccounted
<1> QED  BY <1>1, <1>2 DEF Balanced

(* A step in which call t takes and gives up nothing.                      *)
LEMMA ExactQuiet ==
    ASSUME IsFiniteSet(Threads), IndInv, Exact, NEW t \in Threads, mode' = "up", Becomes(job, t, job'[t], job'),
           \A u \in Threads \ {t} : job[u].pc # "reconcile",
           fails = usage.fails => Balanced(registry, segment_map, job),
           registry'.capsules = registry.capsules, segment_map' = segment_map, UNCHANGED <<fails, usage>>,
           job'[t].pc # "reconcile", job'[t].pc \in {"sweep", "reclaim"} => job'[t].segs = << >>,
           \/ job'[t].segs = job[t].segs /\ (job'[t].pc = "written" <=> job[t].pc = "written")
           \/ job'[t].segs = << >> /\ (job[t].segs = << >> \/ job[t].pc = "written"),
           Stays(job[t], job'[t])
    PROVE  Exact'
<1>1. ASSUME NEW x
      PROVE  Uses(registry', job', x) = Uses(registry, job, x)
    <2>1. OwnTimes(job'[t], x) = OwnTimes(job[t], x)
        <3>1. Times(<< >>, x) = 0
            BY TimesEmpty
        <3> QED  BY <3>1 DEF OwnTimes
    <2> QED  BY <2>1, UsesKept
<1>2. ASSUME fails = usage.fails
      PROVE  Balanced(registry', segment_map', job')
    <2>1. Balanced(registry, segment_map, job)
        BY <1>2
    <2>2. Held(segment_map, job'[t])
        <3>1. Held(segment_map, job[t])
            BY <2>1 DEF Balanced
        <3> QED  BY <3>1 DEF Held
    <2> QED  BY <1>1, <2>1, <2>2, BalancedQuiet
<1> QED  BY <1>2, ExactUp

(* The same in the middle of a call.                                       *)
LEMMA ExactGoesOn ==
    ASSUME IsFiniteSet(Threads), IndInv, Exact, NEW t \in Threads, mode = "up", mode' = mode,
           Becomes(job, t, job'[t], job'),
           registry'.capsules = registry.capsules, segment_map' = segment_map, UNCHANGED <<fails, usage>>,
           job'[t].pc # "reconcile", job'[t].pc \in {"sweep", "reclaim"} => job'[t].segs = << >>,
           \/ job'[t].segs = job[t].segs /\ (job'[t].pc = "written" <=> job[t].pc = "written")
           \/ job'[t].segs = << >> /\ (job[t].segs = << >> \/ job[t].pc = "written"),
           Stays(job[t], job'[t])
    PROVE  Exact'
<1>1. /\ \A u \in Threads \ {t} : job[u].pc # "reconcile"
      /\ fails = usage.fails => Balanced(registry, segment_map, job)
    BY DEF Exact
<1> QED  BY <1>1, ExactQuiet

LEMMA ExactWriteCapsule ==
    ASSUME IsFiniteSet(Threads), IndInv, Exact, NEW t \in Threads, NEW data \in Datas, NEW dedupe \in BOOLEAN,
           WriteCapsule(t, data, dedupe)
    PROVE  Exact'
<1> DEFINE k == [IdleJob EXCEPT !.pc = "chunk", !.todo = data, !.cap = Len(data_of) + 1, !.dedupe = dedupe]
<1>1. /\ Start(t, "write") /\ job' = [job EXCEPT ![t] = k]
      /\ registry' = registry /\ segment_map' = segment_map /\ UNCHANGED <<fails, usage>>
    BY DEF WriteCapsule, memory
<1>2. k.pc = "chunk" /\ k.segs = << >>
    BY DEF IdleJob
<1> HIDE DEF k
<1>3. job'[t] = k /\ \A u \in Threads \ {t} : job'[u] = job[u]
    BY <1>1, <1>2, IndInvIs DEF JobsOf
<1>4. job' \in JobsOf
    <2>1. IndInv'
        BY StepWriteCapsule
    <2> QED  BY <2>1 DEF IndInv, Types
<1>5. job[t].pc = "idle" /\ job[t].segs = << >> /\ mode' = "up"
    BY <1>1, StartIs
<1>6. /\ \A u \in Threads : job[u].pc # "reconcile"
      /\ fails = usage.fails => Balanced(registry, segment_map, job)
    BY <1>1, StartExact
<1>7. Stays(job[t], job'[t])
    BY <1>5 DEF Stays, FreshPcs
<1>8. Becomes(job, t, job'[t], job')
    BY <1>3, <1>4 DEF Becomes
<1> QED  BY <1>1, <1>2, <1>3, <1>5, <1>6, <1>7, <1>8, ExactQuiet

LEMMA ExactLookupContent ==
    ASSUME IsFiniteSet(Threads), IndInv, Exact, NEW t \in Threads, LookupContent(t)
    PROVE  Exact'
<1> DEFINE h == Head(job[t].todo)
           id == registry.content_store[h]
           k == [job[t] EXCEPT !.pc = "increment", !.seg = id]
<1>1. /\ job[t].pc = "chunk" /\ job[t] \in Jobs /\ mode' = mode
      /\ registry' = registry /\ segment_map' = segment_map /\ UNCHANGED <<fails, usage>>
    BY IndInvIs, JobType DEF LookupContent, At, memory
<1>2. mode = "up" /\ \A j : Stays(job[t], j)
    BY <1>1, UpIs DEF Stays, FreshPcs
<1>3. CASE job[t].dedupe /\ h \in DOMAIN registry.content_store
    <2>1. job' = [job EXCEPT ![t] = k]
        BY <1>3 DEF LookupContent
    <2>2. id \in Nat
        BY <1>3, IndInvIs, RegistryType, StoreType
    <2> HIDE DEF id
    <2>3. k \in Jobs /\ k.pc = "increment" /\ k.segs = job[t].segs
        BY <1>1, <2>2 DEF Jobs, Pcs, WritePcs
    <2> HIDE DEF k
    <2>4. job'[t] = k /\ Becomes(job, t, k, job')
        BY <2>1, <2>3, IndInvIs, BecomesIs DEF JobsOf
    <2> QED  BY <1>1, <1>2, <2>3, <2>4, ExactGoesOn
<1>4. CASE ~(job[t].dedupe /\ h \in DOMAIN registry.content_store)
    <2>1. Goto(t, "append") /\ "append" \in Pcs
        BY <1>4 DEF LookupContent, Pcs, WritePcs
    <2>2. Becomes(job, t, job'[t], job') /\ job'[t].pc = "append" /\ job'[t].segs = job[t].segs
        BY <2>1, IndInvIs, GotoIs
    <2> QED  BY <1>1, <1>2, <2>2, ExactGoesOn
<1> QED  BY <1>3, <1>4

LEMMA ExactAddDedupedBytes ==
    ASSUME IsFiniteSet(Threads), IndInv, Exact, NEW t \in Threads, AddDedupedBytes(t)
    PROVE  Exact'
<1>1. /\ job[t].pc = "chunk" /\ Goto(t, "create") /\ mode' = mode
      /\ segment_map' = segment_map /\ UNCHANGED <<fails, usage>>
    BY DEF AddDedupedBytes, At
<1>2. job[t].cap \notin DOMAIN registry.capsules
    BY <1>1, WritingIs DEF Worker, WritePcs
<1>3. registry' = registry /\ "create" \in Pcs
    BY <1>2 DEF AddDedupedBytes, Pcs, WritePcs
<1>4. Becomes(job, t, job'[t], job') /\ job'[t].pc = "create" /\ job'[t].segs = job[t].segs
    BY <1>1, <1>3, IndInvIs, GotoIs
<1>5. mode = "up" /\ Stays(job[t], job'[t])
    BY <1>1, UpIs DEF Stays, FreshPcs
<1> QED  BY <1>1, <1>3, <1>4, <1>5, ExactGoesOn

LEMMA ExactReturns ==
    ASSUME IsFiniteSet(Threads), IndInv, Exact, NEW t \in Threads, WriteReturns(t) \/ DeleteReturns(t)
    PROVE  Exact'
<1>1. /\ job[t].pc = "written" \/ (job[t].pc = "decrement" /\ job[t].segs = << >>)
      /\ Return(t) /\ mode' = mode
      /\ registry' = registry /\ segment_map' = segment_map /\ UNCHANGED <<fails, usage>>
    BY DEF WriteReturns, DeleteReturns, At, memory
<1>2. Becomes(job, t, job'[t], job') /\ job'[t].pc = "idle" /\ job'[t].segs = << >>
    BY <1>1, IndInvIs, ReturnIs
<1>3. mode = "up" /\ Stays(job[t], job'[t])
    BY <1>1, UpIs DEF Stays, FreshPcs
<1> QED  BY <1>1, <1>2, <1>3, ExactGoesOn

LEMMA ExactDeregisterContent ==
    ASSUME IsFiniteSet(Threads), IndInv, Exact, NEW t \in Threads, DeregisterContent(t)
    PROVE  Exact'
<1>1. /\ job[t].pc = "deregister" /\ saving[t] = "no" /\ Deregister(t, job[t].hash, job[t].seg) /\ mode' = mode
      /\ Goto(t, "remove") /\ segment_map' = segment_map /\ UNCHANGED <<fails, usage>> /\ "remove" \in Pcs
    BY DEF DeregisterContent, At, Pcs
<1>2. /\ Becomes(job, t, job'[t], job') /\ job'[t].pc = "remove" /\ job'[t].seg = job[t].seg
      /\ job'[t].segs = job[t].segs
    BY <1>1, IndInvIs, GotoIs
<1>3. mode = "up" /\ Stays(job[t], job'[t])
    BY <1>1, <1>2, UpIs DEF Stays, FreshPcs
<1>4. registry'.capsules = registry.capsules
    BY <1>1, DeregisterIs
<1> QED  BY <1>1, <1>2, <1>3, <1>4, ExactGoesOn

LEMMA ExactGarbageCollect ==
    ASSUME IsFiniteSet(Threads), IndInv, Exact, NEW t \in Threads, GarbageCollect(t)
    PROVE  Exact'
<1> DEFINE vs == ZeroRefs
           k == [IdleJob EXCEPT !.pc = "sweep", !.victims = vs]
<1>1. /\ Start(t, "gc") /\ job' = [job EXCEPT ![t] = k]
      /\ registry' = registry /\ segment_map' = segment_map /\ UNCHANGED <<fails, usage>>
    BY DEF GarbageCollect, memory
<1>2. vs \in SUBSET (Nat \cup Victim)
    BY ZeroRefsIs
<1> HIDE DEF vs
<1>3. k \in Jobs /\ k.pc = "sweep" /\ k.segs = << >>
    <2>1. << >> \in Seq(Nat) /\ << >> \in Seq(Contents)
        BY EmptySeq
    <2> QED  BY <1>2, <2>1 DEF IdleJob, Jobs, Pcs, Hash
<1> HIDE DEF k
<1>4. job'[t] = k /\ Becomes(job, t, k, job')
    BY <1>1, <1>3, IndInvIs, BecomesIs DEF JobsOf
<1>5. job[t].pc = "idle" /\ job[t].segs = << >> /\ mode' = "up"
    BY <1>1, StartIs
<1>6. /\ \A u \in Threads : job[u].pc # "reconcile"
      /\ fails = usage.fails => Balanced(registry, segment_map, job)
    BY <1>1, StartExact
<1>7. Stays(job[t], job'[t])
    BY <1>5 DEF Stays, FreshPcs
<1> QED  BY <1>1, <1>3, <1>4, <1>5, <1>6, <1>7, ExactQuiet

(* References move between a call and a capsule.                           *)
LEMMA ExactCreateCapsule ==
    ASSUME IsFiniteSet(Threads), IndInv, Exact, NEW t \in Threads, CreateCapsule(t)
    PROVE  Exact'
<1> DEFINE cap == job[t].cap
           cp == [segments |-> job[t].segs, deduped_bytes |-> 0]
           cs == Put(registry.capsules, cap, cp)
<1>1. /\ job[t].pc = "create" /\ Goto(t, "written") /\ mode' = mode
      /\ registry' = [registry EXCEPT !.capsules = cs]
      /\ segment_map' = segment_map /\ UNCHANGED <<fails, usage>>
    BY DEF CreateCapsule, At
<1>2. job[t].pc \in WritePcs /\ "written" \in Pcs
    BY <1>1 DEF WritePcs, Pcs
<1>3. cap \in Nat /\ job[t].segs \in Seq(Nat) /\ registry \in Registries /\ registry.capsules \in Capsules
      /\ cap \notin DOMAIN registry.capsules /\ IsFiniteSet(DOMAIN registry.capsules)
    BY <1>1, <1>2, WritingIs, IndInvIs, JobType, RegistryType, FiniteCapsules DEF Worker
<1>4. cp \in Capsule /\ cp.segments = job[t].segs
    BY <1>3 DEF Capsule
<1>5. cs = Put(registry.capsules, cap, cp)
    OBVIOUS
<1> HIDE DEF cap, cp, cs
<1>6. registry'.capsules = cs
    BY <1>1, <1>3 DEF Registries
<1>7. /\ Becomes(job, t, job'[t], job') /\ job'[t] \in Jobs /\ job'[t].pc = "written"
      /\ job'[t].segs = job[t].segs
    BY <1>1, <1>2, IndInvIs, GotoIs
<1>8. ASSUME NEW x
      PROVE  Uses(registry', job', x) = Uses(registry, job, x)
    <2>1. /\ References(cs, x) = References(registry.capsules, x) + Times(cp.segments, x)
          /\ References(registry.capsules, x) \in Nat /\ Times(cp.segments, x) \in Nat
        BY <1>3, <1>4, <1>5, RefsCreated
    <2>2. /\ Holds(job', x) - OwnTimes(job'[t], x) = Holds(job, x) - OwnTimes(job[t], x)
          /\ Holds(job', x) \in Nat /\ Holds(job, x) \in Nat
          /\ OwnTimes(job'[t], x) \in Nat /\ OwnTimes(job[t], x) \in Nat
        BY <1>7, IndInvIs, HoldsStep
    <2>3. OwnTimes(job'[t], x) = 0 /\ OwnTimes(job[t], x) = Times(cp.segments, x)
        BY <1>1, <1>4, <1>7 DEF OwnTimes
    <2> QED  BY <1>6, <2>1, <2>2, <2>3 DEF Uses
<1>9. mode = "up" /\ Stays(job[t], job'[t])
    BY <1>1, UpIs DEF Stays, FreshPcs
<1>10. ASSUME fails = usage.fails
       PROVE  Balanced(registry', segment_map', job')
    <2>1. Balanced(registry, segment_map, job)
        BY <1>9, <1>10 DEF Exact
    <2>2. Held(segment_map, job'[t])
        BY <1>7, <2>1 DEF Balanced, Held
    <2> QED  BY <1>1, <1>7, <1>8, <1>9, <2>1, <2>2, BalancedQuiet
<1>11. \A u \in Threads \ {t} : job[u].pc # "reconcile"
    BY <1>9 DEF Exact
<1> QED  BY <1>1, <1>7, <1>9, <1>10, <1>11, ExactUp

LEMMA ExactDeleteCapsule ==
    ASSUME IsFiniteSet(Threads), IndInv, Exact, NEW t \in Threads, NEW cap, DeleteCapsule(t, cap)
    PROVE  Exact'
<1> DEFINE cs == Drop(registry.capsules, cap)
           sg == registry.capsules[cap].segments
           k == [IdleJob EXCEPT !.pc = "decrement", !.segs = sg]
<1>1. /\ Start(t, "delete") /\ cap \in DOMAIN registry.capsules /\ job' = [job EXCEPT ![t] = k]
      /\ registry' = [registry EXCEPT !.capsules = cs]
      /\ segment_map' = segment_map /\ UNCHANGED <<fails, usage>>
    BY DEF DeleteCapsule
<1>2. job[t].pc = "idle" /\ job[t].segs = << >> /\ mode' = "up"
    BY <1>1, StartIs
<1>3. registry \in Registries /\ registry.capsules \in Capsules /\ IsFiniteSet(DOMAIN registry.capsules)
    BY IndInvIs, RegistryType, FiniteCapsules
<1>4. sg \in Seq(Nat) /\ DOMAIN sg = 1 .. Len(sg)
    BY <1>1, <1>3, CapsuleType
<1>5. \A i \in DOMAIN sg : sg[i] \in DOMAIN segment_map
    BY <1>1, <1>4, IndInvIs DEF Fits
<1>6. ASSUME NEW x
      PROVE  /\ References(registry.capsules, x) = References(cs, x) + Times(sg, x)
             /\ References(cs, x) \in Nat /\ Times(sg, x) \in Nat
    BY <1>1, <1>3, RefsDrop
<1> HIDE DEF cs, sg
<1>7. k \in Jobs /\ k.pc = "decrement" /\ k.segs = sg
    <2>1. << >> \in Seq(Nat) /\ << >> \in Seq(Contents)
        BY EmptySeq
    <2> QED  BY <1>4, <2>1 DEF IdleJob, Jobs, Pcs, Hash
<1> HIDE DEF k
<1>8. job'[t] = k /\ Becomes(job, t, k, job')
    BY <1>1, <1>7, IndInvIs, BecomesIs DEF JobsOf
<1>9. registry'.capsules = cs
    BY <1>1, <1>3 DEF Registries
<1>10. ASSUME NEW x
       PROVE  Uses(registry', job', x) = Uses(registry, job, x)
    <2>1. /\ Holds(job', x) - OwnTimes(k, x) = Holds(job, x) - OwnTimes(job[t], x)
          /\ Holds(job', x) \in Nat /\ Holds(job, x) \in Nat
          /\ OwnTimes(k, x) \in Nat /\ OwnTimes(job[t], x) \in Nat
        <3>1. job \in JobsOf /\ k \in Jobs /\ Becomes(job, t, k, job')
            BY <1>7, <1>8, IndInvIs
        <3> QED  BY <3>1, HoldsStep
    <2>2. OwnTimes(k, x) = Times(sg, x) /\ OwnTimes(job[t], x) = 0
        BY <1>2, <1>7, TimesEmpty DEF OwnTimes
    <2> QED  BY <1>6, <1>9, <2>1, <2>2 DEF Uses
<1>11. Stays(job[t], job'[t])
    BY <1>2 DEF Stays, FreshPcs
<1>12. /\ \A u \in Threads : job[u].pc # "reconcile"
       /\ fails = usage.fails => Balanced(registry, segment_map, job)
    BY <1>1, StartExact
<1>13. Held(segment_map, job'[t])
    BY <1>5, <1>7, <1>8 DEF Held
<1>14. fails = usage.fails => Balanced(registry', segment_map', job')
    BY <1>1, <1>8, <1>10, <1>11, <1>12, <1>13, BalancedQuiet
<1> QED  BY <1>1, <1>2, <1>7, <1>8, <1>12, <1>14, ExactUp

-----------------------------------------------------------------------------
(* Segments and references that a write adds.                              *)

LEMMA HeldMore ==
    ASSUME NEW m, NEW m2, DOMAIN m \subseteq DOMAIN m2, NEW j, Held(m, j)
    PROVE  Held(m2, j)
BY DEF Held

LEMMA BalancedTakes ==
    ASSUME IsFiniteSet(Threads), IndInv, Balanced(registry, segment_map, job), NEW t \in Threads,
           Becomes(job, t, job'[t], job'), job'[t] \in Jobs, Takes(job[t], job'[t]),
           registry'.capsules = registry.capsules,
           DOMAIN segment_map' = DOMAIN segment_map, job[t].seg \in DOMAIN segment_map,
           \A x \in DOMAIN segment_map \ {job[t].seg} : segment_map'[x].ref_count = segment_map[x].ref_count,
           segment_map'[job[t].seg].ref_count = Uses(registry, job, job[t].seg) + 1
    PROVE  Balanced(registry', segment_map', job')
<1>1. ASSUME NEW x
      PROVE  /\ Uses(registry', job', x) = Uses(registry, job, x) + (IF job[t].seg = x THEN 1 ELSE 0)
             /\ Uses(registry, job, x) \in Nat
    BY IndInvIs, UsesTaken
<1>2. Held(segment_map', job'[t])
    <2>1. /\ job[t].segs \in Seq(Nat) /\ job[t].seg \in Nat /\ job'[t].segs = Append(job[t].segs, job[t].seg)
          /\ DOMAIN job[t].segs = 1 .. Len(job[t].segs) /\ Len(job[t].segs) \in Nat
        BY IndInvIs, JobType DEF Takes
    <2>2. /\ DOMAIN job'[t].segs = 1 .. (Len(job[t].segs) + 1)
          /\ \A i \in 1 .. Len(job[t].segs) : job'[t].segs[i] = job[t].segs[i]
          /\ job'[t].segs[Len(job[t].segs) + 1] = job[t].seg
        <3>1. /\ Append(job[t].segs, job[t].seg) \in Seq(Nat)
              /\ Len(Append(job[t].segs, job[t].seg)) = Len(job[t].segs) + 1
              /\ \A i \in 1 .. Len(job[t].segs) : Append(job[t].segs, job[t].seg)[i] = job[t].segs[i]
              /\ Append(job[t].segs, job[t].seg)[Len(job[t].segs) + 1] = job[t].seg
            BY <2>1, AppendProperties
        <3> QED  BY <2>1, <3>1, LenProperties
    <2>3. \A i \in 1 .. Len(job[t].segs) : job[t].segs[i] \in DOMAIN segment_map
        BY <2>1 DEF Balanced, Held
    <2>4. ASSUME NEW i, i \in DOMAIN job'[t].segs
          PROVE  job'[t].segs[i] \in DOMAIN segment_map'
        <3>1. i \in 1 .. Len(job[t].segs) \/ i = Len(job[t].segs) + 1
            BY <2>1, <2>2, <2>4
        <3> QED  BY <2>2, <2>3, <3>1
    <2> QED  BY <2>4 DEF Held
<1>3. \A u \in Threads : Held(segment_map', job'[u])
    <2>1. \A u \in Threads \ {t} : Held(segment_map', job'[u])
        BY HeldMore DEF Balanced, Becomes
    <2> QED  BY <1>2, <2>1
<1>4. ASSUME NEW id, id \in DOMAIN segment_map
      PROVE  Accounted(registry', segment_map', job', id)
    <2>1. CASE id = job[t].seg
        <3>1. Uses(registry', job', id) = Uses(registry, job, id) + 1 /\ Uses(registry, job, id) \in Nat
            BY <1>1, <2>1
        <3>2. segment_map'[id].ref_count = Uses(registry', job', id) /\ segment_map'[id].ref_count > 0
            BY <2>1, <3>1
        <3> QED  BY <3>2 DEF Accounted
    <2>2. CASE id # job[t].seg
        <3>1. Uses(registry', job', id) = Uses(registry, job, id)
            BY <1>1, <2>2
        <3>2. Accounted(registry, segment_map, job, id) /\ segment_map'[id].ref_count = segment_map[id].ref_count
            BY <1>4, <2>2 DEF Balanced
        <3> QED  BY <2>2, <3>1, <3>2, StillAccounted
    <2> QED  BY <2>1, <2>2
<1> QED  BY <1>3, <1>4 DEF Balanced

LEMMA BalancedFresh ==
    ASSUME IsFiniteSet(Threads), IndInv, Balanced(registry, segment_map, job), NEW t \in Threads,
           Becomes(job, t, job'[t], job'), job'[t].pc \in FreshPcs, job[t].pc \in {"append", "update"},
           job'[t].segs = job[t].segs, job[t].pc = "update" => job'[t].seg = job[t].seg,
           registry'.capsules = registry.capsules,
           NEW e, e.ref_count = 1, IsPut(segment_map', segment_map, job'[t].seg, e)
    PROVE  Balanced(registry', segment_map', job')
<1>1. ASSUME NEW x
      PROVE  Uses(registry', job', x) = Uses(registry, job, x)
    <2>1. OwnTimes(job'[t], x) = OwnTimes(job[t], x)
        BY DEF OwnTimes, FreshPcs
    <2> QED  BY <2>1, UsesKept
<1>2. /\ DOMAIN segment_map' = DOMAIN segment_map \cup {job'[t].seg} /\ segment_map'[job'[t].seg].ref_count = 1
      /\ \A x \in DOMAIN segment_map \ {job'[t].seg} : segment_map'[x] = segment_map[x]
    BY DEF IsPut
<1>3. \A u \in Threads : Held(segment_map', job'[u])
    <2>1. \A u \in Threads : Held(segment_map', job[u])
        BY <1>2, HeldMore DEF Balanced
    <2>2. \A u \in Threads : job'[u].segs = job[u].segs
        BY DEF Becomes
    <2> QED  BY <2>1, <2>2 DEF Held
<1>4. Stays(job[t], job'[t])
    BY DEF Stays, FreshPcs
<1>5. ASSUME NEW id, id \in DOMAIN segment_map'
      PROVE  Accounted(registry', segment_map', job', id)
    <2>1. CASE id = job'[t].seg
        BY <1>2, <2>1 DEF Accounted
    <2>2. CASE id # job'[t].seg
        <3>1. Accounted(registry, segment_map, job, id) /\ segment_map'[id].ref_count = segment_map[id].ref_count
            BY <1>2, <1>5, <2>2 DEF Balanced
        <3>2. Uses(registry', job', id) = Uses(registry, job, id)
            BY <1>1
        <3> QED  BY <1>4, <3>1, <3>2, StillAccounted
    <2> QED  BY <2>1, <2>2
<1> QED  BY <1>3, <1>5 DEF Balanced

(* A write that runs.                                                      *)
LEMMA ExactWrites ==
    ASSUME IndInv, Exact, NEW t \in Threads, job[t].pc \in WritePcs, mode' = mode, UNCHANGED <<fails, usage>>,
           Becomes(job, t, job'[t], job'), job'[t].pc \in WritePcs,
           fails = usage.fails /\ Balanced(registry, segment_map, job) =>
               Balanced(registry', segment_map', job')
    PROVE  Exact'
<1>1. job[t].pc \notin {"idle", "reconcile", "sweep", "reclaim"} /\
      job'[t].pc \notin {"idle", "reconcile", "sweep", "reclaim"}
    BY DEF WritePcs
<1>2. mode = "up"
    BY <1>1, UpIs
<1>3. /\ \A u \in Threads \ {t} : job[u].pc # "reconcile"
      /\ fails = usage.fails => Balanced(registry, segment_map, job)
    BY <1>2 DEF Exact
<1> QED  BY <1>1, <1>2, <1>3, ExactUp

(* Before write t takes its segment, the count does not cover it.          *)
LEMMA CountBefore ==
    ASSUME IndInv, NEW t \in Threads, job[t].pc \in FreshPcs \cup {"increment"},
           Balanced(registry, segment_map, job), job[t].seg \in DOMAIN segment_map
    PROVE  /\ job[t].pc = "increment" => segment_map[job[t].seg].ref_count = Uses(registry, job, job[t].seg)
           /\ job[t].pc \in FreshPcs => segment_map[job[t].seg].ref_count = 1 /\ Uses(registry, job, job[t].seg) = 0
<1>1. job[t].pc \in WritePcs
    BY DEF WritePcs, FreshPcs
<1>2. \A u \in Threads \ {t} : job[u].pc \in WritePcs \cup {"idle"} /\ Distinct(job, u, t)
    BY <1>1, OthersWrite
<1>3. \A u \in Threads : job[u].pc \notin {"deregister", "remove"}
    BY <1>1, <1>2 DEF WritePcs
<1>4. Accounted(registry, segment_map, job, job[t].seg)
    BY DEF Balanced
<1>5. CASE job[t].pc = "increment"
    <2>1. \A u \in Threads : ~(job[u].pc \in FreshPcs /\ job[u].seg = job[t].seg)
        BY <1>2, <1>5 DEF Distinct, FreshPcs
    <2> QED  BY <1>3, <1>4, <1>5, <2>1 DEF Accounted, FreshPcs
<1>6. CASE job[t].pc \in FreshPcs
    <2>1. Uses(registry, job, job[t].seg) = 0
        BY <1>6 DEF IndInv, Inv, JobOK, Fresh
    <2> QED  BY <1>3, <1>4, <1>6, <2>1 DEF Accounted, FreshPcs
<1> QED  BY <1>5, <1>6

LEMMA ExactIncrementRefcount ==
    ASSUME IsFiniteSet(Threads), IndInv, Live, Exact, NEW t \in Threads, IncrementRefcount(t)
    PROVE  Exact'
<1> DEFINE id == job[t].seg
           n == segment_map[id].ref_count + 1
<1>1. /\ job[t].pc = "increment" /\ registry' = registry /\ mode' = mode /\ UNCHANGED <<fails, usage>>
    BY DEF IncrementRefcount, At
<1>2. job[t].pc \in WritePcs /\ job[t].pc \in {"increment", "update", "register"}
    BY <1>1 DEF WritePcs
<1>3. CASE id \notin DOMAIN segment_map
    <2>1. Return(t)
        BY <1>3 DEF IncrementRefcount
    <2>2. Becomes(job, t, job'[t], job') /\ job'[t].pc = "idle" /\ job'[t].segs = << >>
        BY <2>1, IndInvIs, ReturnIs
    <2>3. fails # usage.fails
        BY <1>1, <1>3 DEF Live, NamesLive, Finds
    <2>4. mode = "up" /\ \A u \in Threads \ {t} : job[u].pc # "reconcile"
        BY <1>1, UpIs DEF Exact
    <2> QED  BY <1>1, <2>2, <2>3, <2>4, ExactUp
<1>4. CASE id \in DOMAIN segment_map
    <2>1. segment_map' = [segment_map EXCEPT ![id].ref_count = n] /\ NextChunk(t, id, TRUE)
        BY <1>4 DEF IncrementRefcount, CountedBy
    <2>2. n \in Nat
        BY <1>4, IndInvIs, SegmentType
    <2>3. job[t].todo # << >>
        BY <1>1, <1>2, WritingIs DEF Worker
    <2>4. Becomes(job, t, job'[t], job') /\ job'[t] \in Jobs /\ Takes(job[t], job'[t])
        BY <1>2, <2>1, <2>3, IndInvIs, NextChunkIs
    <2>5. Balanced(registry, segment_map, job) => n = Uses(registry, job, id) + 1
        BY <1>1, <1>4, CountBefore
    <2> HIDE DEF n, id
    <2>6. IsCounted(segment_map', segment_map, id, n)
        BY <1>4, <2>1, <2>2, IndInvIs, CountSegment
    <2>7. /\ DOMAIN segment_map' = DOMAIN segment_map /\ segment_map'[id].ref_count = n
          /\ \A x \in DOMAIN segment_map \ {id} : segment_map'[x].ref_count = segment_map[x].ref_count
        BY <2>6 DEF IsCounted
    <2>8. Balanced(registry, segment_map, job) => Balanced(registry', segment_map', job')
        BY <1>1, <1>4, <2>4, <2>5, <2>7, BalancedTakes DEF id
    <2>9. job'[t].pc \in WritePcs
        BY <2>4 DEF Takes, WritePcs
    <2> QED  BY <1>1, <1>2, <2>4, <2>8, <2>9, ExactWrites
<1> QED  BY <1>3, <1>4

LEMMA ExactAppendSegment ==
    ASSUME IsFiniteSet(Threads), IndInv, Exact, NEW t \in Threads, AppendSegment(t)
    PROVE  Exact'
<1> DEFINE id == registry.next_segment_id
           e == [data |-> Head(job[t].todo), hash |-> NoHash, ref_count |-> 1]
           k == [job[t] EXCEPT !.pc = "update", !.seg = id]
<1>1. /\ job[t].pc = "append" /\ registry' = [registry EXCEPT !.next_segment_id = @ + 1]
      /\ segment_map' = Put(segment_map, id, e) /\ mode' = mode
      /\ job' = [job EXCEPT ![t] = k] /\ UNCHANGED <<fails, usage>>
    BY DEF AppendSegment, At
<1>2. job[t].pc \in WritePcs
    BY <1>1 DEF WritePcs
<1>3. job[t].todo # << >> /\ job[t] \in Jobs
    BY <1>1, <1>2, WritingIs DEF Worker
<1>4. id \in Nat /\ registry'.capsules = registry.capsules
    BY <1>1, IndInvIs, RegistryType DEF Registries
<1>5. Head(job[t].todo) \in Contents
    BY <1>3, IndInvIs, JobType, HeadTailProperties
<1>6. e \in SegmentInfo /\ e.ref_count = 1
    BY <1>5 DEF SegmentInfo
<1> HIDE DEF e, id
<1>7. k \in Jobs /\ k.pc = "update" /\ k.seg = id /\ k.segs = job[t].segs
    BY <1>3, <1>4 DEF Jobs, Pcs, WritePcs
<1> HIDE DEF k
<1>8. job'[t] = k /\ Becomes(job, t, k, job')
    BY <1>1, <1>7, IndInvIs, BecomesIs DEF JobsOf
<1>9. IsPut(segment_map', segment_map, id, e)
    BY <1>1, <1>4, <1>6, IndInvIs, PutSegment
<1>10. k.pc \in FreshPcs /\ k.pc \in WritePcs
    BY <1>7 DEF FreshPcs, WritePcs
<1>11. Balanced(registry, segment_map, job) => Balanced(registry', segment_map', job')
    BY <1>1, <1>4, <1>6, <1>7, <1>8, <1>9, <1>10, BalancedFresh
<1> QED  BY <1>1, <1>2, <1>8, <1>10, <1>11, ExactWrites

LEMMA ExactUpdateMetadata ==
    ASSUME IsFiniteSet(Threads), IndInv, Exact, NEW t \in Threads, UpdateMetadata(t)
    PROVE  Exact'
<1> DEFINE id == job[t].seg
           content == Head(job[t].todo)
           hash == IF job[t].dedupe THEN content ELSE NoHash
           e == [data |-> content, ref_count |-> 1, hash |-> hash]
<1>1. /\ job[t].pc = "update" /\ registry' = registry /\ mode' = mode
      /\ segment_map' = Put(segment_map, id, e)
      /\ IF job[t].dedupe THEN Goto(t, "register") ELSE NextChunk(t, id, FALSE)
      /\ UNCHANGED <<fails, usage>>
    BY DEF UpdateMetadata, At
<1>2. /\ job[t].pc \in WritePcs /\ job[t].pc \in FreshPcs
      /\ job[t].pc \in {"increment", "update", "register"} /\ "register" \in Pcs
      /\ "register" \in WritePcs /\ "register" \in FreshPcs /\ "chunk" \in WritePcs
    BY <1>1 DEF WritePcs, FreshPcs, Pcs
<1>3. job[t].todo # << >> /\ id \in DOMAIN segment_map /\ Uses(registry, job, id) = 0
    BY <1>1, <1>2, WritingIs DEF Worker, JobOK, Fresh
<1>4. id \in Nat /\ content \in Contents
    BY <1>3, IndInvIs, JobType, HeadTailProperties
<1>5. e \in SegmentInfo /\ e.ref_count = 1
    BY <1>4 DEF SegmentInfo
<1> HIDE DEF e, id, content
<1>6. IsPut(segment_map', segment_map, id, e)
    BY <1>1, <1>4, <1>5, IndInvIs, PutSegment
<1>7. CASE job[t].dedupe
    <2>1. /\ Becomes(job, t, job'[t], job') /\ job'[t].pc = "register" /\ job'[t].segs = job[t].segs
          /\ job'[t].seg = job[t].seg
        BY <1>1, <1>2, <1>7, IndInvIs, GotoIs
    <2>2. Balanced(registry, segment_map, job) => Balanced(registry', segment_map', job')
        BY <1>1, <1>2, <1>5, <1>6, <2>1, BalancedFresh DEF id
    <2> QED  BY <1>1, <1>2, <2>1, <2>2, ExactWrites
<1>8. CASE ~job[t].dedupe
    <2>1. Becomes(job, t, job'[t], job') /\ job'[t] \in Jobs /\ Takes(job[t], job'[t])
        BY <1>1, <1>2, <1>3, <1>8, IndInvIs, NextChunkIs DEF id
    <2>2. /\ DOMAIN segment_map' = DOMAIN segment_map
          /\ \A x \in DOMAIN segment_map \ {id} : segment_map'[x].ref_count = segment_map[x].ref_count
          /\ segment_map'[id].ref_count = 1
        BY <1>3, <1>5, <1>6 DEF IsPut
    <2>3. segment_map'[id].ref_count = Uses(registry, job, id) + 1
        BY <1>3, <2>2
    <2>4. Balanced(registry, segment_map, job) => Balanced(registry', segment_map', job')
        BY <1>1, <1>3, <2>1, <2>2, <2>3, BalancedTakes DEF id
    <2>5. job'[t].pc \in WritePcs
        BY <1>2, <2>1 DEF Takes
    <2> QED  BY <1>1, <1>2, <2>1, <2>4, <2>5, ExactWrites
<1> QED  BY <1>7, <1>8

LEMMA ExactRegisterContent ==
    ASSUME IsFiniteSet(Threads), IndInv, Exact, NEW t \in Threads, RegisterContent(t)
    PROVE  Exact'
<1> DEFINE st == Put(registry.content_store, Head(job[t].todo), job[t].seg)
<1>1. /\ job[t].pc = "register" /\ segment_map' = segment_map /\ mode' = mode
      /\ registry' = [registry EXCEPT !.content_store = st]
      /\ NextChunk(t, job[t].seg, FALSE) /\ UNCHANGED <<fails, usage>>
    BY DEF RegisterContent, At
<1>2. /\ job[t].pc \in WritePcs /\ job[t].pc \in FreshPcs
      /\ job[t].pc \in {"increment", "update", "register"}
    BY <1>1 DEF WritePcs, FreshPcs
<1>3. job[t].todo # << >> /\ job[t].seg \in DOMAIN segment_map
    BY <1>1, <1>2, WritingIs DEF Worker, JobOK, Fresh
<1>4. Becomes(job, t, job'[t], job') /\ job'[t] \in Jobs /\ Takes(job[t], job'[t])
    BY <1>1, <1>2, <1>3, IndInvIs, NextChunkIs
<1> HIDE DEF st
<1>5. registry'.capsules = registry.capsules
    BY <1>1, IndInvIs DEF Registries
<1>6. Balanced(registry, segment_map, job) =>
          segment_map'[job[t].seg].ref_count = Uses(registry, job, job[t].seg) + 1
    BY <1>1, <1>2, <1>3, CountBefore
<1>7. Balanced(registry, segment_map, job) => Balanced(registry', segment_map', job')
    BY <1>1, <1>3, <1>4, <1>5, <1>6, BalancedTakes
<1>8. job'[t].pc \in WritePcs
    BY <1>4 DEF Takes, WritePcs
<1> QED  BY <1>1, <1>2, <1>4, <1>7, <1>8, ExactWrites

-----------------------------------------------------------------------------
(* References and segments that a delete or a sweep takes away.            *)

(* A delete that runs, without failures before it, releases what exists.   *)
LEMMA ReleaseIs ==
    ASSUME IsFiniteSet(Threads), IndInv, NEW t \in Threads, job[t].pc = "decrement", job[t].segs # << >>,
           Balanced(registry, segment_map, job), NEW id, id = Head(job[t].segs)
    PROVE  id \in DOMAIN segment_map /\ segment_map[id].ref_count > 0
<1>1. job[t].segs \in Seq(Nat) /\ DOMAIN job[t].segs = 1 .. Len(job[t].segs) /\ Len(job[t].segs) \in Nat
      /\ job \in JobsOf /\ job[t] \in Jobs
    BY IndInvIs, JobType
<1>2. id = job[t].segs[1] /\ 1 \in DOMAIN job[t].segs
    BY <1>1, HeadTailProperties, EmptySeq
<1>3. id \in DOMAIN segment_map
    BY <1>2 DEF Balanced, Held
<1> DEFINE tl == Tail(job[t].segs)
<1>4. IsHeadTail(job[t].segs, id, tl)
    BY DEF IsHeadTail
<1> HIDE DEF tl
<1>5. Times(job[t].segs, id) = Times(tl, id) + 1 /\ Times(tl, id) \in Nat
    BY <1>1, <1>4, TimesTailed
<1>6. OwnTimes(job[t], id) >= 1 /\ OwnTimes(job[t], id) \in Nat
    BY <1>5 DEF OwnTimes
<1>7. Becomes(job, t, job[t], job)
    BY <1>1 DEF Becomes
<1>8. OwnTimes(job[t], id) <= Uses(registry, job, id) /\ Uses(registry, job, id) \in Nat
    <2>1. /\ Types(data_of, registry, segment_map, job) /\ Below(data_of, registry)
          /\ registry.capsules = registry.capsules
        BY IndInvIs
    <2> QED  BY <1>1, <1>7, <2>1, UsesStep
<1>9. segment_map[id].ref_count >= Uses(registry, job, id) /\ segment_map[id].ref_count \in Nat
    BY <1>3, IndInvIs, SegmentType DEF Inv
<1> QED  BY <1>3, <1>6, <1>8, <1>9

LEMMA BalancedReleases ==
    ASSUME IsFiniteSet(Threads), IndInv, Balanced(registry, segment_map, job), NEW t \in Threads,
           job[t].pc = "decrement", Becomes(job, t, job'[t], job'), job'[t] \in Jobs,
           NEW id, id \in DOMAIN segment_map, IsHeadTail(job[t].segs, id, job'[t].segs), job'[t].seg = id,
           NEW n \in Nat, n = segment_map[id].ref_count - 1, IsCounted(segment_map', segment_map, id, n),
           job'[t].pc \in {"decrement", "deregister", "remove"}, job'[t].pc = "decrement" => n # 0,
           registry' = registry
    PROVE  Balanced(registry', segment_map', job')
<1>0. n = 0 \/ n > 0
    <2>1. \A i \in Nat : i = 0 \/ i > 0
        OBVIOUS
    <2> QED  BY <2>1
<1>1. /\ DOMAIN segment_map' = DOMAIN segment_map /\ segment_map'[id].ref_count = n
      /\ \A x \in DOMAIN segment_map : x # id => segment_map'[x] = segment_map[x]
    BY DEF IsCounted
<1>2. /\ job[t].segs \in Seq(Nat) /\ DOMAIN job[t].segs = 1 .. Len(job[t].segs) /\ Len(job[t].segs) \in Nat
      /\ job[t].segs # << >> /\ job'[t].segs = Tail(job[t].segs)
    BY IndInvIs, JobType DEF IsHeadTail
<1>3. \A u \in Threads \ {t} : job'[u] = job[u]
    BY DEF Becomes
<1>4. Held(segment_map', job'[t])
    <2>1. /\ job'[t].segs \in Seq(Nat) /\ Len(job'[t].segs) = Len(job[t].segs) - 1
          /\ \A i \in 1 .. Len(job'[t].segs) : job'[t].segs[i] = job[t].segs[i + 1]
        BY <1>2, HeadTailProperties
    <2>2. DOMAIN job'[t].segs = 1 .. Len(job'[t].segs)
        BY <2>1, LenProperties
    <2>3. ASSUME NEW i, i \in DOMAIN job'[t].segs
          PROVE  job'[t].segs[i] \in DOMAIN segment_map'
        <3> DEFINE l == Len(job[t].segs)
        <3>1. l \in Nat /\ Len(job'[t].segs) = l - 1 /\ i \in 1 .. Len(job'[t].segs)
            BY <1>2, <2>1, <2>2, <2>3
        <3>2. i \in 1 .. (l - 1)
            BY <3>1
        <3> HIDE DEF l
        <3>3. i + 1 \in 1 .. l
            BY <3>1, <3>2
        <3>4. i + 1 \in DOMAIN job[t].segs
            BY <1>2, <3>3 DEF l
        <3>5. job[t].segs[i + 1] \in DOMAIN segment_map
            BY <3>4 DEF Balanced, Held
        <3> QED  BY <1>1, <2>1, <3>1, <3>5
    <2> QED  BY <2>3 DEF Held
<1>5. \A u \in Threads : Held(segment_map', job'[u])
    <2>1. \A u \in Threads \ {t} : Held(segment_map', job'[u])
        BY <1>1, <1>3, HeldMore DEF Balanced
    <2> QED  BY <1>4, <2>1
<1>6. ASSUME NEW x
      PROVE  /\ Uses(registry, job, x) = Uses(registry', job', x) + (IF id = x THEN 1 ELSE 0)
             /\ Uses(registry, job, x) \in Nat /\ Uses(registry', job', x) \in Nat
    <2>1. /\ Uses(registry', job', x) = Uses(registry, job, x) - OwnTimes(job[t], x) + OwnTimes(job'[t], x)
          /\ Uses(registry, job, x) \in Nat /\ Uses(registry', job', x) \in Nat
          /\ OwnTimes(job[t], x) \in Nat /\ OwnTimes(job'[t], x) \in Nat
        <3>1. Types(data_of, registry, segment_map, job) /\ Below(data_of, registry)
            BY IndInvIs
        <3>2. registry'.capsules = registry.capsules
            OBVIOUS
        <3> QED  BY <3>1, <3>2, UsesStep
    <2>2. Times(job[t].segs, x) = Times(job'[t].segs, x) + (IF id = x THEN 1 ELSE 0)
        BY <1>2, TimesTailed
    <2>3. OwnTimes(job[t], x) = OwnTimes(job'[t], x) + (IF id = x THEN 1 ELSE 0)
        BY <2>2 DEF OwnTimes
    <2> QED  BY <2>1, <2>3
<1>7. \A u \in Threads : job[u].pc \notin FreshPcs
    <2>1. \A u \in Threads : job[u].pc \notin WritePcs
        BY ReclaimingIs DEF WritePcs
    <2> QED  BY <2>1 DEF WritePcs, FreshPcs
<1>8. Stays(job[t], job'[t])
    BY DEF Stays, FreshPcs
<1>9. ASSUME NEW x, x \in DOMAIN segment_map
      PROVE  Accounted(registry', segment_map', job', x)
    <2>1. Accounted(registry, segment_map, job, x)
        BY <1>9 DEF Balanced
    <2>2. CASE x # id
        <3>1. Uses(registry', job', x) = Uses(registry, job, x)
            BY <1>6, <2>2
        <3>2. segment_map'[x].ref_count = segment_map[x].ref_count
            BY <1>1, <1>9, <2>2
        <3> QED  BY <1>8, <2>1, <3>1, <3>2, StillAccounted
    <2>3. CASE x = id
        <3>1. CASE segment_map[x].ref_count = Uses(registry, job, x)
            <4>1. Uses(registry, job, x) = Uses(registry', job', x) + 1 /\ Uses(registry', job', x) \in Nat
                BY <1>6, <2>3
            <4>2. segment_map'[x].ref_count = Uses(registry', job', x)
                BY <1>1, <2>3, <3>1, <4>1
            <4>3. CASE n # 0
                <5>1. segment_map'[x].ref_count > 0
                    <6>1. n > 0
                        BY <1>0, <4>3
                    <6> QED  BY <1>1, <2>3, <6>1
                <5> QED  BY <4>2, <5>1 DEF Accounted
            <4>4. CASE n = 0
                BY <2>3, <4>4 DEF Accounted
            <4> QED  BY <4>3, <4>4
        <3>2. CASE \E u \in Threads : job[u].pc \in {"deregister", "remove"} /\ job[u].seg = x
            <4>1. PICK u \in Threads : job[u].pc \in {"deregister", "remove"} /\ job[u].seg = x
                BY <3>2
            <4>2. u # t
                BY <4>1
            <4> QED  BY <1>3, <4>1, <4>2 DEF Accounted
        <3> QED  BY <1>7, <2>1, <3>1, <3>2 DEF Accounted
    <2> QED  BY <2>2, <2>3
<1> QED  BY <1>1, <1>5, <1>9 DEF Balanced

LEMMA ExactDecrementRefcount ==
    ASSUME IsFiniteSet(Threads), IndInv, Exact, NEW t \in Threads, DecrementRefcount(t)
    PROVE  Exact'
<1> DEFINE id == Head(job[t].segs)
           tl == Tail(job[t].segs)
           hs == segment_map[id].hash
           n == segment_map[id].ref_count - 1
           pc == IF n # 0 THEN "decrement" ELSE IF hs = NoHash THEN "remove" ELSE "deregister"
           k == [job[t] EXCEPT !.pc = pc, !.segs = tl, !.seg = id, !.hash = hs]
<1>1. /\ job[t].pc = "decrement" /\ job[t].segs # << >> /\ registry' = registry /\ mode' = mode
      /\ UNCHANGED <<fails, usage>>
    BY DEF DecrementRefcount, At
<1>2. job[t].pc \notin WritePcs \cup {"idle"} /\ mode = "up"
    BY <1>1, UpIs DEF WritePcs
<1>3. /\ \A u \in Threads \ {t} : job[u].pc # "reconcile"
      /\ fails = usage.fails => Balanced(registry, segment_map, job)
    BY <1>2 DEF Exact
<1>4. CASE ~(id \in DOMAIN segment_map /\ segment_map[id].ref_count > 0)
    <2>1. Return(t)
        BY <1>4 DEF DecrementRefcount
    <2>2. Becomes(job, t, job'[t], job') /\ job'[t].pc = "idle"
        BY <2>1, IndInvIs, ReturnIs
    <2>3. fails # usage.fails
        BY <1>1, <1>3, <1>4, ReleaseIs
    <2> QED  BY <1>1, <1>2, <1>3, <2>2, <2>3, ExactUp
<1>5. CASE id \in DOMAIN segment_map /\ segment_map[id].ref_count > 0
    <2>1. /\ segment_map' = [segment_map EXCEPT ![id].ref_count = segment_map[id].ref_count + (-1)]
          /\ job' = [job EXCEPT ![t] = k]
        BY <1>5 DEF DecrementRefcount, CountedBy, Unreferenced
    <2>2. segment_map[id].ref_count \in Nat /\ hs \in Hash /\ id \in Nat
        BY <1>5, IndInvIs, SegmentType
    <2>3. n \in Nat /\ n = segment_map[id].ref_count + (-1) /\ n = segment_map[id].ref_count - 1
        BY <1>5, <2>2
    <2>4. tl \in Seq(Nat) /\ IsHeadTail(job[t].segs, id, tl)
        BY <1>1, IndInvIs, JobType, HeadTailProperties DEF IsHeadTail
    <2>5. pc \in {"decrement", "deregister", "remove"} /\ (pc = "decrement" => n # 0)
        OBVIOUS
    <2> HIDE DEF id, tl, hs, n, pc
    <2>6. segment_map' = [segment_map EXCEPT ![id].ref_count = n]
        BY <2>1, <2>3
    <2>7. IsCounted(segment_map', segment_map, id, n)
        BY <1>5, <2>3, <2>6, IndInvIs, CountSegment
    <2>8. k \in Jobs /\ k.pc = pc /\ k.seg = id /\ k.segs = tl
        BY <1>2, <2>2, <2>4, <2>5, ReclaimingIs DEF Jobs, Pcs
    <2> HIDE DEF k
    <2>9. job'[t] = k /\ Becomes(job, t, k, job')
        BY <2>1, <2>8, IndInvIs, BecomesIs DEF JobsOf
    <2>10. Balanced(registry, segment_map, job) => Balanced(registry', segment_map', job')
        <3>1. /\ IsHeadTail(job[t].segs, id, job'[t].segs) /\ job'[t].seg = id /\ job'[t] \in Jobs
              /\ job'[t].pc \in {"decrement", "deregister", "remove"} /\ (job'[t].pc = "decrement" => n # 0)
              /\ Becomes(job, t, job'[t], job')
            BY <2>4, <2>5, <2>8, <2>9
        <3> QED  BY <1>1, <1>5, <2>3, <2>7, <3>1, BalancedReleases
    <2> QED  BY <1>1, <1>2, <1>3, <2>5, <2>8, <2>9, <2>10, ExactUp
<1> QED  BY <1>4, <1>5

(* A segment without users is held by no call.                             *)
LEMMA HoldsZero ==
    ASSUME IsFiniteSet(Threads), IndInv, NEW id, Uses(registry, job, id) = 0, NEW t \in Threads,
           job[t].pc # "written"
    PROVE  \A i \in DOMAIN job[t].segs : job[t].segs[i] # id
<1>1. job \in JobsOf /\ DOMAIN job[t].segs = 1 .. Len(job[t].segs) /\ Len(job[t].segs) \in Nat
    BY IndInvIs, JobType
<1>2. Holds(job, id) = 0
    <2>1. /\ Uses(registry, job, id) = References(registry.capsules, id) + Holds(job, id)
          /\ References(registry.capsules, id) \in Nat /\ Holds(job, id) \in Nat
        BY IndInvIs, UsesType
    <2> QED  BY <2>1
<1>3. OwnTimes(job[t], id) = 0
    <2>1. /\ Holds(job, id) = HoldsBut(job, id, t) + OwnTimes(job[t], id)
          /\ HoldsBut(job, id, t) \in Nat /\ OwnTimes(job[t], id) \in Nat
        BY <1>1, HoldsSplit
    <2> QED  BY <1>2, <2>1
<1>4. Times(job[t].segs, id) = 0
    BY <1>3 DEF OwnTimes
<1>5. /\ IsFiniteSet(Labelled(t, job[t].segs, id))
      /\ Cardinality(Labelled(t, job[t].segs, id)) = Times(job[t].segs, id)
    BY <1>1, LabelledSize
<1>6. Labelled(t, job[t].segs, id) = {}
    BY <1>4, <1>5, FS_EmptySet
<1> QED  BY <1>6 DEF Labelled

LEMMA BalancedDrops ==
    ASSUME IsFiniteSet(Threads), IndInv, Balanced(registry, segment_map, job), NEW t \in Threads,
           job[t].pc \in {"remove", "reclaim"}, Becomes(job, t, job'[t], job'),
           job'[t].pc \in {"decrement", "sweep"}, job'[t].segs = job[t].segs,
           registry' = registry, IsDrop(segment_map', segment_map, job[t].seg)
    PROVE  Balanced(registry', segment_map', job')
<1> DEFINE id == job[t].seg
<1>1. /\ DOMAIN segment_map' = DOMAIN segment_map \ {id}
      /\ \A x \in DOMAIN segment_map \ {id} : segment_map'[x] = segment_map[x]
    BY DEF IsDrop
<1>2. (\A u \in Threads : job[u].pc \notin WritePcs) /\ Uses(registry, job, id) = 0
    BY ReclaimingIs DEF WritePcs, Doomed
<1>3. ASSUME NEW u \in Threads
      PROVE  Held(segment_map', job'[u])
    <2>1. job[u].pc # "written"
        BY <1>2 DEF WritePcs
    <2>2. \A i \in DOMAIN job[u].segs : job[u].segs[i] # id
        BY <1>2, <2>1, HoldsZero
    <2>3. job'[u].segs = job[u].segs
        BY DEF Becomes
    <2> QED  BY <1>1, <2>2, <2>3 DEF Balanced, Held
<1>4. ASSUME NEW x
      PROVE  Uses(registry', job', x) = Uses(registry, job, x)
    <2>1. OwnTimes(job'[t], x) = OwnTimes(job[t], x)
        BY DEF OwnTimes
    <2> QED  BY <2>1, UsesKept
<1>5. ASSUME NEW x, x \in DOMAIN segment_map'
      PROVE  Accounted(registry', segment_map', job', x)
    <2>1. Accounted(registry, segment_map, job, x) /\ segment_map'[x].ref_count = segment_map[x].ref_count
          /\ job[t].seg # x
        BY <1>1, <1>5 DEF Balanced
    <2>2. Uses(registry', job', x) = Uses(registry, job, x)
        BY <1>4
    <2> QED  BY <2>1, <2>2, StillAccounted
<1> QED  BY <1>3, <1>5 DEF Balanced

LEMMA ExactRemoveSegment ==
    ASSUME IsFiniteSet(Threads), IndInv, Exact, NEW t \in Threads, RemoveSegment(t)
    PROVE  Exact'
<1>1. /\ job[t].pc = "remove" /\ Goto(t, "decrement") /\ registry' = registry /\ mode' = mode
      /\ IF job[t].seg \in DOMAIN segment_map
         THEN segment_map' = Drop(segment_map, job[t].seg)
         ELSE segment_map' = segment_map
      /\ UNCHANGED <<fails, usage>> /\ "decrement" \in Pcs
    BY DEF RemoveSegment, At, Pcs
<1>2. Becomes(job, t, job'[t], job') /\ job'[t].pc = "decrement" /\ job'[t].segs = job[t].segs
    BY <1>1, IndInvIs, GotoIs
<1>3. mode = "up"
    BY <1>1, UpIs
<1>4. /\ \A u \in Threads \ {t} : job[u].pc # "reconcile"
      /\ fails = usage.fails => Balanced(registry, segment_map, job)
    BY <1>3 DEF Exact
<1>5. IsDrop(segment_map', segment_map, job[t].seg)
    <2>1. IsDrop(Drop(segment_map, job[t].seg), segment_map, job[t].seg)
        BY IndInvIs, DropSegment
    <2>2. job[t].seg \notin DOMAIN segment_map => IsDrop(segment_map, segment_map, job[t].seg)
        BY DEF IsDrop
    <2> QED  BY <1>1, <2>1, <2>2
<1>6. Balanced(registry, segment_map, job) => Balanced(registry', segment_map', job')
    BY <1>1, <1>2, <1>5, BalancedDrops
<1> QED  BY <1>1, <1>2, <1>3, <1>4, <1>6, ExactUp

-----------------------------------------------------------------------------
(* Sweeps, of a collector and of the reconciliation, and the opening.      *)

LEMMA SweepsIn ==
    ASSUME IndInv, Exact, NEW t \in Threads, job[t].pc # "idle"
    PROVE  mode = "up" \/ mode = "recover"
<1>1. mode \in {"up", "recover", "recovered"}
    BY Running
<1> QED  BY <1>1 DEF Exact

(* The opening goes on.                                                    *)
LEMMA ExactRecovers ==
    ASSUME IndInv, Exact, NEW t \in Threads, job[t].pc # "idle", mode = "recover", mode' = mode,
           Becomes(job, t, job'[t], job'), job'[t].segs = job[t].segs,
           Recovers(registry', segment_map', job'[t])
    PROVE  Exact'
<1>1. job[t].segs = << >> /\ \A u \in Threads \ {t} : job[u].segs = << >>
    BY RecoverIs
<1>2. \A u \in Threads : job'[u].segs = << >>
    BY <1>1 DEF Becomes
<1> QED  BY <1>2 DEF Exact

LEMMA ExactReclaimDeregister ==
    ASSUME IsFiniteSet(Threads), IndInv, Exact, NEW t \in Threads, NEW v \in job[t].victims, ReclaimDeregister(t, v)
    PROVE  Exact'
<1> DEFINE id == v.id
           rest == job[t].victims \ {v}
           k == [job[t] EXCEPT !.pc = "reclaim", !.seg = id, !.victims = rest]
<1>1. /\ job[t].pc = "sweep" /\ saving[t] = "no" /\ job' = [job EXCEPT ![t] = k] /\ segment_map' = segment_map
      /\ Deregister(t, v.hash, v.id) \/ UNCHANGED <<registry, saving>>
      /\ mode' = mode /\ UNCHANGED <<fails, usage>>
    BY DEF ReclaimDeregister, At
<1>2. job[t].pc \notin WritePcs \cup {"idle"} /\ job[t].pc # "idle"
    BY <1>1 DEF WritePcs
<1>3. job[t] \in Jobs /\ v \in Victim
    BY <1>1, <1>2, ReclaimingIs DEF Doomed
<1>4. id \in Nat /\ rest \in SUBSET (Nat \cup Victim) /\ rest \subseteq job[t].victims
    BY <1>3 DEF Victim, Jobs
<1>5. registry'.capsules = registry.capsules
    BY <1>1, DeregisterIs
<1>6. Recovers(registry, segment_map, job[t]) =>
          /\ id \in DOMAIN segment_map
          /\ \A w \in rest : w.id \in DOMAIN segment_map /\ w.id # id
          /\ \A w, z \in rest : w.id = z.id => w = z
          /\ \A x \in DOMAIN segment_map :
              /\ segment_map[x].ref_count = References(registry.capsules, x)
              /\ segment_map[x].ref_count > 0 \/ (\E w \in rest : w.id = x) \/ x = id
    BY <1>1 DEF Recovers
<1> HIDE DEF id, rest
<1>7. k \in Jobs /\ k.pc = "reclaim" /\ k.seg = id /\ k.victims = rest /\ k.segs = job[t].segs
    BY <1>3, <1>4 DEF Jobs, Pcs
<1> HIDE DEF k
<1>8. job'[t] = k /\ Becomes(job, t, k, job')
    BY <1>1, <1>7, IndInvIs, BecomesIs DEF JobsOf
<1>9. CASE mode = "up"
    <2>1. job[t].segs = << >> /\ Stays(job[t], job'[t])
        BY <1>1 DEF Exact, Stays, FreshPcs
    <2> QED  BY <1>1, <1>5, <1>7, <1>8, <1>9, <2>1, ExactGoesOn
<1>10. CASE mode = "recover"
    <2>1. Recovers(registry, segment_map, job[t])
        BY <1>2, <1>10, RecoverIs
    <2>2. Recovers(registry', segment_map', job'[t])
        BY <1>1, <1>5, <1>6, <1>7, <1>8, <2>1 DEF Recovers
    <2> QED  BY <1>1, <1>2, <1>7, <1>8, <1>10, <2>2, ExactRecovers
<1> QED  BY <1>2, <1>9, <1>10, SweepsIn

LEMMA ExactReclaimRemove ==
    ASSUME IsFiniteSet(Threads), IndInv, Exact, NEW t \in Threads, ReclaimRemove(t)
    PROVE  Exact'
<1>1. /\ job[t].pc = "reclaim" /\ registry' = registry /\ mode' = mode /\ UNCHANGED <<fails, usage>>
      /\ "sweep" \in Pcs /\ job[t].pc # "idle"
    BY DEF ReclaimRemove, At, Pcs
<1>2. job[t].segs = << >>
    BY <1>1 DEF Exact
<1>3. CASE job[t].seg \notin DOMAIN segment_map
    <2>1. Return(t) /\ segment_map' = segment_map
        BY <1>3 DEF ReclaimRemove
    <2>2. Becomes(job, t, job'[t], job') /\ job'[t].pc = "idle" /\ job'[t].segs = << >>
        BY <2>1, IndInvIs, ReturnIs
    <2>3. mode # "recover"
        BY <1>1, <1>3, RecoverIs DEF Recovers
    <2>4. mode = "up" /\ Stays(job[t], job'[t])
        BY <1>1, <2>3, SweepsIn DEF Stays, FreshPcs
    <2> QED  BY <1>1, <1>2, <2>1, <2>2, <2>4, ExactGoesOn
<1>4. CASE job[t].seg \in DOMAIN segment_map
    <2>1. segment_map' = Drop(segment_map, job[t].seg) /\ Goto(t, "sweep")
        BY <1>4 DEF ReclaimRemove
    <2>2. /\ Becomes(job, t, job'[t], job') /\ job'[t].pc = "sweep" /\ job'[t].victims = job[t].victims
          /\ job'[t].segs = job[t].segs
        BY <1>1, <2>1, IndInvIs, GotoIs
    <2>3. IsDrop(segment_map', segment_map, job[t].seg)
        BY <2>1, IndInvIs, DropSegment
    <2>4. CASE mode = "up"
        <3>1. /\ \A u \in Threads \ {t} : job[u].pc # "reconcile"
              /\ fails = usage.fails => Balanced(registry, segment_map, job)
            BY <2>4 DEF Exact
        <3>2. Balanced(registry, segment_map, job) => Balanced(registry', segment_map', job')
            BY <1>1, <2>2, <2>3, BalancedDrops
        <3> QED  BY <1>1, <1>2, <2>2, <2>4, <3>1, <3>2, ExactUp
    <2>5. CASE mode = "recover"
        <3>1. Recovers(registry, segment_map, job[t])
            BY <1>1, <2>5, RecoverIs
        <3>2. /\ DOMAIN segment_map' = DOMAIN segment_map \ {job[t].seg}
              /\ \A x \in DOMAIN segment_map' : segment_map'[x] = segment_map[x]
            BY <2>3 DEF IsDrop
        <3>3. /\ \A w \in job[t].victims : w.id \in DOMAIN segment_map'
              /\ \A w, z \in job[t].victims : w.id = z.id => w = z
              /\ \A x \in DOMAIN segment_map' :
                  /\ segment_map'[x].ref_count = References(registry.capsules, x)
                  /\ segment_map'[x].ref_count > 0 \/ (\E w \in job[t].victims : w.id = x)
            BY <1>1, <3>1, <3>2 DEF Recovers
        <3>4. Recovers(registry', segment_map', job'[t])
            BY <1>1, <2>2, <3>3 DEF Recovers
        <3> QED  BY <1>1, <2>2, <2>5, <3>4, ExactRecovers
    <2> QED  BY <1>1, <2>4, <2>5, SweepsIn
<1> QED  BY <1>3, <1>4

LEMMA ExactSweepReturns ==
    ASSUME IsFiniteSet(Threads), IndInv, Exact, NEW t \in Threads, SweepReturns(t)
    PROVE  Exact'
<1>1. /\ job[t].pc = "sweep" /\ job[t].victims = {} /\ Return(t) /\ job[t].pc # "idle"
      /\ mode' = (IF mode = "recover" THEN "recovered" ELSE mode)
      /\ registry' = registry /\ segment_map' = segment_map /\ UNCHANGED <<fails, usage>>
    BY DEF SweepReturns, At, memory
<1>2. Becomes(job, t, job'[t], job') /\ job'[t].pc = "idle" /\ job'[t].segs = << >>
    BY <1>1, IndInvIs, ReturnIs
<1>3. CASE mode = "up"
    <2>1. job[t].segs = << >> /\ Stays(job[t], job'[t])
        BY <1>1 DEF Exact, Stays, FreshPcs
    <2> QED  BY <1>1, <1>2, <1>3, <2>1, ExactGoesOn
<1>4. CASE mode = "recover"
    <2>1. /\ Recovers(registry, segment_map, job[t])
          /\ \A u \in Threads \ {t} : job[u].pc = "idle"
        BY <1>1, <1>4, RecoverIs
    <2>2. \A u \in Threads : job'[u].pc = "idle"
        BY <1>2, <2>1 DEF Becomes
    <2>3. AllUsed(registry', segment_map')
        BY <1>1, <2>1 DEF Recovers, AllUsed
    <2> QED  BY <1>1, <1>4, <2>2, <2>3 DEF Exact
<1> QED  BY <1>1, <1>3, <1>4, SweepsIn

LEMMA ExactReconcileSegment ==
    ASSUME IndInv, Exact, NEW t \in Threads, NEW id, ReconcileSegment(t, id)
    PROVE  Exact'
<1> DEFINE n == References(registry.capsules, id)
           rest == job[t].victims \ {id}
           k == [job[t] EXCEPT !.victims = rest]
<1>1. /\ job[t].pc = "reconcile" /\ job' = [job EXCEPT ![t] = k] /\ job[t].pc # "idle"
      /\ segment_map' = [segment_map EXCEPT ![id].ref_count = n]
      /\ registry' = registry /\ mode' = mode
    BY DEF ReconcileSegment, At
<1>2. job[t].pc \notin WritePcs \cup {"idle"}
    BY <1>1 DEF WritePcs
<1>3. job[t] \in Jobs /\ n \in Nat
    BY <1>2, ReclaimingIs, IndInvIs, RegistryType, FiniteCapsules, RefsFinite
<1>4. k \in Jobs /\ k.pc = "reconcile" /\ k.segs = job[t].segs /\ k.victims = rest
    BY <1>1, <1>3 DEF Jobs
<1>5. mode = "recover"
    BY <1>1, SweepsIn DEF Exact
<1>6. Recovers(registry, segment_map, job[t])
    BY <1>1, <1>5, RecoverIs
<1>7. \A x \in DOMAIN segment_map \ rest : x = id \/ segment_map[x].ref_count = References(registry.capsules, x)
    BY <1>1, <1>6 DEF Recovers
<1>8. n = References(registry.capsules, id)
    OBVIOUS
<1> HIDE DEF k, n, rest
<1>9. job'[t] = k /\ Becomes(job, t, k, job')
    BY <1>1, <1>4, IndInvIs, BecomesIs DEF JobsOf
<1>10. DOMAIN segment_map' = DOMAIN segment_map /\ \A x \in DOMAIN segment_map \ rest :
           segment_map'[x].ref_count = References(registry.capsules, x)
    <2>1. CASE id \in DOMAIN segment_map
        <3>1. IsCounted(segment_map', segment_map, id, n)
            BY <1>1, <1>3, <2>1, IndInvIs, CountSegment
        <3> QED  BY <1>7, <1>8, <3>1 DEF IsCounted
    <2>2. CASE id \notin DOMAIN segment_map
        <3>1. DOMAIN segment_map' = DOMAIN segment_map /\ \A x \in DOMAIN segment_map : segment_map'[x] = segment_map[x]
            BY <1>1, <2>2
        <3> QED  BY <1>7, <2>2, <3>1
    <2> QED  BY <2>1, <2>2
<1>11. Recovers(registry', segment_map', job'[t])
    BY <1>1, <1>4, <1>9, <1>10 DEF Recovers
<1> QED  BY <1>1, <1>4, <1>5, <1>9, <1>11, ExactRecovers

LEMMA ExactReconcileSweep ==
    ASSUME IsFiniteSet(Threads), IndInv, Exact, NEW t \in Threads, ReconcileSweep(t)
    PROVE  Exact'
<1> DEFINE vs == ZeroRefs
           k == [job[t] EXCEPT !.pc = "sweep", !.victims = vs]
<1>1. /\ job[t].pc = "reconcile" /\ job[t].victims = {} /\ job' = [job EXCEPT ![t] = k] /\ job[t].pc # "idle"
      /\ registry' = registry /\ segment_map' = segment_map /\ mode' = mode
    BY DEF ReconcileSweep, At, memory
<1>2. job[t].pc \notin WritePcs \cup {"idle"}
    BY <1>1 DEF WritePcs
<1>3. vs \in SUBSET (Nat \cup Victim) /\ job[t] \in Jobs
    BY <1>2, ZeroRefsIs, ReclaimingIs
<1>4. /\ \A v \in vs : v.id \in DOMAIN segment_map
      /\ \A v, w \in vs : v.id = w.id => v = w
      /\ \A id \in DOMAIN segment_map : segment_map[id].ref_count = 0 => \E v \in vs : v.id = id
    <2> DEFINE copy(i) == [id |-> i, hash |-> segment_map[i].hash]
               zero == {i \in DOMAIN segment_map : segment_map[i].ref_count = 0}
    <2>1. vs = {copy(i) : i \in zero}
        BY DEF ZeroRefs
    <2>2. \A i : copy(i).id = i
        OBVIOUS
    <2>3. \A i \in zero : i \in DOMAIN segment_map
        OBVIOUS
    <2>4. \A i \in DOMAIN segment_map : segment_map[i].ref_count = 0 => i \in zero
        OBVIOUS
    <2> HIDE DEF copy, zero, vs
    <2>5. \A v \in vs : v.id \in zero /\ v = copy(v.id)
        BY <2>1, <2>2
    <2>6. \A i \in zero : copy(i) \in vs
        BY <2>1
    <2> QED  BY <2>2, <2>3, <2>4, <2>5, <2>6
<1> HIDE DEF vs
<1>5. k \in Jobs /\ k.pc = "sweep" /\ k.victims = vs /\ k.segs = job[t].segs
    BY <1>3 DEF Jobs, Pcs
<1> HIDE DEF k
<1>6. job'[t] = k /\ Becomes(job, t, k, job')
    BY <1>1, <1>5, IndInvIs, BecomesIs DEF JobsOf
<1>7. mode = "recover"
    BY <1>1, SweepsIn DEF Exact
<1>8. \A id \in DOMAIN segment_map : segment_map[id].ref_count = References(registry.capsules, id)
    BY <1>1, <1>7, RecoverIs DEF Recovers
<1>9. \A id \in DOMAIN segment_map : segment_map[id].ref_count > 0 \/ \E v \in vs : v.id = id
    <2>1. \A id \in DOMAIN segment_map : segment_map[id].ref_count \in Nat
        BY IndInvIs, SegmentType
    <2>2. \A i \in Nat : i = 0 \/ i > 0
        OBVIOUS
    <2> QED  BY <1>4, <2>1, <2>2
<1>10. Recovers(registry', segment_map', job'[t])
    BY <1>1, <1>4, <1>5, <1>6, <1>8, <1>9 DEF Recovers
<1> QED  BY <1>1, <1>5, <1>6, <1>7, <1>10, ExactRecovers

LEMMA ExactOpen ==
    ASSUME IndInv, Exact, NEW t \in Threads, Open(t)
    PROVE  Exact'
<1> DEFINE vs == Drifted(registry_file.capsules, segments_file)
           k == [IdleJob EXCEPT !.pc = "reconcile", !.victims = vs]
<1>1. /\ mode = "down" /\ registry' = registry_file /\ segment_map' = segments_file /\ mode' = "recover"
      /\ job' = [job EXCEPT ![t] = k]
    BY DEF Open
<1>2. \A u \in Threads : job[u].pc = "idle"
    BY <1>1 DEF IndInv, Calls
<1>3. \A id \in DOMAIN segments_file \ vs : segments_file[id].ref_count = References(registry_file.capsules, id)
    BY DEF Drifted
<1> HIDE DEF vs
<1>4. k.pc = "reconcile" /\ k.victims = vs
    BY DEF IdleJob
<1> HIDE DEF k
<1>5. job'[t] = k /\ \A u \in Threads \ {t} : job'[u] = job[u]
    BY <1>1, IndInvIs DEF JobsOf
<1>6. Recovers(registry', segment_map', job'[t])
    BY <1>1, <1>3, <1>4, <1>5 DEF Recovers
<1>7. \A u \in Threads : job'[u].pc \notin {"sweep", "reclaim"}
    BY <1>2, <1>4, <1>5
<1> QED  BY <1>1, <1>6, <1>7 DEF Exact

LEMMA ExactCrash ==
    ASSUME Crash
    PROVE  Exact'
<1>1. mode' = "down" /\ \A t \in Threads : job'[t].pc = "idle"
    BY DEF Crash, IdleJob
<1> QED  BY <1>1 DEF Exact

(* After a failure the counts need not be exact until a restart.           *)
LEMMA ExactFailures ==
    ASSUME IndInv, Live, Exact, NEW t \in Threads, PrepareFails(t) \/ AppendFails(t) \/ SaveFails(t)
    PROVE  Exact'
<1>1. fails > 0 /\ fails' = fails - 1 /\ usage' = usage /\ Return(t)
    BY DEF PrepareFails, AppendFails, SaveFails
<1>2. fails' # usage'.fails
    BY <1>1 DEF Live
<1>3. Becomes(job, t, job'[t], job') /\ job'[t].pc = "idle"
    BY <1>1, IndInvIs, ReturnIs
<1>4. mode' = "up" /\ \A u \in Threads \ {t} : job[u].pc # "reconcile"
    <2>1. CASE PrepareFails(t) \/ AppendFails(t)
        <3>1. job[t].pc \in {"chunk", "append"} /\ mode' = mode
            BY <2>1 DEF PrepareFails, AppendFails, At
        <3> QED  BY <3>1, UpIs DEF Exact
    <2>2. CASE SaveFails(t)
        <3>1. mode' = "up" /\ saving[t] # "no"
            BY <2>2 DEF SaveFails
        <3>2. job[t].pc # "idle"
            BY <3>1 DEF IndInv, Calls
        <3>3. CASE mode = "up"
            BY <3>1, <3>3 DEF Exact
        <3>4. CASE mode = "recover"
            BY <3>1, <3>2, <3>4, RecoverIs
        <3> QED  BY <3>2, <3>3, <3>4, SweepsIn
    <2> QED  BY <2>1, <2>2
<1> QED  BY <1>2, <1>3, <1>4, ExactUp

LEMMA ExactSaves ==
    ASSUME Exact, UNCHANGED <<mode, registry, segment_map, job, fails, usage>>
    PROVE  Exact'
BY DEF Exact

LEMMA ExactStarts ==
    ASSUME Init
    PROVE  Exact
<1>1. mode = "up" /\ segment_map = Empty /\ job = [t \in Threads |-> IdleJob]
    BY DEF Init
<1>2. \A t \in Threads : job[t].pc = "idle" /\ job[t].segs = << >>
    BY <1>1 DEF IdleJob
<1>3. Balanced(registry, segment_map, job)
    BY <1>1, <1>2 DEF Balanced, Held, Empty
<1> QED  BY <1>1, <1>2, <1>3 DEF Exact

LEMMA ExactSteps ==
    ASSUME IsFiniteSet(Threads), IndInv, Live, Exact, [Next]_vars
    PROVE  Exact'
<1>1. CASE UNCHANGED vars
    BY <1>1, ExactSaves DEF vars
<1>2. CASE Crash
    BY <1>2, ExactCrash
<1>3. ASSUME NEW t \in Threads,
             \/ \E data \in Datas, dedupe \in BOOLEAN : WriteCapsule(t, data, dedupe)
             \/ PrepareFails(t) \/ LookupContent(t) \/ IncrementRefcount(t)
             \/ AppendSegment(t) \/ AppendFails(t)
             \/ UpdateMetadata(t) \/ RegisterContent(t) \/ AddDedupedBytes(t)
             \/ CreateCapsule(t) \/ WriteReturns(t)
      PROVE  Exact'
    BY <1>3, ExactWriteCapsule, ExactFailures, ExactLookupContent, ExactIncrementRefcount,
       ExactAppendSegment, ExactUpdateMetadata, ExactRegisterContent, ExactAddDedupedBytes,
       ExactCreateCapsule, ExactReturns
<1>4. ASSUME NEW t \in Threads,
             \/ \E cap \in CapsuleIds : DeleteCapsule(t, cap)
             \/ DecrementRefcount(t) \/ DeregisterContent(t) \/ RemoveSegment(t)
             \/ DeleteReturns(t)
             \/ GarbageCollect(t) \/ ReclaimRemove(t) \/ SweepReturns(t)
             \/ \E v \in job[t].victims : ReclaimDeregister(t, v)
      PROVE  Exact'
    BY <1>4, ExactDeleteCapsule, ExactDecrementRefcount, ExactDeregisterContent, ExactRemoveSegment,
       ExactReturns, ExactGarbageCollect, ExactReclaimRemove, ExactSweepReturns, ExactReclaimDeregister
<1>5. ASSUME NEW t \in Threads, SaveSegmentMap(t) \/ CloneRegistry(t) \/ WriteRegistry(t)
      PROVE  Exact'
    BY <1>5, ExactSaves DEF SaveSegmentMap, CloneRegistry, WriteRegistry, memory
<1>6. ASSUME NEW t \in Threads,
             \/ SaveFails(t)
             \/ Open(t)
             \/ \E id \in SegIds : ReconcileSegment(t, id)
             \/ ReconcileSweep(t)
      PROVE  Exact'
    BY <1>6, ExactFailures, ExactOpen, ExactReconcileSegment, ExactReconcileSweep
<1> QED  BY <1>1, <1>2, <1>3, <1>4, <1>5, <1>6 DEF Next

(* An id that a capsule refers to will not be allocated again.             *)
LEMMA ReferredBelow ==
    ASSUME IndInv, NEW id, id \in Nat, References(registry.capsules, id) > 0
    PROVE  id < registry.next_segment_id
<1>1. References(registry.capsules, id) # 0
    BY IndInvIs, RegistryType, FiniteCapsules, RefsFinite
<1>2. registry.capsules \in Capsules /\ IsFiniteSet(DOMAIN registry.capsules)
    BY IndInvIs, RegistryType, FiniteCapsules
<1>3. PICK c \in DOMAIN registry.capsules : \E i \in DOMAIN registry.capsules[c].segments :
          registry.capsules[c].segments[i] = id
    BY <1>1, <1>2, RefsFinite
<1>4. PICK i \in DOMAIN registry.capsules[c].segments : registry.capsules[c].segments[i] = id
    BY <1>3
<1>5. registry.capsules[c].segments[i] < registry.next_segment_id
    BY IndInvIs DEF Below
<1> QED  BY <1>4, <1>5

(* Nothing leaks: as long as no call has failed, whenever no call is       *)
(* running, and after every restart, whatever had failed before it, the    *)
(* count of a segment is the number of references capsules have to it and  *)
(* is not zero, and its id will not be allocated again.  delete_capsule    *)
(* and write_capsule_with_policy count every reference exactly once, and   *)
(* reconcile_refcounts with its sweep repairs what a crash had left.       *)
THEOREM PipelineNoLeak ==
    ASSUME KeptApart
    PROVE  Spec => []NoLeak
<1>1. Init => Live /\ Exact
    BY LiveStarts, ExactStarts
<1>2. IndInv /\ Live /\ Exact /\ [Next]_vars => Live' /\ Exact'
    BY LiveSteps, ExactSteps DEF KeptApart
<1>3. IndInv /\ Live /\ Exact => NoLeak
    <2> SUFFICES ASSUME IndInv, Live, Exact,
                        (AllIdle /\ fails = usage.fails /\ mode # "down") \/ mode = "recovered",
                        NEW id \in DOMAIN segment_map
                 PROVE  /\ segment_map[id].ref_count = References(registry.capsules, id)
                        /\ segment_map[id].ref_count > 0
                        /\ id < registry.next_segment_id
        BY DEF NoLeak
    <2>1. /\ segment_map[id].ref_count = References(registry.capsules, id)
          /\ segment_map[id].ref_count > 0
        <3>1. CASE mode = "recovered"
            BY <3>1 DEF Exact, AllUsed
        <3>2. CASE mode # "recovered"
            <4>1. \A t \in Threads : job[t].pc = "idle" /\ job[t].segs = << >>
                BY <3>2 DEF AllIdle, At, IndInv, Calls
            <4>2. mode # "recover"
                BY <4>1 DEF Exact, Recovers
            <4>3. mode = "up"
                BY <3>2, <4>2 DEF IndInv, FilesOK
            <4>4. Accounted(registry, segment_map, job, id)
                BY <3>2, <4>3 DEF Exact, Balanced
            <4>5. Holds(job, id) = 0
                BY <4>1, IndInvIs, HoldsNone
            <4>6. Uses(registry, job, id) = References(registry.capsules, id)
                BY <4>5, IndInvIs, UsesType DEF KeptApart
            <4> QED  BY <4>1, <4>4, <4>6 DEF Accounted, FreshPcs
        <3> QED  BY <3>1, <3>2
    <2>2. id \in Nat
        BY IndInvIs, SegmentType
    <2> QED  BY <2>1, <2>2, ReferredBelow
<1> QED  BY <1>1, <1>2, <1>3, PipelineInvariant, PTL DEF Spec
=============================================================================

------------------------ MODULE ModularPipelineProofs ------------------------
(***************************************************************************)
(* Theorems about ModularPipeline: after every sequence of writes, deletes *)
(* and garbage collections, refused and failed writes, failed saves and    *)
(* restarts, a capsule that no delete has touched has its segments, and in *)
(* memory reads back as it was written; the count of a segment covers the  *)
(* capsules that list it, and the content index is live.                   *)
(***************************************************************************)
EXTENDS ModularPipeline, SetLemmas

-----------------------------------------------------------------------------
(* Partial functions, as Put and Drop make them.                           *)

PFun(X, Y) == UNION {[D -> Y] : D \in SUBSET X}

LEMMA PFunFacts ==
    ASSUME NEW X, NEW Y, NEW f, f \in PFun(X, Y)
    PROVE  /\ DOMAIN f \in SUBSET X /\ f = [x \in DOMAIN f |-> f[x]]
           /\ \A x \in DOMAIN f : f[x] \in Y
<1>1. PICK D \in SUBSET X : f \in [D -> Y]
    BY DEF PFun
<1> QED  BY <1>1

LEMMA PFunMember ==
    ASSUME NEW X, NEW Y, NEW D \in SUBSET X, NEW f, f \in [D -> Y]
    PROVE  f \in PFun(X, Y)
BY DEF PFun

IsPut(g, f, x, y) == g = Put(f, x, y)
IsDrop(g, f, S) == g = Drop(f, S)

LEMMA PutFacts ==
    ASSUME NEW X, NEW Y, NEW f, f \in PFun(X, Y), NEW x, x \in X, NEW y, y \in Y,
           NEW g, IsPut(g, f, x, y)
    PROVE  /\ g \in PFun(X, Y) /\ DOMAIN g = DOMAIN f \cup {x} /\ g[x] = y
           /\ \A z \in DOMAIN f : z # x => g[z] = f[z]
<1> DEFINE D == DOMAIN f \cup {x}
<1>1. D \in SUBSET X /\ \A z \in DOMAIN f : f[z] \in Y
    BY PFunFacts
<1>2. g \in [D -> Y]
    BY <1>1 DEF Put, IsPut
<1>3. DOMAIN g = D /\ g[x] = y /\ \A z \in DOMAIN f : z # x => g[z] = f[z]
    BY DEF Put, IsPut
<1> HIDE DEF D
<1>4. g \in PFun(X, Y)
    BY <1>1, <1>2, PFunMember
<1> QED  BY <1>3, <1>4 DEF D

LEMMA DropFacts ==
    ASSUME NEW X, NEW Y, NEW f, f \in PFun(X, Y), NEW S, NEW g, IsDrop(g, f, S)
    PROVE  /\ g \in PFun(X, Y) /\ DOMAIN g = DOMAIN f \ S
           /\ \A z \in DOMAIN f \ S : g[z] = f[z]
<1> DEFINE D == DOMAIN f \ S
<1>1. D \in SUBSET X /\ \A z \in DOMAIN f : f[z] \in Y
    BY PFunFacts
<1>2. g \in [D -> Y]
    BY <1>1 DEF Drop, IsDrop
<1>3. DOMAIN g = D /\ \A z \in D : g[z] = f[z]
    BY DEF Drop, IsDrop
<1> HIDE DEF D
<1>4. g \in PFun(X, Y)
    BY <1>1, <1>2, PFunMember
<1> QED  BY <1>3, <1>4 DEF D

LEMMA EmptyFacts ==
    ASSUME NEW X, NEW Y
    PROVE  Empty \in PFun(X, Y) /\ DOMAIN Empty = {}
<1>1. Empty \in [{} -> Y] /\ DOMAIN Empty = {}
    BY DEF Empty
<1> QED  BY <1>1, PFunMember

-----------------------------------------------------------------------------
(* The layout: the zones of a plan follow one another and cover the data.  *)

(* The number of zones times their size reaches the end of the data and    *)
(* one zone less does not.                                                 *)
LEMMA ZoneCount ==
    ASSUME NEW L \in Nat, NEW S \in Nat \ {0}, NEW n, n = (L + S - 1) \div S
    PROVE  n \in Nat /\ n * S >= L /\ (L # 0 => n >= 1 /\ (n - 1) * S < L) /\ (L = 0 => n = 0)
<1>1. n \in Int /\ n * S <= L + S - 1 /\ L + S - 1 < (n + 1) * S
    OBVIOUS
<1>2. (n + 1) * S = n * S + S /\ (n - 1) * S = n * S - S
    BY <1>1
<1>3. n * S >= L /\ (n - 1) * S < L
    BY <1>1, <1>2
<1>4. n >= 0
    BY <1>1, <1>3
<1>5. L = 0 => n = 0
    <2>1. SUFFICES ASSUME L = 0, n # 0 PROVE FALSE
        OBVIOUS
    <2>2. n - 1 \in Nat
        BY <1>1, <1>4, <2>1
    <2>3. (n - 1) * S >= 0
        BY <2>2
    <2> QED  BY <1>3, <2>1, <2>3
<1>6. L # 0 => n >= 1
    <2>1. SUFFICES ASSUME L # 0, n = 0 PROVE FALSE
        BY <1>1, <1>4
    <2> QED  BY <1>3, <2>1
<1> QED  BY <1>1, <1>3, <1>4, <1>5, <1>6

(* Where the i-th of n zones of size S begins and ends in L units.         *)
LEMMA ZoneBounds ==
    ASSUME NEW L \in Nat, NEW S \in Nat \ {0}, NEW n \in Nat, (n - 1) * S < L, L <= n * S,
           NEW i \in 1 .. n
    PROVE  /\ (i - 1) * S \in Nat /\ (i - 1) * S < L
           /\ i < n => L - (i - 1) * S > S /\ (i - 1) * S + S = i * S
           /\ i = n => L - (i - 1) * S <= S
           /\ i * S \in Nat
<1>1. i - 1 \in Nat /\ n - i \in Nat
    OBVIOUS
<1>2. (i - 1) * S \in Nat /\ i * S \in Nat
    BY <1>1
<1>3. (i - 1) * S + S = i * S
    OBVIOUS
<1>4. (n - i) * S \in Nat /\ (n - 1) * S = (i - 1) * S + (n - i) * S /\ n * S = i * S + (n - i) * S
    BY <1>1
<1>5. (i - 1) * S < L
    BY <1>2, <1>4
<1>6. ASSUME i < n PROVE L - (i - 1) * S > S
    <2>1. n - i - 1 \in Nat
        BY <1>6
    <2>2. (n - i - 1) * S \in Nat /\ (n - i) * S = (n - i - 1) * S + S
        BY <2>1
    <2> QED  BY <1>2, <1>4, <2>2
<1>7. i = n => L - (i - 1) * S <= S
    BY <1>2, <1>3
<1> QED  BY <1>2, <1>3, <1>5, <1>6, <1>7

ZonesCover(plan, L) ==
    /\ \A i \in 1 .. Len(plan) :
        /\ plan[i] \in Zone /\ plan[i].length > 0
        /\ plan[i].offset + plan[i].length <= L
        /\ i = 1 => plan[i].offset = 0
        /\ i > 1 => plan[i].offset = plan[i - 1].offset + plan[i - 1].length
        /\ i = Len(plan) => plan[i].offset + plan[i].length = L
    /\ L = 0 <=> Len(plan) = 0

LEMMA PlanCovers ==
    ASSUME NEW data \in Seq(Units), NEW plan, plan = BuildPlan(data)
    PROVE  plan \in Seq(Zone) /\ ZonesCover(plan, Len(data))
<1> DEFINE L == Len(data)
           S == SegmentSize
           n == (L + S - 1) \div S
<1>1. L \in Nat /\ S \in Nat \ {0}
    BY ModularAssumption
<1>2. plan = [i \in 1 .. n |->
            [offset |-> (i - 1) * S,
             length |-> IF L - (i - 1) * S < S THEN L - (i - 1) * S ELSE S]]
    BY DEF BuildPlan
<1>3. n \in Nat /\ n * S >= L /\ (L # 0 => n >= 1 /\ (n - 1) * S < L) /\ (L = 0 => n = 0)
    <2> DEFINE k == n
    <2>1. k = (L + S - 1) \div S
        OBVIOUS
    <2> HIDE DEF L, S, k
    <2> QED  BY <1>1, <2>1, ZoneCount DEF k
<1> HIDE DEF L, S, n
<1>4. DOMAIN plan = 1 .. n
    BY <1>2
<1>5. L = 0 <=> n = 0
    BY <1>1, <1>3
<1>6. ASSUME NEW i \in 1 .. n
      PROVE  /\ plan[i] \in Zone /\ plan[i].length > 0 /\ plan[i].offset + plan[i].length <= L
             /\ plan[i].offset = (i - 1) * S
             /\ i < n => plan[i].offset + plan[i].length = i * S
             /\ i = n => plan[i].offset + plan[i].length = L
    <2>1. n # 0 /\ L # 0
        BY <1>3, <1>5
    <2>2. /\ (i - 1) * S \in Nat /\ (i - 1) * S < L
          /\ i < n => L - (i - 1) * S > S /\ (i - 1) * S + S = i * S
          /\ i = n => L - (i - 1) * S <= S
          /\ i * S \in Nat
        BY <1>1, <1>3, <2>1, ZoneBounds
    <2> DEFINE start == (i - 1) * S
               len == IF L - start < S THEN L - start ELSE S
    <2>3. plan[i] = [offset |-> start, length |-> len]
        BY <1>2
    <2>4. start \in Nat /\ start < L
        BY <2>2
    <2>5. i < n => L - start > S /\ start + S = i * S
        BY <2>2
    <2>6. i = n => L - start <= S
        BY <2>2
    <2> HIDE DEF start
    <2>7. len \in Nat /\ len > 0 /\ start + len <= L
        BY <1>1, <2>4
    <2>8. i < n => start + len = i * S
        BY <1>1, <2>4, <2>5
    <2>9. i = n => start + len = L
        BY <1>1, <2>4, <2>6
    <2> HIDE DEF len
    <2>10. plan[i] \in Zone /\ plan[i].offset = start /\ plan[i].length = len
        BY <2>3, <2>4, <2>7 DEF Zone
    <2> QED  BY <2>7, <2>8, <2>9, <2>10 DEF start
<1>7. plan \in Seq(Zone) /\ Len(plan) = n
    <2>1. plan \in [1 .. n -> Zone]
        BY <1>2, <1>4, <1>6
    <2> QED  BY <1>3, <2>1, SeqDef, LenProperties
<1>8. ASSUME NEW i \in 1 .. n, i > 1
      PROVE  plan[i].offset = plan[i - 1].offset + plan[i - 1].length
    <2>1. i - 1 \in 1 .. n /\ i - 1 < n
        BY <1>3, <1>8
    <2>2. plan[i - 1].offset + plan[i - 1].length = (i - 1) * S
        BY <1>6, <2>1
    <2> QED  BY <1>6, <2>2
<1>9. ASSUME NEW i \in 1 .. n, i = 1 PROVE plan[i].offset = 0
    <2>1. plan[i].offset = (i - 1) * S
        BY <1>6
    <2> QED  BY <1>1, <1>9, <2>1
<1> QED  BY <1>5, <1>6, <1>7, <1>8, <1>9 DEF ZonesCover, L

-----------------------------------------------------------------------------
(* Two neighbouring pieces of a sequence, joined.                          *)
LEMMA JoinPieces ==
    ASSUME NEW T, NEW data \in Seq(T), NEW p \in Nat, NEW q \in Nat, p <= q, q <= Len(data)
    PROVE  SubSeq(data, 1, p) \o SubSeq(data, p + 1, q) = SubSeq(data, 1, q)
<1> DEFINE a == SubSeq(data, 1, p)
           b == SubSeq(data, p + 1, q)
           c == SubSeq(data, 1, q)
<1>1. Len(data) \in Nat
    OBVIOUS
<1>2. a \in Seq(T) /\ Len(a) = p /\ \A i \in 1 .. p : a[i] = data[i]
    BY <1>1
<1>3. b \in Seq(T) /\ Len(b) = q - p /\ \A i \in 1 .. q - p : b[i] = data[p + i]
    <2>1. b \in Seq(T) /\ Len(b) = q - p
        BY <1>1
    <2>2. ASSUME NEW i \in 1 .. q - p PROVE b[i] = data[p + i]
        <3>1. b[i] = data[p + 1 + i - 1] /\ p + 1 + i - 1 = p + i
            BY <1>1
        <3> QED  BY <3>1
    <2> QED  BY <2>1, <2>2
<1>4. c \in Seq(T) /\ Len(c) = q /\ \A i \in 1 .. q : c[i] = data[i]
    BY <1>1
<1> HIDE DEF a, b, c
<1>5. a \o b \in Seq(T) /\ Len(a \o b) = q
    <2>1. a \o b \in Seq(T) /\ Len(a \o b) = Len(a) + Len(b)
        BY <1>2, <1>3, ConcatProperties
    <2>2. Len(a) + Len(b) = q
        BY <1>2, <1>3
    <2> QED  BY <2>1, <2>2
<1>6. ASSUME NEW i \in 1 .. q PROVE (a \o b)[i] = c[i]
    <2>1. CASE i <= p
        <3>1. (a \o b)[i] = a[i]
            BY <1>2, <1>3, <2>1, ConcatProperties
        <3> QED  BY <3>1, <1>2, <1>4, <2>1
    <2>2. CASE i > p
        <3>1. i - p \in 1 .. q - p /\ p + (i - p) = i
            BY <2>2
        <3>2. (a \o b)[i] = b[i - p]
            BY <1>2, <1>3, <2>2, ConcatProperties
        <3>3. b[i - p] = data[i]
            BY <1>3, <3>1
        <3> QED  BY <3>2, <3>3, <1>4
    <2>3. i <= p \/ i > p
        OBVIOUS
    <2> QED  BY <2>1, <2>2, <2>3, Zenon
<1>7. a \o b = c
    BY <1>4, <1>5, <1>6, SeqEqual
<1> QED  BY <1>7 DEF a, b, c

(* The chunks of a plan, put together, are the data.                       *)
LEMMA FlattenPlan ==
    ASSUME NEW data \in Seq(Units), NEW plan, plan = BuildPlan(data), NEW s,
           s = [i \in 1 .. Len(plan) |-> ChunkOf(data, plan[i])]
    PROVE  FlattenSeq(s) = data
<1>1. plan \in Seq(Zone) /\ ZonesCover(plan, Len(data)) /\ Len(data) \in Nat
    BY PlanCovers
<1>2. Len(plan) \in Nat
    BY <1>1
<1> DEFINE n == Len(plan)
           end(i) == plan[i].offset + plan[i].length
           g == [i \in 1 .. n |-> SubSeq(data, 1, end(i))]
<1>3. Len(s) = n
    BY <1>2
<1>4. CASE n = 0
    <2>1. s = << >> /\ data = << >>
        BY <1>1, <1>4 DEF ZonesCover
    <2> QED  BY <2>1 DEF FlattenSeq
<1>5. CASE n # 0
    <2>1. ASSUME NEW i \in 1 .. n
          PROVE  g[i] = IF i = 1 THEN s[i] ELSE g[i - 1] \o s[i]
        <3>1. /\ plan[i] \in Zone /\ end(i) <= Len(data) /\ end(i) \in Nat
              /\ i = 1 => plan[i].offset = 0
              /\ i > 1 => plan[i].offset = end(i - 1)
            BY <1>1 DEF ZonesCover, Zone
        <3>2. s[i] = SubSeq(data, plan[i].offset + 1, end(i))
            BY DEF ChunkOf
        <3>3. g[i] = SubSeq(data, 1, end(i))
            OBVIOUS
        <3>4. CASE i = 1
            <4>1. plan[i].offset + 1 = 1
                BY <3>1, <3>4
            <4>2. s[i] = SubSeq(data, 1, end(i))
                BY <3>2, <4>1
            <4> QED  BY <3>3, <3>4, <4>2
        <3>5. CASE i # 1
            <4>1. i - 1 \in 1 .. n /\ i > 1
                BY <1>2, <3>5
            <4>2. g[i - 1] = SubSeq(data, 1, end(i - 1))
                BY <4>1
            <4> DEFINE p == end(i - 1)
                       q == end(i)
            <4>3. p = plan[i].offset /\ p \in Nat /\ q \in Nat /\ p <= q /\ q <= Len(data)
                BY <3>1, <4>1 DEF Zone
            <4> HIDE DEF p, q
            <4>4. SubSeq(data, 1, p) \o SubSeq(data, p + 1, q) = SubSeq(data, 1, q)
                BY <4>3, JoinPieces
            <4>5. g[i] = g[i - 1] \o s[i]
                BY <3>2, <3>3, <4>2, <4>3, <4>4 DEF p, q
            <4> QED  BY <4>5, <3>5
        <3> QED  BY <3>4, <3>5
    <2>2. Flattening(g, s, n)
        <3>1. DOMAIN g = 1 .. n
            OBVIOUS
        <3> HIDE DEF g
        <3>2. g = [i \in 1 .. n |-> g[i]]
            BY DEF g
        <3> QED  BY <2>1, <3>1, <3>2 DEF Flattening
    <2>3. g[n] = data
        <3>1. n \in 1 .. n
            BY <1>2, <1>5
        <3>2. end(n) = Len(data)
            BY <1>1, <3>1 DEF ZonesCover
        <3>3. g[n] = SubSeq(data, 1, Len(data))
            BY <3>1, <3>2
        <3>4. SubSeq(data, 1, Len(data)) = data
            OBVIOUS
        <3> QED  BY <3>3, <3>4
    <2> HIDE DEF g, n
    <2>4. FlattenSeq(s) = g[n]
        BY <1>2, <1>3, <1>5, <2>2, FlattenIs DEF n
    <2> QED  BY <2>3, <2>4
<1> QED  BY <1>4, <1>5

-----------------------------------------------------------------------------
(* The inductive invariant.  Its parts are stated of any catalog cat with  *)
(* capsules caps and index cont, any segment map, broken capsules br, torn *)
(* segments tn, writes d and call c: memory and files satisfy the same.    *)

Chunks == Seq(Units)
Catalog == [capsules : PFun(Nat, Seq(Nat)), next_segment : Nat, content : PFun(Chunks, Nat)]
Segment == [content_hash : Chunks, ref_count : Nat, encrypted : BOOLEAN]
Payload == [chunk : Chunks, cipher : BOOLEAN]
Call == WriteCall \cup DeleteCall \cup SweepCall

Typed ==
    /\ setup \in Setups /\ encryptor \in Encryptors
    /\ catalog \in Catalog /\ catalog_file \in Catalog
    /\ metadata \in PFun(Nat, Segment) /\ metadata_file \in PFun(Nat, Segment)
    /\ segments \in PFun(Nat, Payload)
    /\ call \in Call \cup {Idle}
    /\ data_of \in Seq([data : Chunks, enc : BOOLEAN]) /\ Len(data_of) <= MaxCapsules
    /\ broken \in SUBSET (1 .. Len(data_of)) /\ torn \in SUBSET Nat
    /\ abandoned \in SUBSET Nat
    /\ fails \in 0 .. MaxFails /\ crashes \in 0 .. MaxCrashes

Writing(c) == c # Idle /\ c.pc \in {"chunk", "register"}
Registering(c) == c # Idle /\ c.pc = "register"
Deleting(c) == c # Idle /\ c.pc \in {"release", "deregister"}
Deregistering(c) == c # Idle /\ c.pc = "deregister"
Sweeping(c) == c # Idle /\ c.pc = "sweep"
CurrentChunk(c) == ChunkOf(c.data, Head(c.todo))

(* Segments were handed out below next_segment, capsule ids to n writes.   *)
Bounds(cat, n) ==
    /\ DOMAIN cat.capsules \subseteq 1 .. n
    /\ \A id \in DOMAIN cat.capsules : \A i \in DOMAIN cat.capsules[id] :
        cat.capsules[id][i] < cat.next_segment
    /\ \A h \in DOMAIN cat.content : cat.content[h] < cat.next_segment

Stored(map, seg, chunk) == seg \in DOMAIN map /\ map[seg].content_hash = chunk

(* segs holds the first chunks of the data.                                *)
Holds(map, segs, data) ==
    /\ Len(segs) <= Len(BuildPlan(data))
    /\ \A i \in DOMAIN segs : Stored(map, segs[i], ChunkOf(data, BuildPlan(data)[i]))

Whole(caps, map, br, d) ==
    \A id \in DOMAIN caps \ br :
        Len(caps[id]) = Len(BuildPlan(d[id].data)) /\ Holds(map, caps[id], d[id].data)

ContentIn(cont, map, tn) ==
    \A h \in DOMAIN cont : cont[h] \in tn \/ Stored(map, cont[h], h)

CountsOne(map) == \A seg \in DOMAIN map : map[seg].ref_count = 1

(* What holds of the segment map in memory and, on NVRAM, of the saved one *)
(* too, so that either file may be saved without the other.                *)
MapInv(map, cat, br, tn, d, c) ==
    /\ Whole(cat.capsules, map, br, d)
    /\ ContentIn(cat.content, map, tn)
    /\ OnNvram => CountsOne(map)
    /\ Writing(c) => Holds(map, c.segs, c.data)
    /\ Registering(c) => Stored(map, c.seg, CurrentChunk(c))
    /\ Deregistering(c) => Head(c.todo) \in tn

(* On NVRAM no segment is listed twice.                                    *)
Unshared(caps) ==
    \A c, d \in DOMAIN caps : \A i \in DOMAIN caps[c], j \in DOMAIN caps[d] :
        caps[c][i] = caps[d][j] => c = d /\ i = j

Lists(caps, seg) == \E id \in DOMAIN caps : \E i \in DOMAIN caps[id] : caps[id][i] = seg

(* The saved catalog is behind the one in memory only in capsules whose    *)
(* delete has begun and in segments that are torn.                         *)
FileInv(file, cat, br, tn, n) ==
    /\ Bounds(file, n)
    /\ OnNvram => Unshared(file.capsules)
    /\ \A id \in DOMAIN file.capsules \ br :
        id \in DOMAIN cat.capsules /\ cat.capsules[id] = file.capsules[id]
    /\ \A h \in DOMAIN file.content :
        file.content[h] \in tn \/ (h \in DOMAIN cat.content /\ cat.content[h] = file.content[h])
    /\ file.next_segment <= cat.next_segment
    /\ setup # "registry" => file = EmptyCatalog

(* The write that runs: the latest, and how far it is in its plan; on      *)
(* NVRAM its segments are its own.                                         *)
Progress(c) ==
    /\ Len(c.segs) + Len(c.todo) = Len(BuildPlan(c.data))
    /\ \A i \in DOMAIN c.todo : c.todo[i] = BuildPlan(c.data)[Len(c.segs) + i]

Own(c, cat) ==
    /\ \A i \in DOMAIN c.segs : ~Lists(cat.capsules, c.segs[i])
    /\ \A i, j \in DOMAIN c.segs : c.segs[i] = c.segs[j] => i = j

WriteInv(c, cat, br, d) ==
    /\ c.id = Len(d) /\ c.id # 0 /\ c.data = d[c.id].data
    /\ c.id \notin DOMAIN cat.capsules /\ c.id \notin br
    /\ Progress(c)
    /\ \A i \in DOMAIN c.segs : c.segs[i] < cat.next_segment
    /\ OnNvram => Own(c, cat)
    /\ Registering(c) =>
        /\ c.todo # << >>
        /\ c.seg < cat.next_segment
        /\ CurrentChunk(c) \notin DOMAIN cat.content
        /\ OnNvram => ~Lists(cat.capsules, c.seg) /\ \A i \in DOMAIN c.segs : c.segs[i] # c.seg

(* The delete that runs gives up segments of its capsule.                  *)
DeleteInv(c, caps, br) ==
    /\ c.id \in DOMAIN caps /\ c.id \in br
    /\ \A i \in DOMAIN c.todo : \E j \in DOMAIN caps[c.id] : c.todo[i] = caps[c.id][j]
    /\ Deregistering(c) => c.todo # << >>

(* The sweep that runs removes nothing that is listed, and nothing that is *)
(* in the index without deregistering it first.                            *)
SweepInv(c, cat) ==
    /\ \A seg \in c.remove : ~Lists(cat.capsules, seg)
    /\ \A h \in DOMAIN cat.content : cat.content[h] \in c.remove => cat.content[h] \in c.dereg

CallInv(c, cat, br, d) ==
    /\ Writing(c) => WriteInv(c, cat, br, d)
    /\ Deleting(c) => DeleteInv(c, cat.capsules, br)
    /\ Sweeping(c) => SweepInv(c, cat)

(* In memory no save fails.  Counts cover the capsules, and what the       *)
(* running call has taken or has yet to give up; they are exact but for    *)
(* the segments of writes that the encryptor refused.                      *)
Claims(c) ==
    IF Writing(c) THEN (IF Registering(c) THEN Append(c.segs, c.seg) ELSE c.segs)
    ELSE IF Deleting(c) THEN c.todo ELSE << >>

Held(caps, ids, seg) == Cardinality(UnionOver([id \in ids |-> Labelled(id, caps[id], seg)], ids))

Counted(map, caps, br, ab, c) ==
    \A seg \in DOMAIN map :
        /\ map[seg].ref_count >= 1
        /\ map[seg].ref_count >= Held(caps, DOMAIN caps \ br, seg) + Times(Claims(c), seg)
        /\ seg \notin ab =>
            map[seg].ref_count = Held(caps, DOMAIN caps \ br, seg) + Times(Claims(c), seg)

Payloads(map, segs) ==
    /\ DOMAIN segs = DOMAIN map
    /\ \A seg \in DOMAIN map : segs[seg].chunk = map[seg].content_hash

Undisturbed(map, br, tn, c) ==
    /\ ~Deleting(c) => br = {}
    /\ Deleting(c) => br = {c.id}
    /\ ~Deregistering(c) => tn = {}
    /\ Deleting(c) /\ ~Deregistering(c) =>
        \A i \in DOMAIN c.todo : c.todo[i] \in DOMAIN map
    /\ Deregistering(c) =>
        /\ tn = {Head(c.todo)} /\ Head(c.todo) \notin DOMAIN map
        /\ \A i \in DOMAIN c.todo : i # 1 => c.todo[i] \in DOMAIN map

IndInv ==
    /\ Typed
    /\ Bounds(catalog, Len(data_of))
    /\ OnNvram => Unshared(catalog.capsules)
    /\ MapInv(metadata, catalog, broken, torn, data_of, call)
    /\ OnNvram => MapInv(metadata_file, catalog, broken, torn, data_of, call)
    /\ FileInv(catalog_file, catalog, broken, torn, Len(data_of))
    /\ CallInv(call, catalog, broken, data_of)
    /\ ~OnNvram => /\ Counted(metadata, catalog.capsules, broken, abandoned, call)
                   /\ Payloads(metadata, segments)
                   /\ Undisturbed(metadata, broken, torn, call)
                   /\ metadata_file = Empty

-----------------------------------------------------------------------------
(* The invariant implies the properties.                                   *)

(* A call is what its pc says.                                             *)
LEMMA CallKinds ==
    ASSUME NEW c, c \in Call \cup {Idle}
    PROVE  /\ Writing(c) => c \in WriteCall
           /\ Deleting(c) => c \in DeleteCall
           /\ Sweeping(c) => c \in SweepCall
<1>1. CASE c = Idle
    BY <1>1 DEF Writing, Deleting, Sweeping
<1>2. CASE c \in WriteCall
    BY <1>2 DEF Writing, Deleting, Sweeping, WriteCall
<1>3. CASE c \in DeleteCall
    BY <1>3 DEF Writing, Deleting, Sweeping, DeleteCall
<1>4. CASE c \in SweepCall
    BY <1>4 DEF Writing, Deleting, Sweeping, SweepCall
<1> QED  BY <1>1, <1>2, <1>3, <1>4 DEF Call

LEMMA CatalogFacts ==
    ASSUME NEW cat, cat \in Catalog
    PROVE  /\ cat.capsules \in PFun(Nat, Seq(Nat)) /\ cat.next_segment \in Nat
           /\ cat.content \in PFun(Chunks, Nat)
           /\ \A id \in DOMAIN cat.capsules : cat.capsules[id] \in Seq(Nat)
           /\ \A h \in DOMAIN cat.content : cat.content[h] \in Nat /\ h \in Chunks
           /\ DOMAIN cat.capsules \in SUBSET Nat
<1>1. /\ cat.capsules \in PFun(Nat, Seq(Nat)) /\ cat.next_segment \in Nat
      /\ cat.content \in PFun(Chunks, Nat)
    BY DEF Catalog
<1>2. DOMAIN cat.capsules \in SUBSET Nat /\ \A id \in DOMAIN cat.capsules : cat.capsules[id] \in Seq(Nat)
    BY <1>1, PFunFacts
<1>3. DOMAIN cat.content \in SUBSET Chunks /\ \A h \in DOMAIN cat.content : cat.content[h] \in Nat
    BY <1>1, PFunFacts
<1> QED  BY <1>1, <1>2, <1>3

LEMMA TypeOKHolds ==
    ASSUME IndInv
    PROVE  TypeOK
<1>1. Typed
    BY DEF IndInv
<1>2. Bounds(catalog, Len(data_of)) /\ Bounds(catalog_file, Len(data_of))
    BY DEF IndInv, FileInv
<1>3. 1 .. Len(data_of) \subseteq CapsuleIds
    BY <1>1, ModularAssumption DEF Typed, CapsuleIds
<1>4. ASSUME NEW cat \in {catalog, catalog_file}
      PROVE  /\ DOMAIN cat.capsules \subseteq CapsuleIds /\ cat.next_segment \in Nat
             /\ \A h \in DOMAIN cat.content : cat.content[h] < cat.next_segment
    <2>1. cat \in Catalog /\ Bounds(cat, Len(data_of))
        BY <1>1, <1>2 DEF Typed
    <2> QED  BY <1>3, <2>1 DEF Bounds, Catalog
<1>5. ASSUME NEW map \in {metadata, metadata_file}, NEW seg \in DOMAIN map
      PROVE  map[seg].ref_count \in Nat \ {0}
    <2>1. map \in PFun(Nat, Segment)
        BY <1>1 DEF Typed
    <2>2. map[seg].ref_count \in Nat
        <3>1. map[seg] \in Segment
            BY <2>1, PFunFacts
        <3> QED  BY <3>1 DEF Segment
    <2>3. CASE OnNvram
        BY <2>3, <2>2 DEF IndInv, MapInv, CountsOne
    <2>4. CASE ~OnNvram
        <3>1. CASE map = metadata
            BY <2>2, <2>4, <3>1 DEF IndInv, Counted
        <3>2. CASE map = metadata_file
            <4>1. metadata_file = Empty
                BY <2>4 DEF IndInv
            <4> QED  BY <3>2, <4>1, EmptyFacts
        <3> QED  BY <3>1, <3>2
    <2> QED  BY <2>3, <2>4
<1> QED  BY <1>1, <1>3, <1>4, <1>5 DEF Typed, TypeOK, Call

(* The segments of an untouched capsule are described as the chunks of its *)
(* plan, which FlattenPlan puts together, and in memory hold them.         *)
LEMMA DescribedAndRead ==
    ASSUME IndInv
    PROVE  SegmentsDescribed /\ ReadBack
<1>1. Typed /\ Whole(catalog.capsules, metadata, broken, data_of)
    BY DEF IndInv, MapInv
<1>2. ASSUME NEW id \in DOMAIN catalog.capsules \ broken, NEW segs, segs = catalog.capsules[id]
      PROVE  /\ ToSet(segs) \subseteq DOMAIN metadata
             /\ FlattenSeq([i \in DOMAIN segs |-> metadata[segs[i]].content_hash])
                    = data_of[id].data
             /\ ~OnNvram => FlattenSeq([i \in DOMAIN segs |-> ReadCapsule(id)[i].chunk])
                    = data_of[id].data
    <2> DEFINE data == data_of[id].data
               plan == BuildPlan(data)
               chunks == [i \in 1 .. Len(plan) |-> ChunkOf(data, plan[i])]
    <2>1. id \in 1 .. Len(data_of) /\ data_of \in Seq([data : Chunks, enc : BOOLEAN])
        BY <1>1, <1>2 DEF IndInv, Bounds, Typed
    <2>2. data \in Seq(Units)
        <3>1. data_of[id] \in [data : Chunks, enc : BOOLEAN]
            BY <2>1, ElementOfSeq, Zenon
        <3> QED  BY <3>1 DEF Chunks
    <2>3. FlattenSeq(chunks) = data
        <3> HIDE DEF data
        <3>1. plan = BuildPlan(data) /\ chunks = [i \in 1 .. Len(plan) |-> ChunkOf(data, plan[i])]
            OBVIOUS
        <3> HIDE DEF plan, chunks
        <3> QED  BY <2>2, <3>1, FlattenPlan
    <2>4. segs \in Seq(Nat)
        <3>1. catalog \in Catalog
            BY <1>1 DEF Typed
        <3> QED  BY <3>1, <1>2, CatalogFacts
    <2>5. Len(segs) = Len(plan) /\ Holds(metadata, segs, data)
        BY <1>1, <1>2 DEF Whole
    <2>6. DOMAIN segs = 1 .. Len(plan)
        BY <2>4, <2>5
    <2>7. \A i \in DOMAIN segs : Stored(metadata, segs[i], ChunkOf(data, plan[i]))
        BY <2>5 DEF Holds
    <2> HIDE DEF data, plan
    <2>8. \A i \in DOMAIN segs :
            segs[i] \in DOMAIN metadata /\ metadata[segs[i]].content_hash = ChunkOf(data, plan[i])
        BY <2>7 DEF Stored
    <2>9. [i \in DOMAIN segs |-> metadata[segs[i]].content_hash] = chunks
        BY <2>6, <2>8
    <2>10. ToSet(segs) \subseteq DOMAIN metadata
        BY <2>8 DEF ToSet
    <2>11. ASSUME ~OnNvram
           PROVE  [i \in DOMAIN segs |-> ReadCapsule(id)[i].chunk] = chunks
        <3>1. \A seg \in DOMAIN metadata : segments[seg].chunk = metadata[seg].content_hash
            BY <2>11 DEF IndInv, Payloads
        <3>2. ASSUME NEW i \in DOMAIN segs
              PROVE  ReadCapsule(id)[i].chunk = ChunkOf(data, plan[i])
            <4>1. ReadCapsule(id)[i] = segments[segs[i]]
                BY <1>2 DEF ReadCapsule
            <4> QED  BY <4>1, <3>1, <2>8
        <3> QED  BY <2>6, <3>2
    <2> HIDE DEF chunks
    <2> QED  BY <2>3, <2>9, <2>10, <2>11 DEF data
<1>3. SegmentsDescribed
    BY <1>2 DEF SegmentsDescribed
<1>4. ASSUME ~OnNvram PROVE DOMAIN segments = DOMAIN metadata
    BY <1>4 DEF IndInv, Payloads
<1>5. ReadBack
    BY <1>2, <1>4 DEF ReadBack
<1> QED  BY <1>3, <1>5

(* ContentLive is a part of MapInv.                                        *)
LEMMA ContentLiveHolds ==
    ASSUME IndInv
    PROVE  ContentLive
BY DEF IndInv, MapInv, ContentIn, Stored, ContentLive

-----------------------------------------------------------------------------
(* Counting the capsules that list a segment.                              *)

LEMMA HeldIsHeldBy ==
    ASSUME NEW seg, NEW ids
    PROVE  HeldBy(seg, ids) = Held(catalog.capsules, ids, seg)
<1>1. UnionOver([id \in ids |-> Labelled(id, catalog.capsules[id], seg)], ids)
        = UNION {Labelled(id, catalog.capsules[id], seg) : id \in ids}
    BY DEF UnionOver
<1>2. UNION {Labelled(id, catalog.capsules[id], seg) : id \in ids} = Listings(seg, ids)
    BY DEF Labelled, Listings
<1> QED  BY <1>1, <1>2 DEF HeldBy, Held

(* Capsules caps, n of them at most, each a sequence of segments.          *)
Capsules(caps, n) ==
    /\ n \in Nat /\ DOMAIN caps \in SUBSET (1 .. n)
    /\ \A id \in DOMAIN caps : caps[id] \in Seq(Nat)

LEMMA HeldSplits ==
    ASSUME NEW caps, NEW n, Capsules(caps, n), NEW ids, ids \in SUBSET DOMAIN caps,
           NEW t, t \in ids, NEW seg
    PROVE  /\ Held(caps, ids, seg) = Held(caps, ids \ {t}, seg) + Times(caps[t], seg)
           /\ Held(caps, ids \ {t}, seg) \in Nat /\ Times(caps[t], seg) \in Nat
<1> DEFINE F == [id \in ids |-> Labelled(id, caps[id], seg)]
           G == [id \in ids \ {t} |-> Labelled(id, caps[id], seg)]
<1>1. IsFiniteSet(ids)
    <2>1. IsFiniteSet(1 .. n)
        BY FS_Interval DEF Capsules
    <2> QED  BY <2>1, FS_Subset DEF Capsules
<1>2. ASSUME NEW id \in ids
      PROVE  /\ IsFiniteSet(Labelled(id, caps[id], seg))
             /\ \A p \in Labelled(id, caps[id], seg) : p[1] = id
             /\ Cardinality(Labelled(id, caps[id], seg)) = Times(caps[id], seg)
    <2> DEFINE s == caps[id]
    <2>1. s \in Seq(Nat)
        BY DEF Capsules
    <2>2. Len(s) \in Nat /\ DOMAIN s = 1 .. Len(s)
        BY <2>1
    <2> HIDE DEF s
    <2>3. IsFiniteSet(Labelled(id, s, seg)) /\ (\A p \in Labelled(id, s, seg) : p[1] = id)
            /\ Cardinality(Labelled(id, s, seg)) = Times(s, seg)
        BY <2>2, LabelledSize
    <2> QED  BY <2>3 DEF s
<1>3. \A d \in ids : IsFiniteSet(F[d]) /\ \A p \in F[d] : p[1] = d
    BY <1>2
<1>4. F[t] = Labelled(t, caps[t], seg)
    OBVIOUS
<1>5. UnionOver(G, ids \ {t}) = UnionOver(F, ids \ {t})
    BY DEF UnionOver
<1>6. /\ Held(caps, ids, seg) = Cardinality(UnionOver(F, ids))
      /\ Held(caps, ids \ {t}, seg) = Cardinality(UnionOver(G, ids \ {t}))
    BY DEF Held
<1> HIDE DEF F, G
<1>7. /\ Cardinality(UnionOver(F, ids))
            = Cardinality(UnionOver(F, ids \ {t})) + Cardinality(F[t])
      /\ Cardinality(UnionOver(F, ids \ {t})) \in Nat /\ Cardinality(F[t]) \in Nat
    BY <1>1, <1>3, LabelledUnion
<1>8. Cardinality(F[t]) = Times(caps[t], seg)
    BY <1>2, <1>4
<1> QED  BY <1>5, <1>6, <1>7, <1>8

(* The same capsules, and those of them, hold the same.                    *)
LEMMA HeldSame ==
    ASSUME NEW caps, NEW new, NEW ids, \A id \in ids : new[id] = caps[id], NEW seg
    PROVE  Held(new, ids, seg) = Held(caps, ids, seg)
<1>1. [id \in ids |-> Labelled(id, caps[id], seg)] = [id \in ids |-> Labelled(id, new[id], seg)]
    OBVIOUS
<1> QED  BY <1>1 DEF Held

LEMMA HeldNat ==
    ASSUME NEW caps, NEW n, Capsules(caps, n), NEW ids, ids \in SUBSET DOMAIN caps, NEW seg
    PROVE  /\ Held(caps, ids, seg) \in Nat
           /\ Held(caps, ids, seg) # 0 => \E id \in ids : \E i \in DOMAIN caps[id] : caps[id][i] = seg
<1> DEFINE U == UnionOver([id \in ids |-> Labelled(id, caps[id], seg)], ids)
<1>1. CASE ids = {}
    <2>1. U = {}
        BY <1>1 DEF UnionOver
    <2>2. Cardinality(U) = 0
        BY <2>1, FS_EmptySet
    <2> QED  BY <2>2 DEF Held
<1>2. CASE ids # {}
    <2>1. PICK t \in ids : TRUE
        BY <1>2
    <2>2. /\ Held(caps, ids, seg) = Held(caps, ids \ {t}, seg) + Times(caps[t], seg)
          /\ Held(caps, ids \ {t}, seg) \in Nat /\ Times(caps[t], seg) \in Nat
        BY HeldSplits
    <2>3. ASSUME Held(caps, ids, seg) # 0
          PROVE  \E id \in ids : \E i \in DOMAIN caps[id] : caps[id][i] = seg
        <3>1. U # {}
            <4>1. SUFFICES ASSUME U = {} PROVE FALSE
                OBVIOUS
            <4>2. Cardinality(U) = 0
                BY <4>1, FS_EmptySet
            <4> QED  BY <4>2, <2>3 DEF Held
        <3>2. PICK p \in U : TRUE
            BY <3>1
        <3>3. PICK id \in ids : p \in Labelled(id, caps[id], seg)
            BY <3>2 DEF UnionOver
        <3> QED  BY <3>3 DEF Labelled
    <2> QED  BY <2>2, <2>3
<1> QED  BY <1>1, <1>2

LEMMA HeldOnce ==
    ASSUME NEW caps, Unshared(caps), NEW ids, ids \in SUBSET DOMAIN caps, NEW seg
    PROVE  Held(caps, ids, seg) \in {0, 1}
<1> DEFINE U == UnionOver([id \in ids |-> Labelled(id, caps[id], seg)], ids)
<1>1. ASSUME NEW p \in U
      PROVE  \E id \in ids : \E i \in DOMAIN caps[id] : p = <<id, i>> /\ caps[id][i] = seg
    <2>1. PICK id \in ids : p \in Labelled(id, caps[id], seg)
        BY DEF UnionOver
    <2> QED  BY <2>1 DEF Labelled
<1>2. \A p, q \in U : p = q
    <2>1. SUFFICES ASSUME NEW p \in U, NEW q \in U PROVE p = q
        OBVIOUS
    <2>2. PICK c \in ids : \E i \in DOMAIN caps[c] : p = <<c, i>> /\ caps[c][i] = seg
        BY <1>1
    <2>3. PICK i \in DOMAIN caps[c] : p = <<c, i>> /\ caps[c][i] = seg
        BY <2>2
    <2>4. PICK d \in ids : \E j \in DOMAIN caps[d] : q = <<d, j>> /\ caps[d][j] = seg
        BY <1>1
    <2>5. PICK j \in DOMAIN caps[d] : q = <<d, j>> /\ caps[d][j] = seg
        BY <2>4
    <2>6. c = d /\ i = j
        BY <2>3, <2>5 DEF Unshared
    <2> QED  BY <2>3, <2>5, <2>6
<1> HIDE DEF U
<1>3. U = {} \/ \E p \in U : U = {p}
    BY <1>2
<1>4. Cardinality(U) \in {0, 1}
    BY <1>3, FS_EmptySet, FS_Singleton
<1> QED  BY <1>4 DEF Held, U

LEMMA CountTyped ==
    ASSUME NEW map, map \in PFun(Nat, Segment), NEW seg, seg \in DOMAIN map
    PROVE  map[seg].ref_count \in Nat
<1>1. map[seg] \in Segment
    BY PFunFacts
<1> QED  BY <1>1 DEF Segment

LEMMA CapsulesTyped ==
    ASSUME NEW cat, cat \in Catalog, NEW n, n \in Nat, Bounds(cat, n)
    PROVE  Capsules(cat.capsules, n)
<1>1. \A id \in DOMAIN cat.capsules : cat.capsules[id] \in Seq(Nat)
    BY CatalogFacts
<1>2. DOMAIN cat.capsules \in SUBSET (1 .. n)
    BY DEF Bounds
<1> QED  BY <1>1, <1>2 DEF Capsules

LEMMA ClaimedNat ==
    ASSUME NEW c, c \in Call \cup {Idle}
    PROVE  Claims(c) \in Seq(Nat)
<1>1. CASE Writing(c)
    <2>1. c \in WriteCall
        BY <1>1, CallKinds
    <2>2. c.segs \in Seq(Nat) /\ c.seg \in Nat
        BY <2>1 DEF WriteCall
    <2>3. Append(c.segs, c.seg) \in Seq(Nat)
        BY <2>2
    <2> QED  BY <1>1, <2>2, <2>3 DEF Claims
<1>2. CASE ~Writing(c) /\ Deleting(c)
    <2>1. c \in DeleteCall
        BY <1>2, CallKinds
    <2>2. c.todo \in Seq(Nat)
        BY <2>1 DEF DeleteCall
    <2> QED  BY <1>2, <2>2 DEF Claims
<1>3. CASE ~Writing(c) /\ ~Deleting(c)
    BY <1>3 DEF Claims
<1> QED  BY <1>1, <1>2, <1>3

LEMMA TimesNat ==
    ASSUME NEW s, s \in Seq(Nat), NEW x
    PROVE  Times(s, x) \in Nat
<1>1. Len(s) \in Nat /\ DOMAIN s = 1 .. Len(s)
    OBVIOUS
<1> QED  BY <1>1, LabelledSize

(* RefCountCovers: on NVRAM no segment is listed twice, in memory the      *)
(* counts are exact.                                                       *)
LEMMA RefCountCoversHolds ==
    ASSUME IndInv
    PROVE  RefCountCovers
<1> DEFINE ids == DOMAIN catalog.capsules \ broken
<1>1. Typed /\ catalog \in Catalog /\ Len(data_of) \in Nat /\ Bounds(catalog, Len(data_of))
    BY DEF IndInv, Typed
<1>2. Capsules(catalog.capsules, Len(data_of))
    BY <1>1, CapsulesTyped
<1>3. ASSUME NEW seg \in DOMAIN metadata
      PROVE  /\ metadata[seg].ref_count >= HeldBy(seg, ids)
             /\ call = Idle /\ ~OnNvram /\ seg \notin abandoned =>
                    metadata[seg].ref_count = HeldBy(seg, ids)
    <2>1. HeldBy(seg, ids) = Held(catalog.capsules, ids, seg)
        BY HeldIsHeldBy
    <2>2. CASE OnNvram
        <3>1. metadata[seg].ref_count = 1
            BY <2>2 DEF IndInv, MapInv, CountsOne
        <3>2. Unshared(catalog.capsules) /\ ids \in SUBSET DOMAIN catalog.capsules
            BY <2>2 DEF IndInv
        <3> HIDE DEF ids
        <3>3. Held(catalog.capsules, ids, seg) \in {0, 1}
            BY <3>2, HeldOnce
        <3> QED  BY <2>1, <2>2, <3>1, <3>3
    <2>3. CASE ~OnNvram
        <3>1. /\ metadata[seg].ref_count >= Held(catalog.capsules, ids, seg) + Times(Claims(call), seg)
              /\ seg \notin abandoned => metadata[seg].ref_count
                                        = Held(catalog.capsules, ids, seg) + Times(Claims(call), seg)
              /\ metadata[seg].ref_count \in Nat
            BY <1>1, <2>3, CountTyped DEF IndInv, Counted, Typed
        <3>2. ids \in SUBSET DOMAIN catalog.capsules
            OBVIOUS
        <3> HIDE DEF ids
        <3>3. Held(catalog.capsules, ids, seg) \in Nat
            BY <1>2, <3>2, HeldNat
        <3>4. Claims(call) \in Seq(Nat)
            BY <1>1, ClaimedNat DEF Typed
        <3>5. Times(Claims(call), seg) \in Nat
            BY <3>4, TimesNat
        <3>6. ASSUME call = Idle PROVE Times(Claims(call), seg) = 0
            <4>1. Claims(call) = << >>
                BY <3>6 DEF Claims, Writing, Deleting
            <4> QED  BY <4>1, TimesEmpty
        <3> QED  BY <2>1, <3>1, <3>3, <3>5, <3>6
    <2> QED  BY <2>2, <2>3
<1> QED  BY <1>3 DEF RefCountCovers

-----------------------------------------------------------------------------
(* Lemmas about the parts of the invariant.                                *)

(* The parts of the invariant after a step.                                *)
Memory(map, cat, segs, br, ab, tn, c) ==
    /\ Counted(map, cat.capsules, br, ab, c)
    /\ Payloads(map, segs)
    /\ Undisturbed(map, br, tn, c)

LEMMA Assemble ==
    ASSUME setup' = setup, Typed',
           Bounds(catalog', Len(data_of')),
           OnNvram => Unshared(catalog'.capsules),
           MapInv(metadata', catalog', broken', torn', data_of', call'),
           OnNvram => MapInv(metadata_file', catalog', broken', torn', data_of', call'),
           FileInv(catalog_file', catalog', broken', torn', Len(data_of')),
           CallInv(call', catalog', broken', data_of'),
           ~OnNvram => Memory(metadata', catalog', segments', broken', abandoned', torn', call'),
           ~OnNvram => metadata_file' = Empty
    PROVE  IndInv'
BY DEF IndInv, OnNvram, MapInv, FileInv, CallInv, WriteInv, SweepInv, Memory

LEMMA StartHolds ==
    ASSUME Init
    PROVE  IndInv
<1>1. /\ setup \in Setups /\ encryptor \in Encryptors
      /\ catalog = EmptyCatalog /\ catalog_file = EmptyCatalog
      /\ metadata = Empty /\ metadata_file = Empty /\ segments = Empty
      /\ call = Idle /\ data_of = << >> /\ broken = {} /\ abandoned = {} /\ torn = {}
      /\ fails = MaxFails /\ crashes = MaxCrashes
    BY DEF Init
<1>2. DOMAIN Empty = {} /\ \A X, Y : Empty \in PFun(X, Y)
    BY EmptyFacts
<1>3. EmptyCatalog \in Catalog
    <2>1. Empty \in PFun(Nat, Seq(Nat)) /\ Empty \in PFun(Chunks, Nat)
        BY <1>2
    <2> QED  BY <2>1 DEF EmptyCatalog, Catalog
<1>4. /\ EmptyCatalog.capsules = Empty /\ EmptyCatalog.content = Empty
      /\ EmptyCatalog.next_segment = 0
    BY DEF EmptyCatalog
<1>5. Typed
    <2>1. Len(data_of) = 0 /\ data_of \in Seq([data : Chunks, enc : BOOLEAN])
        BY <1>1
    <2>2. metadata \in PFun(Nat, Segment) /\ metadata_file \in PFun(Nat, Segment)
            /\ segments \in PFun(Nat, Payload)
        BY <1>1, <1>2
    <2> QED  BY <1>1, <1>3, <2>1, <2>2, ModularAssumption DEF Typed
<1>6. ~Writing(call) /\ ~Registering(call) /\ ~Deleting(call) /\ ~Deregistering(call)
        /\ ~Sweeping(call)
    BY <1>1 DEF Writing, Registering, Deleting, Deregistering, Sweeping
<1>7. Bounds(EmptyCatalog, Len(data_of)) /\ Unshared(EmptyCatalog.capsules)
    BY <1>2, <1>4 DEF Bounds, Unshared
<1>8. MapInv(metadata, catalog, broken, torn, data_of, call)
    BY <1>1, <1>2, <1>4, <1>6 DEF MapInv, Whole, ContentIn, CountsOne
<1>9. FileInv(catalog_file, catalog, broken, torn, Len(data_of))
    BY <1>1, <1>2, <1>4, <1>7 DEF FileInv
<1>10. CallInv(call, catalog, broken, data_of)
    BY <1>6 DEF CallInv
<1>11. Counted(metadata, catalog.capsules, broken, abandoned, call) /\ Payloads(metadata, segments)
    BY <1>1, <1>2 DEF Counted, Payloads
<1>12. Undisturbed(metadata, broken, torn, call)
    BY <1>1, <1>6 DEF Undisturbed
<1> QED  BY <1>1, <1>5, <1>7, <1>8, <1>9, <1>10, <1>11, <1>12 DEF IndInv

(* A change of the map keeps what it keeps of the segments in question.    *)
SameAt(map, new, seg) ==
    seg \in DOMAIN map => seg \in DOMAIN new /\ new[seg].content_hash = map[seg].content_hash

LEMMA HoldsKept ==
    ASSUME NEW map, NEW new, NEW segs, NEW data, Holds(map, segs, data),
           \A i \in DOMAIN segs : SameAt(map, new, segs[i])
    PROVE  Holds(new, segs, data)
BY DEF Holds, Stored, SameAt

LEMMA WholeKept ==
    ASSUME NEW caps, NEW map, NEW new, NEW br, NEW d, Whole(caps, map, br, d),
           \A id \in DOMAIN caps \ br : \A i \in DOMAIN caps[id] : SameAt(map, new, caps[id][i])
    PROVE  Whole(caps, new, br, d)
<1>1. ASSUME NEW id \in DOMAIN caps \ br
      PROVE  Len(caps[id]) = Len(BuildPlan(d[id].data)) /\ Holds(new, caps[id], d[id].data)
    <2>1. Len(caps[id]) = Len(BuildPlan(d[id].data)) /\ Holds(map, caps[id], d[id].data)
        BY DEF Whole
    <2> QED  BY <2>1, HoldsKept
<1> QED  BY <1>1 DEF Whole

LEMMA ContentKept ==
    ASSUME NEW cont, NEW map, NEW new, NEW tn, ContentIn(cont, map, tn),
           \A h \in DOMAIN cont : cont[h] \notin tn => SameAt(map, new, cont[h])
    PROVE  ContentIn(cont, new, tn)
BY DEF ContentIn, Stored, SameAt

(* Nothing depends on a call that is over.                                 *)
LEMMA MapInvIdle ==
    ASSUME NEW map, NEW cat, NEW br, NEW tn, NEW d, NEW c, MapInv(map, cat, br, tn, d, c)
    PROVE  MapInv(map, cat, br, tn, d, Idle)
BY DEF MapInv, Writing, Registering, Deregistering

LEMMA CallInvIdle ==
    ASSUME NEW cat, NEW br, NEW d
    PROVE  CallInv(Idle, cat, br, d)
BY DEF CallInv, Writing, Deleting, Sweeping

(* The catalog is saved, or its save fails, or it has no file.             *)
CatalogSaved(file, new, cat) ==
    new = file \/ new = (IF setup = "registry" THEN cat ELSE EmptyCatalog)

LEMMA FileInvSaved ==
    ASSUME NEW file, NEW new, NEW cat, NEW br, NEW tn, NEW n, n \in Nat,
           file \in Catalog, cat \in Catalog, Bounds(cat, n),
           OnNvram => Unshared(cat.capsules),
           FileInv(file, cat, br, tn, n), CatalogSaved(file, new, cat)
    PROVE  FileInv(new, cat, br, tn, n) /\ new \in Catalog
<1>1. CASE new = file
    BY <1>1
<1>2. CASE setup = "registry" /\ new = cat
    BY <1>2 DEF FileInv, Catalog
<1>3. CASE setup # "registry" /\ new = EmptyCatalog
    <2>1. file = EmptyCatalog
        BY <1>3 DEF FileInv
    <2> QED  BY <2>1, <1>3
<1> QED  BY <1>1, <1>2, <1>3 DEF CatalogSaved

(* The parts of the invariant before a step.                               *)
LEMMA Parts ==
    ASSUME IndInv
    PROVE  /\ Typed /\ catalog \in Catalog /\ catalog_file \in Catalog
           /\ Len(data_of) \in Nat /\ data_of \in Seq([data : Chunks, enc : BOOLEAN])
           /\ Bounds(catalog, Len(data_of))
           /\ Capsules(catalog.capsules, Len(data_of))
           /\ MapInv(metadata, catalog, broken, torn, data_of, call)
           /\ OnNvram => MapInv(metadata_file, catalog, broken, torn, data_of, call)
           /\ FileInv(catalog_file, catalog, broken, torn, Len(data_of))
           /\ CallInv(call, catalog, broken, data_of)
           /\ ~OnNvram => Memory(metadata, catalog, segments, broken, abandoned, torn, call)
           /\ ~OnNvram => metadata_file = Empty
           /\ OnNvram => Unshared(catalog.capsules)
<1>1. Typed /\ catalog \in Catalog /\ catalog_file \in Catalog
    BY DEF IndInv, Typed
<1>2. Len(data_of) \in Nat /\ data_of \in Seq([data : Chunks, enc : BOOLEAN])
    BY <1>1 DEF Typed
<1>3. Bounds(catalog, Len(data_of))
    BY DEF IndInv
<1>4. Capsules(catalog.capsules, Len(data_of))
    BY <1>1, <1>2, <1>3, CapsulesTyped
<1> QED  BY <1>1, <1>2, <1>3, <1>4 DEF IndInv, Memory

-----------------------------------------------------------------------------
(* write_capsule                                                           *)

LEMMA WriteCapsuleStep ==
    ASSUME IndInv, NEW data \in Datas, NEW enc \in BOOLEAN, WriteCapsule(data, enc)
    PROVE  IndInv'
<1> DEFINE n == Len(data_of)
           plan == BuildPlan(data)
           w == [data |-> data, enc |-> enc]
<1>1. /\ Typed /\ catalog \in Catalog /\ n \in Nat
      /\ data_of \in Seq([data : Chunks, enc : BOOLEAN]) /\ Bounds(catalog, n)
      /\ FileInv(catalog_file, catalog, broken, torn, n)
    BY Parts
<1>2. /\ call = Idle /\ n < MaxCapsules /\ data_of' = Append(data_of, w)
      /\ call' = [pc |-> "chunk", id |-> n + 1, enc |-> enc, data |-> data,
                  todo |-> plan, segs |-> << >>, seg |-> 0]
    BY DEF WriteCapsule
<1>3. /\ catalog' = catalog /\ catalog_file' = catalog_file /\ metadata' = metadata
      /\ metadata_file' = metadata_file /\ segments' = segments /\ setup' = setup
      /\ abandoned' = abandoned /\ encryptor' = encryptor /\ crashes' = crashes /\ broken' = broken /\ torn' = torn
      /\ fails' = fails
    BY DEF WriteCapsule, UnchangedCatalog, UnchangedStorage, UnchangedSetup
<1>4. data \in Seq(Units)
    BY ModularAssumption DEF Datas
<1>5. plan \in Seq(Zone) /\ Len(plan) \in Nat
    <2>1. plan = BuildPlan(data)
        OBVIOUS
    <2> HIDE DEF plan
    <2> QED  BY <1>4, <2>1, PlanCovers
<1>6. /\ data_of' \in Seq([data : Chunks, enc : BOOLEAN]) /\ Len(data_of') = n + 1
      /\ data_of'[n + 1] = w /\ \A i \in 1 .. n : data_of'[i] = data_of[i]
    <2>1. w \in [data : Chunks, enc : BOOLEAN]
        BY <1>4 DEF Chunks
    <2> HIDE DEF w, n
    <2> QED  BY <1>1, <1>2, <2>1, AppendProperties DEF n
<1> HIDE DEF n, plan
<1>7. call' \in WriteCall
    BY <1>1, <1>2, <1>4, <1>5 DEF WriteCall
<1>8. call' # Idle /\ call' \in Call
    BY <1>7, ModularAssumption DEF Call
<1>9. /\ call'.pc = "chunk" /\ call'.id = n + 1 /\ call'.data = data /\ call'.todo = plan
      /\ call'.segs = << >>
    BY <1>2
<1>10. /\ Writing(call') /\ ~Registering(call') /\ ~Deleting(call') /\ ~Deregistering(call')
       /\ ~Sweeping(call')
    BY <1>8, <1>9 DEF Writing, Registering, Deleting, Deregistering, Sweeping
<1>11. Typed'
    <2>1. Len(data_of') <= MaxCapsules
        BY <1>1, <1>2, <1>6, ModularAssumption DEF n
    <2>2. broken' \in SUBSET (1 .. Len(data_of'))
        BY <1>1, <1>3, <1>6 DEF Typed, n
    <2> QED  BY <1>1, <1>3, <1>6, <1>8, <2>1, <2>2 DEF Typed
<1>12. Bounds(catalog', Len(data_of')) /\ Bounds(catalog_file', Len(data_of'))
    <2>1. Bounds(catalog_file, n)
        BY <1>1 DEF FileInv
    <2> QED  BY <1>1, <1>3, <1>6, <2>1 DEF Bounds
<1>13. ASSUME NEW map, MapInv(map, catalog, broken, torn, data_of, call)
       PROVE  MapInv(map, catalog, broken, torn, data_of', call')
    <2>1. Whole(catalog.capsules, map, broken, data_of')
        <3>1. \A id \in DOMAIN catalog.capsules : data_of'[id] = data_of[id]
            BY <1>1, <1>6 DEF Bounds
        <3> QED  BY <1>13, <3>1 DEF MapInv, Whole
    <2>2. Holds(map, << >>, data)
        <3>1. Len(<< >>) <= Len(BuildPlan(data)) /\ DOMAIN << >> = {}
            BY <1>5 DEF plan
        <3> QED  BY <3>1 DEF Holds
    <2> QED  BY <1>9, <1>10, <1>13, <2>1, <2>2 DEF MapInv
<1>14. CallInv(call', catalog, broken, data_of')
    <2>1. Progress(call')
        <3>1. Len(<< >>) = 0 /\ \A i \in DOMAIN plan : 0 + i = i
            BY <1>5
        <3> QED  BY <1>5, <1>9, <3>1 DEF Progress, plan
    <2>2. n + 1 \notin DOMAIN catalog.capsules /\ n + 1 \notin broken
        BY <1>1 DEF Bounds, Typed, n
    <2>3. n + 1 = Len(data_of') /\ n + 1 # 0 /\ data = data_of'[n + 1].data
        BY <1>1, <1>6
    <2>4. Own(call', catalog)
        BY <1>9 DEF Own
    <2> QED  BY <1>9, <1>10, <2>1, <2>2, <2>3, <2>4 DEF CallInv, WriteInv
<1>15. ASSUME ~OnNvram
       PROVE  Memory(metadata, catalog, segments, broken, abandoned, torn, call')
    <2>1. Memory(metadata, catalog, segments, broken, abandoned, torn, call)
        BY <1>15, Parts
    <2>2. ~Writing(call) /\ ~Deleting(call) /\ ~Deregistering(call)
        BY <1>2 DEF Writing, Deleting, Deregistering
    <2>3. Claims(call') = Claims(call)
        BY <1>9, <1>10, <2>2 DEF Claims
    <2> QED  BY <1>10, <2>1, <2>2, <2>3 DEF Memory, Counted, Undisturbed
<1>16. FileInv(catalog_file, catalog, broken, torn, Len(data_of'))
    BY <1>1, <1>3, <1>12 DEF FileInv
<1> QED  BY <1>3, <1>11, <1>12, <1>13, <1>14, <1>15, <1>16, Parts, Assemble

(* The next chunk of a write, and the call once that chunk is in seg.      *)
Ready(c) == c \in WriteCall /\ c.todo # << >> /\ Progress(c)

LEMMA ChunkTyped ==
    ASSUME NEW c, Ready(c)
    PROVE  /\ CurrentChunk(c) \in Chunks /\ Len(c.segs) + 1 <= Len(BuildPlan(c.data))
           /\ Len(c.segs) \in Nat /\ Len(BuildPlan(c.data)) \in Nat
           /\ CurrentChunk(c) = ChunkOf(c.data, BuildPlan(c.data)[Len(c.segs) + 1])
<1> DEFINE plan == BuildPlan(c.data)
           n == Len(c.segs)
           m == Len(c.todo)
<1>1. c.data \in Seq(Units) /\ c.segs \in Seq(Nat) /\ c.todo \in Seq(Zone) /\ c \in WriteCall
    BY DEF WriteCall, Ready
<1>2. plan \in Seq(Zone) /\ Len(plan) \in Nat /\ ZonesCover(plan, Len(c.data))
    <2> DEFINE dt == c.data
    <2>1. dt \in Seq(Units) /\ plan = BuildPlan(dt) /\ dt = c.data
        BY <1>1
    <2> HIDE DEF plan, dt
    <2> QED  BY <2>1, PlanCovers
<1>3. n \in Nat /\ m \in Nat /\ m # 0 /\ DOMAIN c.todo = 1 .. m /\ Head(c.todo) = c.todo[1]
    BY <1>1 DEF Ready
<1>4. n + m = Len(plan) /\ \A i \in DOMAIN c.todo : c.todo[i] = plan[n + i]
    BY DEF Progress, Ready
<1> HIDE DEF plan, n, m
<1>5. Head(c.todo) = plan[n + 1] /\ n + 1 <= Len(plan)
    <2>1. 1 \in DOMAIN c.todo
        BY <1>3
    <2>2. c.todo[1] = plan[n + 1]
        BY <1>4, <2>1
    <2> QED  BY <1>2, <1>3, <1>4, <2>2
<1>6. plan[n + 1] \in Zone
    BY <1>2, <1>3, <1>5
<1>7. ChunkOf(c.data, plan[n + 1]) \in Seq(Units)
    <2>1. plan[n + 1].offset \in Nat /\ plan[n + 1].length \in Nat
        BY <1>6 DEF Zone
    <2> DEFINE a == plan[n + 1].offset + 1
               b == plan[n + 1].offset + plan[n + 1].length
               z == Len(c.data)
    <2>2. a \in 1 .. z + 1 /\ b \in 0 .. z
        <3>1. n + 1 \in 1 .. Len(plan)
            BY <1>2, <1>3, <1>5
        <3>2. plan[n + 1].length > 0 /\ plan[n + 1].offset + plan[n + 1].length <= Len(c.data)
            BY <1>2, <3>1 DEF ZonesCover
        <3>3. Len(c.data) \in Nat
            BY <1>1
        <3> QED  BY <3>2, <3>3, <2>1
    <2>3. ChunkOf(c.data, plan[n + 1]) = SubSeq(c.data, a, b)
        BY DEF ChunkOf
    <2> HIDE DEF a, b
    <2> QED  BY <1>1, <2>2, <2>3
<1> QED  BY <1>2, <1>3, <1>5, <1>7 DEF CurrentChunk, Chunks, plan, n

Advanced(c, new, seg) ==
    new = [c EXCEPT !.pc = "chunk", !.todo = Tail(c.todo), !.segs = Append(c.segs, seg)]

After(c, new, seg) ==
    /\ new \in WriteCall /\ new # Idle /\ new \in Call
    /\ new.id = c.id /\ new.data = c.data
    /\ Writing(new) /\ ~Registering(new) /\ ~Deleting(new) /\ ~Deregistering(new)
    /\ ~Sweeping(new)
    /\ Progress(new) /\ IsAppend(new.segs, c.segs, seg)
    /\ DOMAIN new.segs = 1 .. Len(c.segs) + 1 /\ DOMAIN c.segs = 1 .. Len(c.segs)
    /\ Len(c.segs) \in Nat /\ Len(new.segs) = Len(c.segs) + 1
    /\ new.segs[Len(c.segs) + 1] = seg
    /\ \A i \in 1 .. Len(c.segs) : new.segs[i] = c.segs[i]

LEMMA AdvanceFacts ==
    ASSUME NEW c, Ready(c), NEW seg, seg \in Nat,
           NEW new, Advanced(c, new, seg)
    PROVE  After(c, new, seg)
<1> DEFINE plan == BuildPlan(c.data)
           n == Len(c.segs)
           m == Len(c.todo)
<1>1. c.data \in Seq(Units) /\ c.segs \in Seq(Nat) /\ c.todo \in Seq(Zone) /\ c \in WriteCall
    BY DEF WriteCall, Ready
<1>2. n \in Nat /\ m \in Nat /\ m # 0 /\ DOMAIN c.todo = 1 .. m /\ DOMAIN c.segs = 1 .. n
      /\ c.todo # << >>
    BY <1>1 DEF Ready
<1>3. /\ Tail(c.todo) \in Seq(Zone) /\ Len(Tail(c.todo)) = m - 1
      /\ \A i \in 1 .. m - 1 : Tail(c.todo)[i] = c.todo[i + 1]
    BY <1>1, <1>2, HeadTailProperties
<1>4. /\ Append(c.segs, seg) \in Seq(Nat) /\ Len(Append(c.segs, seg)) = n + 1
      /\ Append(c.segs, seg)[n + 1] = seg /\ \A i \in 1 .. n : Append(c.segs, seg)[i] = c.segs[i]
    BY <1>1, AppendProperties
<1> DEFINE t == Tail(c.todo)
           s == Append(c.segs, seg)
<1>5. new = [c EXCEPT !.pc = "chunk", !.todo = t, !.segs = s]
    BY DEF Advanced
<1>6. s = Append(c.segs, seg)
    OBVIOUS
<1> HIDE DEF t, s
<1>7. new \in WriteCall
    BY <1>1, <1>3, <1>4, <1>5 DEF WriteCall, t, s
<1>8. /\ new.pc = "chunk" /\ new.todo = t /\ new.segs = s /\ new.id = c.id
      /\ new.data = c.data
    BY <1>1, <1>5 DEF WriteCall
<1>9. new # Idle /\ new \in Call
    BY <1>7, ModularAssumption DEF Call
<1>10. /\ Writing(new) /\ ~Registering(new) /\ ~Deleting(new) /\ ~Deregistering(new)
       /\ ~Sweeping(new)
    BY <1>8, <1>9 DEF Writing, Registering, Deleting, Deregistering, Sweeping
<1>11. DOMAIN s = 1 .. n + 1 /\ DOMAIN t = 1 .. m - 1
    <2>1. DOMAIN s = 1 .. Len(s) /\ DOMAIN t = 1 .. Len(t)
        BY <1>3, <1>4 DEF s, t
    <2> QED  BY <2>1, <1>3, <1>4 DEF s, t
<1>12. Progress(new)
    <2>1. n + m = Len(plan) /\ \A i \in DOMAIN c.todo : c.todo[i] = plan[n + i]
        BY DEF Progress, Ready
    <2> HIDE DEF plan, n, m
    <2>2. Len(s) + Len(t) = Len(plan)
        <3>1. Len(s) = n + 1 /\ Len(t) = m - 1
            BY <1>3, <1>4 DEF s, t
        <3> QED  BY <1>2, <2>1, <3>1
    <2>3. ASSUME NEW i \in DOMAIN t PROVE t[i] = plan[Len(s) + i]
        <3>1. i \in 1 .. m - 1 /\ i + 1 \in 1 .. m /\ n + (i + 1) = n + 1 + i
            BY <1>2, <1>11
        <3>2. t[i] = c.todo[i + 1]
            BY <1>3, <3>1 DEF t
        <3>3. c.todo[i + 1] = plan[n + (i + 1)]
            BY <1>2, <2>1, <3>1
        <3>4. Len(s) = n + 1
            BY <1>4 DEF s
        <3> QED  BY <3>1, <3>2, <3>3, <3>4
    <2> QED  BY <1>8, <2>2, <2>3 DEF Progress, plan
<1> QED  BY <1>2, <1>4, <1>6, <1>7, <1>8, <1>9, <1>10, <1>11, <1>12 DEF IsAppend, s, After

LEMMA AdvanceHolds ==
    ASSUME NEW c, Ready(c), NEW seg, seg \in Nat,
           NEW new, Advanced(c, new, seg), NEW map, Holds(map, c.segs, c.data),
           Stored(map, seg, CurrentChunk(c))
    PROVE  Holds(map, new.segs, new.data)
<1> DEFINE n == Len(c.segs)
<1>1. /\ new.data = c.data /\ DOMAIN new.segs = 1 .. n + 1 /\ DOMAIN c.segs = 1 .. n
      /\ n \in Nat /\ Len(new.segs) = n + 1 /\ new.segs[n + 1] = seg
      /\ \A i \in 1 .. n : new.segs[i] = c.segs[i]
    <2>1. After(c, new, seg)
        BY AdvanceFacts
    <2> QED  BY <2>1 DEF After
<1>2. /\ n + 1 <= Len(BuildPlan(c.data))
      /\ CurrentChunk(c) = ChunkOf(c.data, BuildPlan(c.data)[n + 1])
    BY ChunkTyped
<1> HIDE DEF n
<1>3. ASSUME NEW i \in DOMAIN new.segs
      PROVE  Stored(map, new.segs[i], ChunkOf(c.data, BuildPlan(c.data)[i]))
    <2>1. i \in 1 .. n \/ i = n + 1
        BY <1>1
    <2>2. CASE i \in 1 .. n
        BY <1>1, <2>2 DEF Holds
    <2>3. CASE i = n + 1
        BY <1>1, <1>2, <2>3
    <2> QED  BY <2>1, <2>2, <2>3
<1> QED  BY <1>1, <1>2, <1>3 DEF Holds

LEMMA MapInvKept ==
    ASSUME NEW map, NEW new, NEW cat, NEW br, NEW tn, NEW d, NEW c,
           MapInv(map, cat, br, tn, d, c), OnNvram => CountsOne(new),
           \A seg \in DOMAIN map : SameAt(map, new, seg)
    PROVE  MapInv(new, cat, br, tn, d, c)
<1>1. \A seg : SameAt(map, new, seg)
    BY DEF SameAt
<1>2. Whole(cat.capsules, new, br, d)
    BY <1>1, WholeKept DEF MapInv
<1>3. ContentIn(cat.content, new, tn)
    BY <1>1, ContentKept DEF MapInv
<1>4. Writing(c) => Holds(new, c.segs, c.data)
    BY <1>1, HoldsKept DEF MapInv
<1>5. Registering(c) => Stored(new, c.seg, CurrentChunk(c))
    BY <1>1 DEF MapInv, Stored, SameAt
<1> QED  BY <1>2, <1>3, <1>4, <1>5 DEF MapInv

LEMMA MapInvAdvance ==
    ASSUME NEW c, Ready(c), Writing(c), NEW seg, seg \in Nat, NEW new, Advanced(c, new, seg),
           NEW map, NEW cat, NEW br, NEW tn, NEW d, MapInv(map, cat, br, tn, d, c),
           Stored(map, seg, CurrentChunk(c))
    PROVE  MapInv(map, cat, br, tn, d, new)
<1>1. Holds(map, c.segs, c.data)
    BY DEF MapInv
<1>2. Holds(map, new.segs, new.data)
    BY <1>1, AdvanceHolds
<1>3. After(c, new, seg)
    BY AdvanceFacts
<1>4. ~Registering(new) /\ ~Deregistering(new)
    BY <1>3 DEF After
<1> QED  BY <1>2, <1>4 DEF MapInv

LEMMA WriteInvAdvance ==
    ASSUME NEW c, Ready(c), NEW seg, seg \in Nat, NEW new, Advanced(c, new, seg),
           NEW cat, NEW br, NEW d, WriteInv(c, cat, br, d), seg < cat.next_segment,
           OnNvram => ~Lists(cat.capsules, seg) /\ \A i \in DOMAIN c.segs : c.segs[i] # seg,
           NEW cat2, cat2.capsules = cat.capsules, cat2.next_segment = cat.next_segment
    PROVE  CallInv(new, cat2, br, d)
<1> DEFINE n == Len(c.segs)
<1>1. After(c, new, seg)
    BY AdvanceFacts
<1>2. /\ new.id = c.id /\ new.data = c.data /\ Progress(new) /\ ~Registering(new)
      /\ DOMAIN new.segs = 1 .. n + 1 /\ DOMAIN c.segs = 1 .. n /\ n \in Nat
      /\ new.segs[n + 1] = seg /\ \A i \in 1 .. n : new.segs[i] = c.segs[i]
      /\ ~Deleting(new) /\ ~Sweeping(new)
    BY <1>1 DEF After
<1> HIDE DEF n
<1>3. \A i \in DOMAIN new.segs : i \in DOMAIN c.segs \/ i = n + 1
    BY <1>2
<1>4. \A i \in DOMAIN new.segs : new.segs[i] < cat.next_segment
    BY <1>2, <1>3 DEF WriteInv
<1>5. ASSUME OnNvram PROVE Own(new, cat)
    <2>1. Own(c, cat)
        BY <1>5 DEF WriteInv
    <2>2. \A i \in DOMAIN new.segs : ~Lists(cat.capsules, new.segs[i])
        BY <1>2, <1>3, <1>5, <2>1 DEF Own
    <2>3. ASSUME NEW i \in DOMAIN new.segs, NEW j \in DOMAIN new.segs, new.segs[i] = new.segs[j]
          PROVE  i = j
        BY <1>2, <1>3, <1>5, <2>1, <2>3 DEF Own
    <2> QED  BY <2>2, <2>3 DEF Own
<1>6. OnNvram => Own(new, cat2)
    BY <1>5 DEF Own
<1>7. WriteInv(new, cat2, br, d)
    BY <1>2, <1>4, <1>6 DEF WriteInv
<1> QED  BY <1>2, <1>7 DEF CallInv

(* A segment whose count changes.                                          *)
Recounted(map, new, seg, k) == new = [map EXCEPT ![seg].ref_count = k]

LEMMA RecountFacts ==
    ASSUME NEW map, map \in PFun(Nat, Segment), NEW seg, seg \in DOMAIN map, NEW k, k \in Nat,
           NEW new, Recounted(map, new, seg, k)
    PROVE  /\ new \in PFun(Nat, Segment) /\ DOMAIN new = DOMAIN map
           /\ new[seg].ref_count = k /\ \A x \in DOMAIN map : x # seg => new[x] = map[x]
           /\ \A x \in DOMAIN map : new[x].content_hash = map[x].content_hash
<1>1. /\ DOMAIN map \in SUBSET Nat /\ \A x \in DOMAIN map : map[x] \in Segment
      /\ map = [x \in DOMAIN map |-> map[x]]
    BY PFunFacts
<1> DEFINE D == DOMAIN map
           r == [map[seg] EXCEPT !.ref_count = k]
<1>2. map[seg] \in Segment
    BY <1>1
<1>3. r \in Segment /\ r.ref_count = k /\ r.content_hash = map[seg].content_hash
    BY <1>2 DEF Segment
<1>4. new = [map EXCEPT ![seg] = r]
    BY DEF Recounted
<1> HIDE DEF r
<1>5. DOMAIN new = D /\ new[seg] = r /\ \A x \in D : x # seg => new[x] = map[x]
    BY <1>1, <1>4
<1>6. new \in [D -> Segment]
    BY <1>1, <1>3, <1>4
<1> HIDE DEF D
<1>7. new \in PFun(Nat, Segment)
    BY <1>1, <1>6, PFunMember DEF D
<1> QED  BY <1>3, <1>5, <1>7 DEF D

(* A call on NVRAM that returns with an error and has not changed the      *)
(* catalog.                                                                *)
LEMMA StopStep ==
    ASSUME IndInv, OnNvram, call' = Idle, metadata' = metadata,
           metadata_file' = metadata_file \/ metadata_file' = metadata,
           abandoned' \in SUBSET Nat,
           UNCHANGED <<setup, encryptor, crashes, catalog, catalog_file, segments, data_of,
                       broken, torn, fails>>
    PROVE  IndInv'
<1>1. /\ Typed /\ MapInv(metadata, catalog, broken, torn, data_of, call)
      /\ MapInv(metadata_file, catalog, broken, torn, data_of, call)
    BY Parts
<1>2. /\ MapInv(metadata, catalog, broken, torn, data_of, Idle)
      /\ MapInv(metadata_file, catalog, broken, torn, data_of, Idle)
    BY <1>1, MapInvIdle
<1>3. Typed'
    BY <1>1 DEF Typed
<1>4. CallInv(Idle, catalog, broken, data_of)
    BY CallInvIdle
<1> QED  BY <1>2, <1>3, <1>4, Parts, Assemble

LEMMA AbandonedTyped ==
    ASSUME Typed, call \in WriteCall, Abandon
    PROVE  abandoned' \in SUBSET Nat /\ call' = Idle
<1>1. call.segs \in Seq(Nat)
    BY DEF WriteCall
<1>2. ToSet(call.segs) \in SUBSET Nat
    BY <1>1 DEF ToSet
<1>3. abandoned' = abandoned \cup ToSet(call.segs) /\ call' = Idle
    BY DEF Abandon, Return
<1> QED  BY <1>2, <1>3 DEF Typed

(* The call that runs is a write with a chunk to go.                       *)
LEMMA WriteRuns ==
    ASSUME IndInv, call # Idle, call.pc \in {"chunk", "register"}, call.todo # << >>
    PROVE  /\ Writing(call) /\ ~Deleting(call) /\ ~Sweeping(call) /\ ~Deregistering(call)
           /\ call \in WriteCall /\ call.segs \in Seq(Nat) /\ call.seg \in Nat
           /\ WriteInv(call, catalog, broken, data_of) /\ Ready(call)
           /\ CurrentChunk(call) \in Chunks /\ ThisChunk = CurrentChunk(call)
<1>1. Typed /\ CallInv(call, catalog, broken, data_of)
    BY Parts
<1>2. Writing(call) /\ ~Deleting(call) /\ ~Sweeping(call) /\ ~Deregistering(call)
    BY DEF Writing, Deleting, Sweeping, Deregistering
<1>3. call \in WriteCall
    <2>1. call \in Call \cup {Idle}
        BY <1>1 DEF Typed
    <2> QED  BY <1>2, <2>1, CallKinds
<1>4. WriteInv(call, catalog, broken, data_of)
    BY <1>1, <1>2 DEF CallInv
<1>5. Ready(call)
    BY <1>3, <1>4 DEF WriteInv, Ready
<1>6. CurrentChunk(call) \in Chunks
    BY <1>5, ChunkTyped
<1>7. ThisChunk = CurrentChunk(call)
    BY DEF ThisChunk, CurrentChunk
<1>8. call.segs \in Seq(Nat) /\ call.seg \in Nat
    BY <1>3 DEF WriteCall
<1> QED  BY <1>2, <1>3, <1>4, <1>5, <1>6, <1>7, <1>8

(* DedupChunk: in memory the index is live, so that the write takes one    *)
(* more reference; on NVRAM it returns.                                    *)
LEMMA DedupChunkStep ==
    ASSUME IndInv, DedupChunk
    PROVE  IndInv'
<1> DEFINE seg == catalog.content[ThisChunk]
           h == CurrentChunk(call)
<1>1. /\ Typed /\ catalog \in Catalog /\ Bounds(catalog, Len(data_of))
      /\ MapInv(metadata, catalog, broken, torn, data_of, call)
      /\ metadata \in PFun(Nat, Segment)
    BY Parts DEF Typed
<1>2. call # Idle /\ call.pc = "chunk" /\ call.todo # << >> /\ Known
    BY DEF DedupChunk, At
<1>3. /\ catalog' = catalog /\ catalog_file' = catalog_file /\ segments' = segments
      /\ setup' = setup /\ encryptor' = encryptor /\ crashes' = crashes /\ fails' = fails
      /\ data_of' = data_of /\ broken' = broken /\ torn' = torn
      /\ metadata_file' = (IF OnNvram THEN metadata' ELSE Empty)
    BY DEF DedupChunk, SaveMetadata, NoFail, UnchangedCatalog, UnchangedSetup,
           UnchangedWriteHistory
<1>4. IF seg \in DOMAIN metadata /\ ~OnNvram
      THEN AddReference(seg) /\ KeepGoing(NextChunk(seg))
      ELSE Abandon /\ UNCHANGED metadata
    BY DEF DedupChunk
<1>5. /\ Writing(call) /\ ~Deleting(call) /\ ~Sweeping(call) /\ ~Deregistering(call)
      /\ WriteInv(call, catalog, broken, data_of) /\ Ready(call) /\ ThisChunk = h
      /\ call.segs \in Seq(Nat) /\ call \in WriteCall
    BY <1>2, WriteRuns
<1>6. CASE OnNvram
    <2>1. abandoned' \in SUBSET Nat /\ call' = Idle
        BY <1>1, <1>4, <1>5, <1>6, AbandonedTyped
    <2> QED  BY <1>3, <1>4, <1>6, <2>1, StopStep
<1>7. CASE ~OnNvram
    <2>1. h \in DOMAIN catalog.content /\ seg = catalog.content[h]
        BY <1>2, <1>5 DEF Known
    <2>2. seg \in Nat /\ seg < catalog.next_segment
        BY <1>1, <2>1, CatalogFacts DEF Bounds
    <2>3. Memory(metadata, catalog, segments, broken, abandoned, torn, call)
        BY <1>7, Parts
    <2>4. torn = {}
        BY <1>5, <2>3 DEF Memory, Undisturbed
    <2>5. Stored(metadata, seg, h)
        BY <1>1, <2>1, <2>4 DEF MapInv, ContentIn
    <2>6. seg \in DOMAIN metadata
        BY <2>5 DEF Stored
    <2> DEFINE k == metadata[seg].ref_count + 1
    <2>7. AddReference(seg) /\ call' = NextChunk(seg) /\ abandoned' = abandoned
        BY <1>4, <1>7, <2>6 DEF KeepGoing
    <2>8. Advanced(call, call', seg) /\ Recounted(metadata, metadata', seg, k)
        BY <2>7 DEF NextChunk, Advanced, AddReference, Recounted
    <2> HIDE DEF seg, h
    <2>9. metadata[seg].ref_count \in Nat
        <3>1. metadata[seg] \in Segment
            BY <1>1, <2>6, PFunFacts
        <3> QED  BY <3>1 DEF Segment
    <2>10. k \in Nat
        BY <2>9
    <2>11. k = metadata[seg].ref_count + 1
        OBVIOUS
    <2> HIDE DEF k
    <2>12. /\ metadata' \in PFun(Nat, Segment) /\ DOMAIN metadata' = DOMAIN metadata
           /\ metadata'[seg].ref_count = k
           /\ \A x \in DOMAIN metadata : x # seg => metadata'[x] = metadata[x]
           /\ \A x \in DOMAIN metadata : metadata'[x].content_hash = metadata[x].content_hash
        BY <1>1, <2>6, <2>8, <2>10, RecountFacts
    <2>13. After(call, call', seg)
        BY <1>5, <2>2, <2>8, AdvanceFacts
    <2>14. /\ call' \in Call /\ Writing(call') /\ ~Registering(call') /\ ~Deleting(call')
           /\ ~Deregistering(call') /\ ~Sweeping(call') /\ IsAppend(call'.segs, call.segs, seg)
        BY <2>13 DEF After
    <2>15. MapInv(metadata, catalog, broken, torn, data_of, call')
        BY <1>1, <1>5, <2>2, <2>5, <2>8, MapInvAdvance DEF h
    <2>16. MapInv(metadata', catalog, broken, torn, data_of, call')
        <3>1. \A x \in DOMAIN metadata : SameAt(metadata, metadata', x)
            BY <2>12 DEF SameAt
        <3> QED  BY <1>7, <2>15, <3>1, MapInvKept
    <2>17. CallInv(call', catalog, broken, data_of)
        BY <1>5, <1>7, <2>2, <2>8, WriteInvAdvance
    <2>18. metadata_file' = Empty /\ metadata_file' \in PFun(Nat, Segment)
        BY <1>3, <1>7, EmptyFacts
    <2>19. Typed'
        BY <1>1, <1>3, <2>7, <2>12, <2>14, <2>18 DEF Typed
    <2>20. Counted(metadata', catalog.capsules, broken, abandoned, call')
        <3>1. Claims(call) = call.segs /\ Claims(call') = call'.segs
            BY <1>2, <1>5, <2>14 DEF Claims, Registering
        <3>2. ASSUME NEW x \in DOMAIN metadata'
              PROVE  /\ metadata'[x].ref_count >= 1
                     /\ metadata'[x].ref_count >= Held(catalog.capsules, DOMAIN catalog.capsules \ broken, x)
                                                    + Times(call'.segs, x)
                     /\ x \notin abandoned =>
                        metadata'[x].ref_count = Held(catalog.capsules, DOMAIN catalog.capsules \ broken, x)
                                                    + Times(call'.segs, x)
            <4> DEFINE H == Held(catalog.capsules, DOMAIN catalog.capsules \ broken, x)
            <4>1. /\ metadata[x].ref_count \in Nat
                  /\ metadata[x].ref_count >= 1 /\ metadata[x].ref_count >= H + Times(call.segs, x)
                  /\ x \notin abandoned => metadata[x].ref_count = H + Times(call.segs, x)
                BY <1>1, <2>3, <2>12, <3>1, CountTyped DEF Memory, Counted
            <4>2. Times(call'.segs, x) = Times(call.segs, x) + (IF seg = x THEN 1 ELSE 0)
                    /\ Times(call.segs, x) \in Nat
                BY <1>5, <2>2, <2>14, TimesAppended
            <4>3. H \in Nat
                <5>1. Capsules(catalog.capsules, Len(data_of))
                    BY Parts
                <5> QED  BY <5>1, HeldNat
            <4> DEFINE r == metadata[x].ref_count
                       s == metadata'[x].ref_count
                       t == Times(call.segs, x)
                       u == Times(call'.segs, x)
            <4>4. /\ r >= 1 /\ r \in Nat /\ r >= H + t /\ (x \notin abandoned => r = H + t)
                  /\ u = t + (IF seg = x THEN 1 ELSE 0) /\ t \in Nat
                BY <4>1, <4>2
            <4>5. x = seg => s = r + 1
                BY <2>11, <2>12
            <4>6. x # seg => s = r
                BY <2>12
            <4> HIDE DEF H, r, s, t, u
            <4>7. s >= 1 /\ s >= H + u /\ (x \notin abandoned => s = H + u)
                BY <4>3, <4>4, <4>5, <4>6
            <4> QED  BY <4>7 DEF H, s, u
        <3> QED  BY <3>1, <3>2 DEF Counted
    <2>21. Memory(metadata', catalog, segments, broken, abandoned, torn, call')
        BY <1>5, <2>3, <2>12, <2>14, <2>20 DEF Memory, Payloads, Undisturbed
    <2> QED  BY <1>3, <1>7, <2>7, <2>16, <2>17, <2>18, <2>19, <2>21, Parts, Assemble
<1> QED  BY <1>6, <1>7

LEMMA TimesAbsent ==
    ASSUME NEW s, s \in Seq(Nat), NEW x, \A i \in DOMAIN s : s[i] # x
    PROVE  Times(s, x) = 0
<1>1. {j \in DOMAIN s : s[j] = x} = {}
    OBVIOUS
<1> QED  BY <1>1, FS_EmptySet DEF Times

LEMMA HeldAbsent ==
    ASSUME NEW caps, NEW n, Capsules(caps, n), NEW ids, ids \in SUBSET DOMAIN caps, NEW seg,
           ~Lists(caps, seg)
    PROVE  Held(caps, ids, seg) = 0
<1>1. Held(caps, ids, seg) # 0 => \E id \in ids : \E i \in DOMAIN caps[id] : caps[id][i] = seg
    BY HeldNat
<1> QED  BY <1>1 DEF Lists

(* A segment that was never handed out is nobody's.                        *)
LEMMA FreshListed ==
    ASSUME NEW cat, cat \in Catalog, NEW n, Bounds(cat, n)
    PROVE  ~Lists(cat.capsules, cat.next_segment)
<1>1. SUFFICES ASSUME Lists(cat.capsules, cat.next_segment) PROVE FALSE
    OBVIOUS
<1>2. PICK id \in DOMAIN cat.capsules :
        \E i \in DOMAIN cat.capsules[id] : cat.capsules[id][i] = cat.next_segment
    BY <1>1 DEF Lists
<1>3. cat.next_segment < cat.next_segment
    BY <1>2 DEF Bounds
<1>4. cat.next_segment \in Nat
    BY CatalogFacts
<1> QED  BY <1>3, <1>4

LEMMA MapInvFresh ==
    ASSUME NEW map, NEW new, NEW cat, cat \in Catalog, NEW n, Bounds(cat, n), NEW br, NEW tn,
           NEW d, NEW c, MapInv(map, cat, br, tn, d, c), OnNvram => CountsOne(new),
           Writing(c), ~Registering(c), \A i \in DOMAIN c.segs : c.segs[i] < cat.next_segment,
           \A x \in DOMAIN map : x # cat.next_segment => SameAt(map, new, x)
    PROVE  MapInv(new, cat, br, tn, d, c)
<1>1. \A x : x # cat.next_segment => SameAt(map, new, x)
    BY DEF SameAt
<1>2. ~(cat.next_segment < cat.next_segment)
    BY CatalogFacts
<1>3. Whole(cat.capsules, new, br, d)
    <2>1. \A id \in DOMAIN cat.capsules \ br : \A i \in DOMAIN cat.capsules[id] :
            SameAt(map, new, cat.capsules[id][i])
        BY <1>1, <1>2 DEF Bounds
    <2> QED  BY <2>1, WholeKept DEF MapInv
<1>4. ContentIn(cat.content, new, tn)
    <2>1. \A h \in DOMAIN cat.content : SameAt(map, new, cat.content[h])
        BY <1>1, <1>2 DEF Bounds
    <2> QED  BY <2>1, ContentKept DEF MapInv
<1>5. Holds(new, c.segs, c.data)
    <2>1. \A i \in DOMAIN c.segs : SameAt(map, new, c.segs[i])
        BY <1>1, <1>2
    <2> QED  BY <2>1, HoldsKept DEF MapInv
<1> QED  BY <1>3, <1>4, <1>5 DEF MapInv

(* The catalog after a segment was handed out.                             *)
HandedOut(cat, new) ==
    /\ new \in Catalog /\ new.capsules = cat.capsules /\ new.content = cat.content
    /\ new.next_segment = cat.next_segment + 1

LEMMA HandedOutFacts ==
    ASSUME NEW cat, cat \in Catalog, NEW new, HandedOut(cat, new), NEW n, Bounds(cat, n),
           NEW file, file \in Catalog, NEW br, NEW tn, FileInv(file, cat, br, tn, n)
    PROVE  /\ Bounds(new, n) /\ FileInv(file, new, br, tn, n)
           /\ \A map, d, c : MapInv(map, cat, br, tn, d, c) => MapInv(map, new, br, tn, d, c)
<1> DEFINE k == cat.next_segment
<1>1. k \in Nat /\ file.next_segment \in Nat
    BY CatalogFacts
<1>2. /\ new.capsules = cat.capsules /\ new.content = cat.content
      /\ new.next_segment = k + 1
    BY DEF HandedOut
<1>3. /\ \A id \in DOMAIN cat.capsules : cat.capsules[id] \in Seq(Nat)
      /\ \A z \in DOMAIN cat.content : cat.content[z] \in Nat
    BY CatalogFacts
<1>4. Bounds(new, n)
    <2>1. \A x \in Nat : x < k => x < k + 1
        BY <1>1
    <2>2. \A id \in DOMAIN cat.capsules : \A i \in DOMAIN cat.capsules[id] :
            cat.capsules[id][i] \in Nat
        BY <1>3
    <2> QED  BY <1>2, <1>3, <2>1, <2>2 DEF Bounds
<1>5. FileInv(file, new, br, tn, n)
    <2>1. file.next_segment <= k + 1
        BY <1>1 DEF FileInv
    <2> QED  BY <1>2, <2>1 DEF FileInv
<1>6. \A map, d, c : MapInv(map, cat, br, tn, d, c) => MapInv(map, new, br, tn, d, c)
    BY <1>2 DEF MapInv
<1> QED  BY <1>4, <1>5, <1>6

(* EncryptRefuses: the write returns; what it has counted stays counted.   *)
LEMMA EncryptRefusesStep ==
    ASSUME IndInv, EncryptRefuses
    PROVE  IndInv'
<1>1. /\ Typed /\ catalog \in Catalog /\ catalog_file \in Catalog
      /\ Bounds(catalog, Len(data_of))
      /\ MapInv(metadata, catalog, broken, torn, data_of, call)
      /\ OnNvram => MapInv(metadata_file, catalog, broken, torn, data_of, call)
      /\ FileInv(catalog_file, catalog, broken, torn, Len(data_of))
    BY Parts
<1>2. call # Idle /\ call.pc = "chunk" /\ call.todo # << >>
    BY DEF EncryptRefuses, At
<1>3. /\ catalog_file' = catalog_file /\ setup' = setup /\ encryptor' = encryptor
      /\ crashes' = crashes /\ data_of' = data_of /\ broken' = broken /\ torn' = torn
      /\ metadata' = metadata /\ metadata_file' = metadata_file /\ segments' = segments
      /\ fails' = fails /\ catalog' = [catalog EXCEPT !.next_segment = @ + 1]
      /\ abandoned' = abandoned \cup ToSet(call.segs) /\ call' = Idle
    BY DEF EncryptRefuses, Abandon, Return, NoFail, UnchangedStorage, UnchangedSetup,
           UnchangedWriteHistory
<1>4. Writing(call) /\ ~Deleting(call) /\ ~Deregistering(call) /\ call \in WriteCall
        /\ call.segs \in Seq(Nat)
    BY <1>2, WriteRuns
<1>5. HandedOut(catalog, catalog')
    <2>1. catalog.next_segment + 1 \in Nat
        BY <1>1, CatalogFacts
    <2> QED  BY <1>1, <1>3, <2>1 DEF HandedOut, Catalog
<1>6. /\ Bounds(catalog', Len(data_of))
      /\ FileInv(catalog_file, catalog', broken, torn, Len(data_of))
      /\ \A map, d, c : MapInv(map, catalog, broken, torn, d, c)
                        => MapInv(map, catalog', broken, torn, d, c)
    BY <1>1, <1>5, HandedOutFacts
<1>7. OnNvram => Unshared(catalog'.capsules)
    BY <1>5, Parts DEF HandedOut
<1>8. /\ MapInv(metadata, catalog', broken, torn, data_of, Idle)
      /\ OnNvram => MapInv(metadata_file, catalog', broken, torn, data_of, Idle)
    BY <1>1, <1>6, MapInvIdle
<1>9. CallInv(Idle, catalog', broken, data_of)
    BY CallInvIdle
<1>10. Typed'
    <2>1. Abandon
        BY DEF EncryptRefuses
    <2>2. abandoned' \in SUBSET Nat
        BY <1>1, <1>4, <2>1, AbandonedTyped
    <2> QED  BY <1>1, <1>3, <1>5, <2>2 DEF Typed, HandedOut
<1>11. ASSUME ~OnNvram
       PROVE  Memory(metadata, catalog', segments, broken, abandoned', torn, Idle)
    <2>1. Memory(metadata, catalog, segments, broken, abandoned, torn, call)
        BY <1>11, Parts
    <2>2. Claims(call) = call.segs /\ Claims(Idle) = << >>
        BY <1>2, <1>4 DEF Claims, Writing, Registering, Deleting
    <2>3. Counted(metadata, catalog'.capsules, broken, abandoned', Idle)
        <3> DEFINE caps == catalog.capsules
                   ids == DOMAIN caps \ broken
        <3>1. Capsules(caps, Len(data_of)) /\ ids \in SUBSET DOMAIN caps /\ ids = DOMAIN caps \ broken
                /\ catalog'.capsules = caps
            BY <1>5, Parts DEF HandedOut
        <3> HIDE DEF caps, ids
        <3>2. ASSUME NEW x \in DOMAIN metadata
              PROVE  /\ metadata[x].ref_count >= 1
                     /\ metadata[x].ref_count >= Held(caps, ids, x) + Times(<< >>, x)
                     /\ x \notin abandoned' =>
                            metadata[x].ref_count = Held(caps, ids, x) + Times(<< >>, x)
            <4> DEFINE r == metadata[x].ref_count
                       H == Held(caps, ids, x)
                       t == Times(call.segs, x)
                       e == Times(<< >>, x)
            <4>1. r >= 1 /\ r >= H + t /\ (x \notin abandoned => r = H + t)
                BY <2>1, <2>2, <3>1, <1>5 DEF Memory, Counted, HandedOut
            <4>2. H \in Nat /\ t \in Nat /\ e = 0 /\ r \in Nat
                <5>1. metadata \in PFun(Nat, Segment)
                    BY <1>1 DEF Typed
                <5> QED  BY <1>4, <3>1, <5>1, HeldNat, TimesNat, TimesEmpty, CountTyped
            <4>3. x \notin abandoned' => x \notin abandoned /\ t = 0
                <5>1. SUFFICES ASSUME x \notin abandoned' PROVE x \notin abandoned /\ t = 0
                    OBVIOUS
                <5>2. \A i \in DOMAIN call.segs : call.segs[i] # x
                    BY <1>3, <5>1 DEF ToSet
                <5> QED  BY <1>3, <1>4, <5>1, <5>2, TimesAbsent
            <4> HIDE DEF r, H, t, e
            <4>4. r >= H + e /\ (x \notin abandoned' => r = H + e)
                BY <4>1, <4>2, <4>3
            <4> QED  BY <4>1, <4>4 DEF r, H, e
        <3> QED  BY <2>2, <3>1, <3>2 DEF Counted
    <2>4. Undisturbed(metadata, broken, torn, Idle)
        BY <1>4, <2>1 DEF Memory, Undisturbed, Deleting, Deregistering
    <2> QED  BY <2>1, <2>3, <2>4 DEF Memory
<1>12. ~OnNvram => metadata_file' = Empty
    BY <1>3, Parts
<1> QED  BY <1>3, <1>6, <1>7, <1>8, <1>9, <1>10, <1>11, <1>12, Assemble

(* The call once its chunk is stored in seg.                               *)
StoredIn(c, new, seg) == new = [c EXCEPT !.pc = "register", !.seg = seg]

AfterStore(c, new, seg) ==
    /\ new \in WriteCall /\ new # Idle /\ new \in Call
    /\ new.id = c.id /\ new.data = c.data /\ new.todo = c.todo /\ new.segs = c.segs
    /\ new.seg = seg
    /\ Writing(new) /\ Registering(new) /\ ~Deleting(new) /\ ~Deregistering(new)
    /\ ~Sweeping(new) /\ CurrentChunk(new) = CurrentChunk(c)
    /\ Progress(new) /\ IsAppend(Claims(new), c.segs, seg)

LEMMA StoredCall ==
    ASSUME NEW c, Ready(c), NEW seg, seg \in Nat, NEW new, StoredIn(c, new, seg)
    PROVE  AfterStore(c, new, seg)
<1>1. c \in WriteCall /\ Progress(c)
    BY DEF Ready
<1>2. /\ new \in WriteCall /\ new.pc = "register" /\ new.id = c.id /\ new.data = c.data
      /\ new.todo = c.todo /\ new.segs = c.segs /\ new.seg = seg
    BY <1>1 DEF WriteCall, StoredIn
<1>3. new # Idle /\ new \in Call
    BY <1>2, ModularAssumption DEF Call
<1>4. /\ Writing(new) /\ Registering(new) /\ ~Deleting(new) /\ ~Deregistering(new)
      /\ ~Sweeping(new)
    BY <1>2, <1>3 DEF Writing, Registering, Deleting, Deregistering, Sweeping
<1>5. CurrentChunk(new) = CurrentChunk(c) /\ Progress(new)
    BY <1>1, <1>2 DEF CurrentChunk, Progress
<1>6. IsAppend(Claims(new), c.segs, seg)
    BY <1>2, <1>4 DEF Claims, IsAppend
<1> QED  BY <1>2, <1>3, <1>4, <1>5, <1>6 DEF AfterStore

(* StoreChunk: the segment is above all that are listed or indexed, so     *)
(* that storing it disturbs none of them.                                  *)
LEMMA StoreChunkStep ==
    ASSUME IndInv, StoreChunk
    PROVE  IndInv'
<1> DEFINE seg == catalog.next_segment
           h == CurrentChunk(call)
           r == [content_hash |-> ThisChunk, ref_count |-> 1, encrypted |-> call.enc]
           p == Encrypt(ThisChunk, call.enc)
<1>1. /\ Typed /\ catalog \in Catalog /\ Bounds(catalog, Len(data_of))
      /\ MapInv(metadata, catalog, broken, torn, data_of, call)
      /\ OnNvram => MapInv(metadata_file, catalog, broken, torn, data_of, call)
      /\ FileInv(catalog_file, catalog, broken, torn, Len(data_of))
      /\ metadata \in PFun(Nat, Segment) /\ segments \in PFun(Nat, Payload)
      /\ metadata_file \in PFun(Nat, Segment)
    BY Parts DEF Typed
<1>2. call # Idle /\ call.pc = "chunk" /\ call.todo # << >> /\ ~Known
    BY DEF StoreChunk, At
<1>3. /\ catalog_file' = catalog_file /\ setup' = setup /\ encryptor' = encryptor
      /\ crashes' = crashes /\ data_of' = data_of /\ broken' = broken /\ torn' = torn
      /\ catalog' = [catalog EXCEPT !.next_segment = @ + 1]
      /\ segments' = (IF OnNvram THEN segments ELSE Put(segments, seg, p))
    BY DEF StoreChunk, UnchangedSetup, UnchangedWriteHistory
<1>4. \/ OnNvram /\ CanFail /\ Abandon /\ UNCHANGED <<metadata, metadata_file>>
      \/ /\ metadata' = Put(metadata, seg, r)
         /\ \/ /\ SaveMetadata /\ NoFail /\ abandoned' = abandoned
               /\ call' = [call EXCEPT !.pc = "register", !.seg = seg]
            \/ SaveMetadataFails /\ Abandon
    BY DEF StoreChunk, KeepGoing
<1>5. /\ Writing(call) /\ ~Deleting(call) /\ ~Sweeping(call) /\ ~Deregistering(call)
      /\ WriteInv(call, catalog, broken, data_of) /\ Ready(call) /\ ThisChunk = h
      /\ call.segs \in Seq(Nat) /\ h \in Chunks /\ call \in WriteCall
    BY <1>2, WriteRuns
<1>6. ~Registering(call)
    BY <1>2 DEF Registering
<1>7. seg \in Nat
    BY <1>1, CatalogFacts
<1>8. /\ catalog' \in Catalog /\ catalog'.capsules = catalog.capsules
      /\ catalog'.content = catalog.content /\ catalog'.next_segment = seg + 1
    <2>1. seg + 1 \in Nat
        BY <1>7
    <2> QED  BY <1>1, <1>3, <2>1 DEF Catalog
<1>9. r \in Segment /\ r.content_hash = h /\ r.ref_count = 1
    <2>1. call.enc \in BOOLEAN
        BY <1>5 DEF WriteCall
    <2> QED  BY <1>5, <2>1 DEF Segment
<1>10. p \in Payload /\ p.chunk = h
    <2>1. (call.enc /\ encryptor = "xts") \in BOOLEAN
        OBVIOUS
    <2> QED  BY <1>5, <2>1 DEF Payload, Encrypt
<1> HIDE DEF r, p
<1> DEFINE map2 == Put(metadata, seg, r)
<1>11. /\ map2 \in PFun(Nat, Segment) /\ DOMAIN map2 = DOMAIN metadata \cup {seg}
       /\ map2[seg] = r /\ \A x \in DOMAIN metadata : x # seg => map2[x] = metadata[x]
    <2>1. IsPut(map2, metadata, seg, r)
        BY DEF IsPut
    <2>2. /\ DOMAIN map2 = DOMAIN metadata \cup {seg} /\ map2[seg] = r
          /\ \A x \in DOMAIN metadata : x # seg => map2[x] = metadata[x]
        BY DEF Put
    <2> HIDE DEF map2
    <2>3. map2 \in PFun(Nat, Segment)
        BY <1>1, <1>7, <1>9, <2>1, PutFacts
    <2> QED  BY <2>2, <2>3
<1>12. map2 = Put(metadata, seg, r)
    OBVIOUS
<1> HIDE DEF map2
<1>13. \A i \in DOMAIN call.segs : call.segs[i] < seg
    BY <1>5 DEF WriteInv
<1>14. MapInv(map2, catalog, broken, torn, data_of, call)
    <2>1. \A x \in DOMAIN metadata : x # seg => SameAt(metadata, map2, x)
        BY <1>11 DEF SameAt
    <2>2. OnNvram => CountsOne(map2)
        BY <1>1, <1>9, <1>11 DEF MapInv, CountsOne
    <2> QED  BY <1>1, <1>5, <1>6, <1>13, <2>1, <2>2, MapInvFresh
<1>15. HandedOut(catalog, catalog') /\ catalog_file \in Catalog
    BY <1>8, Parts DEF HandedOut
<1>16. /\ Bounds(catalog', Len(data_of))
       /\ FileInv(catalog_file, catalog', broken, torn, Len(data_of))
       /\ \A map, d, c : MapInv(map, catalog, broken, torn, d, c)
                        => MapInv(map, catalog', broken, torn, d, c)
    BY <1>1, <1>15, HandedOutFacts
<1>17. OnNvram => Unshared(catalog'.capsules)
    BY <1>8, Parts
<1>18. fails' \in 0 .. MaxFails
    BY <1>1, <1>4, ModularAssumption DEF Typed, CanFail, NoFail, SaveMetadataFails
<1>19. segments' \in PFun(Nat, Payload)
    <2>1. OnNvram \/ IsPut(segments', segments, seg, p)
        BY <1>3 DEF IsPut
    <2> QED  BY <1>1, <1>3, <1>7, <1>10, <2>1, PutFacts
<1>20. CASE /\ OnNvram /\ call' = Idle /\ metadata_file' = metadata_file
            /\ abandoned' \in SUBSET Nat /\ (metadata' = metadata \/ metadata' = map2)
    <2>1. /\ MapInv(metadata, catalog', broken, torn, data_of, Idle)
          /\ MapInv(map2, catalog', broken, torn, data_of, Idle)
          /\ MapInv(metadata_file, catalog', broken, torn, data_of, Idle)
        BY <1>1, <1>14, <1>16, <1>20, MapInvIdle
    <2>2. Typed'
        BY <1>1, <1>3, <1>8, <1>11, <1>18, <1>19, <1>20 DEF Typed
    <2>3. CallInv(Idle, catalog', broken, data_of)
        BY CallInvIdle
    <2> QED  BY <1>3, <1>16, <1>17, <1>20, <2>1, <2>2, <2>3, Assemble DEF OnNvram
<1>21. CASE /\ metadata' = map2 /\ metadata_file' = (IF OnNvram THEN map2 ELSE Empty)
            /\ abandoned' = abandoned
            /\ call' = [call EXCEPT !.pc = "register", !.seg = seg]
    <2> HIDE DEF h
    <2>1. /\ call' \in Call /\ call'.id = call.id /\ call'.data = call.data
          /\ call'.todo = call.todo /\ call'.segs = call.segs /\ call'.seg = seg
          /\ Writing(call') /\ Registering(call') /\ ~Deleting(call') /\ ~Deregistering(call')
          /\ ~Sweeping(call') /\ CurrentChunk(call') = h
          /\ Progress(call') /\ IsAppend(Claims(call'), call.segs, seg)
        <3> DEFINE s == seg
        <3>1. s \in Nat /\ StoredIn(call, call', s)
            BY <1>7, <1>21 DEF StoredIn
        <3> HIDE DEF s
        <3>2. AfterStore(call, call', s)
            BY <1>5, <3>1, StoredCall
        <3> QED  BY <3>2 DEF h, s, AfterStore
    <2>2. MapInv(map2, catalog', broken, torn, data_of, call')
        <3>1. MapInv(map2, catalog', broken, torn, data_of, call)
            BY <1>14, <1>16
        <3>2. Stored(map2, seg, h)
            BY <1>9, <1>11 DEF Stored
        <3> QED  BY <1>5, <2>1, <3>1, <3>2 DEF MapInv
    <2>3. CallInv(call', catalog', broken, data_of)
        <3>1. ~Lists(catalog.capsules, seg)
            BY <1>1, FreshListed
        <3>2. \A i \in DOMAIN call.segs : call.segs[i] # seg /\ call.segs[i] < seg + 1
            <4>1. \A i \in DOMAIN call.segs : call.segs[i] \in Nat
                BY <1>5
            <4> QED  BY <1>7, <1>13, <4>1
        <3>3. h \notin DOMAIN catalog.content /\ seg < seg + 1
            BY <1>2, <1>5, <1>7 DEF Known
        <3>4. OnNvram => Own(call', catalog')
            BY <1>5, <1>8, <2>1 DEF WriteInv, Own
        <3>5. WriteInv(call', catalog', broken, data_of)
            BY <1>2, <1>5, <1>8, <2>1, <3>1, <3>2, <3>3, <3>4 DEF WriteInv
        <3> QED  BY <2>1, <3>5 DEF CallInv
    <2>4. metadata_file' \in PFun(Nat, Segment)
        BY <1>11, <1>21, EmptyFacts
    <2>5. Typed'
        BY <1>1, <1>3, <1>8, <1>11, <1>18, <1>19, <1>21, <2>1, <2>4 DEF Typed
    <2>6. ASSUME ~OnNvram
          PROVE  Memory(metadata', catalog', segments', broken, abandoned, torn, call')
        <3>1. Memory(metadata, catalog, segments, broken, abandoned, torn, call)
            BY <2>6, Parts
        <3>2. Counted(metadata', catalog'.capsules, broken, abandoned, call')
            <4> DEFINE ids == DOMAIN catalog.capsules \ broken
                       u == Claims(call')
            <4>1. Claims(call) = call.segs
                BY <1>5, <1>6 DEF Claims
            <4>2. Capsules(catalog.capsules, Len(data_of)) /\ ids \in SUBSET DOMAIN catalog.capsules
                BY Parts
            <4>3. ~Lists(catalog.capsules, seg) /\ \A i \in DOMAIN call.segs : call.segs[i] # seg
                <5>1. \A i \in DOMAIN call.segs : call.segs[i] \in Nat
                    BY <1>5
                <5>2. ~Lists(catalog.capsules, seg)
                    BY <1>1, FreshListed
                <5> QED  BY <1>7, <1>13, <5>1, <5>2
            <4> HIDE DEF ids, u
            <4>4. ASSUME NEW x \in DOMAIN metadata'
                  PROVE  /\ metadata'[x].ref_count >= 1
                         /\ metadata'[x].ref_count >= Held(catalog.capsules, ids, x) + Times(u, x)
                         /\ x \notin abandoned =>
                                metadata'[x].ref_count = Held(catalog.capsules, ids, x) + Times(u, x)
                <5> DEFINE H == Held(catalog.capsules, ids, x)
                           t == Times(call.segs, x)
                <5>1. Times(u, x) = t + (IF seg = x THEN 1 ELSE 0) /\ t \in Nat
                    BY <1>5, <1>7, <2>1, TimesAppended DEF u
                <5>2. H \in Nat
                    BY <4>2, HeldNat
                <5>3. CASE x = seg
                    <6>1. metadata'[x].ref_count = 1
                        BY <1>9, <1>11, <1>21, <5>3
                    <6>2. H = 0
                        BY <4>2, <4>3, <5>3, HeldAbsent
                    <6>3. t = 0
                        BY <1>5, <4>3, <5>3, TimesAbsent
                    <6> HIDE DEF H, t
                    <6>4. Times(u, x) = 1
                        BY <5>1, <5>3, <6>3
                    <6> QED  BY <6>1, <6>2, <6>4 DEF H
                <5>4. CASE x # seg
                    <6>1. x \in DOMAIN metadata /\ metadata'[x] = metadata[x]
                        BY <1>11, <1>21, <5>4
                    <6>2. /\ metadata[x].ref_count >= 1 /\ metadata[x].ref_count >= H + t
                          /\ x \notin abandoned => metadata[x].ref_count = H + t
                        BY <3>1, <4>1, <6>1 DEF Memory, Counted, ids
                    <6> HIDE DEF H, t
                    <6>3. Times(u, x) = t
                        BY <5>1, <5>4
                    <6> QED  BY <6>1, <6>2, <6>3 DEF H
                <5> QED  BY <5>3, <5>4
            <4> QED  BY <1>8, <4>4 DEF Counted, ids, u
        <3>3. Payloads(metadata', segments')
            <4>1. /\ DOMAIN segments' = DOMAIN segments \cup {seg} /\ segments'[seg] = p
                  /\ \A x \in DOMAIN segments : x # seg => segments'[x] = segments[x]
                <5>1. segments' = Put(segments, seg, p)
                    BY <1>3, <2>6
                <5> QED  BY <5>1 DEF Put
            <4>2. DOMAIN segments = DOMAIN metadata
                    /\ \A x \in DOMAIN metadata : segments[x].chunk = metadata[x].content_hash
                BY <3>1 DEF Memory, Payloads
            <4>3. \A x \in DOMAIN metadata' : segments'[x].chunk = metadata'[x].content_hash
                BY <1>9, <1>10, <1>11, <1>21, <4>1, <4>2
            <4> QED  BY <1>11, <1>21, <4>1, <4>2, <4>3 DEF Payloads
        <3>4. Undisturbed(metadata', broken, torn, call')
            BY <1>5, <2>1, <3>1 DEF Memory, Undisturbed
        <3> QED  BY <3>2, <3>3, <3>4 DEF Memory
    <2> QED  BY <1>3, <1>16, <1>17, <1>21, <2>2, <2>3, <2>5, <2>6, Assemble
<1>22. Abandon => abandoned' \in SUBSET Nat /\ call' = Idle
    BY <1>1, <1>5, AbandonedTyped
<1> QED  BY <1>4, <1>12, <1>20, <1>21, <1>22 DEF SaveMetadata, SaveMetadataFails

(* RegisterContent: the chunk is stored in both maps by now.               *)
LEMMA RegisterContentStep ==
    ASSUME IndInv, RegisterContent
    PROVE  IndInv'
<1> DEFINE seg == call.seg
           h == CurrentChunk(call)
<1>1. /\ Typed /\ catalog \in Catalog /\ catalog_file \in Catalog /\ Len(data_of) \in Nat
      /\ Bounds(catalog, Len(data_of)) /\ CallInv(call, catalog, broken, data_of)
      /\ MapInv(metadata, catalog, broken, torn, data_of, call)
      /\ OnNvram => MapInv(metadata_file, catalog, broken, torn, data_of, call)
      /\ FileInv(catalog_file, catalog, broken, torn, Len(data_of))
    BY Parts
<1>2. call # Idle /\ call.pc = "register" /\ Writing(call) /\ Registering(call)
    BY DEF RegisterContent, At, Writing, Registering
<1>3. /\ metadata' = metadata /\ metadata_file' = metadata_file /\ segments' = segments
      /\ setup' = setup /\ encryptor' = encryptor /\ crashes' = crashes
      /\ data_of' = data_of /\ broken' = broken /\ torn' = torn
      /\ catalog' = [catalog EXCEPT !.content = Put(@, ThisChunk, seg)]
    BY DEF RegisterContent, UnchangedStorage, UnchangedSetup, UnchangedWriteHistory
<1>4. \/ SaveCatalog /\ NoFail /\ call' = NextChunk(seg) /\ abandoned' = abandoned
      \/ SaveCatalogFails /\ Abandon
    BY DEF RegisterContent, KeepGoing
<1>5. WriteInv(call, catalog, broken, data_of)
    BY <1>1, <1>2 DEF CallInv
<1>6. /\ call.todo # << >> /\ seg < catalog.next_segment /\ h \notin DOMAIN catalog.content
      /\ OnNvram => ~Lists(catalog.capsules, seg) /\ \A i \in DOMAIN call.segs : call.segs[i] # seg
    BY <1>2, <1>5 DEF WriteInv
<1>7. /\ ~Deleting(call) /\ ~Sweeping(call) /\ ~Deregistering(call) /\ Ready(call)
      /\ ThisChunk = h /\ call.segs \in Seq(Nat) /\ h \in Chunks /\ seg \in Nat
      /\ call \in WriteCall
    BY <1>2, <1>6, WriteRuns
<1> DEFINE cont2 == Put(catalog.content, h, seg)
<1>8. /\ DOMAIN cont2 = DOMAIN catalog.content \cup {h} /\ cont2[h] = seg
      /\ \A z \in DOMAIN catalog.content : cont2[z] = catalog.content[z]
    BY <1>6 DEF Put
<1>9. IsPut(cont2, catalog.content, h, seg)
    BY DEF IsPut
<1>10. catalog' = [catalog EXCEPT !.content = cont2]
    BY <1>3, <1>7
<1> HIDE DEF cont2, h, seg
<1>11. cont2 \in PFun(Chunks, Nat)
    <2> DEFINE cont == catalog.content
    <2>1. cont \in PFun(Chunks, Nat) /\ IsPut(cont2, cont, h, seg)
        BY <1>1, <1>9, CatalogFacts
    <2> HIDE DEF cont
    <2> QED  BY <1>7, <2>1, PutFacts
<1>12. /\ catalog' \in Catalog /\ catalog'.capsules = catalog.capsules
       /\ catalog'.content = cont2 /\ catalog'.next_segment = catalog.next_segment
    BY <1>1, <1>10, <1>11 DEF Catalog
<1>13. Bounds(catalog', Len(data_of))
    BY <1>1, <1>6, <1>8, <1>12 DEF Bounds
<1>14. OnNvram => Unshared(catalog'.capsules)
    BY <1>12, Parts
<1>15. ASSUME NEW map, MapInv(map, catalog, broken, torn, data_of, call)
       PROVE  MapInv(map, catalog', broken, torn, data_of, call) /\ Stored(map, seg, h)
    <2>1. Stored(map, seg, h)
        BY <1>2, <1>15 DEF MapInv, seg, h
    <2>2. ContentIn(cont2, map, torn)
        BY <1>8, <1>15, <2>1 DEF MapInv, ContentIn
    <2> QED  BY <1>12, <1>15, <2>1, <2>2 DEF MapInv
<1>16. FileInv(catalog_file, catalog', broken, torn, Len(data_of))
    BY <1>1, <1>8, <1>12 DEF FileInv
<1>17. CatalogSaved(catalog_file, catalog_file', catalog')
    BY <1>4 DEF CatalogSaved, SaveCatalog, SaveCatalogFails
<1>18. FileInv(catalog_file', catalog', broken, torn, Len(data_of)) /\ catalog_file' \in Catalog
    BY <1>1, <1>12, <1>13, <1>14, <1>16, <1>17, FileInvSaved
<1>19. fails' \in 0 .. MaxFails
    BY <1>1, <1>4, ModularAssumption DEF Typed, CanFail, NoFail, SaveCatalogFails
<1>20. CASE SaveCatalogFails /\ Abandon
    <2>1. OnNvram /\ call' = Idle /\ abandoned' \in SUBSET Nat
        BY <1>1, <1>7, <1>20, AbandonedTyped DEF SaveCatalogFails, OnNvram
    <2>2. /\ MapInv(metadata, catalog', broken, torn, data_of, Idle)
          /\ MapInv(metadata_file, catalog', broken, torn, data_of, Idle)
        BY <1>1, <1>15, <2>1, MapInvIdle
    <2>3. Typed'
        BY <1>1, <1>3, <1>12, <1>18, <1>19, <2>1 DEF Typed
    <2>4. CallInv(Idle, catalog', broken, data_of)
        BY CallInvIdle
    <2> QED  BY <1>3, <1>13, <1>14, <1>18, <2>1, <2>2, <2>3, <2>4, Assemble
<1>21. CASE call' = NextChunk(seg) /\ abandoned' = abandoned
    <2>1. Advanced(call, call', seg)
        BY <1>21 DEF Advanced, NextChunk
    <2>2. After(call, call', seg)
        BY <1>7, <2>1, AdvanceFacts
    <2>3. /\ call' \in Call /\ Writing(call') /\ ~Registering(call') /\ ~Deleting(call')
          /\ ~Deregistering(call') /\ ~Sweeping(call') /\ IsAppend(call'.segs, call.segs, seg)
        BY <2>2 DEF After
    <2>4. ASSUME NEW map, MapInv(map, catalog, broken, torn, data_of, call)
          PROVE  MapInv(map, catalog', broken, torn, data_of, call')
        <3>1. MapInv(map, catalog', broken, torn, data_of, call) /\ Stored(map, seg, h)
            BY <1>15, <2>4
        <3> QED  BY <1>2, <1>7, <2>1, <3>1, MapInvAdvance DEF h
    <2>5. CallInv(call', catalog', broken, data_of)
        BY <1>5, <1>6, <1>7, <1>12, <2>1, WriteInvAdvance
    <2>6. Typed'
        BY <1>1, <1>3, <1>12, <1>18, <1>19, <1>21, <2>3 DEF Typed
    <2>7. ASSUME ~OnNvram
          PROVE  Memory(metadata, catalog', segments, broken, abandoned, torn, call')
        <3>1. Memory(metadata, catalog, segments, broken, abandoned, torn, call)
            BY <2>7, Parts
        <3>2. Claims(call') = Claims(call)
            BY <1>2, <2>3 DEF Claims, IsAppend, seg
        <3>3. Counted(metadata, catalog'.capsules, broken, abandoned, call')
            BY <1>12, <3>1, <3>2 DEF Memory, Counted
        <3> QED  BY <1>7, <2>3, <3>1, <3>3 DEF Memory, Undisturbed
    <2>8. ~OnNvram => metadata_file' = Empty
        BY <1>3, Parts
    <2> QED  BY <1>1, <1>3, <1>13, <1>14, <1>18, <1>21, <2>4, <2>5, <2>6, <2>7, <2>8, Assemble
<1> QED  BY <1>4, <1>20, <1>21

(* CreateCapsule: what the write has claimed is now listed.                *)
LEMMA CreateCapsuleStep ==
    ASSUME IndInv, CreateCapsule
    PROVE  IndInv'
<1> DEFINE id == call.id
           caps == catalog.capsules
           caps2 == Put(caps, id, call.segs)
<1>1. /\ Typed /\ catalog \in Catalog /\ catalog_file \in Catalog /\ Len(data_of) \in Nat
      /\ Bounds(catalog, Len(data_of)) /\ CallInv(call, catalog, broken, data_of)
      /\ MapInv(metadata, catalog, broken, torn, data_of, call)
      /\ OnNvram => MapInv(metadata_file, catalog, broken, torn, data_of, call)
      /\ FileInv(catalog_file, catalog, broken, torn, Len(data_of))
    BY Parts
<1>2. call # Idle /\ call.pc = "chunk" /\ Writing(call) /\ ~Registering(call)
        /\ call.todo = << >> /\ ~Deleting(call) /\ ~Deregistering(call) /\ ~Sweeping(call)
    BY DEF CreateCapsule, At, Writing, Registering, Deleting, Deregistering, Sweeping
<1>3. /\ metadata' = metadata /\ metadata_file' = metadata_file /\ segments' = segments
      /\ setup' = setup /\ abandoned' = abandoned /\ encryptor' = encryptor /\ crashes' = crashes
      /\ data_of' = data_of /\ broken' = broken /\ torn' = torn /\ call' = Idle
      /\ catalog' = [catalog EXCEPT !.capsules = caps2]
    BY DEF CreateCapsule, UnchangedStorage, UnchangedSetup, UnchangedHistory, Return
<1>4. (SaveCatalog /\ NoFail) \/ SaveCatalogFails
    BY DEF CreateCapsule
<1>5. WriteInv(call, catalog, broken, data_of)
    BY <1>1, <1>2 DEF CallInv
<1>6. call.segs \in Seq(Nat) /\ id \in Nat
    <2>1. call \in WriteCall
        BY <1>1, <1>2, CallKinds DEF Typed
    <2> QED  BY <2>1 DEF WriteCall
<1>7. /\ id \in 1 .. Len(data_of) /\ id \notin DOMAIN caps /\ id \notin broken
      /\ call.data = data_of[id].data /\ \A i \in DOMAIN call.segs : call.segs[i] < catalog.next_segment
      /\ OnNvram => Own(call, catalog)
    <2>1. id \in 1 .. Len(data_of)
        BY <1>1, <1>5 DEF WriteInv
    <2> QED  BY <1>5, <2>1 DEF WriteInv
<1>8. Len(call.segs) = Len(BuildPlan(call.data))
    <2>1. Len(call.segs) + Len(call.todo) = Len(BuildPlan(call.data))
        BY <1>5 DEF WriteInv, Progress
    <2>2. Len(call.todo) = 0 /\ Len(call.segs) \in Nat
        BY <1>2, <1>6
    <2> QED  BY <2>1, <2>2
<1>9. /\ DOMAIN caps2 = DOMAIN caps \cup {id} /\ caps2[id] = call.segs
      /\ \A z \in DOMAIN caps : caps2[z] = caps[z]
    BY <1>7 DEF Put
<1>10. IsPut(caps2, caps, id, call.segs) /\ caps \in PFun(Nat, Seq(Nat))
    BY <1>1, CatalogFacts DEF IsPut
<1>11. caps = catalog.capsules
    OBVIOUS
<1> HIDE DEF caps2, caps, id
<1>12. caps2 \in PFun(Nat, Seq(Nat))
    <2> DEFINE s == call.segs
    <2>1. s \in Seq(Nat) /\ IsPut(caps2, caps, id, s)
        BY <1>6, <1>10
    <2> HIDE DEF s
    <2> QED  BY <1>6, <1>10, <2>1, PutFacts
<1>13. /\ catalog' \in Catalog /\ catalog'.capsules = caps2
       /\ catalog'.content = catalog.content /\ catalog'.next_segment = catalog.next_segment
    BY <1>1, <1>3, <1>12 DEF Catalog
<1>14. Bounds(catalog', Len(data_of))
    <2>1. ASSUME NEW z \in DOMAIN caps2, NEW i \in DOMAIN caps2[z]
          PROVE  caps2[z][i] < catalog.next_segment
        <3>1. CASE z = id
            BY <1>7, <1>9, <3>1
        <3>2. CASE z # id
            BY <1>1, <1>9, <1>11, <3>2 DEF Bounds
        <3> QED  BY <3>1, <3>2
    <2>2. DOMAIN caps2 \subseteq 1 .. Len(data_of)
        BY <1>1, <1>7, <1>9, <1>11 DEF Bounds
    <2> QED  BY <1>1, <1>13, <2>1, <2>2 DEF Bounds
<1>15. ASSUME OnNvram PROVE Unshared(caps2)
    <2>1. Unshared(caps) /\ Own(call, catalog)
        BY <1>7, <1>11, <1>15, Parts
    <2>2. ASSUME NEW i \in DOMAIN call.segs, NEW z \in DOMAIN caps, NEW j \in DOMAIN caps[z]
          PROVE  call.segs[i] # caps[z][j]
        BY <1>11, <2>1 DEF Own, Lists
    <2>3. ASSUME NEW c \in DOMAIN caps2, NEW d \in DOMAIN caps2, NEW i \in DOMAIN caps2[c],
                 NEW j \in DOMAIN caps2[d], caps2[c][i] = caps2[d][j]
          PROVE  c = d /\ i = j
        <3>1. CASE c = id /\ d = id
            BY <1>9, <2>1, <2>3, <3>1 DEF Own
        <3>2. CASE c = id /\ d # id
            BY <1>9, <2>2, <2>3, <3>2
        <3>3. CASE c # id /\ d = id
            BY <1>9, <2>2, <2>3, <3>3
        <3>4. CASE c # id /\ d # id
            BY <1>9, <2>1, <2>3, <3>4 DEF Unshared
        <3> QED  BY <3>1, <3>2, <3>3, <3>4
    <2> QED  BY <2>3 DEF Unshared
<1>16. OnNvram => Unshared(catalog'.capsules)
    BY <1>13, <1>15
<1>17. ASSUME NEW map, MapInv(map, catalog, broken, torn, data_of, call)
       PROVE  MapInv(map, catalog', broken, torn, data_of, Idle)
    <2>1. Holds(map, call.segs, call.data)
        BY <1>2, <1>17 DEF MapInv
    <2>2. Whole(caps2, map, broken, data_of)
        <3>1. ASSUME NEW z \in DOMAIN caps2 \ broken
              PROVE  /\ Len(caps2[z]) = Len(BuildPlan(data_of[z].data))
                     /\ Holds(map, caps2[z], data_of[z].data)
            <4>1. CASE z = id
                BY <1>7, <1>8, <1>9, <2>1, <4>1
            <4>2. CASE z # id
                BY <1>9, <1>11, <1>17, <4>2 DEF MapInv, Whole
            <4> QED  BY <4>1, <4>2
        <3> QED  BY <3>1 DEF Whole
    <2> QED  BY <1>13, <1>17, <2>2 DEF MapInv, Writing, Registering, Deregistering
<1>18. FileInv(catalog_file, catalog', broken, torn, Len(data_of))
    BY <1>1, <1>9, <1>11, <1>13 DEF FileInv
<1>19. CatalogSaved(catalog_file, catalog_file', catalog')
    BY <1>4 DEF CatalogSaved, SaveCatalog, SaveCatalogFails
<1>20. FileInv(catalog_file', catalog', broken, torn, Len(data_of)) /\ catalog_file' \in Catalog
    BY <1>1, <1>13, <1>14, <1>16, <1>18, <1>19, FileInvSaved
<1>21. fails' \in 0 .. MaxFails
    BY <1>1, <1>4, ModularAssumption DEF Typed, CanFail, NoFail, SaveCatalogFails
<1>22. Typed'
    BY <1>1, <1>3, <1>13, <1>20, <1>21 DEF Typed
<1>23. CallInv(Idle, catalog', broken, data_of)
    BY CallInvIdle
<1>24. ASSUME ~OnNvram
       PROVE  Memory(metadata, catalog', segments, broken, abandoned, torn, Idle)
    <2> DEFINE ids == DOMAIN caps \ broken
               ids2 == DOMAIN caps2 \ broken
    <2>1. Memory(metadata, catalog, segments, broken, abandoned, torn, call)
        BY <1>24, Parts
    <2>2. Claims(call) = call.segs /\ Claims(Idle) = << >>
        BY <1>2 DEF Claims, Writing, Deleting
    <2>3. Capsules(caps2, Len(data_of))
        BY <1>1, <1>13, <1>14, CapsulesTyped
    <2>4. /\ ids2 \in SUBSET DOMAIN caps2 /\ id \in ids2 /\ ids2 \ {id} = ids
          /\ \A z \in ids : caps2[z] = caps[z]
        BY <1>7, <1>9
    <2>5. ids2 = DOMAIN caps2 \ broken /\ ids = DOMAIN caps \ broken
        OBVIOUS
    <2> HIDE DEF ids, ids2
    <2>6. ASSUME NEW x \in DOMAIN metadata
          PROVE  /\ metadata[x].ref_count >= 1
                 /\ metadata[x].ref_count >= Held(caps2, ids2, x) + Times(<< >>, x)
                 /\ x \notin abandoned =>
                        metadata[x].ref_count = Held(caps2, ids2, x) + Times(<< >>, x)
        <3>1. /\ metadata[x].ref_count >= 1
              /\ metadata[x].ref_count >= Held(caps, ids, x) + Times(call.segs, x)
              /\ x \notin abandoned =>
                    metadata[x].ref_count = Held(caps, ids, x) + Times(call.segs, x)
            BY <1>11, <2>1, <2>2, <2>5 DEF Memory, Counted
        <3>2. /\ Held(caps2, ids2, x) = Held(caps2, ids2 \ {id}, x) + Times(caps2[id], x)
              /\ Held(caps2, ids2 \ {id}, x) \in Nat /\ Times(caps2[id], x) \in Nat
            BY <2>3, <2>4, HeldSplits
        <3>3. Held(caps2, ids, x) = Held(caps, ids, x)
            BY <2>4, HeldSame
        <3>4. Times(<< >>, x) = 0
            BY TimesEmpty
        <3> DEFINE a == Held(caps2, ids2, x)
                   b == Held(caps, ids, x)
                   t == Times(call.segs, x)
                   r == metadata[x].ref_count
        <3>5. /\ r >= b + t /\ (x \notin abandoned => r = b + t)
              /\ a = b + t /\ b \in Nat /\ t \in Nat
            BY <1>9, <2>4, <3>1, <3>2, <3>3
        <3> HIDE DEF a, b, t, r
        <3>6. r >= a + 0 /\ (x \notin abandoned => r = a + 0)
            BY <3>5
        <3> QED  BY <3>1, <3>4, <3>6 DEF a, r
    <2>7. Counted(metadata, caps2, broken, abandoned, Idle)
        BY <2>2, <2>5, <2>6 DEF Counted
    <2>8. Undisturbed(metadata, broken, torn, Idle)
        BY <1>2, <2>1 DEF Memory, Undisturbed, Deleting, Deregistering, Sweeping
    <2> QED  BY <1>13, <2>1, <2>7, <2>8 DEF Memory
<1>25. ~OnNvram => metadata_file' = Empty
    BY <1>3, Parts
<1> QED  BY <1>1, <1>3, <1>14, <1>16, <1>17, <1>20, <1>22, <1>23, <1>24, <1>25, Assemble

-----------------------------------------------------------------------------
(* delete_capsule                                                          *)

LEMMA DeleteCapsuleStep ==
    ASSUME IndInv, NEW id \in CapsuleIds, DeleteCapsule(id)
    PROVE  IndInv'
<1> DEFINE caps == catalog.capsules
<1>1. /\ Typed /\ catalog \in Catalog /\ Len(data_of) \in Nat
      /\ Bounds(catalog, Len(data_of))
      /\ MapInv(metadata, catalog, broken, torn, data_of, call)
      /\ FileInv(catalog_file, catalog, broken, torn, Len(data_of))
    BY Parts
<1>2. /\ call = Idle /\ id \in DOMAIN caps /\ broken' = broken \cup {id}
      /\ call' = [pc |-> "release", id |-> id, todo |-> caps[id]]
    BY DEF DeleteCapsule
<1>3. /\ catalog' = catalog /\ catalog_file' = catalog_file /\ metadata' = metadata
      /\ metadata_file' = metadata_file /\ segments' = segments /\ setup' = setup
      /\ abandoned' = abandoned /\ encryptor' = encryptor /\ crashes' = crashes /\ data_of' = data_of /\ torn' = torn
      /\ fails' = fails
    BY DEF DeleteCapsule, UnchangedCatalog, UnchangedStorage, UnchangedSetup
<1>4. caps[id] \in Seq(Nat) /\ id \in Nat /\ id \in 1 .. Len(data_of)
    BY <1>1, <1>2, CatalogFacts DEF Bounds
<1>5. call' \in DeleteCall
    BY <1>2, <1>4 DEF DeleteCall
<1>6. call' # Idle /\ call' \in Call
    BY <1>5, ModularAssumption DEF Call
<1>7. call'.pc = "release" /\ call'.id = id /\ call'.todo = caps[id]
    BY <1>2
<1>8. /\ ~Writing(call') /\ ~Registering(call') /\ Deleting(call') /\ ~Deregistering(call')
      /\ ~Sweeping(call')
    BY <1>6, <1>7 DEF Writing, Registering, Deleting, Deregistering, Sweeping
<1>9. Typed'
    BY <1>1, <1>2, <1>3, <1>4, <1>6 DEF Typed
<1>10. ASSUME NEW map, MapInv(map, catalog, broken, torn, data_of, call)
       PROVE  MapInv(map, catalog, broken', torn, data_of, call')
    <2>1. Whole(catalog.capsules, map, broken', data_of)
        BY <1>2, <1>10 DEF MapInv, Whole
    <2> QED  BY <1>8, <1>10, <2>1 DEF MapInv
<1>11. FileInv(catalog_file, catalog, broken', torn, Len(data_of))
    BY <1>1, <1>2 DEF FileInv
<1>12. CallInv(call', catalog, broken', data_of)
    BY <1>2, <1>7, <1>8 DEF CallInv, DeleteInv
<1>13. ASSUME ~OnNvram
       PROVE  Memory(metadata, catalog, segments, broken', abandoned, torn, call')
    <2>1. Memory(metadata, catalog, segments, broken, abandoned, torn, call)
        BY <1>13, Parts
    <2>2. broken = {} /\ torn = {}
        BY <1>2, <2>1 DEF Memory, Undisturbed, Deleting, Deregistering
    <2>3. broken' = {id}
        BY <1>2, <2>2
    <2> DEFINE ids == DOMAIN caps \ broken
    <2>4. /\ ids \in SUBSET DOMAIN caps /\ id \in ids /\ DOMAIN caps \ broken' = ids \ {id}
          /\ Capsules(caps, Len(data_of))
        BY <1>2, <2>2, <2>3, Parts
    <2>5. Claims(call) = << >> /\ Claims(call') = caps[id]
        BY <1>2, <1>7, <1>8 DEF Claims, Writing, Deleting
    <2>6. ids = DOMAIN caps \ broken /\ caps = catalog.capsules
        OBVIOUS
    <2> HIDE DEF ids, caps
    <2>7. ASSUME NEW x \in DOMAIN metadata
          PROVE  /\ metadata[x].ref_count >= 1
                 /\ metadata[x].ref_count >= Held(caps, ids \ {id}, x) + Times(caps[id], x)
                 /\ x \notin abandoned =>
                        metadata[x].ref_count = Held(caps, ids \ {id}, x) + Times(caps[id], x)
        <3>1. /\ metadata[x].ref_count >= 1
              /\ metadata[x].ref_count >= Held(caps, ids, x) + Times(<< >>, x)
              /\ x \notin abandoned =>
                    metadata[x].ref_count = Held(caps, ids, x) + Times(<< >>, x)
            BY <2>1, <2>5, <2>6 DEF Memory, Counted
        <3>2. /\ Held(caps, ids, x) = Held(caps, ids \ {id}, x) + Times(caps[id], x)
              /\ Held(caps, ids \ {id}, x) \in Nat /\ Times(caps[id], x) \in Nat
            BY <2>4, HeldSplits
        <3>3. Times(<< >>, x) = 0
            BY TimesEmpty
        <3> DEFINE a == Held(caps, ids, x)
                   r == metadata[x].ref_count
                   b == Held(caps, ids \ {id}, x)
                   t == Times(caps[id], x)
        <3>4. /\ r >= a + 0 /\ (x \notin abandoned => r = a + 0)
              /\ a = b + t /\ b \in Nat /\ t \in Nat
            BY <3>1, <3>2, <3>3
        <3> HIDE DEF a, r, b, t
        <3>5. r >= b + t /\ (x \notin abandoned => r = b + t)
            BY <3>4
        <3> QED  BY <3>1, <3>5 DEF b, t, r
    <2>8. Counted(metadata, catalog.capsules, broken', abandoned, call')
        BY <2>4, <2>5, <2>6, <2>7 DEF Counted
    <2>9. \A i \in DOMAIN caps[id] : caps[id][i] \in DOMAIN metadata
        BY <1>1, <1>2, <2>2, <2>6 DEF MapInv, Whole, Holds, Stored
    <2>10. Undisturbed(metadata, broken', torn, call')
        BY <1>7, <1>8, <2>2, <2>3, <2>6, <2>9 DEF Undisturbed
    <2> QED  BY <2>1, <2>8, <2>10 DEF Memory
<1> QED  BY <1>1, <1>3, <1>9, <1>10, <1>11, <1>12, <1>13, Parts, Assemble

(* The call that runs is a delete with a segment to give up.               *)
LEMMA DeleteRuns ==
    ASSUME IndInv, call # Idle, call.pc \in {"release", "deregister"}
    PROVE  /\ ~Writing(call) /\ ~Registering(call) /\ Deleting(call) /\ ~Sweeping(call)
           /\ call \in DeleteCall /\ call.todo \in Seq(Nat)
           /\ DeleteInv(call, catalog.capsules, broken)
<1>1. Typed /\ CallInv(call, catalog, broken, data_of)
    BY Parts
<1>2. ~Writing(call) /\ ~Registering(call) /\ Deleting(call) /\ ~Sweeping(call)
    BY DEF Writing, Registering, Deleting, Sweeping
<1>3. call \in DeleteCall
    <2>1. call \in Call \cup {Idle}
        BY <1>1 DEF Typed
    <2> QED  BY <1>2, <2>1, CallKinds
<1>4. DeleteInv(call, catalog.capsules, broken)
    BY <1>1, <1>2 DEF CallInv
<1>5. call.todo \in Seq(Nat)
    BY <1>3 DEF DeleteCall
<1> QED  BY <1>2, <1>3, <1>4, <1>5

(* ReleaseFails: in memory every segment of the capsule is there.          *)
LEMMA ReleaseFailsStep ==
    ASSUME IndInv, ReleaseFails
    PROVE  IndInv'
<1> DEFINE seg == Head(call.todo)
<1>1. /\ call # Idle /\ call.pc = "release" /\ call.todo # << >> /\ call' = Idle
      /\ seg \notin DOMAIN metadata \/ OnNvram
    BY DEF ReleaseFails, Releasing, At, Return
<1>2. /\ UNCHANGED <<setup, encryptor, crashes, catalog, catalog_file, segments, data_of,
                     broken, torn, fails>>
      /\ metadata' = metadata /\ metadata_file' = metadata_file
      /\ abandoned' = abandoned
    BY DEF ReleaseFails, NoFail, UnchangedCatalog, UnchangedStorage, UnchangedSetup,
           UnchangedHistory
<1>3. OnNvram
    <2>1. SUFFICES ASSUME ~OnNvram PROVE FALSE
        OBVIOUS
    <2>2. Deleting(call) /\ ~Deregistering(call) /\ call.todo \in Seq(Nat)
        BY <1>1, DeleteRuns DEF Deregistering
    <2>3. Undisturbed(metadata, broken, torn, call)
        BY <2>1, Parts DEF Memory
    <2>4. 1 \in DOMAIN call.todo /\ seg = call.todo[1]
        BY <1>1, <2>2
    <2> QED  BY <1>1, <2>1, <2>2, <2>3, <2>4 DEF Undisturbed
<1>4. abandoned' \in SUBSET Nat
    BY <1>2, Parts DEF Typed
<1> QED  BY <1>1, <1>2, <1>3, <1>4, StopStep

(* The delete once it has given up a segment.                              *)
GivenUp(c, new) ==
    new \in DeleteCall /\ new.pc = "release" /\ new.id = c.id /\ new.todo = Tail(c.todo)

AfterRelease(c, new) ==
    /\ new # Idle /\ new \in Call
    /\ ~Writing(new) /\ ~Registering(new) /\ Deleting(new) /\ ~Deregistering(new)
    /\ ~Sweeping(new) /\ IsHeadTail(c.todo, Head(c.todo), new.todo)
    /\ 1 \in DOMAIN c.todo /\ c.todo[1] = Head(c.todo) /\ Head(c.todo) \in Nat
    /\ \A i \in DOMAIN new.todo :
        i + 1 \in DOMAIN c.todo /\ i + 1 # 1 /\ new.todo[i] = c.todo[i + 1]

LEMMA GivenUpFacts ==
    ASSUME NEW c, c \in DeleteCall, c.todo # << >>, NEW new, GivenUp(c, new)
    PROVE  AfterRelease(c, new)
<1> DEFINE s == c.todo
           t == Tail(s)
           m == Len(s)
<1>1. s \in Seq(Nat)
    BY DEF DeleteCall
<1>2. m \in Nat /\ m # 0 /\ DOMAIN s = 1 .. m /\ Head(s) = s[1] /\ s[1] \in Nat
    BY <1>1
<1>3. t \in Seq(Nat) /\ Len(t) = m - 1 /\ \A i \in 1 .. m - 1 : t[i] = s[i + 1]
    BY <1>1, HeadTailProperties
<1>4. DOMAIN t = 1 .. m - 1
    <2>1. DOMAIN t = 1 .. Len(t)
        BY <1>3
    <2> QED  BY <1>3, <2>1
<1>5. /\ new \in DeleteCall /\ new.pc = "release" /\ new.todo = t
    BY DEF GivenUp
<1>6. new # Idle /\ new \in Call
    BY <1>5, ModularAssumption DEF Call
<1>7. /\ ~Writing(new) /\ ~Registering(new) /\ Deleting(new) /\ ~Deregistering(new)
      /\ ~Sweeping(new)
    BY <1>5, <1>6 DEF Writing, Registering, Deleting, Deregistering, Sweeping
<1>8. IsHeadTail(s, Head(s), t)
    BY DEF IsHeadTail
<1> HIDE DEF t, m
<1>9. \A i \in DOMAIN t : i + 1 \in DOMAIN s /\ i + 1 # 1 /\ t[i] = s[i + 1]
    BY <1>2, <1>3, <1>4
<1> QED  BY <1>2, <1>5, <1>6, <1>7, <1>8, <1>9 DEF AfterRelease

LEMMA GivenUpInv ==
    ASSUME NEW c, NEW new, GivenUp(c, new), AfterRelease(c, new),
           NEW cat, NEW br, NEW d, DeleteInv(c, cat.capsules, br)
    PROVE  CallInv(new, cat, br, d)
<1>1. /\ ~Writing(new) /\ ~Sweeping(new) /\ ~Deregistering(new) /\ new.id = c.id
      /\ \A i \in DOMAIN new.todo : \E k \in DOMAIN c.todo : new.todo[i] = c.todo[k]
    BY DEF AfterRelease, GivenUp
<1>2. DeleteInv(new, cat.capsules, br)
    BY <1>1 DEF DeleteInv
<1> QED  BY <1>1, <1>2 DEF CallInv

(* ReleaseShared: one reference less, one claim less.                      *)
LEMMA ReleaseSharedStep ==
    ASSUME IndInv, ReleaseShared
    PROVE  IndInv'
<1> DEFINE seg == Head(call.todo)
           k == metadata[seg].ref_count - 1
<1>1. /\ Typed /\ catalog \in Catalog /\ metadata \in PFun(Nat, Segment)
      /\ MapInv(metadata, catalog, broken, torn, data_of, call)
    BY Parts DEF Typed
<1>2. /\ call # Idle /\ call.pc = "release" /\ call.todo # << >> /\ ~OnNvram
      /\ seg \in DOMAIN metadata /\ metadata[seg].ref_count > 1
      /\ Recounted(metadata, metadata', seg, k)
      /\ call' = [call EXCEPT !.todo = Tail(@)]
    BY DEF ReleaseShared, Releasing, At, Shared, Recounted
<1>3. /\ catalog' = catalog /\ catalog_file' = catalog_file /\ segments' = segments
      /\ metadata_file' = metadata_file /\ setup' = setup /\ abandoned' = abandoned /\ encryptor' = encryptor
      /\ crashes' = crashes /\ fails' = fails /\ data_of' = data_of /\ broken' = broken
      /\ torn' = torn
    BY DEF ReleaseShared, NoFail, UnchangedCatalog, UnchangedSetup, UnchangedHistory
<1>4. /\ ~Writing(call) /\ ~Registering(call) /\ Deleting(call) /\ ~Sweeping(call)
      /\ call \in DeleteCall /\ call.todo \in Seq(Nat)
      /\ DeleteInv(call, catalog.capsules, broken) /\ ~Deregistering(call)
    BY <1>2, DeleteRuns DEF Deregistering
<1>5. GivenUp(call, call')
    <2>1. Tail(call.todo) \in Seq(Nat)
        BY <1>2, <1>4, HeadTailProperties
    <2> QED  BY <1>2, <1>4, <2>1 DEF GivenUp, DeleteCall
<1>6. AfterRelease(call, call')
    BY <1>2, <1>4, <1>5, GivenUpFacts
<1>7. metadata[seg].ref_count \in Nat
    <2>1. metadata[seg] \in Segment
        BY <1>1, <1>2, PFunFacts
    <2> QED  BY <2>1 DEF Segment
<1>8. k \in Nat /\ k >= 1 /\ metadata[seg].ref_count = k + 1
    BY <1>2, <1>7
<1>9. seg = Head(call.todo)
    OBVIOUS
<1> HIDE DEF k, seg
<1>10. /\ metadata' \in PFun(Nat, Segment) /\ DOMAIN metadata' = DOMAIN metadata
       /\ metadata'[seg].ref_count = k
       /\ \A x \in DOMAIN metadata : x # seg => metadata'[x] = metadata[x]
       /\ \A x \in DOMAIN metadata : metadata'[x].content_hash = metadata[x].content_hash
    BY <1>1, <1>2, <1>8, RecountFacts
<1>11. /\ call' \in Call /\ ~Writing(call') /\ ~Registering(call') /\ Deleting(call')
       /\ ~Deregistering(call') /\ ~Sweeping(call') /\ IsHeadTail(call.todo, seg, call'.todo)
       /\ call'.id = call.id
       /\ \A i \in DOMAIN call'.todo : \E j \in DOMAIN call.todo : call'.todo[i] = call.todo[j]
    BY <1>5, <1>6, <1>9 DEF AfterRelease, GivenUp
<1>12. MapInv(metadata', catalog, broken, torn, data_of, call')
    <2>1. \A x \in DOMAIN metadata : SameAt(metadata, metadata', x)
        BY <1>10 DEF SameAt
    <2>2. MapInv(metadata', catalog, broken, torn, data_of, call)
        BY <1>1, <1>2, <2>1, MapInvKept
    <2> QED  BY <1>4, <1>11, <2>2 DEF MapInv
<1>13. CallInv(call', catalog, broken, data_of)
    BY <1>4, <1>5, <1>6, GivenUpInv
<1>14. Typed'
    BY <1>1, <1>3, <1>10, <1>11 DEF Typed
<1>15. Memory(metadata, catalog, segments, broken, abandoned, torn, call) /\ metadata_file = Empty
    BY <1>2, Parts
<1>16. Counted(metadata', catalog.capsules, broken, abandoned, call')
    <2>1. Claims(call) = call.todo /\ Claims(call') = call'.todo
        BY <1>4, <1>11 DEF Claims
    <2>2. ASSUME NEW x \in DOMAIN metadata'
          PROVE  /\ metadata'[x].ref_count >= 1
                 /\ metadata'[x].ref_count >= Held(catalog.capsules, DOMAIN catalog.capsules \ broken, x)
                                                + Times(call'.todo, x)
                 /\ x \notin abandoned =>
                    metadata'[x].ref_count = Held(catalog.capsules, DOMAIN catalog.capsules \ broken, x)
                                                + Times(call'.todo, x)
        <3> DEFINE H == Held(catalog.capsules, DOMAIN catalog.capsules \ broken, x)
                   r == metadata[x].ref_count
                   s == metadata'[x].ref_count
                   t == Times(call.todo, x)
                   u == Times(call'.todo, x)
        <3>1. r >= 1 /\ r \in Nat /\ r >= H + t /\ (x \notin abandoned => r = H + t)
            BY <1>1, <1>10, <1>15, <2>1, CountTyped DEF Memory, Counted
        <3>2. t = u + (IF seg = x THEN 1 ELSE 0) /\ u \in Nat
            BY <1>4, <1>11, TimesTailed
        <3>3. H \in Nat
            <4>1. Capsules(catalog.capsules, Len(data_of))
                BY Parts
            <4> QED  BY <4>1, HeldNat
        <3>4. x = seg => s = k /\ r = k + 1
            BY <1>8, <1>10
        <3>5. x # seg => s = r
            BY <1>10
        <3> HIDE DEF H, r, s, t, u
        <3>6. s >= 1 /\ s >= H + u /\ (x \notin abandoned => s = H + u)
            BY <1>8, <3>1, <3>2, <3>3, <3>4, <3>5
        <3> QED  BY <3>6 DEF H, s, u
    <2> QED  BY <2>1, <2>2 DEF Counted
<1>17. Memory(metadata', catalog, segments, broken, abandoned, torn, call')
    <2>1. Payloads(metadata', segments)
        BY <1>10, <1>15 DEF Memory, Payloads
    <2>2. Undisturbed(metadata', broken, torn, call')
        BY <1>4, <1>10, <1>11, <1>15 DEF Memory, Undisturbed
    <2> QED  BY <1>16, <2>1, <2>2 DEF Memory
<1> QED  BY <1>2, <1>3, <1>12, <1>13, <1>14, <1>15, <1>17, Parts, Assemble

LEMMA TimesZero ==
    ASSUME NEW s, s \in Seq(Nat), NEW x, Times(s, x) = 0
    PROVE  \A i \in DOMAIN s : s[i] # x
<1> DEFINE U == {j \in DOMAIN s : s[j] = x}
<1>1. IsFiniteSet(U)
    <2>1. IsFiniteSet(1 .. Len(s)) /\ DOMAIN s = 1 .. Len(s)
        BY FS_Interval
    <2> QED  BY <2>1, FS_Subset
<1>2. Cardinality(U) = 0
    BY DEF Times
<1>3. U = {}
    BY <1>1, <1>2, FS_EmptySet
<1> QED  BY <1>3

LEMMA HeldZero ==
    ASSUME NEW caps, NEW n, Capsules(caps, n), NEW ids, ids \in SUBSET DOMAIN caps, NEW seg,
           Held(caps, ids, seg) = 0
    PROVE  \A id \in ids : \A i \in DOMAIN caps[id] : caps[id][i] # seg
<1>1. SUFFICES ASSUME NEW id \in ids PROVE \A i \in DOMAIN caps[id] : caps[id][i] # seg
    OBVIOUS
<1>2. /\ Held(caps, ids, seg) = Held(caps, ids \ {id}, seg) + Times(caps[id], seg)
      /\ Held(caps, ids \ {id}, seg) \in Nat /\ Times(caps[id], seg) \in Nat
    BY HeldSplits
<1> DEFINE s == caps[id]
<1>3. s \in Seq(Nat)
    BY DEF Capsules
<1>4. Times(s, seg) = 0
    BY <1>2
<1> HIDE DEF s
<1>5. \A i \in DOMAIN s : s[i] # seg
    BY <1>3, <1>4, TimesZero
<1> QED  BY <1>5 DEF s

(* A segment with one reference, of a capsule under deletion, is listed by *)
(* no capsule that is not; in memory the delete meets it once.             *)
LEMMA LastReference ==
    ASSUME IndInv, Deleting(call), ~Deregistering(call), call.todo # << >>,
           NEW seg, seg = Head(call.todo), seg \in DOMAIN metadata, ~Shared(seg)
    PROVE  /\ \A id \in DOMAIN catalog.capsules \ broken :
                \A i \in DOMAIN catalog.capsules[id] : catalog.capsules[id][i] # seg
           /\ ~OnNvram => \A i \in DOMAIN call.todo : i # 1 => call.todo[i] # seg
<1> DEFINE caps == catalog.capsules
           ids == DOMAIN caps \ broken
<1>1. call \in DeleteCall /\ call.todo \in Seq(Nat) /\ DeleteInv(call, caps, broken)
    BY DeleteRuns DEF Deleting
<1>2. 1 \in DOMAIN call.todo /\ call.todo[1] = seg
    BY <1>1
<1>3. CASE OnNvram
    <2>1. Unshared(caps)
        BY <1>3, Parts
    <2>2. PICK j \in DOMAIN caps[call.id] : seg = caps[call.id][j]
        BY <1>1, <1>2 DEF DeleteInv
    <2>3. call.id \in DOMAIN caps /\ call.id \in broken
        BY <1>1 DEF DeleteInv
    <2>4. ASSUME NEW id \in ids, NEW i \in DOMAIN caps[id] PROVE caps[id][i] # seg
        BY <2>1, <2>2, <2>3 DEF Unshared
    <2> QED  BY <1>3, <2>4
<1>4. CASE ~OnNvram
    <2> DEFINE s == call.todo
               t == Tail(s)
               m == Len(s)
               H == Held(caps, ids, seg)
    <2>1. Memory(metadata, catalog, segments, broken, abandoned, torn, call)
        BY <1>4, Parts
    <2>2. Claims(call) = s
        BY DEF Claims, Deleting, Writing
    <2>3. /\ metadata[seg].ref_count >= 1 /\ metadata[seg].ref_count >= H + Times(s, seg)
          /\ metadata[seg].ref_count \in Nat
        <3>1. metadata \in PFun(Nat, Segment)
            BY Parts DEF Typed
        <3> QED  BY <2>1, <2>2, <3>1, CountTyped DEF Memory, Counted
    <2>4. IsHeadTail(s, seg, t) /\ s \in Seq(Nat) /\ Capsules(caps, Len(data_of))
            /\ ids \in SUBSET DOMAIN caps /\ ids = DOMAIN caps \ broken
        BY <1>1, Parts DEF IsHeadTail
    <2>5. /\ m \in Nat /\ DOMAIN s = 1 .. m /\ t \in Seq(Nat) /\ Len(t) = m - 1
          /\ \A i \in 1 .. m - 1 : t[i] = s[i + 1]
        BY <1>1, HeadTailProperties
    <2>6. H = Held(caps, ids, seg) /\ s = call.todo
        OBVIOUS
    <2>7. ~(metadata[seg].ref_count > 1)
        BY DEF Shared
    <2> HIDE DEF s, t, m, H, ids, caps
    <2>8. /\ Times(s, seg) = Times(t, seg) + (IF seg = seg THEN 1 ELSE 0)
          /\ Times(s, seg) \in Nat /\ Times(t, seg) \in Nat
        BY <2>4, TimesTailed
    <2>9. H \in Nat
        BY <2>4, <2>6, HeldNat
    <2>10. metadata[seg].ref_count \in Nat
        BY <2>3, <2>8, <2>9
    <2>11. H = 0 /\ Times(t, seg) = 0
        BY <2>3, <2>7, <2>8, <2>9, <2>10
    <2>12. \A id \in ids : \A i \in DOMAIN caps[id] : caps[id][i] # seg
        BY <2>4, <2>6, <2>11, HeldZero
    <2>13. \A i \in DOMAIN t : t[i] # seg
        BY <2>5, <2>11, TimesZero
    <2>14. ASSUME NEW i \in DOMAIN s, i # 1 PROVE s[i] # seg
        <3>1. i - 1 \in 1 .. m - 1 /\ (i - 1) + 1 = i /\ DOMAIN t = 1 .. m - 1
            BY <2>5, <2>14
        <3>2. t[i - 1] = s[i]
            BY <2>5, <3>1
        <3> QED  BY <2>13, <3>1, <3>2
    <2> QED  BY <2>12, <2>14 DEF s, ids, caps
<1> QED  BY <1>3, <1>4

(* ReleaseLast: no other capsule loses a segment; until it is deregistered *)
(* the index may still point to it.                                        *)
LEMMA ReleaseLastStep ==
    ASSUME IndInv, ReleaseLast
    PROVE  IndInv'
<1> DEFINE seg == Head(call.todo)
           map2 == Drop(metadata, {seg})
           tn2 == torn \cup {seg}
<1>1. /\ Typed /\ catalog \in Catalog /\ metadata \in PFun(Nat, Segment)
      /\ metadata_file \in PFun(Nat, Segment) /\ segments \in PFun(Nat, Payload)
      /\ MapInv(metadata, catalog, broken, torn, data_of, call)
      /\ OnNvram => MapInv(metadata_file, catalog, broken, torn, data_of, call)
      /\ FileInv(catalog_file, catalog, broken, torn, Len(data_of))
    BY Parts DEF Typed
<1>2. /\ call # Idle /\ call.pc = "release" /\ call.todo # << >>
      /\ seg \in DOMAIN metadata /\ ~Shared(seg) /\ metadata' = map2
      /\ IsDrop(segments', segments, {seg}) /\ torn' = tn2
    BY DEF ReleaseLast, Releasing, At, IsDrop
<1>3. /\ catalog' = catalog /\ catalog_file' = catalog_file /\ setup' = setup
      /\ abandoned' = abandoned /\ encryptor' = encryptor /\ crashes' = crashes /\ data_of' = data_of
      /\ broken' = broken
    BY DEF ReleaseLast, UnchangedCatalog, UnchangedSetup
<1>4. \/ SaveMetadata /\ NoFail /\ Goto("deregister")
      \/ SaveMetadataFails /\ Return
    BY DEF ReleaseLast
<1>5. /\ ~Writing(call) /\ ~Registering(call) /\ Deleting(call) /\ ~Sweeping(call)
      /\ call \in DeleteCall /\ call.todo \in Seq(Nat)
      /\ DeleteInv(call, catalog.capsules, broken) /\ ~Deregistering(call)
    BY <1>2, DeleteRuns DEF Deregistering
<1>6. seg \in Nat /\ 1 \in DOMAIN call.todo /\ call.todo[1] = seg
    BY <1>2, <1>5
<1>7. seg = Head(call.todo)
    OBVIOUS
<1>8. /\ IsDrop(map2, metadata, {seg}) /\ DOMAIN map2 = DOMAIN metadata \ {seg}
      /\ \A x \in DOMAIN map2 : map2[x] = metadata[x]
    BY DEF IsDrop, Drop
<1>9. tn2 = torn \cup {seg} /\ tn2 \in SUBSET Nat
    BY <1>1, <1>6 DEF Typed
<1> HIDE DEF seg, map2, tn2
<1>10. map2 \in PFun(Nat, Segment) /\ segments' \in PFun(Nat, Payload)
    BY <1>1, <1>2, <1>8, DropFacts
<1>11. /\ \A id \in DOMAIN catalog.capsules \ broken :
            \A i \in DOMAIN catalog.capsules[id] : catalog.capsules[id][i] # seg
       /\ ~OnNvram => \A i \in DOMAIN call.todo : i # 1 => call.todo[i] # seg
    BY <1>2, <1>5, <1>7, LastReference
<1>12. \A x : x # seg => SameAt(metadata, map2, x)
    BY <1>8 DEF SameAt
<1>13. MapInv(map2, catalog, broken, tn2, data_of, call)
    <2>1. Whole(catalog.capsules, map2, broken, data_of)
        BY <1>1, <1>11, <1>12, WholeKept DEF MapInv
    <2>2. ContentIn(catalog.content, metadata, tn2)
        BY <1>1, <1>9 DEF MapInv, ContentIn
    <2>3. ContentIn(catalog.content, map2, tn2)
        BY <1>9, <1>12, <2>2, ContentKept
    <2>4. OnNvram => CountsOne(map2)
        BY <1>1, <1>8 DEF MapInv, CountsOne
    <2> QED  BY <1>5, <2>1, <2>3, <2>4 DEF MapInv
<1>14. FileInv(catalog_file, catalog, broken, tn2, Len(data_of))
    BY <1>1, <1>9 DEF FileInv
<1>15. fails' \in 0 .. MaxFails
    BY <1>1, <1>4, ModularAssumption DEF Typed, CanFail, NoFail, SaveMetadataFails
<1>16. CASE SaveMetadataFails /\ Return
    <2>1. OnNvram /\ call' = Idle /\ metadata_file' = metadata_file
        BY <1>16 DEF SaveMetadataFails, Return
    <2>2. MapInv(metadata_file, catalog, broken, tn2, data_of, call)
        <3>1. ContentIn(catalog.content, metadata_file, tn2)
            BY <1>1, <1>9, <2>1 DEF MapInv, ContentIn
        <3> QED  BY <1>1, <1>5, <2>1, <3>1 DEF MapInv
    <2>3. /\ MapInv(map2, catalog, broken, tn2, data_of, Idle)
          /\ MapInv(metadata_file, catalog, broken, tn2, data_of, Idle)
        BY <1>13, <2>2, MapInvIdle
    <2>4. Typed'
        BY <1>1, <1>2, <1>3, <1>9, <1>10, <1>15, <2>1 DEF Typed
    <2>5. CallInv(Idle, catalog, broken, data_of)
        BY CallInvIdle
    <2> QED  BY <1>2, <1>3, <1>14, <2>1, <2>3, <2>4, <2>5, Parts, Assemble
<1>17. CASE SaveMetadata /\ Goto("deregister")
    <2>1. /\ call' \in DeleteCall /\ call'.pc = "deregister" /\ call'.id = call.id
          /\ call'.todo = call.todo
        BY <1>5, <1>17 DEF Goto, DeleteCall
    <2>2. call' # Idle /\ call' \in Call
        BY <2>1, ModularAssumption DEF Call
    <2>3. /\ ~Writing(call') /\ ~Registering(call') /\ Deleting(call') /\ Deregistering(call')
          /\ ~Sweeping(call')
        BY <2>1, <2>2 DEF Writing, Registering, Deleting, Deregistering, Sweeping
    <2>4. metadata_file' = (IF OnNvram THEN map2 ELSE Empty)
        BY <1>2, <1>17 DEF SaveMetadata
    <2>5. metadata_file' \in PFun(Nat, Segment)
        BY <1>10, <2>4, EmptyFacts
    <2>6. MapInv(map2, catalog, broken, tn2, data_of, call')
        <3>1. Head(call'.todo) \in tn2
            BY <1>7, <1>9, <2>1
        <3> QED  BY <1>5, <1>13, <2>3, <3>1 DEF MapInv
    <2>7. CallInv(call', catalog, broken, data_of)
        <3>1. DeleteInv(call', catalog.capsules, broken)
            BY <1>2, <1>5, <2>1 DEF DeleteInv
        <3> QED  BY <2>3, <3>1 DEF CallInv
    <2>8. Typed'
        BY <1>1, <1>2, <1>3, <1>9, <1>10, <1>15, <2>2, <2>5 DEF Typed
    <2>9. ASSUME ~OnNvram
          PROVE  Memory(map2, catalog, segments', broken, abandoned, tn2, call')
        <3>1. Memory(metadata, catalog, segments, broken, abandoned, torn, call)
            BY <2>9, Parts
        <3>2. Claims(call') = Claims(call)
            BY <1>5, <2>1, <2>3 DEF Claims
        <3>3. Counted(map2, catalog.capsules, broken, abandoned, call')
            BY <1>8, <3>1, <3>2 DEF Memory, Counted
        <3>4. Payloads(map2, segments')
            <4>1. DOMAIN segments' = DOMAIN segments \ {seg}
                    /\ \A x \in DOMAIN segments' : segments'[x] = segments[x]
                BY <1>2 DEF IsDrop, Drop
            <4> QED  BY <1>8, <3>1, <4>1 DEF Memory, Payloads
        <3>5. torn = {} /\ broken = {call.id} /\ \A i \in DOMAIN call.todo : call.todo[i] \in DOMAIN metadata
            BY <1>5, <3>1 DEF Memory, Undisturbed
        <3>6. tn2 = {seg} /\ Head(call'.todo) = seg
            BY <1>7, <1>9, <2>1, <3>5
        <3>7. \A i \in DOMAIN call'.todo : i # 1 => call'.todo[i] \in DOMAIN map2
            BY <1>8, <1>11, <2>1, <2>9, <3>5
        <3>8. Undisturbed(map2, broken, tn2, call')
            BY <1>8, <2>1, <2>3, <3>5, <3>6, <3>7 DEF Undisturbed
        <3> QED  BY <3>3, <3>4, <3>8 DEF Memory
    <2> QED  BY <1>2, <1>3, <1>14, <2>4, <2>6, <2>7, <2>8, <2>9, Parts, Assemble
<1> QED  BY <1>4, <1>16, <1>17

(* The catalog without the index entries of a segment.                     *)
Deregistered(cat, new, seg) ==
    /\ new \in Catalog /\ new.capsules = cat.capsules /\ new.next_segment = cat.next_segment
    /\ \A h \in DOMAIN new.content :
        h \in DOMAIN cat.content /\ new.content[h] = cat.content[h] /\ cat.content[h] # seg
    /\ \A h \in DOMAIN cat.content : cat.content[h] # seg => h \in DOMAIN new.content

LEMMA DeregisterFacts ==
    ASSUME catalog \in Catalog, NEW seg, Deregister(seg)
    PROVE  Deregistered(catalog, catalog', seg)
<1> DEFINE cont == catalog.content
           gone == {h \in DOMAIN cont : cont[h] = seg}
           cont2 == Drop(cont, gone)
<1>1. catalog' = [catalog EXCEPT !.content = cont2]
    BY DEF Deregister
<1>2. IsDrop(cont2, cont, gone) /\ cont \in PFun(Chunks, Nat)
    BY CatalogFacts DEF IsDrop
<1>3. DOMAIN cont2 = DOMAIN cont \ gone /\ \A h \in DOMAIN cont2 : cont2[h] = cont[h]
    BY DEF Drop
<1>4. cont = catalog.content /\ gone = {h \in DOMAIN cont : cont[h] = seg}
    OBVIOUS
<1> HIDE DEF cont, gone, cont2
<1>5. cont2 \in PFun(Chunks, Nat)
    BY <1>2, DropFacts
<1>6. /\ catalog' \in Catalog /\ catalog'.capsules = catalog.capsules
      /\ catalog'.next_segment = catalog.next_segment /\ catalog'.content = cont2
    BY <1>1, <1>5 DEF Catalog
<1> QED  BY <1>3, <1>4, <1>6 DEF Deregistered

LEMMA DeregisteredKeeps ==
    ASSUME NEW cat, NEW new, NEW seg, Deregistered(cat, new, seg), NEW n, Bounds(cat, n)
    PROVE  /\ Bounds(new, n)
           /\ \A map, br, tn, d, c :
                MapInv(map, cat, br, tn, d, c) => MapInv(map, new, br, tn, d, c)
<1>1. Bounds(new, n)
    BY DEF Bounds, Deregistered
<1>2. ASSUME NEW map, NEW br, NEW tn, NEW d, NEW c, MapInv(map, cat, br, tn, d, c)
      PROVE  MapInv(map, new, br, tn, d, c)
    <2>1. ContentIn(new.content, map, tn)
        BY <1>2 DEF Deregistered, MapInv, ContentIn
    <2>2. new.capsules = cat.capsules
        BY DEF Deregistered
    <2> QED  BY <1>2, <2>1, <2>2 DEF MapInv
<1> QED  BY <1>1, <1>2

(* A catalog that was just saved.                                          *)
LEMMA FileInvFresh ==
    ASSUME NEW cat, cat \in Catalog, NEW n, n \in Nat, Bounds(cat, n), NEW br, NEW tn,
           OnNvram => Unshared(cat.capsules),
           NEW file, file = (IF setup = "registry" THEN cat ELSE EmptyCatalog)
    PROVE  FileInv(file, cat, br, tn, n) /\ file \in Catalog
<1>1. CASE setup = "registry"
    BY <1>1 DEF FileInv, Catalog
<1>2. CASE setup # "registry"
    <2>1. file = EmptyCatalog
        BY <1>2
    <2>2. /\ DOMAIN Empty = {} /\ Empty \in PFun(Nat, Seq(Nat)) /\ Empty \in PFun(Chunks, Nat)
        BY EmptyFacts
    <2>3. file.capsules = Empty /\ file.content = Empty /\ file.next_segment = 0
            /\ file \in Catalog
        BY <2>1, <2>2 DEF EmptyCatalog, Catalog
    <2>4. Bounds(file, n) /\ Unshared(file.capsules)
        BY <2>2, <2>3 DEF Bounds, Unshared
    <2>5. 0 <= cat.next_segment
        BY CatalogFacts
    <2> QED  BY <1>2, <2>1, <2>2, <2>3, <2>4, <2>5 DEF FileInv
<1> QED  BY <1>1, <1>2

LEMMA DeregisterContentStep ==
    ASSUME IndInv, DeregisterContent
    PROVE  IndInv'
<1> DEFINE seg == Head(call.todo)
           n == Len(data_of)
<1>1. /\ Typed /\ catalog \in Catalog /\ catalog_file \in Catalog /\ n \in Nat
      /\ Bounds(catalog, n)
      /\ MapInv(metadata, catalog, broken, torn, data_of, call)
      /\ OnNvram => MapInv(metadata_file, catalog, broken, torn, data_of, call)
      /\ FileInv(catalog_file, catalog, broken, torn, n)
    BY Parts
<1>2. call # Idle /\ call.pc = "deregister" /\ Deregister(seg)
    BY DEF DeregisterContent, At
<1>3. /\ metadata' = metadata /\ metadata_file' = metadata_file /\ segments' = segments
      /\ setup' = setup /\ abandoned' = abandoned /\ encryptor' = encryptor /\ crashes' = crashes
      /\ data_of' = data_of /\ broken' = broken
    BY DEF DeregisterContent, UnchangedStorage, UnchangedSetup
<1>4. \/ /\ SaveCatalog /\ NoFail /\ torn' = torn \ {seg}
         /\ call' = [call EXCEPT !.pc = "release", !.todo = Tail(@)]
      \/ SaveCatalogFails /\ Return /\ torn' = torn
    BY DEF DeregisterContent
<1>5. /\ ~Writing(call) /\ ~Registering(call) /\ Deleting(call) /\ ~Sweeping(call)
      /\ call \in DeleteCall /\ call.todo \in Seq(Nat)
      /\ DeleteInv(call, catalog.capsules, broken) /\ Deregistering(call)
    BY <1>2, DeleteRuns DEF Deregistering
<1>6. call.todo # << >> /\ seg \in torn
    BY <1>1, <1>5 DEF DeleteInv, MapInv
<1>7. Deregistered(catalog, catalog', seg)
    BY <1>1, <1>2, DeregisterFacts
<1>8. /\ catalog' \in Catalog /\ catalog'.capsules = catalog.capsules
      /\ catalog'.next_segment = catalog.next_segment
      /\ \A h \in DOMAIN catalog'.content : catalog'.content[h] # seg
      /\ \A h \in DOMAIN catalog.content : catalog.content[h] # seg =>
            h \in DOMAIN catalog'.content /\ catalog'.content[h] = catalog.content[h]
    BY <1>7 DEF Deregistered
<1> HIDE DEF seg, n
<1>9. /\ Bounds(catalog', n)
      /\ \A map, br, tn, d, c :
            MapInv(map, catalog, br, tn, d, c) => MapInv(map, catalog', br, tn, d, c)
    BY <1>1, <1>7, DeregisteredKeeps
<1>10. OnNvram => Unshared(catalog'.capsules)
    BY <1>8, Parts
<1>11. fails' \in 0 .. MaxFails
    BY <1>1, <1>4, ModularAssumption DEF Typed, CanFail, NoFail, SaveCatalogFails
<1>12. CASE SaveCatalogFails /\ Return /\ torn' = torn
    <2>1. OnNvram /\ call' = Idle /\ catalog_file' = catalog_file
        BY <1>12 DEF SaveCatalogFails, OnNvram, Return
    <2>2. FileInv(catalog_file, catalog', broken, torn, n)
        BY <1>1, <1>6, <1>8 DEF FileInv
    <2>3. /\ MapInv(metadata, catalog', broken, torn, data_of, Idle)
          /\ MapInv(metadata_file, catalog', broken, torn, data_of, Idle)
        BY <1>1, <1>9, <2>1, MapInvIdle
    <2>4. Typed'
        BY <1>1, <1>3, <1>8, <1>11, <1>12, <2>1 DEF Typed
    <2>5. CallInv(Idle, catalog', broken, data_of)
        BY CallInvIdle
    <2> QED  BY <1>3, <1>9, <1>10, <1>12, <2>1, <2>2, <2>3, <2>4, <2>5, Assemble DEF n
<1>13. CASE /\ SaveCatalog /\ torn' = torn \ {seg}
            /\ call' = [call EXCEPT !.pc = "release", !.todo = Tail(@)]
    <2>1. GivenUp(call, call')
        <3>1. Tail(call.todo) \in Seq(Nat)
            BY <1>5, <1>6, HeadTailProperties
        <3> QED  BY <1>5, <1>13, <3>1 DEF GivenUp, DeleteCall
    <2>2. AfterRelease(call, call')
        BY <1>5, <1>6, <2>1, GivenUpFacts
    <2>3. /\ call' \in Call /\ ~Writing(call') /\ ~Registering(call') /\ Deleting(call')
          /\ ~Deregistering(call') /\ ~Sweeping(call') /\ IsHeadTail(call.todo, seg, call'.todo)
          /\ call'.id = call.id
          /\ \A i \in DOMAIN call'.todo :
                i + 1 \in DOMAIN call.todo /\ i + 1 # 1 /\ call'.todo[i] = call.todo[i + 1]
        BY <2>1, <2>2 DEF AfterRelease, GivenUp, seg
    <2>4. ASSUME NEW map, MapInv(map, catalog, broken, torn, data_of, call)
          PROVE  MapInv(map, catalog', broken, torn', data_of, call')
        <3>1. MapInv(map, catalog', broken, torn, data_of, call)
            BY <1>9, <2>4
        <3>2. ContentIn(catalog'.content, map, torn')
            BY <1>8, <1>13, <3>1 DEF MapInv, ContentIn
        <3> QED  BY <2>3, <3>1, <3>2 DEF MapInv
    <2>5. catalog_file' = (IF setup = "registry" THEN catalog' ELSE EmptyCatalog)
        BY <1>13 DEF SaveCatalog
    <2>6. FileInv(catalog_file', catalog', broken, torn', n) /\ catalog_file' \in Catalog
        BY <1>1, <1>8, <1>9, <1>10, <2>5, FileInvFresh
    <2>7. CallInv(call', catalog', broken, data_of)
        <3>1. DeleteInv(call, catalog'.capsules, broken)
            BY <1>5, <1>8
        <3> QED  BY <2>1, <2>2, <3>1, GivenUpInv
    <2>8. Typed'
        BY <1>1, <1>3, <1>8, <1>11, <1>13, <2>3, <2>6 DEF Typed
    <2>9. ASSUME ~OnNvram
          PROVE  Memory(metadata, catalog', segments, broken, abandoned, torn', call')
        <3>1. Memory(metadata, catalog, segments, broken, abandoned, torn, call)
            BY <2>9, Parts
        <3>2. /\ torn = {seg} /\ seg \notin DOMAIN metadata /\ broken = {call.id}
              /\ \A i \in DOMAIN call.todo : i # 1 => call.todo[i] \in DOMAIN metadata
            BY <1>5, <3>1 DEF Memory, Undisturbed, seg
        <3>3. Claims(call) = call.todo /\ Claims(call') = call'.todo
            BY <1>5, <2>3 DEF Claims
        <3>4. ASSUME NEW x \in DOMAIN metadata PROVE Times(call'.todo, x) = Times(call.todo, x)
            <4>1. /\ Times(call.todo, x) = Times(call'.todo, x) + (IF seg = x THEN 1 ELSE 0)
                  /\ Times(call'.todo, x) \in Nat
                BY <1>5, <2>3, TimesTailed
            <4>2. seg # x
                BY <3>2
            <4> QED  BY <4>1, <4>2
        <3>5. Counted(metadata, catalog'.capsules, broken, abandoned, call')
            BY <1>8, <3>1, <3>3, <3>4 DEF Memory, Counted
        <3>6. torn' = {} /\ \A i \in DOMAIN call'.todo : call'.todo[i] \in DOMAIN metadata
            BY <1>13, <2>3, <3>2
        <3>7. Undisturbed(metadata, broken, torn', call')
            BY <2>3, <3>2, <3>6 DEF Undisturbed
        <3> QED  BY <3>1, <3>5, <3>7 DEF Memory
    <2>10. ~OnNvram => metadata_file' = Empty
        BY <1>3, Parts
    <2> QED  BY <1>1, <1>3, <1>9, <1>10, <2>4, <2>6, <2>7, <2>8, <2>9, <2>10, Assemble DEF n
<1> QED  BY <1>4, <1>12, <1>13

LEMMA RemoveCapsuleStep ==
    ASSUME IndInv, RemoveCapsule
    PROVE  IndInv'
<1> DEFINE id == call.id
           n == Len(data_of)
           caps == catalog.capsules
           caps2 == Drop(caps, {id})
<1>1. /\ Typed /\ catalog \in Catalog /\ catalog_file \in Catalog /\ n \in Nat
      /\ Bounds(catalog, n)
      /\ MapInv(metadata, catalog, broken, torn, data_of, call)
      /\ OnNvram => MapInv(metadata_file, catalog, broken, torn, data_of, call)
      /\ FileInv(catalog_file, catalog, broken, torn, n)
    BY Parts
<1>2. call # Idle /\ call.pc = "release" /\ call.todo = << >> /\ call' = Idle
        /\ catalog' = [catalog EXCEPT !.capsules = caps2]
    BY DEF RemoveCapsule, At, Return
<1>3. /\ metadata' = metadata /\ metadata_file' = metadata_file /\ segments' = segments
      /\ setup' = setup /\ abandoned' = abandoned /\ encryptor' = encryptor /\ crashes' = crashes
      /\ data_of' = data_of /\ torn' = torn
    BY DEF RemoveCapsule, UnchangedStorage, UnchangedSetup
<1>4. \/ SaveCatalog /\ NoFail /\ broken' = broken \ {id}
      \/ SaveCatalogFails /\ broken' = broken
    BY DEF RemoveCapsule
<1>5. /\ ~Writing(call) /\ ~Registering(call) /\ Deleting(call) /\ ~Sweeping(call)
      /\ call \in DeleteCall /\ DeleteInv(call, caps, broken) /\ ~Deregistering(call)
    BY <1>2, DeleteRuns DEF Deregistering
<1>6. id \in DOMAIN caps /\ id \in broken
    BY <1>5 DEF DeleteInv
<1>7. /\ DOMAIN caps2 = DOMAIN caps \ {id} /\ \A z \in DOMAIN caps2 : caps2[z] = caps[z]
      /\ IsDrop(caps2, caps, {id}) /\ caps \in PFun(Nat, Seq(Nat)) /\ caps = catalog.capsules
    BY <1>1, CatalogFacts DEF Drop, IsDrop
<1> HIDE DEF caps, caps2, id, n
<1>8. caps2 \in PFun(Nat, Seq(Nat))
    BY <1>7, DropFacts
<1>9. /\ catalog' \in Catalog /\ catalog'.capsules = caps2
      /\ catalog'.content = catalog.content /\ catalog'.next_segment = catalog.next_segment
    BY <1>1, <1>2, <1>8 DEF Catalog
<1>10. Bounds(catalog', n)
    BY <1>1, <1>7, <1>9 DEF Bounds
<1>11. OnNvram => Unshared(catalog'.capsules)
    <2>1. OnNvram => Unshared(caps)
        BY <1>7, Parts
    <2> QED  BY <1>7, <1>9, <2>1 DEF Unshared
<1>12. ASSUME NEW map, MapInv(map, catalog, broken, torn, data_of, call)
       PROVE  MapInv(map, catalog', broken', torn, data_of, Idle)
    <2>1. \A z \in DOMAIN caps2 \ broken' : z \in DOMAIN caps \ broken
        BY <1>4, <1>7
    <2>2. Whole(caps2, map, broken', data_of)
        BY <1>7, <1>12, <2>1 DEF MapInv, Whole
    <2>3. ~Writing(Idle) /\ ~Registering(Idle) /\ ~Deregistering(Idle)
        BY DEF Writing, Registering, Deregistering
    <2> QED  BY <1>9, <1>12, <2>2, <2>3 DEF MapInv
<1>13. FileInv(catalog_file', catalog', broken', torn, n) /\ catalog_file' \in Catalog
    <2>1. CASE SaveCatalog
        <3>1. catalog_file' = (IF setup = "registry" THEN catalog' ELSE EmptyCatalog)
            BY <2>1 DEF SaveCatalog
        <3> QED  BY <1>1, <1>9, <1>10, <1>11, <3>1, FileInvFresh
    <2>2. CASE SaveCatalogFails /\ broken' = broken
        <3>1. catalog_file' = catalog_file
            BY <2>2 DEF SaveCatalogFails
        <3> QED  BY <1>1, <1>6, <1>7, <1>9, <2>2, <3>1 DEF FileInv
    <2> QED  BY <1>4, <2>1, <2>2
<1>14. fails' \in 0 .. MaxFails
    BY <1>1, <1>4, ModularAssumption DEF Typed, CanFail, NoFail, SaveCatalogFails
<1>15. Typed'
    <2>1. broken' \in SUBSET (1 .. Len(data_of))
        BY <1>1, <1>4 DEF Typed
    <2> QED  BY <1>1, <1>2, <1>3, <1>9, <1>13, <1>14, <2>1 DEF Typed
<1>16. CallInv(Idle, catalog', broken', data_of)
    BY CallInvIdle
<1>17. ASSUME ~OnNvram
       PROVE  Memory(metadata, catalog', segments, broken', abandoned, torn, Idle)
    <2>1. Memory(metadata, catalog, segments, broken, abandoned, torn, call)
        BY <1>17, Parts
    <2>2. broken = {id} /\ torn = {}
        BY <1>5, <2>1 DEF Memory, Undisturbed, id
    <2>3. broken' = {}
        BY <1>4, <1>17, <2>2 DEF SaveCatalogFails, OnNvram
    <2>4. Claims(call) = << >> /\ Claims(Idle) = << >>
        BY <1>2, <1>5 DEF Claims, Writing, Deleting
    <2>5. DOMAIN caps2 \ broken' = DOMAIN caps \ broken
        BY <1>7, <2>2, <2>3
    <2>6. \A x : Held(caps2, DOMAIN caps \ broken, x) = Held(caps, DOMAIN caps \ broken, x)
        <3> DEFINE ids == DOMAIN caps \ broken
        <3>1. \A z \in ids : caps2[z] = caps[z]
            BY <1>7, <2>5
        <3> HIDE DEF ids
        <3>2. \A x : Held(caps2, ids, x) = Held(caps, ids, x)
            BY <3>1, HeldSame
        <3> QED  BY <3>2 DEF ids
    <2>7. Counted(metadata, caps2, broken', abandoned, Idle)
        BY <1>7, <2>1, <2>4, <2>5, <2>6 DEF Memory, Counted
    <2>8. Undisturbed(metadata, broken', torn, Idle)
        BY <2>2, <2>3 DEF Undisturbed, Deleting, Deregistering, Sweeping
    <2> QED  BY <1>9, <2>1, <2>7, <2>8 DEF Memory
<1>18. ~OnNvram => metadata_file' = Empty
    BY <1>3, Parts
<1> QED  BY <1>1, <1>2, <1>3, <1>10, <1>11, <1>12, <1>13, <1>15, <1>16, <1>17, <1>18, Assemble DEF n

-----------------------------------------------------------------------------
(* garbage_collect                                                         *)

(* In memory nothing depends on which call without claims is running.      *)
LEMMA OtherCall ==
    ASSUME NEW map, NEW cat, NEW segs, NEW br, NEW ab, NEW tn, NEW c, NEW new,
           Memory(map, cat, segs, br, ab, tn, c),
           ~Writing(c), ~Deleting(c), ~Deregistering(c),
           ~Writing(new), ~Deleting(new), ~Deregistering(new)
    PROVE  Memory(map, cat, segs, br, ab, tn, new)
<1>1. Claims(new) = Claims(c)
    BY DEF Claims
<1>2. Counted(map, cat.capsules, br, ab, new)
    BY <1>1 DEF Memory, Counted
<1> QED  BY <1>2 DEF Memory, Undisturbed

LEMMA GarbageCollectStep ==
    ASSUME IndInv, GarbageCollect
    PROVE  IndInv'
<1> DEFINE caps == catalog.capsules
           victims == {seg \in DOMAIN metadata : ~Kept(seg)}
           known == {catalog.content[h] : h \in DOMAIN catalog.content}
<1>1. /\ Typed /\ catalog \in Catalog /\ metadata \in PFun(Nat, Segment)
      /\ MapInv(metadata, catalog, broken, torn, data_of, call)
    BY Parts DEF Typed
<1>2. /\ call = Idle /\ victims # {}
      /\ call' = [pc |-> "sweep", dereg |-> victims \cap known, remove |-> victims]
    BY DEF GarbageCollect
<1>3. /\ catalog' = catalog /\ catalog_file' = catalog_file /\ metadata' = metadata
      /\ metadata_file' = metadata_file /\ segments' = segments /\ setup' = setup
      /\ abandoned' = abandoned /\ encryptor' = encryptor /\ crashes' = crashes /\ fails' = fails
      /\ data_of' = data_of /\ broken' = broken /\ torn' = torn
    BY DEF GarbageCollect, NoFail, UnchangedCatalog, UnchangedStorage, UnchangedSetup,
           UnchangedHistory
<1>4. \A seg : seg \in Referenced <=> Lists(caps, seg)
    BY DEF Referenced, Lists, ToSet
<1>5. ASSUME NEW seg \in DOMAIN metadata PROVE metadata[seg].ref_count > 0
    <2>1. metadata[seg].ref_count \in Nat
        BY <1>1, CountTyped
    <2>2. metadata[seg].ref_count = 1 \/ metadata[seg].ref_count >= 1
        BY <1>1, Parts DEF MapInv, CountsOne, Memory, Counted
    <2> QED  BY <2>1, <2>2
<1>6. ASSUME NEW seg \in victims PROVE ~Lists(caps, seg)
    BY <1>4, <1>5 DEF Kept
<1>7. victims \in SUBSET Nat /\ DOMAIN metadata \in SUBSET Nat
    BY <1>1, PFunFacts
<1> HIDE DEF victims
<1>8. call' \in SweepCall
    BY <1>2, <1>7 DEF SweepCall
<1>9. call' # Idle /\ call' \in Call
    BY <1>8, ModularAssumption DEF Call
<1>10. call'.pc = "sweep" /\ call'.dereg = victims \cap known /\ call'.remove = victims
    BY <1>2
<1>11. /\ ~Writing(call') /\ ~Registering(call') /\ ~Deleting(call') /\ ~Deregistering(call')
       /\ Sweeping(call')
    BY <1>9, <1>10 DEF Writing, Registering, Deleting, Deregistering, Sweeping
<1>12. Typed'
    BY <1>1, <1>3, <1>9 DEF Typed
<1>13. \A map : MapInv(map, catalog, broken, torn, data_of, call)
                => MapInv(map, catalog, broken, torn, data_of, call')
    BY <1>11 DEF MapInv
<1>14. CallInv(call', catalog, broken, data_of)
    <2>1. SweepInv(call', catalog)
        BY <1>6, <1>10 DEF SweepInv
    <2> QED  BY <1>11, <2>1 DEF CallInv
<1>15. ASSUME ~OnNvram
       PROVE  Memory(metadata, catalog, segments, broken, abandoned, torn, call')
    <2>1. Memory(metadata, catalog, segments, broken, abandoned, torn, call)
        BY <1>15, Parts
    <2>2. ~Writing(call) /\ ~Deleting(call) /\ ~Deregistering(call)
        BY <1>2 DEF Writing, Deleting, Deregistering
    <2> QED  BY <1>11, <2>1, <2>2, OtherCall
<1>16. ~OnNvram => metadata_file' = Empty
    BY <1>3, Parts
<1> QED  BY <1>3, <1>12, <1>13, <1>14, <1>15, <1>16, Parts, Assemble

LEMMA SweepRuns ==
    ASSUME IndInv, At("sweep")
    PROVE  /\ Sweeping(call) /\ call \in SweepCall /\ SweepInv(call, catalog)
           /\ ~Writing(call) /\ ~Registering(call) /\ ~Deleting(call) /\ ~Deregistering(call)
<1>1. /\ Sweeping(call) /\ ~Writing(call) /\ ~Registering(call) /\ ~Deleting(call)
      /\ ~Deregistering(call)
    BY DEF At, Sweeping, Writing, Registering, Deleting, Deregistering
<1>2. call \in Call \cup {Idle} /\ CallInv(call, catalog, broken, data_of)
    BY Parts DEF Typed
<1>3. call \in SweepCall
    BY <1>1, <1>2, CallKinds
<1>4. SweepInv(call, catalog)
    BY <1>1, <1>2 DEF CallInv
<1> QED  BY <1>1, <1>3, <1>4

(* The sweep that goes on.                                                 *)
LEMMA SweepCalls ==
    ASSUME NEW c, c \in SweepCall
    PROVE  /\ c # Idle /\ c \in Call /\ ~Writing(c) /\ ~Registering(c) /\ ~Deleting(c)
           /\ ~Deregistering(c) /\ Sweeping(c)
<1>1. c # Idle /\ c \in Call
    BY ModularAssumption DEF Call
<1>2. c.pc = "sweep"
    BY DEF SweepCall
<1> QED  BY <1>1, <1>2 DEF Writing, Registering, Deleting, Deregistering, Sweeping

LEMMA SweepDeregisterStep ==
    ASSUME IndInv, SweepDeregister
    PROVE  IndInv'
<1> DEFINE n == Len(data_of)
<1>1. /\ Typed /\ catalog \in Catalog /\ catalog_file \in Catalog /\ n \in Nat
      /\ Bounds(catalog, n)
      /\ MapInv(metadata, catalog, broken, torn, data_of, call)
      /\ OnNvram => MapInv(metadata_file, catalog, broken, torn, data_of, call)
      /\ FileInv(catalog_file, catalog, broken, torn, n)
    BY Parts
<1>2. /\ Sweeping(call) /\ call \in SweepCall /\ SweepInv(call, catalog)
      /\ ~Writing(call) /\ ~Registering(call) /\ ~Deleting(call) /\ ~Deregistering(call)
    BY SweepRuns DEF SweepDeregister
<1>3. PICK seg \in call.dereg :
        /\ Deregister(seg)
        /\ \/ SaveCatalog /\ NoFail /\ UNCHANGED torn
              /\ call' = [call EXCEPT !.dereg = @ \ {seg}]
           \/ SaveCatalogFails /\ Return /\ torn' = torn \cup {seg}
    BY DEF SweepDeregister
<1>4. /\ metadata' = metadata /\ metadata_file' = metadata_file /\ segments' = segments
      /\ setup' = setup /\ abandoned' = abandoned /\ encryptor' = encryptor /\ crashes' = crashes
      /\ data_of' = data_of /\ broken' = broken
    BY DEF SweepDeregister, UnchangedStorage, UnchangedSetup
<1>5. seg \in Nat
    BY <1>2 DEF SweepCall
<1>6. Deregistered(catalog, catalog', seg)
    BY <1>1, <1>3, DeregisterFacts
<1>7. /\ catalog' \in Catalog /\ catalog'.capsules = catalog.capsules
      /\ catalog'.next_segment = catalog.next_segment
      /\ \A h \in DOMAIN catalog'.content : /\ h \in DOMAIN catalog.content
                                            /\ catalog'.content[h] = catalog.content[h]
                                            /\ catalog'.content[h] # seg
      /\ \A h \in DOMAIN catalog.content : catalog.content[h] # seg =>
            h \in DOMAIN catalog'.content /\ catalog'.content[h] = catalog.content[h]
    BY <1>6 DEF Deregistered
<1> HIDE DEF n
<1>8. /\ Bounds(catalog', n)
      /\ \A map, br, tn, d, c :
            MapInv(map, catalog, br, tn, d, c) => MapInv(map, catalog', br, tn, d, c)
    BY <1>1, <1>6, DeregisteredKeeps
<1>9. OnNvram => Unshared(catalog'.capsules)
    BY <1>7, Parts
<1>10. fails' \in 0 .. MaxFails
    BY <1>1, <1>3, ModularAssumption DEF Typed, CanFail, NoFail, SaveCatalogFails
<1>11. CASE SaveCatalogFails /\ Return /\ torn' = torn \cup {seg}
    <2>1. call' = Idle /\ catalog_file' = catalog_file /\ OnNvram
        BY <1>11 DEF SaveCatalogFails, Return, OnNvram
    <2>2. FileInv(catalog_file, catalog', broken, torn', n)
        BY <1>1, <1>7, <1>11 DEF FileInv
    <2>3. ASSUME NEW map, MapInv(map, catalog, broken, torn, data_of, call)
          PROVE  MapInv(map, catalog', broken, torn', data_of, Idle)
        <3>1. MapInv(map, catalog', broken, torn, data_of, Idle)
            BY <1>8, <2>3, MapInvIdle
        <3>2. ContentIn(catalog'.content, map, torn')
            BY <1>11, <3>1 DEF MapInv, ContentIn
        <3>3. ~Deregistering(Idle)
            BY DEF Deregistering
        <3> QED  BY <3>1, <3>2, <3>3 DEF MapInv
    <2>4. Typed'
        BY <1>1, <1>4, <1>5, <1>7, <1>10, <1>11, <2>1 DEF Typed
    <2>5. CallInv(Idle, catalog', broken, data_of)
        BY CallInvIdle
    <2> QED  BY <1>1, <1>4, <1>8, <1>9, <2>1, <2>2, <2>3, <2>4, <2>5, Assemble DEF n
<1>12. CASE SaveCatalog /\ UNCHANGED torn /\ call' = [call EXCEPT !.dereg = @ \ {seg}]
    <2>1. call' \in SweepCall /\ call'.remove = call.remove /\ call'.dereg = call.dereg \ {seg}
        BY <1>2, <1>12 DEF SweepCall
    <2>2. /\ call' \in Call /\ ~Writing(call') /\ ~Registering(call') /\ ~Deleting(call')
          /\ ~Deregistering(call') /\ Sweeping(call')
        BY <2>1, SweepCalls
    <2>3. \A map : MapInv(map, catalog, broken, torn, data_of, call)
                    => MapInv(map, catalog', broken, torn, data_of, call')
        <3>1. \A map : MapInv(map, catalog', broken, torn, data_of, call)
                    => MapInv(map, catalog', broken, torn, data_of, call')
            BY <2>2 DEF MapInv
        <3> QED  BY <1>8, <3>1
    <2>4. catalog_file' = (IF setup = "registry" THEN catalog' ELSE EmptyCatalog)
        BY <1>12 DEF SaveCatalog
    <2>5. FileInv(catalog_file', catalog', broken, torn, n) /\ catalog_file' \in Catalog
        BY <1>1, <1>7, <1>8, <1>9, <2>4, FileInvFresh
    <2>6. CallInv(call', catalog', broken, data_of)
        <3>1. SweepInv(call', catalog')
            BY <1>2, <1>7, <2>1 DEF SweepInv
        <3> QED  BY <2>2, <3>1 DEF CallInv
    <2>7. Typed'
        BY <1>1, <1>4, <1>7, <1>10, <1>12, <2>2, <2>5 DEF Typed
    <2>8. ASSUME ~OnNvram
          PROVE  Memory(metadata, catalog', segments, broken, abandoned, torn, call')
        <3>1. Memory(metadata, catalog, segments, broken, abandoned, torn, call)
            BY <2>8, Parts
        <3>2. Memory(metadata, catalog', segments, broken, abandoned, torn, call)
            BY <1>7, <3>1 DEF Memory
        <3> QED  BY <1>2, <2>2, <3>2, OtherCall
    <2>9. ~OnNvram => metadata_file' = Empty
        BY <1>4, Parts
    <2> QED  BY <1>1, <1>4, <1>8, <1>9, <1>12, <2>3, <2>5, <2>6, <2>7, <2>8, <2>9, Assemble DEF n
<1> QED  BY <1>3, <1>11, <1>12

(* The map without segments that are neither listed nor indexed.           *)
Unneeded(cat, X) ==
    /\ \A seg \in X : ~Lists(cat.capsules, seg)
    /\ \A h \in DOMAIN cat.content : cat.content[h] \notin X

Swept(map, new, X) ==
    /\ new \in PFun(Nat, Segment)
    /\ DOMAIN new = DOMAIN map \ X /\ \A x \in DOMAIN new : new[x] = map[x]

LEMMA SweptMap ==
    ASSUME NEW map, map \in PFun(Nat, Segment), NEW new, NEW X, IsDrop(new, map, X),
           NEW cat, Unneeded(cat, X),
           NEW br, NEW tn, NEW d, NEW c, MapInv(map, cat, br, tn, d, c),
           ~Writing(c), ~Registering(c)
    PROVE  MapInv(new, cat, br, tn, d, c) /\ Swept(map, new, X)
<1>1. DOMAIN new = DOMAIN map \ X /\ \A x \in DOMAIN new : new[x] = map[x]
    BY DEF IsDrop, Drop
<1>2. new \in PFun(Nat, Segment)
    BY DropFacts
<1>3. \A x : x \notin X => SameAt(map, new, x)
    BY <1>1 DEF SameAt
<1>4. Whole(cat.capsules, new, br, d)
    <2>1. \A id \in DOMAIN cat.capsules \ br : \A i \in DOMAIN cat.capsules[id] :
            SameAt(map, new, cat.capsules[id][i])
        BY <1>3 DEF Lists, Unneeded
    <2> QED  BY <2>1, WholeKept DEF MapInv
<1>5. ContentIn(cat.content, new, tn)
    BY <1>3, ContentKept DEF MapInv, Unneeded
<1>6. OnNvram => CountsOne(new)
    BY <1>1 DEF MapInv, CountsOne
<1> QED  BY <1>1, <1>2, <1>4, <1>5, <1>6 DEF MapInv, Swept

(* SweepCommit: what it removes is neither listed nor indexed.             *)
LEMMA SweepCommitStep ==
    ASSUME IndInv, SweepCommit
    PROVE  IndInv'
<1>1. /\ Typed /\ catalog \in Catalog /\ metadata \in PFun(Nat, Segment)
      /\ MapInv(metadata, catalog, broken, torn, data_of, call)
      /\ OnNvram => MapInv(metadata_file, catalog, broken, torn, data_of, call)
      /\ metadata_file \in PFun(Nat, Segment)
    BY Parts DEF Typed
<1>2. /\ Sweeping(call) /\ call \in SweepCall /\ SweepInv(call, catalog)
      /\ ~Writing(call) /\ ~Registering(call) /\ ~Deleting(call) /\ ~Deregistering(call)
    BY SweepRuns DEF SweepCommit
<1>3. call.dereg = {}
    BY DEF SweepCommit
<1>4. /\ catalog' = catalog /\ catalog_file' = catalog_file /\ setup' = setup
      /\ abandoned' = abandoned /\ encryptor' = encryptor /\ crashes' = crashes
      /\ data_of' = data_of /\ broken' = broken /\ torn' = torn
    BY DEF SweepCommit, UnchangedCatalog, UnchangedSetup, UnchangedHistory
<1>5. /\ \A seg \in call.remove : ~Lists(catalog.capsules, seg)
      /\ \A h \in DOMAIN catalog.content : catalog.content[h] \notin call.remove
    BY <1>2, <1>3 DEF SweepInv
<1>6. CallInv(Idle, catalog, broken, data_of)
    BY CallInvIdle
<1>7. CASE OnNvram
    <2>1. PICK seg \in call.remove :
            /\ metadata' = Drop(metadata, {seg})
            /\ UNCHANGED segments
            /\ \/ /\ SaveMetadata /\ NoFail
                  /\ call' = IF call.remove = {seg} THEN Idle
                             ELSE [call EXCEPT !.remove = @ \ {seg}]
               \/ SaveMetadataFails /\ Return
        BY <1>7 DEF SweepCommit
    <2> DEFINE X == {seg}
    <2>2. IsDrop(metadata', metadata, X) /\ Unneeded(catalog, X)
        BY <1>5, <2>1 DEF IsDrop, Unneeded
    <2> HIDE DEF X
    <2>3. MapInv(metadata', catalog, broken, torn, data_of, call) /\ metadata' \in PFun(Nat, Segment)
        BY <1>1, <1>2, <2>2, SweptMap DEF Swept
    <2>4. /\ MapInv(metadata', catalog, broken, torn, data_of, Idle)
          /\ MapInv(metadata_file, catalog, broken, torn, data_of, Idle)
        BY <1>1, <1>7, <2>3, MapInvIdle
    <2>5. metadata_file' = metadata' \/ (metadata_file' = metadata_file /\ call' = Idle)
        BY <1>7, <2>1 DEF SaveMetadata, SaveMetadataFails, Return
    <2>6. fails' \in 0 .. MaxFails
        BY <1>1, <2>1, ModularAssumption DEF Typed, CanFail, NoFail, SaveMetadataFails
    <2>7. CASE call' = Idle
        <3>1. Typed'
            BY <1>1, <1>4, <2>1, <2>3, <2>5, <2>6, <2>7 DEF Typed
        <3> QED  BY <1>4, <1>6, <1>7, <2>4, <2>5, <2>7, <3>1, Parts, Assemble
    <2>8. CASE call' # Idle
        <3>1. metadata_file' = metadata' /\ call' = [call EXCEPT !.remove = @ \ {seg}]
            BY <2>1, <2>5, <2>8 DEF Return
        <3>2. call' \in SweepCall /\ call'.remove = call.remove \ {seg} /\ call'.dereg = call.dereg
            BY <1>2, <3>1 DEF SweepCall
        <3>3. /\ call' \in Call /\ ~Writing(call') /\ ~Registering(call') /\ ~Deleting(call')
              /\ ~Deregistering(call') /\ Sweeping(call')
            BY <3>2, SweepCalls
        <3>4. Typed'
            BY <1>1, <1>4, <2>1, <2>3, <2>6, <3>1, <3>3 DEF Typed
        <3>5. MapInv(metadata', catalog, broken, torn, data_of, call')
            BY <2>3, <3>3 DEF MapInv
        <3>6. CallInv(call', catalog, broken, data_of)
            <4>1. SweepInv(call', catalog)
                BY <1>3, <1>5, <3>2 DEF SweepInv
            <4> QED  BY <3>3, <4>1 DEF CallInv
        <3> QED  BY <1>4, <1>7, <3>1, <3>4, <3>5, <3>6, Parts, Assemble
    <2> QED  BY <2>7, <2>8
<1>8. CASE ~OnNvram
    <2> DEFINE X == call.remove
    <2>1. /\ IsDrop(metadata', metadata, X) /\ IsDrop(segments', segments, X)
          /\ fails' = fails /\ call' = Idle /\ metadata_file' = metadata_file
        BY <1>8 DEF SweepCommit, IsDrop, NoFail, Return
    <2>2. Unneeded(catalog, X)
        BY <1>5 DEF Unneeded
    <2> HIDE DEF X
    <2>3. /\ MapInv(metadata', catalog, broken, torn, data_of, call)
          /\ metadata' \in PFun(Nat, Segment) /\ DOMAIN metadata' = DOMAIN metadata \ X
          /\ \A x \in DOMAIN metadata' : metadata'[x] = metadata[x]
        BY <1>1, <1>2, <2>1, <2>2, SweptMap DEF Swept
    <2>4. MapInv(metadata', catalog, broken, torn, data_of, Idle)
        BY <2>3, MapInvIdle
    <2>5. segments \in PFun(Nat, Payload)
        BY <1>1 DEF Typed
    <2>6. /\ segments' \in PFun(Nat, Payload) /\ DOMAIN segments' = DOMAIN segments \ X
          /\ \A x \in DOMAIN segments' : segments'[x] = segments[x]
        <3>1. segments' \in PFun(Nat, Payload)
            BY <2>1, <2>5, DropFacts
        <3> QED  BY <2>1, <3>1 DEF IsDrop, Drop
    <2>7. Typed'
        BY <1>1, <1>4, <2>1, <2>3, <2>6 DEF Typed
    <2>8. Memory(metadata', catalog, segments', broken, abandoned, torn, Idle)
        <3>1. Memory(metadata, catalog, segments, broken, abandoned, torn, call)
            BY <1>8, Parts
        <3>2. ~Writing(Idle) /\ ~Deleting(Idle) /\ ~Deregistering(Idle)
            BY DEF Writing, Deleting, Deregistering
        <3>3. Memory(metadata, catalog, segments, broken, abandoned, torn, Idle)
            BY <1>2, <3>1, <3>2, OtherCall
        <3>4. Counted(metadata', catalog.capsules, broken, abandoned, Idle)
            BY <2>3, <3>3 DEF Memory, Counted
        <3>5. Payloads(metadata', segments')
            BY <2>3, <2>6, <3>3 DEF Memory, Payloads
        <3>6. Undisturbed(metadata', broken, torn, Idle)
            BY <3>2, <3>3 DEF Memory, Undisturbed
        <3> QED  BY <3>4, <3>5, <3>6 DEF Memory
    <2>9. metadata_file' = Empty
        BY <1>8, <2>1, Parts
    <2> QED  BY <1>4, <1>6, <1>8, <2>1, <2>4, <2>7, <2>8, <2>9, Parts, Assemble
<1> QED  BY <1>7, <1>8

-----------------------------------------------------------------------------
(* Restart: what the files say of each other.                              *)
LEMMA RestartStep ==
    ASSUME IndInv, Restart
    PROVE  IndInv'
<1> DEFINE n == Len(data_of)
<1>1. /\ Typed /\ catalog \in Catalog /\ catalog_file \in Catalog /\ n \in Nat
      /\ FileInv(catalog_file, catalog, broken, torn, n)
    BY Parts
<1>2. /\ OnNvram /\ metadata' = metadata_file /\ catalog' = catalog_file /\ call' = Idle
      /\ torn' = (IF setup = "registry" THEN torn ELSE {}) /\ crashes' \in 0 .. MaxCrashes
    BY <1>1, ModularAssumption DEF Restart, Return, Typed
<1>3. /\ setup' = setup /\ abandoned' = abandoned /\ encryptor' = encryptor /\ catalog_file' = catalog_file
      /\ metadata_file' = metadata_file /\ segments' = segments /\ data_of' = data_of
      /\ broken' = broken /\ fails' = fails
    BY DEF Restart
<1>4. MapInv(metadata_file, catalog, broken, torn, data_of, call)
    BY <1>2, Parts
<1>5. Bounds(catalog_file, n) /\ Unshared(catalog_file.capsules)
    BY <1>1, <1>2 DEF FileInv
<1>6. Whole(catalog_file.capsules, metadata_file, broken, data_of)
    BY <1>1, <1>4 DEF FileInv, MapInv, Whole
<1>7. ContentIn(catalog_file.content, metadata_file, torn')
    <2>1. CASE setup = "registry"
        BY <1>1, <1>2, <1>4, <2>1 DEF FileInv, MapInv, ContentIn
    <2>2. CASE setup # "registry"
        <3>1. catalog_file.content = Empty
            BY <1>1, <2>2 DEF FileInv, EmptyCatalog
        <3>2. DOMAIN Empty = {}
            BY EmptyFacts
        <3> QED  BY <3>1, <3>2 DEF ContentIn
    <2> QED  BY <2>1, <2>2
<1>8. MapInv(metadata_file, catalog_file, broken, torn', data_of, Idle)
    BY <1>4, <1>6, <1>7 DEF MapInv, Writing, Registering, Deregistering
<1>9. FileInv(catalog_file, catalog_file, broken, torn', n)
    <2>1. catalog_file.next_segment <= catalog_file.next_segment
        BY <1>1, CatalogFacts
    <2> QED  BY <1>1, <1>5, <2>1 DEF FileInv
<1>10. CallInv(Idle, catalog_file, broken, data_of)
    BY CallInvIdle
<1>11. Typed'
    BY <1>1, <1>2, <1>3 DEF Typed
<1> QED  BY <1>2, <1>3, <1>5, <1>8, <1>9, <1>10, <1>11, Assemble

-----------------------------------------------------------------------------
LEMMA StutterStep ==
    ASSUME IndInv, UNCHANGED vars
    PROVE  IndInv'
<1>1. /\ setup' = setup /\ abandoned' = abandoned /\ encryptor' = encryptor /\ catalog' = catalog
      /\ catalog_file' = catalog_file /\ metadata' = metadata
      /\ metadata_file' = metadata_file /\ segments' = segments /\ call' = call
      /\ data_of' = data_of /\ broken' = broken /\ torn' = torn /\ fails' = fails
      /\ crashes' = crashes
    BY DEF vars
<1>2. Typed'
    BY <1>1, Parts DEF Typed
<1> QED  BY <1>1, <1>2, Parts, Assemble

LEMMA StepKeeps ==
    ASSUME IndInv, [Next]_vars
    PROVE  IndInv'
<1>1. CASE \E data \in Datas, enc \in BOOLEAN : WriteCapsule(data, enc)
    BY <1>1, WriteCapsuleStep
<1>2. CASE DedupChunk
    BY <1>2, DedupChunkStep
<1>3. CASE StoreChunk
    BY <1>3, StoreChunkStep
<1>4. CASE RegisterContent
    BY <1>4, RegisterContentStep
<1>5. CASE CreateCapsule
    BY <1>5, CreateCapsuleStep
<1>6. CASE \E id \in CapsuleIds : DeleteCapsule(id)
    BY <1>6, DeleteCapsuleStep
<1>7. CASE ReleaseFails
    BY <1>7, ReleaseFailsStep
<1>8. CASE ReleaseShared
    BY <1>8, ReleaseSharedStep
<1>9. CASE ReleaseLast
    BY <1>9, ReleaseLastStep
<1>10. CASE DeregisterContent
    BY <1>10, DeregisterContentStep
<1>11. CASE RemoveCapsule
    BY <1>11, RemoveCapsuleStep
<1>12. CASE GarbageCollect
    BY <1>12, GarbageCollectStep
<1>13. CASE SweepDeregister
    BY <1>13, SweepDeregisterStep
<1>14. CASE SweepCommit
    BY <1>14, SweepCommitStep
<1>15. CASE Restart
    BY <1>15, RestartStep
<1>16. CASE EncryptRefuses
    BY <1>16, EncryptRefusesStep
<1>17. CASE UNCHANGED vars
    BY <1>17, StutterStep
<1> QED  BY <1>1, <1>2, <1>3, <1>4, <1>5, <1>6, <1>7, <1>8, <1>9, <1>10, <1>11, <1>12,
            <1>13, <1>14, <1>15, <1>16, <1>17 DEF Next

LEMMA IndInvHolds == Spec => []IndInv
<1>1. Init => IndInv
    BY StartHolds
<1>2. IndInv /\ [Next]_vars => IndInv'
    BY StepKeeps
<1> QED  BY <1>1, <1>2, PTL DEF Spec

-----------------------------------------------------------------------------
(* The state keeps its type: no index entry or capsule names a segment     *)
(* that was not handed out, and no stored segment has the count zero.      *)
THEOREM ModularTyped == Spec => []TypeOK
<1>1. IndInv => TypeOK
    BY TypeOKHolds
<1> QED  BY <1>1, IndInvHolds, PTL

(* write_capsule, delete_capsule, garbage_collect and restarts, for data   *)
(* and segments of any length, on every assembly: a capsule whose delete   *)
(* never began has all its segments, and their content hashes are those of *)
(* the chunks of its data, in order.  On NVRAM this says nothing of bytes. *)
THEOREM CapsulesDescribed == Spec => []SegmentsDescribed
<1>1. IndInv => SegmentsDescribed
    BY DescribedAndRead
<1> QED  BY <1>1, IndInvHolds, PTL

(* On the in-memory backend the payloads of such a capsule, put together,  *)
(* are its data, whatever writes failed and whatever was collected.        *)
THEOREM CapsulesReadBack == Spec => []ReadBack
<1>1. IndInv => ReadBack
    BY DescribedAndRead
<1> QED  BY <1>1, IndInvHolds, PTL

(* The ref_count that delete_capsule goes by covers every capsule that     *)
(* lists the segment; in memory, between calls, it is exact unless a write *)
(* that returned an error had counted the segment.                         *)
THEOREM CountsCover == Spec => []RefCountCovers
<1>1. IndInv => RefCountCovers
    BY RefCountCoversHolds
<1> QED  BY <1>1, IndInvHolds, PTL

(* The content index that write_capsule looks a chunk up in points to a    *)
(* stored segment of that content, but for segments whose removal or       *)
(* deregistration was cut short.                                           *)
THEOREM ContentIsLive == Spec => []ContentLive
<1>1. IndInv => ContentLive
    BY ContentLiveHolds
<1> QED  BY <1>1, IndInvHolds, PTL
=============================================================================

---------------------------- MODULE NvramLogProofs ----------------------------
(***************************************************************************)
(* Theorems about NvramLog, for every value of its constants: types,       *)
(* durability and append-only storage, atomic commits and aborts without   *)
(* trace.  IndInv is inductive when callers let a transaction run alone    *)
(* and keep the offset of its segments; commits need neither.              *)
(***************************************************************************)
EXTENDS NvramLog, SetLemmas

-----------------------------------------------------------------------------
(* Writes to the data file.                                                *)

(* What the type of a Segment says.                                        *)
LEMMA SegmentFacts ==
    ASSUME NEW s \in Segment
    PROVE  /\ s.id \in SegIds /\ s.offset \in Nat /\ s.len \in Nat
           /\ s.offset + s.len <= MaxOffset
BY LogAssumption DEF Segment

(* The bytes of entry i that are written lie in the file bound.            *)
LEMMA CountBound ==
    ASSUME NEW w \in Seq(Segment), NEW n \in Nat, NEW m \in Nat,
           n < Len(w) => m <= w[n + 1].len, NEW i \in DOMAIN w
    PROVE  /\ Count(w, n, m, i) \in 0 .. w[i].len
           /\ w[i].offset + Count(w, n, m, i) \in 0 .. MaxOffset
<1>1. w[i] \in Segment /\ i \in 1 .. Len(w) /\ Len(w) \in Nat
    OBVIOUS
<1>2. w[i].len \in Nat /\ w[i].offset \in Nat /\ w[i].offset + w[i].len <= MaxOffset
    BY <1>1, SegmentFacts
<1>3. Count(w, n, m, i) \in 0 .. w[i].len
    BY <1>1, <1>2 DEF Count
<1> QED  BY <1>2, <1>3, LogAssumption

(* The entries that hit an offset are positions of w.                      *)
LEMMA HitsType ==
    ASSUME NEW w \in Seq(Segment), NEW n, NEW m, NEW o
    PROVE  Hits(w, n, m, o) \in SUBSET (0 .. Len(w)) /\ Len(w) \in Nat
BY DEF Hits

(* Writing entries yields a file again.                                    *)
LEMMA WriteType ==
    ASSUME NEW f \in [Offsets -> Byte], NEW w \in Seq(Segment), NEW n \in Nat, NEW m \in Nat
    PROVE  WriteEntries(f, w, n, m) \in [Offsets -> Byte]
<1> SUFFICES ASSUME NEW o \in Offsets
             PROVE  WriteEntries(f, w, n, m)[o] \in Byte
    BY DEF WriteEntries
<1>1. CASE Hits(w, n, m, o) = {}
    BY <1>1 DEF WriteEntries
<1>2. CASE Hits(w, n, m, o) # {}
    <2> DEFINE i == Max(Hits(w, n, m, o))
    <2>1. i \in Hits(w, n, m, o)
        BY <1>2, HitsType, MaxOfBounded
    <2>2. i \in DOMAIN w /\ w[i].offset <= o
        BY <2>1 DEF Hits
    <2>3. w[i].id \in SegIds /\ w[i].offset \in Nat
        BY <2>2, SegmentFacts
    <2>4. o - w[i].offset \in Nat
        BY <2>2, <2>3, LogAssumption DEF Offsets
    <2>5. WriteEntries(f, w, n, m)[o] = <<w[i].id, o - w[i].offset>>
        BY <1>2 DEF WriteEntries
    <2> QED  BY <2>3, <2>4, <2>5 DEF Byte
<1> QED  BY <1>1, <1>2

(* Bytes below all entries keep their values.                              *)
LEMMA WriteBelow ==
    ASSUME NEW f, NEW w, NEW n, NEW m, NEW o \in Offsets,
           \A i \in DOMAIN w : ~(w[i].offset <= o)
    PROVE  WriteEntries(f, w, n, m)[o] = f[o]
BY DEF WriteEntries, Hits

(* A complete write of entries that lie one after another stores every     *)
(* byte of each of them.                                                   *)
LEMMA WriteComplete ==
    ASSUME NEW f, NEW w \in Seq(Segment),
           \A i, j \in DOMAIN w : i < j => w[i].offset + w[i].len <= w[j].offset,
           NEW i \in DOMAIN w, NEW k \in 0 .. (w[i].len - 1)
    PROVE  WriteEntries(f, w, Len(w), 0)[w[i].offset + k] = <<w[i].id, k>>
<1> DEFINE o == w[i].offset + k
           H == Hits(w, Len(w), 0, o)
<1>0. \A j \in DOMAIN w : w[j] \in Segment /\ j \in 1 .. Len(w)
    OBVIOUS
<1>1. \A j \in DOMAIN w : /\ j \in 1 .. Len(w)
                          /\ w[j].len \in Nat /\ w[j].offset \in Nat
                          /\ w[j].offset + w[j].len <= MaxOffset
    BY <1>0, SegmentFacts
<1>2. \A j \in DOMAIN w : Count(w, Len(w), 0, j) = w[j].len
    BY <1>1 DEF Count
<1>3. o \in Offsets
    BY <1>1, LogAssumption DEF Offsets
<1>4. i \in H
    BY <1>1, <1>2 DEF Hits
<1>5. ASSUME NEW j \in H PROVE j = i
    <2>1. j \in DOMAIN w /\ w[j].offset <= o /\ o < w[j].offset + w[j].len
        BY <1>2 DEF Hits
    <2>2. ~(j < i) /\ ~(i < j)
        BY <2>1, <1>1
    <2> QED  BY <2>1, <2>2, <1>1
<1>6. Max(H) \in H
    BY <1>4, HitsType, MaxOfBounded
<1>7. Max(H) = i
    BY <1>5, <1>6
<1>8. WriteEntries(f, w, Len(w), 0)[o] = <<w[i].id, o - w[i].offset>>
    BY <1>3, <1>4, <1>7 DEF WriteEntries
<1> QED  BY <1>8, <1>1

(* The new length covers the old one and every byte written.               *)
LEMMA ExtendBounds ==
    ASSUME NEW l \in 0 .. MaxOffset, NEW w \in Seq(Segment), NEW n \in Nat, NEW m \in Nat,
           n < Len(w) => m <= w[n + 1].len
    PROVE  /\ ExtendTo(l, w, n, m) \in 0 .. MaxOffset
           /\ l <= ExtendTo(l, w, n, m)
           /\ \A i \in DOMAIN w : Count(w, n, m, i) > 0 =>
                 w[i].offset + Count(w, n, m, i) <= ExtendTo(l, w, n, m)
<1> DEFINE E == {w[i].offset + Count(w, n, m, i) : i \in {j \in DOMAIN w : Count(w, n, m, j) > 0}}
           S == {l} \cup E
<1>1. S \in SUBSET (0 .. MaxOffset)
    BY CountBound
<1>2. l \in S /\ \A i \in DOMAIN w : Count(w, n, m, i) > 0 =>
                     w[i].offset + Count(w, n, m, i) \in S
    OBVIOUS
<1>3. ExtendTo(l, w, n, m) = Max(S)
    BY DEF ExtendTo
<1> HIDE DEF S
<1>4. Max(S) \in S /\ \A y \in S : y <= Max(S)
    BY <1>1, <1>2, MaxOfBounded, LogAssumption
<1> QED  BY <1>1, <1>2, <1>3, <1>4

-----------------------------------------------------------------------------
(* Type correctness.                                                       *)

(* The segment an append writes has the type of a Segment, its place the   *)
(* type of a Place.                                                        *)
LEMMA NewSegmentType ==
    ASSUME NEW id \in SegIds, NEW offset \in 0 .. MaxOffset, NEW len \in Lengths,
           offset + len <= MaxOffset
    PROVE  NewSegment(id, offset, len) \in Segment
BY LogAssumption DEF NewSegment, Segment

(* A promise of a place inside the file keeps the history well typed.      *)
LEMMA PromiseType ==
    ASSUME TypeOK, next_id < MaxSegments, NEW offset \in 0 .. MaxOffset, NEW len \in Lengths,
           NEW first \in SegIds, offset + len <= MaxOffset, Promise(offset, len, first)
    PROVE  next_id' \in 0 .. MaxSegments /\ home' \in [0 .. (next_id' - 1) -> Place]
<1>1. next_id \in Nat /\ next_id' = next_id + 1 /\ next_id' \in 0 .. MaxSegments
    BY LogAssumption DEF TypeOK, Promise
<1>2. [offset |-> offset, len |-> len, batch |-> first] \in Place
    BY LogAssumption DEF Place
<1>3. \A id \in 0 .. next_id : id # next_id => id \in 0 .. (next_id - 1)
    BY <1>1
<1>4. 0 .. (next_id' - 1) = 0 .. next_id
    BY <1>1
<1>5. \A id \in 0 .. next_id : home'[id] \in Place
    BY <1>2, <1>3 DEF Promise, TypeOK
<1> QED  BY <1>1, <1>4, <1>5 DEF Promise

(* A failing write leaves a file of the right type and does not shrink it. *)
LEMMA PartialWriteType ==
    ASSUME TypeOK, NEW w \in Seq(Segment), PartialWrite(w)
    PROVE  file' \in [Offsets -> Byte] /\ file_len' \in 0 .. MaxOffset
<1>1. PICK n \in 0 .. Len(w) :
        \E m \in (IF n < Len(w) THEN 0 .. w[n + 1].len ELSE {0}) :
            /\ file' = WriteEntries(file, w, n, m)
            /\ file_len' = ExtendTo(file_len, w, n, m)
    BY DEF PartialWrite
<1>2. PICK m \in (IF n < Len(w) THEN 0 .. w[n + 1].len ELSE {0}) :
            /\ file' = WriteEntries(file, w, n, m)
            /\ file_len' = ExtendTo(file_len, w, n, m)
    BY <1>1
<1>3. n \in Nat /\ m \in Nat /\ (n < Len(w) => m <= w[n + 1].len)
    BY <1>1, <1>2
<1> QED  BY <1>2, <1>3, WriteType, ExtendBounds DEF TypeOK

(* Inserting a Segment into a map of Segments yields one.                  *)
LEMMA InsertType ==
    ASSUME NEW map, DOMAIN map \subseteq SegIds, map \in [DOMAIN map -> Segment],
           NEW s \in Segment
    PROVE  /\ DOMAIN Insert(map, s) = DOMAIN map \cup {s.id}
           /\ DOMAIN Insert(map, s) \subseteq SegIds
           /\ Insert(map, s) \in [DOMAIN Insert(map, s) -> Segment]
BY SegmentFacts DEF Insert

(* Spending part of the budget of failures and crashes.                    *)
LEMMA BudgetType ==
    ASSUME NEW b \in [writes : Nat, saves : Nat, crashes : Nat]
    PROVE  /\ b.writes > 0 => [b EXCEPT !.writes = @ - 1] \in [writes : Nat, saves : Nat, crashes : Nat]
           /\ b.saves > 0 => [b EXCEPT !.saves = @ - 1] \in [writes : Nat, saves : Nat, crashes : Nat]
           /\ b.crashes > 0 => [b EXCEPT !.crashes = @ - 1] \in [writes : Nat, saves : Nat, crashes : Nat]
OBVIOUS

(* A client that has a transaction has one of the right type.              *)
LEMMA TransactionType ==
    ASSUME TypeOK, NEW c \in Clients, txn[c] # NoTxn
    PROVE  /\ txn[c] \in Transaction
           /\ txn[c] = [pending |-> txn[c].pending, base_offset |-> txn[c].base_offset,
                        current_offset |-> txn[c].current_offset]
           /\ txn[c].pending \in Seq(Segment)
           /\ \A i \in DOMAIN txn[c].pending : txn[c].pending[i] \in Segment
           /\ txn[c].base_offset \in 0 .. MaxOffset
           /\ txn[c].current_offset \in 0 .. MaxOffset
           /\ PendingIds(c) \subseteq SegIds
<1>1. txn[c] \in Transaction
    BY DEF TypeOK
<1>2. txn[c].pending \in Seq(Segment)
    BY <1>1 DEF Transaction
<1>3. \A i \in DOMAIN txn[c].pending : txn[c].pending[i] \in Segment
    BY <1>2
<1>4. PendingIds(c) \subseteq SegIds
    BY <1>3, SegmentFacts DEF PendingIds
<1> QED  BY <1>1, <1>2, <1>3, <1>4 DEF Transaction

(* Every step keeps the types.                                             *)
LEMMA TypeStep == TypeOK /\ [Next]_vars => TypeOK'
<1> SUFFICES ASSUME TypeOK, [Next]_vars PROVE TypeOK'
    OBVIOUS
<1> USE LogAssumption
<1>1. CASE UNCHANGED vars
    BY <1>1 DEF TypeOK, vars
<1>2. ASSUME NEW c \in Clients, NEW len \in Lengths, LogAppend(c, len)
      PROVE  TypeOK'
    <2> DEFINE s == NewSegment(next_id, next_offset, len)
    <2>1. next_id \in SegIds /\ next_offset \in 0 .. MaxOffset /\ next_offset + len <= MaxOffset
        BY <1>2 DEF LogAppend, TypeOK, SegIds
    <2>2. s \in Segment /\ s.id = next_id
        BY <2>1, NewSegmentType DEF NewSegment
    <2>3. <<s>> \in Seq(Segment) /\ Len(<<s>>) = 1
        BY <2>2
    <2>4. file' \in [Offsets -> Byte] /\ file_len' \in 0 .. MaxOffset
        <3>1. file \in [Offsets -> Byte] /\ file_len \in 0 .. MaxOffset
            BY DEF TypeOK
        <3>2. file' = WriteEntries(file, <<s>>, 1, 0) /\ file_len' = ExtendTo(file_len, <<s>>, 1, 0)
            BY <1>2 DEF LogAppend
        <3> HIDE DEF s
        <3>3. 1 \in Nat /\ 0 \in Nat /\ ~(1 < Len(<<s>>))
            BY <2>3
        <3>4. WriteEntries(file, <<s>>, 1, 0) \in [Offsets -> Byte]
            BY <2>3, <3>1, <3>3, WriteType
        <3>5. ExtendTo(file_len, <<s>>, 1, 0) \in 0 .. MaxOffset
            BY <2>3, <3>1, <3>3, ExtendBounds
        <3> QED  BY <3>2, <3>4, <3>5
    <2>5. next_id' \in 0 .. MaxSegments /\ home' \in [0 .. (next_id' - 1) -> Place]
        BY <1>2, <2>1, PromiseType DEF LogAppend
    <2>6. DOMAIN segment_map' \subseteq SegIds /\ segment_map' \in [DOMAIN segment_map' -> Segment]
        BY <1>2, <2>2, InsertType DEF LogAppend, TypeOK
    <2>7. next_offset' \in 0 .. MaxOffset
        BY <1>2, <2>1 DEF LogAppend
    <2>8. pc' \in [Clients -> PCs] /\ ack' \in [Clients -> SUBSET SegIds]
        BY <1>2, <2>1 DEF LogAppend, TypeOK, PCs
    <2> QED  BY <1>2, <2>4, <2>5, <2>6, <2>7, <2>8 DEF LogAppend, TypeOK
<1>3. ASSUME NEW c \in Clients, NEW len \in Lengths, LogAppendFails(c, len)
      PROVE  TypeOK'
    <2> DEFINE s == NewSegment(next_id, next_offset, len)
    <2>1. next_id \in SegIds /\ next_offset \in 0 .. MaxOffset /\ next_offset + len <= MaxOffset
        BY <1>3 DEF LogAppendFails, TypeOK, SegIds
    <2>2. <<s>> \in Seq(Segment)
        BY <2>1, NewSegmentType
    <2>3. file' \in [Offsets -> Byte] /\ file_len' \in 0 .. MaxOffset
        BY <1>3, <2>2, PartialWriteType DEF LogAppendFails
    <2>4. next_id' \in 0 .. MaxSegments /\ home' \in [0 .. (next_id' - 1) -> Place]
        BY <1>3, <2>1, PromiseType DEF LogAppendFails
    <2>5. budget' \in [writes : Nat, saves : Nat, crashes : Nat]
        BY <1>3, BudgetType DEF LogAppendFails, TypeOK
    <2> QED  BY <1>3, <2>3, <2>4, <2>5 DEF LogAppendFails, TypeOK
<1>4. ASSUME NEW c \in Clients, NEW len \in Lengths, AppendSegment(c, len)
      PROVE  TypeOK'
    <2> DEFINE x == txn[c]
               s == NewSegment(next_id, x.current_offset, len)
    <2>1. /\ next_id \in SegIds /\ x \in Transaction
          /\ x.current_offset \in 0 .. MaxOffset /\ x.current_offset + len \in 0 .. MaxOffset
        <3>1. next_id \in SegIds /\ x # NoTxn /\ x.current_offset + len <= MaxOffset
            BY <1>4 DEF AppendSegment, TypeOK, SegIds
        <3>2. x \in Transaction /\ x.current_offset \in 0 .. MaxOffset
            BY <3>1, TransactionType
        <3> QED  BY <3>1, <3>2
    <2>2. s \in Segment
        <3>1. x.current_offset + len <= MaxOffset
            BY <2>1
        <3> QED  BY <2>1, <3>1, NewSegmentType
    <2>3. Append(x.pending, s) \in Seq(Segment)
        BY <2>1, <2>2 DEF Transaction
    <2>4. txn' \in [Clients -> Transaction \cup {NoTxn}]
        BY <1>4, <2>1, <2>3 DEF AppendSegment, TypeOK, Transaction
    <2>5. (IF x.pending = <<>> THEN next_id ELSE x.pending[1].id) \in SegIds
        <3>1. x.pending \in Seq(Segment)
            BY <2>1 DEF Transaction
        <3>2. x.pending # <<>> => x.pending[1] \in Segment
            BY <3>1
        <3> QED  BY <2>1, <3>2, SegmentFacts
    <2>6. next_id' \in 0 .. MaxSegments /\ home' \in [0 .. (next_id' - 1) -> Place]
        BY <1>4, <2>1, <2>5, PromiseType DEF AppendSegment
    <2>7. \A d \in Clients : txn[d] # NoTxn => txn'[d] # NoTxn
        <3>1. txn'[c] # NoTxn
            BY <1>4, <2>1, <2>3 DEF AppendSegment, TypeOK, Transaction
        <3> QED  BY <1>4, <3>1 DEF AppendSegment, TypeOK
    <2> QED  BY <1>4, <2>1, <2>4, <2>6, <2>7 DEF AppendSegment, TypeOK, disk
<1>5. ASSUME NEW c \in Clients, SaveSegmentMap(c) PROVE TypeOK'
    BY <1>5 DEF SaveSegmentMap, TypeOK, PCs
<1>6. ASSUME NEW c \in Clients, SaveFails(c) PROVE TypeOK'
    BY <1>6, BudgetType DEF SaveFails, TypeOK, PCs
<1>7. ASSUME NEW c \in Clients, NEW id \in SegIds, GetSegmentMetadata(c, id) PROVE TypeOK'
    BY <1>7 DEF GetSegmentMetadata, TypeOK
<1>8. ASSUME NEW c \in Clients, NEW id \in SegIds, ChangeRefcount(c, id) PROVE TypeOK'
    BY <1>8 DEF ChangeRefcount, ChangeMap, TypeOK, PCs
<1>9. ASSUME NEW c \in Clients, NEW id \in SegIds, RemoveSegment(c, id) PROVE TypeOK'
    BY <1>9 DEF RemoveSegment, ChangeMap, TypeOK, PCs, Restrict
<1>10. ASSUME NEW c \in Clients, UpdateSegmentMetadata(c) PROVE TypeOK'
    <2>1. held[c] \in Segment
        BY <1>10 DEF UpdateSegmentMetadata, TypeOK
    <2>2. DOMAIN segment_map' \subseteq SegIds /\ segment_map' \in [DOMAIN segment_map' -> Segment]
        BY <1>10, <2>1, InsertType DEF UpdateSegmentMetadata, ChangeMap, TypeOK
    <2> QED  BY <1>10, <2>2 DEF UpdateSegmentMetadata, ChangeMap, TypeOK, PCs
<1>11. ASSUME NEW c \in Clients, BeginTransaction(c) PROVE TypeOK'
    <2>1. [pending |-> <<>>, base_offset |-> next_offset, current_offset |-> next_offset]
            \in Transaction
        BY DEF TypeOK, Transaction
    <2> QED  BY <1>11, <2>1 DEF BeginTransaction, TypeOK, disk, history
<1>12. ASSUME NEW c \in Clients, CommitEmpty(c) PROVE TypeOK'
    BY <1>12 DEF CommitEmpty, Idle, TypeOK, disk, history
<1>13. ASSUME NEW c \in Clients, CommitData(c) PROVE TypeOK'
    <2> DEFINE w == txn[c].pending
    <2>1. txn[c] \in Transaction
        BY <1>13 DEF CommitData, TypeOK
    <2>2. w \in Seq(Segment) /\ txn[c].current_offset \in 0 .. MaxOffset
        BY <2>1 DEF Transaction
    <2>3. file \in [Offsets -> Byte] /\ file_len \in 0 .. MaxOffset
        BY DEF TypeOK
    <2>4. file' \in [Offsets -> Byte] /\ file_len' \in 0 .. MaxOffset
        <3>1. file' = WriteEntries(file, w, Len(w), 0) /\ file_len' = ExtendTo(file_len, w, Len(w), 0)
            BY <1>13 DEF CommitData
        <3> HIDE DEF w
        <3>2. Len(w) \in Nat /\ 0 \in Nat /\ ~(Len(w) < Len(w))
            BY <2>2
        <3>3. WriteEntries(file, w, Len(w), 0) \in [Offsets -> Byte]
            BY <2>2, <2>3, <3>2, WriteType
        <3>4. ExtendTo(file_len, w, Len(w), 0) \in 0 .. MaxOffset
            BY <2>2, <2>3, <3>2, ExtendBounds
        <3> QED  BY <3>1, <3>3, <3>4
    <2> QED  BY <1>13, <2>2, <2>4 DEF CommitData, TypeOK, PCs, history
<1>14. ASSUME NEW c \in Clients, CommitFails(c) PROVE TypeOK'
    <2>1. txn[c] \in Transaction
        BY <1>14 DEF CommitFails, TypeOK
    <2>2. txn[c].pending \in Seq(Segment) /\ txn[c].base_offset \in 0 .. MaxOffset
        BY <2>1 DEF Transaction
    <2>3. file' \in [Offsets -> Byte] /\ file_len' \in 0 .. MaxOffset
        BY <1>14, <2>2, PartialWriteType DEF CommitFails
    <2>4. PendingIds(c) \subseteq SegIds
        BY <2>2, SegmentFacts DEF PendingIds
    <2>5. budget' \in [writes : Nat, saves : Nat, crashes : Nat]
        BY <1>14, BudgetType DEF CommitFails, TypeOK
    <2> QED  BY <1>14, <2>2, <2>3, <2>4, <2>5 DEF CommitFails, Idle, TypeOK
<1>15. ASSUME NEW c \in Clients, CommitMap(c) PROVE TypeOK'
    <2> DEFINE w == txn[c].pending
               entry(id) == w[CHOOSE i \in DOMAIN w : w[i].id = id]
    <2>1. /\ txn[c] # NoTxn /\ pc' = [pc EXCEPT ![c] = "commit_save"]
          /\ ack' = [ack EXCEPT ![c] = PendingIds(c)]
        BY <1>15 DEF CommitMap, TypeOK
    <2>2. segment_map' = [id \in DOMAIN segment_map \cup PendingIds(c) |->
                            IF id \in PendingIds(c) THEN entry(id) ELSE segment_map[id]]
        BY <1>15 DEF CommitMap
    <2>3. ASSUME NEW id \in PendingIds(c) PROVE entry(id) \in Segment
        <3>1. \E i \in DOMAIN w : w[i].id = id
            BY DEF PendingIds
        <3>2. (CHOOSE i \in DOMAIN w : w[i].id = id) \in DOMAIN w
            BY <3>1
        <3> QED  BY <2>1, <3>2, TransactionType
    <2>4. PendingIds(c) \subseteq SegIds
        BY <2>1, TransactionType
    <2> HIDE DEF entry
    <2>5. DOMAIN segment_map' \subseteq SegIds /\ segment_map' \in [DOMAIN segment_map' -> Segment]
        BY <2>2, <2>3, <2>4 DEF TypeOK
    <2>6. pc' \in [Clients -> PCs] /\ ack' \in [Clients -> SUBSET SegIds]
        BY <2>1, <2>4 DEF TypeOK, PCs
    <2>7. \A d \in Clients :
            pc'[d] \in {"commit_map", "commit_save", "drop"} => txn[d] # NoTxn
        BY <2>1 DEF TypeOK
    <2> HIDE DEF w
    <2>8. UNCHANGED <<up, disk, next_offset, txn, held, history, budget>>
        BY <1>15 DEF CommitMap
    <2> QED  BY <2>5, <2>6, <2>7, <2>8 DEF TypeOK, disk, history
<1>16. ASSUME NEW c \in Clients, Rollback(c) PROVE TypeOK'
    <2>1. txn[c] \in Transaction
        BY <1>16 DEF Rollback, TypeOK
    <2>2. txn[c].pending \in Seq(Segment) /\ txn[c].base_offset \in 0 .. MaxOffset
        BY <2>1 DEF Transaction
    <2>3. PendingIds(c) \subseteq SegIds
        BY <2>2, SegmentFacts DEF PendingIds
    <2> QED  BY <1>16, <2>2, <2>3 DEF Rollback, TypeOK, PCs, disk
<1>17. ASSUME NEW c \in Clients, NEW i \in 1 .. MaxSegments, SetSegmentMetadata(c, i)
       PROVE  TypeOK'
    <2> DEFINE x == txn[c]
               p == x.pending[i]
               y == [p EXCEPT !.offset = IF KeepOffset THEN @ ELSE 0]
    <2>1. x # NoTxn /\ i \in DOMAIN x.pending
        BY <1>17 DEF SetSegmentMetadata
    <2>2. x \in Transaction /\ x.pending \in Seq(Segment) /\ x.pending[i] \in Segment
        BY <2>1, TransactionType
    <2>3. y \in Segment
        <3>1. p \in [id : SegIds, offset : 0 .. MaxOffset, len : 0 .. MaxOffset]
              /\ p.offset + p.len <= MaxOffset
            BY <2>2 DEF Segment
        <3> HIDE DEF p
        <3>2. y = [p EXCEPT !.offset = p.offset] \/ y = [p EXCEPT !.offset = 0]
            OBVIOUS
        <3>3. y \in [id : SegIds, offset : 0 .. MaxOffset, len : 0 .. MaxOffset]
            BY <3>1, <3>2
        <3>4. y.offset + y.len <= MaxOffset
            BY <3>1, <3>2
        <3> HIDE DEF y
        <3> QED  BY <3>3, <3>4 DEF Segment
    <2>4. [x.pending EXCEPT ![i] = y] \in Seq(Segment)
        BY <2>1, <2>2, <2>3
    <2>5. txn' = [txn EXCEPT ![c] = [x EXCEPT !.pending = [x.pending EXCEPT ![i] = y]]]
        BY <1>17 DEF SetSegmentMetadata
    <2>6. [x EXCEPT !.pending = [x.pending EXCEPT ![i] = y]] \in Transaction
        BY <2>2, <2>4 DEF Transaction
    <2>7. txn' \in [Clients -> Transaction \cup {NoTxn}] /\ \A d \in Clients :
              txn[d] # NoTxn => txn'[d] # NoTxn
        BY <2>1, <2>5, <2>6 DEF TypeOK
    <2> QED  BY <1>17, <2>7 DEF SetSegmentMetadata, TypeOK, disk, history
<1>18. CASE Crash
    <2>1. budget' \in [writes : Nat, saves : Nat, crashes : Nat]
        BY <1>18, BudgetType DEF Crash, TypeOK
    <2>2. segments_file' = segments_file \/ segments_file' = Torn
        BY <1>18 DEF Crash
    <2>3. segments_file' # Torn => /\ DOMAIN segments_file' \subseteq SegIds
                                   /\ segments_file' \in [DOMAIN segments_file' -> Segment]
        BY <2>2 DEF TypeOK
    <2>4. DOMAIN segment_map' \subseteq SegIds /\ segment_map' \in [DOMAIN segment_map' -> Segment]
        BY <1>18 DEF Crash
    <2>5. /\ up' \in BOOLEAN /\ next_offset' \in 0 .. MaxOffset
          /\ txn' \in [Clients -> Transaction \cup {NoTxn}]
          /\ held' \in [Clients -> Segment \cup {NoCopy}]
          /\ pc' \in [Clients -> PCs] /\ ack' \in [Clients -> SUBSET SegIds]
          /\ \A c \in Clients : pc'[c] = "idle"
        <3>1. /\ up' = FALSE /\ next_offset' = 0
              /\ txn' = [c \in Clients |-> NoTxn] /\ held' = [c \in Clients |-> NoCopy]
              /\ pc' = [c \in Clients |-> "idle"] /\ ack' = [c \in Clients |-> {}]
            BY <1>18 DEF Crash
        <3>2. next_offset' \in 0 .. MaxOffset
            BY <3>1
        <3>6. up' \in BOOLEAN
            BY <3>1, Zenon
        <3>3. pc' \in [Clients -> PCs] /\ ack' \in [Clients -> SUBSET SegIds]
            BY <3>1 DEF PCs
        <3>4. txn' \in [Clients -> Transaction \cup {NoTxn}]
            BY <3>1, Zenon
        <3>5. held' \in [Clients -> Segment \cup {NoCopy}]
            BY <3>1, Zenon
        <3> QED  BY <3>1, <3>2, <3>3, <3>4, <3>5, <3>6
    <2>6. UNCHANGED <<file, file_len, history>>
        BY <1>18 DEF Crash
    <2> QED  BY <2>1, <2>3, <2>4, <2>5, <2>6 DEF TypeOK, history
<1>19. CASE Open
    BY <1>19 DEF Open, TypeOK, disk, history
<1> QED
    BY <1>1, <1>2, <1>3, <1>4, <1>5, <1>6, <1>7, <1>8, <1>9, <1>10, <1>11, <1>12, <1>13,
       <1>14, <1>15, <1>16, <1>17, <1>18, <1>19 DEF Next

(* THEOREM of type correctness: whatever the clients call, whatever fails  *)
(* and whenever the process crashes, every field of the log keeps its      *)
(* type; in particular no segment place leaves the bounds of the file.     *)
THEOREM TypeCorrect == Spec => []TypeOK
<1>1. Init => TypeOK
    BY LogAssumption DEF Init, TypeOK, PCs, Byte
<1> QED  BY <1>1, TypeStep, PTL DEF Spec

-----------------------------------------------------------------------------
(* The history of promised places.                                         *)

(* A promise adds one place and keeps the others.                          *)
LEMMA PromiseHome ==
    ASSUME TypeOK, NEW offset, NEW len, NEW first, Promise(offset, len, first)
    PROVE  /\ DOMAIN home = 0 .. (next_id - 1) /\ next_id \in Nat
           /\ DOMAIN home' = 0 .. next_id
           /\ next_id \notin DOMAIN home
           /\ \A id \in DOMAIN home : id \in DOMAIN home' /\ home'[id] = home[id]
           /\ next_id \in DOMAIN home'
           /\ home'[next_id] = [offset |-> offset, len |-> len, batch |-> first]
<1>1. DOMAIN home = 0 .. (next_id - 1) /\ next_id \in Nat
    BY LogAssumption DEF TypeOK
<1> QED  BY <1>1 DEF Promise

(* No step changes a place that was promised.                              *)
LEMMA HomeKept ==
    ASSUME TypeOK, [Next]_vars
    PROVE  \A id \in DOMAIN home : id \in DOMAIN home' /\ home'[id] = home[id]
<1>1. CASE UNCHANGED home
    BY <1>1
<1>2. CASE \E offset, len, first : Promise(offset, len, first)
    BY <1>2, PromiseHome
<1>3. ASSUME NEW c \in Clients, NEW len \in Lengths,
             LogAppend(c, len) \/ LogAppendFails(c, len) \/ AppendSegment(c, len)
      PROVE  \E offset, l, first : Promise(offset, l, first)
    BY <1>3 DEF LogAppend, LogAppendFails, AppendSegment
<1>4. (UNCHANGED home) \/ \E offset, len, first : Promise(offset, len, first)
    BY <1>3 DEF Next, vars, history, SaveSegmentMap, SaveFails, GetSegmentMetadata,
        ChangeRefcount, RemoveSegment, UpdateSegmentMetadata, ChangeMap, BeginTransaction,
        CommitEmpty, CommitData, CommitFails, CommitMap, Rollback, SetSegmentMetadata,
        Crash, Open
<1> QED  BY <1>1, <1>2, <1>4

(* s names the place promised for its id after the step.                   *)
AtNextHome(s) == /\ s.id \in DOMAIN home'
                 /\ PlaceOf(s) = [offset |-> home'[s.id].offset, len |-> home'[s.id].len]

(* A Segment at its promised place stays there.                            *)
LEMMA AtHomeKept ==
    ASSUME TypeOK, [Next]_vars, NEW s, AtHome(s)
    PROVE  AtNextHome(s)
BY HomeKept DEF AtHome, AtNextHome, HomeOf

(* A new Segment is at the place just promised for it.                     *)
LEMMA NewAtHome ==
    ASSUME TypeOK, NEW offset, NEW len, NEW first, Promise(offset, len, first)
    PROVE  AtNextHome(NewSegment(next_id, offset, len))
<1> DEFINE s == NewSegment(next_id, offset, len)
<1>1. s.id = next_id /\ s.offset = offset /\ s.len = len
    BY DEF NewSegment
<1>2. /\ next_id \in DOMAIN home'
      /\ home'[next_id].offset = offset /\ home'[next_id].len = len
    <2> DEFINE p == [offset |-> offset, len |-> len, batch |-> first]
    <2>1. next_id \in DOMAIN home' /\ home'[next_id] = p
        BY PromiseHome
    <2>2. p.offset = offset /\ p.len = len
        OBVIOUS
    <2> HIDE DEF p
    <2> QED  BY <2>1, <2>2
<1> HIDE DEF s
<1>3. AtNextHome(s)
    BY <1>1, <1>2 DEF AtNextHome, PlaceOf
<1> QED  BY <1>3 DEF s

(* What CopiesAgree says after a step.                                     *)
LEMMA CopiesNext ==
    ASSUME \A id \in DOMAIN segment_map' :
                segment_map'[id].id = id /\ AtNextHome(segment_map'[id]),
           segments_file' # Torn => \A id \in DOMAIN segments_file' :
                segments_file'[id].id = id /\ AtNextHome(segments_file'[id]),
           \A c \in Clients : held'[c] # NoCopy => AtNextHome(held'[c]),
           \A c \in Clients : txn'[c] # NoTxn =>
                \A i \in DOMAIN txn'[c].pending : AtNextHome(txn'[c].pending[i]),
           acked' \subseteq DOMAIN home',
           \A c \in Clients : ack'[c] \subseteq DOMAIN home'
    PROVE  CopiesAgree'
BY DEF CopiesAgree, MapAtHome, AtHome, AtNextHome, HomeOf, PlaceOf

(* What a step does not touch still agrees after it.                       *)
LEMMA CopiesFrame ==
    ASSUME TypeOK, CopiesAgree, [Next]_vars
    PROVE  /\ \A id \in DOMAIN segment_map :
                segment_map[id].id = id /\ AtNextHome(segment_map[id])
           /\ segments_file # Torn => \A id \in DOMAIN segments_file :
                segments_file[id].id = id /\ AtNextHome(segments_file[id])
           /\ \A c \in Clients : held[c] # NoCopy => AtNextHome(held[c])
           /\ \A c \in Clients : txn[c] # NoTxn =>
                \A i \in DOMAIN txn[c].pending : AtNextHome(txn[c].pending[i])
           /\ acked \subseteq DOMAIN home'
           /\ \A c \in Clients : ack[c] \subseteq DOMAIN home'
BY AtHomeKept, HomeKept DEF CopiesAgree, MapAtHome

(* Setting metadata with the offset kept leaves the transaction as it is.  *)
LEMMA OffsetKept ==
    ASSUME KeepOffset, TypeOK, NEW c \in Clients, NEW i, SetSegmentMetadata(c, i)
    PROVE  txn' = txn
<1> DEFINE x == txn[c]
           p == x.pending[i]
<1>1. /\ x # NoTxn /\ i \in DOMAIN x.pending
      /\ txn' = [txn EXCEPT ![c].pending[i].offset = @]
    BY DEF SetSegmentMetadata
<1>2. p \in Segment /\ x \in Transaction /\ x.pending \in Seq(Segment)
    BY <1>1, TransactionType
<1>3. [p EXCEPT !.offset = p.offset] = p
    BY <1>2 DEF Segment
<1>4. [x.pending EXCEPT ![i] = p] = x.pending
    BY <1>1, <1>2
<1>5. [x EXCEPT !.pending = x.pending] = x
    BY <1>2 DEF Transaction
<1>6. txn' = [txn EXCEPT ![c] = [x EXCEPT !.pending =
                 [x.pending EXCEPT ![i] = [p EXCEPT !.offset = p.offset]]]]
    BY <1>1
<1>7. txn' = [txn EXCEPT ![c] = x]
    BY <1>3, <1>4, <1>5, <1>6
<1> QED  BY <1>7 DEF TypeOK

(* Every step of callers that keep the offset of pending segments keeps    *)
(* all copies in agreement.                                                *)
LEMMA CopiesStep ==
    ASSUME KeepOffset, TypeOK, CopiesAgree, [Next]_vars
    PROVE  CopiesAgree'
<1> USE CopiesFrame
<1>1. CASE UNCHANGED vars
    BY <1>1, CopiesNext DEF vars
<1>2. ASSUME NEW c \in Clients, NEW len \in Lengths, LogAppend(c, len)
      PROVE  CopiesAgree'
    <2> DEFINE s == NewSegment(next_id, next_offset, len)
    <2>1. Promise(next_offset, len, next_id)
        BY <1>2 DEF LogAppend
    <2>2. AtNextHome(s) /\ s.id = next_id /\ next_id \in DOMAIN home'
        BY <2>1, NewAtHome, PromiseHome DEF NewSegment
    <2>3. segment_map' = Insert(segment_map, s)
        BY <1>2 DEF LogAppend
    <2> HIDE DEF s
    <2>4. \A id \in DOMAIN segment_map' :
                segment_map'[id].id = id /\ AtNextHome(segment_map'[id])
        BY <2>2, <2>3 DEF Insert
    <2>5. \A d \in Clients : ack'[d] \subseteq DOMAIN home'
        BY <1>2, <2>2 DEF LogAppend, TypeOK
    <2>6. UNCHANGED <<segments_file, txn, held, acked>>
        BY <1>2 DEF LogAppend
    <2> QED  BY <2>4, <2>5, <2>6, CopiesNext
<1>3. ASSUME NEW c \in Clients, NEW len \in Lengths, LogAppendFails(c, len)
      PROVE  CopiesAgree'
    <2>1. UNCHANGED <<segment_map, segments_file, txn, held, acked, ack>>
        BY <1>3 DEF LogAppendFails
    <2> QED  BY <2>1, CopiesNext
<1>4. ASSUME NEW c \in Clients, NEW len \in Lengths, AppendSegment(c, len)
      PROVE  CopiesAgree'
    <2> DEFINE x == txn[c]
               s == NewSegment(next_id, x.current_offset, len)
    <2>1. /\ x # NoTxn
          /\ Promise(x.current_offset, len, IF x.pending = <<>> THEN next_id
                                            ELSE x.pending[1].id)
          /\ txn' = [txn EXCEPT ![c].pending = Append(@, s),
                                ![c].current_offset = x.current_offset + len]
          /\ UNCHANGED <<segment_map, segments_file, held, acked, ack>>
        BY <1>4 DEF AppendSegment, disk
    <2>2. AtNextHome(s)
        BY <2>1, NewAtHome
    <2>3. x.pending \in Seq(Segment) /\ x \in Transaction
        BY <2>1, TransactionType
    <2> HIDE DEF s
    <2>4. txn'[c].pending = Append(x.pending, s) /\ \A d \in Clients \ {c} : txn'[d] = txn[d]
        BY <2>1, <2>3 DEF TypeOK, Transaction
    <2>5. \A i \in DOMAIN Append(x.pending, s) : AtNextHome(Append(x.pending, s)[i])
        <3> SUFFICES ASSUME NEW i \in DOMAIN Append(x.pending, s)
                     PROVE  AtNextHome(Append(x.pending, s)[i])
            OBVIOUS
        <3>1. CASE i \in DOMAIN x.pending
            <4>1. Append(x.pending, s)[i] = x.pending[i]
                BY <2>3, <3>1
            <4> QED  BY <2>1, <3>1, <4>1
        <3>2. CASE i \notin DOMAIN x.pending
            <4>1. Append(x.pending, s)[i] = s
                BY <2>3, <3>2
            <4> QED  BY <2>2, <4>1
        <3> QED  BY <3>1, <3>2
    <2>6. \A d \in Clients : txn'[d] # NoTxn =>
                \A i \in DOMAIN txn'[d].pending : AtNextHome(txn'[d].pending[i])
        BY <2>4, <2>5
    <2> QED  BY <2>1, <2>6, CopiesNext
<1>5. ASSUME NEW c \in Clients, SaveSegmentMap(c) PROVE CopiesAgree'
    <2>1. /\ segments_file' = segment_map /\ acked' = acked \cup ack[c]
          /\ ack' = [ack EXCEPT ![c] = {}]
          /\ txn' = txn \/ txn' = [txn EXCEPT ![c] = NoTxn]
          /\ UNCHANGED <<segment_map, held>>
        BY <1>5 DEF SaveSegmentMap
    <2>2. \A d \in Clients : ack'[d] \subseteq DOMAIN home'
        BY <2>1 DEF TypeOK
    <2>3. \A d \in Clients : txn'[d] = txn[d] \/ txn'[d] = NoTxn
        BY <2>1 DEF TypeOK
    <2> QED  BY <2>1, <2>2, <2>3, CopiesNext
<1>6. ASSUME NEW c \in Clients, SaveFails(c) PROVE CopiesAgree'
    <2>1. /\ ack' = [ack EXCEPT ![c] = {}]
          /\ UNCHANGED <<segment_map, segments_file, txn, held, acked>>
        BY <1>6 DEF SaveFails
    <2>2. \A d \in Clients : ack'[d] \subseteq DOMAIN home'
        BY <2>1 DEF TypeOK
    <2> QED  BY <2>1, <2>2, CopiesNext
<1>7. ASSUME NEW c \in Clients, NEW id \in SegIds, GetSegmentMetadata(c, id)
      PROVE  CopiesAgree'
    <2>1. /\ id \in DOMAIN segment_map
          /\ held' = [held EXCEPT ![c] = segment_map[id]]
          /\ UNCHANGED <<segment_map, segments_file, txn, acked, ack>>
        BY <1>7 DEF GetSegmentMetadata
    <2>2. \A d \in Clients : held'[d] # NoCopy => AtNextHome(held'[d])
        BY <2>1 DEF TypeOK
    <2> QED  BY <2>1, <2>2, CopiesNext
<1>8. ASSUME NEW c \in Clients, NEW id \in SegIds,
             ChangeRefcount(c, id) \/ RemoveSegment(c, id)
      PROVE  CopiesAgree'
    <2>1. UNCHANGED <<segments_file, txn, held, acked, ack>>
        BY <1>8 DEF ChangeRefcount, RemoveSegment, ChangeMap
    <2>2. \A i \in DOMAIN segment_map' : i \in DOMAIN segment_map /\ segment_map'[i] = segment_map[i]
        BY <1>8 DEF ChangeRefcount, RemoveSegment, ChangeMap, Restrict
    <2> QED  BY <2>1, <2>2, CopiesNext
<1>9. ASSUME NEW c \in Clients, UpdateSegmentMetadata(c) PROVE CopiesAgree'
    <2>1. /\ held[c] # NoCopy /\ segment_map' = Insert(segment_map, held[c])
          /\ UNCHANGED <<segments_file, txn, held, acked, ack>>
        BY <1>9 DEF UpdateSegmentMetadata, ChangeMap
    <2>2. \A id \in DOMAIN segment_map' :
                segment_map'[id].id = id /\ AtNextHome(segment_map'[id])
        BY <2>1 DEF Insert
    <2> QED  BY <2>1, <2>2, CopiesNext
<1>10. ASSUME NEW c \in Clients, BeginTransaction(c) PROVE CopiesAgree'
    <2>1. /\ txn' = [txn EXCEPT ![c] = [pending |-> <<>>, base_offset |-> next_offset,
                                        current_offset |-> next_offset]]
          /\ UNCHANGED <<segment_map, segments_file, held, acked, ack>>
        BY <1>10 DEF BeginTransaction, disk, history
    <2>2. \A d \in Clients : txn'[d] # NoTxn =>
                \A i \in DOMAIN txn'[d].pending : AtNextHome(txn'[d].pending[i])
        BY <2>1 DEF TypeOK
    <2> QED  BY <2>1, <2>2, CopiesNext
<1>11. ASSUME NEW c \in Clients,
              CommitEmpty(c) \/ CommitData(c) \/ CommitFails(c) \/ Rollback(c)
       PROVE  CopiesAgree'
    <2>1. /\ txn' = txn \/ txn' = [txn EXCEPT ![c] = NoTxn]
          /\ UNCHANGED <<segment_map, segments_file, held, acked, ack>>
        BY <1>11 DEF CommitEmpty, CommitData, CommitFails, Rollback, disk, history
    <2>2. \A d \in Clients : txn'[d] = txn[d] \/ txn'[d] = NoTxn
        BY <2>1 DEF TypeOK
    <2> QED  BY <2>1, <2>2, CopiesNext
<1>12. ASSUME NEW c \in Clients, CommitMap(c) PROVE CopiesAgree'
    <2> DEFINE w == txn[c].pending
               at(id) == CHOOSE i \in DOMAIN w : w[i].id = id
    <2>1. /\ txn[c] # NoTxn /\ ack' = [ack EXCEPT ![c] = PendingIds(c)]
          /\ segment_map' = [id \in DOMAIN segment_map \cup PendingIds(c) |->
                               IF id \in PendingIds(c) THEN w[at(id)] ELSE segment_map[id]]
          /\ UNCHANGED <<segments_file, txn, held, acked>>
        BY <1>12 DEF CommitMap, TypeOK, disk, history
    <2>2. ASSUME NEW id \in PendingIds(c)
          PROVE  w[at(id)].id = id /\ AtNextHome(w[at(id)])
        <3>1. \E i \in DOMAIN w : w[i].id = id
            BY DEF PendingIds
        <3>2. at(id) \in DOMAIN w /\ w[at(id)].id = id
            BY <3>1
        <3> QED  BY <2>1, <3>2
    <2> HIDE DEF at
    <2>3. \A id \in DOMAIN segment_map' :
                segment_map'[id].id = id /\ AtNextHome(segment_map'[id])
        BY <2>1, <2>2
    <2>4. PendingIds(c) \subseteq DOMAIN home'
        BY <2>1 DEF PendingIds, AtNextHome
    <2>5. \A d \in Clients : ack'[d] \subseteq DOMAIN home'
        BY <2>1, <2>4 DEF TypeOK
    <2> QED  BY <2>1, <2>3, <2>5, CopiesNext
<1>13. ASSUME NEW c \in Clients, NEW i \in 1 .. MaxSegments, SetSegmentMetadata(c, i)
       PROVE  CopiesAgree'
    <2>1. UNCHANGED <<segment_map, segments_file, held, acked, ack>>
        BY <1>13 DEF SetSegmentMetadata, disk, history
    <2>2. txn' = txn
        BY <1>13, OffsetKept
    <2> QED  BY <2>1, <2>2, CopiesNext
<1>14. CASE Crash
    <2>1. /\ DOMAIN segment_map' = {}
          /\ \A c \in Clients : held'[c] = NoCopy /\ txn'[c] = NoTxn /\ ack'[c] = {}
          /\ UNCHANGED acked
          /\ segments_file' = segments_file \/ segments_file' = Torn
        BY <1>14 DEF Crash, history
    <2> QED  BY <2>1, CopiesNext
<1>15. CASE Open
    <2>1. /\ segment_map' = segments_file /\ segments_file # Torn
          /\ UNCHANGED <<segments_file, txn, held, acked, ack>>
        BY <1>15 DEF Open, disk, history
    <2> QED  BY <2>1, CopiesNext
<1> QED
    BY <1>1, <1>2, <1>3, <1>4, <1>5, <1>6, <1>7, <1>8, <1>9, <1>10, <1>11, <1>12, <1>13,
       <1>14, <1>15 DEF Next

-----------------------------------------------------------------------------
(* Durability.                                                             *)

(* The saved map is a map, and stays one, when saves are never torn.       *)
LEMMA NeverTorn ==
    ASSUME TypeOK
    PROVE  segment_map # Torn
BY LogAssumption DEF TypeOK

(* Every step keeps what is or will be reported as stored in the maps.     *)
LEMMA RecordedStep ==
    ASSUME ~TornSaves, TypeOK, Recorded, [Next]_vars
    PROVE  Recorded'
<1>1. CASE UNCHANGED vars
    BY <1>1 DEF vars, Recorded
<1>2. ASSUME NEW c \in Clients, NEW len \in Lengths, LogAppend(c, len)
      PROVE  Recorded'
    <2> DEFINE s == NewSegment(next_id, next_offset, len)
    <2>1. /\ segment_map' = Insert(segment_map, s) /\ s.id = next_id
          /\ up /\ UNCHANGED <<up, segments_file, acked, removed>>
          /\ ack' = [ack EXCEPT ![c] = {next_id}]
        BY <1>2 DEF LogAppend, NewSegment, Idle
    <2> HIDE DEF s
    <2>2. DOMAIN segment_map' = DOMAIN segment_map \cup {next_id}
        BY <2>1 DEF Insert
    <2>3. \A d \in Clients : ack'[d] = ack[d] \/ ack'[d] = {next_id}
        BY <2>1 DEF TypeOK
    <2> QED  BY <2>1, <2>2, <2>3 DEF Recorded
<1>3. ASSUME NEW c \in Clients, NEW len \in Lengths,
             LogAppendFails(c, len) \/ AppendSegment(c, len)
      PROVE  Recorded'
    BY <1>3 DEF LogAppendFails, AppendSegment, disk, Recorded
<1>4. ASSUME NEW c \in Clients, SaveSegmentMap(c) PROVE Recorded'
    <2>1. /\ segments_file' = segment_map /\ acked' = acked \cup ack[c] /\ up
          /\ ack' = [ack EXCEPT ![c] = {}] /\ UNCHANGED <<up, segment_map, removed>>
        BY <1>4 DEF SaveSegmentMap
    <2>2. \A d \in Clients : ack'[d] = ack[d] \/ ack'[d] = {}
        BY <2>1 DEF TypeOK
    <2> QED  BY <2>1, <2>2, NeverTorn DEF Recorded
<1>5. ASSUME NEW c \in Clients, SaveFails(c) PROVE Recorded'
    <2>1. /\ ack' = [ack EXCEPT ![c] = {}] /\ up
          /\ UNCHANGED <<up, segment_map, segments_file, acked, removed>>
        BY <1>5 DEF SaveFails
    <2>2. \A d \in Clients : ack'[d] = ack[d] \/ ack'[d] = {}
        BY <2>1 DEF TypeOK
    <2> QED  BY <2>1, <2>2 DEF Recorded
<1>6. ASSUME NEW c \in Clients, NEW id \in SegIds, RemoveSegment(c, id) PROVE Recorded'
    <2>1. /\ DOMAIN segment_map' = DOMAIN segment_map \ {id}
          /\ removed' = removed \cup {id} /\ up
          /\ UNCHANGED <<up, segments_file, acked, ack>>
        BY <1>6 DEF RemoveSegment, ChangeMap, Restrict, Idle
    <2> QED  BY <2>1 DEF Recorded
<1>7. ASSUME NEW c \in Clients,
             \/ UpdateSegmentMetadata(c)
             \/ \E id \in SegIds : ChangeRefcount(c, id)
      PROVE  Recorded'
    <2>1. /\ DOMAIN segment_map \subseteq DOMAIN segment_map' /\ up
          /\ UNCHANGED <<up, segments_file, acked, ack, removed>>
        BY <1>7 DEF UpdateSegmentMetadata, ChangeRefcount, ChangeMap, Insert, Idle
    <2> QED  BY <2>1 DEF Recorded
<1>8. ASSUME NEW c \in Clients,
             \/ BeginTransaction(c) \/ CommitEmpty(c) \/ CommitData(c) \/ CommitFails(c)
             \/ Rollback(c) \/ \E i \in 1 .. MaxSegments : SetSegmentMetadata(c, i)
             \/ \E id \in SegIds : GetSegmentMetadata(c, id)
      PROVE  Recorded'
    BY <1>8 DEF BeginTransaction, CommitEmpty, CommitData, CommitFails, Rollback,
        SetSegmentMetadata, GetSegmentMetadata, disk, history, Recorded
<1>9. ASSUME NEW c \in Clients, CommitMap(c) PROVE Recorded'
    <2>1. /\ DOMAIN segment_map' = DOMAIN segment_map \cup PendingIds(c) /\ up
          /\ ack' = [ack EXCEPT ![c] = PendingIds(c)]
          /\ UNCHANGED <<up, segments_file, acked, removed>>
        BY <1>9 DEF CommitMap, disk, history
    <2>2. \A d \in Clients : ack'[d] = ack[d] \/ ack'[d] = PendingIds(c)
        BY <2>1 DEF TypeOK
    <2> QED  BY <2>1, <2>2 DEF Recorded
<1>10. CASE Crash
    BY <1>10 DEF Crash, history, Recorded
<1>11. CASE Open
    BY <1>11 DEF Open, disk, history, Recorded
<1> QED
    BY <1>1, <1>2, <1>3, <1>4, <1>5, <1>6, <1>7, <1>8, <1>9, <1>10, <1>11 DEF Next

(* A new log has reported nothing.                                         *)
LEMMA RecordedInit == Init => Recorded
<1> SUFFICES ASSUME Init PROVE Recorded
    OBVIOUS
<1>1. segments_file # Torn
    BY LogAssumption DEF Init
<1>2. acked = {} /\ up /\ \A c \in Clients : ack[c] = {}
    BY DEF Init
<1> QED  BY <1>1, <1>2 DEF Recorded

(* A new log has no copies to disagree.                                    *)
LEMMA CopiesInit == Init => CopiesAgree
<1> SUFFICES ASSUME Init PROVE CopiesAgree
    OBVIOUS
<1>1. /\ DOMAIN segment_map = {} /\ DOMAIN segments_file = {} /\ acked = {}
      /\ \A c \in Clients : held[c] = NoCopy /\ txn[c] = NoTxn /\ ack[c] = {}
    BY DEF Init
<1> QED  BY <1>1 DEF CopiesAgree, MapAtHome

(* The log is durable when its callers keep the offsets of pending         *)
(* segments and a save is never torn: whatever clients, failing writes,    *)
(* failing saves and crashes do, and even when transactions overlap, a     *)
(* segment whose append or commit returned Ok stays in both maps, at the   *)
(* place promised for it, until it is removed.                             *)
THEOREM Durable ==
    ASSUME KeepOffset, ~TornSaves
    PROVE  Spec => []AckedDurable
<1>1. Init => CopiesAgree /\ Recorded
    BY RecordedInit, CopiesInit
<1>2. TypeOK /\ CopiesAgree /\ Recorded /\ [Next]_vars => (CopiesAgree /\ Recorded)'
    BY CopiesStep, RecordedStep
<1>3. CopiesAgree /\ Recorded => AckedDurable
    BY DEF CopiesAgree, Recorded, MapAtHome, AtHome, AckedDurable
<1> QED  BY TypeCorrect, <1>1, <1>2, <1>3, PTL DEF Spec

-----------------------------------------------------------------------------
(* Append-only storage.                                                    *)

(* Intact and Below after a step.                                          *)
IntactNext(id) ==
    \A k \in 0 .. (home'[id].len - 1) : file'[home'[id].offset + k] = <<id, k>>
BelowNext(id, b) == home'[id].len > 0 => home'[id].offset + home'[id].len <= b

(* A step that leaves the file alone below offset b leaves what is stored  *)
(* below b intact.                                                         *)
LEMMA DataKept ==
    ASSUME TypeOK, [Next]_vars, NEW b \in Nat,
           \A o \in Offsets : o < b => file'[o] = file[o],
           NEW id \in DOMAIN home, Intact(id), Below(id, b)
    PROVE  IntactNext(id)
<1>1. home'[id] = home[id]
    BY HomeKept
<1>2. home[id] \in Place
    BY DEF TypeOK
<1>3. /\ home[id].offset \in Nat /\ home[id].len \in Nat
      /\ home[id].offset + home[id].len <= MaxOffset
    BY <1>2, LogAssumption DEF Place
<1> SUFFICES ASSUME NEW k \in 0 .. (home[id].len - 1)
             PROVE  file'[home[id].offset + k] = <<id, k>>
    BY <1>1 DEF IntactNext
<1>4. home[id].offset + k \in Offsets /\ home[id].offset + k < b
    BY <1>3, LogAssumption DEF Offsets, Below
<1> QED  BY <1>4 DEF Intact

(* What lies below an offset still does after a step, and lies below every *)
(* larger one.                                                             *)
LEMMA BelowKept ==
    ASSUME TypeOK, [Next]_vars, NEW id \in DOMAIN home,
           NEW b \in Nat, NEW n \in Nat, b <= n, Below(id, b)
    PROVE  BelowNext(id, n)
<1>1. home'[id] = home[id]
    BY HomeKept
<1>2. home[id] \in Place
    BY DEF TypeOK
<1>3. home[id].offset \in Nat /\ home[id].len \in Nat
    BY <1>2, LogAssumption DEF Place
<1> QED  BY <1>1, <1>3 DEF Below, BelowNext

(* What KeptSafe says after a step.                                        *)
LEMMA KeptNext ==
    ASSUME \A id \in acked' : /\ IntactNext(id)
                              /\ BelowNext(id, file_len')
                              /\ up' => BelowNext(id, next_offset'),
           \A c \in Clients : \A id \in ack'[c] : /\ IntactNext(id)
                                                  /\ BelowNext(id, file_len')
                                                  /\ BelowNext(id, next_offset')
    PROVE  KeptSafe'
BY DEF KeptSafe, Intact, Below, IntactNext, BelowNext

(* What TxnSafe says after a step.                                         *)
LEMMA TxnNext ==
    ASSUME NEW c \in Clients,
           \A id \in acked' : BelowNext(id, txn'[c].base_offset),
           \A d \in Clients \ {c} : \A id \in ack'[d] : BelowNext(id, txn'[c].base_offset),
           txn'[c].base_offset <= txn'[c].current_offset,
           \A i \in DOMAIN txn'[c].pending :
                /\ txn'[c].base_offset <= txn'[c].pending[i].offset
                /\ txn'[c].pending[i].offset + txn'[c].pending[i].len
                        <= txn'[c].current_offset,
           \A i, j \in DOMAIN txn'[c].pending :
                i < j => txn'[c].pending[i].offset + txn'[c].pending[i].len
                            <= txn'[c].pending[j].offset,
           pc'[c] \in {"commit_map", "commit_save"} =>
                /\ next_offset' = txn'[c].current_offset
                /\ \A i \in DOMAIN txn'[c].pending :
                        /\ IntactNext(txn'[c].pending[i].id)
                        /\ BelowNext(txn'[c].pending[i].id, file_len')
    PROVE  TxnSafe(c)'
BY DEF TxnSafe, Intact, Below, IntactNext, BelowNext

(* A step that leaves the data file and the promised places alone leaves   *)
(* the data where they are.                                                *)
LEMMA SameData ==
    ASSUME UNCHANGED <<file, home>>
    PROVE  /\ \A id : Intact(id) => IntactNext(id)
           /\ \A id, b : Below(id, b) => BelowNext(id, b)
BY DEF Intact, Below, IntactNext, BelowNext

(* Who is in which call, after a step.                                     *)
LEMMA CallsStep ==
    ASSUME Exclusive, TypeOK, CallsOK, [Next]_vars
    PROVE  CallsOK'
<1>1. CASE UNCHANGED vars
    BY <1>1 DEF vars, CallsOK
<1>2. ASSUME NEW c \in Clients, NEW len \in Lengths,
             LogAppend(c, len) \/ LogAppendFails(c, len)
      PROVE  CallsOK'
    <2>1. /\ up /\ up' = up /\ txn' = txn /\ \A d \in Clients : txn[d] = NoTxn
          /\ \/ UNCHANGED <<pc, ack>>
             \/ pc' = [pc EXCEPT ![c] = "save"] /\ ack' = [ack EXCEPT ![c] = {next_id}]
        BY <1>2 DEF LogAppend, LogAppendFails, Alone, Idle
    <2>2. \A d \in Clients : \/ pc'[d] = pc[d] /\ ack'[d] = ack[d]
                             \/ pc'[d] = "save"
        BY <2>1 DEF TypeOK
    <2> QED  BY <2>1, <2>2 DEF CallsOK
<1>3. ASSUME NEW c \in Clients, NEW len \in Lengths, AppendSegment(c, len)
      PROVE  CallsOK'
    <2>1. /\ txn[c] # NoTxn /\ \A d \in Clients \ {c} : txn'[d] = txn[d]
          /\ up /\ UNCHANGED <<up, pc, ack>>
        BY <1>3 DEF AppendSegment, TypeOK, Idle
    <2> QED  BY <2>1 DEF CallsOK
<1>4. ASSUME NEW c \in Clients, SaveSegmentMap(c) \/ SaveFails(c) PROVE CallsOK'
    <2>1. /\ up /\ up' = up /\ ack' = [ack EXCEPT ![c] = {}]
          /\ txn' = txn \/ txn' = [txn EXCEPT ![c] = NoTxn]
          /\ \A d \in Clients \ {c} : pc'[d] = pc[d]
        BY <1>4 DEF SaveSegmentMap, SaveFails, TypeOK
    <2>2. /\ \A d \in Clients \ {c} : ack'[d] = ack[d] /\ txn'[d] = txn[d]
          /\ ack'[c] = {} /\ (txn'[c] = txn[c] \/ txn'[c] = NoTxn)
        BY <2>1 DEF TypeOK
    <2> QED  BY <2>1, <2>2 DEF CallsOK
<1>5. ASSUME NEW c \in Clients,
             \/ UpdateSegmentMetadata(c)
             \/ \E id \in SegIds : ChangeRefcount(c, id) \/ RemoveSegment(c, id)
      PROVE  CallsOK'
    <2>1. /\ up /\ UNCHANGED <<up, txn, ack>>
          /\ pc[c] = "idle" /\ pc' = [pc EXCEPT ![c] = "save"]
        BY <1>5 DEF UpdateSegmentMetadata, ChangeRefcount, RemoveSegment, ChangeMap, Idle
    <2>2. pc'[c] = "save" /\ \A d \in Clients \ {c} : pc'[d] = pc[d]
        BY <2>1 DEF TypeOK
    <2>3. ack[c] = {}
        BY <2>1 DEF CallsOK
    <2> QED  BY <2>1, <2>2, <2>3 DEF CallsOK
<1>6. ASSUME NEW c \in Clients, NEW id \in SegIds, GetSegmentMetadata(c, id) PROVE CallsOK'
    BY <1>6 DEF GetSegmentMetadata, CallsOK
<1>7. ASSUME NEW c \in Clients, BeginTransaction(c) PROVE CallsOK'
    <2>1. /\ up /\ UNCHANGED <<up, pc, ack>> /\ pc[c] = "idle"
          /\ \A d \in Clients \ {c} : txn[d] = NoTxn /\ txn'[d] = txn[d]
        BY <1>7 DEF BeginTransaction, Alone, Idle, TypeOK
    <2> QED  BY <2>1 DEF CallsOK
<1>8. ASSUME NEW c \in Clients, NEW i \in 1 .. MaxSegments, SetSegmentMetadata(c, i)
      PROVE  CallsOK'
    <2>1. /\ up /\ UNCHANGED <<up, pc, ack>> /\ txn[c] # NoTxn
          /\ \A d \in Clients \ {c} : txn'[d] = txn[d]
        BY <1>8 DEF SetSegmentMetadata, Idle, TypeOK
    <2> QED  BY <2>1 DEF CallsOK
<1>9. ASSUME NEW c \in Clients, CommitEmpty(c) \/ CommitFails(c) \/ Rollback(c)
      PROVE  CallsOK'
    <2>1. /\ up /\ UNCHANGED <<up, ack>>
          /\ pc[c] \in {"idle", "drop"}
          /\ txn' = [txn EXCEPT ![c] = NoTxn]
          /\ pc' = pc \/ pc' = [pc EXCEPT ![c] = "idle"]
        BY <1>9 DEF CommitEmpty, CommitFails, Rollback, Idle
    <2>2. ack[c] = {}
        BY <2>1 DEF CallsOK
    <2>3. txn'[c] = NoTxn /\ \A d \in Clients \ {c} : txn'[d] = txn[d] /\ pc'[d] = pc[d]
        BY <2>1 DEF TypeOK
    <2> QED  BY <2>1, <2>2, <2>3 DEF CallsOK
<1>10. ASSUME NEW c \in Clients, CommitData(c) PROVE CallsOK'
    <2>1. /\ up /\ UNCHANGED <<up, txn, ack>>
          /\ pc[c] = "idle" /\ pc' = [pc EXCEPT ![c] = "commit_map"]
        BY <1>10 DEF CommitData, Idle
    <2>2. ack[c] = {}
        BY <2>1 DEF CallsOK
    <2>3. \A d \in Clients \ {c} : pc'[d] = pc[d]
        BY <2>1 DEF TypeOK
    <2> QED  BY <2>1, <2>2, <2>3 DEF CallsOK
<1>11. ASSUME NEW c \in Clients, CommitMap(c) PROVE CallsOK'
    <2>1. /\ up /\ UNCHANGED <<up, txn>>
          /\ pc'[c] = "commit_save"
          /\ \A d \in Clients \ {c} : pc'[d] = pc[d] /\ ack'[d] = ack[d]
        BY <1>11 DEF CommitMap, TypeOK
    <2> QED  BY <2>1 DEF CallsOK
<1>12. CASE Crash
    <2>1. ~up' /\ \A c \in Clients : txn'[c] = NoTxn /\ ack'[c] = {}
        BY <1>12 DEF Crash
    <2> QED  BY <2>1 DEF CallsOK
<1>13. CASE Open
    BY <1>13 DEF Open, CallsOK
<1> QED
    BY <1>1, <1>2, <1>3, <1>4, <1>5, <1>6, <1>7, <1>8, <1>9, <1>10, <1>11, <1>12, <1>13
    DEF Next

(* Writing entries that all lie at or above b changes no byte below b.     *)
LEMMA FileAbove ==
    ASSUME TypeOK, NEW w \in Seq(Segment), NEW b \in Nat,
           \A i \in DOMAIN w : b <= w[i].offset,
           \/ PartialWrite(w)
           \/ /\ file' = WriteEntries(file, w, Len(w), 0)
              /\ file_len' = ExtendTo(file_len, w, Len(w), 0)
    PROVE  /\ \A o \in Offsets : o < b => file'[o] = file[o]
           /\ file_len \in Nat /\ file_len' \in Nat /\ file_len <= file_len'
<1>1. PICK n \in 0 .. Len(w), m \in Nat :
            /\ n < Len(w) => m <= w[n + 1].len
            /\ file' = WriteEntries(file, w, n, m)
            /\ file_len' = ExtendTo(file_len, w, n, m)
    <2>1. CASE PartialWrite(w)
        <3>1. PICK n \in 0 .. Len(w) :
                \E m \in (IF n < Len(w) THEN 0 .. w[n + 1].len ELSE {0}) :
                    /\ file' = WriteEntries(file, w, n, m)
                    /\ file_len' = ExtendTo(file_len, w, n, m)
            BY <2>1 DEF PartialWrite
        <3>2. n < Len(w) => w[n + 1] \in Segment
            OBVIOUS
        <3>3. n < Len(w) => w[n + 1].len \in Nat
            BY <3>2, SegmentFacts
        <3> QED  BY <3>1, <3>3
    <2>2. CASE /\ file' = WriteEntries(file, w, Len(w), 0)
               /\ file_len' = ExtendTo(file_len, w, Len(w), 0)
        BY <2>2
    <2> QED  BY <2>1, <2>2
<1>2. file_len \in 0 .. MaxOffset
    BY DEF TypeOK
<1>3. ASSUME NEW o \in Offsets, o < b PROVE file'[o] = file[o]
    <2>1. \A i \in DOMAIN w : w[i].offset \in Nat
        BY SegmentFacts
    <2>2. o \in Nat
        BY DEF Offsets
    <2>3. \A i \in DOMAIN w : ~(w[i].offset <= o)
        BY <1>3, <2>1, <2>2
    <2> QED  BY <1>1, <2>3, WriteBelow
<1> QED  BY <1>1, <1>2, <1>3, ExtendBounds

(* A complete write of entries that lie one after another puts the data of *)
(* each into the file.                                                     *)
LEMMA FileComplete ==
    ASSUME TypeOK, NEW w \in Seq(Segment),
           \A i, j \in DOMAIN w : i < j => w[i].offset + w[i].len <= w[j].offset,
           file' = WriteEntries(file, w, Len(w), 0),
           file_len' = ExtendTo(file_len, w, Len(w), 0)
    PROVE  \A i \in DOMAIN w :
              /\ \A k \in 0 .. (w[i].len - 1) : file'[w[i].offset + k] = <<w[i].id, k>>
              /\ w[i].len > 0 => w[i].offset + w[i].len <= file_len'
<1>1. file_len \in 0 .. MaxOffset
    BY DEF TypeOK
<1>2. \A i \in DOMAIN w : Count(w, Len(w), 0, i) = w[i].len
    BY DEF Count
<1>3. \A i \in DOMAIN w : w[i].len > 0 => w[i].offset + w[i].len <= file_len'
    BY <1>1, <1>2, ExtendBounds
<1> QED  BY <1>3, WriteComplete

(* The data of an entry at its promised place are intact once its bytes    *)
(* are in the file.                                                        *)
LEMMA EntryIntact ==
    ASSUME NEW s, AtNextHome(s),
           \A k \in 0 .. (s.len - 1) : file'[s.offset + k] = <<s.id, k>>,
           NEW b, s.len > 0 => s.offset + s.len <= b
    PROVE  IntactNext(s.id) /\ BelowNext(s.id, b)
<1>1. s.offset = home'[s.id].offset /\ s.len = home'[s.id].len
    BY DEF AtNextHome, PlaceOf
<1> QED  BY <1>1 DEF IntactNext, BelowNext

(* What the invariant says of a transaction that is running: everybody     *)
(* else is outside a transaction, and all stored data lie below its base.  *)
LEMMA OneTransaction ==
    ASSUME TypeOK, CopiesAgree, Stored, NEW c \in Clients, txn[c] # NoTxn
    PROVE  /\ up
           /\ \A d \in Clients \ {c} : txn[d] = NoTxn
           /\ txn[c].base_offset \in Nat /\ txn[c].current_offset \in Nat
           /\ txn[c].base_offset <= txn[c].current_offset
           /\ \A id \in acked : Below(id, txn[c].base_offset)
           /\ \A d \in Clients \ {c} : \A id \in ack[d] : Below(id, txn[c].base_offset)
<1>1. txn[c].base_offset \in 0 .. MaxOffset /\ txn[c].current_offset \in 0 .. MaxOffset
    BY TransactionType
<1>2. up /\ \A d \in Clients \ {c} : txn[d] = NoTxn
    BY DEF Stored, CallsOK
<1>3. TxnSafe(c)
    BY DEF Stored
<1> QED  BY <1>1, <1>2, <1>3 DEF TxnSafe

(* Steps that neither write the data file nor promise a place.             *)
QuietNext ==
    \/ \E c \in Clients :
        \/ SaveSegmentMap(c) \/ SaveFails(c) \/ UpdateSegmentMetadata(c)
        \/ \E id \in SegIds : \/ ChangeRefcount(c, id) \/ RemoveSegment(c, id)
                              \/ GetSegmentMetadata(c, id)
        \/ \E i \in 1 .. MaxSegments : SetSegmentMetadata(c, i)
        \/ BeginTransaction(c) \/ CommitEmpty(c) \/ Rollback(c) \/ CommitMap(c)
    \/ Crash
    \/ Open

(* They keep stored data and running transactions safe.                    *)
LEMMA QuietStep ==
    ASSUME Exclusive, KeepOffset, TypeOK, CopiesAgree, Stored, QuietNext
    PROVE  KeptSafe' /\ \A d \in Clients : txn'[d] # NoTxn => TxnSafe(d)'
<1>q. UNCHANGED <<file, file_len, home>>
    BY DEF QuietNext, SaveSegmentMap, SaveFails, UpdateSegmentMetadata, ChangeRefcount,
        RemoveSegment, ChangeMap, GetSegmentMetadata, SetSegmentMetadata, BeginTransaction,
        CommitEmpty, Rollback, CommitMap, Crash, Open, disk, history
<1> USE <1>q, SameData
<1> DEFINE Goal == KeptSafe' /\ \A d \in Clients : txn'[d] # NoTxn => TxnSafe(d)'
<1>0. next_offset \in Nat /\ file_len \in Nat
    BY LogAssumption DEF TypeOK
<1>1. ASSUME NEW c \in Clients, SaveSegmentMap(c) PROVE Goal
    <2>1. /\ up /\ up' = up /\ acked' = acked \cup ack[c]
          /\ ack'[c] = {} /\ \A d \in Clients \ {c} : ack'[d] = ack[d] /\ pc'[d] = pc[d]
          /\ pc'[c] = "idle" /\ next_offset' = next_offset
          /\ \A d \in Clients : txn'[d] = txn[d] \/ (d = c /\ txn'[d] = NoTxn)
          /\ pc[c] = "commit_save" => txn'[c] = NoTxn
          /\ pc[c] \in {"save", "commit_save"}
        BY <1>1 DEF SaveSegmentMap, TypeOK
    <2>2. KeptSafe'
        BY <2>1, KeptNext DEF Stored, KeptSafe
    <2>3. ASSUME NEW d \in Clients, txn'[d] # NoTxn PROVE TxnSafe(d)'
        <3>1. txn'[d] = txn[d] /\ TxnSafe(d)
            BY <2>1, <2>3 DEF Stored
        <3>2. d = c => ack[c] = {}
            BY <2>1, <2>3 DEF Stored, CallsOK
        <3>3. \A id \in acked' : Below(id, txn[d].base_offset)
            BY <2>1, <3>1, <3>2 DEF TxnSafe
        <3> QED  BY <2>1, <3>1, <3>3, TxnNext DEF TxnSafe
    <2> QED  BY <2>2, <2>3
<1>2. ASSUME NEW c \in Clients, SaveFails(c) PROVE Goal
    <2>1. /\ up /\ up' = up /\ acked' = acked /\ txn' = txn
          /\ ack'[c] = {} /\ \A d \in Clients \ {c} : ack'[d] = ack[d] /\ pc'[d] = pc[d]
          /\ pc'[c] \in {"idle", "drop"} /\ next_offset' = next_offset
        BY <1>2 DEF SaveFails, TypeOK
    <2>2. KeptSafe'
        BY <2>1, KeptNext DEF Stored, KeptSafe
    <2>3. ASSUME NEW d \in Clients, txn'[d] # NoTxn PROVE TxnSafe(d)'
        <3>1. TxnSafe(d)
            BY <2>1, <2>3 DEF Stored
        <3> QED  BY <2>1, <3>1, TxnNext DEF TxnSafe
    <2> QED  BY <2>2, <2>3
<1>3. ASSUME NEW c \in Clients,
             \/ UpdateSegmentMetadata(c)
             \/ \E id \in SegIds : \/ ChangeRefcount(c, id) \/ RemoveSegment(c, id)
                                   \/ GetSegmentMetadata(c, id)
             \/ \E i \in 1 .. MaxSegments : SetSegmentMetadata(c, i)
      PROVE  Goal
    <2>1. /\ up /\ up' = up /\ acked' = acked /\ ack' = ack
          /\ \A d \in Clients : pc'[d] = pc[d] \/ pc'[d] = "save"
          /\ next_offset' = next_offset
        BY <1>3 DEF UpdateSegmentMetadata, ChangeRefcount, RemoveSegment, ChangeMap,
            GetSegmentMetadata, SetSegmentMetadata, Idle, TypeOK, history
    <2>2. txn' = txn
        BY <1>3, OffsetKept DEF UpdateSegmentMetadata, ChangeRefcount, RemoveSegment,
            ChangeMap, GetSegmentMetadata
    <2>3. KeptSafe'
        BY <2>1, KeptNext DEF Stored, KeptSafe
    <2>4. ASSUME NEW d \in Clients, txn'[d] # NoTxn PROVE TxnSafe(d)'
        <3>1. TxnSafe(d)
            BY <2>2, <2>4 DEF Stored
        <3> QED  BY <2>1, <2>2, <3>1, TxnNext DEF TxnSafe
    <2> QED  BY <2>3, <2>4
<1>4. ASSUME NEW c \in Clients, BeginTransaction(c) PROVE Goal
    <2> DEFINE x == [pending |-> <<>>, base_offset |-> next_offset,
                     current_offset |-> next_offset]
    <2>1. /\ up /\ up' = up /\ acked' = acked /\ ack' = ack /\ next_offset' = next_offset
          /\ pc' = pc /\ pc[c] = "idle" /\ txn'[c] = x
          /\ \A d \in Clients \ {c} : txn'[d] = NoTxn
        BY <1>4 DEF BeginTransaction, Alone, Idle, TypeOK, history
    <2>2. x.base_offset = next_offset /\ x.current_offset = next_offset /\ DOMAIN x.pending = {}
        OBVIOUS
    <2> HIDE DEF x
    <2>3. KeptSafe'
        BY <2>1, KeptNext DEF Stored, KeptSafe
    <2>4. TxnSafe(c)'
        BY <1>0, <2>1, <2>2, TxnNext DEF Stored, KeptSafe
    <2> QED  BY <2>1, <2>3, <2>4
<1>5. ASSUME NEW c \in Clients, CommitEmpty(c) PROVE Goal
    <2>1. /\ up /\ up' = up /\ acked' = acked /\ ack' = ack /\ next_offset' = next_offset
          /\ txn[c] # NoTxn /\ txn'[c] = NoTxn /\ \A d \in Clients \ {c} : txn'[d] = txn[d]
        BY <1>5 DEF CommitEmpty, Idle, TypeOK, history
    <2>2. KeptSafe'
        BY <2>1, KeptNext DEF Stored, KeptSafe
    <2> QED  BY <2>1, <2>2, OneTransaction
<1>6. ASSUME NEW c \in Clients, Rollback(c) PROVE Goal
    <2>1. /\ up /\ up' = up /\ acked' = acked /\ ack' = ack
          /\ next_offset' = txn[c].base_offset /\ pc[c] \in {"idle", "drop"}
          /\ txn[c] # NoTxn /\ txn'[c] = NoTxn /\ \A d \in Clients \ {c} : txn'[d] = txn[d]
        BY <1>6 DEF Rollback, TypeOK
    <2>2. ack[c] = {}
        BY <2>1 DEF Stored, CallsOK
    <2>3. KeptSafe'
        BY <2>1, <2>2, OneTransaction, KeptNext DEF Stored, KeptSafe
    <2> QED  BY <2>1, <2>3, OneTransaction
<1>7. ASSUME NEW c \in Clients, CommitMap(c) PROVE Goal
    <2>1. /\ up /\ up' = up /\ acked' = acked /\ next_offset' = next_offset /\ txn' = txn
          /\ pc[c] = "commit_map" /\ pc'[c] = "commit_save" /\ txn[c] # NoTxn
          /\ ack'[c] = PendingIds(c) /\ \A d \in Clients \ {c} : ack'[d] = ack[d]
        BY <1>7 DEF CommitMap, TypeOK, history
    <2>2. TxnSafe(c)
        BY <2>1 DEF Stored
    <2>3. \A i \in DOMAIN txn[c].pending : AtHome(txn[c].pending[i])
        BY <2>1 DEF CopiesAgree
    <2>4. ASSUME NEW i \in DOMAIN txn[c].pending
          PROVE  /\ Intact(txn[c].pending[i].id)
                 /\ Below(txn[c].pending[i].id, file_len)
                 /\ Below(txn[c].pending[i].id, next_offset)
        BY <2>1, <2>2, <2>3 DEF TxnSafe, AtHome, PlaceOf, HomeOf, Below
    <2>5. KeptSafe'
        BY <2>1, <2>4, KeptNext DEF Stored, KeptSafe, PendingIds
    <2>6. TxnSafe(c)'
        BY <2>1, <2>2, TxnNext DEF TxnSafe
    <2> QED  BY <2>1, <2>5, <2>6, OneTransaction
<1>8. CASE Crash
    <2>1. /\ ~up' /\ acked' = acked
          /\ \A c \in Clients : txn'[c] = NoTxn /\ ack'[c] = {}
        BY <1>8 DEF Crash, history
    <2> QED  BY <2>1, KeptNext DEF Stored, KeptSafe
<1>9. CASE Open
    <2>1. /\ ~up /\ acked' = acked /\ next_offset' = file_len /\ UNCHANGED <<txn, ack>>
        BY <1>9 DEF Open, history
    <2>2. \A c \in Clients : txn[c] = NoTxn /\ ack[c] = {}
        BY <2>1 DEF Stored, CallsOK
    <2> QED  BY <2>1, <2>2, KeptNext DEF Stored, KeptSafe
<1> QED
    BY <1>1, <1>2, <1>3, <1>4, <1>5, <1>6, <1>7, <1>8, <1>9 DEF QuietNext

(* Data stored below b stay intact when a step leaves the file alone below *)
(* b, does not shorten it and keeps next_offset at or above b.             *)
LEMMA StaysSafe ==
    ASSUME TypeOK, [Next]_vars, NEW b \in Nat, NEW n \in Nat, b <= n,
           \A o \in Offsets : o < b => file'[o] = file[o],
           file_len \in Nat, file_len' \in Nat, file_len <= file_len',
           NEW id \in DOMAIN home, Intact(id), Below(id, file_len), Below(id, b)
    PROVE  IntactNext(id) /\ BelowNext(id, file_len') /\ BelowNext(id, n)
BY DataKept, BelowKept

(* An append writes at next_offset, above everything stored, and no        *)
(* transaction is running.                                                 *)
LEMMA AppendStep ==
    ASSUME Exclusive, TypeOK, CopiesAgree, Stored, NEW c \in Clients, NEW len \in Lengths,
           LogAppend(c, len) \/ LogAppendFails(c, len), [Next]_vars
    PROVE  KeptSafe' /\ \A d \in Clients : txn'[d] # NoTxn => TxnSafe(d)'
<1> DEFINE s == NewSegment(next_id, next_offset, len)
           w == <<s>>
<1>1. /\ up /\ up' = up /\ acked' = acked /\ \A d \in Clients : txn'[d] = NoTxn
      /\ Promise(next_offset, len, next_id)
      /\ next_id < MaxSegments /\ next_offset + len <= MaxOffset
    BY DEF LogAppend, LogAppendFails, Idle, Alone
<1>2. /\ next_offset \in Nat /\ len \in Nat /\ next_id \in SegIds
      /\ next_offset \in 0 .. MaxOffset
    BY <1>1, LogAssumption DEF TypeOK, SegIds
<1>3. s \in Segment
    BY <1>1, <1>2, NewSegmentType
<1>4. s.id = next_id /\ s.offset = next_offset /\ s.len = len /\ AtNextHome(s)
    BY <1>1, NewAtHome DEF NewSegment
<1>5. \/ PartialWrite(w) /\ next_offset' = next_offset /\ ack' = ack
      \/ /\ file' = WriteEntries(file, w, Len(w), 0)
         /\ file_len' = ExtendTo(file_len, w, Len(w), 0)
         /\ next_offset' = next_offset + len
         /\ ack' = [ack EXCEPT ![c] = {next_id}]
    BY DEF LogAppend, LogAppendFails
<1> HIDE DEF s
<1>6. w \in Seq(Segment) /\ DOMAIN w = {1} /\ w[1] = s
    BY <1>3
<1> HIDE DEF w
<1>7. /\ \A o \in Offsets : o < next_offset => file'[o] = file[o]
      /\ file_len \in Nat /\ file_len' \in Nat /\ file_len <= file_len'
    BY <1>2, <1>4, <1>5, <1>6, FileAbove
<1>8. next_offset' \in Nat /\ next_offset <= next_offset'
    BY <1>2, <1>5
<1>9. ASSUME NEW id, id \in acked \/ \E d \in Clients : id \in ack[d]
      PROVE  IntactNext(id) /\ BelowNext(id, file_len') /\ BelowNext(id, next_offset')
    <2>1. id \in DOMAIN home
        BY <1>9 DEF CopiesAgree
    <2>2. Intact(id) /\ Below(id, file_len) /\ Below(id, next_offset)
        BY <1>1, <1>9 DEF Stored, KeptSafe
    <2> QED  BY <1>2, <1>7, <1>8, <2>1, <2>2, StaysSafe
<1>10. ASSUME ack' = [ack EXCEPT ![c] = {next_id}],
              file' = WriteEntries(file, w, Len(w), 0),
              file_len' = ExtendTo(file_len, w, Len(w), 0),
              next_offset' = next_offset + len
       PROVE  /\ IntactNext(next_id) /\ BelowNext(next_id, file_len')
              /\ BelowNext(next_id, next_offset')
    <2>1. \A i, j \in DOMAIN w : i < j => w[i].offset + w[i].len <= w[j].offset
        BY <1>6
    <2>2. /\ \A k \in 0 .. (s.len - 1) : file'[s.offset + k] = <<s.id, k>>
          /\ s.len > 0 => s.offset + s.len <= file_len'
        BY <1>6, <1>10, <2>1, FileComplete
    <2>3. s.len > 0 => s.offset + s.len <= next_offset'
        BY <1>2, <1>4, <1>10
    <2> QED  BY <1>4, <2>2, <2>3, EntryIntact
<1>11. \A d \in Clients : ack'[d] = ack[d] \/
            (ack'[d] = {next_id} /\ ack' = [ack EXCEPT ![c] = {next_id}])
    BY <1>5 DEF TypeOK
<1>12. KeptSafe'
    <2>1. CASE ack' = ack
        BY <1>1, <1>9, <2>1, KeptNext
    <2>2. CASE ack' = [ack EXCEPT ![c] = {next_id}] /\ ~(ack' = ack)
        <3>1. /\ IntactNext(next_id) /\ BelowNext(next_id, file_len')
              /\ BelowNext(next_id, next_offset')
            BY <1>5, <1>10, <2>2
        <3> QED  BY <1>1, <1>9, <1>11, <3>1, KeptNext
    <2> QED  BY <1>5, <2>1, <2>2
<1> QED  BY <1>1, <1>12

(* append_segment moves next_offset within the running transaction, whose  *)
(* base lies above everything stored.                                      *)
LEMMA AppendSegmentStep ==
    ASSUME TypeOK, CopiesAgree, Stored, NEW c \in Clients, NEW len \in Lengths,
           AppendSegment(c, len), [Next]_vars
    PROVE  KeptSafe' /\ \A d \in Clients : txn'[d] # NoTxn => TxnSafe(d)'
<1> DEFINE x == txn[c]
           s == NewSegment(next_id, x.current_offset, len)
<1>1. /\ up /\ up' = up /\ acked' = acked /\ ack' = ack /\ pc' = pc /\ pc[c] = "idle"
      /\ x # NoTxn /\ UNCHANGED <<file, file_len>>
      /\ next_offset' = x.current_offset + len
      /\ txn' = [txn EXCEPT ![c].pending = Append(@, s),
                            ![c].current_offset = x.current_offset + len]
    BY DEF AppendSegment, Idle, disk
<1>2. /\ x.pending \in Seq(Segment) /\ x \in Transaction /\ len \in Nat
      /\ \A i \in DOMAIN x.pending : x.pending[i].offset \in Nat /\ x.pending[i].len \in Nat
    BY <1>1, TransactionType, SegmentFacts, LogAssumption
<1>3. s.offset = x.current_offset /\ s.len = len
    BY DEF NewSegment
<1> HIDE DEF s
<1>4. /\ txn'[c].pending = Append(x.pending, s)
      /\ txn'[c].base_offset = x.base_offset
      /\ txn'[c].current_offset = x.current_offset + len
      /\ \A d \in Clients \ {c} : txn'[d] = txn[d]
    BY <1>1, <1>2 DEF TypeOK, Transaction
<1>5. /\ x.base_offset \in Nat /\ x.current_offset \in Nat
      /\ x.base_offset <= x.current_offset
      /\ \A id \in acked : Below(id, x.base_offset)
      /\ \A d \in Clients : \A id \in ack[d] : Below(id, x.base_offset)
      /\ ack[c] = {}
    <2>1. ack[c] = {}
        BY <1>1 DEF Stored, CallsOK
    <2> QED  BY <1>1, <2>1, OneTransaction
<1>6. file_len \in Nat
    BY LogAssumption DEF TypeOK
<1>7. ASSUME NEW id, id \in acked \/ \E d \in Clients : id \in ack[d]
      PROVE  /\ IntactNext(id) /\ BelowNext(id, file_len') /\ BelowNext(id, next_offset')
             /\ BelowNext(id, x.base_offset)
    <2>1. id \in DOMAIN home
        BY <1>7 DEF CopiesAgree
    <2>2. Intact(id) /\ Below(id, file_len) /\ Below(id, x.base_offset)
        BY <1>5, <1>7 DEF Stored, KeptSafe
    <2>3. next_offset' \in Nat /\ x.base_offset <= next_offset'
        BY <1>1, <1>2, <1>5
    <2>4. \A o \in Offsets : file'[o] = file[o]
        BY <1>1
    <2>5. IntactNext(id) /\ BelowNext(id, file_len') /\ BelowNext(id, next_offset')
        BY <1>1, <1>5, <1>6, <2>1, <2>2, <2>3, <2>4, StaysSafe
    <2> QED  BY <1>5, <2>1, <2>2, <2>5, BelowKept
<1>8. KeptSafe'
    BY <1>1, <1>7, KeptNext
<1>9. TxnSafe(c)
    BY <1>1 DEF Stored
<1> DEFINE p == Append(x.pending, s)
<1>10. /\ DOMAIN p = 1 .. (Len(x.pending) + 1) /\ DOMAIN x.pending = 1 .. Len(x.pending)
       /\ Len(x.pending) \in Nat
       /\ \A i \in DOMAIN x.pending : p[i] = x.pending[i]
       /\ p[Len(x.pending) + 1] = s
    BY <1>2
<1> HIDE DEF p
<1>11. \A i \in DOMAIN p : i \in DOMAIN x.pending \/ (i = Len(x.pending) + 1 /\ p[i] = s)
    BY <1>10
<1> DEFINE base == x.base_offset
           cur == x.current_offset
           q == x.pending
<1>a. /\ \A i \in DOMAIN q : base <= q[i].offset /\ q[i].offset + q[i].len <= cur
      /\ \A i, j \in DOMAIN q : i < j => q[i].offset + q[i].len <= q[j].offset
    BY <1>9 DEF TxnSafe
<1>12. ASSUME NEW i \in DOMAIN p
       PROVE  /\ p[i].offset \in Nat /\ p[i].len \in Nat
              /\ base <= p[i].offset /\ p[i].offset + p[i].len <= cur + len
    <2> HIDE DEF base, cur, q, x
    <2>1. CASE i \in DOMAIN q
        <3>1. p[i] = q[i]
            BY <1>10, <2>1 DEF q
        <3>2. /\ q[i].offset \in Nat /\ q[i].len \in Nat
              /\ base <= q[i].offset /\ q[i].offset + q[i].len <= cur
            BY <1>2, <1>a, <2>1 DEF q
        <3> QED  BY <1>2, <1>5, <3>1, <3>2 DEF cur
    <2>2. CASE p[i] = s
        BY <1>2, <1>3, <1>5, <2>2 DEF base, cur
    <2> QED  BY <1>11, <2>1, <2>2 DEF q
<1>13. ASSUME NEW i \in DOMAIN p, NEW j \in DOMAIN p, i < j
       PROVE  p[i].offset + p[i].len <= p[j].offset
    <2> HIDE DEF base, cur, q, x
    <2>0. i \in DOMAIN q /\ p[i] = q[i]
        BY <1>10, <1>13 DEF q
    <2>1. CASE j \in DOMAIN q
        <3>1. p[j] = q[j]
            BY <1>10, <2>1 DEF q
        <3> QED  BY <1>13, <1>a, <2>0, <2>1, <3>1
    <2>2. CASE p[j] = s
        <3>1. q[i].offset + q[i].len <= cur
            BY <1>a, <2>0
        <3> QED  BY <1>3, <2>0, <2>2, <3>1 DEF cur
    <2> QED  BY <1>11, <2>1, <2>2 DEF q
<1>14. txn'[c].base_offset <= txn'[c].current_offset
    BY <1>2, <1>4, <1>5
<1>15. TxnSafe(c)'
    BY <1>1, <1>4, <1>7, <1>12, <1>13, <1>14, TxnNext DEF p
<1> QED  BY <1>1, <1>4, <1>8, <1>15, OneTransaction

(* A commit writes at or above its base offset, above everything stored by *)
(* others; if the write fails next_offset goes back no further than that.  *)
LEMMA CommitStep ==
    ASSUME TypeOK, CopiesAgree, Stored, NEW c \in Clients,
           CommitData(c) \/ CommitFails(c), [Next]_vars
    PROVE  KeptSafe' /\ \A d \in Clients : txn'[d] # NoTxn => TxnSafe(d)'
<1> DEFINE x == txn[c]
           w == x.pending
           b == x.base_offset
<1>1. /\ up /\ up' = up /\ acked' = acked /\ ack' = ack /\ pc[c] = "idle" /\ x # NoTxn
      /\ home' = home
    BY DEF CommitData, CommitFails, Idle, history
<1>2. \/ /\ file' = WriteEntries(file, w, Len(w), 0)
         /\ file_len' = ExtendTo(file_len, w, Len(w), 0)
         /\ txn' = txn /\ next_offset' = x.current_offset
      \/ /\ PartialWrite(w) /\ txn'[c] = NoTxn /\ next_offset' = b
         /\ \A d \in Clients \ {c} : txn'[d] = txn[d]
    BY DEF CommitData, CommitFails, TypeOK
<1>3. TxnSafe(c)
    BY <1>1 DEF Stored
<1>4. w \in Seq(Segment) /\ \A i \in DOMAIN w : b <= w[i].offset
    BY <1>1, <1>3, TransactionType DEF TxnSafe
<1>5. /\ b \in Nat /\ x.current_offset \in Nat /\ b <= x.current_offset /\ ack[c] = {}
      /\ \A id \in acked : Below(id, b)
      /\ \A d \in Clients : \A id \in ack[d] : Below(id, b)
    <2>1. ack[c] = {}
        BY <1>1 DEF Stored, CallsOK
    <2> QED  BY <1>1, <2>1, OneTransaction
<1>6. /\ \A o \in Offsets : o < b => file'[o] = file[o]
      /\ file_len \in Nat /\ file_len' \in Nat /\ file_len <= file_len'
    BY <1>2, <1>4, <1>5, FileAbove
<1>7. ASSUME NEW id, id \in acked \/ \E d \in Clients : id \in ack[d]
      PROVE  /\ IntactNext(id) /\ BelowNext(id, file_len') /\ BelowNext(id, next_offset')
             /\ BelowNext(id, b)
    <2>1. id \in DOMAIN home
        BY <1>7 DEF CopiesAgree
    <2>2. Intact(id) /\ Below(id, file_len) /\ Below(id, b)
        BY <1>5, <1>7 DEF Stored, KeptSafe
    <2>3. next_offset' \in Nat /\ b <= next_offset'
        BY <1>2, <1>5
    <2>4. IntactNext(id) /\ BelowNext(id, file_len') /\ BelowNext(id, next_offset')
        BY <1>5, <1>6, <2>1, <2>2, <2>3, StaysSafe
    <2> QED  BY <1>5, <2>1, <2>2, <2>4, BelowKept
<1>8. KeptSafe'
    BY <1>1, <1>7, KeptNext
<1>9. ASSUME txn' = txn,
             file' = WriteEntries(file, w, Len(w), 0),
             file_len' = ExtendTo(file_len, w, Len(w), 0),
             next_offset' = x.current_offset
      PROVE  TxnSafe(c)'
    <2>1. \A i, j \in DOMAIN w : i < j => w[i].offset + w[i].len <= w[j].offset
        BY <1>3 DEF TxnSafe
    <2>2. ASSUME NEW i \in DOMAIN w
          PROVE  IntactNext(w[i].id) /\ BelowNext(w[i].id, file_len')
        <3>1. AtNextHome(w[i])
            BY <1>1, AtHomeKept DEF CopiesAgree
        <3>2. /\ \A k \in 0 .. (w[i].len - 1) : file'[w[i].offset + k] = <<w[i].id, k>>
              /\ w[i].len > 0 => w[i].offset + w[i].len <= file_len'
            BY <1>4, <1>9, <2>1, FileComplete
        <3> QED  BY <3>1, <3>2, EntryIntact
    <2> QED  BY <1>1, <1>3, <1>5, <1>7, <1>9, <2>1, <2>2, TxnNext DEF TxnSafe
<1> QED  BY <1>1, <1>2, <1>8, <1>9, OneTransaction

(* Stored is inductive when transactions run alone.                        *)
LEMMA StoredStep ==
    ASSUME Exclusive, KeepOffset, TypeOK, CopiesAgree, Stored, [Next]_vars
    PROVE  Stored'
<1>1. CASE UNCHANGED vars
    BY <1>1 DEF vars, Stored, CallsOK, KeptSafe, TxnSafe, Intact, Below
<1>2. CASE Next
    <2>1. KeptSafe' /\ \A d \in Clients : txn'[d] # NoTxn => TxnSafe(d)'
        BY <1>2, QuietStep, AppendStep, AppendSegmentStep, CommitStep DEF Next, QuietNext
    <2>2. CallsOK'
        BY CallsStep DEF Stored
    <2> QED  BY <2>1, <2>2 DEF Stored
<1> QED  BY <1>1, <1>2

(* A new log has stored nothing and runs no transaction.                   *)
LEMMA StoredInit == Init => Stored
<1> SUFFICES ASSUME Init PROVE Stored
    OBVIOUS
<1>1. acked = {} /\ up /\ \A c \in Clients : txn[c] = NoTxn /\ ack[c] = {}
    BY DEF Init
<1> QED  BY <1>1 DEF Stored, CallsOK, KeptSafe

(* The log is append-only when transactions run alone: however many        *)
(* clients append, commit, roll back, fail, crash and reopen, no byte of a *)
(* segment whose append or commit returned Ok is ever overwritten.         *)
THEOREM AppendOnly ==
    ASSUME Exclusive, KeepOffset
    PROVE  Spec => []AckedIntact
<1>1. Init => CopiesAgree /\ Stored
    BY CopiesInit, StoredInit
<1>2. TypeOK /\ CopiesAgree /\ Stored /\ [Next]_vars => (CopiesAgree /\ Stored)'
    BY CopiesStep, StoredStep
<1>3. Stored => AckedIntact
    BY DEF Stored, KeptSafe, AckedIntact
<1> QED  BY TypeCorrect, <1>1, <1>2, <1>3, PTL DEF Spec

(* Under the same conditions a reader that cloned a Segment out of the map *)
(* reads the stored bytes whenever it gets the file lock.                  *)
THEOREM ReadersSafe ==
    ASSUME Exclusive, KeepOffset
    PROVE  Spec => []ReaderSafe
<1>1. Init => CopiesAgree /\ Stored
    BY CopiesInit, StoredInit
<1>2. TypeOK /\ CopiesAgree /\ Stored /\ [Next]_vars => (CopiesAgree /\ Stored)'
    BY CopiesStep, StoredStep
<1>3. CopiesAgree /\ Stored => ReaderSafe
    BY DEF CopiesAgree, AtHome, Stored, KeptSafe, ReaderSafe
<1> QED  BY TypeCorrect, <1>1, <1>2, <1>3, PTL DEF Spec

(* Together: what was stored and not removed is read back unchanged, for   *)
(* any number of clients, failures and crashes.                            *)
THEOREM ReadsBack ==
    ASSUME Exclusive, KeepOffset, ~TornSaves
    PROVE  Spec => []ReadBack
<1>1. TypeOK /\ AckedIntact /\ AckedDurable => ReadBack
    <2> SUFFICES ASSUME TypeOK, AckedIntact, AckedDurable, up,
                        NEW id \in acked \ removed
                 PROVE  /\ id \in DOMAIN segment_map
                        /\ Read(segment_map[id]) = [k \in 0 .. (home[id].len - 1) |-> <<id, k>>]
        BY DEF ReadBack
    <2>1. id \in DOMAIN segment_map /\ PlaceOf(segment_map[id]) = HomeOf(id)
        BY DEF AckedDurable
    <2>2. segment_map[id].offset = home[id].offset /\ segment_map[id].len = home[id].len
        BY <2>1 DEF PlaceOf, HomeOf
    <2>3. Intact(id)
        BY DEF AckedIntact
    <2> QED  BY <2>1, <2>2, <2>3 DEF Read, Intact
<1> QED  BY TypeCorrect, AppendOnly, Durable, <1>1, PTL

(* The inductive invariant holds when transactions run alone, callers keep *)
(* offsets and saves are not torn: every copy of a segment agrees on its   *)
(* place, reported segments are recorded, and their bytes lie intact below *)
(* the base of whatever transaction is running.                            *)
THEOREM Inductive ==
    ASSUME Exclusive, KeepOffset, ~TornSaves
    PROVE  Spec => []IndInv
<1>1. Init => IndInv
    BY CopiesInit, StoredInit, RecordedInit DEF IndInv
<1>2. TypeOK /\ IndInv /\ [Next]_vars => IndInv'
    BY CopiesStep, RecordedStep, StoredStep DEF IndInv
<1> QED  BY TypeCorrect, <1>1, <1>2, PTL DEF Spec

-----------------------------------------------------------------------------
(* Transactions as a whole.  Nothing below needs transactions to run       *)
(* alone, saves to be whole or callers to keep the offset.                 *)

(* The ids of a transaction, and the first of them, which names its batch. *)
IdsIn(x) == IF x = NoTxn THEN {} ELSE {x.pending[i].id : i \in DOMAIN x.pending}
FirstIn(x) == x.pending[1].id

(* A call at p has not yet put the ids of its transaction into the map.    *)
EarlyAt(p) == p \notin {"commit_save", "drop"}

(* The ids others may see: in the map, in its file and in cloned Segments. *)
SavedIn(f) == IF f = Torn THEN {} ELSE DOMAIN f
HeldIn(h) == {h[c].id : c \in {d \in Clients : h[d] # NoCopy}}
Shown(m, f, h) == DOMAIN m \cup SavedIn(f) \cup HeldIn(h)

Keyed(m) == \A id \in DOMAIN m : m[id].id = id

(* S has all or none of the ids of a batch that nobody removed.            *)
Whole(S, h, r) ==
    \A i, j \in DOMAIN h \ r : h[i].batch = h[j].batch => (i \in S <=> j \in S)

(* An open transaction has exactly the ids of its batch, shares them with  *)
(* no other one, and until it is in the map nobody sees any of them.       *)
Placed(h, shown, t, p) ==
    /\ shown \subseteq DOMAIN h
    /\ \A id \in DOMAIN h : h[id].batch <= id
    /\ \A c \in Clients : IdsIn(t[c]) \subseteq DOMAIN h
    /\ \A c \in Clients : IdsIn(t[c]) # {} =>
        \A id \in DOMAIN h : id \in IdsIn(t[c]) <=> h[id].batch = FirstIn(t[c])
    /\ \A c \in Clients : EarlyAt(p[c]) => IdsIn(t[c]) \cap shown = {}
    /\ \A c, d \in Clients : c # d => IdsIn(t[c]) \cap IdsIn(t[d]) = {}

(* A cloned Segment is still in the map unless it was removed; a log that  *)
(* is closed has no clients that hold one.                                 *)
HeldKnown(u, m, h, r) ==
    /\ HeldIn(h) \subseteq DOMAIN m \cup r
    /\ ~u => HeldIn(h) = {}

KeyedMaps(m, f) == Keyed(m) /\ (f # Torn => Keyed(f))

WholeMaps(m, f, h, r) == Whole(DOMAIN m, h, r) /\ Whole(SavedIn(f), h, r)

Batches ==
    /\ KeyedMaps(segment_map, segments_file)
    /\ Placed(home, Shown(segment_map, segments_file, held), txn, pc)
    /\ HeldKnown(up, segment_map, held, removed)
    /\ WholeMaps(segment_map, segments_file, home, removed)

(* What a rolled back or failed transaction wrote is not visible, as long  *)
(* as no save has failed.                                                  *)
Hidden(a, shown, t, p) ==
    /\ a \cap shown = {}
    /\ \A c \in Clients : p[c] # "drop" /\ a \cap IdsIn(t[c]) = {}

Unaborted ==
    /\ budget.saves <= MaxSaveFails
    /\ aborted \subseteq DOMAIN home
    /\ \A c \in Clients : ack[c] \subseteq DOMAIN home
    /\ budget.saves = MaxSaveFails =>
        Hidden(aborted, Shown(segment_map, segments_file, held), txn, pc)

(* The pending ids of a client are the ids of its transaction.             *)
LEMMA IdsPending ==
    ASSUME NEW c \in Clients, txn[c] # NoTxn
    PROVE  PendingIds(c) = IdsIn(txn[c])
BY DEF PendingIds, IdsIn

(* A transaction loses its ids or keeps them, and comes no closer to being *)
(* invisible again.                                                        *)
Settles(x, y, p, q) ==
    \/ IdsIn(y) = {}
    \/ IdsIn(y) = IdsIn(x) /\ FirstIn(y) = FirstIn(x) /\ (EarlyAt(q) => EarlyAt(p))

(* Steps that hand out no id and show no new one keep the batches placed.  *)
LEMMA PlacedKept ==
    ASSUME NEW h, NEW s1, NEW s2, NEW t1, NEW t2, NEW p1, NEW p2,
           Placed(h, s1, t1, p1), s2 \subseteq s1,
           \A d \in Clients : Settles(t1[d], t2[d], p1[d], p2[d])
    PROVE  Placed(h, s2, t2, p2)
<1>1. s2 \subseteq DOMAIN h /\ \A id \in DOMAIN h : h[id].batch <= id
    BY DEF Placed
<1>2. \A c \in Clients : IdsIn(t2[c]) \subseteq DOMAIN h
    BY DEF Placed, Settles
<1>3. ASSUME NEW c \in Clients, IdsIn(t2[c]) # {}, NEW id \in DOMAIN h
      PROVE  id \in IdsIn(t2[c]) <=> h[id].batch = FirstIn(t2[c])
    <2>1. IdsIn(t2[c]) = IdsIn(t1[c]) /\ FirstIn(t2[c]) = FirstIn(t1[c])
        BY <1>3 DEF Settles
    <2> QED  BY <1>3, <2>1 DEF Placed
<1>4. \A c \in Clients : EarlyAt(p2[c]) => IdsIn(t2[c]) \cap s2 = {}
    BY DEF Placed, Settles
<1>5. \A c, d \in Clients : c # d => IdsIn(t2[c]) \cap IdsIn(t2[d]) = {}
    BY DEF Placed, Settles
<1> QED  BY <1>1, <1>2, <1>3, <1>4, <1>5 DEF Placed

(* A step of one client moves its own transaction only.                    *)
LEMMA SettlesClient ==
    ASSUME TypeOK, NEW c \in Clients, NEW y, NEW q, txn' = [txn EXCEPT ![c] = y],
           pc' = [pc EXCEPT ![c] = q], Settles(txn[c], y, pc[c], q)
    PROVE  \A d \in Clients : Settles(txn[d], txn'[d], pc[d], pc'[d])
<1> SUFFICES ASSUME NEW d \in Clients PROVE Settles(txn[d], txn'[d], pc[d], pc'[d])
    OBVIOUS
<1>1. CASE d = c
    <2>1. txn'[d] = y /\ pc'[d] = q
        BY <1>1 DEF TypeOK
    <2> QED  BY <1>1, <2>1
<1>2. CASE d # c
    <2>1. txn'[d] = txn[d] /\ pc'[d] = pc[d]
        BY <1>2 DEF TypeOK
    <2> QED  BY <2>1 DEF Settles
<1> QED  BY <1>1, <1>2

(* The history h2 is h1 with one more id n, the largest, of batch b.       *)
Extends1(h1, h2, n, b) ==
    /\ DOMAIN h2 = DOMAIN h1 \cup {n}
    /\ \A id \in DOMAIN h1 : id \in Nat /\ id < n /\ h1[id].batch \in Nat /\ h2[id] = h1[id]
    /\ n \in Nat /\ n \notin DOMAIN h1
    /\ h2[n].batch = b /\ b \in Nat /\ b <= n

(* The batch of an open transaction is older than the next id.             *)
LEMMA FirstOlder ==
    ASSUME NEW h1, NEW h2, NEW n, NEW b, NEW s, NEW t, NEW p, Extends1(h1, h2, n, b),
           Placed(h1, s, t, p), NEW c \in Clients, IdsIn(t[c]) # {}
    PROVE  FirstIn(t[c]) \in Nat /\ FirstIn(t[c]) < n
<1>1. PICK id \in IdsIn(t[c]) : TRUE
    OBVIOUS
<1>2. id \in DOMAIN h1 /\ h1[id].batch <= id
    BY <1>1 DEF Placed
<1>3. h1[id].batch = FirstIn(t[c])
    BY <1>1, <1>2 DEF Placed
<1>4. id \in Nat /\ n \in Nat /\ id < n /\ h1[id].batch \in Nat
    BY <1>2 DEF Extends1
<1> QED  BY <1>2, <1>3, <1>4

(* An id that is a batch of its own disturbs no other batch.               *)
LEMMA PlacedAppend ==
    ASSUME NEW h1, NEW h2, NEW n, NEW s1, NEW s2, NEW t, NEW p, Extends1(h1, h2, n, n),
           Placed(h1, s1, t, p), s2 \subseteq s1 \cup {n}
    PROVE  Placed(h2, s2, t, p)
<1>1. DOMAIN h2 = DOMAIN h1 \cup {n} /\ n \notin DOMAIN h1 /\ n \in Nat /\ h2[n].batch = n
    BY DEF Extends1
<1>2. \A id \in DOMAIN h1 : h2[id] = h1[id]
    BY DEF Extends1
<1>3. s1 \subseteq DOMAIN h1 /\ \A c \in Clients : IdsIn(t[c]) \subseteq DOMAIN h1
    BY DEF Placed
<1>4. \A id \in DOMAIN h2 : h2[id].batch <= id
    <2>1. \A id \in DOMAIN h1 : h2[id].batch <= id
        BY <1>2 DEF Placed
    <2> QED  BY <1>1, <2>1
<1>5. ASSUME NEW c \in Clients, IdsIn(t[c]) # {}, NEW id \in DOMAIN h2
      PROVE  id \in IdsIn(t[c]) <=> h2[id].batch = FirstIn(t[c])
    <2>1. CASE id = n
        <3>1. FirstIn(t[c]) \in Nat /\ FirstIn(t[c]) < n
            BY <1>5, FirstOlder
        <3> QED  BY <1>1, <1>3, <2>1, <3>1
    <2>2. CASE id # n
        <3>1. id \in DOMAIN h1 /\ h2[id] = h1[id]
            BY <1>1, <1>2, <2>2
        <3> QED  BY <1>5, <3>1 DEF Placed
    <2> QED  BY <2>1, <2>2
<1>6. \A c \in Clients : EarlyAt(p[c]) => IdsIn(t[c]) \cap s2 = {}
    BY <1>1, <1>3 DEF Placed
<1>7. \A c, d \in Clients : c # d => IdsIn(t[c]) \cap IdsIn(t[d]) = {}
    BY DEF Placed
<1>8. s2 \subseteq DOMAIN h2 /\ \A c \in Clients : IdsIn(t[c]) \subseteq DOMAIN h2
    BY <1>1, <1>3
<1> QED  BY <1>4, <1>5, <1>6, <1>7, <1>8 DEF Placed

(* A set of ids stays whole when such an id is added to it or left out.    *)
LEMMA WholeAppend ==
    ASSUME NEW h1, NEW h2, NEW n, NEW r, NEW S, Extends1(h1, h2, n, n), Whole(S, h1, r),
           \A id \in DOMAIN h1 : h1[id].batch <= id
    PROVE  Whole(S, h2, r) /\ Whole(S \cup {n}, h2, r)
<1>1. DOMAIN h2 = DOMAIN h1 \cup {n} /\ n \notin DOMAIN h1 /\ n \in Nat /\ h2[n].batch = n
    BY DEF Extends1
<1>2. \A id \in DOMAIN h1 : h2[id] = h1[id] /\ h2[id].batch # n
    BY DEF Extends1
<1>3. ASSUME NEW i \in DOMAIN h2 \ r, NEW j \in DOMAIN h2 \ r, h2[i].batch = h2[j].batch
      PROVE  (i \in S <=> j \in S) /\ (i \in S \cup {n} <=> j \in S \cup {n})
    <2>1. CASE i = n \/ j = n
        <3>1. i = n /\ j = n
            BY <1>1, <1>2, <1>3, <2>1
        <3> QED  BY <3>1
    <2>2. CASE i # n /\ j # n
        <3>1. i \in DOMAIN h1 \ r /\ j \in DOMAIN h1 \ r
            BY <1>1, <2>2
        <3>2. h1[i].batch = h1[j].batch
            BY <1>2, <1>3, <3>1
        <3>3. i \in S <=> j \in S
            BY <3>1, <3>2 DEF Whole
        <3> QED  BY <2>2, <3>3
    <2> QED  BY <2>1, <2>2
<1> QED  BY <1>3 DEF Whole

(* The transaction x of c gets the id n: the batch of n is that of x, or n *)
(* itself when n is the first.                                             *)
Joins(t1, t2, c, n, b) ==
    /\ IdsIn(t2[c]) = IdsIn(t1[c]) \cup {n}
    /\ FirstIn(t2[c]) = b
    /\ IdsIn(t1[c]) # {} => b = FirstIn(t1[c])
    /\ IdsIn(t1[c]) = {} => b = n
    /\ \A d \in Clients \ {c} : t2[d] = t1[d]

(* Handing out an id to an open transaction.                               *)
LEMMA PlacedJoin ==
    ASSUME NEW h1, NEW h2, NEW n, NEW b, NEW s, NEW t1, NEW t2, NEW p, NEW c \in Clients,
           Extends1(h1, h2, n, b), Joins(t1, t2, c, n, b), Placed(h1, s, t1, p)
    PROVE  Placed(h2, s, t2, p)
<1>1. DOMAIN h2 = DOMAIN h1 \cup {n} /\ n \notin DOMAIN h1 /\ n \in Nat /\ h2[n].batch = b /\ b <= n
    BY DEF Extends1
<1>2. \A id \in DOMAIN h1 : h2[id] = h1[id]
    BY DEF Extends1
<1>3. s \subseteq DOMAIN h1 /\ \A d \in Clients : IdsIn(t1[d]) \subseteq DOMAIN h1
    BY DEF Placed
<1>4. \A id \in DOMAIN h2 : h2[id].batch <= id
    <2>1. \A id \in DOMAIN h1 : h2[id].batch <= id
        BY <1>2 DEF Placed
    <2> QED  BY <1>1, <2>1
<1>5. \A d \in Clients : d # c => t2[d] = t1[d]
    BY DEF Joins
<1>6. IdsIn(t2[c]) = IdsIn(t1[c]) \cup {n}
    BY DEF Joins
<1>7. ASSUME NEW id \in DOMAIN h2
      PROVE  id \in IdsIn(t2[c]) <=> h2[id].batch = FirstIn(t2[c])
    <2>1. FirstIn(t2[c]) = b
        BY DEF Joins
    <2>2. CASE id = n
        BY <1>1, <1>6, <2>1, <2>2
    <2>3. CASE id # n /\ IdsIn(t1[c]) # {}
        <3>1. id \in DOMAIN h1 /\ h2[id] = h1[id]
            BY <1>1, <1>2, <2>3
        <3>2. b = FirstIn(t1[c])
            BY <2>3 DEF Joins
        <3>3. id \in IdsIn(t1[c]) <=> h1[id].batch = FirstIn(t1[c])
            BY <2>3, <3>1 DEF Placed
        <3> QED  BY <1>6, <2>1, <2>3, <3>1, <3>2, <3>3
    <2>4. CASE id # n /\ IdsIn(t1[c]) = {}
        <3>1. id \in DOMAIN h1 /\ h2[id] = h1[id]
            BY <1>1, <1>2, <2>4
        <3>2. b = n
            BY <2>4 DEF Joins
        <3>3. h1[id].batch <= id /\ id < n /\ id \in Nat /\ h1[id].batch \in Nat
            BY <3>1 DEF Placed, Extends1
        <3> QED  BY <1>1, <1>6, <2>1, <2>4, <3>1, <3>2, <3>3
    <2> QED  BY <2>2, <2>3, <2>4
<1>8. ASSUME NEW d \in Clients, d # c, IdsIn(t1[d]) # {}
      PROVE  b # FirstIn(t1[d])
    <2>1. CASE IdsIn(t1[c]) = {}
        <3>1. b = n /\ FirstIn(t1[d]) \in Nat /\ FirstIn(t1[d]) < n
            BY <1>8, <2>1, FirstOlder DEF Joins
        <3> QED  BY <3>1, <1>1
    <2>2. CASE IdsIn(t1[c]) # {}
        <3>1. b = FirstIn(t1[c])
            BY <2>2 DEF Joins
        <3>2. PICK id \in IdsIn(t1[d]) : TRUE
            BY <1>8
        <3>3. id \in DOMAIN h1 /\ id \notin IdsIn(t1[c])
            BY <1>3, <1>8, <3>2 DEF Placed
        <3>4. h1[id].batch = FirstIn(t1[d])
            BY <1>8, <3>2, <3>3 DEF Placed
        <3>5. h1[id].batch # FirstIn(t1[c])
            BY <2>2, <3>3 DEF Placed
        <3> QED  BY <3>1, <3>4, <3>5
    <2> QED  BY <2>1, <2>2
<1>9. ASSUME NEW d \in Clients, IdsIn(t2[d]) # {}, NEW id \in DOMAIN h2
      PROVE  id \in IdsIn(t2[d]) <=> h2[id].batch = FirstIn(t2[d])
    <2>1. CASE d = c
        BY <1>7, <2>1
    <2>2. CASE d # c /\ id = n
        <3>1. t2[d] = t1[d] /\ n \notin IdsIn(t1[d])
            BY <1>1, <1>3, <1>5, <2>2
        <3> QED  BY <1>1, <1>8, <1>9, <2>2, <3>1
    <2>3. CASE d # c /\ id # n
        <3>1. t2[d] = t1[d] /\ id \in DOMAIN h1 /\ h2[id] = h1[id]
            BY <1>1, <1>2, <1>5, <2>3
        <3>2. IdsIn(t1[d]) # {}
            BY <1>9, <3>1
        <3> QED  BY <3>1, <3>2 DEF Placed
    <2> QED  BY <2>1, <2>2, <2>3
<1>10. \A d \in Clients : EarlyAt(p[d]) => IdsIn(t2[d]) \cap s = {}
    <2> SUFFICES ASSUME NEW d \in Clients, EarlyAt(p[d]) PROVE IdsIn(t2[d]) \cap s = {}
        OBVIOUS
    <2>1. IdsIn(t1[d]) \cap s = {} /\ n \notin s
        BY <1>1, <1>3 DEF Placed
    <2> QED  BY <1>5, <1>6, <2>1
<1>11. \A d, e \in Clients : d # e => IdsIn(t2[d]) \cap IdsIn(t2[e]) = {}
    <2> SUFFICES ASSUME NEW d \in Clients, NEW e \in Clients, d # e
                 PROVE  IdsIn(t2[d]) \cap IdsIn(t2[e]) = {}
        OBVIOUS
    <2>1. IdsIn(t1[d]) \cap IdsIn(t1[e]) = {}
        BY DEF Placed
    <2>2. n \notin IdsIn(t1[d]) /\ n \notin IdsIn(t1[e])
        BY <1>1, <1>3
    <2> QED  BY <1>5, <1>6, <2>1, <2>2
<1>12. s \subseteq DOMAIN h2 /\ \A d \in Clients : IdsIn(t2[d]) \subseteq DOMAIN h2
    BY <1>1, <1>3, <1>5, <1>6
<1> QED  BY <1>4, <1>9, <1>10, <1>11, <1>12 DEF Placed

(* A set that has no id of the transaction stays whole.                    *)
LEMMA WholeJoin ==
    ASSUME NEW h1, NEW h2, NEW n, NEW b, NEW s, NEW t1, NEW t2, NEW p, NEW c \in Clients,
           Extends1(h1, h2, n, b), Joins(t1, t2, c, n, b), Placed(h1, s, t1, p), EarlyAt(p[c]),
           NEW S, NEW r, S \subseteq s, Whole(S, h1, r)
    PROVE  Whole(S, h2, r)
<1>1. DOMAIN h2 = DOMAIN h1 \cup {n} /\ n \notin DOMAIN h1 /\ h2[n].batch = b /\ n \notin S
    BY DEF Extends1, Placed
<1>2. \A id \in DOMAIN h1 : h2[id] = h1[id]
    BY DEF Extends1
<1>3. ASSUME NEW j \in DOMAIN h1, h1[j].batch = b PROVE j \notin S
    <2>1. CASE IdsIn(t1[c]) = {}
        <3>1. b = n
            BY <2>1 DEF Joins
        <3>2. h1[j].batch <= j /\ j < n /\ j \in Nat /\ n \in Nat /\ h1[j].batch \in Nat
            BY DEF Placed, Extends1
        <3> QED  BY <1>3, <3>1, <3>2
    <2>2. CASE IdsIn(t1[c]) # {}
        <3>1. b = FirstIn(t1[c])
            BY <2>2 DEF Joins
        <3>2. j \in IdsIn(t1[c])
            BY <1>3, <2>2, <3>1 DEF Placed
        <3> QED  BY <3>2 DEF Placed
    <2> QED  BY <2>1, <2>2
<1>4. ASSUME NEW i \in DOMAIN h2 \ r, NEW j \in DOMAIN h2 \ r, h2[i].batch = h2[j].batch
      PROVE  i \in S <=> j \in S
    <2>1. CASE i = n
        BY <1>1, <1>2, <1>3, <1>4, <2>1
    <2>2. CASE j = n
        BY <1>1, <1>2, <1>3, <1>4, <2>2
    <2>3. CASE i # n /\ j # n
        <3>1. i \in DOMAIN h1 \ r /\ j \in DOMAIN h1 \ r /\ h1[i].batch = h1[j].batch
            BY <1>1, <1>2, <1>4, <2>3
        <3> QED  BY <3>1 DEF Whole
    <2> QED  BY <2>1, <2>2, <2>3
<1> QED  BY <1>4 DEF Whole

(* commit puts the whole batch into the map.                               *)
LEMMA PlacedCommit ==
    ASSUME NEW h, NEW s1, NEW s2, NEW t, NEW p1, NEW p2, NEW c \in Clients,
           Placed(h, s1, t, p1), s2 = s1 \cup IdsIn(t[c]), ~EarlyAt(p2[c]),
           \A d \in Clients \ {c} : p2[d] = p1[d]
    PROVE  Placed(h, s2, t, p2)
<1>1. s2 \subseteq DOMAIN h
    BY DEF Placed
<1>2. \A d \in Clients : EarlyAt(p2[d]) => IdsIn(t[d]) \cap s2 = {}
    BY DEF Placed
<1> QED  BY <1>1, <1>2 DEF Placed

LEMMA WholeCommit ==
    ASSUME NEW h, NEW s, NEW t, NEW p, NEW c \in Clients, Placed(h, s, t, p),
           NEW S, NEW r, Whole(S, h, r)
    PROVE  Whole(S \cup IdsIn(t[c]), h, r)
<1> SUFFICES ASSUME NEW i \in DOMAIN h \ r, NEW j \in DOMAIN h \ r, h[i].batch = h[j].batch
             PROVE  i \in S \cup IdsIn(t[c]) <=> j \in S \cup IdsIn(t[c])
    BY DEF Whole
<1>1. i \in S <=> j \in S
    BY DEF Whole
<1>2. i \in IdsIn(t[c]) <=> j \in IdsIn(t[c])
    BY DEF Placed
<1> QED  BY <1>1, <1>2

(* What Batches says, one fact at a time.                                  *)
LEMMA BatchFacts ==
    ASSUME Batches
    PROVE  /\ Keyed(segment_map) /\ (segments_file # Torn => Keyed(segments_file))
           /\ Placed(home, Shown(segment_map, segments_file, held), txn, pc)
           /\ HeldIn(held) \subseteq DOMAIN segment_map \cup removed
           /\ ~up => HeldIn(held) = {}
           /\ Whole(DOMAIN segment_map, home, removed)
           /\ Whole(SavedIn(segments_file), home, removed)
BY DEF Batches, KeyedMaps, HeldKnown, WholeMaps

(* Putting the parts together again after a step.                          *)
LEMMA BatchNext ==
    ASSUME Keyed(segment_map'), segments_file' # Torn => Keyed(segments_file'),
           Placed(home', Shown(segment_map', segments_file', held'), txn', pc'),
           HeldIn(held') \subseteq DOMAIN segment_map' \cup removed',
           ~up' => HeldIn(held') = {},
           Whole(DOMAIN segment_map', home', removed'),
           Whole(SavedIn(segments_file'), home', removed')
    PROVE  Batches'
<1>1. KeyedMaps(segment_map', segments_file')
    BY DEF KeyedMaps
<1>2. HeldKnown(up', segment_map', held', removed')
    BY DEF HeldKnown
<1>3. WholeMaps(segment_map', segments_file', home', removed')
    BY DEF WholeMaps
<1> QED  BY <1>1, <1>2, <1>3 DEF Batches

(* Calls of one client that touch neither the map nor its file, hand out   *)
(* no id and clone nothing.                                                *)
LEMMA BatchSame ==
    ASSUME TypeOK, Batches, UNCHANGED <<up, segment_map, segments_file, held, home, removed>>,
           \A d \in Clients : Settles(txn[d], txn'[d], pc[d], pc'[d])
    PROVE  Batches'
<1>1. Placed(home, Shown(segment_map, segments_file, held), txn', pc')
    BY BatchFacts, PlacedKept
<1> QED  BY <1>1, BatchFacts, BatchNext

(* A transaction that ends has no ids, one that stays early keeps its own. *)
LEMMA SettlesEnd ==
    ASSUME NEW x, NEW y, NEW p, NEW q, y = NoTxn
    PROVE  Settles(x, y, p, q)
BY DEF Settles, IdsIn

LEMMA SettlesSame ==
    ASSUME NEW x, NEW p, NEW q, EarlyAt(p) \/ ~EarlyAt(q)
    PROVE  Settles(x, x, p, q)
BY DEF Settles

(* txn or pc as a whole when a step leaves it alone.                       *)
LEMMA SameExcept ==
    ASSUME TypeOK, NEW c \in Clients
    PROVE  txn = [txn EXCEPT ![c] = txn[c]] /\ pc = [pc EXCEPT ![c] = pc[c]]
BY DEF TypeOK

(* with_segment_mut and set_segment_metadata keep the ids.                 *)
LEMMA SetMetadataIds ==
    ASSUME TypeOK, NEW c \in Clients, NEW i \in 1 .. MaxSegments, SetSegmentMetadata(c, i)
    PROVE  /\ txn'[c] # NoTxn /\ txn' = [txn EXCEPT ![c] = txn'[c]]
           /\ IdsIn(txn'[c]) = IdsIn(txn[c])
           /\ IdsIn(txn[c]) # {} => FirstIn(txn'[c]) = FirstIn(txn[c])
<1> DEFINE x == txn[c]
           y == txn'[c]
           v == IF KeepOffset THEN x.pending[i].offset ELSE 0
<1>1. x # NoTxn /\ i \in DOMAIN x.pending
    BY DEF SetSegmentMetadata
<1>2. /\ x = [pending |-> x.pending, base_offset |-> x.base_offset,
              current_offset |-> x.current_offset]
      /\ x.pending \in Seq(Segment) /\ x.pending[i] \in Segment
    BY <1>1, TransactionType
<1>3. txn' = [txn EXCEPT ![c].pending[i].offset = v]
    BY DEF SetSegmentMetadata
<1>4. y = [x EXCEPT !.pending = [x.pending EXCEPT ![i] = [x.pending[i] EXCEPT !.offset = v]]]
    BY <1>3 DEF TypeOK
<1>5. txn' = [txn EXCEPT ![c] = y]
    BY <1>3 DEF TypeOK
<1> HIDE DEF v
<1>6. y.pending = [x.pending EXCEPT ![i] = [x.pending[i] EXCEPT !.offset = v]]
    BY <1>2, <1>4
<1>7. y # NoTxn
    <2> DEFINE p == x.pending[i]
               z == [p EXCEPT !.offset = v]
    <2>1. /\ p \in [id : SegIds, offset : 0 .. MaxOffset, len : 0 .. MaxOffset]
          /\ p.offset + p.len <= MaxOffset
        BY <1>2 DEF Segment
    <2>2. v = p.offset \/ v = 0
        BY DEF v
    <2> HIDE DEF p
    <2>3. z \in [id : SegIds, offset : 0 .. MaxOffset, len : 0 .. MaxOffset]
        BY <2>1, <2>2, LogAssumption
    <2>4. z.offset + z.len <= MaxOffset
        BY <2>1, <2>2
    <2> HIDE DEF z
    <2>5. z \in Segment
        BY <2>3, <2>4 DEF Segment
    <2>6. [x.pending EXCEPT ![i] = z] \in Seq(Segment)
        BY <1>1, <1>2, <2>5
    <2>7. x \in Transaction /\ y = [x EXCEPT !.pending = [x.pending EXCEPT ![i] = z]]
        BY <1>1, <1>4, TransactionType DEF p, z
    <2>8. y \in Transaction
        BY <2>6, <2>7 DEF Transaction
    <2> QED  BY <2>8, LogAssumption
<1>8. DOMAIN y.pending = DOMAIN x.pending
    BY <1>2, <1>6
<1>9. [x.pending[i] EXCEPT !.offset = v].id = x.pending[i].id
    BY <1>2 DEF Segment
<1>10. \A j \in DOMAIN x.pending : y.pending[j].id = x.pending[j].id
    BY <1>2, <1>6, <1>9
<1> HIDE DEF x, y
<1>11. IdsIn(y) = IdsIn(x)
    BY <1>1, <1>7, <1>8, <1>10 DEF IdsIn
<1>12. IdsIn(x) # {} => FirstIn(y) = FirstIn(x)
    <2>1. IdsIn(x) # {} => 1 \in DOMAIN x.pending
        BY <1>1, <1>2 DEF IdsIn
    <2> QED  BY <2>1, <1>10 DEF FirstIn
<1> QED  BY <1>5, <1>7, <1>11, <1>12 DEF x, y

(* Handing out an id extends the history by one.                           *)
LEMMA PromiseExtends ==
    ASSUME TypeOK, NEW offset, NEW len, NEW first \in Nat, Promise(offset, len, first),
           first <= next_id
    PROVE  Extends1(home, home', next_id, first)
<1>1. /\ DOMAIN home = 0 .. (next_id - 1) /\ next_id \in Nat /\ DOMAIN home' = 0 .. next_id
      /\ next_id \notin DOMAIN home
      /\ \A id \in DOMAIN home : id \in DOMAIN home' /\ home'[id] = home[id]
      /\ home'[next_id] = [offset |-> offset, len |-> len, batch |-> first]
    BY PromiseHome
<1>2. \A id \in DOMAIN home : home[id].batch \in Nat
    BY <1>1, LogAssumption DEF TypeOK, Place, SegIds
<1>3. DOMAIN home' = DOMAIN home \cup {next_id}
    BY <1>1
<1>4. \A id \in DOMAIN home : id \in Nat /\ id < next_id
    BY <1>1
<1>5. home'[next_id].batch = first
    BY <1>1
<1> QED  BY <1>1, <1>2, <1>3, <1>4, <1>5 DEF Extends1

LEMMA BatchAppend ==
    ASSUME TypeOK, Batches, NEW c \in Clients, NEW len \in Lengths, LogAppend(c, len)
    PROVE  Batches'
<1> DEFINE n == next_id
           s == NewSegment(next_id, next_offset, len)
           sh == Shown(segment_map, segments_file, held)
<1>1. /\ Promise(next_offset, len, n) /\ pc[c] = "idle" /\ pc' = [pc EXCEPT ![c] = "save"]
      /\ segment_map' = Insert(segment_map, s)
      /\ UNCHANGED <<up, segments_file, txn, held, removed>>
    BY DEF LogAppend, Idle
<1>2. n \in Nat /\ n <= n
    BY LogAssumption DEF TypeOK
<1>3. Extends1(home, home', n, n)
    BY <1>1, <1>2, PromiseExtends
<1>4. s.id = n
    BY DEF NewSegment
<1>5. DOMAIN segment_map' = DOMAIN segment_map \cup {n} /\ Keyed(segment_map')
    BY <1>1, <1>4, BatchFacts DEF Insert, Keyed
<1>6. Settles(txn[c], txn[c], pc[c], "save")
    BY <1>1, SettlesSame DEF EarlyAt
<1>7. \A d \in Clients : Settles(txn[d], txn'[d], pc[d], pc'[d])
    BY <1>1, <1>6, SameExcept, SettlesClient
<1>8. Placed(home, sh, txn', pc')
    BY <1>7, BatchFacts, PlacedKept
<1>9. Shown(segment_map', segments_file', held') \subseteq sh \cup {n}
    BY <1>1, <1>5 DEF Shown
<1> HIDE DEF s, sh, n
<1>10. Placed(home', Shown(segment_map', segments_file', held'), txn', pc')
    BY <1>3, <1>8, <1>9, PlacedAppend
<1>11. \A id \in DOMAIN home : home[id].batch <= id
    BY <1>8 DEF Placed
<1>12. /\ Whole(DOMAIN segment_map', home', removed')
       /\ Whole(SavedIn(segments_file'), home', removed')
    BY <1>1, <1>3, <1>5, <1>11, BatchFacts, WholeAppend
<1> QED  BY <1>1, <1>5, <1>10, <1>12, BatchFacts, BatchNext

LEMMA BatchAppendFails ==
    ASSUME TypeOK, Batches, NEW c \in Clients, NEW len \in Lengths, LogAppendFails(c, len)
    PROVE  Batches'
<1> DEFINE n == next_id
           sh == Shown(segment_map, segments_file, held)
<1>1. /\ Promise(next_offset, len, n)
      /\ UNCHANGED <<up, segment_map, segments_file, txn, pc, held, removed>>
    BY DEF LogAppendFails
<1>2. n \in Nat /\ n <= n
    BY LogAssumption DEF TypeOK
<1>3. Extends1(home, home', n, n)
    BY <1>1, <1>2, PromiseExtends
<1> HIDE DEF n
<1>4. Placed(home', sh, txn, pc)
    BY <1>3, BatchFacts, PlacedAppend
<1>5. \A id \in DOMAIN home : home[id].batch <= id
    BY BatchFacts DEF Placed
<1>6. Whole(DOMAIN segment_map, home', removed) /\ Whole(SavedIn(segments_file), home', removed)
    BY <1>3, <1>5, BatchFacts, WholeAppend
<1> QED  BY <1>1, <1>4, <1>6, BatchFacts, BatchNext

(* append_segment: what the transaction has afterwards.                    *)
LEMMA AppendSegmentJoins ==
    ASSUME TypeOK, Batches, NEW c \in Clients, NEW len \in Lengths, AppendSegment(c, len)
    PROVE  \E b \in Nat : /\ Extends1(home, home', next_id, b)
                          /\ Joins(txn, txn', c, next_id, b)
<1> DEFINE x == txn[c]
           y == txn'[c]
           n == next_id
           s == NewSegment(next_id, x.current_offset, len)
           b == IF x.pending = <<>> THEN n ELSE x.pending[1].id
           sh == Shown(segment_map, segments_file, held)
<1>1. /\ x # NoTxn /\ n < MaxSegments /\ x.current_offset + len <= MaxOffset
      /\ txn' = [txn EXCEPT ![c].pending = Append(@, s),
                            ![c].current_offset = x.current_offset + len]
      /\ Promise(x.current_offset, len, b)
    BY DEF AppendSegment
<1>2. n \in Nat /\ n \in SegIds
    BY <1>1, LogAssumption DEF TypeOK, SegIds
<1>3. /\ x \in Transaction /\ x.pending \in Seq(Segment) /\ x.current_offset \in 0 .. MaxOffset
      /\ x = [pending |-> x.pending, base_offset |-> x.base_offset,
              current_offset |-> x.current_offset]
    BY <1>1, TransactionType
<1>4. y = [x EXCEPT !.pending = Append(x.pending, s), !.current_offset = x.current_offset + len]
    BY <1>1 DEF TypeOK
<1>5. \A d \in Clients \ {c} : txn'[d] = txn[d]
    BY <1>1 DEF TypeOK
<1>6. s \in Segment /\ s.id = n
    BY <1>1, <1>2, <1>3, NewSegmentType DEF NewSegment
<1>7. y.pending = Append(x.pending, s)
    BY <1>3, <1>4
<1>8. y # NoTxn
    <2>1. Append(x.pending, s) \in Seq(Segment) /\ x.current_offset + len \in 0 .. MaxOffset
        BY <1>1, <1>3, <1>6, LogAssumption
    <2>2. y \in Transaction
        BY <1>3, <1>4, <2>1 DEF Transaction
    <2> QED  BY <2>2, LogAssumption
<1> HIDE DEF s, y
<1>9. IdsIn(y) = IdsIn(x) \cup {n}
    <2>1. DOMAIN y.pending = DOMAIN x.pending \cup {Len(x.pending) + 1}
        BY <1>3, <1>7
    <2>2. /\ \A i \in DOMAIN x.pending : y.pending[i] = x.pending[i]
          /\ y.pending[Len(x.pending) + 1].id = n
        BY <1>3, <1>6, <1>7
    <2>3. IdsIn(y) = {y.pending[i].id : i \in DOMAIN y.pending}
        BY <1>8 DEF IdsIn
    <2>4. IdsIn(x) = {x.pending[i].id : i \in DOMAIN x.pending}
        BY <1>1 DEF IdsIn
    <2> QED  BY <2>1, <2>2, <2>3, <2>4
<1>10. IdsIn(x) = {} <=> x.pending = <<>>
    <2>1. IdsIn(x) = {x.pending[i].id : i \in DOMAIN x.pending}
        BY <1>1 DEF IdsIn
    <2>2. x.pending # <<>> => 1 \in DOMAIN x.pending
        BY <1>3
    <2>3. x.pending = <<>> => DOMAIN x.pending = {}
        OBVIOUS
    <2> HIDE DEF x
    <2> QED  BY <2>1, <2>2, <2>3
<1>11. FirstIn(y) = b
    <2>1. CASE x.pending = <<>>
        <3>1. y.pending[1] = s
            BY <1>7, <2>1
        <3> QED  BY <1>6, <2>1, <3>1 DEF FirstIn
    <2>2. CASE x.pending # <<>>
        <3>1. y.pending[1] = x.pending[1]
            BY <1>3, <1>6, <1>7, <2>2
        <3> QED  BY <2>2, <3>1 DEF FirstIn
    <2> QED  BY <2>1, <2>2
<1>12. b \in Nat /\ b <= n
    <2>1. CASE x.pending = <<>>
        BY <1>2, <2>1
    <2>2. CASE x.pending # <<>>
        <3>1. x.pending[1].id \in IdsIn(x)
            BY <1>1, <1>3, <2>2 DEF IdsIn
        <3>2. x.pending[1].id \in DOMAIN home
            BY <3>1, BatchFacts DEF Placed
        <3> QED  BY <1>2, <2>2, <3>2 DEF TypeOK
    <2> QED  BY <2>1, <2>2
<1>13. Joins(txn, txn', c, n, b)
    <2>1. IdsIn(x) # {} => b = FirstIn(x)
        BY <1>10 DEF FirstIn
    <2>2. IdsIn(x) = {} => b = n
        BY <1>10
    <2> HIDE DEF b
    <2> QED  BY <1>5, <1>9, <1>11, <2>1, <2>2 DEF Joins, y
<1> HIDE DEF b
<1>14. Extends1(home, home', n, b)
    BY <1>1, <1>12, PromiseExtends
<1> QED  BY <1>12, <1>13, <1>14

LEMMA BatchAppendSegment ==
    ASSUME TypeOK, Batches, NEW c \in Clients, NEW len \in Lengths, AppendSegment(c, len)
    PROVE  Batches'
<1> DEFINE sh == Shown(segment_map, segments_file, held)
<1>1. UNCHANGED <<up, segment_map, segments_file, held, pc, removed>> /\ pc[c] = "idle"
    BY DEF AppendSegment, disk, Idle
<1>2. PICK b \in Nat : Extends1(home, home', next_id, b) /\ Joins(txn, txn', c, next_id, b)
    BY AppendSegmentJoins
<1>3. Placed(home', sh, txn', pc)
    BY <1>2, BatchFacts, PlacedJoin
<1>4. DOMAIN segment_map \subseteq sh /\ SavedIn(segments_file) \subseteq sh /\ EarlyAt(pc[c])
    BY <1>1 DEF Shown, EarlyAt
<1> HIDE DEF sh
<1>5. Whole(DOMAIN segment_map, home', removed) /\ Whole(SavedIn(segments_file), home', removed)
    <2>1. Placed(home, sh, txn, pc)
        BY BatchFacts DEF sh
    <2> QED  BY <1>2, <1>4, <2>1, BatchFacts, WholeJoin
<1> QED  BY <1>1, <1>3, <1>5, BatchFacts, BatchNext DEF sh

(* Steps that hand out no id and show no new one.                          *)
LEMMA BatchQuiet ==
    ASSUME TypeOK, Batches, home' = home,
           Shown(segment_map', segments_file', held')
                \subseteq Shown(segment_map, segments_file, held),
           \A d \in Clients : Settles(txn[d], txn'[d], pc[d], pc'[d]),
           Keyed(segment_map'), segments_file' # Torn => Keyed(segments_file'),
           HeldIn(held') \subseteq DOMAIN segment_map' \cup removed',
           ~up' => HeldIn(held') = {},
           Whole(DOMAIN segment_map', home', removed'),
           Whole(SavedIn(segments_file'), home', removed')
    PROVE  Batches'
<1>1. Placed(home', Shown(segment_map', segments_file', held'), txn', pc')
    BY BatchFacts, PlacedKept
<1> QED  BY <1>1, BatchNext

(* Removing ids loosens what has to be whole.                              *)
LEMMA WholeRemoved ==
    ASSUME NEW S, NEW h, NEW r1, NEW r2, Whole(S, h, r1), r1 \subseteq r2
    PROVE  Whole(S, h, r2)
BY DEF Whole

(* A map of Segments is not a torn file.                                   *)
LEMMA MapNotTorn ==
    ASSUME TypeOK
    PROVE  segment_map # Torn /\ SavedIn(segment_map) = DOMAIN segment_map
BY LogAssumption DEF TypeOK, SavedIn

(* Cloning a Segment of the map holds an id of the map.                    *)
LEMMA HeldCloned ==
    ASSUME NEW h, NEW c \in Clients, NEW s, h \in [Clients -> Segment \cup {NoCopy}]
    PROVE  HeldIn([h EXCEPT ![c] = s]) \subseteq HeldIn(h) \cup {s.id}
BY DEF HeldIn

LEMMA NothingHeld ==
    ASSUME NEW h, \A c \in Clients : h[c] = NoCopy
    PROVE  HeldIn(h) = {}
BY DEF HeldIn

(* A step that shows no id it did not show before.                         *)
ShowsNoMore ==
    Shown(segment_map', segments_file', held') \subseteq Shown(segment_map, segments_file, held)

LEMMA BatchMapCalls ==
    ASSUME TypeOK, Batches, NEW c \in Clients,
           \/ \E id \in SegIds : \/ GetSegmentMetadata(c, id)
                                 \/ ChangeRefcount(c, id)
                                 \/ RemoveSegment(c, id)
           \/ UpdateSegmentMetadata(c)
    PROVE  Batches' /\ ShowsNoMore
<1> USE DEF ShowsNoMore
<1> DEFINE sh == Shown(segment_map, segments_file, held)
<1>0. ASSUME pc[c] = "idle", pc' = [pc EXCEPT ![c] = "save"], txn' = txn
      PROVE  \A d \in Clients : Settles(txn[d], txn'[d], pc[d], pc'[d])
    <2>1. Settles(txn[c], txn[c], pc[c], "save")
        BY <1>0, SettlesSame DEF EarlyAt
    <2> QED  BY <1>0, <2>1, SameExcept, SettlesClient
<1>1. ASSUME NEW id \in SegIds, GetSegmentMetadata(c, id) PROVE Batches' /\ ShowsNoMore
    <2>1. /\ up /\ id \in DOMAIN segment_map /\ held' = [held EXCEPT ![c] = segment_map[id]]
          /\ UNCHANGED <<up, segment_map, segments_file, txn, pc, home, removed>>
        BY <1>1 DEF GetSegmentMetadata, Idle
    <2>2. segment_map[id].id = id
        BY <2>1, BatchFacts DEF Keyed
    <2>3. HeldIn(held') \subseteq HeldIn(held) \cup {id}
        BY <2>1, <2>2, HeldCloned DEF TypeOK
    <2>4. Shown(segment_map', segments_file', held') \subseteq sh
        BY <2>1, <2>3 DEF Shown
    <2>5. \A d \in Clients : Settles(txn[d], txn'[d], pc[d], pc'[d])
        BY <2>1, SettlesSame
    <2>6. HeldIn(held') \subseteq DOMAIN segment_map' \cup removed'
        BY <2>1, <2>3, BatchFacts
    <2> QED  BY <2>1, <2>4, <2>5, <2>6, BatchFacts, BatchQuiet
<1>2. ASSUME NEW id \in SegIds, ChangeRefcount(c, id) PROVE Batches' /\ ShowsNoMore
    <2>1. /\ pc[c] = "idle" /\ pc' = [pc EXCEPT ![c] = "save"]
          /\ UNCHANGED <<up, segment_map, segments_file, held, txn, home, removed>>
        BY <1>2 DEF ChangeRefcount, ChangeMap, Idle
    <2> QED  BY <1>0, <2>1, BatchSame
<1>3. ASSUME NEW id \in SegIds, RemoveSegment(c, id) PROVE Batches' /\ ShowsNoMore
    <2>1. /\ up /\ pc[c] = "idle" /\ pc' = [pc EXCEPT ![c] = "save"]
          /\ segment_map' = Restrict(segment_map, DOMAIN segment_map \ {id})
          /\ removed' = removed \cup {id}
          /\ UNCHANGED <<up, segments_file, held, txn, home>>
        BY <1>3 DEF RemoveSegment, ChangeMap, Idle
    <2>2. DOMAIN segment_map' = DOMAIN segment_map \ {id} /\ Keyed(segment_map')
        BY <2>1, BatchFacts DEF Restrict, Keyed
    <2>3. Shown(segment_map', segments_file', held') \subseteq sh
        BY <2>1, <2>2 DEF Shown
    <2>4. HeldIn(held') \subseteq DOMAIN segment_map' \cup removed'
        BY <2>1, <2>2, BatchFacts
    <2>5. Whole(DOMAIN segment_map, home, removed') /\ Whole(SavedIn(segments_file), home, removed')
        BY <2>1, BatchFacts, WholeRemoved
    <2>6. Whole(DOMAIN segment_map', home, removed')
        BY <2>1, <2>2, <2>5 DEF Whole
    <2> QED  BY <1>0, <2>1, <2>2, <2>3, <2>4, <2>5, <2>6, BatchFacts, BatchQuiet
<1>4. ASSUME UpdateSegmentMetadata(c) PROVE Batches' /\ ShowsNoMore
    <2> DEFINE s == held[c]
    <2>1. /\ up /\ pc[c] = "idle" /\ pc' = [pc EXCEPT ![c] = "save"] /\ s # NoCopy
          /\ segment_map' = Insert(segment_map, s)
          /\ UNCHANGED <<up, segments_file, held, txn, home, removed>>
        BY <1>4 DEF UpdateSegmentMetadata, ChangeMap, Idle
    <2>2. s.id \in HeldIn(held)
        BY <2>1 DEF HeldIn
    <2> HIDE DEF s
    <2>3. DOMAIN segment_map' = DOMAIN segment_map \cup {s.id} /\ Keyed(segment_map')
        BY <2>1, BatchFacts DEF Insert, Keyed
    <2>4. Shown(segment_map', segments_file', held') \subseteq sh
        BY <2>1, <2>2, <2>3 DEF Shown
    <2>5. HeldIn(held') \subseteq DOMAIN segment_map' \cup removed'
        BY <2>1, <2>3, BatchFacts
    <2>6. s.id \in DOMAIN segment_map \/ s.id \in removed
        BY <2>2, BatchFacts
    <2>7. Whole(DOMAIN segment_map', home, removed)
        BY <2>3, <2>6, BatchFacts DEF Whole
    <2> QED  BY <1>0, <2>1, <2>3, <2>4, <2>5, <2>7, BatchFacts, BatchQuiet
<1> QED  BY <1>1, <1>2, <1>3, <1>4

LEMMA BatchSave ==
    ASSUME TypeOK, Batches, NEW c \in Clients, SaveSegmentMap(c) \/ SaveFails(c)
    PROVE  Batches' /\ ShowsNoMore
<1> USE DEF ShowsNoMore
<1>1. CASE SaveSegmentMap(c)
    <2>1. /\ segments_file' = segment_map /\ pc' = [pc EXCEPT ![c] = "idle"]
          /\ pc[c] = "save" \/ (pc[c] = "commit_save" /\ txn' = [txn EXCEPT ![c] = NoTxn])
          /\ pc[c] = "save" => txn' = txn
          /\ UNCHANGED <<up, segment_map, held, home, removed>>
        BY <1>1 DEF SaveSegmentMap
    <2>2. \A d \in Clients : Settles(txn[d], txn'[d], pc[d], pc'[d])
        <3>1. CASE pc[c] = "save"
            <4>1. Settles(txn[c], txn[c], pc[c], "idle")
                BY <3>1, SettlesSame DEF EarlyAt
            <4>2. txn' = [txn EXCEPT ![c] = txn[c]] /\ pc' = [pc EXCEPT ![c] = "idle"]
                BY <2>1, <3>1, SameExcept
            <4> QED  BY <4>1, <4>2, SettlesClient
        <3>2. CASE pc[c] = "commit_save" /\ txn' = [txn EXCEPT ![c] = NoTxn]
            <4>1. Settles(txn[c], NoTxn, pc[c], "idle")
                BY SettlesEnd
            <4> QED  BY <2>1, <3>2, <4>1, SettlesClient
        <3> QED  BY <2>1, <3>1, <3>2
    <2>3. SavedIn(segments_file') = DOMAIN segment_map
        BY <2>1, MapNotTorn
    <2>4. Shown(segment_map', segments_file', held') \subseteq Shown(segment_map, segments_file, held)
        BY <2>1, <2>3 DEF Shown
    <2> QED  BY <2>1, <2>2, <2>3, <2>4, BatchFacts, BatchQuiet
<1>2. CASE SaveFails(c)
    <2>1. /\ UNCHANGED <<up, segment_map, segments_file, held, txn, home, removed>>
          /\ \/ pc[c] = "save" /\ pc' = [pc EXCEPT ![c] = "idle"]
             \/ pc[c] = "commit_save" /\ pc' = [pc EXCEPT ![c] = "drop"]
        BY <1>2 DEF SaveFails
    <2>2. Settles(txn[c], txn[c], pc[c], IF pc[c] = "save" THEN "idle" ELSE "drop")
        BY <2>1, SettlesSame DEF EarlyAt
    <2>3. pc' = [pc EXCEPT ![c] = IF pc[c] = "save" THEN "idle" ELSE "drop"]
        BY <2>1
    <2>4. \A d \in Clients : Settles(txn[d], txn'[d], pc[d], pc'[d])
        BY <2>1, <2>2, <2>3, SameExcept, SettlesClient
    <2> QED  BY <2>1, <2>4, BatchSame
<1> QED  BY <1>1, <1>2

(* Calls on a transaction that hand out no id and leave the map alone.     *)
LEMMA BatchTxnCalls ==
    ASSUME TypeOK, Batches, NEW c \in Clients,
           \/ BeginTransaction(c) \/ CommitEmpty(c) \/ CommitData(c)
           \/ CommitFails(c) \/ Rollback(c)
           \/ \E i \in 1 .. MaxSegments : SetSegmentMetadata(c, i)
    PROVE  /\ Batches'
           /\ UNCHANGED <<segment_map, segments_file, held, home>>
           /\ \A d \in Clients : IdsIn(txn'[d]) \subseteq IdsIn(txn[d])
<1>1. ASSUME NEW y, NEW q, txn' = [txn EXCEPT ![c] = y], pc' = [pc EXCEPT ![c] = q],
             Settles(txn[c], y, pc[c], q), IdsIn(y) \subseteq IdsIn(txn[c]),
             UNCHANGED <<up, segment_map, segments_file, held, home, removed>>
      PROVE  /\ Batches'
             /\ UNCHANGED <<segment_map, segments_file, held, home>>
             /\ \A d \in Clients : IdsIn(txn'[d]) \subseteq IdsIn(txn[d])
    <2>1. \A d \in Clients : Settles(txn[d], txn'[d], pc[d], pc'[d])
        BY <1>1, SettlesClient
    <2>2. \A d \in Clients : txn'[d] = txn[d] \/ (d = c /\ txn'[d] = y)
        BY <1>1 DEF TypeOK
    <2>3. \A d \in Clients : IdsIn(txn'[d]) \subseteq IdsIn(txn[d])
        BY <1>1, <2>2
    <2> QED  BY <1>1, <2>1, <2>3, BatchSame
<1>2. CASE BeginTransaction(c)
    <2> DEFINE y == [pending |-> <<>>, base_offset |-> next_offset,
                     current_offset |-> next_offset]
    <2>1. /\ txn' = [txn EXCEPT ![c] = y] /\ pc' = pc
          /\ UNCHANGED <<up, segment_map, segments_file, held, home, removed>>
        BY <1>2 DEF BeginTransaction, disk, history
    <2>2. IdsIn(y) = {}
        BY DEF IdsIn
    <2> HIDE DEF y
    <2>3. Settles(txn[c], y, pc[c], pc[c])
        BY <2>2 DEF Settles
    <2> QED  BY <1>1, <2>1, <2>2, <2>3, SameExcept
<1>3. CASE CommitEmpty(c) \/ CommitFails(c)
    <2>1. /\ txn' = [txn EXCEPT ![c] = NoTxn] /\ pc' = pc
          /\ UNCHANGED <<up, segment_map, segments_file, held, home, removed>>
        BY <1>3 DEF CommitEmpty, CommitFails, disk, history
    <2>2. IdsIn(NoTxn) = {} /\ Settles(txn[c], NoTxn, pc[c], pc[c])
        BY SettlesEnd DEF IdsIn
    <2> QED  BY <1>1, <2>1, <2>2, SameExcept
<1>4. CASE CommitData(c)
    <2>1. /\ txn' = txn /\ pc[c] = "idle" /\ pc' = [pc EXCEPT ![c] = "commit_map"]
          /\ UNCHANGED <<up, segment_map, segments_file, held, home, removed>>
        BY <1>4 DEF CommitData, Idle, history
    <2>2. Settles(txn[c], txn[c], pc[c], "commit_map")
        BY <2>1, SettlesSame DEF EarlyAt
    <2> QED  BY <1>1, <2>1, <2>2, SameExcept
<1>5. CASE Rollback(c)
    <2>1. /\ txn' = [txn EXCEPT ![c] = NoTxn] /\ pc' = [pc EXCEPT ![c] = "idle"]
          /\ UNCHANGED <<up, segment_map, segments_file, held, home, removed>>
        BY <1>5 DEF Rollback, disk
    <2>2. IdsIn(NoTxn) = {} /\ Settles(txn[c], NoTxn, pc[c], "idle")
        BY SettlesEnd DEF IdsIn
    <2> QED  BY <1>1, <2>1, <2>2
<1>6. ASSUME NEW i \in 1 .. MaxSegments, SetSegmentMetadata(c, i)
      PROVE  /\ Batches'
             /\ UNCHANGED <<segment_map, segments_file, held, home>>
             /\ \A d \in Clients : IdsIn(txn'[d]) \subseteq IdsIn(txn[d])
    <2>1. pc' = pc /\ UNCHANGED <<up, segment_map, segments_file, held, home, removed>>
        BY <1>6 DEF SetSegmentMetadata, disk, history
    <2>2. /\ txn' = [txn EXCEPT ![c] = txn'[c]] /\ IdsIn(txn'[c]) = IdsIn(txn[c])
          /\ IdsIn(txn[c]) # {} => FirstIn(txn'[c]) = FirstIn(txn[c])
        BY <1>6, SetMetadataIds
    <2>3. Settles(txn[c], txn'[c], pc[c], pc[c])
        BY <2>2 DEF Settles
    <2> QED  BY <1>1, <2>1, <2>2, <2>3, SameExcept
<1> QED  BY <1>2, <1>3, <1>4, <1>5, <1>6

LEMMA BatchCommitMap ==
    ASSUME TypeOK, Batches, NEW c \in Clients, CommitMap(c)
    PROVE  /\ Batches'
           /\ Shown(segment_map', segments_file', held')
                = Shown(segment_map, segments_file, held) \cup IdsIn(txn[c])
<1> DEFINE sh == Shown(segment_map, segments_file, held)
           w == txn[c].pending
           I == IdsIn(txn[c])
           entry(id) == w[CHOOSE i \in DOMAIN w : w[i].id = id]
<1>1. /\ txn[c] # NoTxn /\ pc' = [pc EXCEPT ![c] = "commit_save"]
      /\ UNCHANGED <<up, segments_file, txn, held, home, removed>>
    BY DEF CommitMap, TypeOK, disk, history
<1>2. PendingIds(c) = I
    BY <1>1, IdsPending
<1>3. segment_map' = [id \in DOMAIN segment_map \cup I |->
                        IF id \in I THEN entry(id) ELSE segment_map[id]]
    BY <1>2 DEF CommitMap
<1>4. ASSUME NEW id \in I PROVE entry(id).id = id
    <2>1. \E i \in DOMAIN w : w[i].id = id
        BY <1>2 DEF PendingIds
    <2> QED  BY <2>1
<1> HIDE DEF entry, w, I
<1>5. DOMAIN segment_map' = DOMAIN segment_map \cup I /\ Keyed(segment_map')
    BY <1>3, <1>4, BatchFacts DEF Keyed
<1>6. Shown(segment_map', segments_file', held') = sh \cup I
    BY <1>1, <1>5 DEF Shown
<1>7. ~EarlyAt(pc'[c]) /\ \A d \in Clients \ {c} : pc'[d] = pc[d]
    BY <1>1 DEF TypeOK, EarlyAt
<1> HIDE DEF sh
<1>8. Placed(home, sh, txn, pc)
    BY BatchFacts DEF sh
<1>9. Placed(home, Shown(segment_map', segments_file', held'), txn, pc')
    BY <1>6, <1>7, <1>8, PlacedCommit DEF I
<1>10. Whole(DOMAIN segment_map', home, removed)
    BY <1>5, <1>8, BatchFacts, WholeCommit DEF I
<1>11. HeldIn(held') \subseteq DOMAIN segment_map' \cup removed'
    BY <1>1, <1>5, BatchFacts
<1>12. Batches'
    BY <1>1, <1>5, <1>9, <1>10, <1>11, BatchFacts, BatchNext
<1> QED  BY <1>6, <1>12 DEF sh, I

LEMMA BatchRestart ==
    ASSUME TypeOK, Batches, Crash \/ Open
    PROVE  /\ Batches'
           /\ home' = home
           /\ Shown(segment_map', segments_file', held')
                \subseteq Shown(segment_map, segments_file, held)
           /\ \A d \in Clients : IdsIn(txn'[d]) \subseteq IdsIn(txn[d])
<1> DEFINE sh == Shown(segment_map, segments_file, held)
<1>1. CASE Crash
    <2>1. /\ segment_map' = [id \in {} |-> 0] /\ home' = home /\ removed' = removed
          /\ segments_file' = segments_file \/ segments_file' = Torn
          /\ \A d \in Clients : txn'[d] = NoTxn /\ held'[d] = NoCopy
        BY <1>1 DEF Crash, history
    <2>2. DOMAIN segment_map' = {} /\ HeldIn(held') = {}
        BY <2>1, NothingHeld
    <2>3. SavedIn(segments_file') \subseteq SavedIn(segments_file)
        BY <2>1 DEF SavedIn
    <2>4. Shown(segment_map', segments_file', held') \subseteq sh
        BY <2>2, <2>3 DEF Shown
    <2>5. \A d \in Clients : Settles(txn[d], txn'[d], pc[d], pc'[d])
        BY <2>1, SettlesEnd
    <2>6. Keyed(segment_map') /\ (segments_file' # Torn => Keyed(segments_file'))
        BY <2>1, <2>2, BatchFacts DEF Keyed
    <2>7. Whole(DOMAIN segment_map', home, removed)
        BY <2>2 DEF Whole
    <2>8. Whole(SavedIn(segments_file'), home, removed)
        <3>1. CASE segments_file' = segments_file
            BY <3>1, BatchFacts
        <3>2. CASE segments_file' = Torn
            BY <3>2 DEF Whole, SavedIn
        <3> QED  BY <2>1, <3>1, <3>2
    <2>9. \A d \in Clients : IdsIn(txn'[d]) = {}
        BY <2>1 DEF IdsIn
    <2> QED  BY <2>1, <2>2, <2>4, <2>5, <2>6, <2>7, <2>8, <2>9, BatchQuiet
<1>2. CASE Open
    <2>1. /\ ~up /\ segments_file # Torn /\ up' /\ segment_map' = segments_file
          /\ UNCHANGED <<segments_file, txn, held, pc, home, removed>>
        BY <1>2 DEF Open, disk, history
    <2>2. SavedIn(segments_file) = DOMAIN segment_map'
        BY <2>1 DEF SavedIn
    <2>3. Shown(segment_map', segments_file', held') \subseteq sh
        BY <2>1, <2>2 DEF Shown
    <2>4. \A d \in Clients : Settles(txn[d], txn'[d], pc[d], pc'[d])
        BY <2>1, SettlesSame
    <2>5. HeldIn(held') = {}
        BY <2>1, BatchFacts
    <2> QED  BY <2>1, <2>2, <2>3, <2>4, <2>5, BatchFacts, BatchQuiet
<1> QED  BY <1>1, <1>2

LEMMA BatchStep == TypeOK /\ Batches /\ [Next]_vars => Batches'
<1> SUFFICES ASSUME TypeOK, Batches, [Next]_vars PROVE Batches'
    OBVIOUS
<1>1. CASE UNCHANGED vars
    <2>1. UNCHANGED <<up, segment_map, segments_file, held, home, removed, txn, pc>>
        BY <1>1 DEF vars
    <2>2. \A d \in Clients : Settles(txn[d], txn'[d], pc[d], pc'[d])
        BY <2>1, SettlesSame
    <2> QED  BY <2>1, <2>2, BatchSame
<1>2. CASE Next
    BY <1>2, BatchAppend, BatchAppendFails, BatchAppendSegment, BatchMapCalls, BatchSave,
        BatchTxnCalls, BatchCommitMap, BatchRestart DEF Next
<1> QED  BY <1>1, <1>2

LEMMA BatchInit == Init => Batches
<1> SUFFICES ASSUME Init PROVE Batches
    OBVIOUS
<1>1. /\ DOMAIN segment_map = {} /\ DOMAIN segments_file = {} /\ DOMAIN home = {} /\ up
      /\ \A c \in Clients : txn[c] = NoTxn /\ held[c] = NoCopy
    BY DEF Init
<1>2. SavedIn(segments_file) = {} /\ HeldIn(held) = {}
    BY <1>1, NothingHeld DEF SavedIn
<1>3. Shown(segment_map, segments_file, held) = {}
    BY <1>1, <1>2 DEF Shown
<1>4. \A c \in Clients : IdsIn(txn[c]) = {}
    BY <1>1 DEF IdsIn
<1>5. Placed(home, {}, txn, pc)
    BY <1>1, <1>4 DEF Placed
<1>6. KeyedMaps(segment_map, segments_file) /\ HeldKnown(up, segment_map, held, removed)
    BY <1>1, <1>2 DEF KeyedMaps, Keyed, HeldKnown
<1>7. WholeMaps(segment_map, segments_file, home, removed)
    BY <1>1 DEF WholeMaps, Whole
<1> QED  BY <1>3, <1>5, <1>6, <1>7 DEF Batches

(* A commit is atomic on disk, whatever the clients do: transactions may   *)
(* overlap, writes and saves may fail or be torn, the process may crash    *)
(* anywhere.  The saved map has all the segments of a transaction or none, *)
(* as long as none of them is removed: they become visible in one step,    *)
(* under the lock of the map, and no other call can bring one of them back *)
(* alone.                                                                  *)
THEOREM CommitsAtomic == Spec => []CommitAtomic
<1>1. Batches => CommitAtomic
    BY BatchFacts DEF CommitAtomic, Whole, SavedIn
<1> QED  BY TypeCorrect, BatchInit, BatchStep, <1>1, PTL DEF Spec

(* What is handed out or announced stays among the ids promised; the first *)
(* save that fails ends the promise of AbortedInvisible.                   *)
LEMMA AbortedKnown ==
    ASSUME TypeOK, Batches, Unaborted, [Next]_vars
    PROVE  /\ budget'.saves <= MaxSaveFails
           /\ aborted' \subseteq DOMAIN home'
           /\ \A c \in Clients : ack'[c] \subseteq DOMAIN home'
           /\ budget'.saves = MaxSaveFails => budget.saves = MaxSaveFails
<1> USE LogAssumption
<1>1. DOMAIN home \subseteq DOMAIN home'
    BY HomeKept
<1>2. /\ budget \in [writes : Nat, saves : Nat, crashes : Nat] /\ ack \in [Clients -> SUBSET SegIds]
      /\ budget.saves <= MaxSaveFails /\ aborted \subseteq DOMAIN home
      /\ \A c \in Clients : ack[c] \subseteq DOMAIN home
    BY DEF TypeOK, Unaborted
<1>3. \A c \in Clients : txn[c] # NoTxn => PendingIds(c) \subseteq DOMAIN home
    <2>1. \A c \in Clients : IdsIn(txn[c]) \subseteq DOMAIN home
        BY BatchFacts DEF Placed
    <2> QED  BY <2>1, IdsPending
<1>4. ASSUME UNCHANGED <<budget, aborted, ack>>
      PROVE  /\ budget'.saves <= MaxSaveFails
             /\ aborted' \subseteq DOMAIN home'
             /\ \A c \in Clients : ack'[c] \subseteq DOMAIN home'
             /\ budget'.saves = MaxSaveFails => budget.saves = MaxSaveFails
    BY <1>1, <1>2, <1>4
<1>5. ASSUME NEW c \in Clients, NEW len \in Lengths, LogAppend(c, len)
      PROVE  /\ UNCHANGED <<budget, aborted>>
             /\ \A d \in Clients : ack'[d] \subseteq DOMAIN home'
    <2>1. /\ Promise(next_offset, len, next_id) /\ ack' = [ack EXCEPT ![c] = {next_id}]
          /\ UNCHANGED <<budget, aborted>>
        BY <1>5 DEF LogAppend
    <2>2. next_id \in DOMAIN home'
        BY <2>1, PromiseHome
    <2> QED  BY <1>1, <1>2, <2>1, <2>2
<1>6. ASSUME NEW c \in Clients, CommitMap(c)
      PROVE  /\ UNCHANGED <<budget, aborted>>
             /\ \A d \in Clients : ack'[d] \subseteq DOMAIN home'
    <2>1. ack' = [ack EXCEPT ![c] = PendingIds(c)] /\ txn[c] # NoTxn /\ UNCHANGED <<budget, aborted>>
        BY <1>6 DEF CommitMap, TypeOK, history
    <2> QED  BY <1>1, <1>2, <1>3, <2>1
<1>7. ASSUME NEW c \in Clients, SaveFails(c)
      PROVE  /\ budget'.saves = budget.saves - 1
             /\ aborted' \subseteq DOMAIN home'
             /\ \A d \in Clients : ack'[d] \subseteq DOMAIN home'
    <2>1. /\ budget' = [budget EXCEPT !.saves = @ - 1] /\ ack' = [ack EXCEPT ![c] = {}]
          /\ aborted' = aborted \cup ack[c] \/ aborted' = aborted
        BY <1>7 DEF SaveFails
    <2> QED  BY <1>1, <1>2, <2>1
<1>8. ASSUME NEW c \in Clients, CommitFails(c) \/ Rollback(c)
      PROVE  /\ budget'.saves = budget.saves
             /\ aborted' \subseteq DOMAIN home'
             /\ ack' = ack
    <2>1. /\ budget' = [budget EXCEPT !.writes = @ - 1] \/ budget' = budget
          /\ aborted' = aborted \cup PendingIds(c) /\ txn[c] # NoTxn /\ ack' = ack
        BY <1>8 DEF CommitFails, Rollback
    <2> QED  BY <1>1, <1>2, <1>3, <2>1
<1>9. ASSUME NEW c \in Clients, SaveSegmentMap(c)
      PROVE  /\ UNCHANGED <<budget, aborted>>
             /\ \A d \in Clients : ack'[d] \subseteq DOMAIN home'
    BY <1>1, <1>2, <1>9 DEF SaveSegmentMap
<1>10. ASSUME NEW c \in Clients, NEW len \in Lengths, LogAppendFails(c, len)
       PROVE  budget'.saves = budget.saves /\ UNCHANGED <<aborted, ack>>
    BY <1>2, <1>10 DEF LogAppendFails
<1>11. CASE Crash
    <2>1. /\ budget' = [budget EXCEPT !.crashes = @ - 1] /\ aborted' = aborted
          /\ \A d \in Clients : ack'[d] = {}
        BY <1>11 DEF Crash, history
    <2> QED  BY <1>1, <1>2, <2>1
<1>12. ASSUME NEW c \in Clients,
              \/ \E len \in Lengths : AppendSegment(c, len)
              \/ \E id \in SegIds : \/ GetSegmentMetadata(c, id)
                                    \/ ChangeRefcount(c, id)
                                    \/ RemoveSegment(c, id)
              \/ UpdateSegmentMetadata(c)
              \/ BeginTransaction(c) \/ CommitEmpty(c) \/ CommitData(c)
              \/ \E i \in 1 .. MaxSegments : SetSegmentMetadata(c, i)
       PROVE  UNCHANGED <<budget, aborted, ack>>
    BY <1>12 DEF AppendSegment, GetSegmentMetadata, ChangeRefcount, RemoveSegment, ChangeMap,
        UpdateSegmentMetadata, BeginTransaction, CommitEmpty, CommitData, SetSegmentMetadata, history
<1>13. CASE Open \/ UNCHANGED vars
    <2>1. UNCHANGED <<budget, aborted, ack>>
        BY <1>13 DEF Open, vars, history
    <2> QED  BY <1>4, <2>1
<1>14. ASSUME budget'.saves = budget.saves \/ budget'.saves = budget.saves - 1,
              aborted' \subseteq DOMAIN home', \A d \in Clients : ack'[d] \subseteq DOMAIN home'
       PROVE  /\ budget'.saves <= MaxSaveFails
              /\ aborted' \subseteq DOMAIN home'
              /\ \A c \in Clients : ack'[c] \subseteq DOMAIN home'
              /\ budget'.saves = MaxSaveFails => budget.saves = MaxSaveFails
    BY <1>2, <1>14
<1>15. ASSUME NEW c \in Clients, NEW len \in Lengths, LogAppend(c, len) \/ LogAppendFails(c, len)
       PROVE  /\ budget'.saves <= MaxSaveFails
              /\ aborted' \subseteq DOMAIN home'
              /\ \A d \in Clients : ack'[d] \subseteq DOMAIN home'
              /\ budget'.saves = MaxSaveFails => budget.saves = MaxSaveFails
    BY <1>1, <1>2, <1>5, <1>10, <1>14, <1>15
<1>16. ASSUME NEW c \in Clients, SaveSegmentMap(c) \/ SaveFails(c) \/ CommitFails(c)
                                 \/ CommitMap(c) \/ Rollback(c)
       PROVE  /\ budget'.saves <= MaxSaveFails
              /\ aborted' \subseteq DOMAIN home'
              /\ \A d \in Clients : ack'[d] \subseteq DOMAIN home'
              /\ budget'.saves = MaxSaveFails => budget.saves = MaxSaveFails
    BY <1>1, <1>2, <1>6, <1>7, <1>8, <1>9, <1>14, <1>16
<1> QED  BY <1>4, <1>11, <1>12, <1>13, <1>15, <1>16 DEF Next

(* Steps that abort nothing, show no aborted id and hand none to a         *)
(* transaction.                                                            *)
ShowsNone(a, s1, s2, t1, t2, p1, p2, N) ==
    /\ a \cap N = {} /\ s2 \subseteq s1 \cup N
    /\ \A d \in Clients : IdsIn(t2[d]) \subseteq IdsIn(t1[d]) \cup N
    /\ \A d \in Clients : p2[d] = "drop" => p1[d] = "drop"

LEMMA HiddenKept ==
    ASSUME NEW a, NEW s1, NEW s2, NEW t1, NEW t2, NEW p1, NEW p2, NEW N, Hidden(a, s1, t1, p1),
           ShowsNone(a, s1, s2, t1, t2, p1, p2, N)
    PROVE  Hidden(a, s2, t2, p2)
<1>1. a \cap s2 = {}
    BY DEF Hidden, ShowsNone
<1>2. \A d \in Clients : p2[d] # "drop" /\ a \cap IdsIn(t2[d]) = {}
    BY DEF Hidden, ShowsNone
<1> QED  BY <1>1, <1>2 DEF Hidden

LEMMA HiddenStep ==
    ASSUME TypeOK, Batches, Unaborted, [Next]_vars, budget'.saves = MaxSaveFails
    PROVE  Hidden(aborted', Shown(segment_map', segments_file', held'), txn', pc')
<1> DEFINE sh1 == Shown(segment_map, segments_file, held)
           sh2 == Shown(segment_map', segments_file', held')
<1>1. budget.saves = MaxSaveFails
    BY AbortedKnown
<1>2. Hidden(aborted, sh1, txn, pc) /\ aborted \subseteq DOMAIN home
    BY <1>1 DEF Unaborted
<1>3. Placed(home, sh1, txn, pc)
    BY BatchFacts
<1>4. ASSUME NEW N, aborted \cap N = {}, sh2 \subseteq sh1 \cup N, aborted' = aborted,
             \A d \in Clients : IdsIn(txn'[d]) \subseteq IdsIn(txn[d]) \cup N,
             \A d \in Clients : pc'[d] = "drop" => pc[d] = "drop"
      PROVE  Hidden(aborted', sh2, txn', pc')
    <2> HIDE DEF sh1, sh2
    <2>1. ShowsNone(aborted, sh1, sh2, txn, txn', pc, pc', N)
        BY <1>4 DEF ShowsNone
    <2>2. Hidden(aborted, sh2, txn', pc')
        BY <1>2, <2>1, HiddenKept
    <2> QED  BY <1>4, <2>2
<1>5. ASSUME UNCHANGED <<segment_map, segments_file, held, txn, pc, aborted>>
      PROVE  Hidden(aborted', sh2, txn', pc')
    BY <1>2, <1>5
<1> HIDE DEF sh1, sh2
<1>0. aborted \cap {} = {}
    OBVIOUS
<1>6. \A d \in Clients : pc[d] # "drop"
    BY <1>2 DEF Hidden
<1>7. ASSUME NEW c \in Clients, NEW len \in Lengths, LogAppend(c, len)
      PROVE  Hidden(aborted', sh2, txn', pc')
    <2> DEFINE s == NewSegment(next_id, next_offset, len)
    <2>1. /\ Promise(next_offset, len, next_id) /\ pc' = [pc EXCEPT ![c] = "save"]
          /\ segment_map' = Insert(segment_map, s)
          /\ UNCHANGED <<segments_file, txn, held, aborted>>
        BY <1>7 DEF LogAppend
    <2>2. next_id \notin DOMAIN home
        BY <2>1, PromiseHome
    <2>3. DOMAIN segment_map' = DOMAIN segment_map \cup {next_id}
        BY <2>1 DEF Insert, NewSegment
    <2>4. sh2 \subseteq sh1 \cup {next_id}
        BY <2>1, <2>3 DEF sh1, sh2, Shown
    <2>5. \A d \in Clients : pc'[d] = "drop" => pc[d] = "drop"
        BY <2>1 DEF TypeOK
    <2>6. aborted \cap {next_id} = {}
        BY <1>2, <2>2
    <2> HIDE DEF s
    <2> QED  BY <1>4, <2>1, <2>4, <2>5, <2>6
<1>8. ASSUME NEW c \in Clients, NEW len \in Lengths, LogAppendFails(c, len)
      PROVE  Hidden(aborted', sh2, txn', pc')
    BY <1>5, <1>8 DEF LogAppendFails
<1>9. ASSUME NEW c \in Clients, NEW len \in Lengths, AppendSegment(c, len)
      PROVE  Hidden(aborted', sh2, txn', pc')
    <2>1. UNCHANGED <<segment_map, segments_file, held, pc, aborted>>
        BY <1>9 DEF AppendSegment, disk
    <2>2. PICK b \in Nat : Extends1(home, home', next_id, b) /\ Joins(txn, txn', c, next_id, b)
        BY <1>9, AppendSegmentJoins
    <2>3. aborted \cap {next_id} = {}
        BY <1>2, <2>2 DEF Extends1
    <2>4. \A d \in Clients : IdsIn(txn'[d]) \subseteq IdsIn(txn[d]) \cup {next_id}
        BY <2>2 DEF Joins
    <2>5. sh2 \subseteq sh1 \cup {next_id}
        BY <2>1 DEF sh1, sh2
    <2> QED  BY <1>4, <2>1, <2>3, <2>4, <2>5
<1>10. ASSUME NEW c \in Clients,
              \/ \E id \in SegIds : \/ GetSegmentMetadata(c, id)
                                    \/ ChangeRefcount(c, id)
                                    \/ RemoveSegment(c, id)
              \/ UpdateSegmentMetadata(c)
       PROVE  Hidden(aborted', sh2, txn', pc')
    <2>1. sh2 \subseteq sh1 \cup {}
        BY <1>10, BatchMapCalls DEF sh1, sh2, ShowsNoMore
    <2>2. UNCHANGED <<txn, aborted>> /\ (pc' = pc \/ pc' = [pc EXCEPT ![c] = "save"])
        BY <1>10 DEF GetSegmentMetadata, ChangeRefcount, RemoveSegment, UpdateSegmentMetadata, ChangeMap
    <2>3. \A d \in Clients : pc'[d] = "drop" => pc[d] = "drop"
        BY <2>2 DEF TypeOK
    <2> QED  BY <1>0, <1>4, <2>1, <2>2, <2>3
<1>11. ASSUME NEW c \in Clients, SaveSegmentMap(c)
       PROVE  Hidden(aborted', sh2, txn', pc')
    <2>1. sh2 \subseteq sh1 \cup {}
        BY <1>11, BatchSave DEF sh1, sh2, ShowsNoMore
    <2>2. /\ aborted' = aborted /\ pc' = [pc EXCEPT ![c] = "idle"]
          /\ txn' = txn \/ txn' = [txn EXCEPT ![c] = NoTxn]
        BY <1>11 DEF SaveSegmentMap
    <2>3. \A d \in Clients : pc'[d] = "drop" => pc[d] = "drop"
        BY <2>2 DEF TypeOK
    <2>4. \A d \in Clients : txn'[d] = txn[d] \/ txn'[d] = NoTxn
        BY <2>2 DEF TypeOK
    <2>5. \A d \in Clients : IdsIn(txn'[d]) \subseteq IdsIn(txn[d]) \cup {}
        BY <2>4 DEF IdsIn
    <2> QED  BY <1>0, <1>4, <2>1, <2>2, <2>3, <2>5
<1>12. ASSUME NEW c \in Clients, SaveFails(c) PROVE FALSE
    <2>1. budget' = [budget EXCEPT !.saves = @ - 1] /\ budget \in [writes : Nat, saves : Nat, crashes : Nat]
        BY <1>12 DEF SaveFails, TypeOK
    <2> QED  BY <1>1, <2>1
<1>13. ASSUME NEW c \in Clients,
              \/ BeginTransaction(c) \/ CommitEmpty(c) \/ CommitData(c)
              \/ \E i \in 1 .. MaxSegments : SetSegmentMetadata(c, i)
       PROVE  Hidden(aborted', sh2, txn', pc')
    <2>1. /\ UNCHANGED <<segment_map, segments_file, held>>
          /\ \A d \in Clients : IdsIn(txn'[d]) \subseteq IdsIn(txn[d]) \cup {}
        BY <1>13, BatchTxnCalls
    <2>2. aborted' = aborted /\ (pc' = pc \/ pc' = [pc EXCEPT ![c] = "commit_map"])
        BY <1>13 DEF BeginTransaction, CommitEmpty, CommitData, SetSegmentMetadata, history
    <2>3. \A d \in Clients : pc'[d] = "drop" => pc[d] = "drop"
        BY <2>2 DEF TypeOK
    <2>4. sh2 \subseteq sh1 \cup {}
        BY <2>1 DEF sh1, sh2
    <2> QED  BY <1>0, <1>4, <2>1, <2>2, <2>3, <2>4
<1>14. ASSUME NEW c \in Clients, CommitFails(c) \/ Rollback(c)
       PROVE  Hidden(aborted', sh2, txn', pc')
    <2> DEFINE I == IdsIn(txn[c])
    <2>1. /\ txn[c] # NoTxn /\ txn' = [txn EXCEPT ![c] = NoTxn]
          /\ pc' = pc \/ pc' = [pc EXCEPT ![c] = "idle"]
          /\ aborted' = aborted \cup PendingIds(c)
          /\ pc[c] \in {"idle", "drop"}
        BY <1>14 DEF CommitFails, Rollback, Idle
    <2>2. aborted' = aborted \cup I
        BY <2>1, IdsPending
    <2>3. pc[c] = "idle" /\ EarlyAt(pc[c])
        BY <1>6, <2>1 DEF EarlyAt
    <2>4. I \cap sh1 = {}
        BY <1>3, <2>3 DEF Placed
    <2>5. UNCHANGED <<segment_map, segments_file, held>>
        BY <1>14, BatchTxnCalls
    <2>6. sh2 = sh1
        BY <2>5 DEF sh1, sh2
    <2>7. ASSUME NEW d \in Clients
          PROVE  pc'[d] # "drop" /\ aborted' \cap IdsIn(txn'[d]) = {}
        <3>1. pc'[d] # "drop"
            BY <1>6, <2>1 DEF TypeOK
        <3>2. CASE d = c
            <4>1. txn'[d] = NoTxn
                BY <2>1, <3>2 DEF TypeOK
            <4>2. IdsIn(txn'[d]) = {}
                BY <4>1 DEF IdsIn
            <4> QED  BY <3>1, <4>2
        <3>3. CASE d # c
            <4>1. txn'[d] = txn[d]
                BY <2>1, <3>3 DEF TypeOK
            <4>2. I \cap IdsIn(txn[d]) = {}
                BY <1>3, <3>3 DEF Placed
            <4>3. aborted \cap IdsIn(txn[d]) = {}
                BY <1>2 DEF Hidden
            <4> QED  BY <2>2, <3>1, <4>1, <4>2, <4>3
        <3> QED  BY <3>2, <3>3
    <2>8. aborted' \cap sh2 = {}
        BY <1>2, <2>2, <2>4, <2>6 DEF Hidden
    <2> QED  BY <2>7, <2>8 DEF Hidden
<1>15. ASSUME NEW c \in Clients, CommitMap(c)
       PROVE  Hidden(aborted', sh2, txn', pc')
    <2>1. sh2 = sh1 \cup IdsIn(txn[c])
        BY <1>15, BatchCommitMap DEF sh1, sh2
    <2>2. UNCHANGED <<txn, aborted>> /\ pc' = [pc EXCEPT ![c] = "commit_save"]
        BY <1>15 DEF CommitMap, history
    <2>3. \A d \in Clients : pc'[d] = "drop" => pc[d] = "drop"
        BY <2>2 DEF TypeOK
    <2>4. aborted \cap IdsIn(txn[c]) = {}
        BY <1>2 DEF Hidden
    <2> QED  BY <1>4, <2>1, <2>2, <2>3, <2>4
<1>16. CASE Crash \/ Open
    <2>1. /\ sh2 \subseteq sh1 \cup {}
          /\ \A d \in Clients : IdsIn(txn'[d]) \subseteq IdsIn(txn[d]) \cup {}
        BY <1>16, BatchRestart DEF sh1, sh2
    <2>2. aborted' = aborted /\ \A d \in Clients : pc'[d] = "drop" => pc[d] = "drop"
        BY <1>16 DEF Crash, Open, history
    <2>3. Hidden(aborted', sh2, txn', pc')
        BY <1>0, <1>4, <2>1, <2>2
    <2> QED  BY <2>3 DEF sh2
<1>17. CASE UNCHANGED vars
    <2>1. UNCHANGED <<segment_map, segments_file, held, txn, pc, aborted>>
        BY <1>17 DEF vars
    <2>2. Hidden(aborted', sh2, txn', pc')
        BY <1>5, <2>1
    <2> QED  BY <2>2 DEF sh2
<1> QED  BY <1>7, <1>8, <1>9, <1>10, <1>11, <1>12, <1>13, <1>14, <1>15, <1>16, <1>17
        DEF Next, sh2

LEMMA UnabortedInit == Init => Unaborted
<1> SUFFICES ASSUME Init PROVE Unaborted
    OBVIOUS
<1>1. /\ budget.saves = MaxSaveFails /\ aborted = {} /\ \A c \in Clients : ack[c] = {}
      /\ \A c \in Clients : pc[c] = "idle"
    BY DEF Init
<1>2. Hidden(aborted, Shown(segment_map, segments_file, held), txn, pc)
    BY <1>1 DEF Hidden
<1> QED  BY <1>1, <1>2, LogAssumption DEF Unaborted

(* A transaction that returned an error or was rolled back leaves no trace *)
(* in the saved map as long as no save of the map has failed; again        *)
(* whatever the clients do and wherever the process crashes.               *)
THEOREM AbortsInvisible == Spec => []AbortedInvisible
<1>1. Init => Batches /\ Unaborted
    BY BatchInit, UnabortedInit
<1>2. TypeOK /\ Batches /\ Unaborted /\ [Next]_vars => (Batches /\ Unaborted)'
    <2> SUFFICES ASSUME TypeOK, Batches, Unaborted, [Next]_vars PROVE (Batches /\ Unaborted)'
        OBVIOUS
    <2>1. Unaborted'
        BY AbortedKnown, HiddenStep DEF Unaborted
    <2> QED  BY <2>1, BatchStep
<1>3. Unaborted => AbortedInvisible
    BY DEF Unaborted, Hidden, Shown, SavedIn, AbortedInvisible
<1> QED  BY TypeCorrect, <1>1, <1>2, <1>3, PTL DEF Spec
=============================================================================

--------------------------- MODULE ComponentProofs ---------------------------
(***************************************************************************)
(* The components that stand by themselves: their variables are their own, *)
(* so one module can reason about each in turn.                            *)
(*                                                                         *)
(* The audit log, for all intervals, batch sizes, file sizes and bounds:   *)
(* neighbouring lines that parse are linked, every batch carries a proof   *)
(* and a power loss costs a bounded number of records.                     *)
(*                                                                         *)
(* The filter before the content index has no false negatives, for all     *)
(* sets of hashes, buckets and threads, however bucket sequences overlap   *)
(* and repeat and however updates interleave.                              *)
(*                                                                         *)
(* The mesh, for all nodes, policies, events and capsules: data is placed  *)
(* in the scope of its policy, every segment is offered to every target,   *)
(* events reach the agent once and in order, views follow their metadata.  *)
(*                                                                         *)
(* The NFS view, for all callers, names, capsules and usages: a capsule    *)
(* has one owner, so no file loses its own and, in a flat directory, none  *)
(* leaks; and the namespace is a tree and saved if calls do not overlap    *)
(* or name what is in the root, and backslashes are not used.              *)
(*                                                                         *)
(* The S3 view, for all clients, names and bodies: its handlers implement  *)
(* ObjectStore however they interleave, as long as a bucket is one name.   *)
(***************************************************************************)
EXTENDS AuditLog, BloomIndex, Mesh, NfsView, S3View, SetLemmas, FiniteSetTheorems, SequenceTheorems

-----------------------------------------------------------------------------
(* The audit log.                                                          *)

Entry == [hash : Nat, prev : Nat, proof : BOOLEAN]
Line == [parts : Seq(Entry \cup {Torn}), newline : BOOLEAN]

SyncTypeOK ==
    /\ synced \in Nat /\ rotated_synced \in Nat /\ unsynced_starts \in Nat
    /\ failed_syncs \in Nat /\ rotated_limit \in Nat

(* Every variable has the type its field has in the code; hashes are those *)
(* of appends already begun.                                               *)
AuditTypeOK ==
    /\ path_file \in Seq(Line) /\ rotated_file \in Seq(Line)
    /\ on_rotated \in BOOLEAN
    /\ last_hash \in Nat
    /\ events_since_flush \in Nat /\ events_since_tsa \in Nat
    /\ appends \in Nat /\ stretch \in Nat
    /\ faults \in Nat /\ starts \in Nat
    /\ logged \in Seq([record : Entry, stretch : Nat])
    /\ SyncTypeOK

-----------------------------------------------------------------------------
(* What a write does to the lines of a file.                               *)

LEMMA RecordType ==
    ASSUME AuditTypeOK
    PROVE  Record \in Entry /\ Record.hash = appends + 1 /\ Record.prev = last_hash
BY DEF AuditTypeOK, Record, Entry, TsaDue

(* A part of the file from its start.                                      *)
LEMMA KeptLines ==
    ASSUME NEW lines \in Seq(Line), NEW k \in 0 .. Len(lines)
    PROVE  LET kept == SubSeq(lines, 1, k)
           IN  kept \in Seq(Line) /\ Len(kept) = k /\ \A i \in 1 .. k : kept[i] = lines[i]
BY SubSeqProperties, LenProperties

(* w is lines with a fragment added: to an unfinished last line, which no  *)
(* longer parses then, or on a line of its own.                            *)
Continues(w, lines, part, newline) ==
    /\ Len(w) > 0 /\ Len(w) >= Len(lines) /\ Len(w) <= Len(lines) + 1
    /\ \A i \in 1 .. (Len(w) - 1) : i \in 1 .. Len(lines) /\ w[i] = lines[i]
    /\ w[Len(w)].parts # <<>>
    /\ Len(w) = Len(lines) /\ lines[Len(w)].parts # <<>> => ~Parses(w[Len(w)])
    /\ Len(w) > Len(lines) =>
        /\ w[Len(w)] = [parts |-> <<part>>, newline |-> newline]
        /\ Len(lines) > 0 => lines[Len(lines)].newline

LEMMA WrittenLine ==
    ASSUME NEW lines \in Seq(Line), NEW part \in Entry \cup {Torn}, NEW newline \in BOOLEAN
    PROVE  /\ Written(lines, part, newline) \in Seq(Line)
           /\ Continues(Written(lines, part, newline), lines, part, newline)
<1>1. CASE lines # <<>> /\ ~Last(lines).newline
    <2> DEFINE front == Front(lines)
               new == [parts |-> Append(Last(lines).parts, part), newline |-> newline]
    <2>1. Len(lines) \in Nat \ {0} /\ lines[Len(lines)] \in Line /\ Last(lines) = lines[Len(lines)]
        <3>1. lines # <<>>
            BY <1>1
        <3>2. Len(lines) \in Nat \ {0}
            BY <3>1, EmptySeq
        <3> QED  BY <3>2, ElementOfSeq DEF Last
    <2>2. front \in Seq(Line) /\ Len(front) = Len(lines) - 1
          /\ \A i \in 1 .. (Len(lines) - 1) : front[i] = lines[i]
        <3>1. Len(lines) - 1 \in 0 .. Len(lines)
            BY <2>1
        <3> QED  BY <3>1, KeptLines DEF Front
    <2>3. Last(lines).parts \in Seq(Entry \cup {Torn})
        BY <2>1 DEF Line
    <2>4. /\ Append(Last(lines).parts, part) \in Seq(Entry \cup {Torn})
          /\ Len(Append(Last(lines).parts, part)) = Len(Last(lines).parts) + 1
        BY <2>3, AppendProperties
    <2>a. new.parts # <<>>
        BY <2>3, AppendProperties
    <2>5. new \in Line
        BY <2>4 DEF Line
    <2> HIDE DEF front, new
    <2>6. Written(lines, part, newline) = Append(front, new)
        BY <1>1 DEF Written, front, new
    <2>7. /\ Append(front, new) \in Seq(Line) /\ Len(Append(front, new)) = Len(lines)
          /\ \A i \in 1 .. (Len(lines) - 1) : Append(front, new)[i] = lines[i]
          /\ Append(front, new)[Len(lines)] = new
        BY <2>1, <2>2, <2>5, AppendProperties
    <2>8. Last(lines).parts # <<>> => ~Parses(new)
        <3>1. Last(lines).parts # <<>> => Len(Last(lines).parts) > 0
            BY <2>3, EmptySeq, LenProperties
        <3> QED  BY <2>3, <2>4, <3>1, LenProperties DEF Parses, new
    <2> QED  BY <2>1, <2>6, <2>7, <2>8, <2>a DEF Continues
<1>2. CASE ~(lines # <<>> /\ ~Last(lines).newline)
    <2> DEFINE new == [parts |-> <<part>>, newline |-> newline]
    <2>1. new \in Line
        BY DEF Line
    <2>2. Len(lines) \in Nat /\ (Len(lines) > 0 => lines[Len(lines)].newline)
        BY <1>2, LenProperties, EmptySeq DEF Last
    <2>3. Written(lines, part, newline) = Append(lines, new)
        BY <1>2 DEF Written
    <2> HIDE DEF new
    <2>4. /\ Append(lines, new) \in Seq(Line) /\ Len(Append(lines, new)) = Len(lines) + 1
          /\ \A i \in 1 .. Len(lines) : Append(lines, new)[i] = lines[i]
          /\ Append(lines, new)[Len(lines) + 1] = new
        BY <2>1, AppendProperties
    <2> QED  BY <2>2, <2>3, <2>4 DEF new, Continues
<1> QED  BY <1>1, <1>2

(* A write without a newline leaves the last line unfinished.              *)
LEMMA WrittenOpen ==
    ASSUME NEW lines \in Seq(Line), NEW part \in Entry \cup {Torn}
    PROVE  LET w == Written(lines, part, FALSE) IN ~w[Len(w)].newline
<1>1. CASE lines # <<>> /\ ~Last(lines).newline
    <2> DEFINE front == Front(lines)
               new == [parts |-> Append(Last(lines).parts, part), newline |-> FALSE]
    <2>1. lines # <<>>
        BY <1>1
    <2>2. Len(lines) \in Nat \ {0}
        BY <2>1, EmptySeq
    <2>3. Len(lines) - 1 \in 0 .. Len(lines)
        BY <2>2
    <2>4. front \in Seq(Line)
        BY <2>3, KeptLines DEF Front
    <2>5. new \in Line
        <3>1. Last(lines) \in Line
            BY <2>2, ElementOfSeq DEF Last
        <3>2. Append(Last(lines).parts, part) \in Seq(Entry \cup {Torn})
            BY <3>1, AppendProperties DEF Line
        <3> QED  BY <3>2 DEF Line
    <2>6. Written(lines, part, FALSE) = Append(front, new)
        BY <1>1 DEF Written
    <2>7. ~new.newline
        OBVIOUS
    <2> HIDE DEF front, new
    <2>8. Append(front, new)[Len(Append(front, new))] = new
        BY <2>4, <2>5, AppendProperties
    <2> QED  BY <2>6, <2>7, <2>8
<1>2. CASE ~(lines # <<>> /\ ~Last(lines).newline)
    <2> DEFINE new == [parts |-> <<part>>, newline |-> FALSE]
    <2>1. new \in Line /\ ~new.newline
        BY DEF Line
    <2>2. Written(lines, part, FALSE) = Append(lines, new)
        BY <1>2 DEF Written
    <2> HIDE DEF new
    <2>3. Append(lines, new)[Len(Append(lines, new))] = new
        BY <2>1, AppendProperties
    <2> QED  BY <2>1, <2>2, <2>3
<1> QED  BY <1>1, <1>2

(* The lines of a file are never empty, and hashes are below the next.     *)
GoodLines(lines, n) ==
    \A i \in 1 .. Len(lines) :
        /\ lines[i].parts # <<>>
        /\ Parses(lines[i]) => lines[i].parts[1].hash \in 1 .. n

LinkedLines(lines) ==
    \A i \in 1 .. (Len(lines) - 1) :
        Parses(lines[i]) /\ Parses(lines[i + 1]) =>
            lines[i + 1].parts[1].prev = lines[i].parts[1].hash

(* A finished last line that parses is the record the chain goes on from.  *)
ChainEnd(lines, hash) ==
    Len(lines) > 0 /\ lines[Len(lines)].newline /\ Parses(lines[Len(lines)]) =>
        lines[Len(lines)].parts[1].hash = hash

LEMMA RecoveredEnd ==
    ASSUME NEW lines \in Seq(Line), Len(lines) > 0, Parses(lines[Len(lines)])
    PROVE  RecoverLastHash(lines) = lines[Len(lines)].parts[1].hash
<1> DEFINE good == {i \in DOMAIN lines : Parses(lines[i])}
<1>1. Len(lines) \in Nat /\ DOMAIN lines = 1 .. Len(lines)
    BY LenProperties
<1>2. Len(lines) \in good /\ \A i \in good : i \in Nat /\ i <= Len(lines)
    BY <1>1
<1>3. Max(good) = Len(lines)
    <2> HIDE DEF good
    <2>1. \E x \in good : \A y \in good : x >= y
        BY <1>1, <1>2
    <2>2. Max(good) \in good /\ \A y \in good : Max(good) >= y
        BY <2>1 DEF Max
    <2> QED  BY <1>1, <1>2, <2>2
<1>4. good # {}
    BY <1>2
<1> QED  BY <1>3, <1>4 DEF RecoverLastHash

LEMMA RecoveredType ==
    ASSUME NEW lines \in Seq(Line)
    PROVE  RecoverLastHash(lines) \in Nat
<1> DEFINE good == {i \in DOMAIN lines : Parses(lines[i])}
<1>1. Len(lines) \in Nat /\ DOMAIN lines = 1 .. Len(lines)
    BY LenProperties
<1>2. CASE good = {}
    BY <1>2 DEF RecoverLastHash
<1>3. CASE good # {}
    <2>1. good \in SUBSET (0 .. Len(lines))
        BY <1>1
    <2>2. Max(good) \in good
        BY <1>1, <1>3, <2>1, MaxOfBounded
    <2>3. lines[Max(good)] \in Line /\ Parses(lines[Max(good)])
        BY <1>1, <2>2, ElementOfSeq
    <2>4. lines[Max(good)].parts[1] \in Entry
        <3> HIDE DEF good
        <3>1. /\ lines[Max(good)].parts \in Seq(Entry \cup {Torn})
              /\ Len(lines[Max(good)].parts) = 1
            BY <2>3 DEF Line, Parses
        <3> QED  BY <2>3, <3>1, ElementOfSeq DEF Parses
    <2> QED  BY <1>3, <2>4 DEF RecoverLastHash, Entry
<1> QED  BY <1>2, <1>3

-----------------------------------------------------------------------------
(* Links.                                                                  *)

(* A file that goes on with a record linked to its end stays linked.       *)
LEMMA WrittenLinks ==
    ASSUME NEW lines \in Seq(Line), NEW part \in Entry \cup {Torn}, NEW newline \in BOOLEAN,
           NEW hash,
           \A i \in 1 .. Len(lines) : lines[i].parts # <<>>,
           LinkedLines(lines), ChainEnd(lines, hash),
           part # Torn => part.prev = hash
    PROVE  LET w == Written(lines, part, newline)
           IN  /\ \A i \in 1 .. Len(w) : w[i].parts # <<>>
               /\ LinkedLines(w)
               /\ ChainEnd(w, part.hash)
<1> DEFINE w == Written(lines, part, newline)
<1>0. w \in Seq(Line) /\ Len(w) \in Nat /\ Len(lines) \in Nat
    BY WrittenLine, LenProperties
<1>1. Continues(w, lines, part, newline)
    BY WrittenLine
<1> HIDE DEF w
<1>2. CASE Len(w) = Len(lines)
    <2>1. ~Parses(w[Len(w)])
        BY <1>0, <1>1, <1>2 DEF Continues
    <2>2. LinkedLines(w)
        <3> SUFFICES ASSUME NEW i \in 1 .. (Len(w) - 1), Parses(w[i]), Parses(w[i + 1])
                     PROVE  w[i + 1].parts[1].prev = w[i].parts[1].hash
            BY DEF LinkedLines
        <3>1. i + 1 # Len(w)
            BY <2>1
        <3>2. i + 1 \in 1 .. (Len(w) - 1) /\ i \in 1 .. (Len(lines) - 1)
            BY <1>0, <1>1, <1>2, <3>1
        <3> QED  BY <1>0, <1>1, <3>2 DEF LinkedLines, Continues
    <2> QED  BY <1>0, <1>1, <2>1, <2>2 DEF ChainEnd, Continues, w
<1>3. CASE Len(w) = Len(lines) + 1
    <2>1. /\ w[Len(w)].parts = <<part>> /\ w[Len(w)].newline = newline
          /\ Len(lines) > 0 => lines[Len(lines)].newline
        BY <1>0, <1>1, <1>3 DEF Continues
    <2>2. Parses(w[Len(w)]) => part # Torn
        BY <2>1 DEF Parses
    <2>3. LinkedLines(w)
        <3> SUFFICES ASSUME NEW i \in 1 .. (Len(w) - 1), Parses(w[i]), Parses(w[i + 1])
                     PROVE  w[i + 1].parts[1].prev = w[i].parts[1].hash
            BY DEF LinkedLines
        <3>1. CASE i + 1 = Len(w)
            <4>1. i = Len(lines) /\ w[i] = lines[i] /\ Len(lines) > 0
                BY <1>0, <1>1, <1>3, <3>1 DEF Continues
            <4>2. w[i].parts[1].hash = hash
                BY <2>1, <4>1 DEF ChainEnd
            <4> QED  BY <2>1, <2>2, <3>1, <4>2
        <3>2. CASE i + 1 # Len(w)
            <4>1. i + 1 \in 1 .. (Len(w) - 1) /\ i \in 1 .. (Len(lines) - 1)
                BY <1>0, <1>1, <1>3, <3>2
            <4> QED  BY <1>0, <1>1, <4>1 DEF LinkedLines, Continues
        <3> QED  BY <3>1, <3>2
    <2>4. ChainEnd(w, part.hash)
        BY <2>1 DEF ChainEnd
    <2> QED  BY <1>0, <1>1, <2>3, <2>4 DEF Continues, w
<1> QED  BY <1>0, <1>1, <1>2, <1>3 DEF Continues

(* A file whose records come from the first n appends.                     *)
File(lines, n) == lines \in Seq(Line) /\ GoodLines(lines, n) /\ LinkedLines(lines)

(* The files are linked, and the chain goes on from the end of the open    *)
(* one.                                                                    *)
ChainInv ==
    /\ File(path_file, appends) /\ File(rotated_file, appends)
    /\ ChainEnd(Current, last_hash)

LEMMA EmptyFile == \A n \in Nat : File(<<>>, n)
BY EmptySeq DEF File, GoodLines, LinkedLines

LEMMA LaterFile ==
    ASSUME NEW n \in Nat, NEW m \in Nat, n <= m, NEW lines, File(lines, n)
    PROVE  File(lines, m)
BY DEF File, GoodLines

LEMMA KeptFile ==
    ASSUME NEW n \in Nat, NEW lines, File(lines, n), NEW k \in 0 .. Len(lines)
    PROVE  File(SubSeq(lines, 1, k), n)
<1> DEFINE kept == SubSeq(lines, 1, k)
<1>1. lines \in Seq(Line) /\ Len(lines) \in Nat /\ k \in Nat /\ k <= Len(lines)
    BY LenProperties DEF File
<1>2. kept \in Seq(Line) /\ Len(kept) = k /\ \A i \in 1 .. k : kept[i] = lines[i]
    BY <1>1, KeptLines
<1> HIDE DEF kept
<1>3. GoodLines(kept, n)
    BY <1>1, <1>2 DEF File, GoodLines
<1>4. LinkedLines(kept)
    BY <1>1, <1>2 DEF File, LinkedLines
<1> QED  BY <1>2, <1>3, <1>4 DEF File, kept

(* What is written to a file links to it, if its hash is the next.         *)
LEMMA WrittenFile ==
    ASSUME NEW n \in Nat, NEW m \in Nat, n <= m, NEW lines, File(lines, n),
           NEW part \in Entry \cup {Torn}, NEW newline \in BOOLEAN, NEW hash,
           ChainEnd(lines, hash),
           part # Torn => part.prev = hash /\ part.hash \in 1 .. m
    PROVE  /\ File(Written(lines, part, newline), m)
           /\ ChainEnd(Written(lines, part, newline), part.hash)
<1> DEFINE w == Written(lines, part, newline)
<1>1. lines \in Seq(Line) /\ LinkedLines(lines) /\ GoodLines(lines, n) /\ Len(lines) \in Nat
    BY LenProperties DEF File
<1>2. \A i \in 1 .. Len(lines) : lines[i].parts # <<>>
    BY <1>1 DEF GoodLines
<1>3. w \in Seq(Line) /\ Continues(w, lines, part, newline)
    BY <1>1, WrittenLine
<1>4. /\ \A i \in 1 .. Len(w) : w[i].parts # <<>>
      /\ LinkedLines(w) /\ ChainEnd(w, part.hash)
    BY <1>1, <1>2, WrittenLinks
<1>5. Len(w) \in Nat
    BY <1>3, LenProperties
<1> HIDE DEF w
<1>6. ASSUME NEW i \in 1 .. Len(w), Parses(w[i])
      PROVE  w[i].parts[1].hash \in 1 .. m
    <2>1. CASE i # Len(w)
        <3>1. i \in 1 .. Len(lines) /\ w[i] = lines[i]
            BY <1>3, <1>5, <2>1 DEF Continues
        <3> QED  BY <1>1, <1>6, <3>1 DEF GoodLines
    <2>2. CASE i = Len(w)
        <3>1. Len(w) > Len(lines)
            BY <1>1, <1>2, <1>3, <1>5, <1>6, <2>2 DEF Continues
        <3>2. w[i].parts = <<part>>
            BY <1>3, <2>2, <3>1 DEF Continues
        <3> QED  BY <1>6, <3>2 DEF Parses
    <2> QED  BY <2>1, <2>2
<1> QED  BY <1>3, <1>4, <1>6 DEF File, GoodLines, w

(* An unfinished end links to anything: the next write spoils it.          *)
LEMMA OpenEnd ==
    ASSUME NEW lines \in Seq(Line), NEW part \in Entry \cup {Torn}, NEW hash
    PROVE  ChainEnd(Written(lines, part, FALSE), hash)
BY WrittenOpen DEF ChainEnd

(* The fragments that append can write now.                                *)
LEMMA FragmentFile ==
    ASSUME AuditTypeOK, ChainInv, NEW part \in {Torn, Record}, NEW newline \in BOOLEAN
    PROVE  /\ File(Written(Current, part, newline), appends + 1)
           /\ ChainEnd(Written(Current, part, newline), part.hash)
<1>1. part \in Entry \cup {Torn} /\ appends \in Nat /\ appends + 1 \in Nat
    BY RecordType DEF AuditTypeOK
<1>2. part # Torn => part.prev = last_hash /\ part.hash \in 1 .. (appends + 1)
    BY <1>1, RecordType
<1>3. File(Current, appends)
    BY DEF ChainInv, Current
<1>4. ChainEnd(Current, last_hash) /\ appends <= appends + 1
    BY <1>1 DEF ChainInv
<1> QED  BY <1>1, <1>2, <1>3, <1>4, WrittenFile

LEMMA SetCurrentFrame ==
    ASSUME AuditTypeOK, NEW lines, SetCurrent(lines), UNCHANGED on_rotated
    PROVE  /\ Current' = lines
           /\ path_file' \in {path_file, lines} /\ rotated_file' \in {rotated_file, lines}
BY DEF SetCurrent, Current, AuditTypeOK

(* What a power loss leaves of a file is a file.                           *)
LEMMA SparedFile ==
    ASSUME NEW n \in Nat, NEW lines, File(lines, n), NEW safe \in Nat, NEW left \in Spared(lines, safe)
    PROVE  File(left, n)
<1>1. Len(lines) \in Nat
    BY LenProperties DEF File
<1>2. ASSUME NEW k \in 0 .. Len(lines)
      PROVE  File(SubSeq(lines, 1, k), n) /\ File(Written(SubSeq(lines, 1, k), Torn, FALSE), n)
    <2> DEFINE kept == SubSeq(lines, 1, k)
    <2>1. File(kept, n)
        BY KeptFile
    <2> HIDE DEF kept
    <2>2. File(Written(kept, Torn, FALSE), n)
        <3>1. ChainEnd(kept, kept[Len(kept)].parts[1].hash)
            BY DEF ChainEnd
        <3>2. Torn \in Entry \cup {Torn} /\ FALSE \in BOOLEAN /\ n <= n
            OBVIOUS
        <3> QED  BY <2>1, <3>1, <3>2, WrittenFile
    <2> QED  BY <2>1, <2>2 DEF kept
<1>3. PICK k \in 0 .. Len(lines) :
         left = SubSeq(lines, 1, k) \/ left = Written(SubSeq(lines, 1, k), Torn, FALSE)
    <2>1. \A k \in safe .. Len(lines) : k \in 0 .. Len(lines)
        BY <1>1
    <2>2. \A k \in safe .. (Len(lines) - 1) : k \in 0 .. Len(lines)
        BY <1>1
    <2> QED  BY <2>1, <2>2 DEF Spared
<1> QED  BY <1>2, <1>3

(* A process that opens its log goes on from the last record it finds.     *)
LEMMA RestartChain ==
    ASSUME AuditTypeOK, ChainInv, NEW lines, NEW rotated, StartAgain(lines, rotated),
           File(lines, appends'), File(rotated, appends'),
           appends' \in Nat, appends <= appends'
    PROVE  ChainInv' /\ path_file' \in Seq(Line) /\ rotated_file' \in Seq(Line) /\ last_hash' \in Nat
<1>1. File(path_file', appends') /\ File(rotated_file', appends')
    <2>1. File(<<>>, appends')
        BY EmptyFile
    <2>2. path_file' \in {<<>>, lines} /\ rotated_file' \in {rotated, lines}
        BY DEF StartAgain
    <2> QED  BY <2>1, <2>2
<1>2. path_file' \in Seq(Line) /\ rotated_file' \in Seq(Line)
    BY <1>1 DEF File
<1>3. Current' = path_file' /\ last_hash' = RecoverLastHash(path_file')
    BY DEF StartAgain, Current
<1>4. ChainEnd(path_file', last_hash')
    BY <1>2, <1>3, RecoveredEnd DEF ChainEnd
<1> QED  BY <1>1, <1>2, <1>3, <1>4, RecoveredType DEF ChainInv

LEMMA RestartCounts ==
    ASSUME AuditTypeOK, NEW lines, NEW rotated, StartAgain(lines, rotated)
    PROVE  /\ starts' \in Nat /\ on_rotated' = FALSE /\ on_rotated' \in BOOLEAN
           /\ events_since_flush' = 0 /\ events_since_tsa' = 0
           /\ stretch' = stretch + 1 /\ stretch' \in Nat /\ UNCHANGED <<logged, faults>>
<1>1. on_rotated' = FALSE
    BY DEF StartAgain
<1>2. on_rotated' \in BOOLEAN
    BY <1>1
<1>3. /\ starts' \in Nat /\ events_since_flush' = 0 /\ events_since_tsa' = 0
      /\ stretch' = stretch + 1 /\ stretch' \in Nat /\ UNCHANGED <<logged, faults>>
    BY DEF StartAgain, AuditTypeOK
<1> QED  BY <1>1, <1>2, <1>3, Zenon

LEMMA SyncTypes ==
    ASSUME AuditTypeOK, [AuditNext]_audit_vars, Lines \in Seq(Line),
           path_file' \in Seq(Line), rotated_file' \in Seq(Line)
    PROVE  SyncTypeOK'
<1> USE AuditAssumption
<1>1. Len(Lines) \in Nat /\ Len(path_file') \in Nat /\ Len(rotated_file') \in Nat
    BY LenProperties
<1>2. SyncTypeOK /\ Limit \in Nat /\ Limit + (IF FlushDue THEN FlushInterval ELSE 0) \in Nat
    <2>1. SyncTypeOK
        BY DEF AuditTypeOK
    <2>2. (FlushInterval - 1) * (1 + unsynced_starts) \in Nat /\ FlushInterval * failed_syncs \in Nat
        BY <2>1 DEF SyncTypeOK
    <2> QED  BY <2>1, <2>2 DEF Limit
<1>3. CASE AppendRefused \/ AppendWriteFails \/ UNCHANGED audit_vars
    BY <1>2, <1>3 DEF AppendRefused, AppendWriteFails, audit_vars, sync_vars, SyncTypeOK
<1>4. CASE AppendRecord
    BY <1>1, <1>2, <1>4 DEF AppendRecord, SyncFails, NothingUnsynced, SyncTypeOK
<1>5. CASE AppendAndRotate
    <2>1. rotated_synced' \in Nat /\ rotated_limit' \in Nat /\ synced' \in Nat
        BY <1>1, <1>2, <1>5 DEF AppendAndRotate, Rotate, RenameFails, OpenFails, SyncTypeOK
    <2>2. unsynced_starts' \in Nat /\ failed_syncs' \in Nat
        BY <1>2, <1>5 DEF AppendAndRotate, Rotate, SyncFails, NothingUnsynced, SyncTypeOK
    <2> QED  BY <2>1, <2>2 DEF SyncTypeOK
<1>6. CASE Crash
    <2>1. synced' \in {0, synced} /\ rotated_synced' \in {rotated_synced, synced}
          /\ rotated_limit' \in {rotated_limit, Limit}
        BY <1>6 DEF Crash
    <2>2. unsynced_starts' \in {0, unsynced_starts + 1} /\ failed_syncs' \in {0, failed_syncs}
        BY <1>6 DEF Crash, NothingUnsynced
    <2> QED  BY <1>2, <2>1, <2>2 DEF SyncTypeOK
<1>7. CASE PowerLoss
    BY <1>1, <1>7 DEF PowerLoss, NothingUnsynced, SyncTypeOK
<1> QED  BY <1>3, <1>4, <1>5, <1>6, <1>7 DEF AuditNext

LEMMA ChainStep ==
    ASSUME AuditTypeOK, ChainInv, [AuditNext]_audit_vars
    PROVE  AuditTypeOK' /\ ChainInv'
<1> USE AuditAssumption
<1>0. /\ appends \in Nat /\ appends + 1 \in Nat /\ appends <= appends + 1
      /\ File(path_file, appends + 1) /\ File(rotated_file, appends + 1)
      /\ File(<<>>, appends + 1) /\ File(Current, appends) /\ File(Current, appends + 1)
    <2>1. appends \in Nat /\ appends + 1 \in Nat /\ appends <= appends + 1
        BY DEF AuditTypeOK
    <2>2. File(path_file, appends + 1) /\ File(rotated_file, appends + 1) /\ File(<<>>, appends + 1)
        BY <2>1, LaterFile, EmptyFile DEF ChainInv
    <2> QED  BY <2>1, <2>2 DEF ChainInv, Current
<1>7. ASSUME path_file' \in Seq(Line), rotated_file' \in Seq(Line)
      PROVE  SyncTypeOK'
    <2>1. TRUE \in BOOLEAN
        OBVIOUS
    <2>2. Lines \in Seq(Line)
        BY <2>1, FragmentFile DEF Lines, File
    <2> QED  BY <1>7, <2>2, SyncTypes
<1>1. CASE AppendRefused
    <2>1. /\ appends' = appends + 1 /\ UNCHANGED <<path_file, rotated_file, on_rotated, last_hash>>
        BY <1>1 DEF AppendRefused, Begin
    <2>2. ChainInv'
        BY <1>0, <2>1 DEF ChainInv, Current
    <2>3. AuditTypeOK'
        <3>1. path_file' \in Seq(Line) /\ rotated_file' \in Seq(Line)
            BY <2>2 DEF ChainInv, File
        <3> QED  BY <1>1, <1>7, <3>1 DEF AppendRefused, Begin, Fault, CountAfterRefusal, AuditTypeOK
    <2> QED  BY <2>2, <2>3
<1>2. CASE AppendWriteFails
    <2>1. PICK lines : /\ SetCurrent(lines)
                       /\ lines = Current \/ \E part \in {Torn, Record} : lines = Written(Current, part, FALSE)
        BY <1>2 DEF AppendWriteFails
    <2>2. appends' = appends + 1 /\ UNCHANGED <<on_rotated, last_hash>>
        BY <1>2 DEF AppendWriteFails, Begin, HashAfterFailure
    <2>3. File(lines, appends + 1) /\ ChainEnd(lines, last_hash)
        <3>1. CASE lines = Current
            BY <1>0, <3>1 DEF ChainInv
        <3>2. ASSUME NEW part \in {Torn, Record}, lines = Written(Current, part, FALSE)
              PROVE  File(lines, appends + 1) /\ ChainEnd(lines, last_hash)
            <4>1. part \in Entry \cup {Torn} /\ Current \in Seq(Line)
                BY <1>0, RecordType DEF File
            <4>2. File(lines, appends + 1)
                BY <3>2, FragmentFile
            <4> QED  BY <3>2, <4>1, <4>2, OpenEnd
        <3> QED  BY <2>1, <3>1, <3>2
    <2>4. ChainInv'
        BY <1>0, <2>1, <2>2, <2>3, SetCurrentFrame DEF ChainInv
    <2>5. path_file' \in Seq(Line) /\ rotated_file' \in Seq(Line)
        BY <2>4 DEF ChainInv, File
    <2>6. AuditTypeOK'
        BY <1>2, <1>7, <2>5 DEF AppendWriteFails, Begin, Fault, CountTsa, HashAfterFailure, AuditTypeOK
    <2> QED  BY <2>4, <2>6
<1>3. CASE AppendRecord \/ AppendAndRotate
    <2>1. LogRecord /\ appends' = appends + 1 /\ last_hash' = Record.hash /\ last_hash' \in Nat
        BY <1>0, <1>3, RecordType DEF AppendRecord, AppendAndRotate, LogRecord, Begin
    <2>2. File(Lines, appends + 1) /\ ChainEnd(Lines, last_hash')
        BY <2>1, FragmentFile DEF Lines
    <2>3. ChainEnd(<<>>, last_hash')
        BY EmptySeq DEF ChainEnd
    <2>4. /\ path_file' \in {path_file, Lines, <<>>} /\ rotated_file' \in {rotated_file, Lines}
          /\ Current' \in {Lines, <<>>} /\ on_rotated' \in BOOLEAN
        <3>1. CASE AppendRecord
            BY <3>1, SetCurrentFrame DEF AppendRecord, AuditTypeOK
        <3>2. CASE AppendAndRotate
            <4>1. \/ rotated_file' = Lines /\ path_file' = <<>> /\ on_rotated' = FALSE
                  \/ path_file' = Lines /\ rotated_file' = rotated_file /\ ~on_rotated
                                          /\ on_rotated' = on_rotated
                  \/ rotated_file' = Lines /\ path_file' = <<>> /\ on_rotated' = TRUE
                BY <3>2 DEF AppendAndRotate, Rotate, RenameFails, OpenFails
            <4>2. on_rotated \in BOOLEAN
                BY DEF AuditTypeOK
            <4>3. CASE rotated_file' = Lines /\ path_file' = <<>> /\ on_rotated' = FALSE
                BY <4>3 DEF Current
            <4>4. CASE /\ path_file' = Lines /\ rotated_file' = rotated_file /\ ~on_rotated
                       /\ on_rotated' = on_rotated
                BY <4>2, <4>4 DEF Current
            <4>5. CASE rotated_file' = Lines /\ path_file' = <<>> /\ on_rotated' = TRUE
                BY <4>5 DEF Current
            <4> QED  BY <4>1, <4>3, <4>4, <4>5
        <3> QED  BY <1>3, <3>1, <3>2
    <2>5. ChainInv'
        BY <1>0, <2>1, <2>2, <2>3, <2>4 DEF ChainInv
    <2>6. path_file' \in Seq(Line) /\ rotated_file' \in Seq(Line)
        BY <2>5 DEF ChainInv, File
    <2>7. faults' \in Nat /\ SyncTypeOK'
        <3>1. SyncTypeOK'
            BY <1>7, <2>6
        <3> QED  BY <1>3, <3>1 DEF AppendRecord, AppendAndRotate, SyncFails, Fault, AuditTypeOK
    <2>8. logged' \in Seq([record : Entry, stretch : Nat])
        <3>1. [record |-> Record, stretch |-> stretch] \in [record : Entry, stretch : Nat]
            BY RecordType DEF AuditTypeOK
        <3> QED  BY <2>1, <3>1, AppendProperties DEF LogRecord, AuditTypeOK
    <2>9. events_since_flush' \in Nat /\ events_since_tsa' \in Nat /\ stretch' \in Nat /\ starts' \in Nat
        BY <2>1 DEF LogRecord, CountTsa, AuditTypeOK
    <2> QED  BY <1>0, <2>1, <2>4, <2>5, <2>6, <2>7, <2>8, <2>9 DEF AuditTypeOK
<1>4. CASE Crash
    <2>1. PICK lines : /\ StartAgain(lines, rotated_file)
                       /\ \/ lines = Current /\ appends' = appends
                          \/ /\ \E part \in {Torn, Record} : lines = Written(Current, part, FALSE)
                             /\ appends' = appends + 1
        BY <1>4 DEF Crash, Begin
    <2>2. File(lines, appends') /\ appends' \in Nat /\ appends <= appends'
        <3>1. ASSUME NEW part \in {Torn, Record}
              PROVE  File(Written(Current, part, FALSE), appends + 1)
            BY FragmentFile
        <3>2. CASE lines = Current /\ appends' = appends
            BY <1>0, <3>2
        <3>3. CASE /\ \E part \in {Torn, Record} : lines = Written(Current, part, FALSE)
                   /\ appends' = appends + 1
            BY <1>0, <3>1, <3>3
        <3> QED  BY <2>1, <3>2, <3>3
    <2>3. ChainInv' /\ path_file' \in Seq(Line) /\ rotated_file' \in Seq(Line) /\ last_hash' \in Nat
        <3>1. File(rotated_file, appends')
            BY <1>0, <2>2, LaterFile DEF ChainInv
        <3> QED  BY <2>1, <2>2, <3>1, RestartChain
    <2>4. starts' \in Nat /\ on_rotated' = FALSE /\ on_rotated' \in BOOLEAN /\ events_since_flush' = 0 /\ events_since_tsa' = 0
          /\ stretch' = stretch + 1 /\ stretch' \in Nat /\ UNCHANGED <<logged, faults>>
        BY <2>1, RestartCounts
    <2>5. SyncTypeOK'
        BY <1>7, <2>3
    <2>6. AuditTypeOK'
        <3>1. logged' \in Seq([record : Entry, stretch : Nat]) /\ faults' \in Nat
            BY <2>4 DEF AuditTypeOK
        <3>2. events_since_flush' \in Nat /\ events_since_tsa' \in Nat
            BY <2>4
        <3> QED  BY <2>2, <2>3, <2>4, <2>5, <3>1, <3>2 DEF AuditTypeOK
    <2> QED  BY <2>3, <2>6
<1>5. CASE PowerLoss
    <2>1. PICK current \in Spared(Current, synced), rotated \in Spared(rotated_file, rotated_synced) :
             StartAgain(current, rotated)
        BY <1>5 DEF PowerLoss
    <2>2. appends' = appends
        BY <1>5 DEF PowerLoss
    <2>3. File(current, appends') /\ File(rotated, appends')
        <3>1. synced \in Nat /\ rotated_synced \in Nat /\ File(rotated_file, appends)
            BY DEF AuditTypeOK, SyncTypeOK, ChainInv
        <3> QED  BY <1>0, <2>2, <3>1, SparedFile
    <2>4. appends' \in Nat /\ appends <= appends'
        BY <1>0, <2>2
    <2>5. ChainInv' /\ path_file' \in Seq(Line) /\ rotated_file' \in Seq(Line) /\ last_hash' \in Nat
        BY <2>1, <2>3, <2>4, RestartChain
    <2>6. starts' \in Nat /\ on_rotated' = FALSE /\ on_rotated' \in BOOLEAN /\ events_since_flush' = 0 /\ events_since_tsa' = 0
          /\ stretch' = stretch + 1 /\ stretch' \in Nat /\ UNCHANGED <<logged, faults>>
        BY <2>1, RestartCounts
    <2>7. SyncTypeOK'
        BY <1>7, <2>5
    <2>8. AuditTypeOK'
        <3>1. logged' \in Seq([record : Entry, stretch : Nat]) /\ faults' \in Nat
            BY <2>6 DEF AuditTypeOK
        <3>2. events_since_flush' \in Nat /\ events_since_tsa' \in Nat /\ appends' \in Nat
            BY <2>4, <2>6
        <3> QED  BY <2>5, <2>6, <2>7, <3>1, <3>2 DEF AuditTypeOK
    <2> QED  BY <2>5, <2>8
<1>6. CASE UNCHANGED audit_vars
    <2>1. UNCHANGED <<path_file, rotated_file, on_rotated, last_hash, appends>>
        BY <1>6 DEF audit_vars
    <2>2. ChainInv'
        BY <2>1 DEF ChainInv, Current
    <2>3. AuditTypeOK'
        BY <1>6, <2>1 DEF audit_vars, sync_vars, AuditTypeOK, SyncTypeOK
    <2> QED  BY <2>2, <2>3
<1> QED  BY <1>1, <1>2, <1>3, <1>4, <1>5, <1>6 DEF AuditNext

LEMMA ChainInit == AuditInit => AuditTypeOK /\ ChainInv
<1> SUFFICES ASSUME AuditInit
             PROVE  AuditTypeOK /\ ChainInv
    OBVIOUS
<1>1. AuditTypeOK
    <2>1. on_rotated \in BOOLEAN
        BY DEF AuditInit
    <2>2. path_file \in Seq(Line) /\ rotated_file \in Seq(Line)
          /\ logged \in Seq([record : Entry, stretch : Nat])
        BY EmptySeq DEF AuditInit
    <2> QED  BY <2>1, <2>2, AuditAssumption DEF AuditInit, AuditTypeOK, SyncTypeOK
<1>2. ChainInv
    BY EmptyFile, EmptySeq DEF AuditInit, ChainInv, ChainEnd, Current
<1> QED  BY <1>1, <1>2

(* The variables keep their types, and both files are chains of records    *)
(* whose open end is where the next record links.                          *)
THEOREM AuditInvariant == AuditSpec => [](AuditTypeOK /\ ChainInv)
<1>1. AuditTypeOK /\ ChainInv /\ [AuditNext]_audit_vars => AuditTypeOK' /\ ChainInv'
    BY ChainStep
<1> QED  BY ChainInit, <1>1, PTL DEF AuditSpec

(* Neighbouring lines that parse are links of the chain, whatever failed   *)
(* writes, crashes, power losses and rotations the log has been through.   *)
THEOREM AuditLinked == AuditSpec => []Linked
<1>1. ChainInv => Linked
    BY DEF ChainInv, File, LinkedLines, Linked
<1> QED  BY <1>1, AuditInvariant, PTL

-----------------------------------------------------------------------------
(* Proofs of the time-stamping authority.                                  *)

(* The counter covers the records since the last proof, in the stretch     *)
(* that no restart or failed write has ended.                              *)
BatchInv ==
    /\ ProofInEveryBatch
    /\ \A j \in 1 .. Len(logged) : logged[j].stretch <= stretch
    /\ \A k \in 1 .. Len(logged) :
        (\A j \in k .. Len(logged) : logged[j].stretch = stretch /\ ~logged[j].record.proof)
            => Len(logged) - k + 1 <= events_since_tsa

LEMMA BatchStep ==
    ASSUME AuditTypeOK, BatchInv, [AuditNext]_audit_vars
    PROVE  BatchInv'
<1> USE AuditAssumption
<1>0. /\ Len(logged) \in Nat /\ stretch \in Nat /\ events_since_tsa \in Nat
      /\ \A j \in 1 .. Len(logged) : logged[j].stretch \in Nat
    <2>1. logged \in Seq([record : Entry, stretch : Nat]) /\ stretch \in Nat /\ events_since_tsa \in Nat
        BY DEF AuditTypeOK
    <2>2. Len(logged) \in Nat
        BY <2>1, LenProperties
    <2>3. \A j \in 1 .. Len(logged) : logged[j] \in [record : Entry, stretch : Nat]
        BY <2>1, ElementOfSeq
    <2> QED  BY <2>1, <2>2, <2>3
<1>1. CASE AppendRefused
    <2>1. UNCHANGED <<logged, stretch>> /\ events_since_tsa' = events_since_tsa + 1
        BY <1>1 DEF AppendRefused, CountAfterRefusal
    <2>2. ProofInEveryBatch'
        BY <2>1 DEF BatchInv, ProofInEveryBatch
    <2>3. \A k \in 1 .. Len(logged) :
              Len(logged) - k + 1 <= events_since_tsa => Len(logged) - k + 1 <= events_since_tsa'
        BY <1>0, <2>1
    <2> QED  BY <2>1, <2>2, <2>3 DEF BatchInv
<1>2. CASE AppendWriteFails \/ Crash \/ PowerLoss
    <2>1. UNCHANGED logged /\ stretch' = stretch + 1
        BY <1>2 DEF AppendWriteFails, Crash, PowerLoss, StartAgain
    <2>2. \A j \in 1 .. Len(logged) : logged[j].stretch <= stretch' /\ logged[j].stretch # stretch'
        BY <1>0, <2>1 DEF BatchInv
    <2>3. ProofInEveryBatch'
        BY <2>1 DEF BatchInv, ProofInEveryBatch
    <2>4. \A k \in 1 .. Len(logged) : k \in k .. Len(logged)
        BY <1>0
    <2> QED  BY <2>1, <2>2, <2>3, <2>4 DEF BatchInv
<1>3. CASE AppendRecord \/ AppendAndRotate
    <2> DEFINE L == Len(logged)
               new == [record |-> Record, stretch |-> stretch]
    <2>1. /\ UNCHANGED stretch /\ logged' = Append(logged, new)
          /\ events_since_tsa' = IF TsaDue THEN 0 ELSE events_since_tsa + 1
        BY <1>3 DEF AppendRecord, AppendAndRotate, LogRecord, CountTsa
    <2>2. new \in [record : Entry, stretch : Nat] /\ new.stretch = stretch
        BY RecordType DEF AuditTypeOK
    <2>3. new.record.proof <=> events_since_tsa + 1 >= TsaBatch
        BY DEF Record, TsaDue
    <2> HIDE DEF new
    <2>4. /\ Len(logged') = L + 1 /\ logged'[L + 1] = new
          /\ \A j \in 1 .. L : logged'[j] = logged[j]
        BY <2>1, <2>2, AppendProperties DEF AuditTypeOK
    <2>5. \A j \in 1 .. (L + 1) : j \in 1 .. L \/ j = L + 1
        BY <1>0
    <2>6. \A j \in 1 .. Len(logged') : logged'[j].stretch <= stretch'
        BY <1>0, <2>1, <2>2, <2>4, <2>5 DEF BatchInv
    <2>7. ASSUME NEW k \in 1 .. (L + 1),
                 \A j \in k .. (L + 1) : logged'[j].stretch = stretch /\ ~logged'[j].record.proof
          PROVE  L + 1 - k + 1 <= events_since_tsa + 1 /\ events_since_tsa + 1 < TsaBatch
        <3>1. L + 1 \in k .. (L + 1)
            BY <1>0
        <3>2. ~new.record.proof
            BY <2>4, <2>7, <3>1
        <3>3. CASE k \in 1 .. L
            <4>1. \A j \in k .. L : j \in k .. (L + 1) /\ j \in 1 .. L
                BY <1>0, <3>3
            <4>2. \A j \in k .. L : logged[j].stretch = stretch /\ ~logged[j].record.proof
                BY <2>4, <2>7, <4>1
            <4>3. L - k + 1 <= events_since_tsa
                BY <3>3, <4>2 DEF BatchInv
            <4> QED  BY <1>0, <2>3, <3>2, <3>3, <4>3
        <3>4. CASE k = L + 1
            BY <1>0, <2>3, <3>2, <3>4
        <3> QED  BY <2>5, <3>3, <3>4
    <2>8. ASSUME NEW k \in 1 .. Len(logged'),
                 \A j \in k .. Len(logged') : logged'[j].stretch = stretch' /\ ~logged'[j].record.proof
          PROVE  Len(logged') - k + 1 <= events_since_tsa'
        <3>1. L + 1 - k + 1 <= events_since_tsa + 1 /\ events_since_tsa + 1 < TsaBatch
            BY <2>1, <2>4, <2>7, <2>8
        <3>2. ~TsaDue
            BY <1>0, <3>1 DEF TsaDue
        <3> QED  BY <2>1, <2>4, <3>1, <3>2
    <2>9. ProofInEveryBatch'
        <3> SUFFICES ASSUME NEW i \in 1 .. (Len(logged') - TsaBatch + 1),
                            \A j \in i .. (i + TsaBatch - 1) : logged'[j].stretch = logged'[i].stretch,
                            \A j \in i .. (i + TsaBatch - 1) : ~logged'[j].record.proof
                     PROVE  FALSE
            BY DEF ProofInEveryBatch
        <3>1. i \in 1 .. (L + 1) /\ i + TsaBatch - 1 \in 1 .. (L + 1)
            BY <1>0, <2>4
        <3>2. CASE i + TsaBatch - 1 = L + 1
            <4>1. L + 1 \in i .. (i + TsaBatch - 1)
                BY <1>0, <3>1, <3>2
            <4>2. \A j \in i .. (L + 1) : logged'[j].stretch = stretch /\ ~logged'[j].record.proof
                BY <2>2, <2>4, <3>2, <4>1
            <4>3. L + 1 - i + 1 < TsaBatch
                BY <1>0, <2>7, <3>1, <4>2
            <4> QED  BY <1>0, <3>1, <3>2, <4>3
        <3>3. CASE i + TsaBatch - 1 # L + 1
            <4>1. i \in 1 .. (L - TsaBatch + 1)
                BY <1>0, <3>1, <3>3
            <4>2. \A j \in i .. (i + TsaBatch - 1) : logged'[j] = logged[j]
                BY <1>0, <2>4, <4>1
            <4>3. i \in i .. (i + TsaBatch - 1)
                BY <3>1
            <4> QED  BY <4>1, <4>2, <4>3 DEF BatchInv, ProofInEveryBatch
        <3> QED  BY <3>2, <3>3
    <2> QED  BY <2>6, <2>8, <2>9 DEF BatchInv
<1>4. CASE UNCHANGED audit_vars
    BY <1>4 DEF audit_vars, BatchInv, ProofInEveryBatch
<1> QED  BY <1>1, <1>2, <1>3, <1>4 DEF AuditNext

(* Of any TsaBatch records logged in a row with no restart and no failed   *)
(* write between them one carries a proof, however often the authority     *)
(* refused.                                                                *)
THEOREM AuditProofs == AuditSpec => []ProofInEveryBatch
<1>1. AuditInit => BatchInv
    BY AuditAssumption, EmptySeq DEF AuditInit, BatchInv, ProofInEveryBatch
<1>2. AuditTypeOK /\ BatchInv /\ [AuditNext]_audit_vars => BatchInv'
    BY BatchStep
<1>3. BatchInv => ProofInEveryBatch
    BY DEF BatchInv
<1> QED  BY <1>1, <1>2, <1>3, AuditInvariant, PTL DEF AuditSpec

-----------------------------------------------------------------------------
(* Records that a power loss can cost.                                     *)

(* The loss is bounded by the appends counted since the last flush, and by *)
(* as many as fit before a flush for every process that ended without one  *)
(* and for every flush that failed.                                        *)
FlushInv ==
    /\ events_since_flush \in 0 .. (FlushInterval - 1)
    /\ \A j \in 1 .. Len(logged) : logged[j].record.hash \in 1 .. appends
    /\ Cardinality(Unsynced(Current, synced, LoggedHashes))
            <= (FlushInterval - 1) * unsynced_starts + FlushInterval * failed_syncs + events_since_flush

(* What the handle left in the rotated file stays as it was.               *)
RotatedInv ==
    ~on_rotated =>
        Cardinality(Unsynced(rotated_file, rotated_synced, LoggedHashes)) <= rotated_limit

LEMMA UnsyncedFinite ==
    ASSUME NEW lines \in Seq(Line), NEW from, NEW hashes
    PROVE  IsFiniteSet(Unsynced(lines, from, hashes))
<1>1. Len(lines) \in Nat /\ DOMAIN lines = 1 .. Len(lines)
    BY LenProperties
<1>2. Unsynced(lines, from, hashes) \in SUBSET (1 .. Len(lines))
    BY <1>1 DEF Unsynced
<1>3. IsFiniteSet(1 .. Len(lines))
    BY <1>1, FS_Interval
<1> QED  BY <1>2, <1>3, FS_Subset

LEMMA UnsyncedWritten ==
    ASSUME NEW lines \in Seq(Line), NEW part \in Entry \cup {Torn}, NEW newline \in BOOLEAN,
           \A i \in 1 .. Len(lines) : lines[i].parts # <<>>, NEW from, NEW hashes
    PROVE  LET w == Written(lines, part, newline)
           IN  /\ Unsynced(w, from, hashes) \subseteq Unsynced(lines, from, hashes) \cup {Len(w)}
               /\ part = Torn \/ part.hash \notin hashes =>
                    Unsynced(w, from, hashes) \subseteq Unsynced(lines, from, hashes)
<1> DEFINE w == Written(lines, part, newline)
<1>1. w \in Seq(Line) /\ Continues(w, lines, part, newline)
    BY WrittenLine
<1>2. /\ Len(w) \in Nat /\ DOMAIN w = 1 .. Len(w)
      /\ Len(lines) \in Nat /\ DOMAIN lines = 1 .. Len(lines)
    BY <1>1, LenProperties
<1> HIDE DEF w
<1>3. ASSUME NEW i \in Unsynced(w, from, hashes), i # Len(w)
      PROVE  i \in Unsynced(lines, from, hashes)
    <2>1. i \in 1 .. (Len(w) - 1)
        BY <1>2, <1>3 DEF Unsynced
    <2>2. i \in DOMAIN lines /\ w[i] = lines[i]
        BY <1>1, <1>2, <2>1 DEF Continues
    <2> QED  BY <2>2 DEF Unsynced
<1>4. ASSUME Len(w) \in Unsynced(w, from, hashes)
      PROVE  part # Torn /\ part.hash \in hashes
    <2>1. Parses(w[Len(w)]) /\ w[Len(w)].parts[1].hash \in hashes
        BY <1>4 DEF Unsynced
    <2>2. Len(w) > Len(lines)
        <3>1. Len(w) > 0 /\ Len(w) >= Len(lines)
            BY <1>1 DEF Continues
        <3>2. ASSUME Len(w) = Len(lines)
              PROVE  FALSE
            <4>1. Len(w) \in 1 .. Len(lines)
                BY <1>2, <3>1, <3>2
            <4>2. lines[Len(w)].parts # <<>>
                BY <4>1
            <4> QED  BY <1>1, <2>1, <3>2, <4>2 DEF Continues
        <3>3. Len(w) \in Nat /\ Len(lines) \in Nat
            BY <1>2
        <3> QED  BY <3>1, <3>2, <3>3
    <2>3. w[Len(w)].parts = <<part>>
        BY <1>1, <2>2 DEF Continues
    <2> QED  BY <2>1, <2>3 DEF Parses
<1> QED  BY <1>3, <1>4 DEF w

(* A record just appended, after the lines that were there.                *)
LEMMA AppendedUnsynced ==
    ASSUME AuditTypeOK, ChainInv, LogRecord
    PROVE  /\ Lines \in Seq(Line) /\ Len(Lines) \in Nat
           /\ LoggedHashes' \subseteq LoggedHashes \cup {appends + 1}
           /\ Unsynced(Lines, synced, LoggedHashes')
                \subseteq Unsynced(Current, synced, LoggedHashes) \cup {Len(Lines)}
<1> DEFINE new == [record |-> Record, stretch |-> stretch]
           U == Unsynced(Current, synced, LoggedHashes)
<1>0. /\ File(Current, appends) /\ Current \in Seq(Line) /\ appends \in Nat
      /\ \A i \in 1 .. Len(Current) : Current[i].parts # <<>>
    <2>1. File(Current, appends)
        BY DEF ChainInv, Current
    <2> QED  BY <2>1 DEF File, GoodLines, AuditTypeOK
<1>1. logged' = Append(logged, new)
    BY DEF LogRecord
<1>2. new \in [record : Entry, stretch : Nat] /\ new.record = Record /\ Record.hash = appends + 1
    BY RecordType DEF AuditTypeOK
<1> HIDE DEF new
<1>3. /\ Len(logged) \in Nat /\ Len(logged') = Len(logged) + 1 /\ logged'[Len(logged) + 1] = new
      /\ \A j \in 1 .. Len(logged) : logged'[j] = logged[j]
    BY <1>1, <1>2, AppendProperties, LenProperties DEF AuditTypeOK
<1>4. LoggedHashes' \subseteq LoggedHashes \cup {appends + 1}
    <2>1. DOMAIN logged' = 1 .. (Len(logged) + 1) /\ DOMAIN logged = 1 .. Len(logged)
        <3>1. logged' \in Seq([record : Entry, stretch : Nat])
            BY <1>1, <1>2, AppendProperties DEF AuditTypeOK
        <3> QED  BY <1>3, <3>1, LenProperties DEF AuditTypeOK
    <2>2. \A j \in DOMAIN logged' : j \in DOMAIN logged \/ j = Len(logged) + 1
        BY <1>3, <2>1
    <2> QED  BY <1>2, <1>3, <2>1, <2>2 DEF LoggedHashes, ToSet
<1>5. Lines \in Seq(Line) /\ Len(Lines) \in Nat
    BY <1>0, RecordType, WrittenLine, LenProperties DEF Lines
<1>6. Unsynced(Current, synced, LoggedHashes') \subseteq U
    <2>1. \A i \in DOMAIN Current : Parses(Current[i]) => Current[i].parts[1].hash # appends + 1
        BY <1>0, LenProperties DEF File, GoodLines
    <2> QED  BY <1>4, <2>1 DEF Unsynced
<1>7. Unsynced(Lines, synced, LoggedHashes')
            \subseteq Unsynced(Current, synced, LoggedHashes') \cup {Len(Lines)}
    BY <1>0, RecordType, UnsyncedWritten DEF Lines
<1> QED  BY <1>4, <1>5, <1>6, <1>7

(* Cardinalities of the two sets that the bound is about.                  *)
LEMMA UnsyncedCounts ==
    ASSUME AuditTypeOK, ChainInv
    PROVE  /\ IsFiniteSet(Unsynced(Current, synced, LoggedHashes))
           /\ Cardinality(Unsynced(Current, synced, LoggedHashes)) \in Nat
           /\ IsFiniteSet(Unsynced(rotated_file, rotated_synced, LoggedHashes))
           /\ Cardinality(Unsynced(rotated_file, rotated_synced, LoggedHashes)) \in Nat
<1>1. Current \in Seq(Line) /\ rotated_file \in Seq(Line)
    BY DEF AuditTypeOK, Current
<1> QED  BY <1>1, UnsyncedFinite, FS_CardinalityType

LEMMA AppendedCount ==
    ASSUME AuditTypeOK, ChainInv, LogRecord
    PROVE  /\ Cardinality(Unsynced(Lines, synced, LoggedHashes')) \in Nat
           /\ Cardinality(Unsynced(Lines, synced, LoggedHashes'))
                <= Cardinality(Unsynced(Current, synced, LoggedHashes)) + 1
<1> DEFINE U == Unsynced(Current, synced, LoggedHashes)
           V == Unsynced(Lines, synced, LoggedHashes')
<1>1. V \in SUBSET (U \cup {Len(Lines)})
    BY AppendedUnsynced
<1>2. IsFiniteSet(U) /\ Cardinality(U) \in Nat
    BY UnsyncedCounts
<1> HIDE DEF U, V
<1>3. /\ IsFiniteSet(U \cup {Len(Lines)})
      /\ Cardinality(U \cup {Len(Lines)}) =
            IF Len(Lines) \in U THEN Cardinality(U) ELSE Cardinality(U) + 1
    BY <1>2, FS_AddElement
<1>4. Cardinality(V) <= Cardinality(U \cup {Len(Lines)}) /\ Cardinality(V) \in Nat
    BY <1>1, <1>3, FS_Subset, FS_CardinalityType
<1>5. Cardinality(V) \in Nat /\ Cardinality(V) <= Cardinality(U) + 1
    BY <1>2, <1>3, <1>4
<1> QED  BY <1>5 DEF U, V

LEMMA NoneUnsynced ==
    ASSUME NEW lines \in Seq(Line), NEW hashes
    PROVE  Cardinality(Unsynced(lines, Len(lines), hashes)) = 0
<1>1. Unsynced(lines, Len(lines), hashes) = {}
    BY LenProperties DEF Unsynced
<1>2. Cardinality({}) = 0
    BY FS_EmptySet
<1> QED  BY <1>1, <1>2

(* What append may write, if it is not logged, cannot be lost.             *)
LEMMA FragmentUnsynced ==
    ASSUME AuditTypeOK, ChainInv, FlushInv, NEW part \in {Torn, Record}
    PROVE  Unsynced(Written(Current, part, FALSE), synced, LoggedHashes)
                \subseteq Unsynced(Current, synced, LoggedHashes)
<1>1. Current \in Seq(Line) /\ \A i \in 1 .. Len(Current) : Current[i].parts # <<>>
    BY DEF ChainInv, File, GoodLines, Current
<1>2. \A h \in LoggedHashes : h \in 1 .. appends
    BY LenProperties DEF LoggedHashes, ToSet, FlushInv, AuditTypeOK
<1>3. Record.hash \notin LoggedHashes
    BY <1>2, RecordType DEF AuditTypeOK
<1>4. part \in Entry \cup {Torn} /\ (part = Torn \/ part.hash \notin LoggedHashes) /\ FALSE \in BOOLEAN
    BY <1>3, RecordType
<1> QED  BY <1>1, <1>4, UnsyncedWritten

(* The flush interval is positive and the count below it.                  *)
LEMMA CountBelowInterval ==
    ASSUME FlushInv
    PROVE  /\ FlushInterval \in Nat /\ FlushInterval - 1 \in Nat
           /\ events_since_flush \in Nat /\ events_since_flush <= FlushInterval - 1
<1>1. FlushInterval \in Nat \ {0}
    BY AuditAssumption, Zenon
<1>2. events_since_flush \in 0 .. (FlushInterval - 1)
    BY Zenon DEF FlushInv
<1> QED  BY <1>1, <1>2

LEMMA FlushStep ==
    ASSUME AuditTypeOK, ChainInv, FlushInv, AuditTypeOK', [AuditNext]_audit_vars
    PROVE  FlushInv'
<1> DEFINE H == LoggedHashes
           U == Unsynced(Current, synced, H)
           V == Unsynced(Current', synced', LoggedHashes')
           Old == (FlushInterval - 1) * unsynced_starts + FlushInterval * failed_syncs
<1> USE AuditAssumption
<1>0. appends \in Nat /\ IsFiniteSet(U) /\ Cardinality(U) \in Nat /\ Current' \in Seq(Line)
    BY UnsyncedCounts DEF AuditTypeOK, Current
<1>2. /\ events_since_flush \in Nat /\ FlushInterval \in Nat
      /\ FlushInterval - 1 \in Nat /\ events_since_flush <= FlushInterval - 1
    BY CountBelowInterval
<1>3. /\ unsynced_starts \in Nat /\ failed_syncs \in Nat /\ Old \in Nat
      /\ Cardinality(U) <= Old + events_since_flush
    <2>1. unsynced_starts \in Nat /\ failed_syncs \in Nat
        BY DEF AuditTypeOK, SyncTypeOK
    <2>2. Old \in Nat
        BY <1>2, <2>1
    <2> QED  BY <2>1, <2>2 DEF FlushInv
<1>4. ASSUME synced' = Len(Current'), NothingUnsynced,
             events_since_flush' \in 0 .. (FlushInterval - 1),
             \A j \in 1 .. Len(logged') : logged'[j].record.hash \in 1 .. appends'
      PROVE  FlushInv'
    <2>1. Cardinality(V) = 0
        BY <1>0, <1>4, NoneUnsynced
    <2>2. unsynced_starts' = 0 /\ failed_syncs' = 0
        BY <1>4 DEF NothingUnsynced
    <2> HIDE DEF V
    <2>3. Cardinality(V)
            <= (FlushInterval - 1) * unsynced_starts' + FlushInterval * failed_syncs' + events_since_flush'
        <3>1. (FlushInterval - 1) * unsynced_starts' = 0 /\ FlushInterval * failed_syncs' = 0
            BY <1>2, <2>2
        <3>2. events_since_flush' >= 0
            BY <1>4
        <3> QED  BY <1>4, <2>1, <3>1, <3>2
    <2> QED  BY <1>4, <2>3 DEF FlushInv, V
<1>5. ASSUME V \subseteq U,
             UNCHANGED <<logged, unsynced_starts, failed_syncs, events_since_flush>>, appends <= appends'
      PROVE  FlushInv'
    <2>1. Cardinality(V) <= Cardinality(U) /\ Cardinality(V) \in Nat
        BY <1>0, <1>5, FS_Subset, FS_CardinalityType
    <2>2. \A j \in 1 .. Len(logged') : logged'[j].record.hash \in 1 .. appends'
        <3>1. \A h \in 1 .. appends : h \in 1 .. appends'
            BY <1>0, <1>5 DEF AuditTypeOK
        <3> QED  BY <1>5, <3>1 DEF FlushInv
    <2>3. Cardinality(V)
            <= (FlushInterval - 1) * unsynced_starts' + FlushInterval * failed_syncs' + events_since_flush'
        <3>1. Old + events_since_flush
                = (FlushInterval - 1) * unsynced_starts' + FlushInterval * failed_syncs' + events_since_flush'
            BY <1>5
        <3>2. Old + events_since_flush \in Nat
            BY <1>2, <1>3
        <3> HIDE DEF U, V, Old
        <3>3. Cardinality(V) <= Old + events_since_flush
            BY <1>0, <1>3, <2>1, <3>2
        <3> QED  BY <3>1, <3>3
    <2> QED  BY <1>3, <1>5, <2>2, <2>3 DEF FlushInv, V
<1>6. ASSUME V \subseteq U, UNCHANGED <<logged, failed_syncs>>,
             unsynced_starts' = unsynced_starts + 1, events_since_flush' = 0, appends <= appends'
      PROVE  FlushInv'
    <2>1. Cardinality(V) <= Cardinality(U) /\ Cardinality(V) \in Nat
        BY <1>0, <1>6, FS_Subset, FS_CardinalityType
    <2>2. Cardinality(V) <= Old + (FlushInterval - 1)
        <3> HIDE DEF U, V, Old
        <3> QED  BY <1>0, <1>2, <1>3, <2>1
    <2> HIDE DEF U, V
    <2>3. Old + (FlushInterval - 1)
            = (FlushInterval - 1) * (unsynced_starts + 1) + FlushInterval * failed_syncs
        BY <1>2, <1>3
    <2>4. \A j \in 1 .. Len(logged') : logged'[j].record.hash \in 1 .. appends'
        <3>1. \A h \in 1 .. appends : h \in 1 .. appends'
            BY <1>0, <1>6 DEF AuditTypeOK
        <3> QED  BY <1>6, <3>1 DEF FlushInv
    <2>5. Cardinality(V)
            <= (FlushInterval - 1) * unsynced_starts' + FlushInterval * failed_syncs' + events_since_flush'
        <3>1. (FlushInterval - 1) * unsynced_starts' + FlushInterval * failed_syncs'
                = (FlushInterval - 1) * (unsynced_starts + 1) + FlushInterval * failed_syncs
            BY <1>6
        <3>2. Old + (FlushInterval - 1) \in Nat
            BY <1>2, <1>3
        <3> HIDE DEF Old
        <3> QED  BY <1>6, <2>1, <2>2, <2>3, <3>1, <3>2
    <2>6. events_since_flush' \in 0 .. (FlushInterval - 1)
        BY <1>2, <1>6
    <2> QED  BY <2>4, <2>5, <2>6 DEF FlushInv, V
<1>7. CASE AppendRefused
    <2>1. UNCHANGED <<logged, unsynced_starts, failed_syncs, events_since_flush, path_file,
                      rotated_file, on_rotated, synced>> /\ appends' = appends + 1
        BY <1>7 DEF AppendRefused, Begin, sync_vars
    <2>2. Current' = Current /\ LoggedHashes' = H
        BY <2>1 DEF Current, LoggedHashes
    <2> QED  BY <1>0, <1>5, <2>1, <2>2
<1>9. CASE AppendWriteFails
    <2>1. PICK lines : /\ SetCurrent(lines)
                       /\ lines = Current \/ \E part \in {Torn, Record} : lines = Written(Current, part, FALSE)
        BY <1>9 DEF AppendWriteFails
    <2>2. UNCHANGED <<logged, unsynced_starts, failed_syncs, events_since_flush, on_rotated, synced>>
          /\ appends' = appends + 1
        BY <1>9 DEF AppendWriteFails, Begin, sync_vars
    <2>3. Current' = lines /\ LoggedHashes' = H
        BY <2>1, <2>2, SetCurrentFrame DEF LoggedHashes
    <2>4. Unsynced(lines, synced, H) \subseteq U
        BY <2>1, FragmentUnsynced
    <2> QED  BY <1>0, <1>5, <2>2, <2>3, <2>4
<1>10. CASE AppendRecord \/ AppendAndRotate
    <2> DEFINE new == [record |-> Record, stretch |-> stretch]
               W == Unsynced(Lines, synced, LoggedHashes')
    <2>1. /\ LogRecord /\ appends' = appends + 1 /\ logged' = Append(logged, new)
          /\ events_since_flush' = IF FlushDue THEN 0 ELSE events_since_flush + 1
        BY <1>10 DEF AppendRecord, AppendAndRotate, LogRecord, Begin
    <2>2. events_since_flush' \in 0 .. (FlushInterval - 1)
        BY <1>2, <2>1 DEF FlushDue
    <2>3. new \in [record : Entry, stretch : Nat] /\ new.record = Record /\ Record.hash = appends + 1
        BY RecordType DEF AuditTypeOK
    <2> HIDE DEF new
    <2>4. /\ Len(logged) \in Nat /\ Len(logged') = Len(logged) + 1 /\ logged'[Len(logged) + 1] = new
          /\ \A j \in 1 .. Len(logged) : logged'[j] = logged[j]
        BY <2>1, <2>3, AppendProperties, LenProperties DEF AuditTypeOK
    <2>5. \A j \in 1 .. Len(logged') : logged'[j].record.hash \in 1 .. appends'
        <3>1. \A j \in 1 .. Len(logged') : j \in 1 .. Len(logged) \/ j = Len(logged) + 1
            BY <2>4
        <3>2. \A h \in 1 .. (appends + 1) : h \in 1 .. appends'
            BY <2>1
        <3>3. \A h \in 1 .. appends : h \in 1 .. (appends + 1)
            BY <1>0
        <3>4. appends + 1 \in 1 .. (appends + 1)
            BY <1>0
        <3> QED  BY <2>3, <2>4, <3>1, <3>2, <3>3, <3>4 DEF FlushInv
    <2>6. Cardinality(W) \in Nat /\ Cardinality(W) <= Old + events_since_flush + 1
        <3>1. Cardinality(W) \in Nat /\ Cardinality(W) <= Cardinality(U) + 1
            BY <2>1, AppendedCount
        <3> HIDE DEF W, U, Old
        <3> QED  BY <1>0, <1>2, <1>3, <3>1
    <2>7. ASSUME Current' = Lines, synced' = Len(Lines), NothingUnsynced
          PROVE  FlushInv'
        BY <1>4, <2>2, <2>5, <2>7
    <2>8. ASSUME Current' = Lines, SyncFails, UNCHANGED synced
          PROVE  FlushInv'
        <3>1. V = W
            BY <2>8
        <3>2. unsynced_starts' = unsynced_starts
              /\ failed_syncs' = failed_syncs + (IF FlushDue THEN 1 ELSE 0)
            BY <2>8 DEF SyncFails
        <3> HIDE DEF V, W
        <3>3. Cardinality(V)
                <= (FlushInterval - 1) * unsynced_starts' + FlushInterval * failed_syncs' + events_since_flush'
            <4>1. CASE FlushDue
                <5>1. failed_syncs' = failed_syncs + 1 /\ events_since_flush' = 0
                    BY <2>1, <3>2, <4>1
                <5>2. FlushInterval * failed_syncs' = FlushInterval * failed_syncs + FlushInterval
                    BY <1>2, <1>3, <5>1
                <5> QED  BY <1>2, <1>3, <2>6, <3>1, <3>2, <5>1, <5>2
            <4>2. CASE ~FlushDue
                <5>1. failed_syncs' = failed_syncs /\ events_since_flush' = events_since_flush + 1
                    BY <1>3, <2>1, <3>2, <4>2
                <5> QED  BY <1>2, <1>3, <2>6, <3>1, <3>2, <5>1
            <4> QED  BY <4>1, <4>2
        <3> QED  BY <2>2, <2>5, <3>3 DEF FlushInv, V
    <2>9. ASSUME Current' = Lines, ~FlushDue, UNCHANGED <<synced, unsynced_starts, failed_syncs>>
          PROVE  FlushInv'
        <3>1. V = W
            BY <2>9
        <3> HIDE DEF V, W
        <3>2. events_since_flush' = events_since_flush + 1
            BY <2>1, <2>9
        <3>3. Cardinality(V)
                <= (FlushInterval - 1) * unsynced_starts' + FlushInterval * failed_syncs' + events_since_flush'
            BY <1>2, <1>3, <2>6, <2>9, <3>1, <3>2
        <3> QED  BY <2>2, <2>5, <3>3 DEF FlushInv, V
    <2>10. CASE AppendRecord
        <3>1. Current' = Lines
            BY <2>10, SetCurrentFrame DEF AppendRecord
        <3> QED  BY <2>7, <2>8, <2>9, <2>10, <3>1 DEF AppendRecord
    <2>11. ASSUME RenameFails \/ OpenFails
           PROVE  Current' = Lines
        BY <2>11 DEF RenameFails, OpenFails, Current
    <2>12. ASSUME NEW kept, Rotate(kept)
           PROVE  FlushInv'
        <3>1. Current' = <<>> /\ synced' = 0 /\ NothingUnsynced
            BY <2>12 DEF Rotate, Current
        <3> QED  BY <1>4, <2>2, <2>5, <3>1, EmptySeq
    <2>13. CASE AppendAndRotate
        BY <2>7, <2>8, <2>11, <2>12, <2>13 DEF AppendAndRotate
    <2> QED  BY <1>10, <2>10, <2>13
<1>11. CASE Crash
    <2>1. PICK lines : /\ StartAgain(lines, rotated_file)
                       /\ lines = Current \/ \E part \in {Torn, Record} : lines = Written(Current, part, FALSE)
        BY <1>11 DEF Crash
    <2>2. appends <= appends' /\ UNCHANGED logged /\ events_since_flush' = 0 /\ LoggedHashes' = H
        <3>1. appends' = appends \/ appends' = appends + 1
            BY <1>11 DEF Crash, Begin
        <3>2. UNCHANGED logged /\ events_since_flush' = 0 /\ LoggedHashes' = H
            BY <2>1 DEF StartAgain, LoggedHashes
        <3> QED  BY <1>0, <3>1, <3>2
    <2>3. Current' = IF on_rotated THEN <<>> ELSE lines
        BY <2>1 DEF StartAgain, Current
    <2>4. Unsynced(lines, synced, H) \subseteq U
        BY <2>1, FragmentUnsynced
    <2>5. CASE ~on_rotated
        <3>1. synced' = synced /\ failed_syncs' = failed_syncs /\ unsynced_starts' = unsynced_starts + 1
            BY <1>11, <2>5 DEF Crash
        <3> QED  BY <1>6, <2>2, <2>3, <2>4, <2>5, <3>1
    <2>6. CASE on_rotated
        <3>1. synced' = 0 /\ NothingUnsynced
            BY <1>11, <2>6 DEF Crash
        <3>2. synced' = Len(Current')
            BY <2>3, <2>6, <3>1, EmptySeq
        <3>3. events_since_flush' \in 0 .. (FlushInterval - 1)
            BY <1>2, <2>2
        <3>4. \A j \in 1 .. Len(logged') : logged'[j].record.hash \in 1 .. appends'
            <4>1. \A h \in 1 .. appends : h \in 1 .. appends'
                BY <1>0, <2>2 DEF AuditTypeOK
            <4> QED  BY <2>2, <4>1 DEF FlushInv
        <3> QED  BY <1>4, <3>1, <3>2, <3>3, <3>4
    <2> QED  BY <2>5, <2>6
<1>12. CASE PowerLoss
    <2>1. PICK lines, rotated : StartAgain(lines, rotated)
        BY <1>12 DEF PowerLoss
    <2>2. synced' = Len(path_file') /\ NothingUnsynced /\ appends' = appends
        BY <1>12 DEF PowerLoss
    <2>3. UNCHANGED logged /\ events_since_flush' = 0 /\ Current' = path_file'
        BY <2>1 DEF StartAgain, Current
    <2>4. \A j \in 1 .. Len(logged') : logged'[j].record.hash \in 1 .. appends'
        BY <2>2, <2>3 DEF FlushInv
    <2> QED  BY <1>2, <1>4, <2>2, <2>3, <2>4
<1>13. CASE UNCHANGED audit_vars
    BY <1>13 DEF audit_vars, sync_vars, FlushInv, Current, LoggedHashes
<1> QED  BY <1>7, <1>9, <1>10, <1>11, <1>12, <1>13 DEF AuditNext

(* The rotated file is not written while the handle is elsewhere.          *)
LEMMA RotatedKept ==
    ASSUME AuditTypeOK, ChainInv, RotatedInv, ~on_rotated,
           UNCHANGED <<rotated_file, rotated_synced, rotated_limit>>,
           LoggedHashes' \subseteq LoggedHashes \cup {appends + 1}
    PROVE  RotatedInv'
<1> DEFINE R == Unsynced(rotated_file, rotated_synced, LoggedHashes)
           S == Unsynced(rotated_file', rotated_synced', LoggedHashes')
<1>1. \A i \in DOMAIN rotated_file :
         Parses(rotated_file[i]) => rotated_file[i].parts[1].hash # appends + 1
    <2>1. File(rotated_file, appends) /\ appends \in Nat
        BY DEF ChainInv, AuditTypeOK
    <2>2. DOMAIN rotated_file = 1 .. Len(rotated_file)
        BY <2>1, LenProperties DEF File
    <2> QED  BY <2>1, <2>2 DEF File, GoodLines
<1>2. S \subseteq R
    BY <1>1 DEF Unsynced
<1>3. IsFiniteSet(R) /\ Cardinality(R) \in Nat /\ Cardinality(R) <= rotated_limit
      /\ rotated_limit \in Nat
    BY UnsyncedCounts DEF RotatedInv, AuditTypeOK, SyncTypeOK
<1> HIDE DEF R, S
<1>4. Cardinality(S) <= Cardinality(R) /\ Cardinality(S) \in Nat
    BY <1>2, <1>3, FS_Subset, FS_CardinalityType
<1>5. Cardinality(S) <= rotated_limit'
    BY <1>3, <1>4
<1> QED  BY <1>5 DEF RotatedInv, S

LEMMA RotatedStep ==
    ASSUME AuditTypeOK, ChainInv, FlushInv, RotatedInv, AuditTypeOK', [AuditNext]_audit_vars
    PROVE  RotatedInv'
<1> DEFINE U == Unsynced(Current, synced, LoggedHashes)
           S == Unsynced(rotated_file', rotated_synced', LoggedHashes')
           Old == (FlushInterval - 1) * unsynced_starts + FlushInterval * failed_syncs
<1> USE AuditAssumption
<1>0. /\ IsFiniteSet(U) /\ Cardinality(U) \in Nat /\ rotated_file' \in Seq(Line)
      /\ Old \in Nat /\ FlushInterval \in Nat /\ events_since_flush \in Nat
      /\ events_since_flush <= FlushInterval - 1
      /\ Cardinality(U) <= Old + events_since_flush
      /\ Limit = Old + (FlushInterval - 1)
    <2>1. /\ events_since_flush \in Nat /\ unsynced_starts \in Nat /\ failed_syncs \in Nat
          /\ FlushInterval \in Nat
          /\ FlushInterval - 1 \in Nat /\ events_since_flush <= FlushInterval - 1
        BY CountBelowInterval DEF AuditTypeOK, SyncTypeOK
    <2>2. Old \in Nat
        BY <2>1
    <2>3. Limit = Old + (FlushInterval - 1)
        BY <2>1 DEF Limit
    <2> QED  BY <2>1, <2>2, <2>3, UnsyncedCounts DEF FlushInv, AuditTypeOK
<1>1. ASSUME on_rotated'
      PROVE  RotatedInv'
    BY <1>1 DEF RotatedInv
<1>2. ASSUME rotated_synced' = Len(rotated_file')
      PROVE  RotatedInv'
    <2>1. Cardinality(S) = 0
        BY <1>0, <1>2, NoneUnsynced
    <2>2. rotated_limit' \in Nat
        BY DEF AuditTypeOK, SyncTypeOK
    <2> HIDE DEF S
    <2>3. Cardinality(S) <= rotated_limit'
        BY <2>1, <2>2
    <2> QED  BY <2>3 DEF RotatedInv, S
<1>3. ASSUME LogRecord
      PROVE  LoggedHashes' \subseteq LoggedHashes \cup {appends + 1}
    BY <1>3, AppendedUnsynced
<1>4. ASSUME UNCHANGED <<on_rotated, rotated_synced, rotated_limit>>,
             on_rotated \/ UNCHANGED rotated_file,
             LoggedHashes' \subseteq LoggedHashes \cup {appends + 1}
      PROVE  RotatedInv'
    BY <1>1, <1>4, RotatedKept
<1>5. CASE AppendRefused
    <2>1. UNCHANGED <<logged, rotated_file, on_rotated, rotated_synced, rotated_limit>>
        BY <1>5 DEF AppendRefused, sync_vars
    <2>2. LoggedHashes' = LoggedHashes
        BY <2>1 DEF LoggedHashes
    <2> QED  BY <1>4, <2>1, <2>2
<1>6. CASE AppendWriteFails
    <2>1. UNCHANGED <<logged, on_rotated, rotated_synced, rotated_limit>>
        BY <1>6 DEF AppendWriteFails, sync_vars
    <2>2. on_rotated \/ UNCHANGED rotated_file
        BY <1>6 DEF AppendWriteFails, SetCurrent
    <2>3. LoggedHashes' = LoggedHashes
        BY <2>1 DEF LoggedHashes
    <2> QED  BY <1>4, <2>1, <2>2, <2>3
<1>7. CASE AppendRecord
    <2>1. UNCHANGED <<on_rotated, rotated_synced, rotated_limit>> /\ LogRecord
        BY <1>7 DEF AppendRecord
    <2>2. on_rotated \/ UNCHANGED rotated_file
        BY <1>7 DEF AppendRecord, SetCurrent
    <2> QED  BY <1>3, <1>4, <2>1, <2>2
<1>8. CASE AppendAndRotate
    <2>1. LogRecord
        BY <1>8 DEF AppendAndRotate
    <2>2. CASE RenameFails
        BY <1>3, <1>4, <2>1, <2>2 DEF RenameFails
    <2>3. CASE OpenFails
        BY <1>1, <2>3 DEF OpenFails
    <2>4. CASE Rotate(Len(Lines))
        BY <1>2, <2>4 DEF Rotate
    <2>5. CASE Rotate(synced)
        <3>1. /\ rotated_file' = Lines /\ rotated_synced' = synced
              /\ rotated_limit' = Limit + (IF FlushDue THEN FlushInterval ELSE 0)
            BY <2>5 DEF Rotate
        <3>2. Cardinality(S) \in Nat /\ Cardinality(S) <= Cardinality(U) + 1
            BY <2>1, <3>1, AppendedCount
        <3> HIDE DEF S, U
        <3>3. Cardinality(S) <= rotated_limit'
            <4>1. CASE FlushDue
                BY <1>0, <3>1, <3>2, <4>1
            <4>2. CASE ~FlushDue
                <5>1. events_since_flush + 1 <= FlushInterval - 1
                    BY <1>0, <4>2 DEF FlushDue
                <5> QED  BY <1>0, <3>1, <3>2, <4>2, <5>1
            <4> QED  BY <4>1, <4>2
        <3> QED  BY <3>3 DEF RotatedInv, S
    <2> QED  BY <1>8, <2>2, <2>3, <2>4, <2>5 DEF AppendAndRotate
<1>9. CASE Crash
    <2>1. PICK lines : /\ StartAgain(lines, rotated_file)
                       /\ lines = Current \/ \E part \in {Torn, Record} : lines = Written(Current, part, FALSE)
        BY <1>9 DEF Crash
    <2>2. UNCHANGED logged /\ on_rotated' = FALSE
          /\ rotated_file' = IF on_rotated THEN lines ELSE rotated_file
        BY <2>1 DEF StartAgain
    <2>3. LoggedHashes' = LoggedHashes
        BY <2>2 DEF LoggedHashes
    <2>4. CASE ~on_rotated
        <3>1. UNCHANGED <<rotated_synced, rotated_limit>>
            BY <1>9, <2>4 DEF Crash
        <3> QED  BY <2>2, <2>3, <2>4, <3>1, RotatedKept
    <2>5. CASE on_rotated
        <3>1. rotated_synced' = synced /\ rotated_limit' = Limit
            BY <1>9, <2>5 DEF Crash
        <3>2. S \subseteq U
            BY <2>1, <2>2, <2>3, <2>5, <3>1, FragmentUnsynced
        <3>3. Cardinality(S) <= Cardinality(U) /\ Cardinality(S) \in Nat
            BY <1>0, <3>2, FS_Subset, FS_CardinalityType
        <3> HIDE DEF S, U
        <3>4. Cardinality(S) <= rotated_limit'
            BY <1>0, <3>1, <3>3
        <3> QED  BY <3>4 DEF RotatedInv, S
    <2> QED  BY <2>4, <2>5
<1>10. CASE PowerLoss
    BY <1>2, <1>10 DEF PowerLoss
<1>11. CASE UNCHANGED audit_vars
    BY <1>11 DEF audit_vars, sync_vars, RotatedInv, LoggedHashes
<1> QED  BY <1>5, <1>6, <1>7, <1>8, <1>9, <1>10, <1>11 DEF AuditNext

(* A power loss costs fewer appended records than the flush interval for   *)
(* each start of the process since the last sync of the file, and one      *)
(* interval more for each sync since then that failed, in the log and in   *)
(* the rotated log alike.                                                  *)
THEOREM AuditFlushed == AuditSpec => []UnsyncedBounded
<1>1. AuditInit => FlushInv /\ RotatedInv
    <2> SUFFICES ASSUME AuditInit
                 PROVE  FlushInv /\ RotatedInv
        OBVIOUS
    <2>1. /\ Current = <<>> /\ rotated_file = <<>> /\ logged = <<>> /\ events_since_flush = 0
          /\ unsynced_starts = 0 /\ failed_syncs = 0 /\ rotated_limit = 0
        BY DEF AuditInit, Current
    <2>2. /\ Unsynced(Current, synced, LoggedHashes) = {}
          /\ Unsynced(rotated_file, rotated_synced, LoggedHashes) = {}
        BY <2>1 DEF Unsynced
    <2>3. Cardinality({}) = 0
        BY FS_EmptySet
    <2>4. (FlushInterval - 1) * unsynced_starts + FlushInterval * failed_syncs + events_since_flush = 0
        BY <2>1, AuditAssumption
    <2>5. \A j \in 1 .. Len(logged) : logged[j].record.hash \in 1 .. appends
        BY <2>1, EmptySeq
    <2>6. events_since_flush \in 0 .. (FlushInterval - 1)
        BY <2>1, AuditAssumption
    <2>7. RotatedInv
        <3>1. Cardinality(Unsynced(rotated_file, rotated_synced, LoggedHashes)) = 0
            BY <2>2, <2>3
        <3> QED  BY <2>1, <3>1 DEF RotatedInv
    <2> QED  BY <2>2, <2>3, <2>4, <2>5, <2>6, <2>7 DEF FlushInv
<1>2. AuditTypeOK /\ ChainInv /\ FlushInv /\ AuditTypeOK' /\ [AuditNext]_audit_vars => FlushInv'
    BY FlushStep
<1>4. AuditTypeOK /\ ChainInv /\ FlushInv /\ RotatedInv /\ AuditTypeOK' /\ [AuditNext]_audit_vars => RotatedInv'
    BY RotatedStep
<1>3. AuditTypeOK /\ ChainInv /\ FlushInv /\ RotatedInv => UnsyncedBounded
    <2> SUFFICES ASSUME AuditTypeOK, ChainInv, FlushInv, RotatedInv
                 PROVE  UnsyncedBounded
        OBVIOUS
    <2> DEFINE U == Unsynced(Current, synced, LoggedHashes)
               Old == (FlushInterval - 1) * unsynced_starts + FlushInterval * failed_syncs
    <2>1. Cardinality(U) \in Nat
        BY UnsyncedCounts
    <2>2. Cardinality(U) <= Old + events_since_flush
        BY DEF FlushInv
    <2> HIDE DEF U
    <2>3. /\ FlushInterval \in Nat /\ FlushInterval - 1 \in Nat
          /\ unsynced_starts \in Nat /\ failed_syncs \in Nat
          /\ events_since_flush \in Nat /\ events_since_flush <= FlushInterval - 1
        BY CountBelowInterval DEF AuditTypeOK, SyncTypeOK
    <2>4. Limit = Old + (FlushInterval - 1) /\ Old \in Nat
        BY <2>3 DEF Limit
    <2>5. Cardinality(U) <= Limit
        BY <2>1, <2>2, <2>3, <2>4
    <2> QED  BY <2>5 DEF UnsyncedBounded, RotatedInv, U
<1> QED  BY <1>1, <1>2, <1>3, <1>4, AuditInvariant, PTL DEF AuditSpec

-----------------------------------------------------------------------------
(* The Bloom filter.                                                       *)

Op == [kind : {"probe", "miss", "insert", "remove"}, hash : Hashes, todo : Seq(Buckets)]

(* The types of the fields in the code.                                    *)
BloomTypeOK ==
    /\ DOMAIN content_store \subseteq Hashes
    /\ counters \in [Buckets -> 0 .. MaxCount]
    /\ op \in [Threads -> Op \cup {Idle}]

LEMMA SetType ==
    ASSUME BloomTypeOK, NEW t \in Threads, NEW kind \in {"probe", "miss", "insert", "remove"},
           NEW hash \in Hashes, NEW todo \in Seq(Buckets), Set(t, kind, hash, todo)
    PROVE  /\ op' \in [Threads -> Op \cup {Idle}]
           /\ \A u \in Threads \ {t} : op'[u] = op[u]
           /\ op'[t] # Idle /\ op'[t].kind = kind /\ op'[t].hash = hash /\ op'[t].todo = todo
<1> DEFINE new == [kind |-> kind, hash |-> hash, todo |-> todo]
<1>1. new \in Op
    BY DEF Op
<1>2. new # Idle
    BY <1>1, BloomAssumption DEF Op
<1> QED  BY <1>1, <1>2 DEF Set, BloomTypeOK

LEMMA DoneType ==
    ASSUME BloomTypeOK, NEW t \in Threads, Done(t)
    PROVE  /\ op' \in [Threads -> Op \cup {Idle}]
           /\ \A u \in Threads \ {t} : op'[u] = op[u]
           /\ op'[t] = Idle
BY DEF Done, BloomTypeOK

LEMMA StepType ==
    ASSUME BloomTypeOK, NEW t \in Threads, op[t] # Idle, op[t].todo # <<>>, Step(t)
    PROVE  /\ op' \in [Threads -> Op \cup {Idle}]
           /\ \A u \in Threads \ {t} : op'[u] = op[u]
           /\ op'[t] # Idle /\ op'[t].kind = op[t].kind
           /\ op'[t].hash = op[t].hash /\ op'[t].todo = Tail(op[t].todo)
<1> DEFINE new == [op[t] EXCEPT !.todo = Tail(op[t].todo)]
<1>1. op[t] \in Op
    BY DEF BloomTypeOK
<1>2. op[t].todo \in Seq(Buckets)
    BY <1>1 DEF Op
<1>3. Tail(op[t].todo) \in Seq(Buckets)
    BY <1>2, HeadTailProperties
<1>4. new \in Op /\ new.kind = op[t].kind /\ new.hash = op[t].hash /\ new.todo = Tail(op[t].todo)
    BY <1>1, <1>3 DEF Op
<1>5. new # Idle
    BY <1>4, BloomAssumption DEF Op
<1>6. op' = [op EXCEPT ![t] = new]
    BY DEF Step
<1> HIDE DEF new
<1> QED  BY <1>4, <1>5, <1>6 DEF BloomTypeOK

(* What a call is doing.                                                   *)
LEMMA DoingOp ==
    ASSUME BloomTypeOK, NEW t \in Threads, NEW kind, Doing(t, kind)
    PROVE  /\ op[t] # Idle /\ op[t] \in Op /\ op[t].kind = kind
           /\ op[t].hash \in Hashes /\ op[t].todo \in Seq(Buckets)
BY DEF Doing, BloomTypeOK, Op

LEMMA IndexType ==
    ASSUME NEW hash \in Hashes
    PROVE  /\ Indexes[hash] \in Seq(Buckets) /\ Len(Indexes[hash]) \in Nat
           /\ DOMAIN Indexes[hash] = 1 .. Len(Indexes[hash])
<1>1. Indexes[hash] \in Seq(Buckets)
    BY BloomAssumption
<1> QED  BY <1>1, LenProperties

-----------------------------------------------------------------------------
(* Counting: the buckets that stored hashes need, and updates to come.     *)

LEMMA UsesFinite ==
    ASSUME NEW b, NEW hash \in Hashes
    PROVE  IsFiniteSet(Uses(b, hash))
<1>1. IsFiniteSet(1 .. Len(Indexes[hash]))
    BY IndexType, FS_Interval
<1>2. IsFiniteSet({hash}) /\ IsFiniteSet({hash} \X (1 .. Len(Indexes[hash])))
    BY <1>1, FS_Singleton, FS_Product
<1>3. Uses(b, hash) \in SUBSET ({hash} \X (1 .. Len(Indexes[hash])))
    BY IndexType DEF Uses
<1> QED  BY <1>2, <1>3, FS_Subset

AllUses(b, S) == UNION {Uses(b, hash) : hash \in S}

LEMMA AllUsesFinite ==
    ASSUME NEW b, NEW S \in SUBSET Hashes
    PROVE  IsFiniteSet(AllUses(b, S))
<1> DEFINE T == {Uses(b, hash) : hash \in S}
           f == [hash \in S |-> Uses(b, hash)]
<1>1. IsFiniteSet(S)
    BY BloomAssumption, FS_Subset
<1>2. f \in [S -> T] /\ \A z \in T : \E hash \in S : f[hash] = z
    OBVIOUS
<1>3. \A z \in T : IsFiniteSet(z)
    BY UsesFinite
<1> HIDE DEF f, T
<1>4. IsFiniteSet(UNION T)
    BY <1>1, <1>2, <1>3, FiniteUnion
<1> QED  BY <1>4 DEF AllUses, T

(* One hash more needs its own buckets more.                               *)
LEMMA AllUsesAdd ==
    ASSUME NEW b, NEW S \in SUBSET Hashes, NEW hash \in Hashes, hash \notin S
    PROVE  /\ Cardinality(AllUses(b, S \cup {hash})) = Cardinality(AllUses(b, S)) + Cardinality(Uses(b, hash))
           /\ Cardinality(AllUses(b, S)) \in Nat /\ Cardinality(Uses(b, hash)) \in Nat
<1>1. AllUses(b, S \cup {hash}) = AllUses(b, S) \cup Uses(b, hash)
    BY DEF AllUses
<1>2. AllUses(b, S) \cap Uses(b, hash) = {}
    <2> SUFFICES ASSUME NEW h \in S, NEW p, p \in Uses(b, h), p \in Uses(b, hash)
                 PROVE  FALSE
        BY DEF AllUses
    <2>1. p[1] = h /\ p[1] = hash
        BY DEF Uses
    <2> QED  BY <2>1
<1>3. IsFiniteSet(AllUses(b, S)) /\ IsFiniteSet(Uses(b, hash))
    BY AllUsesFinite, UsesFinite
<1> QED  BY <1>1, <1>2, <1>3, DisjointSum

LEMMA NeededType ==
    ASSUME BloomTypeOK, NEW b
    PROVE  Needed(b) = Cardinality(AllUses(b, DOMAIN content_store)) /\ Needed(b) \in Nat
<1>1. IsFiniteSet(AllUses(b, DOMAIN content_store))
    BY AllUsesFinite DEF BloomTypeOK
<1>2. Needed(b) = Cardinality(AllUses(b, DOMAIN content_store))
    BY DEF Needed, AllUses
<1> QED  BY <1>1, <1>2, FS_CardinalityType

-----------------------------------------------------------------------------
LEMMA BloomTypeStep ==
    ASSUME BloomTypeOK, [BloomNext]_bloom_vars
    PROVE  BloomTypeOK'
<1> USE BloomAssumption
<1>0. <<>> \in Seq(Buckets)
    BY EmptySeq
<1>1. ASSUME NEW t \in Threads, NEW hash \in Hashes, LookupContent(t, hash)
      PROVE  BloomTypeOK'
    <2>1. op' \in [Threads -> Op \cup {Idle}]
        BY <1>1, IndexType, SetType DEF LookupContent
    <2> QED  BY <1>1, <2>1 DEF LookupContent, BloomTypeOK
<1>2. ASSUME NEW t \in Threads, MightContain(t)
      PROVE  BloomTypeOK'
    <2>1. op[t] # Idle /\ op[t].hash \in Hashes /\ op[t].todo # <<>>
        BY <1>2, DoingOp DEF MightContain
    <2>2. op' \in [Threads -> Op \cup {Idle}]
        BY <1>0, <1>2, <2>1, SetType, StepType DEF MightContain
    <2> QED  BY <1>2, <2>2 DEF MightContain, BloomTypeOK
<1>3. ASSUME NEW t \in Threads, ReadStore(t)
      PROVE  BloomTypeOK'
    <2>1. op[t].hash \in Hashes
        BY <1>3, DoingOp DEF ReadStore
    <2>2. op' \in [Threads -> Op \cup {Idle}]
        BY <1>0, <1>3, <2>1, SetType, DoneType DEF ReadStore
    <2> QED  BY <1>3, <2>2 DEF ReadStore, BloomTypeOK
<1>4. ASSUME NEW t \in Threads, RegisterContent(t)
      PROVE  BloomTypeOK'
    <2>1. op[t].hash \in Hashes
        BY <1>4, DoingOp DEF RegisterContent
    <2>2. op' \in [Threads -> Op \cup {Idle}]
        BY <1>4, <2>1, IndexType, SetType, DoneType DEF RegisterContent
    <2>3. DOMAIN content_store' \subseteq Hashes
        BY <1>4, <2>1 DEF RegisterContent, Put, BloomTypeOK
    <2> QED  BY <1>4, <2>2, <2>3 DEF RegisterContent, BloomTypeOK
<1>5. ASSUME NEW t \in Threads, InsertCell(t) \/ RemoveCell(t)
      PROVE  BloomTypeOK'
    <2>1. op[t] # Idle /\ op[t].todo # <<>> /\ (Done(t) \/ Step(t)) /\ UNCHANGED content_store
        BY <1>5 DEF InsertCell, RemoveCell, Doing
    <2>2. op' \in [Threads -> Op \cup {Idle}]
        BY <2>1, StepType, DoneType
    <2>3. \A count \in 0 .. MaxCount : Raised(count) \in 0 .. MaxCount /\ Lowered(count) \in 0 .. MaxCount
        BY DEF Raised, Lowered
    <2>4. PICK b : \/ counters' = [counters EXCEPT ![b] = Raised(counters[b])]
                   \/ counters' = [counters EXCEPT ![b] = Lowered(counters[b])]
        BY <1>5 DEF InsertCell, RemoveCell
    <2>5. counters' \in [Buckets -> 0 .. MaxCount]
        <3>1. \A c \in Buckets : counters'[c] \in 0 .. MaxCount
            BY <2>3, <2>4 DEF BloomTypeOK
        <3>2. counters' = [c \in Buckets |-> counters'[c]]
            BY <2>4 DEF BloomTypeOK
        <3> QED  BY <3>1, <3>2
    <2> QED  BY <2>1, <2>2, <2>5 DEF BloomTypeOK
<1>6. ASSUME NEW t \in Threads, NEW hash \in Hashes, NEW seg \in 1 .. MaxStored,
             DeregisterContent(t, hash, seg)
      PROVE  BloomTypeOK'
    <2>1. op' \in [Threads -> Op \cup {Idle}]
        BY <1>6, IndexType, SetType DEF DeregisterContent, BloomTypeOK
    <2>2. DOMAIN content_store' \subseteq Hashes
        BY <1>6 DEF DeregisterContent, Drop, BloomTypeOK
    <2> QED  BY <1>6, <2>1, <2>2 DEF DeregisterContent, BloomTypeOK
<1>7. CASE UNCHANGED bloom_vars
    BY <1>7 DEF bloom_vars, BloomTypeOK
<1>8. CASE Reopen
    <2>1. \A b \in Buckets : (IF Needed(b) > MaxCount THEN MaxCount ELSE Needed(b)) \in 0 .. MaxCount
        BY NeededType
    <2> QED  BY <1>8, <2>1 DEF Reopen, BloomTypeOK
<1> QED  BY <1>1, <1>2, <1>3, <1>4, <1>5, <1>6, <1>7, <1>8 DEF BloomNext

-----------------------------------------------------------------------------
(* Updates to come of one call and of the others.                          *)

Ops == [Threads -> Op \cup {Idle}]
TodoIn(o, t, b) == {<<t, Len(o[t].todo) - i>> : i \in {j \in DOMAIN o[t].todo : o[t].todo[j] = b}}
Own(o, t, kind, b) == IF o[t] # Idle /\ o[t].kind = kind THEN TodoIn(o, t, b) ELSE {}
Others(o, t, kind, b) == UNION {Own(o, u, kind, b) : u \in Threads \ {t}}

LEMMA OwnFinite ==
    ASSUME NEW o \in Ops, NEW t \in Threads, NEW kind, NEW b
    PROVE  IsFiniteSet(Own(o, t, kind, b)) /\ \A p \in Own(o, t, kind, b) : p[1] = t
<1>1. CASE ~(o[t] # Idle /\ o[t].kind = kind)
    BY <1>1, FS_EmptySet DEF Own
<1>2. CASE o[t] # Idle /\ o[t].kind = kind
    <2> DEFINE n == Len(o[t].todo)
    <2>1. n \in Nat /\ DOMAIN o[t].todo = 1 .. n
        <3>1. o[t].todo \in Seq(Buckets)
            BY <1>2 DEF Ops, Op
        <3> QED  BY <3>1, LenProperties
    <2> HIDE DEF n
    <2>2. IsFiniteSet(0 .. n) /\ IsFiniteSet({t})
        <3>1. 0 \in Int /\ n \in Int
            BY <2>1
        <3> QED  BY <3>1, FS_Interval, FS_Singleton
    <2>3. IsFiniteSet({t} \X (0 .. n))
        BY <2>2, FS_Product
    <2>4. TodoIn(o, t, b) \in SUBSET ({t} \X (0 .. n))
        <3> SUFFICES ASSUME NEW j \in DOMAIN o[t].todo
                     PROVE  n - j \in 0 .. n
            BY DEF TodoIn, n
        <3> QED  BY <2>1
    <2>5. IsFiniteSet(TodoIn(o, t, b))
        BY <2>3, <2>4, FS_Subset
    <2>6. \A p \in TodoIn(o, t, b) : p[1] = t
        BY DEF TodoIn
    <2> QED  BY <1>2, <2>5, <2>6 DEF Own
<1> QED  BY <1>1, <1>2

LEMMA OwnSplit ==
    ASSUME NEW o \in Ops, NEW t \in Threads, NEW kind, NEW b
    PROVE  /\ Cardinality(Others(o, t, kind, b) \cup Own(o, t, kind, b))
                 = Cardinality(Others(o, t, kind, b)) + Cardinality(Own(o, t, kind, b))
           /\ Cardinality(Others(o, t, kind, b)) \in Nat /\ Cardinality(Own(o, t, kind, b)) \in Nat
<1>1. Others(o, t, kind, b) \cap Own(o, t, kind, b) = {}
    <2> SUFFICES ASSUME NEW u \in Threads \ {t}, NEW p, p \in Own(o, u, kind, b), p \in Own(o, t, kind, b)
                 PROVE  FALSE
        BY DEF Others
    <2>1. p[1] = u /\ p[1] = t
        BY OwnFinite
    <2> QED  BY <2>1
<1>2. IsFiniteSet(Others(o, t, kind, b))
    <2> DEFINE T == {Own(o, u, kind, b) : u \in Threads \ {t}}
               f == [u \in Threads \ {t} |-> Own(o, u, kind, b)]
    <2>1. IsFiniteSet(Threads \ {t})
        BY BloomAssumption, FS_Subset
    <2>2. f \in [Threads \ {t} -> T] /\ \A z \in T : \E u \in Threads \ {t} : f[u] = z
        OBVIOUS
    <2>3. \A z \in T : IsFiniteSet(z)
        BY OwnFinite
    <2> HIDE DEF f, T
    <2>4. IsFiniteSet(UNION T)
        BY <2>1, <2>2, <2>3, FiniteUnion
    <2> QED  BY <2>4 DEF Others, T
<1>3. IsFiniteSet(Own(o, t, kind, b))
    BY OwnFinite
<1> QED  BY <1>1, <1>2, <1>3, DisjointSum

(* What a step of call t does to the updates to come, in its own terms:    *)
(* those of the other calls stay.                                          *)
LEMMA PendingStep ==
    ASSUME op \in Ops, op' \in Ops, NEW t \in Threads, \A u \in Threads \ {t} : op'[u] = op[u],
           NEW kind, NEW b
    PROVE  /\ Pending(kind, b)' - Cardinality(Own(op', t, kind, b))
                 = Pending(kind, b) - Cardinality(Own(op, t, kind, b))
           /\ Pending(kind, b)' \in Nat /\ Pending(kind, b) \in Nat
           /\ Cardinality(Own(op', t, kind, b)) \in Nat /\ Cardinality(Own(op, t, kind, b)) \in Nat
<1>1. Pending(kind, b) = Cardinality(Others(op, t, kind, b) \cup Own(op, t, kind, b))
    <2>1. UNION {Todo(u, b) : u \in {w \in Threads : Doing(w, kind)}}
            = Others(op, t, kind, b) \cup Own(op, t, kind, b)
        BY DEF Others, Own, Doing, Todo, TodoIn
    <2> QED  BY <2>1 DEF Pending
<1>2. Pending(kind, b)' = Cardinality(Others(op', t, kind, b) \cup Own(op', t, kind, b))
    <2>1. UNION {Todo(u, b)' : u \in {w \in Threads : Doing(w, kind)'}}
            = Others(op', t, kind, b) \cup Own(op', t, kind, b)
        BY DEF Others, Own, Doing, Todo, TodoIn
    <2> QED  BY <2>1 DEF Pending
<1>3. Others(op', t, kind, b) = Others(op, t, kind, b)
    <2>1. \A u \in Threads \ {t} : Own(op', u, kind, b) = Own(op, u, kind, b)
        BY DEF Own, TodoIn
    <2> QED  BY <2>1 DEF Others
<1>4. /\ Pending(kind, b) = Cardinality(Others(op, t, kind, b)) + Cardinality(Own(op, t, kind, b))
      /\ Cardinality(Others(op, t, kind, b)) \in Nat /\ Cardinality(Own(op, t, kind, b)) \in Nat
    BY <1>1, OwnSplit
<1>5. /\ Pending(kind, b)' = Cardinality(Others(op', t, kind, b)) + Cardinality(Own(op', t, kind, b))
      /\ Cardinality(Others(op', t, kind, b)) \in Nat /\ Cardinality(Own(op', t, kind, b)) \in Nat
    BY <1>2, OwnSplit
<1> QED  BY <1>3, <1>4, <1>5

(* A call that has begun its updates has one to make for every use.        *)
LEMMA FreshTodo ==
    ASSUME NEW o, NEW t \in Threads, NEW hash \in Hashes, o[t].todo = Indexes[hash], NEW b
    PROVE  Cardinality(TodoIn(o, t, b)) = Cardinality(Uses(b, hash))
<1> DEFINE n == Len(Indexes[hash])
           f == [p \in Uses(b, hash) |-> <<t, n - p[2]>>]
<1>1. n \in Nat /\ DOMAIN Indexes[hash] = 1 .. n
    BY IndexType
<1>2. \A p \in Uses(b, hash) : p[2] \in 1 .. n /\ Indexes[hash][p[2]] = b /\ p = <<hash, p[2]>>
    BY <1>1 DEF Uses
<1>3. \A p \in Uses(b, hash) : <<t, n - p[2]>> \in TodoIn(o, t, b)
    BY <1>1, <1>2 DEF TodoIn
<1>4. f \in [Uses(b, hash) -> TodoIn(o, t, b)]
    BY <1>3
<1>5. \A p, q \in Uses(b, hash) : f[p] = f[q] => p = q
    BY <1>1, <1>2
<1>6. ASSUME NEW z \in TodoIn(o, t, b)
      PROVE  \E p \in Uses(b, hash) : f[p] = z
    <2>1. PICK j \in DOMAIN Indexes[hash] : Indexes[hash][j] = b /\ z = <<t, n - j>>
        BY DEF TodoIn
    <2>2. <<hash, j>> \in Uses(b, hash)
        BY <2>1 DEF Uses
    <2>3. f[<<hash, j>>] = <<t, n - j>>
        BY <2>2
    <2> QED  BY <2>1, <2>2, <2>3
<1> HIDE DEF f
<1> QED  BY <1>4, <1>5, <1>6, UsesFinite, SameSize

(* One update of a call: one fewer to come, of the bucket it is about.     *)
LEMMA CellStep ==
    ASSUME BloomTypeOK, NEW t \in Threads, NEW kind, Doing(t, kind), op[t].todo # <<>>,
           IF Len(op[t].todo) = 1 THEN Done(t) ELSE Step(t), NEW b
    PROVE  /\ Cardinality(Own(op', t, kind, b)) =
                 Cardinality(Own(op, t, kind, b)) - (IF b = Head(op[t].todo) THEN 1 ELSE 0)
           /\ \A u \in Threads \ {t} : op'[u] = op[u]
           /\ \A other : other # kind => Own(op, t, other, b) = {} /\ Own(op', t, other, b) = {}
<1> DEFINE n == Len(op[t].todo)
           todo == op[t].todo
           last == <<t, n - 1>>
<1>1. todo \in Seq(Buckets) /\ op[t] # Idle /\ op[t].kind = kind
    BY DoingOp
<1>2. n \in Nat \ {0} /\ DOMAIN todo = 1 .. n /\ Head(todo) = todo[1]
    <2>1. n \in Nat /\ DOMAIN todo = 1 .. n
        BY <1>1, LenProperties
    <2>2. n # 0
        BY <1>1, EmptySeq
    <2> QED  BY <1>1, <2>1, <2>2, HeadTailProperties
<1>3. Own(op, t, kind, b) = TodoIn(op, t, b) /\ IsFiniteSet(TodoIn(op, t, b))
    BY OwnFinite DEF Own, Doing, BloomTypeOK, Ops
<1>4. \A z : z \in TodoIn(op, t, b) <=> \E j \in 1 .. n : todo[j] = b /\ z = <<t, n - j>>
    BY <1>2 DEF TodoIn
<1>5. last \in TodoIn(op, t, b) <=> b = Head(todo)
    <2>1. \A j \in 1 .. n : <<t, n - j>> = last => j = 1
        BY <1>2
    <2> QED  BY <1>2, <1>4, <2>1
<1>6. Own(op', t, kind, b) = TodoIn(op, t, b) \ {last}
    <2>1. CASE n = 1
        <3>1. Own(op', t, kind, b) = {}
            BY <2>1, DoneType DEF Own
        <3>2. \A z \in TodoIn(op, t, b) : z = last
            BY <1>4, <2>1
        <3> QED  BY <3>1, <3>2
    <2>2. CASE n # 1
        <3>1. Step(t)
            BY <2>2
        <3>2. op'[t] # Idle /\ op'[t].kind = kind /\ op'[t].todo = Tail(todo)
            BY <1>1, <3>1, StepType
        <3>3. /\ Len(Tail(todo)) = n - 1 /\ Tail(todo) \in Seq(Buckets)
              /\ \A j \in 1 .. n - 1 : Tail(todo)[j] = todo[j + 1]
            BY <1>1, <1>2, HeadTailProperties
        <3>4. DOMAIN Tail(todo) = 1 .. n - 1
            BY <3>3, LenProperties
        <3>5. Own(op', t, kind, b) =
                  {<<t, n - 1 - i>> : i \in {j \in 1 .. n - 1 : todo[j + 1] = b}}
            BY <3>2, <3>3, <3>4 DEF Own, TodoIn
        <3> HIDE DEF n, todo
        <3>6. ASSUME NEW z \in Own(op', t, kind, b)
              PROVE  z \in TodoIn(op, t, b) /\ z # last
            <4>1. PICK j \in 1 .. n - 1 : todo[j + 1] = b /\ z = <<t, n - 1 - j>>
                BY <3>5, <3>6
            <4>2. j + 1 \in 1 .. n /\ n - 1 - j = n - (j + 1) /\ n - 1 - j # n - 1
                BY <1>2, <4>1
            <4> QED  BY <1>4, <4>1, <4>2
        <3>7. ASSUME NEW z \in TodoIn(op, t, b), z # last
              PROVE  z \in Own(op', t, kind, b)
            <4>1. PICK j \in 1 .. n : todo[j] = b /\ z = <<t, n - j>>
                BY <1>4
            <4>2. j # 1
                BY <3>7, <4>1
            <4> DEFINE k == j - 1
            <4>3. k \in 1 .. n - 1 /\ k + 1 = j /\ n - j = n - 1 - k
                BY <1>2, <4>2
            <4> HIDE DEF k
            <4> QED  BY <3>5, <4>1, <4>3
        <3> QED  BY <3>6, <3>7
    <2> QED  BY <2>1, <2>2
<1>7. Cardinality(TodoIn(op, t, b)) \in Nat
    BY <1>3, FS_CardinalityType
<1>8. Cardinality(Own(op', t, kind, b)) =
          Cardinality(Own(op, t, kind, b)) - (IF b = Head(op[t].todo) THEN 1 ELSE 0)
    <2> HIDE DEF last, todo, n
    <2>1. Cardinality(TodoIn(op, t, b) \ {last})
            = IF last \in TodoIn(op, t, b) THEN Cardinality(TodoIn(op, t, b)) - 1 ELSE Cardinality(TodoIn(op, t, b))
        BY <1>3, FS_RemoveElement
    <2>2. b = Head(op[t].todo) <=> last \in TodoIn(op, t, b)
        BY <1>5 DEF todo
    <2> QED  BY <1>3, <1>6, <1>7, <2>1, <2>2
<1>9. \A u \in Threads \ {t} : op'[u] = op[u]
    BY <1>1, DoneType, StepType
<1>10. ASSUME NEW other, other # kind
       PROVE  Own(op, t, other, b) = {} /\ Own(op', t, other, b) = {}
    <2>1. op'[t] = Idle \/ op'[t].kind = kind
        BY <1>1, DoneType, StepType
    <2> QED  BY <1>1, <1>10, <2>1 DEF Own
<1> QED  BY <1>8, <1>9, <1>10

-----------------------------------------------------------------------------
(* The inductive invariant: with the updates to come every counter covers  *)
(* the stored hashes that use it, or has stuck at its limit.               *)

Covered(b) ==
    \/ b \in clipped /\ counters[b] = MaxCount
    \/ counters[b] + Pending("insert", b) >= Needed(b) + Pending("remove", b)

Covers == ~lossy => \A b \in Buckets : Covered(b)

LEMMA NeededPrime ==
    ASSUME BloomTypeOK', NEW b
    PROVE  Needed(b)' = Cardinality(AllUses(b, DOMAIN content_store')) /\ Needed(b)' \in Nat
<1>1. IsFiniteSet(AllUses(b, DOMAIN content_store'))
    BY AllUsesFinite DEF BloomTypeOK
<1>2. Needed(b)' = Cardinality(AllUses(b, DOMAIN content_store'))
    BY DEF Needed, AllUses
<1> QED  BY <1>1, <1>2, FS_CardinalityType

(* A call that makes no updates before or after its step.                  *)
LEMMA QuietStep ==
    ASSUME BloomTypeOK, BloomTypeOK', NEW t \in Threads, \A u \in Threads \ {t} : op'[u] = op[u],
           op[t] = Idle \/ op[t].kind \in {"probe", "miss"},
           op'[t] = Idle \/ op'[t].kind \in {"probe", "miss"},
           UNCHANGED <<content_store, counters, clipped>>, NEW b, Covered(b)
    PROVE  Covered(b)'
<1>1. \A kind \in {"insert", "remove"} : Own(op, t, kind, b) = {} /\ Own(op', t, kind, b) = {}
    BY DEF Own
<1>2. op \in Ops /\ op' \in Ops
    BY DEF BloomTypeOK, Ops
<1>3. ASSUME NEW kind \in {"insert", "remove"}
      PROVE  Pending(kind, b)' = Pending(kind, b)
    <2>1. Own(op, t, kind, b) = {} /\ Own(op', t, kind, b) = {}
        BY <1>1
    <2> QED  BY <1>2, <2>1, PendingStep
<1>4. Needed(b)' = Needed(b)
    BY DEF Needed
<1> QED  BY <1>3, <1>4 DEF Covered

(* An entry is stored and its insertions begin, or is dropped and its      *)
(* removals begin.                                                         *)
LEMMA BeginStep ==
    ASSUME BloomTypeOK, BloomTypeOK', NEW t \in Threads, NEW hash \in Hashes,
           op[t] = Idle \/ op[t].kind \in {"probe", "miss"},
           \/ Set(t, "insert", hash, Indexes[hash])
              /\ DOMAIN content_store' = DOMAIN content_store \cup {hash}
           \/ Set(t, "remove", hash, Indexes[hash]) /\ hash \in DOMAIN content_store
              /\ DOMAIN content_store' = DOMAIN content_store \ {hash},
           UNCHANGED <<counters, clipped>>, NEW b \in Buckets, Covered(b)
    PROVE  Covered(b)'
<1> DEFINE need == Cardinality(Uses(b, hash))
<1>1. op \in Ops /\ op' \in Ops
    BY DEF BloomTypeOK, Ops
<1>2. /\ \A u \in Threads \ {t} : op'[u] = op[u]
      /\ op'[t] # Idle /\ op'[t].kind \in {"insert", "remove"} /\ op'[t].todo = Indexes[hash]
    BY IndexType, SetType
<1>3. \A kind \in {"insert", "remove"} : Cardinality(Own(op, t, kind, b)) = 0
    BY FS_EmptySet DEF Own
<1>4. \A kind \in {"insert", "remove"} :
          Cardinality(Own(op', t, kind, b)) = IF op'[t].kind = kind THEN need ELSE 0
    <2>1. Cardinality(TodoIn(op', t, b)) = need
        BY <1>2, FreshTodo
    <2> QED  BY <1>2, <2>1, FS_EmptySet DEF Own
<1>5. need \in Nat
    BY UsesFinite, FS_CardinalityType
<1> HIDE DEF need
<1>6. \A kind \in {"insert", "remove"} :
          /\ Pending(kind, b)' = Pending(kind, b) + (IF op'[t].kind = kind THEN need ELSE 0)
          /\ Pending(kind, b) \in Nat
    <2> SUFFICES ASSUME NEW kind \in {"insert", "remove"}
                 PROVE  /\ Pending(kind, b)' = Pending(kind, b) + (IF op'[t].kind = kind THEN need ELSE 0)
                        /\ Pending(kind, b) \in Nat
        OBVIOUS
    <2>1. Cardinality(Own(op, t, kind, b)) = 0
        BY <1>3
    <2>2. Cardinality(Own(op', t, kind, b)) = IF op'[t].kind = kind THEN need ELSE 0
        BY <1>4
    <2>3. /\ Pending(kind, b)' - Cardinality(Own(op', t, kind, b))
                = Pending(kind, b) - Cardinality(Own(op, t, kind, b))
          /\ Pending(kind, b)' \in Nat /\ Pending(kind, b) \in Nat
        BY <1>1, <1>2, PendingStep
    <2> QED  BY <1>5, <2>1, <2>2, <2>3
<1>7. counters[b] \in Nat /\ Needed(b) \in Nat /\ Needed(b)' \in Nat
    BY BloomAssumption, NeededType, NeededPrime DEF BloomTypeOK
<1>8. CASE op'[t].kind = "insert"
    <2>1. DOMAIN content_store' = DOMAIN content_store \cup {hash}
        BY <1>8, IndexType, SetType
    <2>2. Needed(b)' =< Needed(b) + need
        <3>1. CASE hash \in DOMAIN content_store
            <4>1. DOMAIN content_store' = DOMAIN content_store
                BY <2>1, <3>1
            <4> QED  BY <1>5, <1>7, <4>1, NeededType, NeededPrime
        <3>2. CASE hash \notin DOMAIN content_store
            <4>1. Cardinality(AllUses(b, DOMAIN content_store \cup {hash}))
                    = Cardinality(AllUses(b, DOMAIN content_store)) + need
                BY <3>2, AllUsesAdd DEF BloomTypeOK, need
            <4> QED  BY <1>5, <1>7, <2>1, <4>1, NeededType, NeededPrime
        <3> QED  BY <3>1, <3>2
    <2>3. Pending("insert", b)' = Pending("insert", b) + need /\ Pending("remove", b)' = Pending("remove", b)
        BY <1>5, <1>6, <1>8
    <2> QED  BY <1>5, <1>6, <1>7, <2>2, <2>3 DEF Covered
<1>9. CASE op'[t].kind = "remove"
    <2>1. hash \in DOMAIN content_store /\ DOMAIN content_store' = DOMAIN content_store \ {hash}
        BY <1>9, IndexType, SetType
    <2>2. Needed(b) = Needed(b)' + need
        <3>1. DOMAIN content_store = DOMAIN content_store' \cup {hash}
            BY <2>1
        <3>2. Cardinality(AllUses(b, DOMAIN content_store' \cup {hash}))
                = Cardinality(AllUses(b, DOMAIN content_store')) + need
            BY <2>1, AllUsesAdd DEF BloomTypeOK, need
        <3> QED  BY <3>1, <3>2, NeededType, NeededPrime
    <2>3. Pending("insert", b)' = Pending("insert", b) /\ Pending("remove", b)' = Pending("remove", b) + need
        BY <1>5, <1>6, <1>9
    <2> QED  BY <1>5, <1>6, <1>7, <2>2, <2>3 DEF Covered
<1> QED  BY <1>2, <1>8, <1>9

(* One update of a counter.                                                *)
LEMMA UpdateStep ==
    ASSUME BloomTypeOK, BloomTypeOK', NEW t \in Threads, InsertCell(t) \/ RemoveCell(t),
           NEW b \in Buckets, Covered(b), ~lossy'
    PROVE  Covered(b)'
<1> USE BloomAssumption
<1> DEFINE h == Head(op[t].todo)
           less == IF b = h THEN 1 ELSE 0
<1>1. op \in Ops /\ op' \in Ops
    BY DEF BloomTypeOK, Ops
<1>2. Needed(b)' = Needed(b) /\ Needed(b) \in Nat
    BY NeededType DEF InsertCell, RemoveCell, Needed
<1>3. counters[b] \in 0 .. MaxCount
    BY DEF BloomTypeOK
<1>4. CASE InsertCell(t)
    <2>1. /\ Cardinality(Own(op', t, "insert", b)) = Cardinality(Own(op, t, "insert", b)) - less
          /\ Own(op, t, "remove", b) = {} /\ Own(op', t, "remove", b) = {}
          /\ \A u \in Threads \ {t} : op'[u] = op[u]
        BY <1>4, CellStep DEF InsertCell
    <2>2. Pending("insert", b)' = Pending("insert", b) - less /\ Pending("insert", b) \in Nat
        BY <1>1, <2>1, PendingStep
    <2>3. Pending("remove", b)' = Pending("remove", b) /\ Pending("remove", b) \in Nat
        <3>1. Cardinality(Own(op, t, "remove", b)) = 0 /\ Cardinality(Own(op', t, "remove", b)) = 0
            BY <2>1, FS_EmptySet
        <3>2. /\ Pending("remove", b)' - Cardinality(Own(op', t, "remove", b))
                    = Pending("remove", b) - Cardinality(Own(op, t, "remove", b))
              /\ Pending("remove", b)' \in Nat /\ Pending("remove", b) \in Nat
            BY <1>1, <2>1, PendingStep
        <3> QED  BY <3>1, <3>2
    <2>4. /\ counters' = [counters EXCEPT ![h] = Raised(counters[h])]
          /\ clipped' = IF counters[h] = MaxCount THEN clipped \cup {h} ELSE clipped
        BY <1>4 DEF InsertCell
    <2>5. CASE b # h
        <3>1. counters'[b] = counters[b] /\ (b \in clipped => b \in clipped')
            BY <2>4, <2>5 DEF BloomTypeOK
        <3> HIDE DEF h
        <3> QED  BY <1>2, <2>2, <2>3, <2>5, <3>1 DEF Covered
    <2>6. CASE b = h /\ counters[h] = MaxCount
        <3>1. counters'[b] = MaxCount /\ b \in clipped'
            BY <2>4, <2>6 DEF BloomTypeOK, Raised
        <3> QED  BY <3>1 DEF Covered
    <2>7. CASE b = h /\ counters[h] # MaxCount
        <3>1. counters'[b] = counters[b] + 1
            BY <2>4, <2>7 DEF BloomTypeOK, Raised
        <3> HIDE DEF h
        <3> QED  BY <1>2, <1>3, <2>2, <2>3, <2>7, <3>1 DEF Covered
    <2> QED  BY <2>5, <2>6, <2>7
<1>5. CASE RemoveCell(t)
    <2>1. /\ Cardinality(Own(op', t, "remove", b)) = Cardinality(Own(op, t, "remove", b)) - less
          /\ Own(op, t, "insert", b) = {} /\ Own(op', t, "insert", b) = {}
          /\ \A u \in Threads \ {t} : op'[u] = op[u]
        BY <1>5, CellStep DEF RemoveCell
    <2>2. Pending("remove", b)' = Pending("remove", b) - less /\ Pending("remove", b) \in Nat
        BY <1>1, <2>1, PendingStep
    <2>3. Pending("insert", b)' = Pending("insert", b) /\ Pending("insert", b) \in Nat
        <3>1. Cardinality(Own(op, t, "insert", b)) = 0 /\ Cardinality(Own(op', t, "insert", b)) = 0
            BY <2>1, FS_EmptySet
        <3>2. /\ Pending("insert", b)' - Cardinality(Own(op', t, "insert", b))
                    = Pending("insert", b) - Cardinality(Own(op, t, "insert", b))
              /\ Pending("insert", b)' \in Nat /\ Pending("insert", b) \in Nat
            BY <1>1, <2>1, PendingStep
        <3> QED  BY <3>1, <3>2
    <2>4. /\ counters' = [counters EXCEPT ![h] = Lowered(counters[h])]
          /\ clipped' = clipped /\ h \notin clipped
        BY <1>5 DEF RemoveCell
    <2>5. CASE b # h
        <3>1. counters'[b] = counters[b]
            BY <2>4, <2>5 DEF BloomTypeOK
        <3> HIDE DEF h
        <3> QED  BY <1>2, <2>2, <2>3, <2>4, <2>5, <3>1 DEF Covered
    <2>6. CASE b = h
        <3>1. counters'[b] = Lowered(counters[b])
            BY <2>4, <2>6 DEF BloomTypeOK
        <3>2. counters[b] + Pending("insert", b) >= Needed(b) + Pending("remove", b)
            BY <2>4, <2>6 DEF Covered
        <3> HIDE DEF h
        <3> QED  BY <1>2, <1>3, <2>2, <2>3, <2>6, <3>1, <3>2 DEF Covered, Lowered
    <2> QED  BY <2>5, <2>6
<1> QED  BY <1>4, <1>5

LEMMA NothingPending ==
    ASSUME NEW kind, \A t \in Threads : ~Doing(t, kind), NEW b
    PROVE  Pending(kind, b) = 0
<1>1. UNION {Todo(t, b) : t \in {u \in Threads : Doing(u, kind)}} = {}
    OBVIOUS
<1> QED  BY <1>1, FS_EmptySet DEF Pending

LEMMA CoversStep ==
    ASSUME BloomTypeOK, BloomTypeOK', Covers, [BloomNext]_bloom_vars
    PROVE  Covers'
<1> SUFFICES ASSUME ~lossy', NEW b \in Buckets
             PROVE  Covered(b)'
    BY DEF Covers
<1>1. ASSUME NEW t \in Threads, NEW hash \in Hashes, LookupContent(t, hash)
      PROVE  Covered(b)'
    <2>1. Covered(b) /\ op[t] = Idle
        BY <1>1 DEF LookupContent, Covers
    <2>2. Indexes[hash] \in Seq(Buckets) /\ Set(t, "probe", hash, Indexes[hash])
        BY <1>1, IndexType DEF LookupContent
    <2>3. (\A u \in Threads \ {t} : op'[u] = op[u]) /\ op'[t].kind = "probe"
        BY <2>2, SetType
    <2> QED  BY <1>1, <2>1, <2>3, QuietStep DEF LookupContent
<1>2. ASSUME NEW t \in Threads, MightContain(t)
      PROVE  Covered(b)'
    <2>1. Covered(b) /\ op[t] # Idle /\ op[t].kind = "probe" /\ op[t].hash \in Hashes /\ op[t].todo # <<>>
        BY <1>2, DoingOp DEF MightContain, Covers
    <2>2. (\A u \in Threads \ {t} : op'[u] = op[u]) /\ op'[t].kind \in {"probe", "miss"}
        BY <1>2, <2>1, EmptySeq, SetType, StepType DEF MightContain
    <2> QED  BY <1>2, <2>1, <2>2, QuietStep DEF MightContain
<1>3. ASSUME NEW t \in Threads, ReadStore(t)
      PROVE  Covered(b)'
    <2>1. Covered(b) /\ op[t].kind = "probe" /\ op[t].hash \in Hashes
        BY <1>3, DoingOp DEF ReadStore, Covers
    <2>2. (\A u \in Threads \ {t} : op'[u] = op[u]) /\ (op'[t] = Idle \/ op'[t].kind = "miss")
        BY <1>3, <2>1, EmptySeq, SetType, DoneType DEF ReadStore
    <2> QED  BY <1>3, <2>1, <2>2, QuietStep DEF ReadStore
<1>4. ASSUME NEW t \in Threads, RegisterContent(t)
      PROVE  Covered(b)'
    <2>1. Covered(b) /\ op[t].kind = "miss" /\ op[t].hash \in Hashes
        BY <1>4, DoingOp DEF RegisterContent, Covers
    <2>2. CASE next_segment > MaxStored
        <3>1. (\A u \in Threads \ {t} : op'[u] = op[u]) /\ op'[t] = Idle
            BY <1>4, <2>2, DoneType DEF RegisterContent
        <3> QED  BY <1>4, <2>1, <2>2, <3>1, QuietStep DEF RegisterContent
    <2>3. CASE ~(next_segment > MaxStored)
        <3> DEFINE hash == op[t].hash
        <3>1. Set(t, "insert", hash, Indexes[hash]) /\ UNCHANGED <<counters, clipped>>
            BY <1>4, <2>3 DEF RegisterContent
        <3>2. DOMAIN content_store' = DOMAIN content_store \cup {hash}
            BY <1>4, <2>3 DEF RegisterContent, Put
        <3> HIDE DEF hash
        <3>3. hash \in Hashes
            BY <2>1 DEF hash
        <3> QED  BY <2>1, <3>1, <3>2, <3>3, BeginStep
    <2> QED  BY <2>2, <2>3
<1>5. ASSUME NEW t \in Threads, InsertCell(t) \/ RemoveCell(t)
      PROVE  Covered(b)'
    <2>1. Covered(b)
        BY <1>5 DEF InsertCell, RemoveCell, Covers
    <2> QED  BY <1>5, <2>1, UpdateStep
<1>6. ASSUME NEW t \in Threads, NEW hash \in Hashes, NEW seg \in 1 .. MaxStored,
             DeregisterContent(t, hash, seg)
      PROVE  Covered(b)'
    <2>1. Covered(b) /\ op[t] = Idle
        BY <1>6 DEF DeregisterContent, Covers
    <2>2. CASE IsEntry(hash, seg)
        <3>1. Set(t, "remove", hash, Indexes[hash]) /\ UNCHANGED <<counters, clipped>>
            BY <1>6, <2>2 DEF DeregisterContent
        <3>2. hash \in DOMAIN content_store /\ DOMAIN content_store' = DOMAIN content_store \ {hash}
            BY <1>6, <2>2 DEF DeregisterContent, IsEntry, Drop
        <3> QED  BY <2>1, <3>1, <3>2, BeginStep
    <2>3. CASE ~IsEntry(hash, seg)
        <3>1. UNCHANGED <<content_store, op, counters, clipped>>
            BY <1>6, <2>3 DEF DeregisterContent
        <3> QED  BY <2>1, <3>1, QuietStep
    <2> QED  BY <2>2, <2>3
<1>7. CASE UNCHANGED bloom_vars
    <2>1. Covered(b)
        BY <1>7 DEF bloom_vars, Covers
    <2> QED  BY <1>7, <2>1 DEF bloom_vars, Covered, Pending, Needed, Todo, Doing
<1>8. CASE Reopen
    <2>1. \A t \in Threads : \A kind : ~Doing(t, kind)' 
        BY <1>8 DEF Reopen, Doing
    <2>2. \A kind : Pending(kind, b)' = 0
        <3>1. \A kind : UNION {Todo(t, b)' : t \in {u \in Threads : Doing(u, kind)'}} = {}
            BY <2>1
        <3> QED  BY <3>1, FS_EmptySet DEF Pending
    <2>3. Needed(b)' = Needed(b) /\ Needed(b) \in Nat
        BY <1>8, NeededType DEF Reopen, Needed
    <2>4. /\ counters'[b] = (IF Needed(b) > MaxCount THEN MaxCount ELSE Needed(b))
          /\ b \in clipped' <=> Needed(b) > MaxCount
        BY <1>8 DEF Reopen
    <2>5. Pending("insert", b)' = 0 /\ Pending("remove", b)' = 0
        BY <2>2
    <2> QED  BY <2>3, <2>4, <2>5, BloomAssumption DEF Covered
<1> QED  BY <1>1, <1>2, <1>3, <1>4, <1>5, <1>6, <1>7, <1>8 DEF BloomNext

LEMMA CoversGives ==
    ASSUME BloomTypeOK, Covers
    PROVE  NoFalseNegatives
<1> SUFFICES ASSUME ~lossy
             PROVE  /\ \A b \in Buckets : Covered(b)
                    /\ (\A t \in Threads : ~Doing(t, "insert") /\ ~Doing(t, "remove")) =>
                        \A hash \in DOMAIN content_store : \A i \in DOMAIN Indexes[hash] :
                            counters[Indexes[hash][i]] > 0
    BY DEF NoFalseNegatives, Covered
<1>1. \A b \in Buckets : Covered(b)
    BY DEF Covers
<1>2. ASSUME \A t \in Threads : ~Doing(t, "insert") /\ ~Doing(t, "remove"),
             NEW hash \in DOMAIN content_store, NEW i \in DOMAIN Indexes[hash]
      PROVE  counters[Indexes[hash][i]] > 0
    <2> DEFINE b == Indexes[hash][i]
               all == AllUses(b, DOMAIN content_store)
    <2>1. hash \in Hashes /\ b \in Buckets
        <3>1. hash \in Hashes
            BY DEF BloomTypeOK
        <3> QED  BY <3>1, IndexType, ElementOfSeq
    <2>2. Pending("insert", b) = 0 /\ Pending("remove", b) = 0
        BY <1>2, NothingPending
    <2>3. <<hash, i>> \in all
        BY DEF AllUses, Uses
    <2>4. IsFiniteSet(all)
        BY AllUsesFinite DEF BloomTypeOK
    <2>5. Needed(b) # 0
        BY <2>3, <2>4, FS_EmptySet, NeededType
    <2>6. Needed(b) \in Nat /\ counters[b] \in Nat /\ Covered(b)
        BY <1>1, <2>1, NeededType, BloomAssumption DEF BloomTypeOK
    <2> HIDE DEF b
    <2>7. counters[b] > 0
        BY <2>2, <2>5, <2>6, BloomAssumption DEF Covered
    <2> QED  BY <2>7 DEF b
<1> QED  BY <1>1, <1>2

-----------------------------------------------------------------------------
(* The fields keep their types and every counter covers the stored hashes  *)
(* that use it, whatever lookups, registrations and deregistrations of     *)
(* concurrent threads interleave and however often the process restarts.   *)
THEOREM BloomInvariant == BloomSpec => [](BloomTypeOK /\ Covers)
<1>1. ASSUME BloomInit
      PROVE  BloomTypeOK /\ Covers
    <2>1. BloomTypeOK
        BY <1>1, BloomAssumption DEF BloomInit, BloomTypeOK, Empty
    <2>2. ASSUME NEW b \in Buckets
          PROVE  Covered(b)
        <3>1. Pending("insert", b) = 0 /\ Pending("remove", b) = 0
            BY <1>1, NothingPending DEF BloomInit, Doing
        <3>2. AllUses(b, DOMAIN content_store) = {}
            BY <1>1 DEF BloomInit, AllUses, Empty
        <3>3. Needed(b) = 0
            BY <2>1, <3>2, NeededType, FS_EmptySet
        <3> QED  BY <1>1, <3>1, <3>3 DEF Covered, BloomInit
    <2> QED  BY <2>1, <2>2 DEF Covers
<1>2. ASSUME BloomTypeOK, Covers, [BloomNext]_bloom_vars
      PROVE  (BloomTypeOK /\ Covers)'
    BY <1>2, BloomTypeStep, CoversStep
<1> QED  BY <1>1, <1>2, PTL DEF BloomSpec

(* Once no update is in flight, no stored hash is missed by the filter,    *)
(* unless a counter that had stuck at its limit has been lowered.          *)
THEOREM BloomNoFalseNegatives == BloomSpec => []NoFalseNegatives
<1>1. BloomTypeOK /\ Covers => NoFalseNegatives
    BY CoversGives
<1> QED  BY <1>1, BloomInvariant, PTL

-----------------------------------------------------------------------------
(* The mesh.                                                               *)

(* Filter as the recursive function it is.                                 *)
Filtering(f, s, T, n) ==
    f = [i \in 0 .. n |-> IF i = 0 THEN << >>
                          ELSE IF s[i] \in T THEN Append(f[i - 1], s[i]) ELSE f[i - 1]]

(* There is such a function, for every length.                             *)
LEMMA FilteringExists ==
    ASSUME NEW s, NEW T, NEW n \in Nat
    PROVE  \E f : Filtering(f, s, T, n)
<1> DEFINE Bad == {m \in Nat : ~ \E f : Filtering(f, s, T, m)}
<1>1. SUFFICES ASSUME Bad # {}
               PROVE  FALSE
    OBVIOUS
<1>2. Bad \in SUBSET Nat
    OBVIOUS
<1>3. \A m \in Nat : m \notin Bad => \E f : Filtering(f, s, T, m)
    OBVIOUS
<1>4. \A m \in Bad : ~ \E f : Filtering(f, s, T, m)
    OBVIOUS
<1> HIDE DEF Bad
<1>5. PICK m \in Bad : \A k \in Bad : m <= k
    BY <1>1, <1>2, NatMin
<1>6. m \in Nat
    BY <1>2, <1>5
<1>7. CASE m = 0
    <2> DEFINE f == [i \in 0 .. 0 |-> << >>]
    <2>1. Filtering(f, s, T, 0)
        BY DEF Filtering
    <2> QED  BY <2>1, <1>4, <1>5, <1>7
<1>8. CASE m # 0
    <2>1. m - 1 \in Nat /\ m - 1 \notin Bad
        BY <1>5, <1>6, <1>8
    <2>2. PICK g : Filtering(g, s, T, m - 1)
        BY <2>1, <1>3
    <2> DEFINE last == IF s[m] \in T THEN Append(g[m - 1], s[m]) ELSE g[m - 1]
               f == [i \in 0 .. m |-> IF i = m THEN last ELSE g[i]]
    <2>3. \A i \in 0 .. (m - 1) : f[i] = g[i]
        BY <1>6
    <2>4. f[m] = last
        BY <1>6
    <2>5. \A i \in 0 .. (m - 1) :
            g[i] = IF i = 0 THEN << >>
                   ELSE IF s[i] \in T THEN Append(g[i - 1], s[i]) ELSE g[i - 1]
        BY <2>2 DEF Filtering
    <2>6. \A i \in 0 .. m :
            f[i] = IF i = 0 THEN << >>
                   ELSE IF s[i] \in T THEN Append(f[i - 1], s[i]) ELSE f[i - 1]
        <3> TAKE i \in 0 .. m
        <3>1. CASE i = m
            <4>1. f[m - 1] = g[m - 1]
                BY <2>3, <2>1
            <4> QED  BY <3>1, <2>4, <4>1, <1>8
        <3>2. CASE i # m /\ i # 0
            <4>1. i \in 0 .. (m - 1) /\ i - 1 \in 0 .. (m - 1)
                BY <3>2, <1>6
            <4>2. f[i] = g[i] /\ f[i - 1] = g[i - 1]
                BY <4>1, <2>3
            <4> HIDE DEF f, last
            <4> QED  BY <4>1, <4>2, <2>5, <3>2
        <3>3. CASE i # m /\ i = 0
            <4>1. i \in 0 .. (m - 1)
                BY <3>3, <1>6
            <4>2. f[i] = g[i] 
                BY <4>1, <2>3
            <4> HIDE DEF f, last
            <4> QED  BY <4>1, <4>2, <2>5, <3>3
        <3> QED  BY <3>1, <3>2, <3>3
    <2>7. f = [i \in 0 .. m |-> f[i]]
        OBVIOUS
    <2> HIDE DEF f, last
    <2>8. Filtering(f, s, T, m)
        BY <2>6, <2>7 DEF Filtering
    <2> QED  BY <2>8, <1>4, <1>5
<1> QED  BY <1>7, <1>8

(* What is kept: the elements of s in T up to n, each place of s once.     *)
Kept(u, s, T, n) ==
    /\ u \in Seq(T) /\ Len(u) <= n
    /\ \A a \in 1 .. Len(u) : \E j \in 1 .. n : u[a] = s[j]
    /\ \A j \in 1 .. n : s[j] \in T => \E a \in 1 .. Len(u) : u[a] = s[j]
    /\ \A a, b \in 1 .. Len(u) : a # b =>
        \E j, k \in 1 .. n : j # k /\ u[a] = s[j] /\ u[b] = s[k]

LEMMA KeptNone ==
    ASSUME NEW s, NEW T
    PROVE  Kept(<< >>, s, T, 0)
BY DEF Kept

LEMMA KeptMore ==
    ASSUME NEW s, NEW T, NEW n \in Nat, NEW u, Kept(u, s, T, n), s[n + 1] \in T,
           NEW w, w = Append(u, s[n + 1])
    PROVE  Kept(w, s, T, n + 1)
<1> DEFINE x == s[n + 1]
           L == Len(u)
<1>1. u \in Seq(T) /\ L \in Nat /\ L <= n
    BY DEF Kept
<1>2. w \in Seq(T) /\ Len(w) = L + 1 /\ (\A a \in 1 .. L : w[a] = u[a]) /\ w[L + 1] = x
    BY <1>1
<1>3. \A a \in 1 .. L : \E j \in 1 .. n : u[a] = s[j]
    BY DEF Kept
<1>4. \A j \in 1 .. n : s[j] \in T => \E a \in 1 .. L : u[a] = s[j]
    BY DEF Kept
<1>5. \A a, b \in 1 .. L : a # b =>
            \E j, k \in 1 .. n : j # k /\ u[a] = s[j] /\ u[b] = s[k]
    BY DEF Kept
<1>6. x = s[n + 1] /\ n + 1 \in 1 .. n + 1 /\ L + 1 \in 1 .. L + 1
    BY <1>1
<1> HIDE DEF x, L
<1>7. Len(w) <= n + 1
    BY <1>1, <1>2
<1>8. ASSUME NEW a \in 1 .. Len(w)
      PROVE  \E j \in 1 .. n + 1 : w[a] = s[j]
    <2>1. a \in 1 .. L \/ a = L + 1
        BY <1>1, <1>2
    <2> QED  BY <2>1, <1>2, <1>3, <1>6
<1>9. ASSUME NEW j \in 1 .. n + 1, s[j] \in T
      PROVE  \E a \in 1 .. Len(w) : w[a] = s[j]
    <2>1. CASE j = n + 1
        BY <2>1, <1>2, <1>6
    <2>2. CASE j # n + 1
        <3>1. j \in 1 .. n
            BY <2>2
        <3>2. PICK a \in 1 .. L : u[a] = s[j]
            BY <3>1, <1>4, <1>9
        <3>3. a \in 1 .. Len(w) /\ w[a] = s[j]
            BY <3>2, <1>1, <1>2
        <3> QED  BY <3>3
    <2> QED  BY <2>1, <2>2
<1>10. ASSUME NEW a \in 1 .. Len(w), NEW b \in 1 .. Len(w), a # b
       PROVE  \E j, k \in 1 .. n + 1 : j # k /\ w[a] = s[j] /\ w[b] = s[k]
    <2>1. CASE a = L + 1
        <3>1. b \in 1 .. L
            BY <2>1, <1>1, <1>2, <1>10
        <3>2. PICK k \in 1 .. n : u[b] = s[k]
            BY <3>1, <1>3
        <3>3. n + 1 # k /\ w[a] = s[n + 1] /\ w[b] = s[k] /\ k \in 1 .. n + 1
            BY <2>1, <3>1, <3>2, <1>2, <1>6
        <3> QED  BY <3>3, <1>6
    <2>2. CASE b = L + 1
        <3>1. a \in 1 .. L
            BY <2>2, <1>1, <1>2, <1>10
        <3>2. PICK k \in 1 .. n : u[a] = s[k]
            BY <3>1, <1>3
        <3>3. k # n + 1 /\ w[b] = s[n + 1] /\ w[a] = s[k] /\ k \in 1 .. n + 1
            BY <2>2, <3>1, <3>2, <1>2, <1>6
        <3> QED  BY <3>3, <1>6
    <2>3. CASE a # L + 1 /\ b # L + 1
        <3>1. a \in 1 .. L /\ b \in 1 .. L
            BY <2>3, <1>1, <1>2
        <3>2. PICK j \in 1 .. n, k \in 1 .. n : j # k /\ u[a] = s[j] /\ u[b] = s[k]
            BY <3>1, <1>5, <1>10
        <3>3. w[a] = s[j] /\ w[b] = s[k] /\ j \in 1 .. n + 1 /\ k \in 1 .. n + 1
            BY <3>1, <3>2, <1>2
        <3> QED  BY <3>2, <3>3
    <2> QED  BY <2>1, <2>2, <2>3
<1> QED  BY <1>2, <1>7, <1>8, <1>9, <1>10 DEF Kept

LEMMA KeptSame ==
    ASSUME NEW s, NEW T, NEW n \in Nat, NEW u, Kept(u, s, T, n), s[n + 1] \notin T
    PROVE  Kept(u, s, T, n + 1)
<1>1. \A j \in 1 .. n : j \in 1 .. n + 1
    OBVIOUS
<1>2. \A j \in 1 .. n + 1 : j \in 1 .. n \/ j = n + 1
    OBVIOUS
<1>3. u \in Seq(T) /\ Len(u) \in Nat /\ Len(u) <= n
    BY DEF Kept
<1>4. Len(u) <= n + 1
    BY <1>3
<1>5. \A a \in 1 .. Len(u) : \E j \in 1 .. n + 1 : u[a] = s[j]
    BY <1>1 DEF Kept
<1>6. \A j \in 1 .. n + 1 : s[j] \in T => \E a \in 1 .. Len(u) : u[a] = s[j]
    BY <1>2 DEF Kept
<1>7. \A a, b \in 1 .. Len(u) : a # b =>
        \E j, k \in 1 .. n + 1 : j # k /\ u[a] = s[j] /\ u[b] = s[k]
    BY <1>1 DEF Kept
<1> QED  BY <1>3, <1>4, <1>5, <1>6, <1>7 DEF Kept

(* Filter keeps the elements of s that are in T.                           *)
LEMMA FilterKept ==
    ASSUME NEW s, NEW n \in Nat, Len(s) = n, NEW T
    PROVE  Kept(Filter(s, T), s, T, n)
<1> DEFINE P(f) == f = [i \in 0 .. Len(s) |-> IF i = 0 THEN << >>
                          ELSE IF s[i] \in T THEN Append(f[i - 1], s[i]) ELSE f[i - 1]]
           h == CHOOSE f : P(f)
<1>1. \E f : P(f)
    <2>1. PICK f : Filtering(f, s, T, n)
        BY FilteringExists
    <2>2. P(f)
        BY <2>1 DEF Filtering
    <2> QED  BY <2>2
<1>2. P(h)
    <2> HIDE DEF P
    <2> QED  BY <1>1, Zenon
<1>3. Filter(s, T) = h[n]
    BY DEF Filter
<1> HIDE DEF h
<1>4. \A i \in 0 .. n : h[i] = IF i = 0 THEN << >>
                          ELSE IF s[i] \in T THEN Append(h[i - 1], s[i]) ELSE h[i - 1]
    BY <1>2
<1> HIDE DEF P
<1> DEFINE bad == {i \in 0 .. n : ~Kept(h[i], s, T, i)}
<1>5. ASSUME bad # {} PROVE FALSE
    <2>1. bad \in SUBSET Nat
        OBVIOUS
    <2>2. PICK i \in bad : \A j \in bad : i <= j
        BY <2>1, <1>5, NatMin
    <2>3. i \in 0 .. n /\ ~Kept(h[i], s, T, i)
        BY <2>2
    <2>4. i # 0
        BY <2>3, <1>4, KeptNone
    <2>5. i - 1 \in 0 .. n /\ i - 1 \notin bad
        BY <2>2, <2>3, <2>4
    <2> DEFINE m == i - 1
               u == h[m]
    <2>6. Kept(h[m], s, T, m) /\ m \in Nat /\ m + 1 = i
        BY <2>5, <2>3
    <2>7. h[i] = IF s[m + 1] \in T THEN Append(u, s[m + 1]) ELSE u
        BY <1>4, <2>3, <2>4, <2>6
    <2> HIDE DEF m
    <2>8. Kept(u, s, T, m)
        BY <2>6
    <2> HIDE DEF u
    <2>9. CASE s[m + 1] \in T
        <3>1. Kept(h[i], s, T, m + 1)
            BY <2>6, <2>7, <2>8, <2>9, KeptMore
        <3> QED  BY <3>1, <2>3, <2>6
    <2>10. CASE s[m + 1] \notin T
        <3>1. Kept(u, s, T, m + 1)
            BY <2>6, <2>8, <2>10, KeptSame
        <3> QED  BY <3>1, <2>3, <2>6, <2>7, <2>10
    <2> QED  BY <2>9, <2>10
<1>6. n \in 0 .. n
    OBVIOUS
<1>7. Kept(h[n], s, T, n)
    BY <1>5, <1>6
<1> QED  BY <1>3, <1>7

MeshType == [local_zone : ZoneType, nodes : Seq(NodeType)]
NoTwins(mesh) == \A i, j \in DOMAIN mesh.nodes : i # j => mesh.nodes[i].id # mesh.nodes[j].id

LEMMA TakeTwoType ==
    ASSUME NEW T, NEW s \in Seq(T)
    PROVE  LET u == TakeTwo(s)
           IN  /\ u \in Seq(T) /\ Len(u) \in 0 .. 2 /\ Len(u) <= Len(s)
               /\ Len(u) = 0 => s = << >>
               /\ \A i \in 1 .. Len(u) : u[i] = s[i]
<1> DEFINE k == IF Len(s) < 2 THEN Len(s) ELSE 2
<1>1. Len(s) \in Nat /\ k \in 0 .. 2 /\ k <= Len(s) /\ (k = 0 => Len(s) = 0)
    <2>1. Len(s) \in Nat
        OBVIOUS
    <2> DEFINE L == Len(s)
    <2> HIDE DEF L
    <2>2. L \in Nat
        BY <2>1 DEF L
    <2>3. k = IF L < 2 THEN L ELSE 2
        BY DEF L
    <2> HIDE DEF k
    <2>4. k \in 0 .. 2 /\ k <= L /\ (k = 0 => L = 0)
        BY <2>2, <2>3
    <2> QED  BY <2>1, <2>4 DEF L
<1>2. TakeTwo(s) = SubSeq(s, 1, k)
    BY DEF TakeTwo
<1> HIDE DEF k
<1>3. /\ SubSeq(s, 1, k) \in Seq(T) /\ Len(SubSeq(s, 1, k)) = k
      /\ \A i \in 1 .. k : SubSeq(s, 1, k)[i] = s[i]
    BY <1>1
<1>4. Len(s) = 0 => s = << >>
    OBVIOUS
<1> QED  BY <1>1, <1>2, <1>3, <1>4

(* The targets a policy replicates to: in its scope, with room, different. *)
Selected(t, policy, mesh) ==
    /\ t \in Seq(NodeType) /\ Len(t) \in 0 .. 2
    /\ \A a \in 1 .. Len(t) :
        SatisfiesSovereignty(mesh, t[a], policy.sovereignty) /\ t[a].available >= 1
    /\ \A a, b \in 1 .. Len(t) : a # b => t[a] # t[b]

LEMMA TargetsSelected ==
    ASSUME NEW policy, NEW mesh \in MeshType, NoTwins(mesh)
    PROVE  Selected(SelectReplicationTargets(policy, mesh), policy, mesh)
<1> DEFINE near(node) == \/ policy.latency < 2 /\ IsMetroZone(node)
                         \/ policy.latency \in 2 .. 99 /\ IsSameGeoRegion(mesh, node)
                         \/ policy.latency >= 100
           fit == {node \in ToSet(mesh.nodes) :
                    /\ SatisfiesSovereignty(mesh, node, policy.sovereignty)
                    /\ near(node)
                    /\ HasCapacity(node, 1)}
           s == mesh.nodes
           n == Len(s)
           u == Filter(s, fit)
           t == TakeTwo(u)
<1>1. SelectReplicationTargets(policy, mesh) = t
    BY DEF SelectReplicationTargets
<1>2. s \in Seq(NodeType) /\ n \in Nat /\ Len(s) = n /\ DOMAIN s = 1 .. n
    BY DEF MeshType
<1>3. \A x \in fit : /\ SatisfiesSovereignty(mesh, x, policy.sovereignty)
                     /\ x.available >= 1 /\ x \in NodeType
    <2>1. \A x \in ToSet(s) : x \in NodeType
        BY <1>2 DEF ToSet
    <2> QED  BY <2>1 DEF HasCapacity
<1>4. \A j, k \in 1 .. n : j # k => s[j] # s[k]
    BY <1>2 DEF NoTwins
<1> HIDE DEF fit, s, n
<1>5. Kept(u, s, fit, n)
    BY <1>2, FilterKept
<1>6. u \in Seq(fit) /\ \A a, b \in 1 .. Len(u) : a # b => u[a] # u[b]
    BY <1>4, <1>5 DEF Kept
<1> HIDE DEF u
<1>7. /\ t \in Seq(fit) /\ Len(t) \in 0 .. 2 /\ Len(t) <= Len(u)
      /\ \A i \in 1 .. Len(t) : t[i] = u[i]
    BY <1>6, TakeTwoType
<1> HIDE DEF t
<1>8. t \in Seq(NodeType)
    <2>1. fit \subseteq NodeType
        BY <1>3
    <2> QED  BY <2>1, <1>7, SeqMonotonic
<1>9. \A a \in 1 .. Len(t) : t[a] \in fit
    BY <1>7
<1>10. Len(t) \in Nat /\ Len(u) \in Nat
    BY <1>6, <1>7
<1>11. \A a \in 1 .. Len(t) : a \in 1 .. Len(u)
    BY <1>7, <1>10
<1>12. \A a, b \in 1 .. Len(t) : a # b => t[a] # t[b]
    BY <1>6, <1>7, <1>11
<1> QED  BY <1>1, <1>3, <1>7, <1>8, <1>9, <1>12 DEF Selected

(* The node a policy migrates to: in its scope, with room, and of those    *)
(* of least utilization.                                                   *)
Chosen(t, policy, mesh) ==
    /\ t \in Seq(NodeType) /\ Len(t) \in 0 .. 1
    /\ Len(t) = 1 =>
        /\ SatisfiesSovereignty(mesh, t[1], policy.sovereignty)
        /\ \A x \in ToSet(mesh.nodes) :
            /\ SatisfiesSovereignty(mesh, x, policy.sovereignty)
            /\ policy.latency < 2 => IsMetroZone(x)
            /\ HasCapacity(x, 10)
            => Utilization(t[1]) <= Utilization(x)

LEMMA TargetChosen ==
    ASSUME NEW policy, NEW mesh \in MeshType
    PROVE  Chosen(SelectMigrationTarget(policy, mesh), policy, mesh)
<1> DEFINE fit == {node \in ToSet(mesh.nodes) :
                    /\ SatisfiesSovereignty(mesh, node, policy.sovereignty)
                    /\ policy.latency < 2 => IsMetroZone(node)
                    /\ HasCapacity(node, 10)}
           least == {node \in fit : \A other \in fit : Utilization(node) <= Utilization(other)}
           s == mesh.nodes
           n == Len(s)
           u == Filter(s, fit)
           w == Filter(u, least)
           t == SubSeq(w, 1, IF w = << >> THEN 0 ELSE 1)
<1>1. SelectMigrationTarget(policy, mesh) = t
    BY DEF SelectMigrationTarget
<1>2. s \in Seq(NodeType) /\ n \in Nat /\ Len(s) = n /\ DOMAIN s = 1 .. n
    BY DEF MeshType
<1>3. \A x \in fit : SatisfiesSovereignty(mesh, x, policy.sovereignty) /\ x \in NodeType
    <2>1. \A x \in ToSet(s) : x \in NodeType
        BY <1>2 DEF ToSet
    <2> QED  BY <2>1
<1>4. \A x \in ToSet(mesh.nodes) :
            /\ SatisfiesSovereignty(mesh, x, policy.sovereignty)
            /\ policy.latency < 2 => IsMetroZone(x)
            /\ HasCapacity(x, 10)
            => x \in fit
    OBVIOUS
<1>5. \A x \in least : x \in fit /\ \A y \in fit : Utilization(x) <= Utilization(y)
    BY Zenon
<1> HIDE DEF fit, least, s, n
<1>6. Kept(u, s, fit, n)
    BY <1>2, FilterKept
<1>7. u \in Seq(fit) /\ Len(u) \in Nat
    BY <1>6 DEF Kept
<1> HIDE DEF u
<1>8. Kept(w, u, least, Len(u))
    BY <1>7, FilterKept
<1>9. w \in Seq(least)
    BY <1>8 DEF Kept
<1> HIDE DEF w
<1>10. t \in Seq(least) /\ Len(t) \in 0 .. 1
    <2>1. CASE w = << >>
        <3>1. t = << >>
            BY <2>1
        <3> QED  BY <3>1
    <2>2. CASE w # << >>
        <3>1. t = SubSeq(w, 1, 1) /\ 1 <= Len(w)
            BY <2>2, <1>9
        <3>2. SubSeq(w, 1, 1) \in Seq(least) /\ Len(SubSeq(w, 1, 1)) = 1
            BY <3>1, <1>9
        <3> QED  BY <3>1, <3>2
    <2> QED  BY <2>1, <2>2
<1> HIDE DEF t
<1>11. t \in Seq(NodeType)
    <2>1. least \subseteq NodeType
        BY <1>3, <1>5
    <2> QED  BY <2>1, <1>10, SeqMonotonic
<1>12. ASSUME Len(t) = 1 PROVE t[1] \in least
    BY <1>10, <1>12
<1>13. ASSUME Len(t) = 1, NEW x \in ToSet(mesh.nodes),
              SatisfiesSovereignty(mesh, x, policy.sovereignty),
              policy.latency < 2 => IsMetroZone(x), HasCapacity(x, 10)
       PROVE  Utilization(t[1]) <= Utilization(x)
    <2>1. x \in fit
        BY <1>4, <1>13
    <2>2. t[1] \in least
        BY <1>12, <1>13
    <2> QED  BY <2>1, <2>2, <1>5
<1>14. ASSUME Len(t) = 1 PROVE SatisfiesSovereignty(mesh, t[1], policy.sovereignty)
    BY <1>3, <1>5, <1>12, <1>14
<1>15. Chosen(t, policy, mesh)
    BY <1>10, <1>11, <1>13, <1>14 DEF Chosen
<1> QED  BY <1>1, <1>15

(* What PlacementInScope says of one action.                               *)
Placed(call, action) ==
    /\ action.type = "Replicate" =>
        /\ \A t \in ToSet(action.targets) : InScope(call, t) /\ t.available > 0
        /\ Cardinality(ToSet(action.targets)) = Len(action.targets)
        /\ Len(action.targets) \in 1 .. 2
    /\ action.type = "Migrate" =>
        /\ InScope(call, action.destination)
        /\ ~action.transform
        /\ \A n \in ToSet(call.mesh.nodes) :
            InScope(call, n) /\ n.available >= 10 /\ call.policy.latency >= 2
                => Utilization(action.destination) <= Utilization(n)

LEMMA ScopeIsSovereignty ==
    ASSUME NEW call, call.policy \in PolicyType, NEW node
    PROVE  InScope(call, node)
                <=> SatisfiesSovereignty(call.mesh, node, call.policy.sovereignty)
<1>1. call.policy.sovereignty \in {"Local", "Zone", "Global"}
    BY DEF PolicyType
<1> QED  BY <1>1 DEF InScope, SatisfiesSovereignty

LEMMA ReplicatePlaced ==
    ASSUME NEW call, call.policy \in PolicyType, NEW action, action.type = "Replicate",
           Selected(action.targets, call.policy, call.mesh), action.targets # << >>
    PROVE  Placed(call, action)
<1> DEFINE t == action.targets
<1>1. /\ t \in Seq(NodeType) /\ Len(t) \in 0 .. 2
      /\ \A a \in 1 .. Len(t) : SatisfiesSovereignty(call.mesh, t[a], call.policy.sovereignty)
                                /\ t[a].available >= 1
      /\ \A a, b \in 1 .. Len(t) : a # b => t[a] # t[b]
    BY DEF Selected
<1>2. t # << >>
    OBVIOUS
<1> HIDE DEF t
<1>3. DOMAIN t = 1 .. Len(t) /\ Len(t) \in 1 .. 2
    BY <1>1, <1>2
<1>4. ASSUME NEW x \in ToSet(t) PROVE InScope(call, x) /\ x.available > 0
    <2>1. PICK a \in 1 .. Len(t) : x = t[a]
        BY <1>3 DEF ToSet
    <2>2. t[a] \in NodeType
        BY <1>1
    <2>3. x.available \in Nat /\ x.available >= 1
        BY <1>1, <2>1, <2>2 DEF NodeType
    <2>4. InScope(call, x)
        BY <1>1, <2>1, ScopeIsSovereignty
    <2> QED  BY <2>3, <2>4
<1>5. Cardinality(ToSet(t)) = Len(t)
    <2>1. CASE Len(t) = 1
        <3>1. ToSet(t) = {t[1]}
            BY <1>3, <2>1 DEF ToSet
        <3> QED  BY <3>1, <2>1, FS_Singleton
    <2>2. CASE Len(t) = 2
        <3>1. ToSet(t) = {t[1]} \cup {t[2]}
            BY <1>3, <2>2 DEF ToSet
        <3>2. t[1] # t[2]
            BY <1>1, <2>2
        <3> DEFINE S == {t[1]}
                   T == {t[2]}
        <3>3. IsFiniteSet(S) /\ Cardinality(S) = 1 /\ IsFiniteSet(T) /\ Cardinality(T) = 1
            BY FS_Singleton
        <3>4. S \cap T = {}
            BY <3>2
        <3>5. ToSet(t) = S \cup T
            BY <3>1
        <3> HIDE DEF S, T
        <3>6. Cardinality(S \cup T) = Cardinality(S) + Cardinality(T)
            BY <3>3, <3>4, DisjointSum
        <3> QED  BY <3>3, <3>5, <3>6, <2>2
    <2> QED  BY <2>1, <2>2, <1>3
<1> QED  BY <1>3, <1>4, <1>5 DEF Placed, t

LEMMA MigratePlaced ==
    ASSUME NEW call, call.policy \in PolicyType, call.mesh \in MeshType,
           NEW action, action.type = "Migrate",
           NEW t, Chosen(t, call.policy, call.mesh), t # << >>, action.destination = t[1],
           action.transform = RequiresTransformation(call.mesh, t[1], call.policy)
    PROVE  Placed(call, action)
<1>1. Len(t) = 1
    BY DEF Chosen
<1>2. SatisfiesSovereignty(call.mesh, t[1], call.policy.sovereignty)
    BY <1>1 DEF Chosen
<1>3. InScope(call, t[1])
    BY <1>2, ScopeIsSovereignty
<1>4. ~action.transform
    BY <1>2 DEF RequiresTransformation, SatisfiesSovereignty
<1>5. ASSUME NEW n \in ToSet(call.mesh.nodes), InScope(call, n), n.available >= 10,
             call.policy.latency >= 2
      PROVE  Utilization(t[1]) <= Utilization(n)
    <2>1. SatisfiesSovereignty(call.mesh, n, call.policy.sovereignty)
        BY <1>5, ScopeIsSovereignty
    <2>2. ~(call.policy.latency < 2)
        BY <1>5 DEF PolicyType
    <2>3. HasCapacity(n, 10)
        BY <1>5 DEF HasCapacity
    <2> QED  BY <1>1, <2>1, <2>2, <2>3 DEF Chosen
<1>6. action.type # "Replicate"
    OBVIOUS
<1> QED  BY <1>3, <1>4, <1>5, <1>6 DEF Placed

EventTypes == {"NewCapsule", "HeatSpike", "CapacityThreshold", "NodeDegraded", "ViewProjection"}

(* The actions of every compilation are placed in the policy's scope.      *)
LEMMA CompilePlaces ==
    ASSUME NEW event, event.type \in EventTypes, NEW policy \in PolicyType,
           NEW mesh \in MeshType, NoTwins(mesh), NEW call, call = Compile(event, policy, mesh),
           NEW i \in DOMAIN call.actions
    PROVE  Placed(call, call.actions[i])
<1> DEFINE actions == CompileScalingActions(event, policy, mesh)
<1>1. call.actions = actions /\ call.policy = policy /\ call.mesh = mesh
    BY DEF Compile
<1>2. CASE event.type = "NewCapsule"
    <2> DEFINE t == SelectReplicationTargets(policy, mesh)
    <2>1. Selected(t, policy, mesh)
        BY TargetsSelected
    <2>2. actions = CompileReplicationStrategy(event.id, policy, mesh)
        BY <1>2 DEF CompileScalingActions, ValidateSovereignty
    <2>3. t # << >> /\ i = 1 /\ actions[1].type = "Replicate" /\ actions[1].targets = t
        BY <1>1, <2>2 DEF CompileReplicationStrategy
    <2> HIDE DEF t, actions
    <2> QED  BY <1>1, <2>1, <2>3, ReplicatePlaced
<1>3. CASE event.type = "HeatSpike"
    <2> DEFINE t == SelectMigrationTarget(policy, mesh)
    <2>1. Chosen(t, policy, mesh)
        BY TargetChosen
    <2>2. actions = CompileMigrationForHeat(event.id, event.accesses, policy, mesh)
        BY <1>3 DEF CompileScalingActions, ValidateSovereignty
    <2>3. /\ t # << >> /\ i = 1 /\ actions[1].type = "Migrate" /\ actions[1].destination = t[1]
          /\ actions[1].transform = RequiresTransformation(mesh, t[1], policy)
        BY <1>1, <2>2 DEF CompileMigrationForHeat
    <2> HIDE DEF t, actions
    <2> QED  BY <1>1, <2>1, <2>3, MigratePlaced
<1>4. CASE event.type = "CapacityThreshold"
    <2>1. actions = CompileRebalancing(event, mesh)
        BY <1>4 DEF CompileScalingActions, ValidateSovereignty
    <2>2. actions[i].type = "Rebalance"
        BY <1>1, <2>1 DEF CompileRebalancing
    <2> HIDE DEF actions
    <2> QED  BY <1>1, <2>2 DEF Placed
<1>5. CASE event.type = "NodeDegraded"
    <2>1. actions = CompileEvacuation(event)
        BY <1>5 DEF CompileScalingActions, ValidateSovereignty
    <2>2. actions[i].type = "Evacuate"
        BY <1>1, <2>1 DEF CompileEvacuation
    <2> HIDE DEF actions
    <2> QED  BY <1>1, <2>2 DEF Placed
<1>6. CASE event.type = "ViewProjection"
    <2>1. actions = CompileProjection(event.id, policy, mesh)
        BY <1>6 DEF CompileScalingActions, ValidateSovereignty
    <2>2. actions[i].type \in {"Federate", "ShardEC"}
        BY <1>1, <2>1 DEF CompileProjection
    <2> HIDE DEF actions
    <2> QED  BY <1>1, <2>2 DEF Placed
<1> QED  BY <1>2, <1>3, <1>4, <1>5, <1>6 DEF EventTypes

-----------------------------------------------------------------------------
(* Replication.  What a write has sent, has failed to send and has still   *)
(* to send is all of its segments to all of its targets.                   *)

Pairs == Nat \X Nodes
WriteType == [policy : PolicyType, segments : Nat, targets : Seq(Nodes), todo : Seq(Pairs),
              sent : SUBSET Pairs, failed : SUBSET Pairs, cut : BOOLEAN,
              at : {"discover", "mirror", "returned"}]

WriteOK(w, cap, caps, known) ==
    /\ w \in WriteType
    /\ w.cut => cap \notin caps
    /\ ToSet(w.targets) \subseteq known
    /\ w.at # "mirror" => w.todo = << >>
    /\ w.at = "discover" => w.sent = {} /\ w.failed = {}
    /\ w.at # "discover" /\ ~w.cut =>
            w.sent \cup w.failed \cup ToSet(w.todo) = (1 .. w.segments) \X ToSet(w.targets)

WritesInv ==
    /\ IsFiniteSet(peers) /\ peers \subseteq Nodes
    /\ writes \in Seq(WriteType)
    /\ DOMAIN capsules \subseteq 1 .. Len(writes)
    /\ \A cap \in 1 .. Len(writes) : WriteOK(writes[cap], cap, DOMAIN capsules, peers)

(* A write goes on; nothing else changes.                                  *)
Replaced(new, old, cap, w) == new = [old EXCEPT ![cap] = w]

LEMMA WriteGoesOn ==
    ASSUME WritesInv, NEW cap \in DOMAIN writes, NEW w,
           WriteOK(w, cap, DOMAIN capsules, peers), Replaced(writes', writes, cap, w),
           UNCHANGED <<peers, capsules>>
    PROVE  WritesInv'
<1>1. writes \in Seq(WriteType) /\ w \in WriteType /\ DOMAIN writes = 1 .. Len(writes)
    BY DEF WritesInv, WriteOK
<1>2. /\ writes' \in Seq(WriteType) /\ Len(writes') = Len(writes)
      /\ \A c \in 1 .. Len(writes) : writes'[c] = IF c = cap THEN w ELSE writes[c]
    BY <1>1 DEF Replaced
<1>3. ASSUME NEW c \in 1 .. Len(writes) PROVE WriteOK(writes'[c], c, DOMAIN capsules, peers)
    <2>1. CASE c = cap
        BY <2>1, <1>2
    <2>2. CASE c # cap
        <3>1. writes'[c] = writes[c]
            BY <2>2, <1>2
        <3>2. WriteOK(writes[c], c, DOMAIN capsules, peers)
            BY DEF WritesInv
        <3> QED  BY <3>1, <3>2
    <2> QED  BY <2>1, <2>2
<1>4. IsFiniteSet(peers) /\ peers \subseteq Nodes /\ DOMAIN capsules \subseteq 1 .. Len(writes)
    BY DEF WritesInv
<1> QED  BY <1>2, <1>3, <1>4 DEF WritesInv

LEMMA WritesStart ==
    ASSUME WritesInv, NEW n \in Nat, NEW policy \in PolicyType, StartWrite(n, policy)
    PROVE  WritesInv'
<1> DEFINE w == [policy |-> policy, segments |-> n, targets |-> << >>, todo |-> << >>,
                 sent |-> {}, failed |-> {}, cut |-> FALSE,
                 at |-> IF policy.rpo = 0 THEN "discover" ELSE "mirror"]
           L == Len(writes)
<1>1. writes \in Seq(WriteType) /\ L \in Nat
    BY DEF WritesInv
<1>2. w \in WriteType
    <2>1. << >> \in Seq(Nodes) /\ << >> \in Seq(Pairs)
        OBVIOUS
    <2> QED  BY <2>1 DEF WriteType
<1>3. writes' = Append(writes, w) /\ peers' = peers /\ capsules' = Put(capsules, L + 1, n)
    BY DEF StartWrite
<1>4. WriteOK(w, L + 1, DOMAIN capsules', peers)
    <2>1. ToSet(<< >>) = {}
        BY DEF ToSet
    <2>2. (1 .. n) \X {} = {}
        OBVIOUS
    <2>3. w.targets = << >> /\ w.todo = << >> /\ w.sent = {} /\ w.failed = {} /\ w.cut = FALSE
          /\ w.segments = n
        OBVIOUS
    <2> HIDE DEF w
    <2> QED  BY <1>2, <2>1, <2>2, <2>3 DEF WriteOK
<1> HIDE DEF w
<1>5. /\ writes' \in Seq(WriteType) /\ Len(writes') = L + 1
      /\ (\A c \in 1 .. L : writes'[c] = writes[c]) /\ writes'[L + 1] = w
    BY <1>1, <1>2, <1>3
<1>6. DOMAIN capsules' = DOMAIN capsules \cup {L + 1}
    BY <1>3 DEF Put
<1>7. DOMAIN capsules \subseteq 1 .. L /\ IsFiniteSet(peers) /\ peers \subseteq Nodes
    BY DEF WritesInv
<1> HIDE DEF L
<1>8. DOMAIN capsules' \subseteq 1 .. L + 1
    BY <1>1, <1>6, <1>7
<1>9. ASSUME NEW c \in 1 .. L + 1 PROVE WriteOK(writes'[c], c, DOMAIN capsules', peers)
    <2>1. CASE c = L + 1
        BY <2>1, <1>4, <1>5
    <2>2. CASE c # L + 1
        <3>1. c \in 1 .. L
            BY <2>2, <1>1
        <3>2. WriteOK(writes[c], c, DOMAIN capsules, peers)
            BY <3>1 DEF WritesInv, L
        <3>3. c \notin DOMAIN capsules => c \notin DOMAIN capsules'
            BY <2>2, <1>6
        <3>4. writes'[c] = writes[c]
            BY <3>1, <1>5
        <3>5. WriteOK(writes[c], c, DOMAIN capsules', peers)
            BY <3>2, <3>3 DEF WriteOK
        <3> QED  BY <3>4, <3>5
    <2> QED  BY <2>1, <2>2
<1> QED  BY <1>3, <1>5, <1>7, <1>8, <1>9 DEF WritesInv

(* Peers are only added and capsules of known writes only deleted.         *)
LEMMA WritesAround ==
    ASSUME WritesInv, writes' = writes, peers \subseteq peers', peers' \subseteq Nodes,
           IsFiniteSet(peers'), DOMAIN capsules' \subseteq DOMAIN capsules
    PROVE  WritesInv'
<1>1. ASSUME NEW c \in 1 .. Len(writes) PROVE WriteOK(writes[c], c, DOMAIN capsules', peers')
    <2>1. WriteOK(writes[c], c, DOMAIN capsules, peers)
        BY DEF WritesInv
    <2> QED  BY <2>1 DEF WriteOK
<1>2. writes \in Seq(WriteType) /\ DOMAIN capsules \subseteq 1 .. Len(writes)
    BY DEF WritesInv
<1>3. DOMAIN capsules' \subseteq 1 .. Len(writes)
    BY <1>2
<1> QED  BY <1>1, <1>2, <1>3 DEF WritesInv

(* Every peer once, in some order.                                         *)
LEMMA Discovered ==
    ASSUME IsFiniteSet(peers), peers \subseteq Nodes, NEW found \in DiscoverPeers
    PROVE  /\ found \in Seq(Nodes) /\ found \in Seq(peers)
           /\ \A i, j \in DOMAIN found : i # j => found[i] # found[j]
<1> DEFINE n == Cardinality(peers)
<1>1. n \in Nat
    BY FS_CardinalityType
<1>2. found \in [1 .. n -> peers] /\ \A i, j \in 1 .. n : i # j => found[i] # found[j]
    BY DEF DiscoverPeers, SetToSeqs
<1> HIDE DEF n
<1>3. found \in Seq(peers)
    BY <1>1, <1>2
<1> QED  BY <1>2, <1>3

(* All segments to all of at most two targets, in turn.                    *)
Turns(todo, n, targets) ==
    todo = [i \in 1 .. n * Len(targets) |->
              <<((i - 1) \div Len(targets)) + 1, targets[((i - 1) % Len(targets)) + 1]>>]

LEMMA TurnsCover ==
    ASSUME NEW n \in Nat, NEW targets \in Seq(Nodes), Len(targets) \in 0 .. 2, NEW todo,
           Turns(todo, n, targets)
    PROVE  todo \in Seq(Pairs) /\ ToSet(todo) = (1 .. n) \X ToSet(targets)
<1>1. DOMAIN targets = 1 .. Len(targets) /\ \A i \in 1 .. Len(targets) : targets[i] \in Nodes
    OBVIOUS
<1>2. CASE Len(targets) = 0
    <2>1. todo = << >>
        BY <1>2 DEF Turns
    <2>2. ToSet(todo) = {} /\ ToSet(targets) = {}
        BY <1>2, <2>1 DEF ToSet
    <2> QED  BY <2>1, <2>2
<1>3. CASE Len(targets) = 1
    <2>1. DOMAIN todo = 1 .. n /\ \A i \in 1 .. n : todo[i] = <<i, targets[1]>>
        BY <1>3 DEF Turns
    <2>2. todo = [i \in 1 .. n |-> <<i, targets[1]>>]
        BY <1>3 DEF Turns
    <2>3. todo \in Seq(Pairs)
        BY <1>1, <1>3, <2>2 DEF Pairs
    <2>4. ToSet(targets) = {targets[1]}
        BY <1>1, <1>3 DEF ToSet
    <2>5. ToSet(todo) = {<<i, targets[1]>> : i \in 1 .. n}
        BY <2>1 DEF ToSet
    <2>6. {<<i, targets[1]>> : i \in 1 .. n} = (1 .. n) \X {targets[1]}
        OBVIOUS
    <2> QED  BY <2>3, <2>4, <2>5, <2>6
<1>4. CASE Len(targets) = 2
    <2> DEFINE at(i) == <<((i - 1) \div 2) + 1, targets[((i - 1) % 2) + 1]>>
    <2>1. todo = [i \in 1 .. n * 2 |-> at(i)]
        BY <1>4 DEF Turns
    <2>2. ASSUME NEW i \in 1 .. n * 2
          PROVE  ((i - 1) \div 2) + 1 \in 1 .. n /\ ((i - 1) % 2) + 1 \in 1 .. 2
        OBVIOUS
    <2>3. \A i \in 1 .. n * 2 : at(i) \in (1 .. n) \X ToSet(targets) /\ at(i) \in Pairs
        <3> TAKE i \in 1 .. n * 2
        <3> DEFINE a == ((i - 1) \div 2) + 1
                   b == ((i - 1) % 2) + 1
        <3>1. a \in 1 .. n /\ b \in 1 .. 2 /\ at(i) = <<a, targets[b]>>
            BY <2>2
        <3> HIDE DEF a, b, at
        <3>2. targets[b] \in ToSet(targets) /\ targets[b] \in Nodes
            BY <3>1, <1>1, <1>4 DEF ToSet
        <3>3. a \in Nat
            BY <3>1
        <3> QED  BY <3>1, <3>2, <3>3 DEF Pairs
    <2>4. ASSUME NEW a \in 1 .. n, NEW x \in ToSet(targets)
          PROVE  \E i \in 1 .. n * 2 : at(i) = <<a, x>>
        <3>1. PICK b \in 1 .. 2 : x = targets[b]
            BY <1>1, <1>4 DEF ToSet
        <3> DEFINE i == (a - 1) * 2 + b
        <3>2. i \in 1 .. n * 2 /\ ((i - 1) \div 2) + 1 = a /\ ((i - 1) % 2) + 1 = b
            OBVIOUS
        <3> HIDE DEF i
        <3>3. at(i) = <<a, x>>
            BY <3>1, <3>2
        <3> QED  BY <3>2, <3>3
    <2>5. todo \in Seq(Pairs)
        <3>1. n * 2 \in Nat
            OBVIOUS
        <3> HIDE DEF at
        <3> QED  BY <2>1, <2>3, <3>1
    <2>6. \A i \in 1 .. n * 2 : todo[i] = at(i)
        BY <2>1
    <2>7. DOMAIN todo = 1 .. n * 2
        BY <2>1
    <2> HIDE DEF at
    <2>8. ToSet(todo) = {at(i) : i \in 1 .. n * 2}
        BY <2>6, <2>7 DEF ToSet
    <2>9. {at(i) : i \in 1 .. n * 2} \subseteq (1 .. n) \X ToSet(targets)
        BY <2>3
    <2>10. ASSUME NEW p \in (1 .. n) \X ToSet(targets)
           PROVE  p \in {at(i) : i \in 1 .. n * 2}
        <3>1. PICK a \in 1 .. n, x \in ToSet(targets) : p = <<a, x>>
            OBVIOUS
        <3> QED  BY <3>1, <2>4
    <2> QED  BY <2>5, <2>8, <2>9, <2>10
<1>5. Len(targets) = 0 \/ Len(targets) = 1 \/ Len(targets) = 2
    OBVIOUS
<1> QED  BY <1>2, <1>3, <1>4, <1>5

LEMMA WritesSelect ==
    ASSUME WritesInv, NEW cap \in DOMAIN writes, SelectTargets(cap)
    PROVE  WritesInv'
<1> DEFINE v == writes[cap]
           n == v.segments
<1>1. /\ IsFiniteSet(peers) /\ peers \subseteq Nodes /\ writes \in Seq(WriteType)
      /\ DOMAIN writes = 1 .. Len(writes)
      /\ WriteOK(v, cap, DOMAIN capsules, peers)
    BY DEF WritesInv
<1>2. PICK found \in DiscoverPeers :
        writes' = [writes EXCEPT ![cap].at = "mirror", ![cap].targets = TakeTwo(found),
                ![cap].todo = [i \in 1 .. writes[cap].segments * Len(TakeTwo(found)) |->
                    <<((i - 1) \div Len(TakeTwo(found))) + 1,
                      TakeTwo(found)[((i - 1) % Len(TakeTwo(found))) + 1]>>]]
    BY DEF SelectTargets
<1> DEFINE targets == TakeTwo(found)
           todo == [i \in 1 .. n * Len(targets) |->
                     <<((i - 1) \div Len(targets)) + 1, targets[((i - 1) % Len(targets)) + 1]>>]
           w == [v EXCEPT !.at = "mirror", !.targets = targets, !.todo = todo]
<1>3. Replaced(writes', writes, cap, w)
    BY <1>2 DEF Replaced
<1>4. v \in WriteType /\ n \in Nat
    BY <1>1 DEF WriteOK, WriteType
<1>5. found \in Seq(Nodes) /\ found \in Seq(peers)
    BY <1>1, Discovered
<1>6. targets \in Seq(Nodes) /\ targets \in Seq(peers) /\ Len(targets) \in 0 .. 2
    BY <1>5, TakeTwoType
<1>7. Turns(todo, n, targets)
    BY DEF Turns
<1> HIDE DEF targets, todo, n
<1>8. todo \in Seq(Pairs) /\ ToSet(todo) = (1 .. n) \X ToSet(targets)
    BY <1>4, <1>6, <1>7, TurnsCover
<1>9. v.at = "discover" /\ UNCHANGED <<peers, capsules>>
    BY DEF SelectTargets
<1>10. ToSet(targets) \subseteq peers
    BY <1>6 DEF ToSet
<1>11. /\ w \in WriteType
       /\ w.at = "mirror" /\ w.targets = targets /\ w.todo = todo /\ w.sent = v.sent
       /\ w.failed = v.failed /\ w.cut = v.cut /\ w.segments = n
    BY <1>4, <1>6, <1>8 DEF WriteType, n
<1> HIDE DEF w
<1>12. v.sent = {} /\ v.failed = {} /\ (v.cut => cap \notin DOMAIN capsules)
    BY <1>1, <1>9 DEF WriteOK
<1>13. WriteOK(w, cap, DOMAIN capsules, peers)
    BY <1>8, <1>10, <1>11, <1>12 DEF WriteOK
<1> QED  BY <1>3, <1>9, <1>13, WriteGoesOn

(* The next pair is sent or has failed.                                    *)
LEMMA WritesMirror ==
    ASSUME WritesInv, NEW cap \in DOMAIN writes, MirrorSegment(cap)
    PROVE  WritesInv'
<1> DEFINE v == writes[cap]
           pair == Head(v.todo)
           rest == Tail(v.todo)
<1>1. /\ writes \in Seq(WriteType) /\ DOMAIN writes = 1 .. Len(writes)
      /\ WriteOK(v, cap, DOMAIN capsules, peers)
    BY DEF WritesInv
<1>2. v \in WriteType /\ v.todo \in Seq(Pairs)
    BY <1>1 DEF WriteOK, WriteType
<1>3. v.at = "mirror" /\ v.todo # << >> /\ UNCHANGED <<peers, capsules>>
    BY DEF MirrorSegment
<1>4. pair \in Pairs /\ rest \in Seq(Pairs) /\ ToSet(v.todo) = {pair} \cup ToSet(rest)
    <2> DEFINE s == v.todo
    <2>1. s \in Seq(Pairs) /\ s # << >>
        BY <1>2, <1>3
    <2>2. pair = Head(s) /\ rest = Tail(s)
        OBVIOUS
    <2> HIDE DEF s, pair, rest
    <2>3. pair = s[1] /\ 1 \in DOMAIN s /\ DOMAIN s = 1 .. Len(s) /\ Len(s) \in Nat
        BY <2>1, <2>2
    <2>4. /\ rest \in Seq(Pairs) /\ DOMAIN rest = 1 .. Len(s) - 1
          /\ \A i \in 1 .. Len(s) - 1 : rest[i] = s[i + 1]
        BY <2>1, <2>2, <2>3
    <2>5. ASSUME NEW i \in DOMAIN s PROVE s[i] = pair \/ \E j \in DOMAIN rest : rest[j] = s[i]
        <3>1. CASE i = 1
            BY <3>1, <2>3
        <3>2. CASE i # 1
            <4>1. i - 1 \in DOMAIN rest /\ rest[i - 1] = s[i]
                BY <3>2, <2>3, <2>4
            <4> QED  BY <4>1
        <3> QED  BY <3>1, <3>2
    <2>6. ASSUME NEW j \in DOMAIN rest PROVE \E i \in DOMAIN s : s[i] = rest[j]
        <3>1. j + 1 \in DOMAIN s /\ rest[j] = s[j + 1]
            BY <2>3, <2>4
        <3> QED  BY <3>1
    <2>7. ToSet(s) = {pair} \cup ToSet(rest)
        BY <2>3, <2>5, <2>6 DEF ToSet
    <2>8. pair \in Pairs
        BY <2>1, <2>3
    <2> QED  BY <2>4, <2>7, <2>8 DEF s
<1>5. /\ v.cut => cap \notin DOMAIN capsules
      /\ ToSet(v.targets) \subseteq peers
      /\ ~v.cut => v.sent \cup v.failed \cup ToSet(v.todo) = (1 .. v.segments) \X ToSet(v.targets)
    BY <1>1, <1>3 DEF WriteOK
<1> DEFINE w1 == [v EXCEPT !.todo = rest, !.sent = @ \cup {pair}]
           w2 == [v EXCEPT !.todo = rest, !.failed = @ \cup {pair}]
<1>6. Replaced(writes', writes, cap, w1) \/ Replaced(writes', writes, cap, w2)
    BY DEF MirrorSegment, SkipTarget, Replaced
<1> HIDE DEF rest, pair
<1>7. WriteOK(w1, cap, DOMAIN capsules, peers)
    <2>1. /\ w1 \in WriteType
          /\ w1.todo = rest /\ w1.sent = v.sent \cup {pair} /\ w1.failed = v.failed
          /\ w1.cut = v.cut /\ w1.segments = v.segments /\ w1.targets = v.targets
          /\ w1.at = v.at
        BY <1>2, <1>4 DEF WriteType
    <2> HIDE DEF w1
    <2> QED  BY <1>3, <1>4, <1>5, <2>1 DEF WriteOK
<1>8. WriteOK(w2, cap, DOMAIN capsules, peers)
    <2>1. /\ w2 \in WriteType
          /\ w2.todo = rest /\ w2.failed = v.failed \cup {pair} /\ w2.sent = v.sent
          /\ w2.cut = v.cut /\ w2.segments = v.segments /\ w2.targets = v.targets
          /\ w2.at = v.at
        BY <1>2, <1>4 DEF WriteType
    <2> HIDE DEF w2
    <2> QED  BY <1>3, <1>4, <1>5, <2>1 DEF WriteOK
<1> HIDE DEF w1, w2
<1> QED  BY <1>3, <1>6, <1>7, <1>8, WriteGoesOn

LEMMA WritesCut ==
    ASSUME WritesInv, NEW cap \in DOMAIN writes, MirrorReadFails(cap)
    PROVE  WritesInv'
<1> DEFINE v == writes[cap]
           w == [v EXCEPT !.todo = << >>, !.cut = TRUE]
<1>1. writes \in Seq(WriteType) /\ WriteOK(v, cap, DOMAIN capsules, peers)
    BY DEF WritesInv
<1>2. v \in WriteType /\ ToSet(v.targets) \subseteq peers
    BY <1>1 DEF WriteOK
<1>3. Replaced(writes', writes, cap, w)
    BY DEF MirrorReadFails, Replaced
<1>4. v.at = "mirror" /\ cap \notin DOMAIN capsules /\ UNCHANGED <<peers, capsules>>
    BY DEF MirrorReadFails
<1>5. w \in WriteType /\ w.targets = v.targets /\ w.cut = TRUE /\ w.at = v.at
    <2>1. << >> \in Seq(Pairs)
        OBVIOUS
    <2> QED  BY <1>2, <2>1 DEF WriteType
<1> HIDE DEF w
<1>6. WriteOK(w, cap, DOMAIN capsules, peers)
    BY <1>2, <1>4, <1>5 DEF WriteOK
<1> QED  BY <1>3, <1>4, <1>6, WriteGoesOn

LEMMA WritesEmit ==
    ASSUME WritesInv, NEW cap \in DOMAIN writes, EmitTelemetry(cap)
    PROVE  WritesInv'
<1> DEFINE v == writes[cap]
           w == [v EXCEPT !.at = "returned"]
<1>1. writes \in Seq(WriteType) /\ WriteOK(v, cap, DOMAIN capsules, peers)
    BY DEF WritesInv
<1>2. v \in WriteType
    BY <1>1 DEF WriteOK
<1>3. Replaced(writes', writes, cap, w)
    BY DEF EmitTelemetry, Replaced
<1>4. v.at = "mirror" /\ v.todo = << >> /\ UNCHANGED <<peers, capsules>>
    BY DEF EmitTelemetry, ReplicationOver
<1>5. /\ w \in WriteType /\ w.targets = v.targets /\ w.cut = v.cut /\ w.at = "returned"
      /\ w.todo = v.todo /\ w.sent = v.sent /\ w.failed = v.failed /\ w.segments = v.segments
    BY <1>2 DEF WriteType
<1> HIDE DEF w
<1>6. WriteOK(w, cap, DOMAIN capsules, peers)
    BY <1>1, <1>4, <1>5 DEF WriteOK
<1> QED  BY <1>3, <1>4, <1>6, WriteGoesOn

-----------------------------------------------------------------------------
(* The channel.  Sent events are handled, in the agent's hands or queued,  *)
(* in this order.                                                          *)

InHands(a) == IF a \in {None, Stopped} THEN << >> ELSE <<a>>

ChannelInv ==
    /\ emitted \in Seq(EventType) /\ handled \in Seq(EventType) /\ queue \in Seq(EventType)
    /\ agent \in EventType \cup {None, Stopped}
    /\ handled \o InHands(agent) \o queue = emitted

LEMMA InHandsType ==
    ASSUME NEW a \in EventType \cup {None, Stopped}
    PROVE  InHands(a) \in Seq(EventType)
BY DEF InHands

LEMMA ChannelSends ==
    ASSUME ChannelInv, NEW e \in EventType, emitted' = Append(emitted, e),
           queue' = Append(queue, e), UNCHANGED <<handled, agent>>
    PROVE  ChannelInv'
<1> DEFINE a == handled \o InHands(agent)
           q == queue
<1>1. InHands(agent) \in Seq(EventType) /\ handled \in Seq(EventType) /\ q \in Seq(EventType)
    BY InHandsType DEF ChannelInv
<1>2. a \in Seq(EventType)
    BY <1>1
<1>3. a \o q = emitted
    BY DEF ChannelInv
<1>4. InHands(agent)' = InHands(agent)
    BY DEF InHands
<1> HIDE DEF a, q
<1>5. Append(q, e) = q \o <<e>> /\ Append(a \o q, e) = (a \o q) \o <<e>> /\ <<e>> \in Seq(EventType)
    <2>1. a \o q \in Seq(EventType) /\ <<e>> \in Seq(EventType)
        BY <1>1, <1>2
    <2> DEFINE b == a \o q
    <2>2. b \in Seq(EventType)
        BY <2>1
    <2> HIDE DEF b
    <2>3. Append(b, e) = b \o <<e>>
        BY <2>2, AppendIsConcat
    <2>4. Append(q, e) = q \o <<e>>
        BY <1>1, AppendIsConcat
    <2> QED  BY <2>1, <2>3, <2>4 DEF b
<1>6. a \o (q \o <<e>>) = (a \o q) \o <<e>>
    BY <1>1, <1>2, <1>5, ConcatAssociative
<1>7. a \o Append(q, e) = Append(emitted, e)
    BY <1>3, <1>5, <1>6
<1>8. (handled \o InHands(agent) \o queue)' = a \o Append(q, e)
    BY <1>4 DEF a, q
<1>9. emitted' \in Seq(EventType) /\ queue' \in Seq(EventType)
    BY DEF ChannelInv
<1> QED  BY <1>7, <1>8, <1>9 DEF ChannelInv

LEMMA ChannelReceives ==
    ASSUME ChannelInv, Receive
    PROVE  ChannelInv'
<1> DEFINE h == handled
           q == queue
           e == Head(q)
           r == Tail(q)
<1>1. h \in Seq(EventType) /\ q \in Seq(EventType) /\ q # << >>
    BY DEF ChannelInv, Receive
<1>2. e \in EventType /\ r \in Seq(EventType) /\ <<e>> \in Seq(EventType)
    BY <1>1
<1>3. e \notin {None, Stopped}
    BY <1>2, MeshAssumption
<1>4. agent = None /\ agent' = e /\ queue' = r /\ UNCHANGED <<handled, emitted>>
    BY DEF Receive
<1>5. InHands(agent) = << >> /\ InHands(e) = <<e>>
    BY <1>3, <1>4 DEF InHands
<1>6. q = <<e>> \o r
    BY <1>1
<1>7. h \o q = emitted
    <2>1. (h \o << >>) \o q = emitted
        BY <1>5 DEF ChannelInv
    <2>2. h \o << >> = h
        BY <1>1, ConcatEmptySeq
    <2> QED  BY <2>1, <2>2
<1> HIDE DEF h, q, e, r
<1>8. (h \o <<e>>) \o r = h \o (<<e>> \o r)
    BY <1>1, <1>2, ConcatAssociative
<1>9. (h \o <<e>>) \o r = emitted
    BY <1>6, <1>7, <1>8
<1>10. (handled \o InHands(agent) \o queue)' = (h \o <<e>>) \o r
    BY <1>4, <1>5 DEF h
<1> QED  BY <1>2, <1>4, <1>9, <1>10 DEF ChannelInv

LEMMA ChannelStops ==
    ASSUME ChannelInv, StopAgent
    PROVE  ChannelInv'
<1>1. InHands(agent)' = InHands(agent)
    BY DEF StopAgent, InHands
<1>2. UNCHANGED <<handled, queue, emitted>> /\ agent' = Stopped
    BY DEF StopAgent
<1> QED  BY <1>1, <1>2 DEF ChannelInv

LEMMA ChannelHandles ==
    ASSUME ChannelInv, HandleTelemetryEvent
    PROVE  ChannelInv'
<1> DEFINE h == handled
           a == agent
           q == queue
<1>1. h \in Seq(EventType) /\ q \in Seq(EventType) /\ a \in EventType
    BY DEF ChannelInv, HandleTelemetryEvent
<1>2. agent' = None /\ handled' = Append(h, a) /\ UNCHANGED <<queue, emitted>>
    BY DEF HandleTelemetryEvent
<1>3. InHands(agent) = <<a>> /\ InHands(None) = << >>
    BY DEF HandleTelemetryEvent, InHands
<1>4. (h \o <<a>>) \o q = emitted
    BY <1>3 DEF ChannelInv
<1> HIDE DEF h, a, q
<1>5. Append(h, a) = h \o <<a>> /\ Append(h, a) \in Seq(EventType)
    BY <1>1, AppendIsConcat
<1>6. Append(h, a) \o << >> = Append(h, a)
    BY <1>5, ConcatEmptySeq
<1>7. (Append(h, a) \o << >>) \o q = emitted
    BY <1>4, <1>5, <1>6
<1>8. (handled \o InHands(agent) \o queue)' = (Append(h, a) \o << >>) \o q
    BY <1>2, <1>3 DEF q
<1> QED  BY <1>2, <1>5, <1>7, <1>8 DEF ChannelInv

(* A capsule is announced when its write returns, and only then.           *)
EventsInv ==
    \A i \in 1 .. Len(emitted) : emitted[i].type = "NewCapsule" =>
        /\ emitted[i].id \in DOMAIN writes /\ writes[emitted[i].id].at = "returned"
        /\ \A j \in 1 .. Len(emitted) : j # i => emitted[j] # emitted[i]

(* Writes that have returned stay as they are.                             *)
LEMMA EventsStay ==
    ASSUME EventsInv, emitted' = emitted,
           \A c \in DOMAIN writes : writes[c].at = "returned" =>
                c \in DOMAIN writes' /\ writes'[c].at = "returned"
    PROVE  EventsInv'
BY DEF EventsInv

LEMMA EventsGrow ==
    ASSUME EventsInv, emitted \in Seq(EventType), NEW e \in EventType,
           emitted' = Append(emitted, e),
           \A c \in DOMAIN writes : writes[c].at = "returned" =>
                c \in DOMAIN writes' /\ writes'[c].at = "returned",
           e.type = "NewCapsule" => /\ e.id \in DOMAIN writes' /\ writes'[e.id].at = "returned"
                                    /\ e.id \in DOMAIN writes /\ writes[e.id].at # "returned"
    PROVE  EventsInv'
<1> DEFINE L == Len(emitted)
<1>1. L \in Nat
    OBVIOUS
<1>2. /\ Len(emitted') = L + 1 /\ (\A i \in 1 .. L : emitted'[i] = emitted[i])
      /\ emitted'[L + 1] = e
    OBVIOUS
<1>3. \A i \in 1 .. L : emitted[i].type = "NewCapsule" =>
        /\ emitted[i].id \in DOMAIN writes /\ writes[emitted[i].id].at = "returned"
        /\ \A j \in 1 .. L : j # i => emitted[j] # emitted[i]
    BY DEF EventsInv
<1> HIDE DEF L
<1>4. ASSUME NEW i \in 1 .. L, emitted[i] = e PROVE e.type # "NewCapsule"
    BY <1>3, <1>4
<1>5. ASSUME NEW i \in 1 .. L + 1, emitted'[i].type = "NewCapsule"
      PROVE  /\ emitted'[i].id \in DOMAIN writes' /\ writes'[emitted'[i].id].at = "returned"
             /\ \A j \in 1 .. L + 1 : j # i => emitted'[j] # emitted'[i]
    <2>1. CASE i = L + 1
        <3>1. emitted'[i] = e
            BY <2>1, <1>2
        <3>2. ASSUME NEW j \in 1 .. L + 1, j # i PROVE emitted'[j] # e
            <4>1. j \in 1 .. L
                BY <3>2, <2>1, <1>1
            <4> QED  BY <4>1, <1>2, <1>4, <1>5, <3>1
        <3> QED  BY <3>1, <3>2, <1>5
    <2>2. CASE i # L + 1
        <3>1. i \in 1 .. L
            BY <2>2, <1>1
        <3>2. emitted'[i] = emitted[i]
            BY <3>1, <1>2
        <3>3. ASSUME NEW j \in 1 .. L + 1, j # i PROVE emitted'[j] # emitted[i]
            <4>1. CASE j = L + 1
                BY <4>1, <3>1, <3>2, <1>2, <1>4, <1>5
            <4>2. CASE j # L + 1
                <5>1. j \in 1 .. L
                    BY <4>2, <1>1
                <5>2. emitted'[j] = emitted[j]
                    BY <5>1, <1>2
                <5> QED  BY <5>1, <5>2, <3>1, <3>2, <3>3, <1>3, <1>5
            <4> QED  BY <4>1, <4>2
        <3>4. emitted[i].id \in DOMAIN writes /\ writes[emitted[i].id].at = "returned"
            BY <3>1, <3>2, <1>3, <1>5
        <3> QED  BY <3>2, <3>3, <3>4
    <2> QED  BY <2>1, <2>2
<1> QED  BY <1>2, <1>5 DEF EventsInv

-----------------------------------------------------------------------------
(* Projections.  What a projection has not yet done is on its list.        *)

Federated(v, fed) == v.policy.sovereignty # "Local" => v.cap \in fed

ViewOK(v, z, fed, shs) ==
    /\ v = [cap |-> v.cap, policy |-> v.policy, todo |-> v.todo, fallible |-> v.fallible]
    /\ \/ v.todo = << >> /\ <<v.cap, z>> \in shs /\ Federated(v, fed)
       \/ \E shard : /\ v.todo = <<shard>> /\ shard.type = "ShardEC" /\ z \in shard.zones
                     /\ Federated(v, fed)
       \/ \E federate, shard : /\ v.todo = <<federate, shard>> /\ federate.type = "Federate"
                               /\ shard.type = "ShardEC" /\ z \in shard.zones

ViewInv == (view # None => ViewOK(view, zone, federated, shards)) /\ ViewsPlaced

LEMMA ViewsStay ==
    ASSUME ViewInv, UNCHANGED <<zone, views>>, federated \subseteq federated',
           shards \subseteq shards',
           view' = None \/ ViewOK(view', zone, federated', shards')
    PROVE  ViewInv'
BY DEF ViewInv, ViewsPlaced

LEMMA ViewSame ==
    ASSUME ViewInv, UNCHANGED <<zone, views, view, shards>>, federated \subseteq federated'
    PROVE  ViewInv'
<1>1. ASSUME view # None PROVE ViewOK(view, zone, federated', shards)
    <2>1. ViewOK(view, zone, federated, shards)
        BY <1>1 DEF ViewInv
    <2>2. Federated(view, federated) => Federated(view, federated')
        BY DEF Federated
    <2> QED  BY <2>1, <2>2 DEF ViewOK
<1> QED  BY <1>1, ViewsStay

LEMMA ViewBegins ==
    ASSUME ViewInv, NEW cap, NEW policy, NEW fallible, ProjectView(cap, policy, fallible)
    PROVE  ViewInv'
<1> DEFINE mesh == [local_zone |-> zone, nodes |-> << >>]
           event == [type |-> "ViewProjection", id |-> cap]
           actions == CompileScalingActions(event, policy, mesh)
           v == [cap |-> cap, policy |-> policy, todo |-> actions, fallible |-> fallible]
           federate == [type |-> "Federate", id |-> cap, zone |-> zone]
           shard == [type |-> "ShardEC", id |-> cap, zones |-> ZoneIds(mesh)]
<1>1. view' = v \/ view' = None
    BY DEF ProjectView, Compile
<1>2. UNCHANGED <<zone, views, federated, shards>>
    BY DEF ProjectView
<1>3. actions = IF policy.sovereignty = "Local" THEN <<shard>> ELSE <<federate, shard>>
    BY DEF CompileScalingActions, ValidateSovereignty, CompileProjection
<1>4. shard.type = "ShardEC" /\ zone \in shard.zones /\ federate.type = "Federate"
    BY DEF ZoneIds
<1> HIDE DEF shard, federate, actions
<1>5. /\ v.cap = cap /\ v.policy = policy /\ v.todo = actions
      /\ v = [cap |-> v.cap, policy |-> v.policy, todo |-> v.todo, fallible |-> v.fallible]
    OBVIOUS
<1> HIDE DEF v
<1>6. ViewOK(v, zone, federated, shards)
    <2>1. CASE policy.sovereignty = "Local"
        <3>1. v.todo = <<shard>> /\ Federated(v, federated)
            BY <1>3, <1>5, <2>1 DEF Federated
        <3> QED  BY <3>1, <1>4, <1>5 DEF ViewOK
    <2>2. CASE policy.sovereignty # "Local"
        <3>1. v.todo = <<federate, shard>>
            BY <1>3, <1>5, <2>2
        <3> QED  BY <3>1, <1>4, <1>5 DEF ViewOK
    <2> QED  BY <2>1, <2>2
<1> QED  BY <1>1, <1>2, <1>6, ViewsStay

LEMMA NextAction ==
    ASSUME NEW v, v = [cap |-> v.cap, policy |-> v.policy, todo |-> v.todo, fallible |-> v.fallible],
           NEW w, w = [v EXCEPT !.todo = Tail(@)]
    PROVE  w = [cap |-> v.cap, policy |-> v.policy, todo |-> Tail(v.todo), fallible |-> v.fallible]
<1> DEFINE rest == Tail(v.todo)
<1>1. w = [v EXCEPT !.todo = rest]
    OBVIOUS
<1> HIDE DEF rest
<1>2. w = [cap |-> v.cap, policy |-> v.policy, todo |-> rest, fallible |-> v.fallible]
    <2>1. DOMAIN w = {"cap", "policy", "todo", "fallible"} /\ w = [x \in DOMAIN w |-> w[x]]
        BY <1>1
    <2>2. w.cap = v.cap /\ w.policy = v.policy /\ w.todo = rest /\ w.fallible = v.fallible
        BY <1>1
    <2> QED  BY <2>1, <2>2
<1> QED  BY <1>2 DEF rest

LEMMA ViewFederates ==
    ASSUME ViewInv, FederateCapsule
    PROVE  ViewInv'
<1> DEFINE v == view
           w == [v EXCEPT !.todo = Tail(@)]
<1>1. /\ v # None /\ v.todo # << >> /\ Head(v.todo).type = "Federate"
      /\ federated' = federated \cup {v.cap} /\ view' = w
      /\ UNCHANGED <<zone, views, shards>>
    BY DEF FederateCapsule
<1>2. ViewOK(v, zone, federated, shards)
    BY <1>1 DEF ViewInv
<1>3. v = [cap |-> v.cap, policy |-> v.policy, todo |-> v.todo, fallible |-> v.fallible]
    BY <1>2 DEF ViewOK
<1>4. PICK federate, shard : /\ v.todo = <<federate, shard>> /\ shard.type = "ShardEC"
                             /\ zone \in shard.zones
    BY <1>1, <1>2 DEF ViewOK
<1>5. w = [cap |-> v.cap, policy |-> v.policy, todo |-> Tail(v.todo), fallible |-> v.fallible]
    <2>1. w = [v EXCEPT !.todo = Tail(@)]
        OBVIOUS
    <2> HIDE DEF v, w
    <2> QED  BY <1>3, <2>1, NextAction
<1>6. Tail(v.todo) = <<shard>>
    BY <1>4
<1> HIDE DEF w
<1>7. w = [cap |-> w.cap, policy |-> w.policy, todo |-> w.todo, fallible |-> w.fallible]
      /\ w.todo = <<shard>> /\ w.cap = v.cap
    BY <1>5, <1>6
<1>8. Federated(w, federated')
    BY <1>1, <1>7 DEF Federated
<1>9. ViewOK(w, zone, federated', shards')
    BY <1>4, <1>7, <1>8 DEF ViewOK
<1> QED  BY <1>1, <1>9, ViewsStay

LEMMA ViewShards ==
    ASSUME ViewInv, ShardMetadata
    PROVE  ViewInv'
<1> DEFINE v == view
           w == [v EXCEPT !.todo = Tail(@)]
<1>1. /\ v # None /\ v.todo # << >> /\ Head(v.todo).type = "ShardEC"
      /\ UNCHANGED <<zone, views, federated>>
    BY DEF ShardMetadata
<1>2. \/ /\ shards' = shards \cup {<<v.cap, z>> : z \in Head(v.todo).zones} /\ view' = w
      \/ view' = None /\ shards' = shards
    BY DEF ShardMetadata
<1>3. CASE view' = None /\ shards' = shards
    BY <1>1, <1>3, ViewsStay
<1>4. CASE shards' = shards \cup {<<v.cap, z>> : z \in Head(v.todo).zones} /\ view' = w
    <2>1. ViewOK(v, zone, federated, shards)
        BY <1>1 DEF ViewInv
    <2>2. v = [cap |-> v.cap, policy |-> v.policy, todo |-> v.todo, fallible |-> v.fallible]
        BY <2>1 DEF ViewOK
    <2>3. PICK shard : v.todo = <<shard>> /\ zone \in shard.zones /\ Federated(v, federated)
        BY <1>1, <2>1 DEF ViewOK
    <2>4. w = [cap |-> v.cap, policy |-> v.policy, todo |-> Tail(v.todo), fallible |-> v.fallible]
        <3>1. w = [v EXCEPT !.todo = Tail(@)]
            OBVIOUS
        <3> HIDE DEF v, w
        <3> QED  BY <2>2, <3>1, NextAction
    <2>5. Tail(v.todo) = << >> /\ Head(v.todo) = shard
        BY <2>3
    <2> HIDE DEF w
    <2>6. w = [cap |-> w.cap, policy |-> w.policy, todo |-> w.todo, fallible |-> w.fallible]
          /\ w.todo = << >> /\ w.cap = v.cap /\ w.policy = v.policy
        BY <2>4, <2>5
    <2>7. Federated(w, federated')
        BY <1>1, <2>3, <2>6 DEF Federated
    <2>8. <<w.cap, zone>> \in shards'
        BY <1>4, <2>3, <2>5, <2>6
    <2>9. ViewOK(w, zone, federated', shards')
        BY <2>6, <2>7, <2>8 DEF ViewOK
    <2>10. shards \subseteq shards'
        BY <1>4
    <2> QED  BY <1>1, <1>4, <2>9, <2>10, ViewsStay
<1> QED  BY <1>2, <1>3, <1>4

LEMMA ViewHandsOut ==
    ASSUME ViewInv, HandOutView
    PROVE  ViewInv'
<1>1. /\ view # None /\ view.todo = << >> /\ view' = None
      /\ views' = views \cup {[cap |-> view.cap, policy |-> view.policy]}
      /\ UNCHANGED <<zone, federated, shards>>
    BY DEF HandOutView
<1>2. ViewOK(view, zone, federated, shards)
    BY <1>1 DEF ViewInv
<1>3. <<view.cap, zone>> \in shards /\ Federated(view, federated)
    BY <1>1, <1>2 DEF ViewOK
<1>4. ViewsPlaced
    BY DEF ViewInv
<1>5. ViewsPlaced'
    BY <1>1, <1>3, <1>4 DEF ViewsPlaced, Federated
<1> QED  BY <1>1, <1>5 DEF ViewInv

-----------------------------------------------------------------------------
(* Compilations.                                                           *)

CompiledInv == compiled # None => \A i \in DOMAIN compiled.actions :
                    Placed(compiled, compiled.actions[i])

LEMMA CompiledBy ==
    ASSUME NEW event, event.type \in EventTypes, NEW policy \in PolicyType,
           NEW mesh \in MeshType, NoTwins(mesh), compiled' = Compile(event, policy, mesh)
    PROVE  CompiledInv'
<1> DEFINE call == Compile(event, policy, mesh)
<1> HIDE DEF call
<1>1. call = Compile(event, policy, mesh)
    BY DEF call
<1>2. \A i \in DOMAIN call.actions : Placed(call, call.actions[i])
    BY <1>1, CompilePlaces
<1>3. compiled' = call
    BY <1>1
<1> QED  BY <1>2, <1>3 DEF CompiledInv

LEMMA CompiledForEvent ==
    ASSUME ChannelInv, IsFiniteSet(peers), peers \subseteq Nodes, zone \in ZoneType,
           HandleTelemetryEvent
    PROVE  CompiledInv'
<1>1. agent \in EventType
    BY DEF ChannelInv, HandleTelemetryEvent
<1>2. PICK found \in DiscoverPeers :
        compiled' = Compile(agent, PolicyOf(agent), BuildMeshState(found))
    BY DEF HandleTelemetryEvent
<1>3. found \in Seq(Nodes) /\ \A i, j \in DOMAIN found : i # j => found[i] # found[j]
    BY Discovered
<1>4. agent.type \in EventTypes
    BY <1>1 DEF EventType, Telemetry, EventTypes
<1>5. PolicyOf(agent) \in PolicyType
    <2>1. MetroSync \in PolicyType
        BY DEF MetroSync, PolicyType
    <2>2. agent.type = "NewCapsule" => agent.policy \in PolicyType
        BY <1>1 DEF EventType
    <2> QED  BY <2>1, <2>2 DEF PolicyOf
<1> DEFINE mesh == BuildMeshState(found)
           all == [i \in DOMAIN found |->
                      [id |-> found[i], zone |-> zone, available |-> 1000, used |-> 100]]
<1>6. mesh = [local_zone |-> zone, nodes |-> all]
    BY DEF BuildMeshState
<1>7. /\ all \in Seq(NodeType) /\ DOMAIN all = DOMAIN found
      /\ \A i \in DOMAIN found : all[i].id = found[i]
    <2>1. DOMAIN found = 1 .. Len(found) /\ Len(found) \in Nat
        BY <1>3
    <2>2. \A i \in 1 .. Len(found) : all[i] \in NodeType /\ all[i].id = found[i]
        BY <1>3, <2>1 DEF NodeType
    <2>3. DOMAIN all = 1 .. Len(found)
        BY <2>1
    <2>4. all = [i \in 1 .. Len(found) |-> all[i]]
        BY <2>1
    <2> HIDE DEF all
    <2>5. all \in Seq(NodeType)
        BY <2>1, <2>2, <2>4
    <2> QED  BY <2>1, <2>2, <2>3, <2>5
<1> HIDE DEF mesh, all
<1>8. mesh \in MeshType /\ NoTwins(mesh)
    BY <1>3, <1>6, <1>7 DEF MeshType, NoTwins
<1>9. compiled' = Compile(agent, PolicyOf(agent), mesh)
    BY <1>2 DEF mesh
<1> DEFINE policy == PolicyOf(agent)
<1> HIDE DEF policy
<1>10. policy \in PolicyType /\ compiled' = Compile(agent, policy, mesh)
    BY <1>5, <1>9 DEF policy
<1> QED  BY <1>4, <1>8, <1>10, CompiledBy

LEMMA CompiledForOthers ==
    ASSUME CompileScaling
    PROVE  CompiledInv'
<1>1. PICK event \in Calls, policy \in CallPolicies, mesh \in MeshStates :
        compiled' = Compile(event, policy, mesh)
    BY DEF CompileScaling
<1>2. event.type \in EventTypes
    <2>1. event \in Telemetry
        BY MeshAssumption
    <2> QED  BY <2>1 DEF Telemetry, EventTypes
<1>3. policy \in PolicyType /\ mesh \in MeshType /\ NoTwins(mesh)
    BY MeshAssumption DEF MeshType, NoTwins
<1> QED  BY <1>1, <1>2, <1>3, CompiledBy

LEMMA CompiledForView ==
    ASSUME zone \in ZoneType, NEW cap, NEW policy \in Policies, NEW fallible,
           ProjectView(cap, policy, fallible)
    PROVE  CompiledInv'
<1> DEFINE mesh == [local_zone |-> zone, nodes |-> << >>]
           event == [type |-> "ViewProjection", id |-> cap]
<1>1. compiled' = Compile(event, policy, mesh) \/ compiled' = None
    BY DEF ProjectView
<1>2. event.type \in EventTypes
    BY DEF EventTypes
<1>3. mesh \in MeshType /\ NoTwins(mesh)
    <2>1. << >> \in Seq(NodeType)
        OBVIOUS
    <2> QED  BY <2>1 DEF MeshType, NoTwins
<1>4. policy \in PolicyType
    BY MeshAssumption
<1> HIDE DEF mesh, event
<1>5. CASE compiled' = None
    BY <1>5 DEF CompiledInv
<1>6. CASE compiled' = Compile(event, policy, mesh)
    BY <1>2, <1>3, <1>4, <1>6, CompiledBy
<1> QED  BY <1>1, <1>5, <1>6

-----------------------------------------------------------------------------
(* The invariant.                                                          *)

MeshInv ==
    /\ zone \in ZoneType
    /\ WritesInv /\ ChannelInv /\ EventsInv /\ ViewInv /\ CompiledInv

LEMMA MeshStarts ==
    ASSUME MeshInit
    PROVE  MeshInv
<1>1. zone \in ZoneType
    BY MeshAssumption DEF MeshInit
<1>2. WritesInv
    <2>1. writes = << >> /\ capsules = Empty /\ peers = {} /\ IsFiniteSet(peers)
        BY FS_EmptySet DEF MeshInit
    <2>2. writes \in Seq(WriteType) /\ Len(writes) = 0
        BY <2>1
    <2>3. DOMAIN capsules = {}
        BY <2>1 DEF Empty
    <2> QED  BY <2>1, <2>2, <2>3 DEF WritesInv
<1>3. ChannelInv
    <2>1. emitted = << >> /\ handled = << >> /\ queue = << >> /\ agent = None
        BY DEF MeshInit
    <2>2. InHands(None) = << >>
        BY DEF InHands
    <2>3. << >> \o << >> \o << >> = << >>
        OBVIOUS
    <2> QED  BY <2>1, <2>2, <2>3 DEF ChannelInv
<1>4. EventsInv
    BY DEF MeshInit, EventsInv
<1>5. ViewInv /\ CompiledInv
    BY DEF MeshInit, ViewInv, ViewsPlaced, CompiledInv
<1> QED  BY <1>1, <1>2, <1>3, <1>4, <1>5 DEF MeshInv

(* What an action leaves alone.                                            *)
LEMMA WritesUntouched ==
    ASSUME WritesInv, UNCHANGED <<peers, capsules, writes>>
    PROVE  WritesInv'
BY DEF WritesInv

LEMMA ChannelUntouched ==
    ASSUME ChannelInv, UNCHANGED <<queue, agent, emitted, handled>>
    PROVE  ChannelInv'
BY DEF ChannelInv, InHands

LEMMA EventsUntouched ==
    ASSUME EventsInv, UNCHANGED <<emitted, writes>>
    PROVE  EventsInv'
BY EventsStay

LEMMA ViewUntouched ==
    ASSUME ViewInv, UNCHANGED <<zone, view, federated, shards, views>>
    PROVE  ViewInv'
BY ViewSame

LEMMA CompiledNothing ==
    ASSUME compiled' = None
    PROVE  CompiledInv'
BY DEF CompiledInv

LEMMA MeshRegisters ==
    ASSUME MeshInv, NEW node \in Nodes, RegisterPeer(node)
    PROVE  MeshInv'
<1>1. WritesInv /\ ChannelInv /\ EventsInv /\ ViewInv /\ zone \in ZoneType
    BY DEF MeshInv
<1>2. /\ peers' = peers \cup {node} /\ compiled' = None
      /\ UNCHANGED <<zone, capsules, writes, queue, agent, emitted, handled, view,
                     federated, shards, views>>
    BY DEF RegisterPeer, channel, projection
<1>3. IsFiniteSet(peers') /\ peers' \subseteq Nodes
    <2>1. IsFiniteSet(peers) /\ peers \subseteq Nodes
        BY <1>1 DEF WritesInv
    <2>2. IsFiniteSet(peers \cup {node})
        BY <2>1, FS_AddElement
    <2> QED  BY <1>2, <2>1, <2>2
<1>4. WritesInv'
    BY <1>1, <1>2, <1>3, WritesAround
<1>5. ChannelInv' /\ EventsInv' /\ ViewInv' /\ CompiledInv'
    BY <1>1, <1>2, ChannelUntouched, EventsUntouched, ViewUntouched, CompiledNothing
<1> QED  BY <1>1, <1>2, <1>4, <1>5 DEF MeshInv

LEMMA MeshWrites ==
    ASSUME MeshInv, NEW n \in Nat, NEW policy \in Policies, StartWrite(n, policy)
    PROVE  MeshInv'
<1>1. WritesInv /\ ChannelInv /\ EventsInv /\ ViewInv /\ zone \in ZoneType
    BY DEF MeshInv
<1>2. /\ compiled' = None
      /\ UNCHANGED <<zone, peers, queue, agent, emitted, handled, view,
                     federated, shards, views>>
    BY DEF StartWrite, channel, projection
<1>3. policy \in PolicyType
    BY MeshAssumption
<1>4. WritesInv'
    BY <1>1, <1>3, WritesStart
<1>5. EventsInv'
    <2> DEFINE w == [policy |-> policy, segments |-> n, targets |-> << >>, todo |-> << >>,
                     sent |-> {}, failed |-> {}, cut |-> FALSE,
                     at |-> IF policy.rpo = 0 THEN "discover" ELSE "mirror"]
    <2>1. writes' = Append(writes, w)
        BY DEF StartWrite
    <2>2. writes \in Seq(WriteType)
        BY <1>1 DEF WritesInv
    <2> HIDE DEF w
    <2>3. \A c \in DOMAIN writes : c \in DOMAIN writes' /\ writes'[c] = writes[c]
        BY <2>1, <2>2
    <2> QED  BY <1>1, <1>2, <2>3, EventsStay
<1>6. ChannelInv' /\ ViewInv' /\ CompiledInv'
    BY <1>1, <1>2, ChannelUntouched, ViewUntouched, CompiledNothing
<1> QED  BY <1>1, <1>2, <1>4, <1>5, <1>6 DEF MeshInv

(* A write that goes on has not returned.                                  *)
LEMMA EventsGoOn ==
    ASSUME EventsInv, NEW cap \in DOMAIN writes, writes[cap].at # "returned", NEW w,
           Replaced(writes', writes, cap, w), emitted' = emitted
    PROVE  EventsInv'
<1>1. \A c \in DOMAIN writes : c # cap => c \in DOMAIN writes' /\ writes'[c] = writes[c]
    BY DEF Replaced
<1> QED  BY <1>1, EventsStay

LEMMA MeshReplicates ==
    ASSUME MeshInv, NEW cap \in DOMAIN writes,
           SelectTargets(cap) \/ MirrorSegment(cap) \/ MirrorReadFails(cap)
    PROVE  MeshInv'
<1>1. WritesInv /\ ChannelInv /\ EventsInv /\ ViewInv /\ zone \in ZoneType
    BY DEF MeshInv
<1>2. /\ compiled' = None
      /\ UNCHANGED <<zone, queue, agent, emitted, handled, view, federated, shards, views>>
    BY DEF SelectTargets, MirrorSegment, MirrorReadFails, channel, projection
<1>3. WritesInv'
    BY <1>1, WritesSelect, WritesMirror, WritesCut
<1>4. writes[cap].at # "returned"
    BY DEF SelectTargets, MirrorSegment, MirrorReadFails
<1>5. \E w : Replaced(writes', writes, cap, w)
    <2>1. CASE SelectTargets(cap)
        <3>1. PICK found \in DiscoverPeers :
                writes' = [writes EXCEPT ![cap].at = "mirror", ![cap].targets = TakeTwo(found),
                    ![cap].todo = [i \in 1 .. writes[cap].segments * Len(TakeTwo(found)) |->
                        <<((i - 1) \div Len(TakeTwo(found))) + 1,
                          TakeTwo(found)[((i - 1) % Len(TakeTwo(found))) + 1]>>]]
            BY <2>1 DEF SelectTargets
        <3> DEFINE targets == TakeTwo(found)
                   todo == [i \in 1 .. writes[cap].segments * Len(targets) |->
                             <<((i - 1) \div Len(targets)) + 1,
                               targets[((i - 1) % Len(targets)) + 1]>>]
        <3>2. Replaced(writes', writes, cap,
                       [writes[cap] EXCEPT !.at = "mirror", !.targets = targets, !.todo = todo])
            BY <3>1 DEF Replaced
        <3> QED  BY <3>2
    <2>2. CASE MirrorSegment(cap)
        <3> DEFINE pair == Head(writes[cap].todo)
        <3>1. \/ Replaced(writes', writes, cap,
                    [writes[cap] EXCEPT !.todo = Tail(@), !.sent = @ \cup {pair}])
              \/ Replaced(writes', writes, cap, SkipTarget(writes[cap], pair))
            BY <2>2 DEF MirrorSegment, Replaced
        <3> QED  BY <3>1
    <2>3. CASE MirrorReadFails(cap)
        <3>1. Replaced(writes', writes, cap, [writes[cap] EXCEPT !.todo = << >>, !.cut = TRUE])
            BY <2>3 DEF MirrorReadFails, Replaced
        <3> QED  BY <3>1
    <2> QED  BY <2>1, <2>2, <2>3
<1>6. EventsInv'
    BY <1>1, <1>2, <1>4, <1>5, EventsGoOn
<1>7. ChannelInv' /\ ViewInv' /\ CompiledInv'
    BY <1>1, <1>2, ChannelUntouched, ViewUntouched, CompiledNothing
<1> QED  BY <1>1, <1>2, <1>3, <1>6, <1>7 DEF MeshInv

LEMMA MeshAnnounces ==
    ASSUME MeshInv, NEW cap \in DOMAIN writes, EmitTelemetry(cap)
    PROVE  MeshInv'
<1>1. WritesInv /\ ChannelInv /\ EventsInv /\ ViewInv /\ zone \in ZoneType
    BY DEF MeshInv
<1> DEFINE e == NewCapsule(cap)
<1>2. /\ compiled' = None /\ emitted' = Append(emitted, e) /\ queue' = Append(queue, e)
      /\ federated \subseteq federated'
      /\ UNCHANGED <<zone, agent, handled, view, shards, views>>
    BY DEF EmitTelemetry
<1>3. WritesInv'
    BY <1>1, WritesEmit
<1>4. writes \in Seq(WriteType) /\ writes[cap] \in WriteType /\ cap \in Nat
    BY <1>1 DEF WritesInv, WriteOK
<1>5. writes[cap].policy \in PolicyType
    BY <1>4 DEF WriteType
<1>6. e \in EventType /\ e.id = cap
    BY <1>4, <1>5 DEF NewCapsule, EventType
<1>7. writes[cap].at = "mirror" /\ writes' = [writes EXCEPT ![cap].at = "returned"]
    BY DEF EmitTelemetry, ReplicationOver
<1>8. /\ DOMAIN writes' = DOMAIN writes /\ writes'[cap].at = "returned"
      /\ \A c \in DOMAIN writes : c # cap => writes'[c] = writes[c]
    <2>1. writes'[cap] = [writes[cap] EXCEPT !.at = "returned"]
        BY <1>7
    <2>2. [writes[cap] EXCEPT !.at = "returned"].at = "returned"
        BY <1>4 DEF WriteType
    <2> QED  BY <1>7, <2>1, <2>2
<1> HIDE DEF e
<1>9. emitted \in Seq(EventType)
    BY <1>1 DEF ChannelInv
<1>10. \A c \in DOMAIN writes : writes[c].at = "returned" =>
                c \in DOMAIN writes' /\ writes'[c].at = "returned"
    BY <1>8
<1>11. e.id \in DOMAIN writes' /\ writes'[e.id].at = "returned"
       /\ e.id \in DOMAIN writes /\ writes[e.id].at # "returned"
    BY <1>6, <1>7, <1>8
<1>12. EventsInv'
    BY <1>1, <1>2, <1>6, <1>9, <1>10, <1>11, EventsGrow
<1>13. ChannelInv'
    BY <1>1, <1>2, <1>6, ChannelSends
<1>14. ViewInv' /\ CompiledInv'
    BY <1>1, <1>2, ViewSame, CompiledNothing
<1> QED  BY <1>1, <1>2, <1>3, <1>12, <1>13, <1>14 DEF MeshInv

LEMMA MeshDeletes ==
    ASSUME MeshInv, NEW cap, DeleteCapsule(cap)
    PROVE  MeshInv'
<1>1. WritesInv /\ ChannelInv /\ EventsInv /\ ViewInv /\ zone \in ZoneType
    BY DEF MeshInv
<1>2. /\ DOMAIN capsules' \subseteq DOMAIN capsules /\ compiled' = None
      /\ UNCHANGED <<zone, peers, writes, queue, agent, emitted, handled, view,
                     federated, shards, views>>
    BY DEF DeleteCapsule, channel, projection
<1>3. IsFiniteSet(peers) /\ peers \subseteq Nodes
    BY <1>1 DEF WritesInv
<1>4. WritesInv'
    BY <1>1, <1>2, <1>3, WritesAround
<1>5. ChannelInv' /\ EventsInv' /\ ViewInv' /\ CompiledInv'
    BY <1>1, <1>2, ChannelUntouched, EventsUntouched, ViewUntouched, CompiledNothing
<1> QED  BY <1>1, <1>2, <1>4, <1>5 DEF MeshInv

LEMMA MeshHears ==
    ASSUME MeshInv, NEW event \in ExternalEvents, SendTelemetry(event)
    PROVE  MeshInv'
<1>1. WritesInv /\ ChannelInv /\ EventsInv /\ ViewInv /\ zone \in ZoneType
    BY DEF MeshInv
<1>2. /\ emitted' = Append(emitted, event) /\ queue' = Append(queue, event) /\ compiled' = None
      /\ UNCHANGED <<zone, peers, capsules, writes, agent, handled, view,
                     federated, shards, views>>
    BY DEF SendTelemetry, projection
<1>3. event \in EventType /\ event.type # "NewCapsule"
    BY MeshAssumption DEF EventType
<1>4. emitted \in Seq(EventType)
    BY <1>1 DEF ChannelInv
<1>5. EventsInv'
    BY <1>1, <1>2, <1>3, <1>4, EventsGrow
<1>6. ChannelInv'
    BY <1>1, <1>2, <1>3, ChannelSends
<1>7. WritesInv' /\ ViewInv' /\ CompiledInv'
    BY <1>1, <1>2, WritesUntouched, ViewUntouched, CompiledNothing
<1> QED  BY <1>1, <1>2, <1>5, <1>6, <1>7 DEF MeshInv

LEMMA MeshCloses ==
    ASSUME MeshInv, CloseChannel
    PROVE  MeshInv'
<1>1. WritesInv /\ ChannelInv /\ EventsInv /\ ViewInv /\ zone \in ZoneType
    BY DEF MeshInv
<1>2. /\ compiled' = None
      /\ UNCHANGED <<zone, peers, capsules, writes, queue, agent, emitted, handled, view,
                     federated, shards, views>>
    BY DEF CloseChannel, projection
<1>3. WritesInv' /\ ChannelInv' /\ EventsInv' /\ ViewInv' /\ CompiledInv'
    BY <1>1, <1>2, WritesUntouched, ChannelUntouched, EventsUntouched, ViewUntouched,
       CompiledNothing
<1> QED  BY <1>1, <1>2, <1>3 DEF MeshInv

LEMMA MeshAgent ==
    ASSUME MeshInv, AgentNext
    PROVE  MeshInv'
<1>1. WritesInv /\ ChannelInv /\ EventsInv /\ ViewInv /\ zone \in ZoneType
    BY DEF MeshInv
<1>2. UNCHANGED <<zone, peers, capsules, writes, emitted, view, federated, shards, views>>
    BY DEF AgentNext, Receive, StopAgent, HandleTelemetryEvent, ExecuteActions, projection
<1>3. WritesInv' /\ EventsInv' /\ ViewInv'
    BY <1>1, <1>2, WritesUntouched, EventsUntouched, ViewUntouched
<1>4. ChannelInv'
    BY <1>1, ChannelReceives, ChannelStops, ChannelHandles DEF AgentNext
<1>5. CompiledInv'
    <2>1. CASE HandleTelemetryEvent
        <3>1. IsFiniteSet(peers) /\ peers \subseteq Nodes
            BY <1>1 DEF WritesInv
        <3> QED  BY <2>1, <3>1, <1>1, CompiledForEvent
    <2>2. CASE Receive \/ StopAgent
        <3>1. compiled' = None
            BY <2>2 DEF Receive, StopAgent
        <3> QED  BY <3>1, CompiledNothing
    <2> QED  BY <2>1, <2>2 DEF AgentNext
<1> QED  BY <1>1, <1>2, <1>3, <1>4, <1>5 DEF MeshInv

LEMMA MeshCompiles ==
    ASSUME MeshInv, CompileScaling
    PROVE  MeshInv'
<1>1. WritesInv /\ ChannelInv /\ EventsInv /\ ViewInv /\ zone \in ZoneType
    BY DEF MeshInv
<1>2. UNCHANGED <<zone, peers, capsules, writes, queue, agent, emitted, handled, view,
                  federated, shards, views>>
    BY DEF CompileScaling, channel, projection
<1>3. WritesInv' /\ ChannelInv' /\ EventsInv' /\ ViewInv'
    BY <1>1, <1>2, WritesUntouched, ChannelUntouched, EventsUntouched, ViewUntouched
<1>4. CompiledInv'
    BY CompiledForOthers
<1> QED  BY <1>1, <1>2, <1>3, <1>4 DEF MeshInv

LEMMA MeshProjects ==
    ASSUME MeshInv, NEW cap, NEW policy \in Policies, NEW fallible,
           ProjectView(cap, policy, fallible)
    PROVE  MeshInv'
<1>1. WritesInv /\ ChannelInv /\ EventsInv /\ ViewInv /\ zone \in ZoneType
    BY DEF MeshInv
<1>2. UNCHANGED <<zone, peers, capsules, writes, queue, agent, emitted, handled>>
    BY DEF ProjectView, channel
<1>3. WritesInv' /\ ChannelInv' /\ EventsInv'
    BY <1>1, <1>2, WritesUntouched, ChannelUntouched, EventsUntouched
<1>4. ViewInv' /\ CompiledInv'
    BY <1>1, ViewBegins, CompiledForView
<1> QED  BY <1>1, <1>2, <1>3, <1>4 DEF MeshInv

LEMMA MeshViewGoesOn ==
    ASSUME MeshInv, FederateCapsule \/ ShardMetadata \/ HandOutView \/ ProjectionFails
    PROVE  MeshInv'
<1>1. WritesInv /\ ChannelInv /\ EventsInv /\ ViewInv /\ zone \in ZoneType
    BY DEF MeshInv
<1>2. /\ compiled' = None
      /\ UNCHANGED <<zone, peers, capsules, writes, queue, agent, emitted, handled>>
    BY DEF FederateCapsule, ShardMetadata, HandOutView, ProjectionFails, channel
<1>3. WritesInv' /\ ChannelInv' /\ EventsInv' /\ CompiledInv'
    BY <1>1, <1>2, WritesUntouched, ChannelUntouched, EventsUntouched, CompiledNothing
<1>4. ViewInv'
    <2>1. CASE ProjectionFails
        <3>1. view' = None /\ UNCHANGED <<zone, views, federated, shards>>
            BY <2>1 DEF ProjectionFails
        <3> QED  BY <3>1, <1>1, ViewsStay
    <2> QED  BY <2>1, <1>1, ViewFederates, ViewShards, ViewHandsOut
<1> QED  BY <1>1, <1>2, <1>3, <1>4 DEF MeshInv

LEMMA MeshStep ==
    ASSUME MeshInv, MeshNext
    PROVE  MeshInv'
<1>1. ASSUME NEW node \in Nodes, RegisterPeer(node) PROVE MeshInv'
    BY <1>1, MeshRegisters
<1>2. ASSUME NEW n \in 1 .. MaxSegments, NEW policy \in Policies, StartWrite(n, policy)
      PROVE  MeshInv'
    <2>1. n \in Nat
        OBVIOUS
    <2> QED  BY <1>2, <2>1, MeshWrites
<1>3. ASSUME NEW cap \in DOMAIN writes,
             \/ SelectTargets(cap) \/ MirrorSegment(cap)
             \/ MirrorReadFails(cap) \/ EmitTelemetry(cap)
      PROVE  MeshInv'
    BY <1>3, MeshReplicates, MeshAnnounces
<1>4. ASSUME NEW cap \in 1 .. MaxWrites, DeleteCapsule(cap) PROVE MeshInv'
    BY <1>4, MeshDeletes
<1>5. ASSUME NEW event \in ExternalEvents, SendTelemetry(event) PROVE MeshInv'
    BY <1>5, MeshHears
<1>6. ASSUME NEW cap \in 1 .. MaxWrites, NEW policy \in Policies,
             \/ ExportNfsView(cap, policy) \/ ProjectNvmeView(cap, policy)
             \/ CsiProvisionCapsule(cap, policy) \/ MountFuseView(cap, policy)
      PROVE  MeshInv'
    <2>1. ProjectView(cap, policy, TRUE) \/ ProjectView(cap, policy, FALSE)
        BY <1>6 DEF ExportNfsView, ProjectNvmeView, CsiProvisionCapsule, MountFuseView
    <2> QED  BY <2>1, MeshProjects
<1> QED  BY <1>1, <1>2, <1>3, <1>4, <1>5, <1>6, MeshCloses, MeshAgent, MeshCompiles,
            MeshViewGoesOn DEF MeshNext

LEMMA MeshStutters ==
    ASSUME MeshInv, UNCHANGED mesh_vars
    PROVE  MeshInv'
<1>1. WritesInv /\ ChannelInv /\ EventsInv /\ ViewInv /\ CompiledInv /\ zone \in ZoneType
    BY DEF MeshInv
<1>2. UNCHANGED <<zone, peers, capsules, writes, queue, agent, emitted, handled, view,
                  federated, shards, views, compiled>>
    BY DEF mesh_vars
<1>3. WritesInv' /\ ChannelInv' /\ EventsInv' /\ ViewInv'
    BY <1>1, <1>2, WritesUntouched, ChannelUntouched, EventsUntouched, ViewUntouched
<1>4. CompiledInv'
    BY <1>1, <1>2 DEF CompiledInv
<1> QED  BY <1>1, <1>2, <1>3, <1>4 DEF MeshInv

(* The invariant of replication, telemetry, compilation and projection,    *)
(* for all nodes, policies, events and bounds, whichever peers fail and    *)
(* whatever is deleted meanwhile.                                          *)
THEOREM MeshInvariant == MeshSpec => []MeshInv
<1>1. MeshInit => MeshInv
    BY MeshStarts
<1>2. MeshInv /\ [MeshNext]_mesh_vars => MeshInv'
    BY MeshStep, MeshStutters
<1> QED  BY <1>1, <1>2, PTL DEF MeshSpec

(* compile_scaling places data only in the scope of its policy, at most    *)
(* twice, and migrates to the least used node that is allowed, for every   *)
(* event, policy and snapshot of a mesh of any size.                       *)
THEOREM MeshPlacement == MeshSpec => []PlacementInScope
<1>1. MeshInv => PlacementInScope
    BY DEF MeshInv, CompiledInv, PlacementInScope, Placed
<1> QED  BY <1>1, MeshInvariant, PTL

(* A zero-RPO write has offered each segment to each target when it        *)
(* returns, whichever peers failed, unless its capsule was deleted.        *)
THEOREM MeshTargetsTried == MeshSpec => []EveryTargetTried
<1>1. ASSUME MeshInv PROVE EveryTargetTried
    <2>1. WritesInv
        BY <1>1 DEF MeshInv
    <2>2. DOMAIN writes = 1 .. Len(writes)
        BY <2>1 DEF WritesInv
    <2>3. ASSUME NEW cap \in DOMAIN writes
          PROVE  /\ writes[cap].at = "returned" /\ writes[cap].policy.rpo = 0 /\ ~writes[cap].cut =>
                        writes[cap].sent \cup writes[cap].failed
                            = Segments(cap) \X ToSet(writes[cap].targets)
                 /\ writes[cap].cut => cap \notin DOMAIN capsules
                 /\ ToSet(writes[cap].targets) \subseteq peers
        <3> DEFINE w == writes[cap]
        <3>1. WriteOK(w, cap, DOMAIN capsules, peers)
            BY <2>1, <2>2 DEF WritesInv
        <3>2. Segments(cap) = 1 .. w.segments
            BY DEF Segments
        <3>3. ToSet(<< >>) = {}
            BY DEF ToSet
        <3> HIDE DEF w
        <3>4. w.at = "returned" /\ ~w.cut =>
                    w.sent \cup w.failed = (1 .. w.segments) \X ToSet(w.targets)
            BY <3>1, <3>3 DEF WriteOK
        <3>5. (w.cut => cap \notin DOMAIN capsules) /\ ToSet(w.targets) \subseteq peers
            BY <3>1 DEF WriteOK
        <3> QED  BY <3>2, <3>4, <3>5 DEF w
    <2> QED  BY <2>3 DEF EveryTargetTried
<1> QED  BY <1>1, MeshInvariant, PTL

(* The agent gets every event once and in order, and hears of a capsule    *)
(* after its replication.                                                  *)
THEOREM MeshAnnounced == MeshSpec => []AnnouncedAfterReplication
<1>1. ASSUME MeshInv PROVE AnnouncedAfterReplication
    <2>1. ChannelInv /\ EventsInv /\ WritesInv
        BY <1>1 DEF MeshInv
    <2>2. handled \o (IF agent \in {None, Stopped} THEN << >> ELSE <<agent>>) \o queue = emitted
        BY <2>1 DEF ChannelInv, InHands
    <2>3. DOMAIN emitted = 1 .. Len(emitted) /\ DOMAIN writes = 1 .. Len(writes)
        BY <2>1 DEF ChannelInv, WritesInv
    <2>4. \A cap \in DOMAIN writes : writes[cap].at = "returned" => writes[cap].todo = << >>
        BY <2>1, <2>3 DEF WritesInv, WriteOK
    <2>5. ASSUME NEW i \in DOMAIN emitted, emitted[i].type = "NewCapsule"
          PROVE  /\ writes[emitted[i].id].todo = << >>
                 /\ \A j \in DOMAIN emitted : j # i => emitted[j] # emitted[i]
        BY <2>1, <2>3, <2>4, <2>5 DEF EventsInv
    <2> QED  BY <2>2, <2>5 DEF AnnouncedAfterReplication
<1> QED  BY <1>1, MeshInvariant, PTL

(* A view handed out has its capsule's metadata in this zone and, unless   *)
(* Local, federated, whatever was deleted or failed on the way.            *)
THEOREM MeshViewsPlaced == MeshSpec => []ViewsPlaced
<1>1. MeshInv => ViewsPlaced
    BY DEF MeshInv, ViewInv
<1> QED  BY <1>1, MeshInvariant, PTL

-----------------------------------------------------------------------------
(* The NFS view.                                                           *)

NfsPcs == {"idle", "store", "insert", "reclaim", "persist"}
NfsJob == [pc : NfsPcs, path : Seq(Names), parent : Seq(Names),
           new : 0 .. MaxCapsules, drop : 0 .. MaxCapsules]
IsMap(m) == m = [p \in DOMAIN m |-> m[p]]
Namespace(m) == NodeMap(m) /\ IsMap(m)

NfsTyped ==
    /\ usage \in Usages
    /\ Namespace(nodes) /\ Namespace(namespace_file)
    /\ stored \subseteq 1 .. (next_capsule - 1)
    /\ next_capsule \in 1 .. (MaxCapsules + 1)
    /\ job \in [Callers -> NfsJob]
    /\ \A t \in Callers : job[t].pc = "insert" => job[t].new # NoCapsule
    /\ fails \in 0 .. usage.fails /\ crashes \in 0 .. usage.crashes

(* The capsule a call has stored and not yet put into the namespace, or    *)
(* taken out of it and not yet deleted.                                    *)
HeldBy(j) ==
    IF j.pc = "insert" THEN j.new
    ELSE IF j.pc = "reclaim" THEN j.drop
    ELSE NoCapsule

Hands == [t \in Callers |-> HeldBy(job[t])]

(* A capsule that is live has one owner: an entry or a call.               *)
Owns(m, live, h) ==
    /\ \A p \in DOMAIN m : m[p] \in live \cup {Directory}
    /\ \A p, q \in DOMAIN m : p # q => m[p] # m[q] \/ m[p] = Directory
    /\ \A t \in Callers : h[t] # NoCapsule => h[t] \in live /\ \A p \in DOMAIN m : m[p] # h[t]
    /\ \A t, u \in Callers : t # u => h[t] # h[u] \/ h[t] = NoCapsule

NfsOwned == crashes = usage.crashes => Owns(nodes, stored, Hands)

SavedReadable ==
    \A p \in DOMAIN namespace_file :
        \/ namespace_file[p] \in stored \cup {Directory}
        \/ \E t \in Callers : At(t, "persist") /\ job[t].drop = namespace_file[p]

SavedBacked == crashes = usage.crashes /\ fails = usage.fails => SavedReadable

(* Every capsule is in the namespace or in the hands of a call.            *)
Held(m, live, h) ==
    \A c \in live : (\E p \in DOMAIN m : m[p] = c) \/ \E t \in Callers : h[t] = c

AllHeld ==
    fails = usage.fails /\ crashes = usage.crashes /\ usage.parts = 1 =>
        Held(nodes, stored, Hands)

AtRoot == usage.parts <= 1 => \A t \in Callers : job[t].parent = Root

Tree(m) == IsDirectory(m, Root) /\ \A p \in DOMAIN m : p # Root => IsDirectory(m, Front(p))
Short(m) == \A p \in DOMAIN m : Len(p) <= 1

Serial == usage.serial => \A t, u \in Callers : t # u => At(t, "idle") \/ At(u, "idle")

(* What a write has found out about its path.                              *)
PathOK(m, j) ==
    j.pc \in {"store", "insert"} =>
        /\ j.path # Root /\ j.parent = Front(j.path)
        /\ usage.parts <= 1 => Len(j.path) <= 1
        /\ usage.serial => ~IsDirectory(m, j.path)

Shaped(m) == Tree(m) /\ (usage.parts <= 1 => Short(m))

TreeInv ==
    /\ Shaped(nodes) /\ Shaped(EnsureRootNode(namespace_file))
    /\ Serial
    /\ \A t \in Callers : PathOK(nodes, job[t])

Saved ==
    fails = usage.fails =>
        \/ EnsureRootNode(namespace_file) = nodes
        \/ \E t \in Callers : job[t].pc \in {"reclaim", "persist"}

-----------------------------------------------------------------------------
(* Paths.  NormalizePath as the recursive function it is.                  *)
Walked(c, x) ==
    IF x # ParentDir THEN Append(c, x) ELSE IF c = << >> THEN << >> ELSE Front(c)

Walk(f, arg, n) ==
    f = [i \in 0 .. n |-> IF i = 0 THEN << >> ELSE Walked(f[i - 1], arg[i])]

LEMMA WalkExists ==
    ASSUME NEW arg, NEW n \in Nat
    PROVE  \E f : Walk(f, arg, n)
<1> DEFINE Bad == {m \in Nat : ~ \E f : Walk(f, arg, m)}
<1>1. SUFFICES ASSUME Bad # {}
               PROVE  FALSE
    OBVIOUS
<1>2. Bad \in SUBSET Nat
    OBVIOUS
<1>3. \A m \in Nat : m \notin Bad => \E f : Walk(f, arg, m)
    OBVIOUS
<1>4. \A m \in Bad : ~ \E f : Walk(f, arg, m)
    OBVIOUS
<1> HIDE DEF Bad
<1>5. PICK m \in Bad : \A k \in Bad : m <= k
    BY <1>1, <1>2, NatMin
<1>6. m \in Nat
    BY <1>2, <1>5
<1>7. CASE m = 0
    <2> DEFINE f == [i \in 0 .. 0 |-> << >>]
    <2>1. Walk(f, arg, 0)
        BY DEF Walk
    <2> QED  BY <2>1, <1>4, <1>5, <1>7
<1>8. CASE m # 0
    <2>1. m - 1 \in Nat /\ m - 1 \notin Bad
        BY <1>5, <1>6, <1>8
    <2>2. PICK g : Walk(g, arg, m - 1)
        BY <2>1, <1>3
    <2> DEFINE last == Walked(g[m - 1], arg[m])
               f == [i \in 0 .. m |-> IF i = m THEN last ELSE g[i]]
    <2>3. \A i \in 0 .. (m - 1) : f[i] = g[i]
        BY <1>6
    <2>4. f[m] = last
        BY <1>6
    <2>5. \A i \in 0 .. (m - 1) : g[i] = IF i = 0 THEN << >> ELSE Walked(g[i - 1], arg[i])
        BY <2>2 DEF Walk
    <2>6. \A i \in 0 .. m : f[i] = IF i = 0 THEN << >> ELSE Walked(f[i - 1], arg[i])
        <3> TAKE i \in 0 .. m
        <3>1. CASE i = m
            <4>1. f[m - 1] = g[m - 1]
                BY <2>3, <2>1
            <4> QED  BY <3>1, <2>4, <4>1, <1>8
        <3>2. CASE i # m /\ i # 0
            <4>1. i \in 0 .. (m - 1) /\ i - 1 \in 0 .. (m - 1)
                BY <3>2, <1>6
            <4>2. f[i] = g[i] /\ f[i - 1] = g[i - 1]
                BY <4>1, <2>3
            <4> HIDE DEF f, last
            <4> QED  BY <4>1, <4>2, <2>5, <3>2
        <3>3. CASE i # m /\ i = 0
            <4>1. i \in 0 .. (m - 1)
                BY <3>3, <1>6
            <4>2. f[i] = g[i]
                BY <4>1, <2>3
            <4> HIDE DEF f, last
            <4> QED  BY <4>1, <4>2, <2>5, <3>3
        <3> QED  BY <3>1, <3>2, <3>3
    <2>7. f = [i \in 0 .. m |-> f[i]]
        OBVIOUS
    <2> HIDE DEF f, last
    <2>8. Walk(f, arg, m)
        BY <2>6, <2>7 DEF Walk
    <2> QED  BY <2>8, <1>4, <1>5
<1> QED  BY <1>7, <1>8

LEMMA FrontIs ==
    ASSUME NEW C, NEW c \in Seq(C), c # << >>
    PROVE  /\ Len(c) \in Nat \ {0}
           /\ Front(c) \in Seq(C) /\ Len(Front(c)) = Len(c) - 1
           /\ \A i \in 1 .. Len(c) - 1 : Front(c)[i] = c[i]
<1> DEFINE n == Len(c) - 1
<1>1. n \in Nat /\ n + 1 = Len(c) /\ Len(c) \in Nat \ {0}
    OBVIOUS
<1>2. Front(c) = SubSeq(c, 1, n)
    BY DEF Front
<1>3. n <= Len(c)
    BY <1>1
<1> HIDE DEF n
<1>4. SubSeq(c, 1, n) \in Seq(C) /\ Len(SubSeq(c, 1, n)) = n
      /\ \A i \in 1 .. n : SubSeq(c, 1, n)[i] = c[i]
    BY <1>1, <1>3
<1> QED  BY <1>1, <1>2, <1>4 DEF n

(* A path with no more components than the argument has parts.             *)
LEMMA WalkedType ==
    ASSUME NEW C, NEW c \in Seq(C), NEW k \in Nat, Len(c) <= k, NEW x \in C \cup {ParentDir}
    PROVE  Walked(c, x) \in Seq(C) /\ Len(Walked(c, x)) <= k + 1
<1>1. CASE x # ParentDir
    <2>1. Append(c, x) \in Seq(C) /\ Len(Append(c, x)) = Len(c) + 1
        BY <1>1
    <2> QED  BY <1>1, <2>1 DEF Walked
<1>2. CASE x = ParentDir /\ c = << >>
    <2>1. << >> \in Seq(C) /\ Len(<< >>) = 0
        OBVIOUS
    <2> QED  BY <1>2, <2>1 DEF Walked
<1>3. CASE x = ParentDir /\ c # << >>
    <2>1. Front(c) \in Seq(C) /\ Len(Front(c)) = Len(c) - 1
        BY <1>3, FrontIs
    <2> QED  BY <1>3, <2>1 DEF Walked
<1> QED  BY <1>1, <1>2, <1>3

LEMMA WalkType ==
    ASSUME NEW C, NEW arg, NEW n \in Nat, \A i \in 1 .. n : arg[i] \in C \cup {ParentDir},
           NEW f, Walk(f, arg, n)
    PROVE  f[n] \in Seq(C) /\ Len(f[n]) <= n
<1> DEFINE OK(i) == f[i] \in Seq(C) /\ Len(f[i]) <= i
           Bad == {i \in 0 .. n : ~OK(i)}
<1>1. f[0] = << >> /\ \A i \in 1 .. n : f[i] = Walked(f[i - 1], arg[i])
    BY DEF Walk
<1>2. ASSUME Bad # {} PROVE FALSE
    <2>1. Bad \in SUBSET Nat
        OBVIOUS
    <2>2. PICK i \in Bad : \A j \in Bad : i <= j
        BY <2>1, <1>2, NatMin
    <2>3. i \in 0 .. n /\ ~OK(i)
        BY <2>2
    <2>4. i # 0
        <3>1. << >> \in Seq(C) /\ Len(<< >>) = 0
            OBVIOUS
        <3>2. OK(0)
            BY <1>1, <3>1
        <3> QED  BY <2>3, <3>2
    <2>5. i - 1 \in 0 .. n /\ i - 1 \in Nat /\ i - 1 \notin Bad /\ i \in 1 .. n /\ (i - 1) + 1 = i
        BY <2>2, <2>3, <2>4
    <2>6. f[i - 1] \in Seq(C) /\ Len(f[i - 1]) <= i - 1
        BY <2>5
    <2>7. f[i] = Walked(f[i - 1], arg[i]) /\ arg[i] \in C \cup {ParentDir}
        BY <2>5, <1>1
    <2>8. f[i] \in Seq(C) /\ Len(f[i]) <= (i - 1) + 1
        BY <2>5, <2>6, <2>7, WalkedType
    <2> QED  BY <2>3, <2>5, <2>8
<1>3. n \in 0 .. n
    OBVIOUS
<1> QED  BY <1>2, <1>3

LEMMA Normalized ==
    ASSUME NEW parts \in Nat, NEW arg \in BoundedSeq(Part, parts)
    PROVE  NormalizePath(arg) \in Seq(Part \ {ParentDir}) /\ Len(NormalizePath(arg)) <= parts
<1>1. PICK n \in 0 .. parts : arg \in [1 .. n -> Part]
    BY DEF BoundedSeq, SeqOf
<1>2. Len(arg) = n /\ n \in Nat /\ n <= parts
    <2>1. arg \in Seq(Part) /\ DOMAIN arg = 1 .. n
        BY <1>1, SeqDef
    <2> QED  BY <1>1, <2>1
<1>3. \A i \in 1 .. n : arg[i] \in (Part \ {ParentDir}) \cup {ParentDir}
    BY <1>1
<1> DEFINE P(f) == f = [i \in 0 .. Len(arg) |->
                            IF i = 0 THEN << >>
                            ELSE IF arg[i] # ParentDir THEN Append(f[i - 1], arg[i])
                            ELSE IF f[i - 1] = << >> THEN << >>
                            ELSE Front(f[i - 1])]
           h == CHOOSE f : P(f)
<1>4. \A f : P(f) <=> Walk(f, arg, n)
    BY <1>2 DEF Walk, Walked
<1>5. P(h)
    <2>1. \E f : P(f)
        BY <1>2, <1>4, WalkExists
    <2> HIDE DEF P
    <2> QED  BY <2>1, Zenon
<1>6. NormalizePath(arg) = h[n]
    BY <1>2 DEF NormalizePath
<1> HIDE DEF P, h
<1>7. Walk(h, arg, n)
    BY <1>4, <1>5
<1>8. h[n] \in Seq(Part \ {ParentDir}) /\ Len(h[n]) <= n
    BY <1>2, <1>3, <1>7, WalkType
<1> QED  BY <1>2, <1>6, <1>8

(* FlattenSeq of names is a sequence of names.                             *)
LEMMA FlattenExists ==
    ASSUME NEW T, NEW s, NEW n \in Nat, \A i \in 1 .. n : s[i] \in Seq(T)
    PROVE  \E g : Flattening(g, s, n) /\ \A i \in 1 .. n : g[i] \in Seq(T)
<1> DEFINE OK(m) == \E g : Flattening(g, s, m) /\ \A i \in 1 .. m : g[i] \in Seq(T)
           Bad == {m \in 0 .. n : ~OK(m)}
<1>0. n \in 0 .. n
    OBVIOUS
<1>1. SUFFICES ASSUME Bad # {}
               PROVE  FALSE
    <2>1. Bad = {} => OK(n)
        BY <1>0
    <2> QED  BY <2>1
<1>2. Bad \in SUBSET Nat
    OBVIOUS
<1>3. \A m \in 0 .. n : m \notin Bad => OK(m)
    OBVIOUS
<1>4. \A m \in Bad : m \in 0 .. n /\ ~OK(m)
    OBVIOUS
<1> HIDE DEF Bad
<1>5. PICK m \in Bad : \A k \in Bad : m <= k
    BY <1>1, <1>2, NatMin
<1>6. m \in Nat /\ m <= n
    BY <1>4, <1>5
<1>7. CASE m = 0
    <2> DEFINE g == [i \in 1 .. 0 |-> IF i = 1 THEN s[i] ELSE << >>]
    <2>1. Flattening(g, s, 0)
        BY DEF Flattening
    <2>2. OK(0)
        BY <2>1
    <2> QED  BY <2>2, <1>4, <1>5, <1>7
<1>8. CASE m # 0
    <2>1. m - 1 \in 0 .. n /\ m - 1 \notin Bad /\ m \in 1 .. n
        BY <1>5, <1>6, <1>8
    <2>2. PICK g : Flattening(g, s, m - 1) /\ \A i \in 1 .. (m - 1) : g[i] \in Seq(T)
        BY <2>1, <1>3
    <2> DEFINE last == IF m = 1 THEN s[m] ELSE g[m - 1] \o s[m]
               f == [i \in 1 .. m |-> IF i = m THEN last ELSE g[i]]
    <2>3. \A i \in 1 .. (m - 1) : f[i] = g[i]
        BY <1>6
    <2>4. f[m] = last /\ DOMAIN f = 1 .. m
        BY <1>6, <1>8
    <2>5. last \in Seq(T)
        <3>1. CASE m = 1
            BY <3>1, <2>1
        <3>2. CASE m # 1
            <4>1. m - 1 \in 1 .. (m - 1)
                BY <3>2, <2>1
            <4>2. g[m - 1] \in Seq(T) /\ s[m] \in Seq(T)
                BY <4>1, <2>1, <2>2
            <4>3. g[m - 1] \o s[m] \in Seq(T)
                BY <4>2, ConcatProperties
            <4> QED  BY <4>3, <3>2
        <3> QED  BY <3>1, <3>2
    <2>6. \A i \in 1 .. (m - 1) : g[i] = IF i = 1 THEN s[i] ELSE g[i - 1] \o s[i]
        BY <2>2 DEF Flattening
    <2> HIDE DEF f
    <2>7. \A i \in 1 .. m : f[i] = IF i = 1 THEN s[i] ELSE f[i - 1] \o s[i]
        <3> TAKE i \in 1 .. m
        <3>1. CASE i = m /\ m = 1
            BY <3>1, <2>4
        <3>2. CASE i = m /\ m # 1
            <4>1. m - 1 \in 1 .. (m - 1)
                BY <3>2, <2>1
            <4>2. f[m - 1] = g[m - 1]
                BY <2>3, <4>1
            <4> QED  BY <3>2, <2>4, <4>2
        <3>3. CASE i # m
            <4>1. i \in 1 .. (m - 1) /\ (i # 1 => i - 1 \in 1 .. (m - 1))
                BY <3>3, <1>6
            <4>2. f[i] = g[i] /\ (i # 1 => f[i - 1] = g[i - 1])
                BY <4>1, <2>3
            <4> HIDE DEF last
            <4> QED  BY <4>1, <4>2, <2>6
        <3> QED  BY <3>1, <3>2, <3>3
    <2>8. f = [i \in 1 .. m |-> f[i]]
        BY DEF f
    <2> HIDE DEF last
    <2>9. Flattening(f, s, m)
        BY <2>4, <2>7, <2>8 DEF Flattening
    <2>10. \A i \in 1 .. m : f[i] \in Seq(T)
        <3> TAKE i \in 1 .. m
        <3>1. CASE i = m
            BY <3>1, <2>4, <2>5
        <3>2. CASE i # m
            <4>1. i \in 1 .. (m - 1)
                BY <3>2, <1>6
            <4> QED  BY <4>1, <2>2, <2>3
        <3> QED  BY <3>1, <3>2
    <2> QED  BY <2>9, <2>10, <1>4, <1>5
<1> QED  BY <1>7, <1>8

LEMMA FullType ==
    ASSUME NEW T, NEW s \in Seq(Seq(T))
    PROVE  Full(s) \in Seq(T)
<1> DEFINE n == Len(s)
<1>1. n \in Nat /\ \A i \in 1 .. n : s[i] \in Seq(T)
    OBVIOUS
<1>2. CASE n = 0
    <2>1. s = << >> /\ << >> \in Seq(T)
        BY <1>2
    <2>2. FlattenSeq(s) = s
        BY <1>2 DEF FlattenSeq
    <2> QED  BY <2>1, <2>2 DEF Full
<1>3. CASE n # 0
    <2>1. PICK g : Flattening(g, s, n) /\ \A i \in 1 .. n : g[i] \in Seq(T)
        BY <1>1, FlattenExists
    <2>2. Len(s) = n
        OBVIOUS
    <2> HIDE DEF n
    <2>3. FlattenSeq(s) = g[n]
        BY <1>1, <1>3, <2>1, <2>2, FlattenIs
    <2>4. n \in 1 .. n
        BY <1>1, <1>3
    <2> QED  BY <2>1, <2>3, <2>4 DEF Full
<1> QED  BY <1>2, <1>3

LEMMA AppendedPiece ==
    ASSUME NEW T, NEW p \in Seq(T), NEW j \in Nat, j + 1 <= Len(p)
    PROVE  SubSeq(p, 1, j) \o <<p[j + 1]>> = SubSeq(p, 1, j + 1)
<1> DEFINE a == SubSeq(p, 1, j)
           b == <<p[j + 1]>>
           c == SubSeq(p, 1, j + 1)
<1>1. Len(p) \in Nat /\ j <= Len(p) /\ j + 1 \in Nat /\ p[j + 1] \in T
    OBVIOUS
<1>2. a \in Seq(T) /\ Len(a) = j /\ \A i \in 1 .. j : a[i] = p[i]
    BY <1>1
<1>3. b \in Seq(T) /\ Len(b) = 1 /\ b[1] = p[j + 1]
    BY <1>1
<1>4. c \in Seq(T) /\ Len(c) = j + 1 /\ \A i \in 1 .. j + 1 : c[i] = p[i]
    BY <1>1
<1> HIDE DEF a, b, c
<1> DEFINE w == a \o b
<1>5. /\ w \in Seq(T) /\ Len(w) = Len(a) + Len(b)
      /\ \A i \in 1 .. Len(a) + Len(b) : w[i] = IF i <= Len(a) THEN a[i] ELSE b[i - Len(a)]
    <2>1. a \in Seq(T) /\ b \in Seq(T)
        BY <1>2, <1>3
    <2> QED  BY <2>1, ConcatProperties, Zenon
<1> HIDE DEF w
<1>6. Len(w) = Len(c)
    BY <1>2, <1>3, <1>4, <1>5
<1>7. ASSUME NEW i \in 1 .. Len(w) PROVE w[i] = c[i]
    <2>1. i \in 1 .. j + 1 /\ i \in 1 .. Len(a) + Len(b)
        BY <1>2, <1>3, <1>5
    <2>2. CASE i <= j
        <3>1. w[i] = a[i] /\ a[i] = p[i] /\ c[i] = p[i]
            BY <1>1, <1>2, <1>4, <1>5, <2>1, <2>2
        <3> QED  BY <3>1
    <2>3. CASE i = j + 1
        <3>1. i - Len(a) = 1 /\ ~(i <= Len(a))
            BY <1>2, <2>3
        <3>2. w[i] = b[1] /\ c[i] = p[j + 1]
            BY <1>4, <1>5, <2>1, <2>3, <3>1
        <3> QED  BY <3>2, <1>3
    <2>4. i <= j \/ i = j + 1
        BY <2>1
    <2> QED  BY <2>2, <2>3, <2>4
<1>8. w = c
    BY <1>4, <1>5, <1>6, <1>7, SeqEqual
<1> QED  BY <1>8 DEF a, b, c, w

LEMMA FirstPiece ==
    ASSUME NEW T, NEW p \in Seq(T), 1 <= Len(p)
    PROVE  SubSeq(p, 1, 1) = <<p[1]>>
<1> DEFINE a == SubSeq(p, 1, 1)
           b == <<p[1]>>
<1>1. a \in Seq(T) /\ Len(a) = 1 /\ a[1] = p[1]
    OBVIOUS
<1>2. b \in Seq(T) /\ Len(b) = 1 /\ b[1] = p[1]
    OBVIOUS
<1> HIDE DEF a, b
<1>3. \A i \in 1 .. Len(a) : a[i] = b[i]
    BY <1>1, <1>2
<1>4. a = b
    BY <1>1, <1>2, <1>3, SeqEqual
<1> QED  BY <1>4 DEF a, b

(* Paths without backslashes: components and names are one to one.         *)
LEMMA FullComponents ==
    ASSUME NEW T, NEW p \in Seq(T)
    PROVE  Full(Components(p)) = p
<1> DEFINE n == Len(p)
           s == Components(p)
           g == [i \in 1 .. n |-> SubSeq(p, 1, i)]
<1>1. n \in Nat /\ Len(s) = n /\ \A i \in 1 .. n : s[i] = <<p[i]>>
    BY DEF Components
<1>2. CASE n = 0
    <2>1. p = << >> /\ s = << >>
        BY <1>2 DEF Components
    <2>2. FlattenSeq(s) = s
        BY <1>1, <1>2 DEF FlattenSeq
    <2> QED  BY <2>1, <2>2 DEF Full
<1>3. CASE n # 0
    <2>1. ASSUME NEW i \in 1 .. n
          PROVE  g[i] = IF i = 1 THEN s[i] ELSE g[i - 1] \o s[i]
        <3>1. g[i] = SubSeq(p, 1, i) /\ s[i] = <<p[i]>>
            BY <1>1
        <3>2. CASE i = 1
            <4>0. 1 <= Len(p)
                BY <3>2
            <4>1. SubSeq(p, 1, 1) = <<p[1]>>
                BY <4>0, FirstPiece
            <4> QED  BY <3>1, <3>2, <4>1
        <3>3. CASE i # 1
            <4> DEFINE j == i - 1
            <4>1. j \in Nat /\ j + 1 = i /\ j \in 1 .. n /\ i <= Len(p)
                BY <3>3
            <4>2. g[j] = SubSeq(p, 1, j)
                BY <4>1
            <4> HIDE DEF j, g, s
            <4>3. SubSeq(p, 1, j) \o <<p[i]>> = SubSeq(p, 1, i)
                BY <4>1, AppendedPiece
            <4> QED  BY <3>1, <3>3, <4>2, <4>3 DEF j
        <3> QED  BY <3>2, <3>3
    <2>2. Flattening(g, s, n)
        <3>1. DOMAIN g = 1 .. n
            OBVIOUS
        <3> HIDE DEF g
        <3>2. g = [i \in 1 .. n |-> g[i]]
            BY DEF g
        <3> HIDE DEF s
        <3> QED  BY <2>1, <3>1, <3>2 DEF Flattening
    <2>3. g[n] = p
        <3>1. n \in 1 .. n
            BY <1>1, <1>3
        <3>2. SubSeq(p, 1, Len(p)) = p
            OBVIOUS
        <3> QED  BY <3>1, <3>2
    <2> HIDE DEF g, n, s
    <2>4. FlattenSeq(s) = g[n]
        BY <1>1, <1>3, <2>2, FlattenIs
    <2> QED  BY <2>3, <2>4 DEF Full, s
<1> QED  BY <1>2, <1>3

LEMMA PartsAreNames == Part \subseteq Seq(Names)
<1>1. ASSUME NEW part \in Part PROVE part \in Seq(Names)
    <2>1. CASE part = ParentDir
        BY <2>1 DEF ParentDir
    <2>2. CASE part \in {<<x>> : x \in Names}
        <3>1. PICK x \in Names : part = <<x>>
            BY <2>2
        <3>2. <<x>> \in Seq(Names)
            OBVIOUS
        <3> QED  BY <3>1, <3>2
    <2>3. CASE part \in {<<x, y>> : x \in Names, y \in Names}
        <3>1. PICK x \in Names, y \in Names : part = <<x, y>>
            BY <2>3
        <3>2. <<x, y>> \in Seq(Names)
            OBVIOUS
        <3> QED  BY <3>1, <3>2
    <2> QED  BY <2>1, <2>2, <2>3 DEF Part
<1> QED  BY <1>1

(* A piece at the front of a path.                                         *)
LEMMA PieceIs ==
    ASSUME NEW T, NEW p \in Seq(T), NEW i \in 0 .. Len(p)
    PROVE  /\ SubSeq(p, 1, i) \in Seq(T) /\ Len(SubSeq(p, 1, i)) = i
           /\ \A k \in 1 .. i : SubSeq(p, 1, i)[k] = p[k]
<1>1. i \in Nat /\ i <= Len(p) /\ Len(p) \in Nat
    OBVIOUS
<1> QED  BY <1>1

LEMMA PieceOfPiece ==
    ASSUME NEW T, NEW p \in Seq(T), NEW i \in 0 .. Len(p), NEW k \in 0 .. i
    PROVE  SubSeq(SubSeq(p, 1, i), 1, k) = SubSeq(p, 1, k)
<1> DEFINE a == SubSeq(p, 1, i)
           b == SubSeq(a, 1, k)
           c == SubSeq(p, 1, k)
<1>1. k \in 0 .. Len(p) /\ i \in Nat
    OBVIOUS
<1>2. a \in Seq(T) /\ Len(a) = i /\ \A j \in 1 .. i : a[j] = p[j]
    BY PieceIs
<1>3. c \in Seq(T) /\ Len(c) = k /\ \A j \in 1 .. k : c[j] = p[j]
    BY <1>1, PieceIs
<1> HIDE DEF a, c
<1>4. b \in Seq(T) /\ Len(b) = k /\ \A j \in 1 .. k : b[j] = a[j]
    <2>1. k \in 0 .. Len(a)
        BY <1>2
    <2> QED  BY <1>2, <2>1, PieceIs
<1> HIDE DEF b
<1>5. Len(b) = Len(c) /\ \A j \in 1 .. Len(b) : b[j] = c[j]
    BY <1>1, <1>2, <1>3, <1>4
<1>6. b = c
    BY <1>3, <1>4, <1>5, SeqEqual
<1> QED  BY <1>6 DEF a, b, c

LEMMA ComponentsType ==
    ASSUME NEW T, NEW p \in Seq(T)
    PROVE  /\ Components(p) \in Seq(Seq(T)) /\ Len(Components(p)) = Len(p)
           /\ \A i \in 1 .. Len(p) : Components(p)[i] = <<p[i]>>
<1>1. Len(p) \in Nat /\ \A i \in 1 .. Len(p) : <<p[i]>> \in Seq(T)
    OBVIOUS
<1> QED  BY <1>1 DEF Components

LEMMA ComponentsPiece ==
    ASSUME NEW T, NEW p \in Seq(T), NEW i \in 0 .. Len(p)
    PROVE  /\ SubSeq(Components(p), 1, i) = Components(SubSeq(p, 1, i))
           /\ Full(SubSeq(Components(p), 1, i)) = SubSeq(p, 1, i)
<1> DEFINE a == SubSeq(p, 1, i)
           s == Components(p)
           b == SubSeq(s, 1, i)
           c == Components(a)
<1>1. s \in Seq(Seq(T)) /\ Len(s) = Len(p) /\ \A k \in 1 .. Len(p) : s[k] = <<p[k]>>
    BY ComponentsType
<1>2. a \in Seq(T) /\ Len(a) = i /\ \A k \in 1 .. i : a[k] = p[k]
    BY PieceIs
<1> HIDE DEF s, a
<1>3. b \in Seq(Seq(T)) /\ Len(b) = i /\ \A k \in 1 .. i : b[k] = s[k]
    <2>1. i \in 0 .. Len(s)
        BY <1>1
    <2> QED  BY <1>1, <2>1, PieceIs
<1>4. c \in Seq(Seq(T)) /\ Len(c) = i /\ \A k \in 1 .. i : c[k] = <<a[k]>>
    BY <1>2, ComponentsType
<1>5. Full(c) = a
    BY <1>2, FullComponents
<1> HIDE DEF b, c
<1>6. Len(b) = Len(c) /\ \A k \in 1 .. Len(b) : b[k] = c[k]
    <2>1. \A k \in 1 .. i : k \in 1 .. Len(p)
        OBVIOUS
    <2> QED  BY <1>1, <1>2, <1>3, <1>4, <2>1
<1>7. b = c
    BY <1>3, <1>4, <1>6, SeqEqual
<1> QED  BY <1>5, <1>7 DEF a, b, c, s

LEMMA ParentIsFront ==
    ASSUME NEW T, NEW p \in Seq(T), p # << >>
    PROVE  ParentPath(Components(p)) = Front(p)
<1> DEFINE n == Len(p) - 1
<1>1. n \in 0 .. Len(p) /\ Len(Components(p)) - 1 = n
    BY ComponentsType
<1>2. Front(Components(p)) = SubSeq(Components(p), 1, n) /\ Front(p) = SubSeq(p, 1, n)
    BY <1>1 DEF Front
<1> HIDE DEF n
<1>3. Full(SubSeq(Components(p), 1, n)) = SubSeq(p, 1, n)
    BY <1>1, ComponentsPiece
<1> QED  BY <1>2, <1>3 DEF ParentPath

(* Without backslashes a normalised argument is the components of a path.  *)
LEMMA PlainPath ==
    ASSUME Backslashes = FALSE, NEW comps \in Seq(Part \ {ParentDir})
    PROVE  \E p \in Seq(Names) : comps = Components(p) /\ Len(p) = Len(comps)
<1> DEFINE n == Len(comps)
           p == [i \in 1 .. n |-> comps[i][1]]
<1>1. n \in Nat /\ \A i \in 1 .. n : comps[i] \in Part \ {ParentDir}
    OBVIOUS
<1>2. Part \ {ParentDir} \subseteq {<<x>> : x \in Names}
    BY DEF Part
<1>3. \A i \in 1 .. n : comps[i][1] \in Names /\ comps[i] = <<comps[i][1]>>
    BY <1>1, <1>2
<1>4. p \in Seq(Names) /\ Len(p) = n
    BY <1>1, <1>3
<1>5. \A i \in 1 .. n : comps[i] = <<p[i]>>
    BY <1>3
<1>6. comps = [i \in 1 .. n |-> comps[i]]
    OBVIOUS
<1> HIDE DEF p
<1>7. comps = Components(p)
    BY <1>4, <1>5, <1>6 DEF Components
<1> QED  BY <1>4, <1>7

(* ensure_directory adds directories and changes nothing else.             *)
LEMMA EnsureAdds ==
    ASSUME NEW m, Namespace(m), NEW comps \in Seq(Seq(Names)),
           NEW e, e = EnsureDirectory(m, comps)
    PROVE  /\ Namespace(e) /\ DOMAIN m \subseteq DOMAIN e
           /\ \A q \in DOMAIN e : e[q] = IF q \in DOMAIN m THEN m[q] ELSE Directory
<1> DEFINE made == {i \in 1 .. Len(comps) : ~PathConflict(m, SubSeq(comps, 1, i))}
           dirs == {Full(SubSeq(comps, 1, i)) : i \in made} \cup {Root}
<1>1. \A i \in made : Full(SubSeq(comps, 1, i)) \in Seq(Names)
    <2> TAKE i \in made
    <2>1. i \in 0 .. Len(comps)
        OBVIOUS
    <2>2. SubSeq(comps, 1, i) \in Seq(Seq(Names))
        BY <2>1, PieceIs
    <2> QED  BY <2>2, FullType
<1>2. Root \in Seq(Names)
    BY DEF Root
<1>3. dirs \subseteq Seq(Names)
    BY <1>1, <1>2
<1>4. e = [q \in DOMAIN m \cup dirs |-> IF q \in DOMAIN m THEN m[q] ELSE Directory]
    BY DEF EnsureDirectory
<1> HIDE DEF made, dirs
<1> QED  BY <1>3, <1>4 DEF Namespace, NodeMap, IsMap

(* What it does for a path: each name down to the first that is a file.    *)
Blocked(m, p, j) == \E k \in 1 .. j : IsFile(m, SubSeq(p, 1, k))
Made(m, p) == {SubSeq(p, 1, i) : i \in {j \in 1 .. Len(p) : ~Blocked(m, p, j)}} \cup {Root}

LEMMA ConflictIs ==
    ASSUME NEW m, NEW T, NEW p \in Seq(T), NEW j \in 0 .. Len(p)
    PROVE  PathConflict(m, SubSeq(Components(p), 1, j)) <=> Blocked(m, p, j)
<1> DEFINE s == SubSeq(Components(p), 1, j)
<1>1. Len(s) = j
    <2>1. Components(p) \in Seq(Seq(T)) /\ j \in 0 .. Len(Components(p))
        BY ComponentsType
    <2> QED  BY <2>1, PieceIs
<1>2. \A k \in 1 .. j : Full(SubSeq(s, 1, k)) = SubSeq(p, 1, k)
    <2> TAKE k \in 1 .. j
    <2>1. k \in 0 .. j /\ k \in 0 .. Len(p)
        OBVIOUS
    <2>2. Components(p) \in Seq(Seq(T)) /\ j \in 0 .. Len(Components(p))
        BY ComponentsType
    <2>3. SubSeq(s, 1, k) = SubSeq(Components(p), 1, k)
        BY <2>1, <2>2, PieceOfPiece
    <2>4. Full(SubSeq(Components(p), 1, k)) = SubSeq(p, 1, k)
        BY <2>1, ComponentsPiece
    <2> QED  BY <2>3, <2>4
<1> HIDE DEF s
<1>3. PathConflict(m, s) <=> Blocked(m, p, j)
    BY <1>1, <1>2 DEF PathConflict, Blocked
<1> QED  BY <1>3 DEF s

LEMMA ConflictOf ==
    ASSUME NEW m, NEW T, NEW p \in Seq(T)
    PROVE  PathConflict(m, Components(p)) <=> Blocked(m, p, Len(p))
<1>1. Components(p) \in Seq(Seq(T)) /\ Len(Components(p)) = Len(p)
    BY ComponentsType
<1> DEFINE s == Components(p)
<1>2. s \in Seq(Seq(T)) /\ Len(s) = Len(p) /\ Len(p) \in 0 .. Len(p)
    BY <1>1
<1> HIDE DEF s
<1>3. SubSeq(s, 1, Len(s)) = s
    BY <1>2
<1>4. PathConflict(m, SubSeq(s, 1, Len(p))) <=> Blocked(m, p, Len(p))
    BY <1>2, ConflictIs DEF s
<1>5. PathConflict(m, s) <=> Blocked(m, p, Len(p))
    BY <1>2, <1>3, <1>4
<1> QED  BY <1>5 DEF s

LEMMA EnsureIs ==
    ASSUME NEW m, NEW T, NEW p \in Seq(T), NEW e, e = EnsureDirectory(m, Components(p))
    PROVE  e = [q \in DOMAIN m \cup Made(m, p) |-> IF q \in DOMAIN m THEN m[q] ELSE Directory]
<1> DEFINE s == Components(p)
           made == {i \in 1 .. Len(s) : ~PathConflict(m, SubSeq(s, 1, i))}
           dirs == {Full(SubSeq(s, 1, i)) : i \in made} \cup {Root}
<1>1. Len(s) = Len(p)
    BY ComponentsType
<1>2. \A i \in 1 .. Len(p) : /\ PathConflict(m, SubSeq(s, 1, i)) <=> Blocked(m, p, i)
                             /\ Full(SubSeq(s, 1, i)) = SubSeq(p, 1, i)
    <2> TAKE i \in 1 .. Len(p)
    <2>1. i \in 0 .. Len(p)
        OBVIOUS
    <2> QED  BY <2>1, ConflictIs, ComponentsPiece
<1>3. e = [q \in DOMAIN m \cup dirs |-> IF q \in DOMAIN m THEN m[q] ELSE Directory]
    BY DEF EnsureDirectory
<1> HIDE DEF s
<1>4. made = {j \in 1 .. Len(p) : ~Blocked(m, p, j)}
    BY <1>1, <1>2
<1> HIDE DEF made
<1>5. dirs = Made(m, p)
    BY <1>2, <1>4 DEF Made
<1> QED  BY <1>3, <1>5

(* What is above a path's piece is the piece before it.                    *)
LEMMA FrontOfPiece ==
    ASSUME NEW T, NEW p \in Seq(T), NEW i \in 1 .. Len(p)
    PROVE  /\ SubSeq(p, 1, i) # Root
           /\ Front(SubSeq(p, 1, i)) = SubSeq(p, 1, i - 1)
<1> DEFINE a == SubSeq(p, 1, i)
<1>1. i \in 0 .. Len(p) /\ i - 1 \in 0 .. i /\ i \in Nat
    OBVIOUS
<1>2. a \in Seq(T) /\ Len(a) = i
    BY <1>1, PieceIs
<1>3. SubSeq(a, 1, i - 1) = SubSeq(p, 1, i - 1)
    BY <1>1, PieceOfPiece
<1> HIDE DEF a
<1>4. Front(a) = SubSeq(a, 1, i - 1)
    BY <1>2 DEF Front
<1>5. a # Root
    BY <1>1, <1>2 DEF Root
<1> QED  BY <1>3, <1>4, <1>5 DEF a

LEMMA NoPiece ==
    ASSUME NEW T, NEW p \in Seq(T)
    PROVE  SubSeq(p, 1, 0) = Root
<1>1. SubSeq(p, 1, 0) \in Seq(T) /\ Len(SubSeq(p, 1, 0)) = 0
    OBVIOUS
<1> QED  BY <1>1 DEF Root

LEMMA EnsureTree ==
    ASSUME NEW m, Tree(m), NEW T, NEW p \in Seq(T), NEW e, e = EnsureDirectory(m, Components(p))
    PROVE  Tree(e)
<1> DEFINE piece(i) == SubSeq(p, 1, i)
           ok == {j \in 1 .. Len(p) : ~Blocked(m, p, j)}
<1>1. Made(m, p) = {piece(i) : i \in ok} \cup {Root}
    BY DEF Made
<1>2. e = [q \in DOMAIN m \cup Made(m, p) |-> IF q \in DOMAIN m THEN m[q] ELSE Directory]
    BY EnsureIs
<1>3. ASSUME NEW i \in ok
      PROVE  /\ piece(i) # Root /\ Front(piece(i)) = piece(i - 1)
             /\ i - 1 = 0 => piece(i - 1) = Root
             /\ i - 1 # 0 => i - 1 \in ok
             /\ ~IsFile(m, piece(i))
    <2>1. i \in 1 .. Len(p) /\ ~Blocked(m, p, i)
        OBVIOUS
    <2>2. i - 1 = 0 => piece(i - 1) = Root
        BY NoPiece
    <2>3. ~IsFile(m, piece(i))
        <3>1. i \in 1 .. i
            BY <2>1
        <3> QED  BY <2>1, <3>1 DEF Blocked
    <2>4. ASSUME i - 1 # 0 PROVE i - 1 \in ok
        <3>1. i - 1 \in 1 .. Len(p) /\ \A k \in 1 .. i - 1 : k \in 1 .. i
            BY <2>1, <2>4
        <3>2. ~Blocked(m, p, i - 1)
            BY <2>1, <3>1 DEF Blocked
        <3> QED  BY <3>1, <3>2
    <2>5. piece(i) # Root /\ Front(piece(i)) = piece(i - 1)
        BY <2>1, FrontOfPiece
    <2> QED  BY <2>2, <2>3, <2>4, <2>5
<1> HIDE DEF piece, ok
<1>4. IsDirectory(e, Root)
    BY <1>1, <1>2 DEF Tree, IsDirectory
<1>5. \A q : IsDirectory(m, q) => IsDirectory(e, q)
    BY <1>2 DEF IsDirectory
<1>6. \A i \in ok : IsDirectory(e, piece(i))
    BY <1>1, <1>2, <1>3 DEF IsDirectory, IsFile
<1>7. ASSUME NEW q \in DOMAIN e, q # Root
      PROVE  IsDirectory(e, Front(q))
    <2>1. CASE q \in DOMAIN m
        BY <2>1, <1>5, <1>7 DEF Tree
    <2>2. CASE q \notin DOMAIN m
        <3>1. q \in Made(m, p)
            BY <1>2, <2>2
        <3>2. PICK i \in ok : q = piece(i)
            BY <3>1, <1>1, <1>7
        <3>3. CASE i - 1 = 0
            BY <1>3, <1>4, <3>2, <3>3
        <3>4. CASE i - 1 # 0
            BY <1>3, <1>6, <3>2, <3>4
        <3> QED  BY <3>3, <3>4
    <2> QED  BY <2>1, <2>2
<1> QED  BY <1>4, <1>7 DEF Tree

(* Refused, it has made nothing: what lies above a file is there already.  *)
LEMMA EnsureRefused ==
    ASSUME NEW m, Tree(m), IsMap(m),
           NEW T, NEW p \in Seq(T), NEW e, e = EnsureDirectory(m, Components(p)),
           PathConflict(m, Components(p))
    PROVE  e = m
<1> DEFINE piece(i) == SubSeq(p, 1, i)
<1>1. e = [q \in DOMAIN m \cup Made(m, p) |-> IF q \in DOMAIN m THEN m[q] ELSE Directory]
    BY EnsureIs
<1>2. PICK j \in 1 .. Len(p) : IsFile(m, piece(j))
    BY ConflictOf DEF Blocked
<1> DEFINE gap == {n \in 0 .. j : piece(j - n) \notin DOMAIN m}
<1>3. ASSUME gap # {} PROVE FALSE
    <2>1. gap \in SUBSET Nat
        OBVIOUS
    <2>2. PICK n \in gap : \A k \in gap : n <= k
        BY <2>1, <1>3, NatMin
    <2>3. n \in 0 .. j /\ piece(j - n) \notin DOMAIN m
        BY <2>2
    <2>4. n # 0
        BY <2>3, <1>2 DEF IsFile
    <2> DEFINE i == j - (n - 1)
    <2>5. n - 1 \in 0 .. j /\ n - 1 \notin gap /\ i \in 1 .. Len(p) /\ i - 1 = j - n
        <3>1. n \in 0 .. j /\ n # 0 /\ j \in 1 .. Len(p) /\ Len(p) \in Nat
            BY <2>3, <2>4
        <3>2. n - 1 \in 0 .. j /\ ~(n <= n - 1)
            BY <3>1
        <3>3. n - 1 \notin gap
            BY <2>2, <3>2
        <3>4. i \in 1 .. Len(p) /\ i - 1 = j - n
            BY <3>1
        <3> QED  BY <3>2, <3>3, <3>4
    <2>6. piece(i) \in DOMAIN m
        BY <2>5
    <2> HIDE DEF i
    <2>7. piece(i) # Root /\ Front(piece(i)) = piece(i - 1)
        BY <2>5, FrontOfPiece
    <2>8. piece(i - 1) \in DOMAIN m
        BY <2>6, <2>7 DEF Tree, IsDirectory
    <2> QED  BY <2>3, <2>5, <2>8
<1>4. \A i \in 0 .. j : piece(i) \in DOMAIN m
    <2> TAKE i \in 0 .. j
    <2>1. j - i \in 0 .. j /\ j - (j - i) = i
        OBVIOUS
    <2>2. j - i \notin gap
        BY <1>3
    <2> QED  BY <2>1, <2>2
<1>5. Made(m, p) \subseteq DOMAIN m
    <2>1. ASSUME NEW i \in 1 .. Len(p), ~Blocked(m, p, i)
          PROVE  piece(i) \in DOMAIN m
        <3>1. ~(j \in 1 .. i)
            BY <1>2, <2>1 DEF Blocked
        <3>2. i \in 0 .. j
            BY <3>1
        <3> QED  BY <3>2, <1>4
    <2>2. Root \in DOMAIN m
        BY DEF Tree, IsDirectory
    <2> HIDE DEF piece
    <2> QED  BY <2>1, <2>2 DEF Made, piece
<1>6. e = [q \in DOMAIN m |-> m[q]]
    BY <1>1, <1>5
<1> QED  BY <1>6 DEF IsMap

(* Granted, every directory of the path is there.                          *)
LEMMA EnsureGranted ==
    ASSUME NEW m, NEW T, NEW p \in Seq(T), NEW e, e = EnsureDirectory(m, Components(p)),
           ~PathConflict(m, Components(p)), IsDirectory(m, Root)
    PROVE  IsDirectory(e, p)
<1>1. e = [q \in DOMAIN m \cup Made(m, p) |-> IF q \in DOMAIN m THEN m[q] ELSE Directory]
    BY EnsureIs
<1>2. ~Blocked(m, p, Len(p))
    BY ConflictOf
<1>3. CASE p = Root
    BY <1>1, <1>3 DEF IsDirectory
<1>4. CASE p # Root
    <2>1. Len(p) \in 1 .. Len(p) /\ SubSeq(p, 1, Len(p)) = p
        BY <1>4 DEF Root
    <2>2. p \in Made(m, p)
        BY <1>2, <2>1 DEF Made
    <2>3. ~IsFile(m, p)
        BY <1>2, <2>1 DEF Blocked
    <2> QED  BY <1>1, <2>2, <2>3 DEF IsDirectory, IsFile
<1> QED  BY <1>3, <1>4

(* Adding a file below a directory, where no directory is.                 *)
LEMMA PutTree ==
    ASSUME NEW m, Tree(m), NEW T, DOMAIN m \subseteq Seq(T), NEW p \in Seq(T), p # Root,
           NEW c, IsDirectory(m, Front(p)), ~IsDirectory(m, p)
    PROVE  Tree(Put(m, p, c))
<1> DEFINE e == Put(m, p, c)
<1>1. \A q : IsDirectory(m, q) => IsDirectory(e, q)
    BY DEF Put, IsDirectory
<1>2. DOMAIN e = DOMAIN m \cup {p}
    BY DEF Put
<1> HIDE DEF e
<1>3. ASSUME NEW q \in DOMAIN e, q # Root
      PROVE  IsDirectory(e, Front(q))
    <2>1. IsDirectory(m, Front(q))
        BY <1>2, <1>3 DEF Tree
    <2> QED  BY <1>1, <2>1
<1>4. IsDirectory(e, Root)
    BY <1>1 DEF Tree
<1> QED  BY <1>3, <1>4 DEF Tree, e

(* Namespaces of names in the root only.                                   *)
LEMMA ShortTree ==
    ASSUME NEW m, NEW T, DOMAIN m \subseteq Seq(T), Short(m), IsDirectory(m, Root)
    PROVE  Tree(m)
<1>1. ASSUME NEW q \in DOMAIN m, q # Root PROVE Front(q) = Root
    <2>1. q \in Seq(T) /\ Len(q) <= 1
        BY DEF Short
    <2>2. Front(q) \in Seq(T) /\ Len(Front(q)) = Len(q) - 1 /\ Len(q) \in Nat \ {0}
        BY <2>1, <1>1, FrontIs DEF Root
    <2>3. Len(Front(q)) = 0
        BY <2>1, <2>2
    <2> QED  BY <2>2, <2>3 DEF Root
<1> QED  BY <1>1 DEF Tree

(* Taking out a file, or a directory with nothing below it.                *)
LEMMA WithoutTree ==
    ASSUME NEW m, Tree(m), NEW T, DOMAIN m \subseteq Seq(T), NEW p \in DOMAIN m, p # Root,
           m[p] = Directory => ~HasEntries(m, p)
    PROVE  Tree(Without(m, p))
<1> DEFINE e == Without(m, p)
<1>1. DOMAIN e = DOMAIN m \ {p} /\ \A q \in DOMAIN e : e[q] = m[q]
    BY DEF Without
<1> HIDE DEF e
<1>2. IsDirectory(e, Root)
    BY <1>1 DEF Tree, IsDirectory
<1>3. ASSUME NEW q \in DOMAIN e, q # Root
      PROVE  IsDirectory(e, Front(q))
    <2>1. q \in DOMAIN m /\ IsDirectory(m, Front(q))
        BY <1>1, <1>3 DEF Tree
    <2>2. Front(q) # p
        <3>1. ASSUME Front(q) = p PROVE FALSE
            <4>1. m[p] = Directory
                BY <2>1, <3>1 DEF IsDirectory
            <4>2. q \in Seq(T) /\ q # << >>
                BY <2>1, <1>3 DEF Root
            <4> DEFINE n == Len(q) - 1
            <4>3. n \in 0 .. Len(q) /\ Len(q) \in Nat /\ n < Len(q)
                BY <4>2
            <4>4. p = SubSeq(q, 1, n)
                BY <3>1 DEF Front
            <4> HIDE DEF n
            <4>5. p \in Seq(T) /\ Len(p) = n
                BY <4>2, <4>3, <4>4, PieceIs
            <4>6. SubSeq(p, 1, n) = SubSeq(q, 1, n)
                <5>1. n \in 0 .. n
                    BY <4>3
                <5>2. SubSeq(SubSeq(q, 1, n), 1, n) = SubSeq(q, 1, n)
                    BY <4>2, <4>3, <5>1, PieceOfPiece
                <5> QED  BY <4>4, <5>2
            <4>7. IsPrefix(p, q)
                BY <4>3, <4>5, <4>6 DEF IsPrefix
            <4>8. p # q
                BY <4>3, <4>5
            <4>9. HasEntries(m, p)
                BY <2>1, <4>7, <4>8 DEF HasEntries, IsStrictPrefix
            <4> QED  BY <4>1, <4>9
        <3> QED  BY <3>1
    <2> QED  BY <1>1, <2>1, <2>2 DEF IsDirectory
<1> QED  BY <1>2, <1>3 DEF Tree, e

-----------------------------------------------------------------------------
(* Types.                                                                  *)

LEMMA NfsSteps ==
    ASSUME NfsNext
    PROVE  \/ \E t \in Callers, arg \in Arguments : WriteFile(t, arg)
           \/ \E t \in Callers, arg \in Arguments : Mkdir(t, arg)
           \/ \E t \in Callers, arg \in Arguments : Delete(t, arg)
           \/ \E t \in Callers : StoreCapsule(t)
           \/ \E t \in Callers : StoreFails(t)
           \/ \E t \in Callers : InsertFile(t)
           \/ \E t \in Callers : Reclaim(t)
           \/ \E t \in Callers : Persist(t)
           \/ \E t \in Callers : PersistFails(t)
           \/ Restart
BY DEF NfsNext

LEMMA IdleJobType == IdleJob \in NfsJob
BY NfsAssumption DEF IdleJob, NfsJob, NfsPcs, Root, NoCapsule

(* The assignments to a job keep its type.                                 *)
LEMMA JobType ==
    ASSUME NEW j \in NfsJob
    PROVE  /\ \A pc \in NfsPcs : [j EXCEPT !.pc = pc] \in NfsJob
           /\ \A pc \in NfsPcs, c \in 0 .. MaxCapsules : [j EXCEPT !.pc = pc, !.new = c] \in NfsJob
           /\ \A pc \in NfsPcs, c \in 0 .. MaxCapsules : [j EXCEPT !.drop = c, !.pc = pc] \in NfsJob
           /\ \A pc \in NfsPcs, c \in 0 .. MaxCapsules : [j EXCEPT !.pc = pc, !.drop = c] \in NfsJob
           /\ \A pc \in NfsPcs, p \in Seq(Names), q \in Seq(Names) :
                [j EXCEPT !.pc = pc, !.path = p, !.parent = q] \in NfsJob
BY DEF NfsJob

(* The full path of an argument, and of what is above it.                  *)
LEMMA ArgumentPath ==
    ASSUME usage \in Usages, NEW arg \in Arguments
    PROVE  /\ NormalizePath(arg) \in Seq(Part \ {ParentDir})
           /\ NormalizePath(arg) \in Seq(Seq(Names))
           /\ Len(NormalizePath(arg)) <= usage.parts
           /\ Full(NormalizePath(arg)) \in Seq(Names)
           /\ NormalizePath(arg) # << >> => ParentPath(NormalizePath(arg)) \in Seq(Names)
<1> DEFINE comps == NormalizePath(arg)
<1>1. usage.parts \in Nat /\ arg \in BoundedSeq(Part, usage.parts)
    BY NfsAssumption DEF Arguments
<1>2. comps \in Seq(Part \ {ParentDir}) /\ Len(comps) <= usage.parts
    BY <1>1, Normalized
<1> HIDE DEF comps
<1>3. comps \in Seq(Seq(Names))
    BY <1>2, PartsAreNames
<1>4. Full(comps) \in Seq(Names)
    BY <1>3, FullType
<1>5. ASSUME comps # << >> PROVE ParentPath(comps) \in Seq(Names)
    <2>1. Front(comps) \in Seq(Seq(Names))
        BY <1>3, <1>5, FrontIs
    <2> QED  BY <2>1, FullType DEF ParentPath
<1> QED  BY <1>2, <1>3, <1>4, <1>5 DEF comps

LEMMA PutNode ==
    ASSUME NEW m, Namespace(m), NEW p \in Seq(Names), NEW c \in {Directory} \cup 1 .. MaxCapsules
    PROVE  Namespace(Put(m, p, c)) /\ Namespace(Without(m, p))
BY DEF Namespace, NodeMap, IsMap, Put, Without

LEMMA RootNode ==
    ASSUME NEW m, Namespace(m)
    PROVE  Namespace(EnsureRootNode(m))
<1>1. Root \in Seq(Names) /\ Directory \in {Directory} \cup 1 .. MaxCapsules
    BY DEF Root
<1>2. Namespace(Put(m, Root, Directory))
    BY <1>1, PutNode
<1> QED  BY <1>2 DEF EnsureRootNode

(* One call moves on, the others stay where they are.                      *)
Moves(t, j) ==
    /\ j \in NfsJob /\ job' \in [Callers -> NfsJob] /\ job'[t] = j
    /\ \A u \in Callers : u # t => job'[u] = job[u]

LEMMA MovesTo ==
    ASSUME job \in [Callers -> NfsJob], NEW t \in Callers, NEW j \in NfsJob,
           job' = [job EXCEPT ![t] = j]
    PROVE  Moves(t, j)
BY DEF Moves

LEMMA GoesTo ==
    ASSUME job \in [Callers -> NfsJob], NEW t \in Callers, NEW pc \in NfsPcs, Goto(t, pc)
    PROVE  Moves(t, [job[t] EXCEPT !.pc = pc])
<1>1. [job[t] EXCEPT !.pc = pc] \in NfsJob
    BY JobType
<1>2. job' = [job EXCEPT ![t] = [job[t] EXCEPT !.pc = pc]]
    BY DEF Goto
<1> QED  BY <1>1, <1>2, MovesTo

LEMMA ReturnsIdle ==
    ASSUME job \in [Callers -> NfsJob], NEW t \in Callers, Return(t)
    PROVE  Moves(t, IdleJob)
BY IdleJobType, MovesTo DEF Return

(* What each step does to the calls.                                       *)
LEMMA WriteMoves ==
    ASSUME NfsTyped, NEW t \in Callers, NEW arg \in Arguments, WriteFile(t, arg)
    PROVE  \E j : /\ Moves(t, j) /\ j.pc = "store" /\ j.new = NoCapsule /\ j.drop = NoCapsule
                  /\ j.path = Full(NormalizePath(arg)) /\ j.parent = ParentPath(NormalizePath(arg))
<1> DEFINE path == Full(NormalizePath(arg))
           parent == ParentPath(NormalizePath(arg))
           j == [IdleJob EXCEPT !.pc = "store", !.path = path, !.parent = parent]
<1>1. path \in Seq(Names) /\ parent \in Seq(Names)
    BY ArgumentPath DEF WriteFile, NfsTyped
<1>2. job' = [job EXCEPT ![t] = j]
    BY DEF WriteFile
<1> HIDE DEF path, parent
<1>3. j \in NfsJob
    BY <1>1, IdleJobType, JobType DEF NfsPcs
<1>4. j.pc = "store" /\ j.new = NoCapsule /\ j.drop = NoCapsule /\ j.path = path /\ j.parent = parent
    BY DEF IdleJob
<1> HIDE DEF j
<1>5. Moves(t, j)
    BY <1>2, <1>3, MovesTo DEF NfsTyped
<1> QED  BY <1>4, <1>5 DEF path, parent

LEMMA DeleteMoves ==
    ASSUME NfsTyped, NEW t \in Callers, NEW arg \in Arguments, Delete(t, arg),
           NEW p, p = Full(NormalizePath(arg))
    PROVE  /\ p \in Seq(Names) /\ p # Root /\ p \in DOMAIN nodes /\ nodes' = Without(nodes, p)
           /\ \E j : /\ Moves(t, j) /\ j.new = NoCapsule /\ j.parent = Root
                     /\ nodes[p] = Directory => j.pc = "persist"
                     /\ nodes[p] # Directory => j.pc = "reclaim" /\ j.drop = nodes[p]
<1>1. p \in Seq(Names)
    BY ArgumentPath DEF NfsTyped
<1>2. p # Root /\ p \in DOMAIN nodes /\ nodes' = Without(nodes, p)
    BY DEF Delete
<1>3. CASE nodes[p] = Directory
    <2> DEFINE j == [IdleJob EXCEPT !.pc = "persist"]
    <2>1. job' = [job EXCEPT ![t] = j]
        BY <1>3 DEF Delete
    <2>2. j \in NfsJob
        BY IdleJobType, JobType DEF NfsPcs
    <2>3. j.pc = "persist" /\ j.new = NoCapsule /\ j.parent = Root
        BY DEF IdleJob
    <2> HIDE DEF j
    <2>4. Moves(t, j)
        BY <2>1, <2>2, MovesTo DEF NfsTyped
    <2> QED  BY <1>1, <1>2, <1>3, <2>3, <2>4
<1>4. CASE nodes[p] # Directory
    <2> DEFINE c == nodes[p]
               j == [IdleJob EXCEPT !.pc = "reclaim", !.drop = c]
    <2>1. job' = [job EXCEPT ![t] = j]
        BY <1>4 DEF Delete
    <2>2. c \in 0 .. MaxCapsules
        BY <1>2, <1>4 DEF NfsTyped, Namespace, NodeMap
    <2> HIDE DEF c
    <2>3. j \in NfsJob
        BY <2>2, IdleJobType, JobType DEF NfsPcs
    <2>4. j.pc = "reclaim" /\ j.new = NoCapsule /\ j.parent = Root /\ j.drop = c
        BY DEF IdleJob
    <2> HIDE DEF j
    <2>5. Moves(t, j)
        BY <2>1, <2>3, MovesTo DEF NfsTyped
    <2> QED  BY <1>1, <1>2, <1>4, <2>4, <2>5 DEF c
<1> QED  BY <1>3, <1>4

LEMMA StoreMoves ==
    ASSUME NfsTyped, NEW t \in Callers, StoreCapsule(t)
    PROVE  \E j : /\ Moves(t, j) /\ j.pc = "insert" /\ j.new = next_capsule
                  /\ j.path = job[t].path /\ j.parent = job[t].parent /\ j.drop = job[t].drop
<1> DEFINE n == next_capsule
           j == [job[t] EXCEPT !.pc = "insert", !.new = n]
<1>1. job[t] \in NfsJob /\ n \in 0 .. MaxCapsules
    BY NfsAssumption DEF StoreCapsule, NfsTyped
<1>2. job' = [job EXCEPT ![t] = j]
    BY DEF StoreCapsule
<1> HIDE DEF n
<1>3. j \in NfsJob
    BY <1>1, JobType DEF NfsPcs
<1>4. /\ j.pc = "insert" /\ j.new = n /\ j.path = job[t].path /\ j.parent = job[t].parent
      /\ j.drop = job[t].drop
    BY <1>1 DEF NfsJob
<1> HIDE DEF j
<1>5. Moves(t, j)
    BY <1>2, <1>3, MovesTo DEF NfsTyped
<1> QED  BY <1>4, <1>5 DEF n

(* The parents of a write are made; then the write is refused, or its file *)
(* is put in place and what it replaces is to be deleted.                  *)
LEMMA InsertMoves ==
    ASSUME NfsTyped, NEW t \in Callers, InsertFile(t),
           NEW made, made = EnsureDirectory(nodes, Components(job[t].parent))
    PROVE  /\ Namespace(made) /\ DOMAIN nodes \subseteq DOMAIN made
           /\ \A q \in DOMAIN made : made[q] = IF q \in DOMAIN nodes THEN nodes[q] ELSE Directory
           /\ \/ /\ PathConflict(nodes, Components(job[t].parent))
                 /\ nodes' = made /\ Moves(t, IdleJob)
              \/ /\ ~PathConflict(nodes, Components(job[t].parent))
                 /\ nodes' = Put(made, job[t].path, job[t].new)
                 /\ \E j : /\ Moves(t, j) /\ j.parent = job[t].parent /\ j.drop = OldCapsule(t)
                           /\ OldCapsule(t) = NoCapsule => j.pc = "persist"
                           /\ OldCapsule(t) # NoCapsule => j.pc = "reclaim"
<1> DEFINE parents == Components(job[t].parent)
<1>1. job[t] \in NfsJob /\ job[t].parent \in Seq(Names)
    BY DEF NfsTyped, NfsJob
<1>2. parents \in Seq(Seq(Names))
    BY <1>1, ComponentsType
<1> HIDE DEF parents
<1>3. /\ Namespace(made) /\ DOMAIN nodes \subseteq DOMAIN made
      /\ \A q \in DOMAIN made : made[q] = IF q \in DOMAIN nodes THEN nodes[q] ELSE Directory
    BY <1>2, EnsureAdds DEF parents, NfsTyped
<1>4. CASE PathConflict(nodes, parents)
    <2>1. nodes' = made /\ Return(t)
        BY <1>4 DEF InsertFile, parents
    <2>2. Moves(t, IdleJob)
        BY <2>1, ReturnsIdle DEF NfsTyped
    <2> QED  BY <1>3, <1>4, <2>1, <2>2 DEF parents
<1>5. CASE ~PathConflict(nodes, parents)
    <2> DEFINE c == OldCapsule(t)
               pc == IF c = NoCapsule THEN "persist" ELSE "reclaim"
               j == [job[t] EXCEPT !.drop = c, !.pc = pc]
    <2>1. nodes' = Put(made, job[t].path, job[t].new) /\ job' = [job EXCEPT ![t] = j]
        BY <1>5 DEF InsertFile, parents
    <2>2. c \in 0 .. MaxCapsules
        BY NfsAssumption DEF OldCapsule, IsFile, NoCapsule, NfsTyped, Namespace, NodeMap
    <2>3. pc \in NfsPcs /\ (c = NoCapsule => pc = "persist") /\ (c # NoCapsule => pc = "reclaim")
        BY DEF NfsPcs
    <2> HIDE DEF c, pc
    <2>4. j \in NfsJob
        BY <1>1, <2>2, <2>3, JobType
    <2>5. j.parent = job[t].parent /\ j.drop = c /\ j.pc = pc
        BY <1>1 DEF NfsJob
    <2> HIDE DEF j
    <2>6. Moves(t, j)
        BY <2>1, <2>4, MovesTo DEF NfsTyped
    <2>7. \E k : /\ Moves(t, k) /\ k.parent = job[t].parent /\ k.drop = c
                 /\ c = NoCapsule => k.pc = "persist"
                 /\ c # NoCapsule => k.pc = "reclaim"
        BY <2>3, <2>5, <2>6
    <2> QED  BY <1>3, <1>5, <2>1, <2>7 DEF parents, c
<1> QED  BY <1>4, <1>5

-----------------------------------------------------------------------------
(* Who owns the capsules, as entries and calls change.                     *)
Passes(h, g, t, x) == g[t] = x /\ \A u \in Callers : u # t => g[u] = h[u]

LEMMA HandsPass ==
    ASSUME NEW t \in Callers, NEW j, Moves(t, j)
    PROVE  Passes(Hands, Hands', t, HeldBy(j))
<1>1. Hands'[t] = HeldBy(j)
    BY DEF Hands, Moves
<1>2. ASSUME NEW u \in Callers, u # t PROVE Hands'[u] = Hands[u]
    BY <1>2 DEF Hands, Moves
<1> QED  BY <1>1, <1>2 DEF Passes

LEMMA OwnsNothing ==
    ASSUME NEW m, NEW live, NEW h, Owns(m, live, h), NEW t \in Callers,
           NEW g, Passes(h, g, t, NoCapsule)
    PROVE  Owns(m, live, g)
BY DEF Owns, Passes

LEMMA OwnsStored ==
    ASSUME NEW m, NEW live, NEW h, Owns(m, live, h), NEW t \in Callers,
           NEW c, c \notin live, c # Directory, NEW g, Passes(h, g, t, c)
    PROVE  Owns(m, live \cup {c}, g)
BY DEF Owns, Passes

LEMMA OwnsDirectories ==
    ASSUME NEW m, NEW live, Directory \notin live, NEW h, Owns(m, live, h),
           NEW e, DOMAIN m \subseteq DOMAIN e,
           \A q \in DOMAIN e : e[q] = IF q \in DOMAIN m THEN m[q] ELSE Directory
    PROVE  Owns(e, live, h)
BY DEF Owns

LEMMA OwnsPut ==
    ASSUME NEW m, NEW live, Directory \notin live, NoCapsule \notin live,
           NEW h, Owns(m, live, h), NEW t \in Callers, h[t] # NoCapsule, NEW p,
           NEW x, x = IF IsFile(m, p) THEN m[p] ELSE NoCapsule,
           NEW g, Passes(h, g, t, x)
    PROVE  Owns(Put(m, p, h[t]), live, g)
<1> DEFINE e == Put(m, p, h[t])
<1>1. DOMAIN e = DOMAIN m \cup {p} /\ \A q \in DOMAIN e : e[q] = IF q = p THEN h[t] ELSE m[q]
    BY DEF Put
<1> HIDE DEF e
<1>2. h[t] \in live /\ \A q \in DOMAIN m : m[q] # h[t]
    BY DEF Owns
<1>3. \A q \in DOMAIN e : e[q] \in live \cup {Directory}
    BY <1>1, <1>2 DEF Owns
<1>4. \A q, r \in DOMAIN e : q # r => e[q] # e[r] \/ e[q] = Directory
    BY <1>1, <1>2 DEF Owns
<1>5. ASSUME x # NoCapsule
      PROVE  IsFile(m, p) /\ x = m[p] /\ x \in live
    BY <1>5 DEF IsFile, Owns
<1>6. ASSUME NEW u \in Callers, g[u] # NoCapsule
      PROVE  g[u] \in live /\ \A q \in DOMAIN e : e[q] # g[u]
    <2>1. CASE u = t
        BY <2>1, <1>1, <1>2, <1>5, <1>6 DEF Owns, Passes, IsFile
    <2>2. CASE u # t
        BY <2>2, <1>1, <1>2, <1>6 DEF Owns, Passes
    <2> QED  BY <2>1, <2>2
<1>7. ASSUME NEW u \in Callers, NEW v \in Callers, u # v
      PROVE  g[u] # g[v] \/ g[u] = NoCapsule
    BY <1>5, <1>7 DEF Owns, Passes, IsFile
<1> QED  BY <1>3, <1>4, <1>6, <1>7 DEF Owns, e

LEMMA OwnsWithout ==
    ASSUME NEW m, NEW live, Directory \notin live, NoCapsule \notin live,
           NEW h, Owns(m, live, h), NEW t \in Callers, NEW p \in DOMAIN m,
           NEW x, x = IF IsFile(m, p) THEN m[p] ELSE NoCapsule,
           NEW g, Passes(h, g, t, x)
    PROVE  Owns(Without(m, p), live, g)
<1> DEFINE e == Without(m, p)
<1>1. DOMAIN e = DOMAIN m \ {p} /\ \A q \in DOMAIN e : e[q] = m[q]
    BY DEF Without
<1> HIDE DEF e
<1>3. \A q \in DOMAIN e : e[q] \in live \cup {Directory}
    BY <1>1 DEF Owns
<1>4. \A q, r \in DOMAIN e : q # r => e[q] # e[r] \/ e[q] = Directory
    BY <1>1 DEF Owns
<1>5. ASSUME x # NoCapsule
      PROVE  m[p] # Directory /\ x = m[p] /\ x \in live
    BY <1>5 DEF IsFile, Owns
<1>6. ASSUME NEW u \in Callers, g[u] # NoCapsule
      PROVE  g[u] \in live /\ \A q \in DOMAIN e : e[q] # g[u]
    BY <1>1, <1>5, <1>6 DEF Owns, Passes
<1>7. ASSUME NEW u \in Callers, NEW v \in Callers, u # v
      PROVE  g[u] # g[v] \/ g[u] = NoCapsule
    BY <1>5, <1>7 DEF Owns, Passes
<1> QED  BY <1>3, <1>4, <1>6, <1>7 DEF Owns, e

LEMMA OwnsReclaimed ==
    ASSUME NEW m, NEW live, Directory \notin live, NoCapsule \notin live,
           NEW h, Owns(m, live, h), NEW t \in Callers, NEW g, Passes(h, g, t, NoCapsule)
    PROVE  Owns(m, live \ {h[t]}, g)
BY DEF Owns, Passes

(* And no capsule is forgotten.                                            *)
LEMMA HeldNothing ==
    ASSUME NEW m, NEW live, NEW h, Held(m, live, h), NEW t \in Callers, h[t] = NoCapsule,
           NoCapsule \notin live, NEW g, Passes(h, g, t, NoCapsule)
    PROVE  Held(m, live, g)
BY DEF Held, Passes

LEMMA HeldStored ==
    ASSUME NEW m, NEW live, NEW h, Held(m, live, h), NEW t \in Callers, h[t] = NoCapsule,
           NoCapsule \notin live, NEW c, NEW g, Passes(h, g, t, c)
    PROVE  Held(m, live \cup {c}, g)
BY DEF Held, Passes

LEMMA HeldDirectories ==
    ASSUME NEW m, NEW live, NEW h, Held(m, live, h), NEW e, DOMAIN m \subseteq DOMAIN e,
           \A q \in DOMAIN e : e[q] = IF q \in DOMAIN m THEN m[q] ELSE Directory
    PROVE  Held(e, live, h)
BY DEF Held

LEMMA HeldPut ==
    ASSUME NEW m, NEW live, Directory \notin live, NEW h, Held(m, live, h), NEW t \in Callers,
           NEW p, NEW x, x = IF IsFile(m, p) THEN m[p] ELSE NoCapsule,
           NEW g, Passes(h, g, t, x)
    PROVE  Held(Put(m, p, h[t]), live, g)
<1> DEFINE e == Put(m, p, h[t])
<1>1. DOMAIN e = DOMAIN m \cup {p} /\ \A q \in DOMAIN e : e[q] = IF q = p THEN h[t] ELSE m[q]
    BY DEF Put
<1> HIDE DEF e
<1>2. ASSUME NEW c \in live
      PROVE  (\E q \in DOMAIN e : e[q] = c) \/ \E u \in Callers : g[u] = c
    <2>1. CASE \E q \in DOMAIN m : m[q] = c
        <3>1. PICK q \in DOMAIN m : m[q] = c
            BY <2>1
        <3>2. CASE q = p
            <4>1. x = c
                BY <3>1, <3>2 DEF IsFile
            <4> QED  BY <4>1 DEF Passes
        <3>3. CASE q # p
            BY <3>1, <3>3, <1>1
        <3> QED  BY <3>2, <3>3
    <2>2. CASE h[t] = c
        BY <2>2, <1>1
    <2>3. CASE \E u \in Callers : u # t /\ h[u] = c
        BY <2>3 DEF Passes
    <2> QED  BY <2>1, <2>2, <2>3 DEF Held
<1> QED  BY <1>2 DEF Held, e

LEMMA HeldWithout ==
    ASSUME NEW m, NEW live, Directory \notin live, NoCapsule \notin live,
           NEW h, Held(m, live, h), NEW t \in Callers, h[t] = NoCapsule,
           NEW p \in DOMAIN m, NEW x, x = IF IsFile(m, p) THEN m[p] ELSE NoCapsule,
           NEW g, Passes(h, g, t, x)
    PROVE  Held(Without(m, p), live, g)
<1> DEFINE e == Without(m, p)
<1>1. DOMAIN e = DOMAIN m \ {p} /\ \A q \in DOMAIN e : e[q] = m[q]
    BY DEF Without
<1> HIDE DEF e
<1>2. ASSUME NEW c \in live
      PROVE  (\E q \in DOMAIN e : e[q] = c) \/ \E u \in Callers : g[u] = c
    <2>1. CASE \E q \in DOMAIN m : m[q] = c
        <3>1. PICK q \in DOMAIN m : m[q] = c
            BY <2>1
        <3>2. CASE q = p
            <4>1. x = c
                BY <3>1, <3>2 DEF IsFile
            <4> QED  BY <4>1 DEF Passes
        <3>3. CASE q # p
            BY <3>1, <3>3, <1>1
        <3> QED  BY <3>2, <3>3
    <2>2. CASE \E u \in Callers : u # t /\ h[u] = c
        BY <2>2 DEF Passes
    <2> QED  BY <2>1, <2>2 DEF Held
<1> QED  BY <1>2 DEF Held, e

LEMMA HeldReclaimed ==
    ASSUME NEW m, NEW live, NoCapsule \notin live,
           NEW h, Held(m, live, h), NEW t \in Callers, NEW g, Passes(h, g, t, NoCapsule)
    PROVE  Held(m, live \ {h[t]}, g)
BY DEF Held, Passes

-----------------------------------------------------------------------------
(* The steps that only move a call on.                                     *)
LEMMA MkdirMoves ==
    ASSUME NfsTyped, NEW t \in Callers, NEW arg \in Arguments, Mkdir(t, arg)
    PROVE  /\ Namespace(nodes') /\ DOMAIN nodes \subseteq DOMAIN nodes'
           /\ \A q \in DOMAIN nodes' : nodes'[q] = IF q \in DOMAIN nodes THEN nodes[q] ELSE Directory
           /\ job[t].pc = "idle"
           /\ \/ PathConflict(nodes, NormalizePath(arg)) /\ UNCHANGED job
              \/ \E j : /\ Moves(t, j) /\ j.pc = "persist" /\ j.new = job[t].new
                        /\ j.parent = job[t].parent
<1>1. job[t] \in NfsJob /\ job \in [Callers -> NfsJob]
    BY DEF NfsTyped
<1>2. /\ job[t].pc = "idle" /\ nodes' = EnsureDirectory(nodes, NormalizePath(arg))
      /\ PathConflict(nodes, NormalizePath(arg)) => UNCHANGED job
      /\ ~PathConflict(nodes, NormalizePath(arg)) => Goto(t, "persist")
    BY DEF Mkdir, Start, At
<1>3. NormalizePath(arg) \in Seq(Seq(Names))
    BY ArgumentPath DEF NfsTyped
<1>4. /\ Namespace(nodes') /\ DOMAIN nodes \subseteq DOMAIN nodes'
      /\ \A q \in DOMAIN nodes' : nodes'[q] = IF q \in DOMAIN nodes THEN nodes[q] ELSE Directory
    BY <1>2, <1>3, EnsureAdds DEF NfsTyped
<1>5. ASSUME Goto(t, "persist")
      PROVE  \E j : /\ Moves(t, j) /\ j.pc = "persist" /\ j.new = job[t].new
                    /\ j.parent = job[t].parent
    <2> DEFINE j == [job[t] EXCEPT !.pc = "persist"]
    <2>1. Moves(t, j)
        BY <1>1, <1>5, GoesTo DEF NfsPcs
    <2>2. j.pc = "persist" /\ j.new = job[t].new /\ j.parent = job[t].parent
        BY <1>1 DEF NfsJob
    <2> QED  BY <2>1, <2>2
<1> QED  BY <1>2, <1>4, <1>5

LEMMA ReclaimMoves ==
    ASSUME NfsTyped, NEW t \in Callers, Reclaim(t)
    PROVE  \E j : /\ Moves(t, j) /\ j.pc = "persist" /\ j.new = job[t].new
                  /\ j.parent = job[t].parent /\ j.drop = job[t].drop
<1>1. job[t] \in NfsJob /\ job \in [Callers -> NfsJob] /\ Goto(t, "persist")
    BY DEF NfsTyped, Reclaim
<1> DEFINE j == [job[t] EXCEPT !.pc = "persist"]
<1>2. Moves(t, j)
    BY <1>1, GoesTo DEF NfsPcs
<1>3. j.pc = "persist" /\ j.new = job[t].new /\ j.parent = job[t].parent /\ j.drop = job[t].drop
    BY <1>1 DEF NfsJob
<1> QED  BY <1>2, <1>3

LEMMA ReturnMoves ==
    ASSUME NfsTyped, NEW t \in Callers, StoreFails(t) \/ Persist(t) \/ PersistFails(t)
    PROVE  Moves(t, IdleJob)
BY ReturnsIdle DEF NfsTyped, StoreFails, Persist, PersistFails

LEMMA MovesTyped ==
    ASSUME NfsTyped, NEW t \in Callers, NEW j, Moves(t, j), j.pc = "insert" => j.new # NoCapsule
    PROVE  /\ job' \in [Callers -> NfsJob]
           /\ \A u \in Callers : job'[u].pc = "insert" => job'[u].new # NoCapsule
<1>1. ASSUME NEW u \in Callers PROVE job'[u].pc = "insert" => job'[u].new # NoCapsule
    <2>1. CASE u = t
        BY <2>1 DEF Moves
    <2>2. CASE u # t
        BY <2>2 DEF Moves, NfsTyped
    <2> QED  BY <2>1, <2>2
<1> QED  BY <1>1 DEF Moves

LEMMA IdleJobMoves == IdleJob.pc = "idle" /\ IdleJob.parent = Root /\ HeldBy(IdleJob) = NoCapsule
BY DEF IdleJob, HeldBy

LEMMA NfsTypedInit == NfsInit => NfsTyped
<1> SUFFICES ASSUME NfsInit
             PROVE  NfsTyped
    OBVIOUS
<1>1. Namespace(Empty) /\ Empty = namespace_file
    BY DEF NfsInit, Namespace, NodeMap, IsMap, Empty
<1>2. Namespace(nodes)
    BY <1>1, RootNode DEF NfsInit
<1>3. job \in [Callers -> NfsJob] /\ \A t \in Callers : job[t].pc # "insert"
    BY IdleJobType, IdleJobMoves DEF NfsInit
<1>4. usage \in Usages /\ fails \in 0 .. usage.fails /\ crashes \in 0 .. usage.crashes
    BY NfsAssumption DEF NfsInit
<1>5. stored \subseteq 1 .. (next_capsule - 1) /\ next_capsule \in 1 .. (MaxCapsules + 1)
    BY NfsAssumption DEF NfsInit
<1> QED  BY <1>1, <1>2, <1>3, <1>4, <1>5 DEF NfsTyped

LEMMA NfsTypedStep ==
    ASSUME NfsTyped, [NfsNext]_nfs_vars
    PROVE  NfsTyped'
<1> USE DEF NfsTyped
<1>0. CASE UNCHANGED nfs_vars
    BY <1>0 DEF nfs_vars, Namespace, NodeMap, IsMap
<1>1. ASSUME NEW t \in Callers, NEW arg \in Arguments, WriteFile(t, arg) PROVE NfsTyped'
    <2>1. PICK j : Moves(t, j) /\ j.pc = "store"
        BY <1>1, WriteMoves
    <2>2. /\ job' \in [Callers -> NfsJob]
          /\ \A u \in Callers : job'[u].pc = "insert" => job'[u].new # NoCapsule
        BY <2>1, MovesTyped
    <2> QED  BY <1>1, <2>2 DEF WriteFile
<1>2. ASSUME NEW t \in Callers, NEW arg \in Arguments, Mkdir(t, arg) PROVE NfsTyped'
    <2>1. /\ Namespace(nodes')
          /\ \/ UNCHANGED job
             \/ \E j : Moves(t, j) /\ j.pc = "persist"
        BY <1>2, MkdirMoves
    <2>2. /\ job' \in [Callers -> NfsJob]
          /\ \A u \in Callers : job'[u].pc = "insert" => job'[u].new # NoCapsule
        <3>1. CASE UNCHANGED job
            BY <3>1
        <3>2. CASE \E j : Moves(t, j) /\ j.pc = "persist"
            BY <3>2, MovesTyped
        <3> QED  BY <2>1, <3>1, <3>2
    <2> QED  BY <1>2, <2>1, <2>2 DEF Mkdir
<1>3. ASSUME NEW t \in Callers, NEW arg \in Arguments, Delete(t, arg) PROVE NfsTyped'
    <2> DEFINE p == Full(NormalizePath(arg))
    <2>1. /\ p \in Seq(Names) /\ nodes' = Without(nodes, p)
          /\ \E j : Moves(t, j) /\ j.pc # "insert"
        BY <1>3, DeleteMoves
    <2>2. /\ job' \in [Callers -> NfsJob]
          /\ \A u \in Callers : job'[u].pc = "insert" => job'[u].new # NoCapsule
        BY <2>1, MovesTyped
    <2>3. Namespace(nodes')
        <3>1. Directory \in {Directory} \cup 1 .. MaxCapsules
            OBVIOUS
        <3> QED  BY <2>1, <3>1, PutNode
    <2> QED  BY <1>3, <2>2, <2>3 DEF Delete
<1>4. ASSUME NEW t \in Callers, StoreCapsule(t) PROVE NfsTyped'
    <2>1. PICK j : Moves(t, j) /\ j.new = next_capsule
        BY <1>4, StoreMoves
    <2>2. next_capsule # NoCapsule
        BY DEF NoCapsule
    <2>3. /\ job' \in [Callers -> NfsJob]
          /\ \A u \in Callers : job'[u].pc = "insert" => job'[u].new # NoCapsule
        BY <2>1, <2>2, MovesTyped
    <2>4. /\ stored' \subseteq 1 .. (next_capsule' - 1)
          /\ next_capsule' \in 1 .. (MaxCapsules + 1)
        BY <1>4, NfsAssumption DEF StoreCapsule
    <2> QED  BY <1>4, <2>3, <2>4 DEF StoreCapsule
<1>5. ASSUME NEW t \in Callers, StoreFails(t) PROVE NfsTyped'
    <2>1. /\ job' \in [Callers -> NfsJob]
          /\ \A u \in Callers : job'[u].pc = "insert" => job'[u].new # NoCapsule
        BY <1>5, ReturnMoves, MovesTyped, IdleJobMoves
    <2>2. fails' \in 0 .. usage.fails
        BY <1>5, NfsAssumption DEF StoreFails, Fails
    <2> QED  BY <1>5, <2>1, <2>2 DEF StoreFails
<1>6. ASSUME NEW t \in Callers, InsertFile(t) PROVE NfsTyped'
    <2> DEFINE made == EnsureDirectory(nodes, Components(job[t].parent))
    <2>1. /\ Namespace(made)
          /\ \/ nodes' = made /\ Moves(t, IdleJob)
             \/ /\ nodes' = Put(made, job[t].path, job[t].new)
                /\ \E j : Moves(t, j) /\ j.pc # "insert"
        BY <1>6, InsertMoves
    <2> HIDE DEF made
    <2>2. job[t].path \in Seq(Names) /\ job[t].new \in {Directory} \cup 1 .. MaxCapsules
        <3>1. job[t] \in NfsJob /\ job[t].new # NoCapsule
            BY <1>6 DEF InsertFile, At
        <3> QED  BY <3>1, NfsAssumption DEF NfsJob, NoCapsule
    <2>3. Namespace(nodes')
        BY <2>1, <2>2, PutNode
    <2>4. /\ job' \in [Callers -> NfsJob]
          /\ \A u \in Callers : job'[u].pc = "insert" => job'[u].new # NoCapsule
        BY <2>1, MovesTyped, IdleJobMoves
    <2> QED  BY <1>6, <2>3, <2>4 DEF InsertFile
<1>7. ASSUME NEW t \in Callers, Reclaim(t) PROVE NfsTyped'
    <2>1. PICK j : Moves(t, j) /\ j.pc = "persist"
        BY <1>7, ReclaimMoves
    <2>2. /\ job' \in [Callers -> NfsJob]
          /\ \A u \in Callers : job'[u].pc = "insert" => job'[u].new # NoCapsule
        BY <2>1, MovesTyped
    <2>3. stored' \subseteq stored /\ fails' \in 0 .. usage.fails
        BY <1>7, NfsAssumption DEF Reclaim, Fails
    <2> QED  BY <1>7, <2>2, <2>3 DEF Reclaim
<1>8. ASSUME NEW t \in Callers, Persist(t) PROVE NfsTyped'
    <2>1. /\ job' \in [Callers -> NfsJob]
          /\ \A u \in Callers : job'[u].pc = "insert" => job'[u].new # NoCapsule
        BY <1>8, ReturnMoves, MovesTyped, IdleJobMoves
    <2> QED  BY <1>8, <2>1 DEF Persist
<1>9. ASSUME NEW t \in Callers, PersistFails(t) PROVE NfsTyped'
    <2>1. /\ job' \in [Callers -> NfsJob]
          /\ \A u \in Callers : job'[u].pc = "insert" => job'[u].new # NoCapsule
        BY <1>9, ReturnMoves, MovesTyped, IdleJobMoves
    <2>2. fails' \in 0 .. usage.fails
        BY <1>9, NfsAssumption DEF PersistFails, Fails
    <2> QED  BY <1>9, <2>1, <2>2 DEF PersistFails
<1>10. CASE Restart
    <2>1. job' \in [Callers -> NfsJob] /\ \A t \in Callers : job'[t].pc # "insert"
        BY <1>10, IdleJobType, IdleJobMoves DEF Restart
    <2>2. Namespace(nodes')
        BY <1>10, RootNode DEF Restart
    <2>3. crashes' \in 0 .. usage.crashes
        BY <1>10, NfsAssumption DEF Restart
    <2> QED  BY <1>10, <2>1, <2>2, <2>3 DEF Restart
<1> QED  BY <1>0, <1>1, <1>2, <1>3, <1>4, <1>5, <1>6, <1>7, <1>8, <1>9, <1>10, NfsSteps

LEMMA LiveCapsules ==
    ASSUME NfsTyped
    PROVE  /\ Directory \notin stored /\ NoCapsule \notin stored /\ next_capsule \notin stored
           /\ next_capsule <= MaxCapsules => next_capsule # Directory
<1>1. next_capsule \in 1 .. (MaxCapsules + 1) /\ MaxCapsules \in Nat /\ Directory \notin 0 .. MaxCapsules
    BY NfsAssumption DEF NfsTyped
<1>2. stored \subseteq 1 .. (next_capsule - 1)
    BY DEF NfsTyped
<1>3. \A c \in 1 .. (next_capsule - 1) : c \in 0 .. MaxCapsules /\ c # 0 /\ c # next_capsule
    BY <1>1
<1>4. next_capsule <= MaxCapsules => next_capsule \in 0 .. MaxCapsules
    BY <1>1
<1> QED  BY <1>1, <1>2, <1>3, <1>4 DEF NoCapsule

LEMMA NfsBound ==
    ASSUME NfsTyped, [NfsNext]_nfs_vars
    PROVE  /\ usage' = usage
           /\ crashes' = usage.crashes => crashes = usage.crashes
           /\ fails' = usage.fails => fails = usage.fails
           /\ Restart => crashes' # usage.crashes
<1>1. usage.fails \in Nat /\ usage.crashes \in Nat
    BY NfsAssumption DEF NfsTyped
<1>2. fails \in 0 .. usage.fails /\ crashes \in 0 .. usage.crashes
    BY DEF NfsTyped
<1>3. usage' = usage
    BY NfsSteps DEF nfs_vars, WriteFile, StoreCapsule, StoreFails, InsertFile, Mkdir, Delete,
                    Reclaim, Persist, PersistFails, Restart
<1>4. crashes' = crashes \/ crashes' = crashes - 1
    BY NfsSteps DEF nfs_vars, WriteFile, StoreCapsule, StoreFails, InsertFile, Mkdir, Delete,
                    Reclaim, Persist, PersistFails, Restart
<1>5. fails' = fails \/ fails' = fails - 1
    BY NfsSteps DEF nfs_vars, WriteFile, StoreCapsule, StoreFails, InsertFile, Mkdir, Delete,
                    Reclaim, Persist, PersistFails, Restart, Fails
<1>6. Restart => crashes' = crashes - 1
    BY DEF Restart
<1> QED  BY <1>1, <1>2, <1>3, <1>4, <1>5, <1>6

(* A capsule in the namespace is live, and is so in one place only.        *)
LEMMA NfsOwnedStep ==
    ASSUME NfsTyped, NfsOwned, [NfsNext]_nfs_vars
    PROVE  NfsOwned'
<1> SUFFICES ASSUME crashes' = usage'.crashes
             PROVE  Owns(nodes', stored', Hands')
    BY DEF NfsOwned
<1>a. Owns(nodes, stored, Hands) /\ ~Restart
    BY NfsBound DEF NfsOwned
<1>b. /\ Directory \notin stored /\ NoCapsule \notin stored /\ next_capsule \notin stored
      /\ next_capsule <= MaxCapsules => next_capsule # Directory
    BY LiveCapsules
<1>0. CASE UNCHANGED nfs_vars
    BY <1>0, <1>a DEF nfs_vars, Hands
<1>1. ASSUME NEW t \in Callers, NEW arg \in Arguments, WriteFile(t, arg)
      PROVE  Owns(nodes', stored', Hands')
    <2>1. PICK j : Moves(t, j) /\ HeldBy(j) = NoCapsule
        BY <1>1, WriteMoves DEF HeldBy
    <2>2. nodes' = nodes /\ stored' = stored
        BY <1>1 DEF WriteFile
    <2> QED  BY <2>1, <2>2, <1>a, HandsPass, OwnsNothing
<1>2. ASSUME NEW t \in Callers, NEW arg \in Arguments, Mkdir(t, arg)
      PROVE  Owns(nodes', stored', Hands')
    <2>1. /\ DOMAIN nodes \subseteq DOMAIN nodes'
          /\ \A q \in DOMAIN nodes' : nodes'[q] = IF q \in DOMAIN nodes THEN nodes[q] ELSE Directory
          /\ UNCHANGED job \/ \E j : Moves(t, j) /\ HeldBy(j) = NoCapsule
        BY <1>2, MkdirMoves DEF HeldBy
    <2>2. Owns(nodes', stored, Hands) /\ stored' = stored
        BY <1>2, <1>a, <1>b, <2>1, OwnsDirectories DEF Mkdir
    <2>3. CASE UNCHANGED job
        BY <2>2, <2>3 DEF Hands
    <2>4. CASE \E j : Moves(t, j) /\ HeldBy(j) = NoCapsule
        BY <2>2, <2>4, HandsPass, OwnsNothing
    <2> QED  BY <2>1, <2>3, <2>4
<1>3. ASSUME NEW t \in Callers, NEW arg \in Arguments, Delete(t, arg)
      PROVE  Owns(nodes', stored', Hands')
    <2> DEFINE p == Full(NormalizePath(arg))
    <2>1. /\ p \in DOMAIN nodes /\ nodes' = Without(nodes, p)
          /\ \E j : /\ Moves(t, j)
                    /\ nodes[p] = Directory => j.pc = "persist"
                    /\ nodes[p] # Directory => j.pc = "reclaim" /\ j.drop = nodes[p]
        BY <1>3, DeleteMoves
    <2> HIDE DEF p
    <2>2. PICK j : Moves(t, j) /\ HeldBy(j) = IF IsFile(nodes, p) THEN nodes[p] ELSE NoCapsule
        BY <2>1 DEF HeldBy, IsFile
    <2>3. Passes(Hands, Hands', t, HeldBy(j)) /\ stored' = stored
        BY <1>3, <2>2, HandsPass DEF Delete
    <2>4. Owns(Without(nodes, p), stored, Hands')
        BY <1>a, <1>b, <2>1, <2>2, <2>3, OwnsWithout
    <2> QED  BY <2>1, <2>3, <2>4
<1>4. ASSUME NEW t \in Callers, StoreCapsule(t)
      PROVE  Owns(nodes', stored', Hands')
    <2>1. PICK j : Moves(t, j) /\ HeldBy(j) = next_capsule
        BY <1>4, StoreMoves DEF HeldBy
    <2>2. nodes' = nodes /\ stored' = stored \cup {next_capsule} /\ next_capsule # Directory
        BY <1>4, <1>b DEF StoreCapsule
    <2> QED  BY <2>1, <2>2, <1>a, <1>b, HandsPass, OwnsStored
<1>5. ASSUME NEW t \in Callers, StoreFails(t) \/ Persist(t) \/ PersistFails(t)
      PROVE  Owns(nodes', stored', Hands')
    <2>1. Moves(t, IdleJob) /\ HeldBy(IdleJob) = NoCapsule
        BY <1>5, ReturnMoves, IdleJobMoves
    <2>2. nodes' = nodes /\ stored' = stored
        BY <1>5 DEF StoreFails, Persist, PersistFails
    <2> QED  BY <2>1, <2>2, <1>a, HandsPass, OwnsNothing
<1>6. ASSUME NEW t \in Callers, InsertFile(t)
      PROVE  Owns(nodes', stored', Hands')
    <2> DEFINE made == EnsureDirectory(nodes, Components(job[t].parent))
               p == job[t].path
               x == OldCapsule(t)
    <2>1. /\ DOMAIN nodes \subseteq DOMAIN made
          /\ \A q \in DOMAIN made : made[q] = IF q \in DOMAIN nodes THEN nodes[q] ELSE Directory
          /\ \/ nodes' = made /\ Moves(t, IdleJob)
             \/ /\ nodes' = Put(made, p, job[t].new)
                /\ \E j : /\ Moves(t, j) /\ j.drop = x
                          /\ x = NoCapsule => j.pc = "persist"
                          /\ x # NoCapsule => j.pc = "reclaim"
        BY <1>6, InsertMoves
    <2>2. stored' = stored /\ Hands[t] = job[t].new /\ Hands[t] # NoCapsule
        BY <1>6 DEF InsertFile, At, Hands, HeldBy, NfsTyped
    <2>3. x = IF IsFile(made, p) THEN made[p] ELSE NoCapsule
        BY <2>1 DEF OldCapsule, IsFile
    <2> HIDE DEF made, p, x
    <2>4. Owns(made, stored, Hands)
        BY <1>a, <1>b, <2>1, OwnsDirectories
    <2>5. CASE nodes' = made /\ Moves(t, IdleJob)
        BY <2>2, <2>4, <2>5, IdleJobMoves, HandsPass, OwnsNothing
    <2>6. CASE /\ nodes' = Put(made, p, job[t].new)
               /\ \E j : /\ Moves(t, j) /\ j.drop = x
                         /\ x = NoCapsule => j.pc = "persist"
                         /\ x # NoCapsule => j.pc = "reclaim"
        <3>1. PICK j : Moves(t, j) /\ HeldBy(j) = x
            BY <2>6 DEF HeldBy
        <3>2. Passes(Hands, Hands', t, x)
            BY <3>1, HandsPass
        <3>3. Owns(Put(made, p, Hands[t]), stored, Hands')
            BY <1>b, <2>2, <2>3, <2>4, <3>2, OwnsPut
        <3> QED  BY <2>2, <2>6, <3>3
    <2> QED  BY <2>1, <2>5, <2>6
<1>7. ASSUME NEW t \in Callers, Reclaim(t)
      PROVE  Owns(nodes', stored', Hands')
    <2>1. PICK j : Moves(t, j) /\ HeldBy(j) = NoCapsule
        BY <1>7, ReclaimMoves DEF HeldBy
    <2>2. nodes' = nodes /\ (stored' = stored \/ stored' = stored \ {Hands[t]})
        BY <1>7 DEF Reclaim, At, Hands, HeldBy
    <2>3. Passes(Hands, Hands', t, NoCapsule)
        BY <2>1, HandsPass
    <2> QED  BY <2>2, <2>3, <1>a, <1>b, OwnsNothing, OwnsReclaimed
<1> QED  BY <1>a, <1>0, <1>1, <1>2, <1>3, <1>4, <1>5, <1>6, <1>7, NfsSteps

(* Names of the root only: nothing is in the way of a write.               *)
LEMMA ShortParent ==
    ASSUME usage \in Usages, usage.parts <= 1,
           NEW arg \in Arguments, NormalizePath(arg) # << >>
    PROVE  ParentPath(NormalizePath(arg)) = Root
<1> DEFINE comps == NormalizePath(arg)
           front == Front(comps)
<1>1. comps \in Seq(Seq(Names)) /\ Len(comps) <= usage.parts /\ usage.parts \in Nat
    BY ArgumentPath, NfsAssumption
<1>2. comps # << >>
    OBVIOUS
<1> HIDE DEF comps
<1>3. front \in Seq(Seq(Names)) /\ Len(front) = Len(comps) - 1 /\ Len(comps) \in Nat \ {0}
    BY <1>1, <1>2, FrontIs
<1> HIDE DEF front
<1>4. Len(front) = 0
    BY <1>1, <1>3
<1>5. front = << >>
    BY <1>3, <1>4
<1>6. FlattenSeq(front) = front
    BY <1>4 DEF FlattenSeq
<1> QED  BY <1>5, <1>6 DEF comps, front, ParentPath, Full, Root

LEMMA RootGranted ==
    ASSUME NEW m
    PROVE  ~PathConflict(m, Components(Root))
<1>1. Len(Components(Root)) = 0
    BY DEF Root, Components
<1> QED  BY <1>1 DEF PathConflict

LEMMA MovesRoot ==
    ASSUME AtRoot, NEW t \in Callers, NEW j, Moves(t, j), UNCHANGED usage,
           usage.parts <= 1 => j.parent = Root
    PROVE  AtRoot'
BY DEF AtRoot, Moves

LEMMA AtRootStep ==
    ASSUME NfsTyped, AtRoot, [NfsNext]_nfs_vars
    PROVE  AtRoot'
<1>a. usage' = usage /\ \A t \in Callers : usage.parts <= 1 => job[t].parent = Root
    BY NfsBound DEF AtRoot
<1>0. CASE UNCHANGED job
    BY <1>0, <1>a DEF AtRoot
<1>1. ASSUME NEW t \in Callers, NEW arg \in Arguments, WriteFile(t, arg) PROVE AtRoot'
    <2>1. PICK j : Moves(t, j) /\ j.parent = ParentPath(NormalizePath(arg))
        BY <1>1, WriteMoves
    <2>2. usage.parts <= 1 => ParentPath(NormalizePath(arg)) = Root
        BY <1>1, ShortParent DEF WriteFile, NfsTyped
    <2> QED  BY <2>1, <2>2, <1>a, MovesRoot
<1>2. ASSUME NEW t \in Callers, NEW arg \in Arguments, Mkdir(t, arg) PROVE AtRoot'
    <2>1. UNCHANGED job \/ \E j : Moves(t, j) /\ j.parent = job[t].parent
        BY <1>2, MkdirMoves
    <2> QED  BY <2>1, <1>0, <1>a, MovesRoot
<1>3. ASSUME NEW t \in Callers, NEW arg \in Arguments, Delete(t, arg) PROVE AtRoot'
    BY <1>3, <1>a, DeleteMoves, MovesRoot
<1>4. ASSUME NEW t \in Callers, StoreCapsule(t) PROVE AtRoot'
    BY <1>4, <1>a, StoreMoves, MovesRoot
<1>5. ASSUME NEW t \in Callers, StoreFails(t) \/ Persist(t) \/ PersistFails(t) PROVE AtRoot'
    BY <1>5, <1>a, ReturnMoves, IdleJobMoves, MovesRoot
<1>6. ASSUME NEW t \in Callers, InsertFile(t) PROVE AtRoot'
    <2>1. \E j : Moves(t, j) /\ (j.parent = Root \/ j.parent = job[t].parent)
        BY <1>6, InsertMoves, IdleJobMoves
    <2> QED  BY <2>1, <1>a, MovesRoot
<1>7. ASSUME NEW t \in Callers, Reclaim(t) PROVE AtRoot'
    BY <1>7, <1>a, ReclaimMoves, MovesRoot
<1>8. CASE Restart
    BY <1>8, IdleJobMoves DEF Restart, AtRoot
<1> QED  BY <1>0, <1>1, <1>2, <1>3, <1>4, <1>5, <1>6, <1>7, <1>8, NfsSteps DEF nfs_vars

(* Nothing failing, a capsule is in the namespace or a call has it.        *)
LEMMA AllHeldStep ==
    ASSUME NfsTyped, AtRoot, AllHeld, [NfsNext]_nfs_vars
    PROVE  AllHeld'
<1> SUFFICES ASSUME fails' = usage'.fails, crashes' = usage'.crashes, usage'.parts = 1
             PROVE  Held(nodes', stored', Hands')
    BY DEF AllHeld
<1>a. /\ Held(nodes, stored, Hands) /\ ~Restart /\ fails = usage.fails /\ fails' = fails
      /\ fails \in Nat /\ \A t \in Callers : job[t].parent = Root
    <2>1. usage' = usage /\ fails = usage.fails /\ crashes = usage.crashes /\ ~Restart
        BY NfsBound
    <2>2. fails \in Nat
        BY <2>1, NfsAssumption DEF NfsTyped
    <2> QED  BY <2>1, <2>2 DEF AllHeld, AtRoot
<1>b. Directory \notin stored /\ NoCapsule \notin stored
    BY LiveCapsules
<1>0. CASE UNCHANGED nfs_vars
    BY <1>0, <1>a DEF nfs_vars, Hands
<1>1. ASSUME NEW t \in Callers, NEW arg \in Arguments, WriteFile(t, arg)
      PROVE  Held(nodes', stored', Hands')
    <2>1. PICK j : Moves(t, j) /\ HeldBy(j) = NoCapsule
        BY <1>1, WriteMoves DEF HeldBy
    <2>2. nodes' = nodes /\ stored' = stored /\ Hands[t] = NoCapsule
        BY <1>1 DEF WriteFile, Start, At, Hands, HeldBy
    <2> QED  BY <2>1, <2>2, <1>a, <1>b, HandsPass, HeldNothing
<1>2. ASSUME NEW t \in Callers, NEW arg \in Arguments, Mkdir(t, arg)
      PROVE  Held(nodes', stored', Hands')
    <2>1. /\ DOMAIN nodes \subseteq DOMAIN nodes'
          /\ \A q \in DOMAIN nodes' : nodes'[q] = IF q \in DOMAIN nodes THEN nodes[q] ELSE Directory
          /\ Hands[t] = NoCapsule
          /\ UNCHANGED job \/ \E j : Moves(t, j) /\ HeldBy(j) = NoCapsule
        BY <1>2, MkdirMoves DEF HeldBy, Hands
    <2>2. Held(nodes', stored, Hands) /\ stored' = stored
        BY <1>2, <1>a, <2>1, HeldDirectories DEF Mkdir
    <2>3. CASE UNCHANGED job
        BY <2>2, <2>3 DEF Hands
    <2>4. CASE \E j : Moves(t, j) /\ HeldBy(j) = NoCapsule
        BY <1>b, <2>1, <2>2, <2>4, HandsPass, HeldNothing
    <2> QED  BY <2>1, <2>3, <2>4
<1>3. ASSUME NEW t \in Callers, NEW arg \in Arguments, Delete(t, arg)
      PROVE  Held(nodes', stored', Hands')
    <2> DEFINE p == Full(NormalizePath(arg))
    <2>1. /\ p \in DOMAIN nodes /\ nodes' = Without(nodes, p)
          /\ \E j : /\ Moves(t, j)
                    /\ nodes[p] = Directory => j.pc = "persist"
                    /\ nodes[p] # Directory => j.pc = "reclaim" /\ j.drop = nodes[p]
        BY <1>3, DeleteMoves
    <2> HIDE DEF p
    <2>2. PICK j : Moves(t, j) /\ HeldBy(j) = IF IsFile(nodes, p) THEN nodes[p] ELSE NoCapsule
        BY <2>1 DEF HeldBy, IsFile
    <2>3. Passes(Hands, Hands', t, HeldBy(j)) /\ stored' = stored /\ Hands[t] = NoCapsule
        BY <1>3, <2>2, HandsPass DEF Delete, Start, At, Hands, HeldBy
    <2>4. Held(Without(nodes, p), stored, Hands')
        BY <1>a, <1>b, <2>1, <2>2, <2>3, HeldWithout
    <2> QED  BY <2>1, <2>3, <2>4
<1>4. ASSUME NEW t \in Callers, StoreCapsule(t)
      PROVE  Held(nodes', stored', Hands')
    <2>1. PICK j : Moves(t, j) /\ HeldBy(j) = next_capsule
        BY <1>4, StoreMoves DEF HeldBy
    <2>2. nodes' = nodes /\ stored' = stored \cup {next_capsule} /\ Hands[t] = NoCapsule
        BY <1>4 DEF StoreCapsule, At, Hands, HeldBy
    <2> QED  BY <2>1, <2>2, <1>a, <1>b, HandsPass, HeldStored
<1>5. ASSUME NEW t \in Callers, StoreFails(t) \/ Persist(t) \/ PersistFails(t)
      PROVE  Held(nodes', stored', Hands')
    <2>1. Moves(t, IdleJob) /\ HeldBy(IdleJob) = NoCapsule
        BY <1>5, ReturnMoves, IdleJobMoves
    <2>2. nodes' = nodes /\ stored' = stored /\ Hands[t] = NoCapsule
        BY <1>5 DEF StoreFails, Persist, PersistFails, At, Hands, HeldBy
    <2> QED  BY <2>1, <2>2, <1>a, <1>b, HandsPass, HeldNothing
<1>6. ASSUME NEW t \in Callers, InsertFile(t)
      PROVE  Held(nodes', stored', Hands')
    <2> DEFINE made == EnsureDirectory(nodes, Components(job[t].parent))
               p == job[t].path
               x == OldCapsule(t)
    <2>0. ~PathConflict(nodes, Components(job[t].parent))
        BY <1>a, RootGranted
    <2>1. /\ DOMAIN nodes \subseteq DOMAIN made
          /\ \A q \in DOMAIN made : made[q] = IF q \in DOMAIN nodes THEN nodes[q] ELSE Directory
          /\ nodes' = Put(made, p, job[t].new)
          /\ \E j : /\ Moves(t, j) /\ j.drop = x
                    /\ x = NoCapsule => j.pc = "persist"
                    /\ x # NoCapsule => j.pc = "reclaim"
        BY <1>6, <2>0, InsertMoves
    <2>2. stored' = stored /\ Hands[t] = job[t].new
        BY <1>6 DEF InsertFile, At, Hands, HeldBy
    <2>3. x = IF IsFile(made, p) THEN made[p] ELSE NoCapsule
        BY <2>1 DEF OldCapsule, IsFile
    <2> HIDE DEF made, p, x
    <2>4. Held(made, stored, Hands)
        BY <1>a, <2>1, HeldDirectories
    <2>5. PICK j : Moves(t, j) /\ HeldBy(j) = x
        BY <2>1 DEF HeldBy
    <2>6. Passes(Hands, Hands', t, x)
        BY <2>5, HandsPass
    <2>7. Held(Put(made, p, Hands[t]), stored, Hands')
        BY <1>b, <2>3, <2>4, <2>6, HeldPut
    <2> QED  BY <2>1, <2>2, <2>7
<1>7. ASSUME NEW t \in Callers, Reclaim(t)
      PROVE  Held(nodes', stored', Hands')
    <2>1. PICK j : Moves(t, j) /\ HeldBy(j) = NoCapsule
        BY <1>7, ReclaimMoves DEF HeldBy
    <2>2. nodes' = nodes /\ stored' = stored \ {Hands[t]}
        BY <1>7, <1>a DEF Reclaim, Fails, At, Hands, HeldBy
    <2>3. Passes(Hands, Hands', t, NoCapsule)
        BY <2>1, HandsPass
    <2> QED  BY <2>2, <2>3, <1>a, <1>b, HeldReclaimed
<1> QED  BY <1>a, <1>0, <1>1, <1>2, <1>3, <1>4, <1>5, <1>6, <1>7, NfsSteps

(* What the saved namespace names is live, or its call is about to save.   *)
LEMMA SavedKept ==
    ASSUME SavedReadable, UNCHANGED namespace_file, stored \subseteq stored',
           NEW t \in Callers, job[t].pc # "persist", NEW j, Moves(t, j)
    PROVE  SavedReadable'
BY DEF SavedReadable, Moves, At

LEMMA SavedBackedStep ==
    ASSUME NfsTyped, NfsOwned, SavedBacked, [NfsNext]_nfs_vars
    PROVE  SavedBacked'
<1> SUFFICES ASSUME crashes' = usage'.crashes, fails' = usage'.fails
             PROVE  SavedReadable'
    BY DEF SavedBacked
<1>a. /\ SavedReadable /\ Owns(nodes, stored, Hands) /\ ~Restart
      /\ fails' = fails /\ fails \in Nat
    <2>1. usage' = usage /\ fails = usage.fails /\ crashes = usage.crashes /\ ~Restart
        BY NfsBound
    <2>2. fails \in Nat
        BY <2>1, NfsAssumption DEF NfsTyped
    <2> QED  BY <2>1, <2>2 DEF SavedBacked, NfsOwned
<1>0. CASE UNCHANGED nfs_vars
    BY <1>0, <1>a DEF nfs_vars, SavedReadable, At
<1>1. ASSUME NEW t \in Callers, NEW arg \in Arguments, WriteFile(t, arg) PROVE SavedReadable'
    <2>1. job[t].pc # "persist" /\ namespace_file' = namespace_file /\ stored' = stored
        BY <1>1 DEF WriteFile, Start, At
    <2> QED  BY <2>1, <1>1, <1>a, WriteMoves, SavedKept
<1>2. ASSUME NEW t \in Callers, NEW arg \in Arguments, Mkdir(t, arg) PROVE SavedReadable'
    <2>1. job[t].pc # "persist" /\ namespace_file' = namespace_file /\ stored' = stored
        BY <1>2 DEF Mkdir, Start, At
    <2>2. CASE UNCHANGED job
        BY <2>1, <2>2, <1>a DEF SavedReadable, At
    <2> QED  BY <2>1, <2>2, <1>2, <1>a, MkdirMoves, SavedKept
<1>3. ASSUME NEW t \in Callers, NEW arg \in Arguments, Delete(t, arg) PROVE SavedReadable'
    <2>1. job[t].pc # "persist" /\ namespace_file' = namespace_file /\ stored' = stored
        BY <1>3 DEF Delete, Start, At
    <2> QED  BY <2>1, <1>3, <1>a, DeleteMoves, SavedKept
<1>4. ASSUME NEW t \in Callers, StoreCapsule(t) PROVE SavedReadable'
    <2>1. job[t].pc # "persist" /\ namespace_file' = namespace_file /\ stored \subseteq stored'
        BY <1>4 DEF StoreCapsule, At
    <2> QED  BY <2>1, <1>4, <1>a, StoreMoves, SavedKept
<1>5. ASSUME NEW t \in Callers, StoreFails(t) \/ PersistFails(t) PROVE SavedReadable'
    BY <1>5, <1>a DEF StoreFails, PersistFails, Fails
<1>6. ASSUME NEW t \in Callers, InsertFile(t) PROVE SavedReadable'
    <2>1. job[t].pc # "persist" /\ namespace_file' = namespace_file /\ stored' = stored
        BY <1>6 DEF InsertFile, At
    <2>2. \E j : Moves(t, j)
        BY <1>6, InsertMoves
    <2> QED  BY <2>1, <2>2, <1>a, SavedKept
<1>7. ASSUME NEW t \in Callers, Reclaim(t) PROVE SavedReadable'
    <2>1. /\ job[t].pc # "persist" /\ namespace_file' = namespace_file
          /\ stored' = stored \ {job[t].drop}
        BY <1>7, <1>a DEF Reclaim, At, Fails
    <2>2. PICK j : Moves(t, j) /\ j.pc = "persist" /\ j.drop = job[t].drop
        BY <1>7, ReclaimMoves
    <2>3. job'[t].pc = "persist" /\ job'[t].drop = job[t].drop
        BY <2>2 DEF Moves
    <2>4. \A u \in Callers : u # t => job'[u] = job[u]
        BY <2>2 DEF Moves
    <2> QED  BY <2>1, <2>3, <2>4, <1>a DEF SavedReadable, At
<1>8. ASSUME NEW t \in Callers, Persist(t) PROVE SavedReadable'
    <2>1. namespace_file' = nodes /\ stored' = stored
        BY <1>8 DEF Persist
    <2> QED  BY <2>1, <1>a DEF SavedReadable, Owns
<1> QED  BY <1>a, <1>0, <1>1, <1>2, <1>3, <1>4, <1>5, <1>6, <1>7, <1>8, NfsSteps

-----------------------------------------------------------------------------
(* The tree.  It is kept if a backslash in an argument is not taken for a  *)
(* slash, and calls either run one at a time or name what is in the root.  *)
PlainUse ==
    /\ ~Backslashes
    /\ \A u \in Usages : u.serial \/ u.parts <= 1

LEMMA EnsureShaped ==
    ASSUME NfsTyped, NEW m, Namespace(m), Shaped(m), NEW p \in Seq(Names),
           usage.parts <= 1 => Len(p) <= 1,
           NEW e, e = EnsureDirectory(m, Components(p))
    PROVE  Shaped(e)
<1>1. Tree(e)
    BY EnsureTree DEF Shaped
<1>2. e = [q \in DOMAIN m \cup Made(m, p) |-> IF q \in DOMAIN m THEN m[q] ELSE Directory]
    BY EnsureIs
<1>3. ASSUME usage.parts <= 1 PROVE Short(e)
    <2>1. Len(p) <= 1 /\ Len(p) \in Nat
        BY <1>3
    <2>2. ASSUME NEW q \in Made(m, p) PROVE Len(q) <= 1
        <3>1. CASE q = Root
            BY <3>1 DEF Root
        <3>2. ASSUME NEW i \in 1 .. Len(p), q = SubSeq(p, 1, i) PROVE Len(q) <= 1
            <4>1. i \in 0 .. Len(p) /\ i <= 1
                BY <2>1
            <4>2. Len(q) = i
                BY <3>2, <4>1, PieceIs
            <4> QED  BY <4>1, <4>2
        <3> QED  BY <3>1, <3>2 DEF Made
    <2> QED  BY <1>2, <1>3, <2>2 DEF Short, Shaped
<1> QED  BY <1>1, <1>3 DEF Shaped

LEMMA WithoutShaped ==
    ASSUME NfsTyped, NEW m, Namespace(m), Shaped(m), NEW p \in DOMAIN m, p # Root,
           m[p] = Directory => ~HasEntries(m, p)
    PROVE  Shaped(Without(m, p))
<1>1. DOMAIN m \subseteq Seq(Names)
    BY DEF Namespace, NodeMap
<1>2. Tree(Without(m, p))
    BY <1>1, WithoutTree DEF Shaped
<1>3. usage.parts <= 1 => Short(Without(m, p))
    BY DEF Shaped, Short, Without
<1> QED  BY <1>2, <1>3 DEF Shaped

LEMMA PutShaped ==
    ASSUME NfsTyped, NEW m, Namespace(m), Shaped(m), NEW p \in Seq(Names), p # Root, NEW c,
           IsDirectory(m, Front(p)),
           usage.parts <= 1 => Len(p) <= 1,
           usage.parts <= 1 \/ ~IsDirectory(m, p)
    PROVE  Shaped(Put(m, p, c))
<1> DEFINE e == Put(m, p, c)
<1>1. DOMAIN m \subseteq Seq(Names)
    BY DEF Namespace, NodeMap
<1>2. DOMAIN e = DOMAIN m \cup {p} /\ \A q \in DOMAIN e : e[q] = IF q = p THEN c ELSE m[q]
    BY DEF Put
<1>3. CASE ~IsDirectory(m, p)
    <2>1. Tree(e)
        BY <1>1, <1>3, PutTree DEF Shaped
    <2> HIDE DEF e
    <2>2. usage.parts <= 1 => Short(e)
        BY <1>2 DEF Short, Shaped
    <2> QED  BY <2>1, <2>2 DEF Shaped, e
<1>4. CASE usage.parts <= 1
    <2> HIDE DEF e
    <2>1. Short(e) /\ DOMAIN e \subseteq Seq(Names)
        BY <1>1, <1>2, <1>4 DEF Short, Shaped
    <2>2. IsDirectory(e, Root)
        BY <1>2 DEF Shaped, Tree, IsDirectory
    <2>3. Tree(e)
        BY <2>1, <2>2, ShortTree
    <2> QED  BY <2>1, <2>3 DEF Shaped, e
<1> QED  BY <1>3, <1>4

(* A write's own name is not among the directories above it.               *)
LEMMA NotAbove ==
    ASSUME NEW m, NEW p \in Seq(Names), p # Root
    PROVE  p \notin Made(m, Front(p))
<1>1. p # << >>
    BY DEF Root
<1>2. Front(p) \in Seq(Names) /\ Len(Front(p)) = Len(p) - 1 /\ Len(p) \in Nat \ {0}
    BY <1>1, FrontIs
<1> DEFINE f == Front(p)
<1> HIDE DEF f
<1>3. f \in Seq(Names) /\ Len(f) < Len(p)
    BY <1>2 DEF f
<1>4. ASSUME NEW i \in 1 .. Len(f) PROVE p # SubSeq(f, 1, i)
    <2>1. i \in 0 .. Len(f) /\ i < Len(p)
        BY <1>2, <1>3
    <2>2. Len(SubSeq(f, 1, i)) = i
        BY <1>3, <2>1, PieceIs
    <2> QED  BY <2>1, <2>2
<1> QED  BY <1>4 DEF Made, f

(* A plain argument is a path.                                             *)
LEMMA PlainArgument ==
    ASSUME PlainUse, usage \in Usages, NEW arg \in Arguments
    PROVE  \E p \in Seq(Names) :
             /\ NormalizePath(arg) = Components(p) /\ Full(NormalizePath(arg)) = p
             /\ usage.parts <= 1 => Len(p) <= 1
             /\ NormalizePath(arg) # << >> => p # Root /\ ParentPath(NormalizePath(arg)) = Front(p)
<1> DEFINE comps == NormalizePath(arg)
<1>1. comps \in Seq(Part \ {ParentDir}) /\ Len(comps) <= usage.parts
    BY ArgumentPath
<1> HIDE DEF comps
<1>2. Backslashes = FALSE
    BY NfsAssumption DEF PlainUse
<1>3. PICK p \in Seq(Names) : comps = Components(p) /\ Len(p) = Len(comps)
    BY <1>1, <1>2, PlainPath
<1>4. Full(comps) = p
    BY <1>3, FullComponents
<1>5. usage.parts <= 1 => Len(p) <= 1
    BY <1>1, <1>3, NfsAssumption
<1>6. ASSUME comps # << >> PROVE p # Root /\ ParentPath(comps) = Front(p)
    <2>1. p # << >>
        <3>1. Len(comps) # 0
            BY <1>1, <1>6
        <3> QED  BY <1>3, <3>1
    <2> QED  BY <1>3, <2>1, ParentIsFront DEF Root
<1> QED  BY <1>3, <1>4, <1>5, <1>6 DEF comps

(* The calls, one of which moves on.                                       *)
LEMMA Alone ==
    ASSUME Serial, NEW t \in Callers, Start(t) \/ job[t].pc # "idle"
    PROVE  usage.serial => \A u \in Callers : u # t => job[u].pc = "idle"
BY DEF Serial, Start, At

LEMMA CallsKept ==
    ASSUME Serial, \A u \in Callers : PathOK(nodes, job[u]), usage' = usage,
           NEW t \in Callers, Start(t) \/ job[t].pc # "idle",
           NEW j, Moves(t, j), PathOK(nodes', j)
    PROVE  Serial' /\ \A u \in Callers : PathOK(nodes', job'[u])
<1>1. usage.serial => \A u \in Callers : u # t => job[u].pc = "idle"
    BY Alone
<1>2. job'[t] = j /\ \A u \in Callers : u # t => job'[u] = job[u]
    BY DEF Moves
<1>3. Serial'
    BY <1>1, <1>2 DEF Serial, At
<1>4. ASSUME NEW u \in Callers, u # t PROVE PathOK(nodes', job'[u])
    BY <1>1, <1>2, <1>4 DEF PathOK
<1> QED  BY <1>2, <1>3, <1>4

LEMMA TreeNext ==
    ASSUME usage' = usage, Shaped(nodes'), Shaped(EnsureRootNode(namespace_file')), Serial',
           \A u \in Callers : PathOK(nodes', job'[u])
    PROVE  TreeInv'
BY DEF TreeInv, Shaped, PathOK

LEMMA TreeInvInit == NfsInit => TreeInv
<1> SUFFICES ASSUME NfsInit
             PROVE  TreeInv
    OBVIOUS
<1>1. nodes = EnsureRootNode(namespace_file) /\ nodes = Put(Empty, Root, Directory)
    BY DEF NfsInit, EnsureRootNode, Empty
<1>2. DOMAIN nodes = {Root} /\ nodes[Root] = Directory
    BY <1>1 DEF Put, Empty
<1>3. Shaped(nodes)
    BY <1>2 DEF Shaped, Tree, Short, IsDirectory, Root
<1>4. \A t \in Callers : job[t].pc = "idle"
    BY IdleJobMoves DEF NfsInit
<1> QED  BY <1>1, <1>3, <1>4 DEF TreeInv, Serial, PathOK, At

LEMMA TreeInvStep ==
    ASSUME PlainUse, NfsTyped, TreeInv, [NfsNext]_nfs_vars
    PROVE  TreeInv'
<1>a. /\ usage' = usage /\ usage \in Usages /\ (usage.serial \/ usage.parts <= 1)
      /\ Namespace(nodes)
    BY NfsBound DEF NfsTyped, PlainUse
<1>b. /\ Shaped(nodes) /\ Shaped(EnsureRootNode(namespace_file))
      /\ Serial /\ \A u \in Callers : PathOK(nodes, job[u])
    BY DEF TreeInv
<1>c. EnsureRootNode(nodes) = nodes
    BY <1>b DEF Shaped, Tree, IsDirectory, EnsureRootNode
<1>d. PathOK(nodes', IdleJob)
    BY IdleJobMoves DEF PathOK
<1>0. CASE UNCHANGED nfs_vars
    BY <1>0 DEF nfs_vars, TreeInv, Shaped, Serial, At, PathOK
<1>1. ASSUME NEW t \in Callers, NEW arg \in Arguments, WriteFile(t, arg) PROVE TreeInv'
    <2>1. PICK p \in Seq(Names) :
            /\ Full(NormalizePath(arg)) = p /\ (usage.parts <= 1 => Len(p) <= 1)
            /\ NormalizePath(arg) # << >> => p # Root /\ ParentPath(NormalizePath(arg)) = Front(p)
        BY <1>a, PlainArgument
    <2>2. /\ Start(t) /\ NormalizePath(arg) # << >> /\ ~IsDirectory(nodes, p)
          /\ nodes' = nodes /\ namespace_file' = namespace_file
        BY <1>1, <2>1 DEF WriteFile
    <2>3. PICK j : Moves(t, j) /\ j.path = p /\ j.parent = Front(p)
        BY <1>1, <2>1, <2>2, WriteMoves
    <2>4. PathOK(nodes', j)
        BY <2>1, <2>2, <2>3 DEF PathOK
    <2>5. Serial' /\ \A u \in Callers : PathOK(nodes', job'[u])
        BY <1>a, <1>b, <2>2, <2>3, <2>4, CallsKept
    <2> QED  BY <1>a, <1>b, <2>2, <2>5, TreeNext
<1>2. ASSUME NEW t \in Callers, NEW arg \in Arguments, Mkdir(t, arg) PROVE TreeInv'
    <2>1. PICK p \in Seq(Names) :
            NormalizePath(arg) = Components(p) /\ (usage.parts <= 1 => Len(p) <= 1)
        BY <1>a, PlainArgument
    <2>2. /\ Start(t) /\ namespace_file' = namespace_file
          /\ nodes' = EnsureDirectory(nodes, NormalizePath(arg))
        BY <1>2 DEF Mkdir
    <2>4. Shaped(nodes')
        BY <1>a, <1>b, <2>1, <2>2, EnsureShaped
    <2>5. CASE UNCHANGED job
        <3>1. usage.serial => \A u \in Callers : job[u].pc = "idle"
            BY <2>2 DEF Start, At
        <3>2. Serial' /\ \A u \in Callers : PathOK(nodes', job'[u])
            BY <1>a, <1>b, <2>5, <3>1 DEF Serial, At, PathOK
        <3> QED  BY <1>a, <1>b, <2>2, <2>4, <3>2, TreeNext
    <2>6. ASSUME NEW j, Moves(t, j), j.pc = "persist" PROVE TreeInv'
        <3>1. PathOK(nodes', j)
            BY <2>6 DEF PathOK
        <3>2. Serial' /\ \A u \in Callers : PathOK(nodes', job'[u])
            BY <1>a, <1>b, <2>2, <2>6, <3>1, CallsKept
        <3> QED  BY <1>a, <1>b, <2>2, <2>4, <3>2, TreeNext
    <2> QED  BY <1>2, <2>5, <2>6, MkdirMoves
<1>3. ASSUME NEW t \in Callers, NEW arg \in Arguments, Delete(t, arg) PROVE TreeInv'
    <2> DEFINE p == Full(NormalizePath(arg))
    <2>1. p \in DOMAIN nodes /\ p # Root /\ nodes' = Without(nodes, p)
        BY <1>3, DeleteMoves
    <2>2. PICK j : Moves(t, j) /\ (j.pc = "persist" \/ j.pc = "reclaim")
        BY <1>3, DeleteMoves
    <2>3. /\ Start(t) /\ namespace_file' = namespace_file
          /\ nodes[p] = Directory => ~HasEntries(nodes, p)
        BY <1>3 DEF Delete
    <2> HIDE DEF p
    <2>4. Shaped(nodes')
        BY <1>a, <1>b, <2>1, <2>3, WithoutShaped
    <2>5. PathOK(nodes', j)
        BY <2>2 DEF PathOK
    <2>6. Serial' /\ \A u \in Callers : PathOK(nodes', job'[u])
        BY <1>a, <1>b, <2>2, <2>3, <2>5, CallsKept
    <2> QED  BY <1>a, <1>b, <2>3, <2>4, <2>6, TreeNext
<1>4. ASSUME NEW t \in Callers, StoreCapsule(t) PROVE TreeInv'
    <2>1. PICK j : Moves(t, j) /\ j.path = job[t].path /\ j.parent = job[t].parent
        BY <1>4, StoreMoves
    <2>2. job[t].pc = "store" /\ nodes' = nodes /\ namespace_file' = namespace_file
        BY <1>4 DEF StoreCapsule, At
    <2>3. PathOK(nodes', j)
        BY <1>b, <2>1, <2>2 DEF PathOK
    <2>4. Serial' /\ \A u \in Callers : PathOK(nodes', job'[u])
        BY <1>a, <1>b, <2>1, <2>2, <2>3, CallsKept
    <2> QED  BY <1>a, <1>b, <2>2, <2>4, TreeNext
<1>5. ASSUME NEW t \in Callers, StoreFails(t) \/ Persist(t) \/ PersistFails(t) PROVE TreeInv'
    <2>1. /\ job[t].pc # "idle" /\ nodes' = nodes
          /\ namespace_file' = namespace_file \/ namespace_file' = nodes
        BY <1>5 DEF StoreFails, Persist, PersistFails, At
    <2>2. Moves(t, IdleJob)
        BY <1>5, ReturnMoves
    <2>3. Serial' /\ \A u \in Callers : PathOK(nodes', job'[u])
        BY <1>a, <1>b, <1>d, <2>1, <2>2, CallsKept
    <2> QED  BY <1>a, <1>b, <1>c, <2>1, <2>3, TreeNext
<1>6. ASSUME NEW t \in Callers, InsertFile(t) PROVE TreeInv'
    <2> DEFINE p == job[t].path
               made == EnsureDirectory(nodes, Components(job[t].parent))
    <2>1. job[t].pc = "insert" /\ namespace_file' = namespace_file
        BY <1>6 DEF InsertFile, At
    <2>2. p \in Seq(Names) /\ job[t].parent \in Seq(Names)
        BY DEF NfsTyped, NfsJob
    <2>3. /\ p # Root /\ job[t].parent = Front(p)
          /\ usage.parts <= 1 => Len(p) <= 1
          /\ usage.serial => ~IsDirectory(nodes, p)
        BY <1>b, <2>1 DEF PathOK
    <2>4. Len(Front(p)) = Len(p) - 1 /\ Len(p) \in Nat
        BY <2>2, <2>3, FrontIs DEF Root
    <2>5. Shaped(made) /\ Namespace(made)
        <3>1. usage.parts <= 1 => Len(job[t].parent) <= 1
            BY <2>3, <2>4
        <3>2. Shaped(made)
            BY <1>a, <1>b, <2>2, <3>1, EnsureShaped
        <3> QED  BY <1>6, <3>2, InsertMoves
    <2>6. ~PathConflict(nodes, Components(job[t].parent)) => IsDirectory(made, Front(p))
        BY <1>b, <2>2, <2>3, EnsureGranted DEF Shaped, Tree
    <2>7. usage.serial => ~IsDirectory(made, p)
        <3>1. made = [q \in DOMAIN nodes \cup Made(nodes, job[t].parent) |->
                        IF q \in DOMAIN nodes THEN nodes[q] ELSE Directory]
            <4> DEFINE q == job[t].parent
            <4>1. made = EnsureDirectory(nodes, Components(q)) /\ q \in Seq(Names)
                BY <2>2
            <4> HIDE DEF made, q
            <4>2. made = [r \in DOMAIN nodes \cup Made(nodes, q) |->
                            IF r \in DOMAIN nodes THEN nodes[r] ELSE Directory]
                BY <4>1, EnsureIs
            <4> QED  BY <4>2 DEF q
        <3>2. p \notin Made(nodes, job[t].parent)
            BY <2>2, <2>3, NotAbove
        <3> QED  BY <2>3, <3>1, <3>2 DEF IsDirectory
    <2>8. \/ nodes' = made /\ Moves(t, IdleJob)
          \/ /\ ~PathConflict(nodes, Components(job[t].parent))
             /\ nodes' = Put(made, p, job[t].new)
             /\ \E j : Moves(t, j) /\ (j.pc = "persist" \/ j.pc = "reclaim")
        BY <1>6, InsertMoves
    <2> HIDE DEF made, p
    <2>9. Shaped(nodes')
        BY <1>a, <2>2, <2>3, <2>5, <2>6, <2>7, <2>8, PutShaped
    <2>10. \E j : Moves(t, j) /\ PathOK(nodes', j)
        BY <1>d, <2>8 DEF PathOK
    <2>11. Serial' /\ \A u \in Callers : PathOK(nodes', job'[u])
        BY <1>a, <1>b, <2>1, <2>10, CallsKept
    <2> QED  BY <1>a, <1>b, <2>1, <2>9, <2>11, TreeNext
<1>7. ASSUME NEW t \in Callers, Reclaim(t) PROVE TreeInv'
    <2>1. PICK j : Moves(t, j) /\ j.pc = "persist"
        BY <1>7, ReclaimMoves
    <2>2. job[t].pc # "idle" /\ nodes' = nodes /\ namespace_file' = namespace_file
        BY <1>7 DEF Reclaim, At
    <2>3. PathOK(nodes', j)
        BY <2>1 DEF PathOK
    <2>4. Serial' /\ \A u \in Callers : PathOK(nodes', job'[u])
        BY <1>a, <1>b, <2>1, <2>2, <2>3, CallsKept
    <2> QED  BY <1>a, <1>b, <2>2, <2>4, TreeNext
<1>8. CASE Restart
    <2>1. /\ nodes' = EnsureRootNode(namespace_file) /\ namespace_file' = namespace_file
          /\ \A t \in Callers : job'[t].pc = "idle"
        BY <1>8, IdleJobMoves DEF Restart
    <2>2. Serial' /\ \A u \in Callers : PathOK(nodes', job'[u])
        BY <2>1 DEF Serial, At, PathOK
    <2> QED  BY <1>a, <1>b, <2>1, <2>2, TreeNext
<1> QED  BY <1>0, <1>1, <1>2, <1>3, <1>4, <1>5, <1>6, <1>7, <1>8, NfsSteps

(* A change not saved yet belongs to a call that will save it: what a call *)
(* leaves when it is refused is what it found.                             *)
LEMMA SavedMoves ==
    ASSUME Saved, NEW t \in Callers, NEW j, Moves(t, j), usage' = usage, fails' = fails,
           \/ j.pc \in {"reclaim", "persist"}
           \/ /\ nodes' = nodes /\ namespace_file' = namespace_file
              /\ job[t].pc \notin {"reclaim", "persist"}
    PROVE  Saved'
BY DEF Saved, Moves

LEMMA SavedStep ==
    ASSUME PlainUse, NfsTyped, TreeInv, Saved, [NfsNext]_nfs_vars
    PROVE  Saved'
<1> SUFFICES ASSUME fails' = usage'.fails
             PROVE  Saved'
    BY DEF Saved
<1>a. /\ usage' = usage /\ usage \in Usages /\ fails' = fails /\ fails \in Nat
    <2>1. usage' = usage /\ fails = usage.fails
        BY NfsBound
    <2> QED  BY <2>1, NfsAssumption DEF NfsTyped
<1>b. /\ Tree(nodes) /\ IsMap(nodes) /\ EnsureRootNode(nodes) = nodes
    BY DEF TreeInv, Shaped, Tree, IsDirectory, EnsureRootNode, NfsTyped, Namespace
<1>c. \A t \in Callers : job[t].pc = "insert" =>
        job[t].parent \in Seq(Names) /\ job[t].path # Root
    BY DEF NfsTyped, NfsJob, TreeInv, PathOK
<1>0. CASE UNCHANGED nfs_vars
    BY <1>0 DEF nfs_vars, Saved, At
<1>1. ASSUME NEW t \in Callers, NEW arg \in Arguments, WriteFile(t, arg) PROVE Saved'
    <2>1. /\ job[t].pc = "idle" /\ nodes' = nodes /\ namespace_file' = namespace_file
        BY <1>1 DEF WriteFile, Start, At
    <2> QED  BY <1>1, <1>a, <2>1, WriteMoves, SavedMoves
<1>2. ASSUME NEW t \in Callers, NEW arg \in Arguments, Mkdir(t, arg) PROVE Saved'
    <2>1. PICK p \in Seq(Names) : NormalizePath(arg) = Components(p)
        BY <1>a, PlainArgument
    <2>2. /\ nodes' = EnsureDirectory(nodes, Components(p)) /\ namespace_file' = namespace_file
        BY <1>2, <2>1 DEF Mkdir
    <2>3. CASE PathConflict(nodes, Components(p)) /\ UNCHANGED job
        <3>1. nodes' = nodes
            BY <1>b, <2>2, <2>3, EnsureRefused
        <3> QED  BY <1>a, <2>2, <2>3, <3>1 DEF Saved
    <2>4. CASE \E j : Moves(t, j) /\ j.pc = "persist"
        BY <1>a, <2>4, SavedMoves
    <2> QED  BY <1>2, <2>1, <2>3, <2>4, MkdirMoves
<1>3. ASSUME NEW t \in Callers, NEW arg \in Arguments, Delete(t, arg) PROVE Saved'
    <2>1. \E j : Moves(t, j) /\ j.pc \in {"reclaim", "persist"}
        BY <1>3, DeleteMoves
    <2> QED  BY <1>a, <2>1, SavedMoves
<1>4. ASSUME NEW t \in Callers, StoreCapsule(t) PROVE Saved'
    <2>1. job[t].pc = "store" /\ nodes' = nodes /\ namespace_file' = namespace_file
        BY <1>4 DEF StoreCapsule, At
    <2> QED  BY <1>4, <1>a, <2>1, StoreMoves, SavedMoves
<1>5. ASSUME NEW t \in Callers, StoreFails(t) \/ PersistFails(t) PROVE Saved'
    BY <1>5, <1>a DEF StoreFails, PersistFails, Fails
<1>6. ASSUME NEW t \in Callers, InsertFile(t) PROVE Saved'
    <2> DEFINE p == job[t].parent
               made == EnsureDirectory(nodes, Components(p))
    <2>1. job[t].pc = "insert" /\ namespace_file' = namespace_file
        BY <1>6 DEF InsertFile, At
    <2>2. \/ PathConflict(nodes, Components(p)) /\ nodes' = made /\ Moves(t, IdleJob)
          \/ \E j : Moves(t, j) /\ j.pc \in {"reclaim", "persist"}
        BY <1>6, InsertMoves
    <2>3. p \in Seq(Names) /\ made = EnsureDirectory(nodes, Components(p))
        BY <1>c, <2>1
    <2> HIDE DEF p, made
    <2>4. PathConflict(nodes, Components(p)) => made = nodes
        BY <1>b, <2>3, EnsureRefused
    <2>5. CASE nodes' = nodes /\ Moves(t, IdleJob)
        BY <1>a, <2>1, <2>5, SavedMoves
    <2> QED  BY <1>a, <2>2, <2>4, <2>5, SavedMoves
<1>7. ASSUME NEW t \in Callers, Reclaim(t) PROVE Saved'
    <2>1. fails' = fails /\ \E j : Moves(t, j) /\ j.pc \in {"reclaim", "persist"}
        BY <1>7, <1>a, ReclaimMoves
    <2> QED  BY <1>a, <2>1, SavedMoves
<1>8. ASSUME NEW t \in Callers, Persist(t) PROVE Saved'
    BY <1>8, <1>b DEF Persist, Saved
<1>9. CASE Restart
    BY <1>9 DEF Restart, Saved
<1> QED  BY <1>0, <1>1, <1>2, <1>3, <1>4, <1>5, <1>6, <1>7, <1>8, <1>9, NfsSteps

-----------------------------------------------------------------------------
NfsInv == NfsTyped /\ NfsOwned /\ SavedBacked /\ AtRoot /\ AllHeld

LEMMA NfsInvInit == NfsInit => NfsInv
<1> SUFFICES ASSUME NfsInit
             PROVE  NfsInv
    OBVIOUS
<1>1. NfsTyped
    BY NfsTypedInit
<1>2. nodes = Put(Empty, Root, Directory)
    BY DEF NfsInit, EnsureRootNode, Empty
<1>3. DOMAIN nodes = {Root} /\ nodes[Root] = Directory
    BY <1>2 DEF Put, Empty
<1>4. \A t \in Callers : job[t] = IdleJob
    BY DEF NfsInit
<1>5. \A t \in Callers : Hands[t] = NoCapsule
    BY <1>4, IdleJobMoves DEF Hands
<1>6. Owns(nodes, stored, Hands)
    BY <1>3, <1>5 DEF Owns
<1>7. SavedReadable
    BY DEF NfsInit, SavedReadable, Empty
<1>8. Held(nodes, stored, Hands)
    BY DEF NfsInit, Held
<1>9. AtRoot
    BY <1>4, IdleJobMoves DEF AtRoot
<1> QED  BY <1>1, <1>6, <1>7, <1>8, <1>9 DEF NfsInv, NfsOwned, SavedBacked, AllHeld

(* The invariant the theorems of the NFS view rest on: a live capsule has  *)
(* one owner, an entry or the call that stored it or took it out, however  *)
(* the calls overlap.                                                      *)
THEOREM NfsInvariant == NfsSpec => []NfsInv
<1>1. NfsInit => NfsInv
    BY NfsInvInit
<1>2. NfsInv /\ [NfsNext]_nfs_vars => NfsInv'
    BY NfsTypedStep, NfsOwnedStep, SavedBackedStep, AtRootStep, AllHeldStep DEF NfsInv
<1> QED  BY <1>1, <1>2, PTL DEF NfsSpec

(* Until a crash every file of the namespace can be read, whatever writes, *)
(* deletes and directories overlap, backslashes or not; and a file of the  *)
(* saved one that cannot is a call's that is about to save.                *)
THEOREM NfsBacked == NfsSpec => []Backed
<1>1. NfsInv => Backed
    BY DEF NfsInv, NfsOwned, Owns, SavedBacked, SavedReadable, Backed
<1> QED  BY <1>1, NfsInvariant, PTL

(* Of calls on the names of one directory no capsule leaks: when all have  *)
(* returned, each belongs to a file.                                       *)
THEOREM NfsNoLeak == NfsSpec => []NoLeak
<1>1. NfsInv => NoLeak
    <2> SUFFICES ASSUME NfsInv, AllIdle, fails = usage.fails, crashes = usage.crashes,
                        usage.parts = 1, NEW c \in stored
                 PROVE  \E p \in DOMAIN nodes : nodes[p] = c
        BY DEF NoLeak
    <2>1. Held(nodes, stored, Hands) /\ NoCapsule \notin stored
        BY LiveCapsules DEF NfsInv, AllHeld
    <2>2. \A t \in Callers : Hands[t] = NoCapsule
        BY DEF AllIdle, At, Hands, HeldBy
    <2> QED  BY <2>1, <2>2 DEF Held
<1> QED  BY <1>1, NfsInvariant, PTL

NfsTreeInv == NfsTyped /\ TreeInv /\ Saved

LEMMA NfsTreeInvariant ==
    ASSUME PlainUse
    PROVE  NfsSpec => []NfsTreeInv
<1>1. NfsInit => NfsTreeInv
    BY NfsTypedInit, TreeInvInit DEF NfsTreeInv, Saved, NfsInit
<1>2. NfsTreeInv /\ [NfsNext]_nfs_vars => NfsTreeInv'
    BY NfsTypedStep, TreeInvStep, SavedStep DEF NfsTreeInv
<1> QED  BY <1>1, <1>2, PTL DEF NfsSpec

(* What is above an entry is a directory, after any calls and crashes.     *)
THEOREM NfsTree ==
    ASSUME PlainUse
    PROVE  NfsSpec => []TreeWellFormed
<1>1. NfsTreeInv => TreeWellFormed
    BY DEF NfsTreeInv, TreeInv, Shaped, Tree, TreeWellFormed
<1> QED  BY <1>1, NfsTreeInvariant, PTL

(* When all calls have returned and none failed, the namespace is saved:   *)
(* a call that was refused half way has made nothing.                      *)
THEOREM NfsDurable ==
    ASSUME PlainUse
    PROVE  NfsSpec => []Durable
<1>1. NfsTreeInv => Durable
    BY DEF NfsTreeInv, Saved, Durable, AllIdle, At
<1> QED  BY <1>1, NfsTreeInvariant, PTL

-----------------------------------------------------------------------------
(* The S3 view.                                                            *)

(* Full keys.  A bucket is one name: the route takes it from one segment   *)
(* of the URL, and only an escaped slash could make it two.                *)
FlatBuckets ==
    \E T : ObjectNames \subseteq {<<b>> : b \in T} \X (Seq(T) \ {<< >>})

(* What the key map says of a name, and the body it leads to.              *)
Mapping(map, store, name) ==
    FullKey(name) \in DOMAIN map =>
        /\ map[FullKey(name)].capsule \in DOMAIN store
        /\ map[FullKey(name)].content_type = DetectContentType(name)

Mappings(map, store) ==
    /\ DOMAIN map \subseteq {FullKey(n) : n \in ObjectNames}
    /\ \A n \in ObjectNames : Mapping(map, store, n)

Stored(store) == \E k \in Nat : store \in [1 .. k -> Bodies]

GetAnswer == [body : Bodies \cup {Absent}, type : Types \cup {Nothing}]

(* How far a request is: a capsule at hand holds the body to be mapped, or *)
(* the one already in the answer.                                          *)
Handling(store, r, l, a) ==
    /\ r = Nothing => l = Nothing /\ a = Nothing
    /\ r # Nothing => r \in Requests
    /\ r # Nothing /\ r.op = "put" /\ l # Nothing => l \in DOMAIN store /\ store[l] = r.body
    /\ r # Nothing /\ r.op = "get" =>
        /\ a # Nothing => a \in GetAnswer
        /\ l # Nothing => a # Nothing /\ l \in DOMAIN store
        /\ l # Nothing /\ a.type = Nothing => a.body = store[l]

S3Inv ==
    /\ Stored(bodies)
    /\ Mappings(key_map, bodies)
    /\ request = [c \in Clients |-> request[c]]
    /\ local = [c \in Clients |-> local[c]]
    /\ answer = [c \in Clients |-> answer[c]]
    /\ \A c \in Clients : Handling(bodies, request[c], local[c], answer[c])

LEMMA NameIs ==
    ASSUME FlatBuckets
    PROVE  \E T : \A n \in ObjectNames :
             /\ n = <<n[1], n[2]>> /\ n[1] \in Seq(T) /\ Len(n[1]) = 1
             /\ n[2] \in Seq(T) /\ Len(n[2]) \in Nat \ {0}
<1>1. PICK T : ObjectNames \subseteq {<<b>> : b \in T} \X (Seq(T) \ {<< >>})
    BY DEF FlatBuckets
<1>2. ASSUME NEW n \in ObjectNames
      PROVE  /\ n = <<n[1], n[2]>> /\ n[1] \in Seq(T) /\ Len(n[1]) = 1
             /\ n[2] \in Seq(T) /\ Len(n[2]) \in Nat \ {0}
    <2>1. n = <<n[1], n[2]>> /\ n[1] \in {<<b>> : b \in T} /\ n[2] \in Seq(T) /\ n[2] # << >>
        BY <1>1
    <2>2. PICK b \in T : n[1] = <<b>>
        BY <2>1
    <2>3. <<b>> \in Seq(T) /\ Len(<<b>>) = 1
        OBVIOUS
    <2>4. Len(n[2]) \in Nat \ {0}
        BY <2>1
    <2> QED  BY <2>1, <2>2, <2>3, <2>4
<1> QED  BY <1>2

(* A full key begins with its bucket, and the rest of it is the key.       *)
LEMMA KeyParts ==
    ASSUME NEW T, NEW b \in Seq(T), Len(b) = 1, NEW k \in Seq(T), Len(k) \in Nat \ {0}
    PROVE  /\ b \o k \in Seq(T) /\ Len(b \o k) = 1 + Len(k)
           /\ SubSeq(b \o k, 1, 1) = b
           /\ SubSeq(b \o k, 2, Len(b \o k)) = k
<1> DEFINE w == b \o k
<1>1. /\ w \in Seq(T) /\ Len(w) = Len(b) + Len(k)
      /\ \A i \in 1 .. Len(b) + Len(k) : w[i] = IF i <= Len(b) THEN b[i] ELSE k[i - Len(b)]
    <2>1. b \in Seq(T) /\ k \in Seq(T)
        OBVIOUS
    <2> QED  BY <2>1, ConcatProperties, Zenon
<1> HIDE DEF w
<1> DEFINE u == SubSeq(w, 1, 1)
           v == SubSeq(w, 2, Len(w))
           n == Len(w)
<1>2. n = 1 + Len(k) /\ n \in Nat /\ n >= 2
    BY <1>1
<1>3. u \in Seq(T) /\ Len(u) = 1 /\ u[1] = w[1]
    BY <1>1, <1>2
<1>4. v \in Seq(T) /\ Len(v) = Len(k) /\ \A i \in 1 .. Len(k) : v[i] = w[i + 1]
    <2>1. SubSeq(w, 2, n) \in Seq(T) /\ Len(SubSeq(w, 2, n)) = n - 1
          /\ \A i \in 1 .. n - 1 : SubSeq(w, 2, n)[i] = w[i + 1]
        BY <1>1, <1>2
    <2> QED  BY <1>2, <2>1
<1> HIDE DEF u, v, n
<1>5. u = b
    <2>1. w[1] = b[1]
        BY <1>1
    <2>2. Len(u) = Len(b) /\ \A i \in 1 .. Len(u) : u[i] = b[i]
        BY <1>3, <2>1
    <2> QED  BY <1>3, <2>2, SeqEqual
<1>6. v = k
    <2>1. \A i \in 1 .. Len(k) : w[i + 1] = k[i]
        <3> TAKE i \in 1 .. Len(k)
        <3>1. i + 1 \in 1 .. Len(b) + Len(k) /\ ~(i + 1 <= Len(b)) /\ (i + 1) - Len(b) = i
            OBVIOUS
        <3> QED  BY <1>1, <3>1
    <2>2. Len(v) = Len(k) /\ \A i \in 1 .. Len(v) : v[i] = k[i]
        BY <1>4, <2>1
    <2> QED  BY <1>4, <2>2, SeqEqual
<1> QED  BY <1>1, <1>2, <1>5, <1>6 DEF u, v, w, n

LEMMA KeyIs ==
    ASSUME FlatBuckets, NEW n \in ObjectNames
    PROVE  /\ n = <<n[1], n[2]>> /\ Len(n[1]) = 1
           /\ Len(FullKey(n)) \in Nat /\ Len(FullKey(n)) > 1
           /\ SubSeq(FullKey(n), 1, 1) = n[1]
           /\ SubSeq(FullKey(n), 2, Len(FullKey(n))) = n[2]
<1>1. PICK T : \A m \in ObjectNames :
             /\ m = <<m[1], m[2]>> /\ m[1] \in Seq(T) /\ Len(m[1]) = 1
             /\ m[2] \in Seq(T) /\ Len(m[2]) \in Nat \ {0}
    BY NameIs
<1> DEFINE b == n[1]
           k == n[2]
<1>2. n = <<b, k>> /\ b \in Seq(T) /\ Len(b) = 1 /\ k \in Seq(T) /\ Len(k) \in Nat \ {0}
    BY <1>1
<1>3. FullKey(n) = b \o k
    BY DEF FullKey
<1> HIDE DEF b, k
<1>4. /\ Len(b \o k) = 1 + Len(k)
      /\ SubSeq(b \o k, 1, 1) = b
      /\ SubSeq(b \o k, 2, Len(b \o k)) = k
    BY <1>2, KeyParts
<1> QED  BY <1>2, <1>3, <1>4 DEF b, k

(* Different names have different full keys.                               *)
LEMMA KeysDiffer ==
    ASSUME FlatBuckets, NEW n \in ObjectNames, NEW m \in ObjectNames, FullKey(n) = FullKey(m)
    PROVE  n = m
<1> DEFINE a == n[1]
           b == n[2]
           c == m[1]
           d == m[2]
           k == FullKey(n)
<1>1. n = <<a, b>> /\ SubSeq(k, 1, 1) = a /\ SubSeq(k, 2, Len(k)) = b
    BY KeyIs
<1>2. FullKey(m) = k /\ m = <<c, d>> /\ SubSeq(FullKey(m), 1, 1) = c
      /\ SubSeq(FullKey(m), 2, Len(FullKey(m))) = d
    BY KeyIs
<1> HIDE DEF a, b, c, d, k
<1>3. a = c /\ b = d
    BY <1>1, <1>2
<1> QED  BY <1>1, <1>2, <1>3

(* Those that begin with a bucket are the keys of its names.               *)
LEMMA KeysOfBucket ==
    ASSUME FlatBuckets, NEW n \in ObjectNames, NEW m \in ObjectNames
    PROVE  /\ IsStrictPrefix(m[1], FullKey(n)) <=> n[1] = m[1]
           /\ <<n[1], SubSeq(FullKey(n), Len(n[1]) + 1, Len(FullKey(n)))>> = n
<1>1. /\ n = <<n[1], n[2]>> /\ Len(n[1]) = 1 /\ Len(m[1]) = 1
      /\ Len(FullKey(n)) \in Nat /\ Len(FullKey(n)) > 1
      /\ SubSeq(FullKey(n), 1, 1) = n[1]
      /\ SubSeq(FullKey(n), 2, Len(FullKey(n))) = n[2]
    BY KeyIs
<1>2. SubSeq(m[1], 1, 1) = m[1]
    <2>1. PICK T : \A k \in ObjectNames : k[1] \in Seq(T) /\ Len(k[1]) = 1
        BY NameIs
    <2> DEFINE b == m[1]
    <2>2. b \in Seq(T) /\ Len(b) = 1
        BY <2>1
    <2> HIDE DEF b
    <2>3. SubSeq(b, 1, 1) = b
        BY <2>2
    <2> QED  BY <2>3 DEF b
<1>3. m[1] # FullKey(n)
    BY <1>1
<1>4. IsStrictPrefix(m[1], FullKey(n)) <=> n[1] = m[1]
    BY <1>1, <1>2, <1>3 DEF IsStrictPrefix, IsPrefix
<1>5. SubSeq(FullKey(n), Len(n[1]) + 1, Len(FullKey(n))) = n[2]
    <2>1. Len(n[1]) + 1 = 2
        BY <1>1
    <2> QED  BY <1>1, <2>1
<1> QED  BY <1>1, <1>4, <1>5

-----------------------------------------------------------------------------
LEMMA S3Steps ==
    ASSUME S3Next
    PROVE  \/ \E c \in Clients, r \in Requests : Arrive(c, r)
           \/ \E c \in Clients : WriteCapsule(c)
           \/ \E c \in Clients : InsertMapping(c)
           \/ \E c \in Clients : GetMapping(c)
           \/ \E c \in Clients : ReadFails(c)
           \/ \E c \in Clients : ReadCapsule(c)
           \/ \E c \in Clients : HeadObject(c)
           \/ \E c \in Clients : ListObjects(c)
           \/ \E c \in Clients : DeleteObject(c)
           \/ \E c \in Clients : FinishRequest(c)
           \/ RestartServer
BY DEF S3Next

ObjectOps == {"put", "get", "head", "list", "delete"}

LEMMA RequestIs ==
    ASSUME NEW r \in Requests
    PROVE  r.op \in ObjectOps /\ r.name \in ObjectNames /\ (r.op = "put" => r.body \in Bodies)
BY DEF Requests, ObjectOps

(* A new capsule.                                                          *)
LEMMA StoredNew ==
    ASSUME NEW store, Stored(store), NEW body \in Bodies,
           NEW id, id = Cardinality(DOMAIN store) + 1
    PROVE  /\ Stored(Put(store, id, body)) /\ id \notin DOMAIN store
           /\ DOMAIN Put(store, id, body) = DOMAIN store \cup {id}
           /\ Put(store, id, body)[id] = body
           /\ \A i \in DOMAIN store : Put(store, id, body)[i] = store[i] /\ store[i] \in Bodies
<1>1. PICK k \in Nat : store \in [1 .. k -> Bodies]
    BY DEF Stored
<1>2. DOMAIN store = 1 .. k
    BY <1>1
<1>3. Cardinality(DOMAIN store) = k
    BY <1>2, FS_Interval
<1>4. id = k + 1 /\ 1 .. (k + 1) = 1 .. k \cup {id} /\ id \notin 1 .. k
    BY <1>3
<1> DEFINE e == Put(store, id, body)
<1>5. DOMAIN e = 1 .. (k + 1) /\ \A i \in 1 .. (k + 1) : e[i] = IF i = id THEN body ELSE store[i]
    BY <1>2, <1>4 DEF Put
<1>6. e = [i \in DOMAIN e |-> e[i]]
    BY DEF Put
<1> HIDE DEF e
<1>7. \A i \in 1 .. (k + 1) : e[i] \in Bodies
    BY <1>1, <1>4, <1>5
<1>8. e \in [1 .. (k + 1) -> Bodies]
    BY <1>5, <1>6, <1>7
<1>9. Stored(e)
    BY <1>8 DEF Stored
<1> QED  BY <1>1, <1>2, <1>4, <1>5, <1>9 DEF e

(* Capsules that are added disturb neither the mappings nor the requests.  *)
LEMMA MappingsAdded ==
    ASSUME NEW map, NEW store, Mappings(map, store), NEW more, DOMAIN store \subseteq DOMAIN more
    PROVE  Mappings(map, more)
BY DEF Mappings, Mapping

LEMMA HandlingAdded ==
    ASSUME NEW store, NEW more, DOMAIN store \subseteq DOMAIN more,
           \A i \in DOMAIN store : more[i] = store[i],
           NEW r, NEW l, NEW a, Handling(store, r, l, a)
    PROVE  Handling(more, r, l, a)
BY DEF Handling

(* One request moves on, the others stay where they are.                   *)
Proceeds(c, r, l, a) ==
    /\ request' = [request EXCEPT ![c] = r]
    /\ local' = [local EXCEPT ![c] = l]
    /\ answer' = [answer EXCEPT ![c] = a]

LEMMA Proceeded ==
    ASSUME S3Inv, NEW c \in Clients, NEW r, NEW l, NEW a, Proceeds(c, r, l, a),
           Stored(bodies'), Mappings(key_map', bodies'),
           DOMAIN bodies \subseteq DOMAIN bodies', \A i \in DOMAIN bodies : bodies'[i] = bodies[i],
           Handling(bodies', r, l, a)
    PROVE  S3Inv'
<1>1. /\ request' = [d \in Clients |-> request'[d]] /\ request'[c] = r
      /\ \A d \in Clients : d # c => request'[d] = request[d]
    BY DEF S3Inv, Proceeds
<1>2. /\ local' = [d \in Clients |-> local'[d]] /\ local'[c] = l
      /\ \A d \in Clients : d # c => local'[d] = local[d]
    BY DEF S3Inv, Proceeds
<1>3. /\ answer' = [d \in Clients |-> answer'[d]] /\ answer'[c] = a
      /\ \A d \in Clients : d # c => answer'[d] = answer[d]
    BY DEF S3Inv, Proceeds
<1>4. ASSUME NEW d \in Clients PROVE Handling(bodies', request'[d], local'[d], answer'[d])
    <2>1. CASE d = c
        BY <2>1, <1>1, <1>2, <1>3
    <2>2. CASE d # c
        <3>1. Handling(bodies, request[d], local[d], answer[d])
            BY DEF S3Inv
        <3> QED  BY <2>2, <3>1, <1>1, <1>2, <1>3, HandlingAdded
    <2> QED  BY <2>1, <2>2
<1> QED  BY <1>1, <1>2, <1>3, <1>4 DEF S3Inv

(* The steps' assignments, with what they leave alone written out.         *)
LEMMA Stays ==
    ASSUME S3Inv, NEW c \in Clients
    PROVE  /\ request = [request EXCEPT ![c] = request[c]]
           /\ local = [local EXCEPT ![c] = local[c]]
           /\ answer = [answer EXCEPT ![c] = answer[c]]
BY DEF S3Inv

-----------------------------------------------------------------------------
(* What names stand for, as the key map changes.                           *)
BodyIn(map, store, n) ==
    IF FullKey(n) \in DOMAIN map THEN store[map[FullKey(n)].capsule] ELSE Absent

LEMMA BodyOfIs ==
    ASSUME NEW n
    PROVE  BodyOf(n) = BodyIn(key_map, bodies, n) /\ (BodyOf(n) = BodyIn(key_map, bodies, n))'
BY DEF BodyOf, BodyIn, Mapped

LEMMA BodyType ==
    ASSUME NEW store, Stored(store), NEW map, Mappings(map, store), NEW n \in ObjectNames
    PROVE  /\ BodyIn(map, store, n) \in Bodies \cup {Absent}
           /\ FullKey(n) \in DOMAIN map <=> BodyIn(map, store, n) # Absent
<1>1. \A i \in DOMAIN store : store[i] \in Bodies
    BY DEF Stored
<1> QED  BY <1>1, NothingAssumption DEF Mappings, Mapping, BodyIn

LEMMA SameBodies ==
    ASSUME NEW map, NEW store, Mappings(map, store), NEW more,
           \A i \in DOMAIN store : more[i] = store[i], NEW n \in ObjectNames
    PROVE  BodyIn(map, more, n) = BodyIn(map, store, n)
BY DEF Mappings, Mapping, BodyIn

LEMMA MappedName ==
    ASSUME FlatBuckets, NEW map, NEW store, Mappings(map, store),
           NEW n \in ObjectNames, NEW l \in DOMAIN store, NEW e,
           e = Put(map, FullKey(n), [capsule |-> l, content_type |-> DetectContentType(n)])
    PROVE  /\ Mappings(e, store)
           /\ \A m \in ObjectNames :
                BodyIn(e, store, m) = IF m = n THEN store[l] ELSE BodyIn(map, store, m)
<1> DEFINE entry == [capsule |-> l, content_type |-> DetectContentType(n)]
           key == FullKey(n)
<1>1. entry.capsule = l /\ entry.content_type = DetectContentType(n)
    OBVIOUS
<1>2. DOMAIN e = DOMAIN map \cup {key} /\ \A k \in DOMAIN e : e[k] = IF k = key THEN entry ELSE map[k]
    BY DEF Put
<1> HIDE DEF entry
<1>3. \A m \in ObjectNames : m # n => FullKey(m) # key
    BY KeysDiffer
<1>4. ASSUME NEW m \in ObjectNames
      PROVE  /\ Mapping(e, store, m)
             /\ BodyIn(e, store, m) = IF m = n THEN store[l] ELSE BodyIn(map, store, m)
    <2>1. CASE m = n
        BY <2>1, <1>1, <1>2 DEF Mapping, BodyIn
    <2>2. CASE m # n
        <3>1. FullKey(m) # key /\ Mapping(map, store, m)
            BY <2>2, <1>3 DEF Mappings
        <3>2. FullKey(m) \in DOMAIN e <=> FullKey(m) \in DOMAIN map
            BY <3>1, <1>2
        <3>3. FullKey(m) \in DOMAIN e => e[FullKey(m)] = map[FullKey(m)]
            BY <3>1, <1>2
        <3> QED  BY <2>2, <3>1, <3>2, <3>3 DEF Mapping, BodyIn
    <2> QED  BY <2>1, <2>2
<1>5. DOMAIN e \subseteq {FullKey(m) : m \in ObjectNames}
    BY <1>2 DEF Mappings
<1> QED  BY <1>4, <1>5 DEF Mappings

LEMMA UnmappedName ==
    ASSUME FlatBuckets, NEW map, NEW store, Mappings(map, store), NEW n \in ObjectNames, NEW e,
           e = [k \in DOMAIN map \ {FullKey(n)} |-> map[k]]
    PROVE  /\ Mappings(e, store)
           /\ \A m \in ObjectNames :
                BodyIn(e, store, m) = IF m = n THEN Absent ELSE BodyIn(map, store, m)
<1> DEFINE key == FullKey(n)
<1>2. DOMAIN e = DOMAIN map \ {key} /\ \A k \in DOMAIN e : e[k] = map[k]
    OBVIOUS
<1>3. \A m \in ObjectNames : m # n => FullKey(m) # key
    BY KeysDiffer
<1>4. ASSUME NEW m \in ObjectNames
      PROVE  /\ Mapping(e, store, m)
             /\ BodyIn(e, store, m) = IF m = n THEN Absent ELSE BodyIn(map, store, m)
    <2>1. CASE m = n
        BY <2>1, <1>2 DEF Mapping, BodyIn
    <2>2. CASE m # n
        <3>1. FullKey(m) # key /\ Mapping(map, store, m)
            BY <2>2, <1>3 DEF Mappings
        <3>2. FullKey(m) \in DOMAIN e <=> FullKey(m) \in DOMAIN map
            BY <3>1, <1>2
        <3>3. FullKey(m) \in DOMAIN e => e[FullKey(m)] = map[FullKey(m)]
            BY <3>1, <1>2
        <3> QED  BY <2>2, <3>1, <3>2, <3>3 DEF Mapping, BodyIn
    <2> QED  BY <2>1, <2>2
<1>5. DOMAIN e \subseteq {FullKey(m) : m \in ObjectNames}
    BY <1>2 DEF Mappings
<1> QED  BY <1>4, <1>5 DEF Mappings

(* A listing is that of the bucket's objects.                              *)
Listed(map, store, bucket) ==
    {<<<<bucket, SubSeq(full, Len(bucket) + 1, Len(full))>>, store[map[full].capsule]>> :
        full \in {k \in DOMAIN map : IsStrictPrefix(bucket, k)}}
ObjectsIn(map, store, bucket) ==
    {<<m, BodyIn(map, store, m)>> :
        m \in {k \in ObjectNames : k[1] = bucket /\ BodyIn(map, store, k) # Absent}}

LEMMA Listing ==
    ASSUME FlatBuckets, NEW map, NEW store, Mappings(map, store), Stored(store),
           NEW n \in ObjectNames
    PROVE  Listed(map, store, n[1]) = ObjectsIn(map, store, n[1])
<1> DEFINE bucket == n[1]
           found == {k \in DOMAIN map : IsStrictPrefix(bucket, k)}
<1> DEFINE name(full) == <<bucket, SubSeq(full, Len(bucket) + 1, Len(full))>>
           there == {k \in ObjectNames : k[1] = n[1] /\ BodyIn(map, store, k) # Absent}
<1>1. ASSUME NEW m \in there
      PROVE  FullKey(m) \in found /\ name(FullKey(m)) = m
             /\ store[map[FullKey(m)].capsule] = BodyIn(map, store, m)
    <2>1. m \in ObjectNames /\ m[1] = bucket /\ BodyIn(map, store, m) # Absent
        OBVIOUS
    <2>2. FullKey(m) \in DOMAIN map
        BY <2>1 DEF BodyIn
    <2>3. IsStrictPrefix(n[1], FullKey(m))
          /\ <<m[1], SubSeq(FullKey(m), Len(m[1]) + 1, Len(FullKey(m)))>> = m
        BY <2>1, KeysOfBucket
    <2> QED  BY <2>1, <2>2, <2>3 DEF BodyIn
<1>2. ASSUME NEW full \in found
      PROVE  \E m \in there : FullKey(m) = full
    <2>1. PICK m \in ObjectNames : full = FullKey(m)
        BY DEF Mappings
    <2>2. m[1] = n[1]
        BY <2>1, KeysOfBucket
    <2>3. BodyIn(map, store, m) # Absent
        BY <2>1, BodyType
    <2> QED  BY <2>1, <2>2, <2>3
<1> HIDE DEF there, name
<1>3. {<<name(full), store[map[full].capsule]>> : full \in found}
      = {<<m, BodyIn(map, store, m)>> : m \in there}
    BY <1>1, <1>2
<1> QED  BY <1>3 DEF there, name, Listed, ObjectsIn

-----------------------------------------------------------------------------
(* Each step keeps the invariant and is a step of the store, or changes    *)
(* nothing that clients see.                                               *)
Objs == [n \in ObjectNames |-> BodyOf(n)]
Seen == <<Objs, request, answer>>

LEMMA ObjsAre ==
    /\ Objs = [n \in ObjectNames |-> BodyIn(key_map, bodies, n)]
    /\ Objs' = [n \in ObjectNames |-> BodyIn(key_map', bodies', n)]
BY DEF Objs, BodyOf, BodyIn, Mapped

LEMMA ObjsStay ==
    ASSUME UNCHANGED <<key_map, bodies>>
    PROVE  Objs' = Objs
BY ObjsAre

LEMMA ClientIs ==
    ASSUME S3Inv, NEW c \in Clients
    PROVE  /\ Handling(bodies, request[c], local[c], answer[c])
           /\ Stored(bodies) /\ Mappings(key_map, bodies)
BY DEF S3Inv

LEMMA ArriveStep ==
    ASSUME S3Inv, NEW c \in Clients, NEW r \in Requests, Arrive(c, r)
    PROVE  S3Inv' /\ Objects!Arrive(c, r)
<1>1. /\ request[c] = Nothing /\ request' = [request EXCEPT ![c] = r]
      /\ UNCHANGED <<key_map, bodies, local, answer>>
    BY DEF Arrive
<1>2. local[c] = Nothing /\ answer[c] = Nothing
    BY <1>1, ClientIs DEF Handling
<1>3. Proceeds(c, r, local[c], answer[c])
    BY <1>1, Stays DEF Proceeds
<1>4. Handling(bodies', r, local[c], answer[c])
    BY <1>1, <1>2, NothingAssumption DEF Handling
<1>5. S3Inv'
    BY <1>1, <1>3, <1>4, ClientIs, Proceeded
<1>6. Objs' = Objs
    BY <1>1, ObjsStay
<1> QED  BY <1>1, <1>5, <1>6 DEF Objects!Arrive, Objs

LEMMA WriteCapsuleStep ==
    ASSUME S3Inv, NEW c \in Clients, WriteCapsule(c)
    PROVE  S3Inv' /\ (Objects!Fail(c) \/ UNCHANGED Seen)
<1> DEFINE r == request[c]
<1>1. r # Nothing /\ r.op = "put" /\ answer[c] = Nothing /\ local[c] = Nothing
    BY DEF WriteCapsule, Handles
<1>2. Handling(bodies, r, local[c], answer[c]) /\ Stored(bodies) /\ Mappings(key_map, bodies)
    BY ClientIs
<1>3. r \in Requests /\ r.body \in Bodies
    BY <1>1, <1>2, RequestIs DEF Handling
<1>4. CASE Respond(c, Refused) /\ UNCHANGED <<bodies, local, key_map>>
    <2>1. Proceeds(c, r, local[c], Refused)
        BY <1>4, Stays DEF Proceeds, Respond
    <2>2. Handling(bodies', r, local[c], Refused)
        BY <1>1, <1>3, <1>4 DEF Handling
    <2>3. S3Inv'
        BY <1>2, <1>4, <2>1, <2>2, Proceeded
    <2>4. Objs' = Objs
        BY <1>4, ObjsStay
    <2> QED  BY <1>1, <1>4, <2>3, <2>4 DEF Objects!Fail, Objects!Asked, Objects!Tell, Respond, Objs
<1>5. ASSUME NEW id, id = Cardinality(DOMAIN bodies) + 1, bodies' = Put(bodies, id, r.body),
             local' = [local EXCEPT ![c] = id], UNCHANGED <<request, answer, key_map>>
      PROVE  S3Inv' /\ UNCHANGED Seen
    <2>1. Proceeds(c, r, id, answer[c])
        BY <1>5, Stays DEF Proceeds
    <2>2. /\ Stored(bodies') /\ DOMAIN bodies' = DOMAIN bodies \cup {id} /\ bodies'[id] = r.body
          /\ \A i \in DOMAIN bodies : bodies'[i] = bodies[i]
        BY <1>2, <1>3, <1>5, StoredNew
    <2>3. Mappings(key_map', bodies')
        BY <1>2, <1>5, <2>2, MappingsAdded
    <2>4. Handling(bodies', r, id, answer[c])
        BY <1>1, <1>3, <2>2 DEF Handling
    <2>5. S3Inv'
        BY <2>1, <2>2, <2>3, <2>4, Proceeded
    <2>6. \A n \in ObjectNames : BodyIn(key_map', bodies', n) = BodyIn(key_map, bodies, n)
        BY <1>2, <1>5, <2>2, SameBodies
    <2>7. Objs' = Objs
        BY <2>6, ObjsAre
    <2> QED  BY <1>5, <2>5, <2>7 DEF Seen
<1> QED  BY <1>4, <1>5 DEF WriteCapsule

LEMMA InsertMappingStep ==
    ASSUME FlatBuckets, S3Inv, NEW c \in Clients, InsertMapping(c)
    PROVE  S3Inv' /\ Objects!Put(c)
<1> DEFINE r == request[c]
           n == r.name
           l == local[c]
<1>1. r # Nothing /\ r.op = "put" /\ answer[c] = Nothing /\ l # Nothing
    BY DEF InsertMapping, Handles
<1>2. Handling(bodies, r, l, answer[c]) /\ Stored(bodies) /\ Mappings(key_map, bodies)
    BY ClientIs
<1>3. r \in Requests /\ n \in ObjectNames /\ l \in DOMAIN bodies /\ bodies[l] = r.body
    BY <1>1, <1>2, RequestIs DEF Handling
<1>4. /\ key_map' = Put(key_map, FullKey(n), [capsule |-> l, content_type |-> DetectContentType(n)])
      /\ Respond(c, r.body) /\ UNCHANGED <<bodies, local>>
    BY DEF InsertMapping
<1> HIDE DEF n, l
<1>5. /\ Mappings(key_map', bodies)
      /\ \A m \in ObjectNames :
            BodyIn(key_map', bodies, m) = IF m = n THEN bodies[l] ELSE BodyIn(key_map, bodies, m)
    BY <1>2, <1>3, <1>4, MappedName
<1>6. Proceeds(c, r, l, r.body)
    BY <1>4, Stays DEF Proceeds, Respond, l
<1>7. Handling(bodies', r, l, r.body)
    BY <1>1, <1>2, <1>4 DEF Handling
<1>8. S3Inv'
    BY <1>2, <1>4, <1>5, <1>6, <1>7, Proceeded
<1>9. Objs' = [Objs EXCEPT ![n] = r.body]
    <2>1. \A m \in ObjectNames :
            BodyIn(key_map', bodies', m) = IF m = n THEN r.body ELSE BodyIn(key_map, bodies, m)
        BY <1>3, <1>4, <1>5
    <2> QED  BY <2>1, ObjsAre
<1> QED  BY <1>1, <1>4, <1>8, <1>9
         DEF Objects!Put, Objects!Asked, Objects!Tell, Objects!Named, Respond, Objs, n

LEMMA GetMappingStep ==
    ASSUME S3Inv, NEW c \in Clients, GetMapping(c)
    PROVE  S3Inv' /\ Objects!Get(c)
<1> DEFINE r == request[c]
           n == r.name
           k == FullKey(n)
           body == BodyOf(n)
           a == [body |-> body, type |-> Nothing]
           l == IF k \in DOMAIN key_map THEN key_map[k].capsule ELSE local[c]
<1>1. r # Nothing /\ r.op = "get" /\ answer[c] = Nothing
    BY DEF GetMapping, Handles
<1>2. Handling(bodies, r, local[c], answer[c]) /\ Stored(bodies) /\ Mappings(key_map, bodies)
    BY ClientIs
<1>3. r \in Requests /\ n \in ObjectNames /\ local[c] = Nothing
    BY <1>1, <1>2, RequestIs DEF Handling
<1>4. local' = [local EXCEPT ![c] = l] /\ Respond(c, a) /\ UNCHANGED <<key_map, bodies>>
    BY Stays DEF GetMapping, Mapped
<1>5. body \in Bodies \cup {Absent} /\ body = BodyIn(key_map, bodies, n)
    BY <1>2, <1>3, BodyOfIs, BodyType
<1>6. l # Nothing => l \in DOMAIN bodies /\ body = bodies[l]
    BY <1>2, <1>3, <1>5 DEF Mappings, Mapping, BodyIn
<1>7. Objs[n] = body
    BY <1>3 DEF Objs
<1>8. Objs' = Objs
    BY <1>4, ObjsStay
<1>9. Objects!Get(c)
    BY <1>1, <1>4, <1>7, <1>8 DEF Objects!Get, Objects!Asked, Objects!Tell, Objects!Named, Respond, Objs
<1> HIDE DEF l, body
<1>10. a \in GetAnswer /\ a # Nothing /\ a.type = Nothing /\ a.body = body
    BY <1>5, NothingAssumption DEF GetAnswer
<1> HIDE DEF a
<1>11. Proceeds(c, r, l, a)
    BY <1>4, Stays DEF Proceeds, Respond
<1>12. Handling(bodies', r, l, a)
    BY <1>1, <1>3, <1>4, <1>6, <1>10 DEF Handling
<1>13. S3Inv'
    BY <1>2, <1>4, <1>11, <1>12, Proceeded
<1> QED  BY <1>9, <1>13

LEMMA ReadFailsStep ==
    ASSUME S3Inv, NEW c \in Clients, ReadFails(c)
    PROVE  S3Inv' /\ Objects!Fail(c)
<1> DEFINE r == request[c]
           a == [body |-> Absent, type |-> Nothing]
<1>1. /\ r # Nothing /\ r.op = "get" /\ local[c] # Nothing /\ answer[c].type = Nothing
      /\ Respond(c, a) /\ local' = [local EXCEPT ![c] = Nothing] /\ UNCHANGED <<key_map, bodies>>
    BY DEF ReadFails, Handles
<1>2. Handling(bodies, r, local[c], answer[c]) /\ Stored(bodies) /\ Mappings(key_map, bodies)
    BY ClientIs
<1>3. r \in Requests /\ answer[c] # Nothing
    BY <1>1, <1>2 DEF Handling
<1>4. Objs' = Objs
    BY <1>1, ObjsStay
<1>5. Objects!Fail(c)
    BY <1>1, <1>3, <1>4 DEF Objects!Fail, Objects!Tell, Respond, Objs
<1>6. a \in GetAnswer /\ a # Nothing
    BY NothingAssumption DEF GetAnswer
<1> HIDE DEF a
<1>7. Proceeds(c, r, Nothing, a)
    BY <1>1, Stays DEF Proceeds, Respond
<1>8. Handling(bodies', r, Nothing, a)
    BY <1>1, <1>3, <1>6 DEF Handling
<1>9. S3Inv'
    BY <1>1, <1>2, <1>7, <1>8, Proceeded
<1> QED  BY <1>5, <1>9

(* The body was read from the capsule the mapping gave, and the content    *)
(* type is the name's own as long as it has a mapping, whichever it is.    *)
LEMMA ReadCapsuleStep ==
    ASSUME S3Inv, NEW c \in Clients, ReadCapsule(c)
    PROVE  S3Inv' /\ Objects!Describe(c)
<1> DEFINE r == request[c]
           n == r.name
           l == local[c]
           b == bodies[l]
           t == TypeServed(n)
           a == [body |-> b, type |-> t]
<1>1. /\ r # Nothing /\ r.op = "get" /\ l # Nothing /\ answer[c].type = Nothing
      /\ Respond(c, a) /\ UNCHANGED <<key_map, bodies, local>>
    BY DEF ReadCapsule, Handles
<1>2. Handling(bodies, r, l, answer[c]) /\ Stored(bodies) /\ Mappings(key_map, bodies)
    BY ClientIs
<1>3. /\ r \in Requests /\ n \in ObjectNames /\ answer[c] \in GetAnswer /\ answer[c] # Nothing
      /\ l \in DOMAIN bodies /\ answer[c].body = b
    BY <1>1, <1>2, RequestIs DEF Handling
<1>4. b \in Bodies
    BY <1>2, <1>3 DEF Stored
<1>5. t = (IF BodyOf(n) = Absent THEN DefaultType ELSE DetectContentType(n))
    BY <1>2, <1>3, BodyType, BodyOfIs DEF TypeServed, Mapped, Mappings, Mapping
<1>6. t \in Types
    BY <1>3, <1>5, S3Assumption DEF DetectContentType
<1>7. Objs' = Objs /\ Objs[n] = BodyOf(n)
    BY <1>1, <1>3, ObjsStay DEF Objs
<1> HIDE DEF b, t
<1>8. a = [answer[c] EXCEPT !.type = t]
    BY <1>3 DEF GetAnswer
<1>9. Objects!Describe(c)
    BY <1>1, <1>3, <1>4, <1>5, <1>7, <1>8, NothingAssumption
       DEF Objects!Describe, Objects!Tell, Objects!Named, Respond, Objs
<1>10. a \in GetAnswer /\ a # Nothing /\ a.type # Nothing
    BY <1>4, <1>6, NothingAssumption DEF GetAnswer
<1> HIDE DEF a
<1>11. Proceeds(c, r, l, a)
    BY <1>1, Stays DEF Proceeds, Respond
<1>12. Handling(bodies', r, l, a)
    BY <1>1, <1>3, <1>10 DEF Handling
<1>13. S3Inv'
    BY <1>1, <1>2, <1>11, <1>12, Proceeded
<1> QED  BY <1>9, <1>13

(* A request that is neither a PUT nor a GET may be told anything.         *)
LEMMA OtherHandling ==
    ASSUME NEW store, NEW r \in Requests, r.op \notin {"put", "get"}, r # Nothing, NEW l, NEW a
    PROVE  Handling(store, r, l, a)
BY DEF Handling

LEMMA HeadObjectStep ==
    ASSUME S3Inv, NEW c \in Clients, HeadObject(c)
    PROVE  S3Inv' /\ Objects!Head(c)
<1> DEFINE r == request[c]
           n == r.name
           a == BodyOf(n)
<1>1. r # Nothing /\ r.op = "head" /\ answer[c] = Nothing /\ Respond(c, a)
      /\ UNCHANGED <<key_map, bodies, local>>
    BY DEF HeadObject, Handles
<1>2. Handling(bodies, r, local[c], answer[c]) /\ Stored(bodies) /\ Mappings(key_map, bodies)
    BY ClientIs
<1>3. r \in Requests /\ n \in ObjectNames
    BY <1>1, <1>2, RequestIs DEF Handling
<1>4. Objs' = Objs /\ Objs[n] = a
    BY <1>1, <1>3, ObjsStay DEF Objs
<1>5. Objects!Head(c)
    BY <1>1, <1>4 DEF Objects!Head, Objects!Asked, Objects!Tell, Objects!Named, Respond, Objs
<1> HIDE DEF a
<1>6. Proceeds(c, r, local[c], a)
    BY <1>1, Stays DEF Proceeds, Respond
<1>7. Handling(bodies', r, local[c], a)
    BY <1>1, <1>3, OtherHandling
<1>8. S3Inv'
    BY <1>1, <1>2, <1>6, <1>7, Proceeded
<1> QED  BY <1>5, <1>8

LEMMA ListObjectsStep ==
    ASSUME FlatBuckets, S3Inv, NEW c \in Clients, ListObjects(c)
    PROVE  S3Inv' /\ Objects!List(c)
<1> DEFINE r == request[c]
           n == r.name
           bucket == n[1]
           found == {full \in DOMAIN key_map : IsStrictPrefix(bucket, full)}
           a == {<<<<bucket, SubSeq(full, Len(bucket) + 1, Len(full))>>,
                   bodies[key_map[full].capsule]>> : full \in found}
           there == {<<m, Objs[m]>> : m \in {k \in ObjectNames : k[1] = n[1] /\ Objs[k] # Absent}}
<1>1. r # Nothing /\ r.op = "list" /\ answer[c] = Nothing /\ Respond(c, a)
      /\ UNCHANGED <<key_map, bodies, local>>
    BY DEF ListObjects, Handles
<1>2. Handling(bodies, r, local[c], answer[c]) /\ Stored(bodies) /\ Mappings(key_map, bodies)
    BY ClientIs
<1>3. r \in Requests /\ n \in ObjectNames
    BY <1>1, <1>2, RequestIs DEF Handling
<1>4. a = {<<m, BodyIn(key_map, bodies, m)>> :
             m \in {k \in ObjectNames : k[1] = n[1] /\ BodyIn(key_map, bodies, k) # Absent}}
    <2>1. a = Listed(key_map, bodies, n[1])
        BY DEF Listed
    <2>2. Listed(key_map, bodies, n[1]) = ObjectsIn(key_map, bodies, n[1])
        BY <1>2, <1>3, Listing
    <2> QED  BY <2>1, <2>2 DEF ObjectsIn
<1>5. a = there
    <2>1. \A m \in ObjectNames : Objs[m] = BodyIn(key_map, bodies, m)
        BY ObjsAre
    <2> HIDE DEF a
    <2> QED  BY <1>4, <2>1
<1> HIDE DEF a
<1>6. Objs' = Objs
    BY <1>1, ObjsStay
<1>7. Objects!List(c)
    BY <1>1, <1>5, <1>6 DEF Objects!List, Objects!Asked, Objects!Tell, Objects!Named, Respond, Objs
<1>8. Proceeds(c, r, local[c], a)
    BY <1>1, Stays DEF Proceeds, Respond
<1>9. Handling(bodies', r, local[c], a)
    BY <1>1, <1>3, OtherHandling
<1>10. S3Inv'
    BY <1>1, <1>2, <1>8, <1>9, Proceeded
<1> QED  BY <1>7, <1>10

LEMMA DeleteObjectStep ==
    ASSUME FlatBuckets, S3Inv, NEW c \in Clients, DeleteObject(c)
    PROVE  S3Inv' /\ Objects!Delete(c)
<1> DEFINE r == request[c]
           n == r.name
           a == BodyOf(n)
<1>1. /\ r # Nothing /\ r.op = "delete" /\ answer[c] = Nothing /\ Respond(c, a)
      /\ key_map' = [k \in DOMAIN key_map \ {FullKey(n)} |-> key_map[k]]
      /\ UNCHANGED <<bodies, local>>
    BY DEF DeleteObject, Handles
<1>2. Handling(bodies, r, local[c], answer[c]) /\ Stored(bodies) /\ Mappings(key_map, bodies)
    BY ClientIs
<1>3. r \in Requests /\ n \in ObjectNames
    BY <1>1, <1>2, RequestIs DEF Handling
<1>4. Objs[n] = a
    BY <1>3 DEF Objs
<1> HIDE DEF a
<1>5. /\ Mappings(key_map', bodies)
      /\ \A m \in ObjectNames :
            BodyIn(key_map', bodies, m) = IF m = n THEN Absent ELSE BodyIn(key_map, bodies, m)
    <2> HIDE DEF n
    <2> QED  BY <1>1, <1>2, <1>3, UnmappedName
<1>6. Objs' = [Objs EXCEPT ![n] = Absent]
    <2>1. \A m \in ObjectNames :
            BodyIn(key_map', bodies', m) = IF m = n THEN Absent ELSE BodyIn(key_map, bodies, m)
        BY <1>1, <1>5
    <2> HIDE DEF n
    <2> QED  BY <2>1, ObjsAre
<1>7. Objects!Delete(c)
    BY <1>1, <1>4, <1>6 DEF Objects!Delete, Objects!Asked, Objects!Tell, Objects!Named, Respond, Objs
<1>8. Proceeds(c, r, local[c], a)
    BY <1>1, Stays DEF Proceeds, Respond
<1>9. Handling(bodies', r, local[c], a)
    BY <1>1, <1>3, OtherHandling
<1>10. S3Inv'
    BY <1>1, <1>2, <1>5, <1>8, <1>9, Proceeded
<1> QED  BY <1>7, <1>10

LEMMA FinishRequestStep ==
    ASSUME S3Inv, NEW c \in Clients, FinishRequest(c)
    PROVE  S3Inv' /\ Objects!Leave(c)
<1>1. /\ answer[c] # Nothing /\ request' = [request EXCEPT ![c] = Nothing]
      /\ answer' = [answer EXCEPT ![c] = Nothing] /\ local' = [local EXCEPT ![c] = Nothing]
      /\ UNCHANGED <<key_map, bodies>>
    BY DEF FinishRequest, Finished
<1>2. Proceeds(c, Nothing, Nothing, Nothing)
    BY <1>1 DEF Proceeds
<1>3. Handling(bodies', Nothing, Nothing, Nothing)
    BY DEF Handling
<1>4. S3Inv'
    BY <1>1, <1>2, <1>3, ClientIs, Proceeded
<1>5. Objs' = Objs
    BY <1>1, ObjsStay
<1> QED  BY <1>1, <1>4, <1>5 DEF Objects!Leave, Objs

LEMMA EmptyMap ==
    ASSUME NEW store
    PROVE  /\ Mappings(Empty, store)
           /\ \A n \in ObjectNames : BodyIn(Empty, store, n) = Absent
BY DEF Empty, Mappings, Mapping, BodyIn

LEMMA RestartServerStep ==
    ASSUME S3Inv, RestartServer
    PROVE  S3Inv' /\ Objects!Restart
<1>1. /\ key_map' = Empty /\ bodies' = bodies /\ request' = [c \in Clients |-> Nothing]
      /\ local' = request' /\ answer' = request'
    BY DEF RestartServer
<1>2. \A c \in Clients : Handling(bodies', request'[c], local'[c], answer'[c])
    BY <1>1 DEF Handling
<1>3. Mappings(key_map', bodies') /\ Stored(bodies')
    BY <1>1, EmptyMap DEF S3Inv
<1>4. S3Inv'
    BY <1>1, <1>2, <1>3 DEF S3Inv
<1>5. Objs' = [n \in ObjectNames |-> Absent]
    BY <1>1, EmptyMap, ObjsAre
<1> QED  BY <1>1, <1>4, <1>5 DEF Objects!Restart, Objs

LEMMA S3InitInv ==
    ASSUME S3Init
    PROVE  S3Inv /\ Objects!Init
<1>1. /\ key_map = Empty /\ bodies = Empty /\ request = [c \in Clients |-> Nothing]
      /\ local = request /\ answer = request
    BY DEF S3Init
<1>2. Stored(bodies)
    <2>1. Empty \in [1 .. 0 -> Bodies]
        BY DEF Empty
    <2> QED  BY <1>1, <2>1 DEF Stored
<1>3. \A c \in Clients : Handling(bodies, request[c], local[c], answer[c])
    BY <1>1 DEF Handling
<1>4. S3Inv
    BY <1>1, <1>2, <1>3, EmptyMap DEF S3Inv
<1>5. Objs = [n \in ObjectNames |-> Absent]
    BY <1>1, EmptyMap, ObjsAre
<1> QED  BY <1>1, <1>4, <1>5 DEF Objects!Init, Objs

LEMMA S3UnchangedInv ==
    ASSUME S3Inv, UNCHANGED s3_vars
    PROVE  S3Inv' /\ UNCHANGED Seen
<1>1. UNCHANGED <<key_map, bodies, request, local, answer>>
    BY DEF s3_vars
<1>2. Objs' = Objs
    BY <1>1, ObjsStay
<1> QED  BY <1>1, <1>2, Zenon DEF S3Inv, Seen

LEMMA S3StepRefines ==
    ASSUME FlatBuckets, S3Inv, [S3Next]_s3_vars
    PROVE  S3Inv' /\ [Objects!Next]_Seen
<1>1. ASSUME NEW c \in Clients, NEW r \in Requests, Arrive(c, r) PROVE S3Inv' /\ Objects!Next
    <2>1. r \in Objects!Requests
        BY DEF Requests, Objects!Requests
    <2> QED  BY <1>1, <2>1, ArriveStep DEF Objects!Next
<1>2. ASSUME NEW c \in Clients, WriteCapsule(c) PROVE S3Inv' /\ (Objects!Next \/ UNCHANGED Seen)
    BY <1>2, WriteCapsuleStep DEF Objects!Next
<1>3. ASSUME NEW c \in Clients, InsertMapping(c) PROVE S3Inv' /\ Objects!Next
    BY <1>3, InsertMappingStep DEF Objects!Next
<1>4. ASSUME NEW c \in Clients, GetMapping(c) PROVE S3Inv' /\ Objects!Next
    BY <1>4, GetMappingStep DEF Objects!Next
<1>5. ASSUME NEW c \in Clients, ReadFails(c) PROVE S3Inv' /\ Objects!Next
    BY <1>5, ReadFailsStep DEF Objects!Next
<1>6. ASSUME NEW c \in Clients, ReadCapsule(c) PROVE S3Inv' /\ Objects!Next
    BY <1>6, ReadCapsuleStep DEF Objects!Next
<1>7. ASSUME NEW c \in Clients, HeadObject(c) PROVE S3Inv' /\ Objects!Next
    BY <1>7, HeadObjectStep DEF Objects!Next
<1>8. ASSUME NEW c \in Clients, ListObjects(c) PROVE S3Inv' /\ Objects!Next
    BY <1>8, ListObjectsStep DEF Objects!Next
<1>9. ASSUME NEW c \in Clients, DeleteObject(c) PROVE S3Inv' /\ Objects!Next
    BY <1>9, DeleteObjectStep DEF Objects!Next
<1>10. ASSUME NEW c \in Clients, FinishRequest(c) PROVE S3Inv' /\ Objects!Next
    BY <1>10, FinishRequestStep DEF Objects!Next
<1>11. ASSUME RestartServer PROVE S3Inv' /\ Objects!Next
    BY <1>11, RestartServerStep DEF Objects!Next
<1>12. ASSUME UNCHANGED s3_vars PROVE S3Inv' /\ UNCHANGED Seen
    BY <1>12, S3UnchangedInv
<1>13. S3Next \/ UNCHANGED s3_vars
    OBVIOUS
<1> QED  BY <1>1, <1>2, <1>3, <1>4, <1>5, <1>6, <1>7, <1>8, <1>9, <1>10, <1>11, <1>12, <1>13,
            S3Steps

(* Whatever the interleaving of the handlers and of a restart, the key map *)
(* holds keys of objects only, each with a stored capsule and the content  *)
(* type of its name, and a handler's capsule is the one its request needs. *)
THEOREM S3Invariant ==
    ASSUME FlatBuckets
    PROVE  S3Spec => []S3Inv
<1>1. S3Init => S3Inv
    BY S3InitInv
<1>2. S3Inv /\ [S3Next]_s3_vars => S3Inv'
    BY S3StepRefines
<1> QED  BY <1>1, <1>2, PTL DEF S3Spec

(* The S3 handlers implement ObjectStore: each request takes effect in one *)
(* step of the key map between its arrival and its answer, and no name's   *)
(* object is changed, served or listed as that of another.                 *)
THEOREM S3ImplementsObjects ==
    ASSUME FlatBuckets
    PROVE  S3Spec => ImplementsObjects
<1>1. S3Init => Objects!Init
    BY S3InitInv
<1>2. S3Inv /\ [S3Next]_s3_vars => [Objects!Next]_Seen
    BY S3StepRefines
<1>3. S3Inv /\ [S3Next]_s3_vars => [Objects!Next]_(Objects!vars)
    BY <1>2 DEF Objects!vars, Seen, Objs
<1> QED  BY <1>1, <1>3, S3Invariant, PTL DEF S3Spec, ImplementsObjects, Objects!Spec
=============================================================================

------------------------------- MODULE NvramLog -------------------------------
(***************************************************************************)
(* The NVRAM log simulator, crates/nvram-sim/src/lib.rs.                   *)
(*                                                                         *)
(* A NvramLog is one data file, an in-memory segment map that is saved to  *)
(* a side file (<path>.segments) after every change, and the offset of the *)
(* next append.  Clients share it through Arc<RwLock<..>> fields: a step   *)
(* below is one critical section of the code, and the save that follows a  *)
(* change of the map is a step of its own because the locks are released   *)
(* in between.  save_segment_map itself is one step: it keeps the read     *)
(* guard of the map until the file is written, so no save can write an     *)
(* older map over a newer one.                                             *)
(*                                                                         *)
(* Data are abstracted to lengths: byte k of the data of segment id is the *)
(* pair <<id, k>>, so that reading back means finding these pairs again.   *)
(* A Segment is abstracted to its place; reference counts and the other    *)
(* metadata are the business of module WritePipeline.                      *)
(***************************************************************************)
EXTENDS Integers, Sequences, FiniteSets, FiniteSetsExt, Functions

CONSTANTS
    Clients,        \* threads that share the log
    Calls,          \* write calls the build uses: "append", "txn" or both
    Lengths,        \* data.len() of the appends
    MaxOffset,      \* bound: the data file has at most MaxOffset bytes
    MaxSegments,    \* bound: number of segment ids handed to the log
    MaxWriteFails,  \* bound: failing writes of the data file
    MaxSaveFails,   \* bound: failing writes of the .segments file
    MaxCrashes,     \* bound: crashes of the process
    Exclusive,      \* TRUE: callers let a transaction run alone
    KeepOffset,     \* TRUE: set_segment_metadata callers keep the offset
    TornSaves,      \* TRUE: a crash inside fs::write leaves a torn file
    NoTxn, NoCopy, Torn, Hole   \* values that are no transaction, Segment, map, byte

VARIABLES
    up,             \* the log is open
    file,           \* contents of the data file, byte by byte
    file_len,       \* length of the data file
    next_offset,    \* NvramLog::next_offset
    segment_map,    \* NvramLog::segment_map
    segments_file,  \* the saved map in <path>.segments, or Torn
    txn,            \* the NvramTransaction of each client, or NoTxn
    held,           \* a Segment value a client has cloned out of the map
    pc,             \* where in a call a client is
    ack,            \* ids the client's running call will report as stored
    next_id,        \* ids 0 .. next_id-1 have been handed to the log
    home,           \* history: the place promised for each id
    acked,          \* history: ids whose append or commit returned Ok
    removed,        \* history: ids somebody removed
    aborted,        \* history: ids of transactions that returned Err
    budget          \* failures and crashes still allowed by the bounds

disk == <<file, file_len, segments_file>>
history == <<next_id, home, acked, removed, aborted>>
vars == <<up, file, file_len, next_offset, segment_map, segments_file, txn,
          held, pc, ack, next_id, home, acked, removed, aborted, budget>>

SegIds == 0 .. (MaxSegments - 1)
Offsets == 0 .. (MaxOffset - 1)
Byte == (SegIds \X Nat) \cup {Hole}
Segment == {s \in [id : SegIds, offset : 0 .. MaxOffset, len : 0 .. MaxOffset] :
                s.offset + s.len <= MaxOffset}
Transaction == [pending : Seq(Segment), base_offset : 0 .. MaxOffset,
                current_offset : 0 .. MaxOffset]
Place == {p \in [offset : 0 .. MaxOffset, len : 0 .. MaxOffset, batch : SegIds] :
                p.offset + p.len <= MaxOffset}
PCs == {"idle", "save", "commit_map", "commit_save", "drop"}

ASSUME LogAssumption ==
    /\ Calls \subseteq {"append", "txn"}
    /\ Lengths \subseteq Nat
    /\ MaxOffset \in Nat
    /\ MaxSegments \in Nat
    /\ MaxWriteFails \in Nat
    /\ MaxSaveFails \in Nat
    /\ MaxCrashes \in Nat
    /\ Exclusive \in BOOLEAN
    /\ KeepOffset \in BOOLEAN
    /\ TornSaves \in BOOLEAN
    /\ NoTxn \notin Transaction
    /\ NoCopy \notin Segment
    /\ Hole \notin SegIds \X Nat
    /\ \A S \in SUBSET SegIds : Torn \notin [S -> Segment]

-----------------------------------------------------------------------------
(* Data file.                                                              *)

(* Bytes of entry i that reach the file when entries 1 .. n are written    *)
(* completely and entry n+1 up to m bytes.                                 *)
Count(w, n, m, i) == IF i <= n THEN w[i].len ELSE IF i = n + 1 THEN m ELSE 0

(* The entries that then put a byte at offset o.                           *)
Hits(w, n, m, o) ==
    {i \in DOMAIN w : w[i].offset <= o /\ o < w[i].offset + Count(w, n, m, i)}

(* The file after seeking to each entry's offset and writing its data, one *)
(* entry after another: the last write to a byte wins.                     *)
WriteEntries(f, w, n, m) ==
    [o \in Offsets |->
        IF Hits(w, n, m, o) = {} THEN f[o]
        ELSE LET i == Max(Hits(w, n, m, o)) IN <<w[i].id, o - w[i].offset>>]

(* Mutant: the end is one byte too far.                                    *)
ExtendToPastEnd(l, w, n, m) ==
    Max({l} \cup {w[i].offset + Count(w, n, m, i) + 1 :
                     i \in {j \in DOMAIN w : Count(w, n, m, j) > 0}})

(* The length of the file after that: only bytes written past the end      *)
(* extend it.                                                              *)
ExtendTo(l, w, n, m) ==
    Max({l} \cup {w[i].offset + Count(w, n, m, i) :
                     i \in {j \in DOMAIN w : Count(w, n, m, j) > 0}})

(* A write of the entries of w fails after part of the data: n entries and *)
(* m bytes of the next one have reached the file.                          *)
PartialWrite(w) ==
    \E n \in 0 .. Len(w) :
        \E m \in (IF n < Len(w) THEN 0 .. w[n + 1].len ELSE {0}) :
            /\ file' = WriteEntries(file, w, n, m)
            /\ file_len' = ExtendTo(file_len, w, n, m)

-----------------------------------------------------------------------------
Init ==
    /\ up = TRUE
    /\ file = [o \in Offsets |-> Hole]
    /\ file_len = 0
    /\ next_offset = 0
    /\ segment_map = [id \in {} |-> 0]
    /\ segments_file = [id \in {} |-> 0]
    /\ txn = [c \in Clients |-> NoTxn]
    /\ held = [c \in Clients |-> NoCopy]
    /\ pc = [c \in Clients |-> "idle"]
    /\ ack = [c \in Clients |-> {}]
    /\ next_id = 0
    /\ home = [id \in {} |-> 0]
    /\ acked = {}
    /\ removed = {}
    /\ aborted = {}
    /\ budget = [writes |-> MaxWriteFails, saves |-> MaxSaveFails,
                 crashes |-> MaxCrashes]

Idle(c) == up /\ pc[c] = "idle"

(* Callers that serialise whole writes never overlap a transaction with    *)
(* another one or with an append; nothing in the log itself enforces it.   *)
Alone(c) == Exclusive => \A d \in Clients \ {c} : txn[d] = NoTxn

NewSegment(id, offset, len) ==
    [id |-> id, offset |-> offset, len |-> len]

(* Mutant: the segment does not get into the map.                          *)
InsertNothing(map, s) == map

Insert(map, s) == [id \in DOMAIN map \cup {s.id} |-> IF id = s.id THEN s ELSE map[id]]

(* History of handing out the next id: its place in the file and the first *)
(* id of the transaction it belongs to.                                    *)
Promise(offset, len, first) ==
    /\ next_id' = next_id + 1
    /\ home' = [id \in 0 .. next_id |->
                  IF id = next_id
                  THEN [offset |-> offset, len |-> len, batch |-> first]
                  ELSE home[id]]

(* append: under the file and next_offset locks the data are written at    *)
(* the end of the log, next_offset moves and the map gets the segment; the *)
(* map is saved after the locks are released.                              *)
LogAppend(c, len) ==
    /\ "append" \in Calls
    /\ Idle(c)
    /\ txn[c] = NoTxn
    /\ Alone(c)
    /\ next_id < MaxSegments
    /\ next_offset + len <= MaxOffset
    /\ LET s == NewSegment(next_id, next_offset, len) IN
        /\ file' = WriteEntries(file, <<s>>, 1, 0)
        /\ file_len' = ExtendTo(file_len, <<s>>, 1, 0)
        /\ next_offset' = next_offset + len
        /\ segment_map' = Insert(segment_map, s)
    /\ Promise(next_offset, len, next_id)
    /\ pc' = [pc EXCEPT ![c] = "save"]
    /\ ack' = [ack EXCEPT ![c] = {next_id}]
    /\ UNCHANGED <<up, segments_file, txn, held, acked, removed, aborted, budget>>

(* append whose write_all or sync_data fails: the error returns before     *)
(* next_offset and the map change; some bytes may be in the file.          *)
LogAppendFails(c, len) ==
    /\ "append" \in Calls
    /\ Idle(c)
    /\ txn[c] = NoTxn
    /\ Alone(c)
    /\ next_id < MaxSegments
    /\ next_offset + len <= MaxOffset
    /\ budget.writes > 0
    /\ PartialWrite(<<NewSegment(next_id, next_offset, len)>>)
    /\ Promise(next_offset, len, next_id)
    /\ budget' = [budget EXCEPT !.writes = @ - 1]
    /\ UNCHANGED <<up, next_offset, segment_map, segments_file, txn, held, pc, ack,
                   acked, removed, aborted>>

(* save_segment_map succeeds and the call that changed the map returns Ok. *)
SaveSegmentMap(c) ==
    /\ up
    /\ pc[c] \in {"save", "commit_save"}
    /\ segments_file' = segment_map
    /\ acked' = acked \cup ack[c]
    /\ txn' = IF pc[c] = "commit_save" THEN [txn EXCEPT ![c] = NoTxn] ELSE txn
    /\ pc' = [pc EXCEPT ![c] = "idle"]
    /\ ack' = [ack EXCEPT ![c] = {}]
    /\ UNCHANGED <<up, file, file_len, next_offset, segment_map, held, next_id, home,
                   removed, aborted, budget>>

(* Mutant: the error of the save is not returned.                          *)
SaveFailsIgnored(c) ==
    /\ up
    /\ pc[c] \in {"save", "commit_save"}
    /\ budget.saves > 0
    /\ acked' = acked \cup ack[c]
    /\ txn' = IF pc[c] = "commit_save" THEN [txn EXCEPT ![c] = NoTxn] ELSE txn
    /\ pc' = [pc EXCEPT ![c] = "idle"]
    /\ ack' = [ack EXCEPT ![c] = {}]
    /\ budget' = [budget EXCEPT !.saves = @ - 1]
    /\ UNCHANGED <<up, file, file_len, next_offset, segment_map, segments_file, held,
                   next_id, home, removed, aborted>>

(* save_segment_map fails: the call returns Err but the map in memory      *)
(* keeps the change.  In commit the transaction is left unfinalized, and   *)
(* its owner drops it.                                                     *)
SaveFails(c) ==
    /\ up
    /\ pc[c] \in {"save", "commit_save"}
    /\ budget.saves > 0
    /\ pc' = [pc EXCEPT ![c] = IF pc[c] = "commit_save" THEN "drop" ELSE "idle"]
    /\ ack' = [ack EXCEPT ![c] = {}]
    /\ aborted' = IF pc[c] = "commit_save" THEN aborted \cup ack[c] ELSE aborted
    /\ budget' = [budget EXCEPT !.saves = @ - 1]
    /\ UNCHANGED <<up, file, file_len, next_offset, segment_map, segments_file, txn, held,
                   next_id, home, acked, removed>>

-----------------------------------------------------------------------------
(* Operations on the segment map.  Each changes the map under its lock and *)
(* then saves it.                                                          *)

(* get_segment_metadata and list_segments clone entries out of the map.    *)
GetSegmentMetadata(c, id) ==
    /\ Idle(c)
    /\ id \in DOMAIN segment_map
    /\ held' = [held EXCEPT ![c] = segment_map[id]]
    /\ UNCHANGED <<up, file, file_len, next_offset, segment_map, segments_file, txn, pc,
                   ack, next_id, home, acked, removed, aborted, budget>>

(* The map becomes m and the caller goes on to save it.                    *)
ChangeMap(c, m) ==
    /\ segment_map' = m
    /\ pc' = [pc EXCEPT ![c] = "save"]
    /\ UNCHANGED <<up, file, file_len, next_offset, segments_file, txn, held, ack, next_id,
                   home, acked, aborted, budget>>

(* update_segment_metadata: a blind insert of the caller's copy, which     *)
(* brings a segment back that was removed since the copy was taken.        *)
UpdateSegmentMetadata(c) ==
    /\ Idle(c)
    /\ held[c] # NoCopy
    /\ ChangeMap(c, Insert(segment_map, held[c]))
    /\ UNCHANGED removed

(* increment_refcount and decrement_refcount change an entry in place.     *)
ChangeRefcount(c, id) ==
    /\ Idle(c)
    /\ id \in DOMAIN segment_map
    /\ ChangeMap(c, segment_map)
    /\ UNCHANGED removed

RemoveSegment(c, id) ==
    /\ Idle(c)
    /\ id \in DOMAIN segment_map
    /\ ChangeMap(c, Restrict(segment_map, DOMAIN segment_map \ {id}))
    /\ removed' = removed \cup {id}

-----------------------------------------------------------------------------
(* Transactions.                                                           *)

BeginTransaction(c) ==
    /\ "txn" \in Calls
    /\ Idle(c)
    /\ txn[c] = NoTxn
    /\ Alone(c)
    /\ txn' = [txn EXCEPT ![c] = [pending |-> <<>>, base_offset |-> next_offset,
                                  current_offset |-> next_offset]]
    /\ UNCHANGED <<up, disk, next_offset, segment_map, held, pc, ack, history, budget>>

(* Mutant: the transaction's current offset does not move.                 *)
AppendSegmentInPlace(c, len) ==
    /\ Idle(c)
    /\ txn[c] # NoTxn
    /\ next_id < MaxSegments
    /\ txn[c].current_offset + len <= MaxOffset
    /\ LET offset == txn[c].current_offset IN
        /\ txn' = [txn EXCEPT ![c].pending = Append(@, NewSegment(next_id, offset, len))]
        /\ next_offset' = offset + len
        /\ Promise(offset, len, IF txn[c].pending = <<>> THEN next_id
                                ELSE txn[c].pending[1].id)
    /\ UNCHANGED <<up, disk, segment_map, held, pc, ack, acked, removed, aborted, budget>>

(* append_segment: the segment gets the transaction's own current offset,  *)
(* and next_offset is overwritten with the offset after it.                *)
AppendSegment(c, len) ==
    /\ Idle(c)
    /\ txn[c] # NoTxn
    /\ next_id < MaxSegments
    /\ txn[c].current_offset + len <= MaxOffset
    /\ LET offset == txn[c].current_offset IN
        /\ txn' = [txn EXCEPT
               ![c].pending = Append(@, NewSegment(next_id, offset, len)),
               ![c].current_offset = offset + len]
        /\ next_offset' = offset + len
        /\ Promise(offset, len, IF txn[c].pending = <<>> THEN next_id
                                ELSE txn[c].pending[1].id)
    /\ UNCHANGED <<up, disk, segment_map, held, pc, ack, acked, removed, aborted, budget>>

(* with_segment_mut and set_segment_metadata replace the Segment of a      *)
(* pending entry, its offset included, by the caller's; the pipeline crate *)
(* passes a Segment with offset 0.                                         *)
SetSegmentMetadata(c, i) ==
    /\ Idle(c)
    /\ txn[c] # NoTxn
    /\ i \in DOMAIN txn[c].pending
    /\ txn' = [txn EXCEPT ![c].pending[i].offset = IF KeepOffset THEN @ ELSE 0]
    /\ UNCHANGED <<up, disk, next_offset, segment_map, held, pc, ack, history, budget>>

(* Mutant: the loop over the pending entries misses the last one.          *)
PendingIdsShort(c) == {txn[c].pending[i].id : i \in 1 .. (Len(txn[c].pending) - 1)}

PendingIds(c) == {txn[c].pending[i].id : i \in DOMAIN txn[c].pending}

CommitEmpty(c) ==
    /\ Idle(c)
    /\ txn[c] # NoTxn
    /\ txn[c].pending = <<>>
    /\ txn' = [txn EXCEPT ![c] = NoTxn]
    /\ UNCHANGED <<up, disk, next_offset, segment_map, held, pc, ack, history, budget>>

(* commit, the part under the file and next_offset locks.                  *)
CommitData(c) ==
    /\ Idle(c)
    /\ txn[c] # NoTxn
    /\ txn[c].pending # <<>>
    /\ LET w == txn[c].pending IN
        /\ file' = WriteEntries(file, w, Len(w), 0)
        /\ file_len' = ExtendTo(file_len, w, Len(w), 0)
    /\ next_offset' = txn[c].current_offset
    /\ pc' = [pc EXCEPT ![c] = "commit_map"]
    /\ UNCHANGED <<up, segments_file, segment_map, txn, held, ack, history, budget>>

(* commit whose write or sync fails: next_offset goes back to the base     *)
(* offset and the transaction is finalized.                                *)
CommitFails(c) ==
    /\ Idle(c)
    /\ txn[c] # NoTxn
    /\ txn[c].pending # <<>>
    /\ budget.writes > 0
    /\ PartialWrite(txn[c].pending)
    /\ next_offset' = txn[c].base_offset
    /\ txn' = [txn EXCEPT ![c] = NoTxn]
    /\ aborted' = aborted \cup PendingIds(c)
    /\ budget' = [budget EXCEPT !.writes = @ - 1]
    /\ UNCHANGED <<up, segments_file, segment_map, held, pc, ack, next_id, home, acked,
                   removed>>

(* commit, the part under the segment_map lock: all pending segments are   *)
(* inserted.  The save is SaveSegmentMap or SaveFails.                     *)
CommitMap(c) ==
    /\ up
    /\ pc[c] = "commit_map"
    /\ LET w == txn[c].pending
           entry(id) == w[CHOOSE i \in DOMAIN w : w[i].id = id]
       IN segment_map' = [id \in DOMAIN segment_map \cup PendingIds(c) |->
                            IF id \in PendingIds(c) THEN entry(id) ELSE segment_map[id]]
    /\ pc' = [pc EXCEPT ![c] = "commit_save"]
    /\ ack' = [ack EXCEPT ![c] = PendingIds(c)]
    /\ UNCHANGED <<up, disk, next_offset, txn, held, history, budget>>

(* Mutant: the transaction is not finalized and can still be committed.    *)
RollbackKeeps(c) ==
    /\ up
    /\ pc[c] \in {"idle", "drop"}
    /\ txn[c] # NoTxn
    /\ next_offset' = txn[c].base_offset
    /\ pc' = [pc EXCEPT ![c] = "idle"]
    /\ aborted' = aborted \cup PendingIds(c)
    /\ UNCHANGED <<up, disk, segment_map, txn, held, ack, next_id, home, acked, removed,
                   budget>>

(* rollback, called or run by Drop on a transaction that is not finalized. *)
Rollback(c) ==
    /\ up
    /\ pc[c] \in {"idle", "drop"}
    /\ txn[c] # NoTxn
    /\ next_offset' = txn[c].base_offset
    /\ txn' = [txn EXCEPT ![c] = NoTxn]
    /\ pc' = [pc EXCEPT ![c] = "idle"]
    /\ aborted' = aborted \cup PendingIds(c)
    /\ UNCHANGED <<up, disk, segment_map, held, ack, next_id, home, acked, removed, budget>>

-----------------------------------------------------------------------------
(* The process dies: memory is lost.  With TornSaves a crash inside        *)
(* fs::write leaves <path>.segments truncated.                             *)
Crash ==
    /\ up
    /\ budget.crashes > 0
    /\ up' = FALSE
    /\ \/ UNCHANGED segments_file
       \/ /\ TornSaves
          /\ \E c \in Clients : pc[c] \in {"save", "commit_save"}
          /\ segments_file' = Torn
    /\ txn' = [c \in Clients |-> NoTxn]
    /\ held' = [c \in Clients |-> NoCopy]
    /\ pc' = [c \in Clients |-> "idle"]
    /\ ack' = [c \in Clients |-> {}]
    /\ segment_map' = [id \in {} |-> 0]
    /\ next_offset' = 0
    /\ budget' = [budget EXCEPT !.crashes = @ - 1]
    /\ UNCHANGED <<file, file_len, history>>

(* Mutant: appending continues where an empty file would.                  *)
OpenAtStart ==
    /\ ~up
    /\ segments_file # Torn
    /\ up' = TRUE
    /\ segment_map' = segments_file
    /\ next_offset' = 0
    /\ UNCHANGED <<disk, txn, held, pc, ack, history, budget>>

(* open: appending continues at the end of the data file; the map is the   *)
(* saved one.  A torn file does not parse, and open returns the error.     *)
Open ==
    /\ ~up
    /\ segments_file # Torn
    /\ up' = TRUE
    /\ segment_map' = segments_file
    /\ next_offset' = file_len
    /\ UNCHANGED <<disk, txn, held, pc, ack, history, budget>>

Next ==
    \/ \E c \in Clients :
        \/ \E len \in Lengths :
            LogAppend(c, len) \/ LogAppendFails(c, len) \/ AppendSegment(c, len)
        \/ SaveSegmentMap(c) \/ SaveFails(c)
        \/ \E id \in SegIds :
            \/ GetSegmentMetadata(c, id)
            \/ ChangeRefcount(c, id)
            \/ RemoveSegment(c, id)
        \/ UpdateSegmentMetadata(c)
        \/ BeginTransaction(c) \/ CommitEmpty(c) \/ CommitData(c) \/ CommitFails(c)
        \/ CommitMap(c) \/ Rollback(c)
        \/ \E i \in 1 .. MaxSegments : SetSegmentMetadata(c, i)
    \/ Crash
    \/ Open

Spec == Init /\ [][Next]_vars

-----------------------------------------------------------------------------
(* Every variable has the type its field has in the code.                  *)
TypeOK ==
    /\ up \in BOOLEAN
    /\ file \in [Offsets -> Byte]
    /\ file_len \in 0 .. MaxOffset
    /\ next_offset \in 0 .. MaxOffset
    /\ DOMAIN segment_map \subseteq SegIds
    /\ segment_map \in [DOMAIN segment_map -> Segment]
    /\ segments_file # Torn => /\ DOMAIN segments_file \subseteq SegIds
                               /\ segments_file \in [DOMAIN segments_file -> Segment]
    /\ txn \in [Clients -> Transaction \cup {NoTxn}]
    /\ held \in [Clients -> Segment \cup {NoCopy}]
    /\ pc \in [Clients -> PCs]
    /\ \A c \in Clients : pc[c] \in {"commit_map", "commit_save", "drop"} => txn[c] # NoTxn
    /\ ack \in [Clients -> SUBSET SegIds]
    /\ next_id \in 0 .. MaxSegments
    /\ home \in [0 .. (next_id - 1) -> Place]
    /\ acked \subseteq SegIds
    /\ removed \subseteq SegIds
    /\ aborted \subseteq SegIds
    /\ budget \in [writes : Nat, saves : Nat, crashes : Nat]

PlaceOf(s) == [offset |-> s.offset, len |-> s.len]
HomeOf(id) == [offset |-> home[id].offset, len |-> home[id].len]

(* The data of id are in the file at the place promised for them.          *)
Intact(id) == \A k \in 0 .. (home[id].len - 1) : file[home[id].offset + k] = <<id, k>>

(* The log is append-only: once append or commit has returned Ok, the      *)
(* bytes of the segment stay in the data file whatever is written,         *)
(* rolled back, removed, crashed or reopened later.                        *)
AckedIntact == \A id \in acked : Intact(id)

(* The log is durable: a stored segment that nobody removed is in the map  *)
(* and in the saved map, at the place where its bytes are.                 *)
AckedDurable ==
    \A id \in acked \ removed :
        /\ segments_file # Torn
        /\ id \in DOMAIN segments_file
        /\ PlaceOf(segments_file[id]) = HomeOf(id)
        /\ up => /\ id \in DOMAIN segment_map
                 /\ PlaceOf(segment_map[id]) = HomeOf(id)

(* read: the bytes of the file at the place of a Segment.                  *)
Read(s) == [k \in 0 .. (s.len - 1) |-> file[s.offset + k]]

(* What was stored can be read: read of a segment whose append or commit   *)
(* returned Ok, and that nobody removed, finds it and returns its data.    *)
ReadBack ==
    up => \A id \in acked \ removed :
            /\ id \in DOMAIN segment_map
            /\ Read(segment_map[id]) = [k \in 0 .. (home[id].len - 1) |-> <<id, k>>]

(* A reader that has cloned the Segment of stored data out of the map and  *)
(* then waits for the file lock still finds the data, even if the segment  *)
(* is removed in between.                                                  *)
ReaderSafe ==
    \A c \in Clients :
        held[c] # NoCopy /\ held[c].id \in acked =>
            /\ PlaceOf(held[c]) = HomeOf(held[c].id)
            /\ Intact(held[c].id)

(* A transaction is atomic on disk: of the segments written by one         *)
(* transaction the saved map has all or none, as long as none is removed.  *)
CommitAtomic ==
    segments_file # Torn =>
        \A i, j \in DOMAIN home \ removed :
            home[i].batch = home[j].batch =>
                (i \in DOMAIN segments_file <=> j \in DOMAIN segments_file)

(* As long as no save of the map has failed, the segments of a transaction *)
(* that returned an error or was rolled back never reach the saved map.    *)
AbortedInvisible ==
    segments_file # Torn /\ budget.saves = MaxSaveFails =>
        aborted \cap DOMAIN segments_file = {}

-----------------------------------------------------------------------------
(* The inductive invariant behind the properties above; NvramLogProofs     *)
(* proves it.  CopiesAgree needs KeepOffset only, Recorded saves that are  *)
(* not torn, and Stored transactions that run alone.                       *)

(* A Segment value names the place promised for its id.                    *)
AtHome(s) == s.id \in DOMAIN home /\ PlaceOf(s) = HomeOf(s.id)

MapAtHome(map) == \A id \in DOMAIN map : map[id].id = id /\ AtHome(map[id])

(* All copies of a Segment, in the maps, in transactions and in the hands  *)
(* of clients, agree on where its data are.                                *)
CopiesAgree ==
    /\ MapAtHome(segment_map)
    /\ segments_file # Torn => MapAtHome(segments_file)
    /\ \A c \in Clients : held[c] # NoCopy => AtHome(held[c])
    /\ \A c \in Clients : txn[c] # NoTxn =>
            \A i \in DOMAIN txn[c].pending : AtHome(txn[c].pending[i])
    /\ acked \subseteq DOMAIN home
    /\ \A c \in Clients : ack[c] \subseteq DOMAIN home

(* What is or will be reported as stored is in the maps already.           *)
Recorded ==
    /\ segments_file # Torn
    /\ acked \ removed \subseteq DOMAIN segments_file
    /\ up => /\ acked \ removed \subseteq DOMAIN segment_map
             /\ \A c \in Clients : ack[c] \ removed \subseteq DOMAIN segment_map
    /\ ~up => \A c \in Clients : ack[c] = {}

(* Everything stored under id lies below offset b.                         *)
Below(id, b) == home[id].len > 0 => home[id].offset + home[id].len <= b

(* Who may be in which call: one transaction at a time, and only its       *)
(* owner's commit announces several ids.                                   *)
CallsOK ==
    /\ \A c, d \in Clients : txn[c] # NoTxn /\ txn[d] # NoTxn => c = d
    /\ ~up => \A c \in Clients : txn[c] = NoTxn /\ ack[c] = {}
    /\ \A c \in Clients : ack[c] # {} => pc[c] \in {"save", "commit_save"}
    /\ \A c \in Clients : txn[c] # NoTxn /\ pc[c] # "commit_save" => ack[c] = {}

(* Data reported or about to be reported are intact and lie below the end  *)
(* of the file and below the next offset.                                  *)
KeptSafe ==
    /\ \A id \in acked : Intact(id) /\ Below(id, file_len) /\ (up => Below(id, next_offset))
    /\ \A c \in Clients : \A id \in ack[c] :
            Intact(id) /\ Below(id, file_len) /\ Below(id, next_offset)

(* The pending entries of a transaction lie one after another between its  *)
(* base and its current offset, above everything anybody else has stored;  *)
(* once its data are written they are intact.                              *)
TxnSafe(c) ==
    LET x == txn[c] IN
    /\ \A id \in acked : Below(id, x.base_offset)
    /\ \A d \in Clients \ {c} : \A id \in ack[d] : Below(id, x.base_offset)
    /\ x.base_offset <= x.current_offset
    /\ \A i \in DOMAIN x.pending :
            /\ x.base_offset <= x.pending[i].offset
            /\ x.pending[i].offset + x.pending[i].len <= x.current_offset
    /\ \A i, j \in DOMAIN x.pending :
            i < j => x.pending[i].offset + x.pending[i].len <= x.pending[j].offset
    /\ pc[c] \in {"commit_map", "commit_save"} =>
            /\ next_offset = x.current_offset
            /\ \A i \in DOMAIN x.pending :
                  Intact(x.pending[i].id) /\ Below(x.pending[i].id, file_len)

Stored == CallsOK /\ KeptSafe /\ \A c \in Clients : txn[c] # NoTxn => TxnSafe(c)

(* The three parts together: the invariant that is preserved by every step *)
(* of the log when transactions run alone.                                 *)
IndInv == CopiesAgree /\ Recorded /\ Stored
=============================================================================

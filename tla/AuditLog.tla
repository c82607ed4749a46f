------------------------------- MODULE AuditLog -------------------------------
(***************************************************************************)
(* crates/common/src/security/audit_log.rs: an append-only file of records *)
(* chained by hash, anchored at a time-stamping authority every so many    *)
(* records, synced every so many and rotated when the file is full.        *)
(*                                                                         *)
(* A mutex makes append atomic for the threads of the process; a write can *)
(* fail or be cut off by a crash at any byte, and a sync can fail, which   *)
(* the code ignores.  A line of the file is what was written up to its     *)
(* newline: fragments, each a record or torn.  It can be parsed if it is   *)
(* one whole record.  Hashes are fresh numbers, 0 is the hash of nothing.  *)
(*                                                                         *)
(* Taken for granted of the file system: a sync that works covers what an  *)
(* earlier one that failed left out, and a rename survives a power loss.   *)
(***************************************************************************)
EXTENDS Integers, Sequences, FiniteSets, SequencesExt

CONSTANTS
    FlushInterval,  \* AuditOptions::flush_interval
    TsaBatch,       \* AuditOptions::tsa_batch_size
    MaxLines,       \* AuditOptions::max_file_bytes, in lines; 0 means never rotate
    MaxAppends,     \* bound: appends
    MaxFaults,      \* bound: appends in which calls of the file system or the
                    \* authority fail
    MaxStarts,      \* bound: restarts of the process, after a crash or a power loss
    Torn            \* a fragment that is no whole record

ASSUME AuditAssumption ==
    /\ FlushInterval \in Nat \ {0} /\ TsaBatch \in Nat \ {0}
    /\ {MaxLines, MaxAppends, MaxFaults, MaxStarts} \subseteq Nat

VARIABLES
    path_file,          \* the lines of the log
    rotated_file,       \* the lines of the rotated log, <<>> if there is none
    on_rotated,         \* the open handle is the rotated file's
    synced,             \* lines of the handle's file that a power loss spares
    rotated_synced,     \* those of the rotated file, once the handle has left it
    last_hash,
    events_since_flush,
    events_since_tsa,
    appends,            \* appends so far; the next record's hash is one more
    logged,             \* history: records whose append wrote them, in order
    stretch,            \* history: restarts and failed writes so far
    unsynced_starts,    \* history: restarts since the handle's file was last synced
    failed_syncs,       \* history: syncs due since then, all of which failed
    rotated_limit,      \* history: Limit when the handle left the rotated file
    faults,             \* faults still allowed
    starts              \* restarts still allowed

sync_vars == <<synced, rotated_synced, unsynced_starts, failed_syncs, rotated_limit>>

audit_vars == <<path_file, rotated_file, on_rotated, last_hash, events_since_flush,
                events_since_tsa, appends, logged, stretch, faults, starts, sync_vars>>

AuditInit ==
    /\ path_file = <<>> /\ rotated_file = <<>> /\ on_rotated = FALSE
    /\ synced = 0 /\ rotated_synced = 0 /\ unsynced_starts = 0
    /\ failed_syncs = 0 /\ rotated_limit = 0
    /\ last_hash = 0 /\ events_since_flush = 0 /\ events_since_tsa = 0
    /\ appends = 0 /\ logged = <<>> /\ stretch = 0
    /\ faults = MaxFaults /\ starts = MaxStarts

Parses(line) == Len(line.parts) = 1 /\ line.parts[1] # Torn
Current == IF on_rotated THEN rotated_file ELSE path_file

(* What a write leaves: it goes on with an unfinished last line.           *)
Written(lines, part, newline) ==
    IF lines # <<>> /\ ~Last(lines).newline
    THEN Append(Front(lines), [parts |-> Append(Last(lines).parts, part), newline |-> newline])
    ELSE Append(lines, [parts |-> <<part>>, newline |-> newline])

SetCurrent(lines) ==
    IF on_rotated THEN rotated_file' = lines /\ UNCHANGED path_file
    ELSE path_file' = lines /\ UNCHANGED rotated_file

Fault == faults > 0 /\ faults' = faults - 1

-----------------------------------------------------------------------------
(* append                                                                  *)

Begin == appends < MaxAppends /\ appends' = appends + 1

(* This record is due for a proof.                                         *)
TsaDue == events_since_tsa + 1 >= TsaBatch
Record == [hash |-> appends + 1, prev |-> last_hash, proof |-> TsaDue]

(* Mutant: the count starts again before the authority has answered.       *)
CountAfterRefusalReset == 0

(* The authority refuses: the event has been counted but is not logged, so *)
(* the next append asks again.                                             *)
CountAfterRefusal == events_since_tsa + 1

AppendRefused ==
    /\ Begin /\ TsaDue /\ Fault
    /\ events_since_tsa' = CountAfterRefusal
    /\ UNCHANGED <<path_file, rotated_file, on_rotated, last_hash, events_since_flush,
                   logged, stretch, starts, sync_vars>>

CountTsa == events_since_tsa' = IF TsaDue THEN 0 ELSE events_since_tsa + 1

(* Mutant: the chain moves on before the record is written.                *)
HashAfterFailureNext == Record.hash

HashAfterFailure == last_hash

(* writeln fails with nothing, a part, or all but the newline written.     *)
AppendWriteFails ==
    /\ Begin /\ Fault /\ CountTsa
    /\ \/ SetCurrent(Current)
       \/ \E part \in {Torn, Record} : SetCurrent(Written(Current, part, FALSE))
    /\ last_hash' = HashAfterFailure
    /\ stretch' = stretch + 1
    /\ UNCHANGED <<on_rotated, events_since_flush, logged, starts, sync_vars>>

(* Mutant: one record more than the interval.                              *)
FlushDueLate == events_since_flush + 1 > FlushInterval

FlushDue == events_since_flush + 1 >= FlushInterval

LogRecord ==
    /\ Begin /\ CountTsa
    /\ last_hash' = Record.hash
    /\ logged' = Append(logged, [record |-> Record, stretch |-> stretch])
    /\ events_since_flush' = IF FlushDue THEN 0 ELSE events_since_flush + 1
    /\ UNCHANGED <<stretch, starts>>

Lines == Written(Current, Record, TRUE)
FileFull == MaxLines > 0 /\ Len(Lines) >= MaxLines

(* Everything in the handle's file is safe, or the file is a new one.      *)
NothingUnsynced == unsynced_starts' = 0 /\ failed_syncs' = 0

(* A sync that was due and failed counts: nothing tries it again.          *)
SyncFails ==
    /\ Fault
    /\ failed_syncs' = failed_syncs + (IF FlushDue THEN 1 ELSE 0)
    /\ UNCHANGED unsynced_starts

AppendRecord ==
    /\ ~FileFull /\ LogRecord
    /\ SetCurrent(Lines)
    /\ \/ FlushDue /\ synced' = Len(Lines) /\ NothingUnsynced /\ UNCHANGED faults
       \/ FlushDue /\ SyncFails /\ UNCHANGED synced
       \/ ~FlushDue /\ UNCHANGED <<synced, unsynced_starts, failed_syncs, faults>>
    /\ UNCHANGED <<on_rotated, rotated_synced, rotated_limit>>

(* By how many records the syncs of a file may be behind (UnsyncedBounded).*)
Limit == (FlushInterval - 1) * (1 + unsynced_starts) + FlushInterval * failed_syncs

(* rotate_file syncs and renames the log over the one rotated before, then *)
(* opens a new one.                                                        *)
Rotate(kept) ==
    /\ rotated_file' = Lines /\ path_file' = <<>> /\ on_rotated' = FALSE
    /\ synced' = 0 /\ NothingUnsynced
    /\ rotated_synced' = kept
    /\ rotated_limit' = Limit + (IF FlushDue THEN FlushInterval ELSE 0)

(* A failing rename is ignored and the same file opened again.             *)
RenameFails ==
    /\ ~on_rotated
    /\ path_file' = Lines
    /\ UNCHANGED <<rotated_file, on_rotated, rotated_synced, rotated_limit>>

(* A failing open leaves the handle on the renamed file, where the next    *)
(* append finds no log to rename and opens a new one.                      *)
OpenFails ==
    /\ rotated_file' = Lines /\ path_file' = <<>> /\ on_rotated' = TRUE
    /\ rotated_synced' = 0 /\ rotated_limit' = 0

AppendAndRotate ==
    /\ FileFull /\ LogRecord
    /\ \/ Rotate(Len(Lines)) /\ UNCHANGED faults
       \/ Rotate(synced) /\ Fault
       \/ (RenameFails \/ OpenFails) /\ synced' = Len(Lines) /\ NothingUnsynced /\ Fault
       \/ (RenameFails \/ OpenFails) /\ SyncFails /\ UNCHANGED synced

-----------------------------------------------------------------------------
(* with_options: the chain goes on from the last record of the log that    *)
(* can be parsed; the rotated file is not looked at.                       *)
RecoverLastHash(lines) ==
    LET good == {i \in DOMAIN lines : Parses(lines[i])}
    IN  IF good = {} THEN 0 ELSE lines[Max(good)].parts[1].hash

(* What is left of the handle's file, and of the rotated one if that is    *)
(* another.                                                                *)
StartAgain(current, rotated) ==
    /\ starts > 0 /\ starts' = starts - 1
    /\ path_file' = IF on_rotated THEN <<>> ELSE current
    /\ rotated_file' = IF on_rotated THEN current ELSE rotated
    /\ on_rotated' = FALSE
    /\ last_hash' = RecoverLastHash(path_file')
    /\ events_since_flush' = 0 /\ events_since_tsa' = 0
    /\ stretch' = stretch + 1
    /\ UNCHANGED <<logged, faults>>

(* The process dies, between two appends or in the middle of a write.      *)
Crash ==
    /\ \/ StartAgain(Current, rotated_file) /\ UNCHANGED appends
       \/ \E part \in {Torn, Record} :
            Begin /\ StartAgain(Written(Current, part, FALSE), rotated_file)
    /\ \/ /\ ~on_rotated /\ unsynced_starts' = unsynced_starts + 1
          /\ UNCHANGED <<synced, rotated_synced, failed_syncs, rotated_limit>>
       \/ /\ on_rotated /\ synced' = 0 /\ NothingUnsynced
          /\ rotated_synced' = synced /\ rotated_limit' = Limit

(* What a power loss may leave of a file: any number of the lines not      *)
(* synced is gone, and the first of them may be torn.  (A line is spared   *)
(* from its start on.)                                                     *)
Spared(lines, safe) ==
    {SubSeq(lines, 1, k) : k \in safe .. Len(lines)}
        \cup {Written(SubSeq(lines, 1, k), Torn, FALSE) : k \in safe .. (Len(lines) - 1)}

(* The machine dies.                                                       *)
PowerLoss ==
    /\ \E current \in Spared(Current, synced), rotated \in Spared(rotated_file, rotated_synced) :
        StartAgain(current, rotated)
    /\ synced' = Len(path_file') /\ rotated_synced' = Len(rotated_file')
    /\ NothingUnsynced /\ rotated_limit' = 0
    /\ UNCHANGED appends

AuditNext ==
    \/ AppendRefused \/ AppendWriteFails \/ AppendRecord \/ AppendAndRotate
    \/ Crash \/ PowerLoss

AuditSpec == AuditInit /\ [][AuditNext]_audit_vars

-----------------------------------------------------------------------------
(* Two lines next to each other that can both be parsed are links of the   *)
(* chain, whatever failed writes, crashes, power losses and rotations the  *)
(* file has been through.                                                  *)
Linked ==
    \A lines \in {path_file, rotated_file} : \A i \in 1 .. (Len(lines) - 1) :
        Parses(lines[i]) /\ Parses(lines[i + 1]) =>
            lines[i + 1].parts[1].prev = lines[i].parts[1].hash

(* Of any TsaBatch records logged one after the other with no restart and  *)
(* no failed write between them, one carries a proof, however often the    *)
(* authority refused.                                                      *)
ProofInEveryBatch ==
    \A i \in 1 .. (Len(logged) - TsaBatch + 1) :
        LET batch == i .. (i + TsaBatch - 1)
        IN  (\A j \in batch : logged[j].stretch = logged[i].stretch)
                => \E j \in batch : logged[j].record.proof

LoggedHashes == {entry.record.hash : entry \in ToSet(logged)}

(* The lines of logged records that a power loss would not spare.          *)
Unsynced(lines, safe, hashes) ==
    {i \in DOMAIN lines : i > safe /\ Parses(lines[i]) /\ lines[i].parts[1].hash \in hashes}

(* How many appended records a power loss can cost: fewer than the flush   *)
(* interval for each start of the process since the file was last synced   *)
(* (a restart forgets the count), and a whole interval more for each due   *)
(* sync since then, which failed: the count starts again all the same.     *)
(* The rotated file keeps what it was left with, for nothing syncs it any  *)
(* more.                                                                   *)
UnsyncedBounded ==
    /\ Cardinality(Unsynced(Current, synced, LoggedHashes)) <= Limit
    /\ ~on_rotated =>
            Cardinality(Unsynced(rotated_file, rotated_synced, LoggedHashes)) <= rotated_limit
=============================================================================

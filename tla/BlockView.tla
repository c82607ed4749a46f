------------------------------- MODULE BlockView -------------------------------
(***************************************************************************)
(* The block protocol view, crates/protocol-block/src/lib.rs: volumes that *)
(* are rewritten copy-on-write, one capsule per write, with an optimistic  *)
(* check of the volume's version when the new capsule is swapped in.       *)
(*                                                                         *)
(* Threads share the view.  The volume map is behind one RwLock, and       *)
(* persist holds the read guard while it writes the file.  The capsules    *)
(* are those of the write pipeline (module WritePipeline), of which only   *)
(* the promises are used: a capsule is immutable, and each call happens at *)
(* one moment or fails.                                                    *)
(***************************************************************************)
EXTENDS Integers, FiniteSets, Maps

CONSTANTS
    Threads,        \* callers of the view
    Names,          \* names of volumes
    Blocks,         \* block positions of a volume
    Values,         \* contents of a block
    Zero,           \* the content of a block of a new volume
    Ops,            \* calls used: "create", "write", "delete"
    MaxVersion,     \* the largest version (u64::MAX in the code)
    MaxCapsules,    \* bound: number of capsules written
    MaxFails,       \* bound: failing pipeline calls and failing saves
    MaxCrashes,     \* bound: crashes of the process
    NoCapsule, Absent, Lost     \* no capsule, no volume, contents of a deleted capsule

ASSUME BlockAssumption ==
    /\ Zero \in Values
    /\ Ops \subseteq {"create", "write", "delete"}
    /\ MaxVersion \in Nat \ {0}
    /\ MaxCapsules \in Nat
    /\ MaxFails \in Nat /\ MaxCrashes \in Nat
    /\ NoCapsule \notin 1 .. MaxCapsules
    /\ Absent \notin [Blocks -> Values]

VARIABLES
    volumes,        \* BlockView::volumes: name to capsule and version
    volumes_file,   \* the saved map
    capsules,       \* live capsules of the pipeline and their contents
    next_capsule,   \* CapsuleId::new, counted
    job,            \* the call each thread is in
    fails, crashes  \* failures and crashes still allowed by the bounds

vars == <<volumes, volumes_file, capsules, next_capsule, job, fails, crashes>>

Contents == [Blocks -> Values]
IdleJob == [pc |-> "idle", op |-> "idle", name |-> Absent, block |-> Absent,
            value |-> Zero, cap |-> NoCapsule, version |-> 0, buffer |-> Lost,
            new |-> NoCapsule, drop |-> NoCapsule]

Remove(f, x) == [z \in DOMAIN f \ {x} |-> f[z]]

Init ==
    /\ volumes = Empty
    /\ volumes_file = Empty
    /\ capsules = Empty
    /\ next_capsule = 1
    /\ job = [t \in Threads |-> IdleJob]
    /\ fails = MaxFails
    /\ crashes = MaxCrashes

At(t, pc) == job[t].pc = pc
Goto(t, pc) == job' = [job EXCEPT ![t].pc = pc]
Return(t) == job' = [job EXCEPT ![t] = IdleJob]

(* A call of the pipeline or a save returns an error.                      *)
Fails == fails > 0 /\ fails' = fails - 1

(* A call starts; a call that finds no volume (or, for create, finds one)  *)
(* returns its error without a trace.                                      *)
Start(t, op) == op \in Ops /\ At(t, "idle")

-----------------------------------------------------------------------------
(* create_volume_with_block_size: the volume must not exist; then a zeroed *)
(* capsule is written outside the lock.                                    *)
CreateVolume(t, n) ==
    /\ Start(t, "create")
    /\ n \notin DOMAIN volumes
    /\ job' = [job EXCEPT ![t] = [IdleJob EXCEPT !.pc = "store", !.op = "create",
                                     !.name = n, !.buffer = [b \in Blocks |-> Zero]]]
    /\ UNCHANGED <<volumes, volumes_file, capsules, next_capsule, fails, crashes>>

(* write, under the read lock: capsule and version of the volume.          *)
WriteVolume(t, n, b, v) ==
    /\ Start(t, "write")
    /\ n \in DOMAIN volumes
    /\ job' = [job EXCEPT ![t] = [IdleJob EXCEPT !.pc = "load", !.op = "write",
                                     !.name = n, !.block = b, !.value = v,
                                     !.cap = volumes[n].capsule,
                                     !.version = volumes[n].version]]
    /\ UNCHANGED <<volumes, volumes_file, capsules, next_capsule, fails, crashes>>

(* read_capsule of the old contents and the copy of the new data into it;  *)
(* the capsule may be gone, and then the write fails.                      *)
LoadCapsule(t) ==
    /\ At(t, "load")
    /\ IF job[t].cap \in DOMAIN capsules
       THEN job' = [job EXCEPT ![t].pc = "store",
                       ![t].buffer = [capsules[job[t].cap] EXCEPT ![job[t].block] =
                                         job[t].value]]
       ELSE Return(t)
    /\ UNCHANGED <<volumes, volumes_file, capsules, next_capsule, fails, crashes>>

(* write_capsule of the buffer.                                            *)
StoreCapsule(t) ==
    /\ At(t, "store")
    /\ next_capsule <= MaxCapsules
    /\ capsules' = Put(capsules, next_capsule, job[t].buffer)
    /\ next_capsule' = next_capsule + 1
    /\ job' = [job EXCEPT ![t].pc = IF job[t].op = "create" THEN "insert" ELSE "swap",
                          ![t].new = next_capsule]
    /\ UNCHANGED <<volumes, volumes_file, fails, crashes>>

StoreFails(t) ==
    /\ At(t, "store")
    /\ Fails
    /\ Return(t)
    /\ UNCHANGED <<volumes, volumes_file, capsules, next_capsule, crashes>>

(* create, under the write lock: another thread may have created the       *)
(* volume, and then the new capsule is deleted again.                      *)
InsertVolume(t) ==
    /\ At(t, "insert")
    /\ LET n == job[t].name IN
       IF n \in DOMAIN volumes
       THEN /\ job' = [job EXCEPT ![t].pc = "reclaim", ![t].drop = job[t].new]
            /\ UNCHANGED volumes
       ELSE /\ volumes' = Put(volumes, n, [capsule |-> job[t].new, version |-> 1])
            /\ Goto(t, "persist")
    /\ UNCHANGED <<volumes_file, capsules, next_capsule, fails, crashes>>

(* Mutant: concurrent changes are told by the version alone.               *)
ConflictByVersion(t) == volumes[job[t].name].version # job[t].version

(* The volume changed since the write read it.                             *)
Conflict(t) ==
    \/ volumes[job[t].name].version # job[t].version
    \/ volumes[job[t].name].capsule # job[t].cap

(* The version saturates.                                                  *)
NextVersion(v) == IF v < MaxVersion THEN v + 1 ELSE MaxVersion

(* After the swap the map is saved before the old capsule is deleted.      *)
AfterSwap == "persist"

(* write, under the write lock: the new capsule is swapped in unless the   *)
(* volume is gone (the error returns at once and the new capsule stays) or *)
(* changed (the new capsule is deleted).                                   *)
SwapCapsule(t) ==
    /\ At(t, "swap")
    /\ LET n == job[t].name IN
       \/ /\ n \notin DOMAIN volumes
          /\ Return(t)
          /\ UNCHANGED volumes
       \/ /\ n \in DOMAIN volumes
          /\ Conflict(t)
          /\ job' = [job EXCEPT ![t].pc = "reclaim", ![t].drop = job[t].new]
          /\ UNCHANGED volumes
       \/ /\ n \in DOMAIN volumes
          /\ ~Conflict(t)
          /\ volumes' = [volumes EXCEPT ![n] =
                [capsule |-> job[t].new, version |-> NextVersion(@.version)]]
          /\ job' = [job EXCEPT ![t].pc = AfterSwap, ![t].drop = job[t].cap]
    /\ UNCHANGED <<volumes_file, capsules, next_capsule, fails, crashes>>

(* delete_volume, under the write lock.                                    *)
DeleteVolume(t, n) ==
    /\ Start(t, "delete")
    /\ n \in DOMAIN volumes
    /\ volumes' = Remove(volumes, n)
    /\ job' = [job EXCEPT ![t] = [IdleJob EXCEPT !.pc = "persist", !.op = "delete",
                                     !.name = n, !.drop = volumes[n].capsule]]
    /\ UNCHANGED <<volumes_file, capsules, next_capsule, fails, crashes>>

(* Mutant: the map is not written.                                         *)
PersistSkipped(t) ==
    /\ At(t, "persist")
    /\ IF job[t].drop = NoCapsule THEN Return(t) ELSE Goto(t, "reclaim")
    /\ UNCHANGED <<volumes, volumes_file, capsules, next_capsule, fails, crashes>>

(* persist; what the call replaced is deleted afterwards.                  *)
Persist(t) ==
    /\ At(t, "persist")
    /\ volumes_file' = volumes
    /\ IF job[t].drop = NoCapsule THEN Return(t) ELSE Goto(t, "reclaim")
    /\ UNCHANGED <<volumes, capsules, next_capsule, fails, crashes>>

(* persist fails: the error returns, the map in memory keeps the change    *)
(* and the replaced capsule is not deleted.                                *)
PersistFails(t) ==
    /\ At(t, "persist")
    /\ Fails
    /\ Return(t)
    /\ UNCHANGED <<volumes, volumes_file, capsules, next_capsule, crashes>>

(* delete_capsule of the replaced or unused capsule; its error is ignored. *)
Reclaim(t) ==
    /\ At(t, "reclaim")
    /\ \/ capsules' = Remove(capsules, job[t].drop) /\ UNCHANGED fails
       \/ Fails /\ UNCHANGED capsules
    /\ Return(t)
    /\ UNCHANGED <<volumes, volumes_file, next_capsule, crashes>>

(* The process dies and opens the view again.  The pipeline's own files    *)
(* bring the capsules back.                                                *)
Restart ==
    /\ crashes > 0
    /\ crashes' = crashes - 1
    /\ volumes' = volumes_file
    /\ job' = [t \in Threads |-> IdleJob]
    /\ UNCHANGED <<volumes_file, capsules, next_capsule, fails>>

Next ==
    \/ \E t \in Threads :
        \/ \E n \in Names :
            \/ CreateVolume(t, n) \/ DeleteVolume(t, n)
            \/ \E b \in Blocks, v \in Values : WriteVolume(t, n, b, v)
        \/ LoadCapsule(t) \/ StoreCapsule(t) \/ StoreFails(t) \/ InsertVolume(t)
        \/ SwapCapsule(t) \/ Persist(t) \/ PersistFails(t) \/ Reclaim(t)
    \/ Restart

Spec == Init /\ [][Next]_vars

-----------------------------------------------------------------------------
VolumeMap(m) ==
    /\ DOMAIN m \subseteq Names
    /\ \A n \in DOMAIN m : m[n] \in [capsule : 1 .. MaxCapsules, version : 1 .. MaxVersion]

Job == [pc : {"idle", "load", "store", "insert", "swap", "persist", "reclaim"},
        op : {"idle", "create", "write", "delete"},
        name : Names \cup {Absent}, block : Blocks \cup {Absent}, value : Values,
        cap : 1 .. MaxCapsules \cup {NoCapsule}, version : 0 .. MaxVersion,
        buffer : Contents \cup {Lost},
        new : 1 .. MaxCapsules \cup {NoCapsule}, drop : 1 .. MaxCapsules \cup {NoCapsule}]

(* Every variable has the type its field has in the code.                  *)
TypeOK ==
    /\ VolumeMap(volumes) /\ VolumeMap(volumes_file)
    /\ job \in [Threads -> Job]
    /\ DOMAIN capsules \subseteq 1 .. (next_capsule - 1)
    /\ \A c \in DOMAIN capsules : capsules[c] \in Contents
    /\ next_capsule \in 1 .. (MaxCapsules + 1)
    /\ fails \in 0 .. MaxFails /\ crashes \in 0 .. MaxCrashes

(* What readers of the volume map m find under name n.                     *)
ContentOf(m, n) ==
    IF n \notin DOMAIN m THEN Absent
    ELSE IF m[n].capsule \in DOMAIN capsules THEN capsules[m[n].capsule] ELSE Lost

(* The view implements VolumeStore: each create, write and delete takes    *)
(* effect on the current contents in one step or not at all, whatever      *)
(* other threads do between reading the volume and swapping the capsule,   *)
(* and a crash at any step brings back exactly what was last saved.        *)
Abstract == INSTANCE VolumeStore WITH
    vol <- [n \in Names |-> ContentOf(volumes, n)],
    saved <- [n \in Names |-> ContentOf(volumes_file, n)]

Implements == Abstract!Spec

(* The inductive invariant behind the refinement; BlockViewProofs proves   *)
(* it.                                                                     *)

(* The capsule that only this call knows of, or NoCapsule: the one it has  *)
(* stored and not yet put in place, or the one it has to delete.           *)
Owned(t) ==
    IF job[t].pc \in {"insert", "swap"} THEN job[t].new
    ELSE IF job[t].pc \in {"persist", "reclaim"} THEN job[t].drop ELSE NoCapsule

(* It is no volume's capsule and no other call's.  Only of a call that is  *)
(* still to save its change the saved map may name it.                     *)
Exclusive ==
    \A t \in Threads : Owned(t) # NoCapsule =>
        /\ Owned(t) < next_capsule
        /\ \A n \in DOMAIN volumes : volumes[n].capsule # Owned(t)
        /\ \A u \in Threads \ {t} : Owned(u) # Owned(t)
        /\ job[t].pc # "persist" =>
            \A n \in DOMAIN volumes_file : volumes_file[n].capsule # Owned(t)

(* Every volume has a capsule of its own, that exists.                     *)
LiveMap(m) ==
    /\ \A n \in DOMAIN m : m[n].capsule \in DOMAIN capsules
    /\ \A n, k \in DOMAIN m : m[n].capsule = m[k].capsule => n = k

(* What a call is about to put in place: the zeroed volume, or what it     *)
(* read, as long as that exists, with one block changed.                   *)
Prepared(t) ==
    /\ job[t].pc # "idle" => job[t].name \in Names
    /\ job[t].pc \in {"load", "swap"} => job[t].op = "write"
    /\ job[t].pc = "insert" => job[t].op = "create"
    /\ job[t].pc = "store" => job[t].op \in {"create", "write"}
    /\ job[t].pc \in {"load", "store", "insert", "swap"} => job[t].drop = NoCapsule
    /\ job[t].pc \in {"load", "store", "swap"} /\ job[t].op = "write" =>
        job[t].block \in Blocks /\ job[t].cap \in 1 .. (next_capsule - 1)
    /\ job[t].pc \in {"store", "insert", "swap"} =>
        /\ job[t].buffer \in Contents
        /\ IF job[t].op = "create" THEN job[t].buffer = [b \in Blocks |-> Zero]
           ELSE job[t].cap \in DOMAIN capsules =>
                job[t].buffer = [capsules[job[t].cap] EXCEPT ![job[t].block] = job[t].value]
    /\ job[t].pc \in {"insert", "swap"} =>
        /\ job[t].new \in DOMAIN capsules
        /\ capsules[job[t].new] = job[t].buffer

IndInv ==
    /\ Exclusive
    /\ LiveMap(volumes) /\ LiveMap(volumes_file)
    /\ \A t \in Threads : Prepared(t)

AllIdle == \A t \in Threads : At(t, "idle")

(* When every call has returned and no save failed, the saved map is the   *)
(* map in memory: what callers were told is done survives a restart.       *)
Durable == AllIdle /\ fails = MaxFails => volumes_file = volumes

(* When every call has returned and nothing failed or crashed, each        *)
(* capsule is the capsule of a volume: superseded capsules and those that  *)
(* lost a race have been deleted.                                          *)
NoLeak ==
    AllIdle /\ fails = MaxFails /\ crashes = MaxCrashes =>
        DOMAIN capsules = {volumes[n].capsule : n \in DOMAIN volumes}
=============================================================================

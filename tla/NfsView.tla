-------------------------------- MODULE NfsView --------------------------------
(***************************************************************************)
(* The NFS protocol view, crates/protocol-nfs/src/lib.rs: a namespace of   *)
(* directories and files kept in one map from full path to node, each file *)
(* a capsule that is written anew on every change.                         *)
(*                                                                         *)
(* A path argument is a sequence of parts as Path::components yields them: *)
(* ".." or a name; on Unix a part may hold backslashes, which              *)
(* normalize_path turns into slashes inside the one component.  A          *)
(* component is therefore a sequence of names, a full path (a key of the   *)
(* map) the sequence of all names.  Timestamps and sizes are left out.     *)
(* Capsules are those of the write pipeline: immutable, each call takes    *)
(* effect at one moment or fails.                                          *)
(***************************************************************************)
EXTENDS Integers, Sequences, FiniteSets, SequencesExt, Maps

CONSTANTS
    Callers,        \* callers of the view
    Names,          \* names of files and directories
    Backslashes,    \* BOOLEAN: path arguments may hold backslashes
    MaxCapsules,    \* bound: number of capsules written
    Usages,         \* ways the view may be used, one of which is the case
    Directory       \* NfsNodeKind::Directory; a file is its capsule

ASSUME NfsAssumption ==
    /\ Backslashes \in BOOLEAN /\ MaxCapsules \in Nat
    /\ Usages \subseteq [serial : BOOLEAN, parts : Nat, fails : Nat, crashes : Nat]
    /\ Directory \notin 0 .. MaxCapsules

VARIABLES
    nodes,          \* NfsView::nodes: full path to Directory or capsule
    namespace_file, \* the saved map
    stored,         \* live capsules of the pipeline
    next_capsule,   \* CapsuleId::new, counted
    job,            \* the call each thread is in
    fails, crashes, \* failures and crashes still allowed by the bounds
    usage           \* serial: calls run one at a time, as spacectl makes them;
                    \* and the bounds: parts of a path argument, failing pipeline
                    \* calls and saves, crashes of the process

nfs_vars == <<nodes, namespace_file, stored, next_capsule, job, fails, crashes, usage>>

Root == <<>>
NoCapsule == 0
IdleJob == [pc |-> "idle", path |-> Root, parent |-> Root,
            new |-> NoCapsule, drop |-> NoCapsule]

-----------------------------------------------------------------------------
(* Path arguments: ParentDir is "..", a part without backslash one name.   *)
ParentDir == <<>>
Part == {ParentDir} \cup {<<x>> : x \in Names}
        \cup (IF Backslashes THEN {<<x, y>> : x \in Names, y \in Names} ELSE {})
Arguments == BoundedSeq(Part, usage.parts)

(* normalize_path: the components of a path argument.                      *)
NormalizePath(arg) ==
    LET comps[i \in 0 .. Len(arg)] ==
            IF i = 0 THEN <<>>
            ELSE IF arg[i] # ParentDir THEN Append(comps[i - 1], arg[i])
            ELSE IF comps[i - 1] = <<>> THEN <<>>
            ELSE Front(comps[i - 1])
    IN  comps[Len(arg)]

(* NormalizedPath::full: the key in the map.                               *)
Full(comps) == FlattenSeq(comps)

(* NormalizedPath::parent_path, normalised again by write_file: its string *)
(* is split at every slash.                                                *)
ParentPath(comps) == Full(Front(comps))
Components(full) == [i \in 1 .. Len(full) |-> <<full[i]>>]

-----------------------------------------------------------------------------
IsFile(m, p) == p \in DOMAIN m /\ m[p] # Directory
IsDirectory(m, p) == p \in DOMAIN m /\ m[p] = Directory

Without(m, p) == [q \in DOMAIN m \ {p} |-> m[q]]

(* ensure_root_node *)
EnsureRootNode(m) == IF Root \in DOMAIN m THEN m ELSE Put(m, Root, Directory)

(* ensure_directory walks down the components and stops with an error at   *)
(* the first that is a file; the directories made above it stay.           *)
PathConflict(m, comps) ==
    \E i \in 1 .. Len(comps) : IsFile(m, Full(SubSeq(comps, 1, i)))

EnsureDirectory(m, comps) ==
    LET made == {i \in 1 .. Len(comps) : ~PathConflict(m, SubSeq(comps, 1, i))}
        dirs == {Full(SubSeq(comps, 1, i)) : i \in made} \cup {Root}
    IN  [p \in DOMAIN m \cup dirs |-> IF p \in DOMAIN m THEN m[p] ELSE Directory]

(* Mutant: a directory counts as empty whatever is below it.               *)
HasEntriesNever(m, p) == FALSE

(* delete: some key starts with the directory's path and a slash.          *)
HasEntries(m, p) == \E q \in DOMAIN m : IsStrictPrefix(p, q)

NfsInit ==
    /\ nodes = EnsureRootNode(Empty)
    /\ namespace_file = Empty
    /\ stored = {}
    /\ next_capsule = 1
    /\ job = [t \in Callers |-> IdleJob]
    /\ usage \in Usages
    /\ fails = usage.fails
    /\ crashes = usage.crashes

At(t, pc) == job[t].pc = pc
Goto(t, pc) == job' = [job EXCEPT ![t].pc = pc]
Return(t) == job' = [job EXCEPT ![t] = IdleJob]
Fails == fails > 0 /\ fails' = fails - 1

Start(t) ==
    /\ At(t, "idle")
    /\ usage.serial => \A u \in Callers : At(u, "idle")

-----------------------------------------------------------------------------
(* write_file, under the read lock: the root and a directory are refused.  *)
WriteFile(t, arg) ==
    LET comps == NormalizePath(arg) IN
    /\ Start(t)
    /\ comps # <<>>
    /\ ~IsDirectory(nodes, Full(comps))
    /\ job' = [job EXCEPT ![t] = [IdleJob EXCEPT !.pc = "store",
                                     !.path = Full(comps),
                                     !.parent = ParentPath(comps)]]
    /\ UNCHANGED <<nodes, namespace_file, stored, next_capsule, fails, crashes, usage>>

(* write_file: write_capsule, outside the lock.                            *)
StoreCapsule(t) ==
    /\ At(t, "store")
    /\ next_capsule <= MaxCapsules
    /\ stored' = stored \cup {next_capsule}
    /\ next_capsule' = next_capsule + 1
    /\ job' = [job EXCEPT ![t].pc = "insert", ![t].new = next_capsule]
    /\ UNCHANGED <<nodes, namespace_file, fails, crashes, usage>>

StoreFails(t) ==
    /\ At(t, "store")
    /\ Fails
    /\ Return(t)
    /\ UNCHANGED <<nodes, namespace_file, stored, next_capsule, crashes, usage>>

(* Mutants: the old capsule is looked up after the insert, or never.       *)
OldCapsuleAfter(t) == IF IsFile(nodes, job[t].path) THEN job[t].new ELSE NoCapsule
OldCapsuleNone(t) == NoCapsule

(* write_file: the capsule of the file that is overwritten, if any.        *)
OldCapsule(t) == IF IsFile(nodes, job[t].path) THEN nodes[job[t].path] ELSE NoCapsule

(* write_file, under the write lock: the parents are made and the node is  *)
(* inserted, over whatever is there by now.  If a parent is a file the     *)
(* error returns at once and the new capsule stays.                        *)
InsertFile(t) ==
    /\ At(t, "insert")
    /\ LET parents == Components(job[t].parent)
           made == EnsureDirectory(nodes, parents) IN
       \/ /\ PathConflict(nodes, parents)
          /\ nodes' = made
          /\ Return(t)
       \/ /\ ~PathConflict(nodes, parents)
          /\ nodes' = Put(made, job[t].path, job[t].new)
          /\ job' = [job EXCEPT ![t].drop = OldCapsule(t),
                        ![t].pc = IF OldCapsule(t) = NoCapsule THEN "persist" ELSE "reclaim"]
    /\ UNCHANGED <<namespace_file, stored, next_capsule, fails, crashes, usage>>

(* mkdir, under the write lock.                                            *)
Mkdir(t, arg) ==
    LET comps == NormalizePath(arg) IN
    /\ Start(t)
    /\ nodes' = EnsureDirectory(nodes, comps)
    /\ IF PathConflict(nodes, comps) THEN UNCHANGED job ELSE Goto(t, "persist")
    /\ UNCHANGED <<namespace_file, stored, next_capsule, fails, crashes, usage>>

(* delete, under the write lock: the root, a missing path and a directory  *)
(* with entries are refused.                                               *)
Delete(t, arg) ==
    LET p == Full(NormalizePath(arg)) IN
    /\ Start(t)
    /\ p # Root
    /\ p \in DOMAIN nodes
    /\ nodes[p] = Directory => ~HasEntries(nodes, p)
    /\ nodes' = Without(nodes, p)
    /\ job' = [job EXCEPT ![t] =
                 IF nodes[p] = Directory
                 THEN [IdleJob EXCEPT !.pc = "persist"]
                 ELSE [IdleJob EXCEPT !.pc = "reclaim", !.drop = nodes[p]]]
    /\ UNCHANGED <<namespace_file, stored, next_capsule, fails, crashes, usage>>

(* write_file, delete: delete_capsule of the old capsule, its error        *)
(* ignored; the map is saved only after it.                                *)
Reclaim(t) ==
    /\ At(t, "reclaim")
    /\ \/ stored' = stored \ {job[t].drop} /\ UNCHANGED fails
       \/ Fails /\ UNCHANGED stored
    /\ Goto(t, "persist")
    /\ UNCHANGED <<nodes, namespace_file, next_capsule, crashes, usage>>

(* Mutant: the map is not written.                                         *)
PersistSkipped(t) ==
    /\ At(t, "persist")
    /\ Return(t)
    /\ UNCHANGED <<nodes, namespace_file, stored, next_capsule, fails, crashes, usage>>

(* persist, holding the read lock; the call returns.                       *)
Persist(t) ==
    /\ At(t, "persist")
    /\ namespace_file' = nodes
    /\ Return(t)
    /\ UNCHANGED <<nodes, stored, next_capsule, fails, crashes, usage>>

PersistFails(t) ==
    /\ At(t, "persist")
    /\ Fails
    /\ Return(t)
    /\ UNCHANGED <<nodes, namespace_file, stored, next_capsule, crashes, usage>>

(* The process dies and NfsView::open reads the saved map.                 *)
Restart ==
    /\ crashes > 0
    /\ crashes' = crashes - 1
    /\ nodes' = EnsureRootNode(namespace_file)
    /\ job' = [t \in Callers |-> IdleJob]
    /\ UNCHANGED <<namespace_file, stored, next_capsule, fails, usage>>

NfsNext ==
    \/ \E t \in Callers :
        \/ \E arg \in Arguments : WriteFile(t, arg) \/ Mkdir(t, arg) \/ Delete(t, arg)
        \/ StoreCapsule(t) \/ StoreFails(t) \/ InsertFile(t) \/ Reclaim(t)
        \/ Persist(t) \/ PersistFails(t)
    \/ Restart

NfsSpec == NfsInit /\ [][NfsNext]_nfs_vars

-----------------------------------------------------------------------------
NodeMap(m) ==
    /\ \A p \in DOMAIN m : p \in Seq(Names)
    /\ \A p \in DOMAIN m : m[p] \in {Directory} \cup 1 .. MaxCapsules

(* Every variable has the type its field has in the code, and the root     *)
(* that all operations assume is there as a directory.                     *)
TypeOK ==
    /\ NodeMap(nodes) /\ NodeMap(namespace_file)
    /\ IsDirectory(nodes, Root)
    /\ stored \subseteq 1 .. (next_capsule - 1)
    /\ next_capsule \in 1 .. (MaxCapsules + 1)
    /\ \A t \in Callers : job[t].pc \in {"idle", "store", "insert", "reclaim", "persist"}
    /\ fails \in 0 .. usage.fails /\ crashes \in 0 .. usage.crashes

(* The namespace is a tree: what is above an entry is a directory, so that *)
(* listing directories from the root reaches every file and no delete,     *)
(* overwrite or restart orphans an entry.                                  *)
TreeWellFormed ==
    \A p \in DOMAIN nodes : p # Root => IsDirectory(nodes, Front(p))

(* Until a crash, every file of the namespace can be read: no call deletes *)
(* a capsule that an entry names, whatever writes and deletes of the same  *)
(* path overlap.  Of the saved namespace, which a crash brings back, a     *)
(* file has lost its capsule only while a call that replaces or deletes it *)
(* is about to save (unless a call failed).                                *)
Backed ==
    crashes = usage.crashes =>
        /\ \A p \in DOMAIN nodes : nodes[p] \in stored \cup {Directory}
        /\ fails = usage.fails => \A p \in DOMAIN namespace_file :
            \/ namespace_file[p] \in stored \cup {Directory}
            \/ \E t \in Callers : At(t, "persist") /\ job[t].drop = namespace_file[p]

AllIdle == \A t \in Callers : At(t, "idle")

(* When every call has returned and none failed, a restart would bring     *)
(* back exactly the namespace in memory: also calls that are refused half  *)
(* way leave nothing behind that is not saved.                             *)
Durable ==
    AllIdle /\ fails = usage.fails => EnsureRootNode(namespace_file) = nodes

(* When every call has returned and nothing failed or crashed, each        *)
(* capsule belongs to a file: overwriting and deleting leak none, however  *)
(* calls overlap.  (Of calls on the names of one directory: a write below  *)
(* a file is refused after its capsule is written, and leaks it.)          *)
NoLeak ==
    AllIdle /\ fails = usage.fails /\ crashes = usage.crashes /\ usage.parts = 1 =>
        \A c \in stored : \E p \in DOMAIN nodes : nodes[p] = c
=============================================================================

# A TLA+ verification of the SPACE storage core

SPACE stores *capsules*: immutable objects cut into compressed, deduplicated,
reference-counted segments on a log. Protocol views (block, NFS, S3) map their
names to capsules; a mesh node replicates them and a scaling agent reacts to
telemetry. This project models these parts in TLA+, checks the models with TLC
on small instances and proves with TLAPS, for all instances, the safety
properties of eleven of them: the log, the three write paths, the block, NFS
and S3 views, the codec, the audit log, the Bloom filter and the mesh with its
policy compiler. Paths below are relative to `crates/` of the repository.

## 1. Inventory

| Part | State | Operations | Hard behaviour |
|---|---|---|---|
| NVRAM log, `nvram-sim` | data file, `.segments` map file, map in memory, `next_offset` | append, read, get/update metadata, counts, remove, transactions (begin, append_segment, set_segment_metadata, commit, rollback), open | overlapping transactions and appends, partial writes, failing and torn saves, crash between data and map |
| Capsule registry, `capsule-registry/src/lib.rs` | capsules, content store (hash to segment), next segment id, one JSON file | create, delete, register, deregister, add_deduped_bytes, save | save clones under locks and writes outside them |
| Write pipeline, `capsule-registry/src/pipeline.rs` | none of its own; works on log and registry | write, delete, garbage_collect, read, reconcile_refcounts at startup; asynchronous write; metro replication | two files that change in several steps, dedup against segments others delete, half-done calls after errors |
| Garbage collector, `gc.rs` | none | sweep | candidates listed first and removed later |
| Block view, `protocol-block` | volume map (name to capsule, version), JSON file | create, read, write, delete, persist, open | copy-on-write with an optimistic check, order of saving and deleting |
| NFS view, `protocol-nfs` | path map, JSON file | write_file, read, mkdir, delete, list, persist, open | check before the lock, delete before the save, path normalisation |
| S3 view, `protocol-s3` | key map in memory | put, get, head, list, delete, restart | two lookups per GET; buckets share one map of strings |
| Modular pipeline and storage, `pipeline`, `storage`, fixed layout of `layout-engine` | catalog (in memory or the registry), segment records, payloads | write, read, delete, gc over traits, restart | deletes one by one, transactions that see only what they staged, an encryptor that refuses a chunk half way, failures between catalog and backend |
| Codec: `compression`, `encryption`, ML-KEM profile of `common` | key versions, key cache, key pair | compress, encrypt, decrypt, rotate, complete rotation, clear cache, restart | segments shared by capsules of different policies, rotation between chunks, restart without keys |
| Audit log, `common/src/security/audit_log.rs` | log file, rotated file, last hash, two counters | append, rotate, recover at start | torn lines, refusing time authority, syncs whose failure is ignored, rotation that fails half way, power loss |
| Bloom filter, `common/src/security/bloom_dedup.rs` | counters | insert, remove, lookup, rebuild | cell-by-cell updates by several threads, counters at their limit |
| Scaling, `scaling`, and the tail of the asynchronous write | peers, federated capsules, shards, telemetry channel | mirror, federate, compile policy to actions, agent loop, project a view | failing peers, deletes meanwhile, channel closed with events in it |
| View projections: NFS export, NVMe, CSI, FUSE | none of their own | project | capsule deleted between federation and lookup |
| CLI, simulators, eBPF gateway | none or trivial | I/O | |

What calls what: a view calls `WritePipeline::write_capsule`, `read_capsule`,
`delete_capsule`; the pipeline changes the registry (saved by each call) and
the log (saved by each call), never both in one step; `WritePipeline::new`
reconciles the log's reference counts with the registry's capsules. All of
them are shared between threads through `Arc`; each map has its own `RwLock`
and no lock is held across calls of another component.

What makes each part correct:

* log: what was reported stored is never overwritten, survives a crash and is
  read back; a transaction is all or nothing on disk; an aborted one leaves
  nothing;
* registry and pipeline: every capsule can be read, in memory and from the two
  files at every moment; counts cover all users; the content store names
  segments that exist; recovery makes counts exact;
* codec: a capsule reads back with the keys at hand and never as something
  else; what was to be encrypted is;
* audit log: neighbouring records are linked, every batch is anchored, a power
  loss costs a bounded number of records;
* Bloom filter: no stored hash is reported absent;
* mesh: data stay in the scope of the policy, each peer gets its turn, each
  event is handled once, in order;
* views: a call takes effect once and atomically on current contents; no entry
  loses its capsule; what callers were told is saved; no capsule is leaked.

## 2. Modules

| Module | Models | Kind |
|---|---|---|
| `NvramLog` | `nvram-sim/src/lib.rs`, whole | state machine |
| `WritePipeline` | synchronous `pipeline.rs`, `gc.rs`, registry operations, and the log operations they use | composition of registry, log and pipeline |
| `AsyncPipeline` | asynchronous write of `pipeline.rs` | state machine |
| `VolumeStore` | what the block view promises | abstract specification |
| `BlockView` | `protocol-block/src/lib.rs` | state machine, refines `VolumeStore` |
| `NfsView` | `protocol-nfs/src/lib.rs` | state machine |
| `ObjectStore` | what the S3 protocol promises | abstract specification |
| `S3View` | `protocol-s3` (key map and handlers) | state machine, refines `ObjectStore` |
| `ModularPipeline` | `pipeline`, `storage`, fixed layout of `layout-engine`, `CapsuleCatalog` of the registry | composition |
| `SegmentCodec` | `compression`, `encryption`, ML-KEM profile, and how reads and writes of `pipeline.rs` use them | composition |
| `PolicyCompiler` | `scaling/src/compiler.rs` | pure operators |
| `Mesh` | `scaling` (mesh node, agent), metro replication and telemetry of `pipeline.rs`, the four projections | composition, extends `PolicyCompiler` |
| `AuditLog` | `common/src/security/audit_log.rs` | state machine |
| `BloomIndex` | `common/src/security/bloom_dedup.rs` with the registry's content store | composition |
| `NvramLogProofs`, `WritePipelineProofs`, `AsyncPipelineProofs`, `BlockViewProofs`, `SegmentCodecProofs`, `ModularPipelineProofs` | theorems about the module they are named after | proofs |
| `ComponentProofs` | theorems about `AuditLog`, `BloomIndex`, `Mesh`, `NfsView` and `S3View`, whose variables are their own | proofs |
| `Maps` | maps that entries are put into, as the registries and namespaces use them | operators |
| `SetLemmas` | counting, minima, finite sums and flattened sequences that several proofs need | proofs |
| `MC...` | symmetry sets and inputs for TLC | instances |

The pipeline is cut along what its parts depend on: `NvramLog` has offsets and
bytes, `WritePipeline` counts and files, `SegmentCodec` contents and keys,
`AsyncPipeline` tasks and undo, `Mesh` what follows a finished write,
`BloomIndex` the filter in front of the content store. Each module sees the
others through what their operations return and leave.

### NvramLog
`file` is the data file byte by byte, a byte being the segment id that was
written there; `segments_file` and `segment_map` are the map on disk and in
memory. A client's call that changes the map is two steps, the change and
`SaveSegmentMap`, because `save_segment_map` takes the lock anew; other
clients run in between. `LogAppend` is one step because `append` holds the
file lock while it writes and advances `next_offset`. `commit` is
`CommitData` (write and sync), `CommitMap` (insert all) and the save. A failed
write (`LogAppendFails`, `CommitFails`) leaves any prefix of its bytes. `home`,
`acked`, `removed`, `aborted` are history: where a segment was promised to be,
and what callers were told. Three constants select the environment:
`Exclusive` (callers let a transaction run alone; the modular handle's lock
does this), `KeepOffset` (callers of `set_segment_metadata` hand back the
staged offset; the modular pipeline does not), `TornSaves` (a crash may fall
between truncation and write of the map file).

### WritePipeline
A write runs chunk by chunk: `LookupContent`, then `IncrementRefcount` on a hit
or `AppendSegment`, `UpdateMetadata`, `RegisterContent` on a miss; then
`AddDedupedBytes`, `CreateCapsule`, `WriteReturns`. Every change of map or
registry is followed by its save: `SaveSegmentMap` for the log, and for the
registry `CloneRegistry` (under the locks) and `WriteRegistry` (after them) as
two steps. A save may fail, and the call then returns with the work so far left
in place; so may the preparation of a chunk. Deletes and sweeps are modelled
the same way. `Crash` loses memory and `Open` reads both files and reconciles
segment by segment and then sweeps. A segment's data is its content, and two
chunks have one hash exactly if they have one content; what compression and
encryption make of a chunk is `SegmentCodec`. `usage`, chosen at the start from
the constant `Usages`, says how callers use the pipeline: one call at a time
("serial"), writes overlapping with writes and deletes or sweeps with deletes
or sweeps ("apart"), everything with everything ("mixed"); and how many
failures and crashes occur.

### AsyncPipeline
`job[w]` is one call of `write_capsule_with_policy_async`: where it is, its
tasks, the channel, the received chunks, what is staged and what an error has
to undo. `SpawnTask` waits for a permit, as the loop does, and the call listens
to the channel only after its last task is spawned. Tasks send in any order;
`Turn` is the index the inner loop takes next. `CommitSegment` is one call of
`commit_segment`, up to the count of a segment found in the content store,
which is a step of its own (`IncrementRefcount`), because another writer may
undo its registration in between. The call's transaction is `Begin`, `Stage`,
`AllWritten` and `RollBack`: it takes the log's `next_offset` as its `base`,
pushes it forward with each staged chunk, writes `data_file` from the base on
and sets `next_offset` behind its last chunk, or back to the base when it is
dropped. Transactions that are open at the same time each place their chunks
from their own base on, which may be the same, so the later commit may
overwrite what the earlier one wrote; `overlapped` records that two were open
together. Each chunk takes one place of the data file. The three undo
sequences of the code are data (`AbortUndo`, `RegisterUndo`, `CreateUndo`) that
`UndoStep` executes call by call; an undo that fails is left half done, as `?`
leaves it. Segments live in the map in memory: bytes of a chunk one by one are
`NvramLog`'s matter and what a crash leaves is `WritePipeline`'s. Encryption is
left out of `prepare_segment`, whose only effects here are that it takes time
and may fail.

### BlockView and VolumeStore
Each lock scope and each pipeline call of `create_volume_with_block_size`,
`write` and `delete_volume` is a step; in between the other thread runs.
`persist` is one step: it writes the file under the read guard, and two
overlapping `persist` calls see the same map. A volume's contents are a
function from block positions to values, so a write to one block on a stale
copy would show as a change to another. The refinement maps `volumes` and
`volumes_file` to what readers find through them (`ContentOf`, which is
`BlockView::read`).

### NfsView
Paths are sequences of names and the map's keys are flattened components, which
is what `normalize_path` computes: a component may hold several names when the
argument contains a backslash. `InsertFile` and `Mkdir` contain the whole of
`ensure_directory`, including the directories it leaves when it stops at a
file. `usage` says whether calls come one at a time, as `spacectl` makes them,
how long path arguments are and how many failures and crashes occur.

### S3View and ObjectStore
A request is in progress from `Arrive` to `FinishRequest`, and each lock scope
and each pipeline call of its handler is a step. A name is a bucket and a key,
both sequences of parts, and `FullKey` joins them as the string format does, so
that different names could meet in the map. In `ObjectStore` a request takes
effect at once; only the content type of a GET has a step of its own, because
the handler looks it up after the body. `RestartServer` empties the key map,
which is never saved.

### ModularPipeline
`setup` is the assembly: in-memory backend and catalog, NVRAM log with
in-memory catalog, or NVRAM log with the registry. A step is one transaction of
the backend or one call of the catalog; operations take `&mut self`, so calls
do not overlap, but any file write can fail and the process can end between two
steps. `BuildPlan` is the fixed layout. `set_segment_metadata` behaves as the
backend does: the in-memory one knows all segments, the NVRAM one only what its
transaction staged. A write can stop at any chunk with the earlier ones stored
and counted: at a failing save, at known content on NVRAM, or because the
encryptor refuses the chunk (`EncryptRefuses`); nothing takes the counts back.
`broken`, `torn` and `abandoned` are history: capsules whose delete has begun,
segments whose removal was cut off, and segments that a write had counted when
it returned an error. On NVRAM the module speaks of the segments' records only
(`SegmentsDescribed`); their bytes are lost to one another, because every
segment is staged with offset 0, which is `NvramLog` with `KeepOffset = FALSE`
and the run `NvramLogModular`. `ReadBack` is about the in-memory backend.

### SegmentCodec
A chunk is raw data or the frame that an algorithm makes of it, so a caller's
data may itself be a frame. A write compresses, hashes (the compressed form),
looks the hash up, and encrypts under the current key version; a read takes
version, tag and wrapping from the segment and profile and compression from the
capsule's policy. Keys are what they are derived from (provider, version,
master key) and a tag fits only key and bytes it was made with.

### PolicyCompiler and Mesh
The compiler is a set of pure operators; `Mesh` calls them from the agent with
the snapshot the agent has, and from outside (`CompileScaling`) with every
combination of a set of events, policies and meshes. `writes[cap]` is the tail
of one asynchronous write: which segment goes to which target next. A step runs
from one await to the next. `Receive`, `HandleTelemetryEvent` and `StopAgent`
are the agent's loop; it ends when the channel is closed and empty. The four
projections share `ProjectView`, with what differs as parameters.

### AuditLog
A line is what was written up to its newline: one or more fragments, and it can
be parsed if it is one whole record. A write may be cut off at any byte, by an
error or by a crash, and a power loss takes lines that were not synced. A sync
can fail, when it is due and when the file is rotated; the code ignores it and
counts from zero again, so the lines stay unsynced until the next sync that
works, or for good if they are rotated away (`rotated_synced`). `on_rotated` is
the window in which the file was renamed but not reopened, so that the handle
still writes to the rotated file. `logged`, `stretch`, `unsynced_starts`,
`failed_syncs` and `rotated_limit` are history.

### BloomIndex
Registrations, removals and lookups go counter by counter, and other threads in
between; a removal holds the lock of the store, an insertion does not. `clipped`
and `lossy` record that a counter was full when it should have been raised, and
that such a counter was lowered later.

## 3. Runs

| Run | Instance | Shows |
|---|---|---|
| `NvramLogExclusive` | 2 clients, 3 segments of 2 bytes, 1 failing write, 1 failing save, 1 crash | stored data intact, durable, readable by late readers; commit atomic on disk; aborted transactions invisible while saves succeed |
| `PipelineCapsules` | 2 threads, 2 contents, 2 capsules of up to 2 chunks; one call at a time with 2 failures and 2 crashes, or overlapping without | both files consistent with each other at every step; counts cover users; capsules readable; hashes name stored segments and nothing leaks while nothing failed; reconciliation repairs every drift |
| `AsyncWrites` | 2 writers, the empty capsule and ones of 1 and 3 chunks, 2 permits, 1 failing task, chunk or commit, 1 failing save | chunks in order whatever order tasks finish in, and their bytes in the data file while no two transactions are open at a time; an aborted write leaves no segment and no count; hashes name committed segments unless a registration's save fails; every call returns |
| `BlockVolumes` | 2 threads, 1 volume, 2 blocks, 2 values, 1 failure, 1 crash | `BlockView` implements `VolumeStore`; returned calls are saved |
| `NfsNamespace` | 2 threads, 2 names; one call at a time on 2 levels and ".." with 1 failure and 1 crash, or overlapping calls in a flat directory with 1 failure | the namespace is a tree; no overlap loses or leaks a capsule; refused calls leave nothing unsaved; a crash costs at most the file of the call in progress |
| `S3Objects` | 2 clients, 3 names in 2 buckets, 2 bodies, 2 capsules, 1 failing call, 1 restart | `S3View` implements `ObjectStore` |
| `ModularCapsules` | 3 assemblies, 2 units, capsules of up to 3 units in segments of 2, 2 capsules, either encryptor, 1 failing write, 1 restart | segments of capsules are there with the hashes of their data; in memory capsules read back; counts cover them, in memory exactly but for what a failed write had counted; the content index is live except where a removal was cut off |
| `SegmentKeys` | 2 capsules of up to 2 chunks, plain, encrypted and hybrid, with and without compression and deduplication, 2 key versions, 1 restart with all, some or no keys | `ReadBack` with the keys at hand, `NoWrongData` in any case, no first copy in the clear for an encrypting policy |
| `MeshScaling` | 2 peers, 1 write of up to 2 segments, 1 external event, 1 projection; the compiler on 9 events, 5 policies and 182 meshes | placements in scope, every target tried, events in order, after replication and all handled, views backed by shards |
| `AuditChain` | 6 appends, flush and batch of 2, rotation after 3 lines, 2 faults (failing writes, syncs, renames, opens, a refusing authority), 2 restarts | links, proofs per batch, loss bounded by the interval, restarts and failed syncs |
| `BloomLookup` | 2 hashes on 2 counters with limit 3, 2 threads, 4 segments, rebuilds | no false negatives unless a stuck counter was lowered |
| `NvramLogModular` | 1 client, `KeepOffset = FALSE`; a violation is expected | `ReadBack` fails: the modular pipeline hands back a `Segment` with offset 0, and segments overwrite each other |

The `TypeOK` of `WritePipeline`, `BlockView`, `NfsView`, `AsyncPipeline` and
`ModularPipeline` and the `IndInv` of `NvramLog` hold on the same instances and
can be added to the cfg files. The invariants of `NvramLogExclusive` also hold
with `Lengths = {0, 2}` and one client, which puts segments of length zero
beside others.

The conditions in the properties and the constants mark further departures
from what docs and comments say, or from what one would expect. They are
modelled and have no run of their own; where a property is named, the change
beside it makes TLC report it.

Log:

* `Exclusive = FALSE` in `NvramLogExclusive`: two open transactions can have
  the same base offset, and the second commit overwrites the first
  (`AckedIntact`);
* `TornSaves = TRUE`: a crash during the save of the map loses every segment
  (`AckedDurable`);
* `AbortedInvisible` without its condition on saves: a commit whose save fails
  is rolled back, but its segments stay in the map and the next save stores
  them.

Pipeline and registry:

* `Usages <- MCMixed` in `PipelineCapsules`: a delete removes a segment that a
  concurrent write has just counted itself into (`NoDangling`);
* `AckedDurable` without its condition on serial calls: of two writes the older
  clone of the registry may be written last;
* `ContentStoreLive` without its condition on failures: after one failing save
  the saved content store names a segment that is gone;
* `DedupedBytesTracked`: `add_deduped_bytes` runs before the capsule exists, so
  the field stays 0;
* `AsyncPipeline`, `ContentStoreLive` without its condition: when the save of
  `register_content` fails, the hash just inserted is not deregistered but its
  segment is removed, and every later write of this content fails;
* `InOrder` with `~overlapped` dropped: of two writes whose transactions are
  open together the second commit may write over the chunks of the first, so the
  first capsule lists segments whose bytes are gone;
* `InOrder` without `NoSaveFailed`: when the save of
  `create_capsule_with_segments` fails, the capsule stays in memory while its
  segments are removed, and so are segments a concurrent write has counted
  itself into;
* `AbortLeavesNothing` without its condition: segments written without
  deduplication are not removed when the capsule cannot be created, and a
  commit whose save fails keeps its segments in the map;
* `ModularPipeline`, `SegmentsDescribed` and `ReadBack` with `broken` dropped:
  a running delete leaves a capsule without segments; on the NVRAM backend it
  can fail half way, and a retry fails at the first of them. There a write of
  known content fails too, because the transaction knows only what it staged,
  and leaves counts that are too high (so `RefCountCovers` is exact in memory
  only);
* `RefCountCovers` with `abandoned` dropped: in memory, a write whose encryptor
  refuses a chunk leaves the segments of the chunks before it, and the counts
  it raised, to `garbage_collect`, which frees only those that no capsule
  lists;
* `ContentLive` without `torn`: a removal cut off between backend and catalog
  leaves a hash without segment.

Codec:

* `HybridReadable` in `SegmentKeys`: a hybrid segment cannot be read through
  another capsule or index than the one that stored it, nor when it was written
  without deduplication;
* `ReadBack` and `NoWrongData` without `TakenForFrame`: data that look like a
  frame of the capsule's algorithm are stored raw and decompressed by the read;
* an encrypting policy without key manager stores plaintext
  (`ClearOnlyIfShared` without the condition on `key_manager`), and with one it
  shares segments that a plaintext capsule stored;
* a chunk of less than 16 bytes cannot be encrypted, so a capsule with such a
  tail is refused (`RefuseChunk`).

Views:

* `NoLeak` of `BlockView` in `BlockVolumes`: `write` returns with `?` at
  `get_mut` when its volume was deleted meanwhile, and leaves the capsule it
  wrote registered, although the two other races of the file drop theirs;
* `Backed` of `NfsView` without the exception for the call in progress: the old
  capsule is deleted before the namespace is saved, and a crash in between
  brings back a file without data;
* a usage with `serial |-> FALSE, parts |-> 2` in `NfsNamespace`: `write_file`
  replaces a directory made after its check (`TreeWellFormed`);
* `Backslashes = TRUE`: an argument with a backslash makes an entry without
  parent directory (`TreeWellFormed`);
* `NoLeak` of `NfsView` without its condition on `parts`: a write below a file
  is refused after its capsule was written;
* a bucket name of two parts (an escaped slash) in `MCNames` gives two names
  one full key (`ImplementsObjects`). The capsules of overwritten and deleted
  objects stay, and so do all of them when a restart forgets the key map.

Mesh and security:

* `LocalStaysLocal` with `Policies <- LocalPolicies` in `MeshScaling`: the
  replication of zero-RPO writes does not look at sovereignty, and mirrors
  capsules of a Local policy, whose data "stays on local node"; likewise the
  agent handles a heat spike under the `MetroSync` policy whatever the
  capsule's own is;
* the compiler takes a threshold of at most 1 for a fraction, so a
  `CapacityThreshold` event cannot ask for one percent (`NormalizedThreshold`);
* the agent's executors only log what they would do, and a failing action is
  logged too (`ExecuteActions`);
* `UnsyncedBounded` with `failed_syncs` dropped from `Limit`: a sync that fails
  is ignored and resets the count, so each costs another interval of records;
* after a rotation and a restart the audit chain starts again from zero:
  `Linked` speaks of neighbours in one file only.

Bounds. Two clients or threads give every pairwise overlap of steps, and no
operation waits for more than one other. Three segments are a transaction of
two and one neighbour; two bytes per segment make partial writes visible. Two
capsules of two chunks over two contents give sharing within and between
capsules, and one user that goes while another stays. Three chunks and two
permits make a writer wait for a permit and let tasks finish out of order. Two
crashes reach a crash during recovery. Three units in segments of two give a
full and a short chunk, equal and unequal. Two key versions put a rotation
between two chunks of one capsule or between two capsules; chunks of each kind
(compressible, short, a frame) meet every pair of policies. Six appends with
batches of two and files of three lines put a rotation, a flush and a batch
boundary at different places, and two faults reach a rotation that fails and
then a write that fails. With a counter limit of 3 two hashes, one of which
uses a counter twice, just fit, and overlapping registrations of one hash make
the counter stick. Two peers are
all the targets that replication ever takes. `CHECK_DEADLOCK FALSE` is set
where the bounds (no capsule left to write, no append left) stop the model; the
runs that check deadlock are those of the log and of the two write paths.

Fairness. `AsyncPipeline` assumes weak fairness of each writer's steps and of
its tasks' taken together (each task ends after one step, so this reaches all
of them): the write runs on tokio's multi-threaded runtime (`pipeline.rs:841`),
which polls every woken future again, and preparation runs on blocking threads.
`Mesh` assumes weak fairness of the agent's steps (`AgentNext`): the agent is a
task of the same runtime, woken by each message and by the closing of the
channel. Nothing is assumed of failures, and no writer is assumed to begin a
call. `Returns` says that again and again no call is left; since calls are
finitely many, it says that each returns. The other specifications check safety
only and state no fairness: their operations are calls that run to completion.

Mutants. Next to the definition it changes stands each mutated form (a dropped
guard, a skipped save, a wrong order). Replacing the definition by it makes TLC
report the property, so each property depends on the code it is about. `InOrder`
has two: `TurnAsArrived` breaks the order of the chunks, `AllWrittenEndShort`
loses bytes of one.

## 4. Proofs

All theorems hold for every value of the constants that satisfies the named
`ASSUME`s of the module and the hypotheses in the last column: any number of
clients, capsules, chunks, failures and crashes.

| Module | Theorem | States | Hypotheses |
|---|---|---|---|
| `NvramLogProofs` | `TypeCorrect` | `TypeOK` | |
| | `Durable` | `AckedDurable` | `KeepOffset`, no torn saves |
| | `AppendOnly` | `AckedIntact` | `Exclusive`, `KeepOffset` |
| | `ReadersSafe` | `ReaderSafe` | `Exclusive`, `KeepOffset` |
| | `ReadsBack` | `ReadBack` | `Exclusive`, `KeepOffset`, no torn saves |
| | `Inductive` | `IndInv` | all three |
| | `CommitsAtomic` | `CommitAtomic` | none |
| | `AbortsInvisible` | `AbortedInvisible` | none |
| `WritePipelineProofs` | `PipelineInvariant` | the inductive invariant | `KeptApart` |
| | `PipelineNoDangling` | `NoDangling` | `KeptApart` |
| | `PipelineRefcountCovers` | `RefcountCovers` | `KeptApart` |
| | `PipelineDiskConsistent` | `DiskConsistent` | `KeptApart` |
| | `PipelineAckedDurable` | `AckedDurable` | `KeptApart` |
| | `PipelineContentStoreLive` | `ContentStoreLive` | `KeptApart` |
| | `PipelineNoLeak` | `NoLeak` | `KeptApart` |
| `AsyncPipelineProofs` | `AsyncInvariant` | the inductive invariant | |
| | `AsyncContentStoreLive` | `ContentStoreLive` | |
| | `AsyncInOrder` | `InOrder` | |
| | `AsyncAbortLeavesNothing` | `AbortLeavesNothing` | |
| `BlockViewProofs` | `BlockInvariant` | types and the inductive invariant | |
| | `BlockDurable` | `Durable` | |
| | `BlockImplementsStore` | the refinement `Implements` | |
| `SegmentCodecProofs` | `CodecInvariant` | the inductive invariant | |
| | `CodecReadsBack` | `ReadBack` | |
| | `CodecNoWrongData` | `NoWrongData` | |
| | `CodecClearOnlyIfShared` | `ClearOnlyIfShared` | |
| `ModularPipelineProofs` | `ModularTyped` | `TypeOK` | |
| | `CapsulesDescribed` | `SegmentsDescribed` | |
| | `CapsulesReadBack` | `ReadBack` | |
| | `CountsCover` | `RefCountCovers` | |
| | `ContentIsLive` | `ContentLive` | |
| `ComponentProofs` | `AuditInvariant` | types and chain invariant | |
| | `AuditLinked` | `Linked` | |
| | `AuditProofs` | `ProofInEveryBatch` | |
| | `AuditFlushed` | `UnsyncedBounded` | |
| | `BloomInvariant` | types and the counting invariant | |
| | `BloomNoFalseNegatives` | `NoFalseNegatives` | |
| | `MeshInvariant` | the inductive invariant of the mesh | |
| | `MeshPlacement` | `PlacementInScope` | |
| | `MeshTargetsTried` | `EveryTargetTried` | |
| | `MeshAnnounced` | `AnnouncedAfterReplication` | |
| | `MeshViewsPlaced` | `ViewsPlaced` | |
| | `NfsInvariant` | types and ownership of capsules | |
| | `NfsBacked` | `Backed` | |
| | `NfsNoLeak` | `NoLeak` | |
| | `NfsTree` | `TreeWellFormed` | `PlainUse` |
| | `NfsDurable` | `Durable` | `PlainUse` |
| | `S3Invariant` | the invariant of key map and handlers | `FlatBuckets` |
| | `S3ImplementsObjects` | the refinement `ImplementsObjects` | `FlatBuckets` |

The hypotheses are conditions on how the component is used. `Exclusive`,
`KeepOffset` and `TornSaves` are the constants of `NvramLog`; the run
`NvramLogModular` and the changes listed under "Log" in section 3 show that
dropping one loses the property. `KeptApart` says that there are finitely many
threads and that each member of `Usages` is serial, with any number of failures
and crashes, or keeps writes apart from deletes and sweeps, with any number of
failures and no crash. No lock of the code ensures it; `MCMixed` in section 3
shows what is lost without it. `PlainUse` says of the NFS view that arguments
hold no backslash and that each member of `Usages` is serial, as `spacectl`'s
are, or names what is in the root; the two changes in section 3 that
`TreeWellFormed` does not survive each drop one half of it. `FlatBuckets` says
that a bucket is one name and a key not empty, as the routes have it; without
it the refinement is lost to a bucket with an escaped slash (section 3). Of the
`ASSUME`s most bound sizes; the ones that say something about the program are
that the set of writers is finite (`WritersAssumption`), that a data's short
chunk is its last (`DatasAssumption`), that the values that stand for nothing
are no value of the program (`NoneAssumption`, `NothingAssumption`), and that
nobody but the pipeline reports a new capsule (`MeshAssumption`; outside tests
no other code constructs that event).

None of the properties is inductive by itself. The invariants below were
checked with TLC on the instances of section 3 before they were proved. Each
proof has one lemma per action, and in the larger ones per action and part of
the invariant, and the facts about an operation on data (writing bytes,
appending a line, counting uses) are lemmas of their own.

**Log.** That stored data stay intact depends on where future writes go.
`CopiesAgree`: all copies of a `Segment` (maps, pending lists, values clients
hold) name the place promised for its id. `Recorded`: what is reported, or
about to be, is in the maps. `Stored`: data reported or about to be lie below
`next_offset` and below the end of the file, and the pending entries of the
open transaction lie one after another above everything stored. Each part is
proved from the type invariant and the parts before it, with the hypotheses it
needs and no others; this is why `Durable` does not need `Exclusive`. Atomic
commits need none of them but `Batches`: ids handed out by one transaction form
one batch, both maps have whole batches or none of one, and no client holds a
`Segment` of a batch that is not yet shown. `Unaborted` adds that ids of an
aborted transaction are in no map and in nobody's hands.

**Write pipeline.** The central part of `IndInv` is `Inv`, about memory: each
capsule's segments are in the map with its data and no hash names a segment of
other content (`Fits`), ids in use are below the next one (`Below`), a count is
at least the uses by capsules and by calls in progress, and each call's segment
is what its program counter implies: what a write has stored is the beginning
of its data (`Worker`), the fresh segment of a miss has neither user nor name
(`Fresh`), one about to be removed has no user (`Doomed`), and two writes work
on different capsules and fresh segments and never beside a delete
(`Distinct`). `Disk` is about the files: registry and map fit together in all
four combinations of memory and file (`Saved`), because either may be saved
next and both be lost in a crash, and `Settled` says how far the files may lag
behind at each point of the running call. `Calls` is what `KeptApart` means in
a state. Recovery runs under the same invariant: it starts from files that fit
together, and `reconcile_refcounts` raises or lowers a count to the references
of the capsules, never below.

Two more invariants are proved on top of `IndInv`. `Live`, as long as nothing
has failed: a registered hash names a segment that carries this hash, in memory
and in the files; each call that is about to remove a segment has first taken
its only name away, and a segment found by a lookup is still there when it is
counted (`Finds`). A file is behind memory only while the call that owes the
save is running. `Exact`: the count of a segment is exactly the uses by
capsules and calls, unless its writer has still to collect it or a delete is
about to remove it (`Accounted`), and what a call holds exists (`Held`), so
that `decrement_refcount` never meets its error case. A failing call breaks
`Exact` until the next restart: while the pipeline is being opened, segments
whose count is still wrong, and then segments still to be swept, are on the
opener's list (`Recovers`), and at its end all counts are exact and positive.
`Exact` needs `Live` at one point, the increment after a dedup hit.

**Asynchronous path.** `Owned`: a staged id belongs to one call. `Live`: a name
is registered after its segment's commit, and every undo takes the name back
before the segment. `Ordered`: received chunks are a prefix of the call's data,
each in the map or staged. `Counted`: a count is exactly the references of the
capsules plus those each call has taken, whether in its list or still to be
given back by its undo. `WritersAssumption` is needed for this sum only.
`DiskInv` is about the data file, as long as no save failed and no transaction
began while another was open: every committed segment has its place below the
log's end and below the base of the open transaction, if there is one, and its
bytes are there (`AllStored`); an open transaction's call is between its
beginning and its end (`OpenPCs`), and what it has staged lies from its base
on, up to `next_offset`. A commit, complete or cut off, therefore writes only
above what is stored.

**Block view.** The capsule a call has stored or has to delete is its own; each
volume, in memory or in the saved file, has a live capsule of its own; and what
a call is about to swap in is what it read with its own block changed, as long
as the version is still the one it read. The refinement is proved step by step:
every step of `BlockView` is one of `VolumeStore` or changes nothing that
readers see, in memory or after a restart.

**Modular pipeline.** The map in memory and the saved one, the catalog in
memory and the saved one change at different steps, and a restart takes the
saved ones, so the parts of `IndInv` are operators of a map and a catalog and
are claimed of each combination that a restart can put together. `MapInv`:
every capsule not in `broken` finds its segments in the map and they flatten to
its data, hashes name segments of their content unless `torn`, and what a call
works on is there. `FileInv`: the saved catalog lags behind by the call in
progress at most, and what it lists is intact or `broken`. On the NVRAM backend
no two capsules share a segment (`Unshared`), because a transaction does not
know the segments of others and a write that meets a known hash fails; so a
count of one covers. In memory `Counted` says that a count is the listings of
the capsules plus what the running call has taken or not yet given back
(`Claims`), of segments that no write has abandoned; what is abandoned has a
count at least as high. That `build_plan`'s zones cover the data, and that the
contents of a plan's chunks flatten to it, is proved for every length and
segment size: a least position at which an equation of `FlattenSeq` fails
cannot exist.

**Codec.** A segment's version and place derive the key it was encrypted with,
whatever was rotated, cached or forgotten since, and a capsule's segments
decompress to its data (`SegmentOK`, `WriteOK`).

**Audit log.** `ChainInv`: in both files the lines that parse are linked, and
the last of them has the hash the next record will name, or a torn line lies
between. `BatchInv`: the counter covers the records since the last proof.
`FlushInv`: unsynced records are bounded by the counter of the process, the
processes and the failed syncs since the last sync that worked. `RotatedInv`:
the rotated file has no more of them than when the handle left it, and that was
within the limit of then.

**Bloom filter.** `Covers`: a counter that has not stuck is at least the number
of uses by stored hashes and by updates in progress, where a repeated bucket
counts twice, until a stuck counter is lowered.

**Mesh.** `WriteOK`: what has been sent, what failed and what is still to do
make up each pair of a segment and a target of the write, once a target is
chosen, and are cut short only when the capsule is deleted. `ChannelInv`: the
events handled, the one in the agent's hands and the queue, in this order, are
the events emitted. `EventsInv`: a write's event is among them exactly when it
has returned, hence once. `ViewOK`: the federation and the shards that a
projection has not reached are on its list. `CompiledInv`: what the compiler
has answered satisfies `PlacementInScope`. For it the compiler is followed from
`CompileScalingActions` down: `Filter` keeps the nodes that fit and their
order, shown by a least node of the snapshot at which it would not; the targets
taken from it are at most two and differ, because a snapshot lists a node once;
and the migration target is a node of least use among the allowed ones.

**NFS view.** `Owns`: a live capsule has one owner, an entry of the namespace or
the call that has stored it or taken it out, for any overlap of calls on any
paths; what a caller stores is therefore its own until the entry is there, and
what it deletes is in no entry. `SavedBacked` adds that an entry of the saved
namespace has lost its capsule only to a call that saves next, and `AllHeld`
that no capsule is without owner as long as nothing failed. The tree is kept
under `PlainUse` because of what `ensure_directory` does (`EnsureTree`,
`EnsureGranted`): it makes every directory down to the first file on the path.
Refused, it has made nothing (`EnsureRefused`): what lies above a file in a
tree is there already; so nothing of a refused call is left unsaved. For this
`normalize_path` and the flattening of keys are followed for paths of every
length: without backslashes the components of an argument and the names of its
key are one to one (`PlainPath`, `FullComponents`), the parent's path is the
key without its last name (`ParentIsFront`), and a write finds at its insertion
what it found at its check, because calls do not overlap or its parent is the
root.

**S3 view.** `Mappings`: the key map holds full keys of objects only, each with a
stored capsule and the content type of its name. `Handling`: the capsule that a
PUT has at hand holds its body, and that of a GET the body in its answer. With
these the refinement is proved step by step: a step of a handler is one of
`ObjectStore`, but for the write of a capsule, which changes nothing that
clients see. What makes names independent of each other is proved for keys of
every length: a full key splits into bucket and key in one way (`KeyParts`,
`KeysDiffer`), so that a PUT or a DELETE changes one object (`MappedName`,
`UnmappedName`) and the full keys that begin with a bucket are those of its
objects (`Listing`).

Only model-checked, because it is out of the prover's reach, is liveness under
fairness: `Returns` and `EventsHandled`. The prover has no induction over data
either; what the proofs need of recursive functions (flattened sequences, sums,
what a filter keeps) is shown by a least position at which it would fail.

## 5. Not modelled

* The arithmetic of ciphers, MACs, hashes and compression: `SegmentCodec` says
  what they do to frames, keys and tags; hashing is injective.
* The size and the error rate of the Bloom filter, compression levels, entropy
  figures, latencies, timestamps and statistics. `get_dedup_stats` is among
  them: it takes the registry's locks in another order than `save` does, and
  since calls of the registry are single steps here, no model shows what
  waiting writers make of that.
* The eBPF gateway: a check of a header against a set of identities, and an
  interface to the kernel.
* The Merkle root of the quantum-ready layout, which nothing reads back, and
  the layouts `zns` and `ml`, stubs without callers.
* `SwarmBehavior`: its transformations return their input.
* HTTP routing, the command line, `xtask`, the simulators and the vendored
  protocol servers: I/O and stubs.
* Of the file system, `AuditLog` takes for granted that a sync that works
  covers what an earlier one that failed left out, and that a rename survives a
  power loss.
* Errors of `nvram.read` while segments are mirrored: in `Mesh` only peers fail
  and capsules go.
* Sizes of chunks in `AsyncPipeline`: each takes one place of the data file.
* Torn writes of the JSON files of registry and views: they are written in one
  step; that a crash can tear such a write is modelled for the log's map only.
* A failing pipeline call has no effect in the views' models; what it really
  leaves behind is `WritePipeline`.
* A crash between the steps of an asynchronous write: the synchronous one in
  `WritePipeline` goes through the same saves.

----------------------------- MODULE AsyncPipeline -----------------------------
(***************************************************************************)
(* The asynchronous write of crates/capsule-registry/src/pipeline.rs       *)
(* (feature pipeline_async): one task per chunk prepares it and sends it   *)
(* through a channel to the writer, which puts the chunks back in order,   *)
(* stages or deduplicates them, commits the transaction, registers the     *)
(* hashes and creates the capsule; on an error it undoes what it has done. *)
(*                                                                         *)
(* Writers run at the same time, each with a transaction of its own on the *)
(* one log: a transaction takes the log's next offset as its base when it  *)
(* begins.  What is on disk after a crash is the matter of NvramLog and    *)
(* WritePipeline; here the maps are those in memory, and the data file has *)
(* one place for each chunk.                                               *)
(***************************************************************************)
EXTENDS Integers, Sequences, FiniteSets, SequencesExt, Maps

CONSTANTS
    Writers,        \* concurrent calls of write_capsule_with_policy_async
    Contents,       \* contents of a chunk; one hash each
    Datas,          \* what is written: sequences of contents
    MaxChunks,      \* bound: chunks of a capsule
    MaxCapsules,    \* bound: capsules written
    MaxConcurrency, \* PipelineConfig::max_concurrency
    MaxTaskFails,   \* bound: failures before the transaction is committed
    MaxSaveFails    \* bound: failing saves of the segment map or the registry

ASSUME AsyncAssumption ==
    /\ Datas \subseteq Seq(Contents)
    /\ \A data \in Datas : Len(data) <= MaxChunks
    /\ MaxChunks \in Nat /\ MaxCapsules \in Nat
    /\ MaxConcurrency \in Nat \ {0}
    /\ MaxTaskFails \in Nat /\ MaxSaveFails \in Nat

(* Calls are counted: there are finitely many at a time.                   *)
ASSUME WritersAssumption == IsFiniteSet(Writers)

VARIABLES
    segment_map,    \* committed segments: data and reference count
    content_store,  \* hash to segment
    capsules,       \* capsule to its segments
    next_segment,   \* CapsuleRegistry::alloc_segment
    job,            \* the call of each writer
    data_file,      \* offset to the content written there
    place,          \* Segment::offset of the committed segments
    next_offset,    \* NvramLog::next_offset
    base,           \* base_offset of the transactions that are not finalized
    overlapped,     \* history: a transaction began while another was open
    data_of,        \* history: the data of each capsule
    unregistered,   \* history: the save of a registration has failed
    task_fails, save_fails  \* failures still allowed by the bounds

shared == <<segment_map, content_store, capsules, next_segment>>
disk == <<data_file, place, next_offset, base, overlapped>>
vars == <<segment_map, content_store, capsules, next_segment, job, disk, data_of,
          unregistered, task_fails, save_fails>>

Without(f, x) == [z \in DOMAIN f \ {x} |-> f[z]]
Entries(f) == {<<x, f[x]>> : x \in DOMAIN f}

(* A call: its tasks (indexed by chunk), the channel, the received chunks  *)
(* not yet taken (ordered), the chunk to take next, the staged segments    *)
(* (pending), and what an error has to undo.                               *)
IdleJob == [pc |-> "idle", cap |-> 0, dedupe |-> FALSE, task |-> <<>>,
            channel |-> <<>>, ordered |-> {}, next |-> 1, hit |-> 0,
            pending |-> <<>>, increments |-> <<>>, segs |-> <<>>, registered |-> 0,
            failed |-> FALSE, undo |-> <<>>]

Init ==
    /\ segment_map = Empty
    /\ content_store = Empty
    /\ capsules = Empty
    /\ next_segment = 1
    /\ job = [w \in Writers |-> IdleJob]
    /\ data_file = Empty /\ place = Empty /\ next_offset = 0
    /\ base = Empty /\ overlapped = FALSE
    /\ data_of = <<>>
    /\ unregistered = FALSE
    /\ task_fails = MaxTaskFails
    /\ save_fails = MaxSaveFails

At(w, pc) == job[w].pc = pc
Goto(w, pc) == job' = [job EXCEPT ![w].pc = pc]
Return(w) == job' = [job EXCEPT ![w] = IdleJob]
Data(w) == data_of[job[w].cap]
Total(w) == Len(Data(w))
TaskFails == task_fails > 0 /\ task_fails' = task_fails - 1
SaveFails == save_fails > 0 /\ save_fails' = save_fails - 1

Running(w) == {i \in DOMAIN job[w].task : job[w].task[i] = "running"}

-----------------------------------------------------------------------------
(* begin_transaction                                                       *)
Begin(w) ==
    /\ base' = Put(base, w, next_offset)
    /\ overlapped' = (overlapped \/ base # Empty)
    /\ UNCHANGED <<data_file, place, next_offset>>

(* rollback, by the call or by the drop of a transaction that is not       *)
(* finalized: the log's next offset is the transaction's base again.       *)
RollBack(w) ==
    /\ next_offset' = IF w \in DOMAIN base THEN base[w] ELSE next_offset
    /\ base' = Without(base, w)
    /\ UNCHANGED <<data_file, place, overlapped>>

(* append_segment: after a chunk staged behind n others the log's next     *)
(* offset is the one behind it.                                            *)
Stage(w, n) ==
    /\ next_offset' = base[w] + n + 1
    /\ UNCHANGED <<data_file, place, base, overlapped>>

(* The data file when the first n staged chunks are written in it.         *)
Written(w, n) ==
    [at \in DOMAIN data_file \cup base[w] .. (base[w] + n - 1) |->
        IF at \in base[w] .. (base[w] + n - 1) THEN job[w].pending[at - base[w] + 1].data
        ELSE data_file[at]]

Placed(w) ==
    LET p == job[w].pending IN
    [id \in DOMAIN place \cup {p[k].id : k \in DOMAIN p} |->
        IF \E k \in DOMAIN p : p[k].id = id
        THEN base[w] + (CHOOSE k \in DOMAIN p : p[k].id = id) - 1
        ELSE place[id]]

(* Mutant: the commit takes the last chunk's offset for the end.           *)
AllWrittenEndShort(w) ==
    LET n == Len(job[w].pending) IN
    /\ data_file' = Written(w, n)
    /\ place' = Placed(w)
    /\ next_offset' = IF n = 0 THEN next_offset ELSE base[w] + n - 1
    /\ UNCHANGED overlapped

(* All staged chunks are written and in the map.                           *)
AllWritten(w) ==
    LET n == Len(job[w].pending) IN
    /\ data_file' = Written(w, n)
    /\ place' = Placed(w)
    /\ next_offset' = IF n = 0 THEN next_offset ELSE base[w] + n
    /\ UNCHANGED overlapped

-----------------------------------------------------------------------------
(* The call begins; an empty capsule is created at once, without a         *)
(* transaction.                                                            *)
WriteCapsuleAsync(w, data, dedupe) ==
    /\ At(w, "idle")
    /\ Len(data_of) < MaxCapsules
    /\ data_of' = Append(data_of, data)
    /\ job' = [job EXCEPT ![w] = [IdleJob EXCEPT !.cap = Len(data_of) + 1,
                    !.dedupe = dedupe, !.pc = IF data = <<>> THEN "create" ELSE "spawn"]]
    /\ IF data = <<>> THEN UNCHANGED disk ELSE Begin(w)
    /\ UNCHANGED <<shared, unregistered, task_fails, save_fails>>

(* A permit of the semaphore is free.                                      *)
PermitFree(w) == Cardinality(Running(w)) < MaxConcurrency

(* The loop over the chunks: a permit is awaited, then a task spawned that *)
(* holds it until it ends.  Only after the last one the writer receives.   *)
SpawnTask(w) ==
    /\ At(w, "spawn")
    /\ PermitFree(w)
    /\ LET spawned == Append(job[w].task, "running") IN
       job' = [job EXCEPT ![w].task = spawned,
                          ![w].pc = IF Len(spawned) = Total(w) THEN "receive" ELSE "spawn"]
    /\ UNCHANGED <<shared, disk, data_of, unregistered, task_fails, save_fails>>

(* A chunk is over the memory limit: the call returns, the transaction is  *)
(* dropped with nothing staged, the tasks end unheard.                     *)
SpawnRefused(w) ==
    /\ At(w, "spawn")
    /\ PermitFree(w)
    /\ TaskFails
    /\ Return(w)
    /\ RollBack(w)
    /\ UNCHANGED <<shared, data_of, unregistered, save_fails>>

(* The channel has a slot for every chunk.                                 *)
ChannelCapacity(w) == Total(w)

Receiving(w) == job[w].pc \in {"spawn", "receive", "take", "increment"}

(* A task has prepared its chunk and sends it; it waits for a slot.        *)
TaskSends(w, i) ==
    /\ i \in Running(w)
    /\ Receiving(w)
    /\ Len(job[w].channel) < ChannelCapacity(w)
    /\ job' = [job EXCEPT ![w].channel = Append(@, i), ![w].task[i] = "done"]
    /\ UNCHANGED <<shared, disk, data_of, unregistered, task_fails, save_fails>>

(* The receiver is gone: send returns an error.                            *)
TaskUnheard(w, i) ==
    /\ i \in Running(w)
    /\ ~Receiving(w)
    /\ job' = [job EXCEPT ![w].task[i] = "failed"]
    /\ UNCHANGED <<shared, disk, data_of, unregistered, task_fails, save_fails>>

(* prepare_segment returns an error or the task panics.                    *)
TaskFailsToPrepare(w, i) ==
    /\ i \in Running(w)
    /\ TaskFails
    /\ job' = [job EXCEPT ![w].task[i] = "failed"]
    /\ UNCHANGED <<shared, disk, data_of, unregistered, save_fails>>

(* The writer receives a chunk, in the order of the sends.                 *)
Receive(w) ==
    /\ At(w, "receive")
    /\ job[w].channel # <<>>
    /\ job' = [job EXCEPT ![w].ordered = @ \cup {Head(job[w].channel)},
                          ![w].channel = Tail(@), ![w].pc = "take"]
    /\ UNCHANGED <<shared, disk, data_of, unregistered, task_fails, save_fails>>

(* Mutant: the writer keeps its own sender.                                *)
SendersKept(w) == Running(w) \cup {0}

(* Who can still send: the writer has dropped its own sender.              *)
Senders(w) == Running(w)

(* All senders are gone and the channel is drained: recv returns None.     *)
ChannelClosed(w) ==
    /\ At(w, "receive")
    /\ job[w].channel = <<>>
    /\ Senders(w) = {}
    /\ Goto(w, "join")
    /\ UNCHANGED <<shared, disk, data_of, unregistered, task_fails, save_fails>>

-----------------------------------------------------------------------------
(* Mutant: chunks are taken as they arrive.                                *)
TurnAsArrived(w) == CHOOSE i \in job[w].ordered \cup {job[w].next} :
                        job[w].ordered # {} => i \in job[w].ordered

(* The chunk the inner loop takes next.                                    *)
Turn(w) == job[w].next

(* The next chunk has not arrived: back to recv.                           *)
AwaitTurn(w) ==
    /\ At(w, "take")
    /\ Turn(w) \notin job[w].ordered
    /\ Goto(w, "receive")
    /\ UNCHANGED <<shared, disk, data_of, unregistered, task_fails, save_fails>>

(* The loop body has a segment for the chunk.                              *)
Taken(j, id) == [j EXCEPT !.pc = "take", !.next = @ + 1, !.segs = Append(@, id), !.hit = 0]

StagedIndex(w, hash) ==
    {k \in DOMAIN job[w].pending : job[w].dedupe /\ job[w].pending[k].data = hash}

(* commit_segment of the chunk: a segment staged by this call, one of the  *)
(* content store, whose count is then raised, or a new one that is staged. *)
CommitSegment(w) ==
    /\ At(w, "take")
    /\ Turn(w) \in job[w].ordered
    /\ LET hash == Data(w)[Turn(w)]
           j == [job[w] EXCEPT !.ordered = @ \ {Turn(w)}] IN
       \/ \E k \in StagedIndex(w, hash) :
            /\ job' = [job EXCEPT ![w] =
                    Taken([j EXCEPT !.pending[k].ref_count = @ + 1], j.pending[k].id)]
            /\ UNCHANGED <<next_segment, disk>>
       \/ /\ StagedIndex(w, hash) = {}
          /\ j.dedupe /\ hash \in DOMAIN content_store
          /\ job' = [job EXCEPT ![w] = [j EXCEPT !.hit = content_store[hash],
                                                 !.pc = "increment"]]
          /\ UNCHANGED <<next_segment, disk>>
       \/ /\ StagedIndex(w, hash) = {}
          /\ ~(j.dedupe /\ hash \in DOMAIN content_store)
          /\ job' = [job EXCEPT ![w] =
                Taken([j EXCEPT !.pending = Append(@,
                          [id |-> next_segment, data |-> hash, ref_count |-> 1])],
                      next_segment)]
          /\ next_segment' = next_segment + 1
          /\ Stage(w, Len(j.pending))
    /\ UNCHANGED <<segment_map, content_store, capsules, data_of, unregistered, task_fails,
                   save_fails>>

(* increment_refcount of the segment that was found.                       *)
IncrementRefcount(w) ==
    /\ At(w, "increment")
    /\ job[w].hit \in DOMAIN segment_map
    /\ segment_map' = [segment_map EXCEPT ![job[w].hit].ref_count = @ + 1]
    /\ job' = [job EXCEPT ![w] =
                 Taken([job[w] EXCEPT !.increments = Append(@, job[w].hit)], job[w].hit)]
    /\ UNCHANGED <<content_store, capsules, next_segment, disk, data_of, unregistered, task_fails,
                   save_fails>>

(* It fails: the segment is gone, or the count cannot be saved and yet     *)
(* stays raised.  The loop ends and the receiver is dropped.               *)
IncrementFails(w) ==
    /\ At(w, "increment")
    /\ \/ /\ job[w].hit \notin DOMAIN segment_map
          /\ UNCHANGED <<segment_map, save_fails>>
       \/ /\ job[w].hit \in DOMAIN segment_map
          /\ SaveFails
          /\ segment_map' = [segment_map EXCEPT ![job[w].hit].ref_count = @ + 1]
    /\ job' = [job EXCEPT ![w].pc = "join", ![w].failed = TRUE]
    /\ UNCHANGED <<content_store, capsules, next_segment, disk, data_of, unregistered, task_fails>>

-----------------------------------------------------------------------------
(* What errors undo: persistent increments, last first; and, once the      *)
(* transaction is committed, registrations and segments.  Segments that    *)
(* are not registered (a policy without deduplication) are not undone.     *)
Decrements(w) ==
    LET n == Len(job[w].increments) IN
    [k \in 1 .. n |-> [op |-> "decrement", id |-> job[w].increments[n + 1 - k], hash |-> 0]]

Registrations(w) == IF job[w].dedupe THEN job[w].pending ELSE <<>>

Step(op, s) == [op |-> op, id |-> s.id, hash |-> s.data]

(* Mutant: increments are kept.                                            *)
AbortUndoNothing(w) == <<>>

(* An error up to and including the commit.                                *)
AbortUndo(w) == Decrements(w)

(* register_content fails: those before it are taken back, then segments.  *)
RegisterUndo(w) ==
    LET regs == Registrations(w) IN
    [k \in 1 .. job[w].registered |-> Step("deregister", regs[k])]
        \o [k \in DOMAIN regs |-> Step("remove", regs[k])] \o Decrements(w)

(* Mutant: a segment is removed while its hash is still registered.        *)
CreateUndoRemoves(w) ==
    LET regs == Registrations(w) IN
    [k \in 1 .. 2 * Len(regs) |-> IF k % 2 = 1 THEN Step("remove", regs[(k + 1) \div 2])
                                  ELSE Step("deregister", regs[k \div 2])] \o Decrements(w)

(* create_capsule_with_segments fails: segment by segment, the             *)
(* registration and then the segment are taken back.                       *)
CreateUndo(w) ==
    LET regs == Registrations(w) IN
    [k \in 1 .. 2 * Len(regs) |-> IF k % 2 = 1 THEN Step("deregister", regs[(k + 1) \div 2])
                                  ELSE Step("remove", regs[k \div 2])] \o Decrements(w)

StartUndo(w, steps) == job' = [job EXCEPT ![w].pc = "undo", ![w].undo = steps]

(* The error found after the join, in the loop or in a task.               *)
Failed(w) ==
    \/ job[w].failed
    \/ \E i \in DOMAIN job[w].task : job[w].task[i] = "failed"
    \/ job[w].next # Total(w) + 1

(* join_all returns when every task has ended; on an error the transaction *)
(* is rolled back.                                                         *)
JoinAll(w) ==
    /\ At(w, "join")
    /\ Running(w) = {}
    /\ IF Failed(w) THEN StartUndo(w, AbortUndo(w)) /\ RollBack(w)
                    ELSE Goto(w, "commit") /\ UNCHANGED disk
    /\ UNCHANGED <<shared, data_of, unregistered, task_fails, save_fails>>

Committed(w) ==
    LET p == job[w].pending IN
    [id \in DOMAIN segment_map \cup {p[k].id : k \in DOMAIN p} |->
        IF id \in DOMAIN segment_map THEN segment_map[id]
        ELSE LET k == CHOOSE k \in DOMAIN p : p[k].id = id
             IN  [data |-> p[k].data, ref_count |-> p[k].ref_count]]

(* transaction.commit *)
CommitTransaction(w) ==
    /\ At(w, "commit")
    /\ segment_map' = Committed(w)
    /\ AllWritten(w)
    /\ base' = Without(base, w)
    /\ Goto(w, "register")
    /\ UNCHANGED <<content_store, capsules, next_segment, data_of, unregistered, task_fails,
                   save_fails>>

(* commit fails: the data cannot all be written, or the map cannot be      *)
(* saved and yet keeps the segments; the transaction is then not finalized *)
(* before it is dropped.                                                   *)
CommitFails(w) ==
    /\ At(w, "commit")
    /\ job[w].pending # <<>>
    /\ \/ /\ TaskFails
          /\ \E n \in 0 .. Len(job[w].pending) : data_file' = Written(w, n)
          /\ next_offset' = base[w]
          /\ base' = Without(base, w)
          /\ UNCHANGED <<segment_map, place, overlapped, save_fails>>
       \/ /\ SaveFails
          /\ segment_map' = Committed(w)
          /\ AllWritten(w)
          /\ UNCHANGED <<base, task_fails>>
    /\ StartUndo(w, AbortUndo(w))
    /\ UNCHANGED <<content_store, capsules, next_segment, data_of, unregistered>>

(* register_content, one new segment after the other; its save may fail    *)
(* with the hash already in the store.                                     *)
RegisterContent(w) ==
    /\ At(w, "register")
    /\ job[w].registered < Len(Registrations(w))
    /\ LET s == Registrations(w)[job[w].registered + 1] IN
       content_store' = Put(content_store, s.data, s.id)
    /\ \/ job' = [job EXCEPT ![w].registered = @ + 1] /\ UNCHANGED <<unregistered, save_fails>>
       \/ SaveFails /\ StartUndo(w, RegisterUndo(w)) /\ unregistered' = TRUE
    /\ UNCHANGED <<segment_map, capsules, next_segment, disk, data_of, task_fails>>

AllRegistered(w) ==
    /\ At(w, "register")
    /\ job[w].registered = Len(Registrations(w))
    /\ Goto(w, "create")
    /\ UNCHANGED <<shared, disk, data_of, unregistered, task_fails, save_fails>>

(* create_capsule_with_segments; its save may fail with the capsule        *)
(* already in the map.                                                     *)
CreateCapsule(w) ==
    /\ At(w, "create")
    /\ capsules' = Put(capsules, job[w].cap, job[w].segs)
    /\ \/ Return(w) /\ UNCHANGED save_fails
       \/ SaveFails /\ StartUndo(w, CreateUndo(w))
    /\ UNCHANGED <<segment_map, content_store, next_segment, disk, data_of, unregistered, task_fails>>

(* One call of the undo changes the maps and saves them:                   *)
(* deregister_content (of this very segment), remove_segment or            *)
(* decrement_refcount.                                                     *)
Undo(s) ==
    /\ content_store' = IF s.op = "deregister" /\ <<s.hash, s.id>> \in Entries(content_store)
                        THEN Without(content_store, s.hash) ELSE content_store
    /\ segment_map' = CASE s.op = "remove" -> Without(segment_map, s.id)
                        [] s.op = "decrement" -> [segment_map EXCEPT ![s.id].ref_count = @ - 1]
                        [] OTHER -> segment_map

(* decrement_refcount finds no segment, or a count of zero.                *)
Refused(s) ==
    /\ s.op = "decrement"
    /\ s.id \in DOMAIN segment_map => segment_map[s.id].ref_count = 0

UndoStep(w) ==
    /\ At(w, "undo")
    /\ job[w].undo # <<>>
    /\ ~Refused(Head(job[w].undo))
    /\ Undo(Head(job[w].undo))
    /\ job' = [job EXCEPT ![w].undo = Tail(@)]
    /\ UNCHANGED <<capsules, next_segment, disk, data_of, unregistered, task_fails, save_fails>>

(* The undo itself fails, refused or in its save, which only a call that   *)
(* changed something makes; what is left of the undo is not done.          *)
UndoFails(w) ==
    /\ At(w, "undo")
    /\ job[w].undo # <<>>
    /\ LET s == Head(job[w].undo) IN
       \/ Refused(s) /\ UNCHANGED <<segment_map, content_store, save_fails>>
       \/ /\ ~Refused(s)
          /\ SaveFails
          /\ Undo(s)
          /\ <<segment_map, content_store>>' # <<segment_map, content_store>>
    /\ Return(w)
    /\ RollBack(w)
    /\ UNCHANGED <<capsules, next_segment, data_of, unregistered, task_fails>>

(* The call returns its error.                                             *)
UndoReturns(w) ==
    /\ At(w, "undo")
    /\ job[w].undo = <<>>
    /\ Return(w)
    /\ RollBack(w)
    /\ UNCHANGED <<shared, data_of, unregistered, task_fails, save_fails>>

-----------------------------------------------------------------------------
(* The steps of the writer that need no failure, and those of its tasks.   *)
WriterStep(w) ==
    \/ SpawnTask(w) \/ Receive(w) \/ ChannelClosed(w) \/ AwaitTurn(w)
    \/ CommitSegment(w) \/ IncrementRefcount(w) \/ IncrementFails(w) \/ JoinAll(w)
    \/ CommitTransaction(w) \/ RegisterContent(w) \/ AllRegistered(w) \/ CreateCapsule(w)
    \/ UndoStep(w) \/ UndoFails(w) \/ UndoReturns(w)

TaskStep(w, i) == TaskSends(w, i) \/ TaskUnheard(w, i)

(* All calls have returned and the bound on their number is reached.       *)
Done ==
    /\ Len(data_of) = MaxCapsules
    /\ \A w \in Writers : At(w, "idle")
    /\ UNCHANGED vars

Next ==
    \/ \E w \in Writers :
        \/ \E data \in Datas, dedupe \in BOOLEAN : WriteCapsuleAsync(w, data, dedupe)
        \/ WriterStep(w) \/ SpawnRefused(w) \/ CommitFails(w)
        \/ \E i \in 1 .. MaxChunks : TaskStep(w, i) \/ TaskFailsToPrepare(w, i)
    \/ Done

(* The runtime goes on polling a writer that is able to move, and of its   *)
(* tasks that are able to move at least one; each ends after its step.     *)
Fairness ==
    \A w \in Writers :
        /\ WF_vars(WriterStep(w))
        /\ WF_vars(\E i \in 1 .. MaxChunks : TaskStep(w, i))

Spec == Init /\ [][Next]_vars /\ Fairness

-----------------------------------------------------------------------------
(* Every variable has the type its field has in the code, and a call never *)
(* runs more tasks at a time than max_concurrency.                         *)
TypeOK ==
    /\ \A id \in DOMAIN segment_map :
            id < next_segment /\ segment_map[id] \in [data : Contents, ref_count : Nat]
    /\ \A h \in DOMAIN content_store : content_store[h] \in 1 .. (next_segment - 1)
    /\ DOMAIN capsules \subseteq 1 .. Len(data_of)
    /\ \A w \in Writers :
            /\ job[w].next \in 1 .. (MaxChunks + 1)
            /\ Cardinality(Running(w)) <= MaxConcurrency

NoSaveFailed == save_fails = MaxSaveFails
References(id) ==
    Cardinality(UNION {{<<c, i>> : i \in {k \in DOMAIN capsules[c] : capsules[c][k] = id}} :
                          c \in DOMAIN capsules})

(* The bytes of a segment are in the data file.                            *)
Readable(id) ==
    id \in DOMAIN place /\ <<place[id], segment_map[id].data>> \in Entries(data_file)

(* As long as no save has failed, a capsule lists exactly the chunks of    *)
(* its write in their order, whatever order its tasks finish in and        *)
(* whichever segments it shares with itself or with concurrent writes; and *)
(* as long as, besides, no transaction began while another was open, the   *)
(* bytes of these chunks are in the data file at the segments' offsets,    *)
(* through commits that fail and rollbacks.  (Each open transaction places *)
(* its chunks from its own base on, so a commit may overwrite another's.)  *)
InOrder ==
    NoSaveFailed =>
        \A c \in DOMAIN capsules :
            /\ Len(capsules[c]) = Len(data_of[c])
            /\ \A i \in DOMAIN capsules[c] :
                  /\ capsules[c][i] \in DOMAIN segment_map
                  /\ segment_map[capsules[c][i]].data = data_of[c][i]
                  /\ ~overlapped => Readable(capsules[c][i])

(* As long as no save has failed, a write that fails in a task, at the     *)
(* memory limit or in the commit leaves nothing: when all calls have       *)
(* returned every count is that of the capsules and no segment is unused.  *)
AbortLeavesNothing ==
    NoSaveFailed /\ (\A w \in Writers : At(w, "idle")) =>
        \A id \in DOMAIN segment_map :
            segment_map[id].ref_count = References(id) /\ References(id) > 0

(* Whatever fails but the save of a registration, a hash never names a     *)
(* segment that is not committed or holds other data, so that concurrent   *)
(* writes may share it: registration waits for the commit, and an undo     *)
(* takes the hash back before the segment.                                 *)
ContentStoreLive ==
    ~unregistered =>
        \A h \in DOMAIN content_store :
            content_store[h] \in DOMAIN segment_map /\ segment_map[content_store[h]].data = h

(* Every call returns, whatever fails (calls are finitely many, so again   *)
(* and again none is left): no writer waits for a permit that only a task  *)
(* it has not yet listened to could release, and no task for a writer that *)
(* no longer listens.                                                      *)
Returns == []<>(\A w \in Writers : At(w, "idle"))
=============================================================================

-------------------------- MODULE AsyncPipelineProofs --------------------------
(***************************************************************************)
(* Theorems about AsyncPipeline, for any number of writers, chunks and     *)
(* capsules: the content store names live segments only, capsules have     *)
(* their chunks in order, and a write that fails leaves nothing behind.    *)
(***************************************************************************)
EXTENDS AsyncPipeline, SetLemmas

-----------------------------------------------------------------------------
(* Types.                                                                  *)

PCs == {"idle", "spawn", "receive", "take", "increment", "join", "commit",
        "register", "create", "undo"}

Staged == [id : Nat, data : Contents, ref_count : Nat]
UndoSteps == [op : {"deregister", "remove", "decrement"}, id : Nat, hash : Contents \cup {0}]

JobRecord ==
    [pc : PCs, cap : Nat, dedupe : BOOLEAN, task : Seq({"running", "done", "failed"}),
     channel : Seq(Nat), ordered : SUBSET Nat, next : Nat \ {0}, hit : Nat,
     pending : Seq(Staged), increments : Seq(Nat), segs : Seq(Nat), registered : Nat,
     failed : BOOLEAN, undo : Seq(UndoSteps)]

SegmentMaps(m) == DOMAIN m \subseteq Nat /\ m \in [DOMAIN m -> [data : Contents, ref_count : Nat]]

Types ==
    /\ SegmentMaps(segment_map)
    /\ DOMAIN content_store \subseteq Contents /\ content_store \in [DOMAIN content_store -> Nat]
    /\ DOMAIN capsules \subseteq Nat \ {0} /\ capsules \in [DOMAIN capsules -> Seq(Nat)]
    /\ next_segment \in Nat \ {0}
    /\ job \in [Writers -> JobRecord]
    /\ data_of \in Seq(Datas)
    /\ unregistered \in BOOLEAN
    /\ task_fails \in Nat /\ save_fails \in 0 .. MaxSaveFails

-----------------------------------------------------------------------------
(* The invariant, in terms of the state j of one call and of the maps, m   *)
(* (segment_map), s (content_store), d (data_of), n (next_segment).        *)

(* Before its transaction is committed, a call is early.                   *)
EarlyPCs == {"idle", "spawn", "receive", "take", "increment", "join", "commit"}

(* A call knows its data, takes one chunk after the other, and hears only  *)
(* of chunks that exist.                                                   *)
TasksOK(j, d) ==
    /\ j.pc # "idle" => j.cap \in 1 .. Len(d)
    /\ Len(j.segs) + 1 = j.next
    /\ j.pc \in {"spawn", "receive", "take", "increment", "join"} =>
        /\ Len(j.task) <= Len(d[j.cap])
        /\ \A i \in DOMAIN j.channel : j.channel[i] \in 1 .. Len(d[j.cap])
        /\ j.ordered \subseteq 1 .. Len(d[j.cap])
    /\ j.pc = "spawn" => Len(j.task) < Len(d[j.cap])
    /\ j.pc \in {"idle", "spawn"} =>
        j.pending = << >> /\ j.increments = << >> /\ j.segs = << >>
    /\ j.pc = "increment" => j.next \in 1 .. Len(d[j.cap])
    /\ j.pc \in {"commit", "register", "create"} => j.next = Len(d[j.cap]) + 1
    /\ j.registered <= Len(j.pending)

PendingIds(j) == {j.pending[k].id : k \in DOMAIN j.pending}

(* The staged segments of a call have ids of their own, which are in the   *)
(* map, with their data, from the commit on until an undo removes them.    *)
PendingOK(j, m, n) ==
    /\ \A k \in DOMAIN j.pending : j.pending[k].id < n
    /\ \A k, l \in DOMAIN j.pending : j.pending[k].id = j.pending[l].id => k = l
    /\ j.pc \in EarlyPCs => PendingIds(j) \cap DOMAIN m = {}
    /\ \A k \in DOMAIN j.pending :
        j.pending[k].id \in DOMAIN m => m[j.pending[k].id].data = j.pending[k].data
    /\ j.pc \in {"register", "create"} => PendingIds(j) \subseteq DOMAIN m
    /\ j.pc = "undo" => \A k \in DOMAIN j.undo :
        j.undo[k].op = "remove" => j.undo[k].id \in PendingIds(j)

Owned ==
    /\ \A id \in DOMAIN segment_map : id < next_segment
    /\ \A w \in Writers : PendingOK(job[w], segment_map, next_segment)
    /\ \A v, w \in Writers : v # w => PendingIds(job[v]) \cap PendingIds(job[w]) = {}

(* A hash names a segment that is there and has this content.              *)
LiveStore(s, m) == \A h \in DOMAIN s : s[h] \in DOMAIN m /\ m[s[h]].data = h

Named(s) == {s[h] : h \in DOMAIN s}

(* What an undo is still to remove is no longer named, or the undo takes   *)
(* the name back before.                                                   *)
UndoOrdered(j, s) ==
    j.pc = "undo" => \A k \in DOMAIN j.undo : j.undo[k].op = "remove" =>
        \/ j.undo[k].id \notin Named(s)
        \/ \E l \in DOMAIN j.undo :
            /\ l < k /\ j.undo[l].op = "deregister" /\ j.undo[l].id = j.undo[k].id
            /\ \E p \in DOMAIN j.pending :
                j.pending[p].id = j.undo[k].id /\ j.pending[p].data = j.undo[l].hash

Live ==
    ~unregistered =>
        /\ LiveStore(content_store, segment_map)
        /\ \A w \in Writers : UndoOrdered(job[w], content_store)

(* The segment x has the content c: it is in the map, or staged.           *)
InMap(x, c, m) == x \in DOMAIN m /\ m[x].data = c
InPending(x, c, j) == \E k \in DOMAIN j.pending : j.pending[k].id = x /\ j.pending[k].data = c

(* The segments of a call are those of its chunks, in their order.         *)
ChunksOK(j, m, d) ==
    /\ j.pc # "undo" => \A i \in DOMAIN j.segs :
        InMap(j.segs[i], d[j.cap][i], m) \/ (j.pc \in EarlyPCs /\ InPending(j.segs[i], d[j.cap][i], j))
    /\ j.pc = "increment" => InMap(j.hit, d[j.cap][j.next], m)
    /\ j.pc = "undo" => \A k \in DOMAIN j.undo : j.undo[k].op = "decrement"

CapsuleOK(segs, data, m) ==
    Len(segs) = Len(data) /\ \A i \in DOMAIN segs : InMap(segs[i], data[i], m)

Ordered ==
    NoSaveFailed =>
        /\ ~unregistered
        /\ \A w \in Writers : ChunksOK(job[w], segment_map, data_of)
        /\ \A c \in DOMAIN capsules : c <= Len(data_of) /\ CapsuleOK(capsules[c], data_of[c], segment_map)

(* The segments a call holds a counted reference to.                       *)
HeldSeq(j) ==
    IF j.pc = "undo" THEN [k \in DOMAIN j.undo |-> j.undo[k].id]
    ELSE IF j.pc \in {"register", "create"} THEN j.segs ELSE j.increments

HeldAt(J, x) == UNION {Labelled(w, HeldSeq(J[w]), x) : w \in Writers}

(* The references of the capsules C to the segment x.                      *)
RefsAt(C, x) == UNION {Labelled(c, C[c], x) : c \in DOMAIN C}

(* Every segment a call has taken is staged, with a count of its own, or   *)
(* counted in the map.                                                     *)
TakenOK(j) ==
    /\ \A k \in DOMAIN j.pending :
        j.pending[k].ref_count = Times(j.segs, j.pending[k].id) /\ j.pending[k].ref_count > 0
    /\ \A x \in Nat : x \notin PendingIds(j) => Times(j.segs, x) = Times(j.increments, x)
    /\ \A i \in DOMAIN j.increments : j.increments[i] \notin PendingIds(j)

(* Counts are the references of the capsules and of the calls.             *)
SumOK(m, C, J) ==
    \A x \in DOMAIN m : m[x].ref_count = Cardinality(RefsAt(C, x)) + Cardinality(HeldAt(J, x))

(* Every call makes a capsule of its own.                                  *)
Fresh(C, J) ==
    /\ \A w \in Writers : J[w].pc # "idle" => J[w].cap \notin DOMAIN C
    /\ \A v, w \in Writers : J[v].pc # "idle" /\ J[w].pc # "idle" /\ v # w => J[v].cap # J[w].cap

(* Every segment is in a capsule, or a call is about to put it in one.     *)
Listed(C, x) == \E c \in DOMAIN C : \E i \in DOMAIN C[c] : C[c][i] = x
Promised(j, x) == j.pc \in {"register", "create"} /\ x \in PendingIds(j)

Counted ==
    NoSaveFailed =>
        /\ \A w \in Writers : TakenOK(job[w])
        /\ \A w \in Writers : \A i \in DOMAIN HeldSeq(job[w]) : HeldSeq(job[w])[i] \in DOMAIN segment_map
        /\ SumOK(segment_map, capsules, job)
        /\ Fresh(capsules, job)
        /\ \A x \in DOMAIN segment_map :
            Listed(capsules, x) \/ \E w \in Writers : Promised(job[w], x)

AllTasks == \A w \in Writers : TasksOK(job[w], data_of)

-----------------------------------------------------------------------------
(* Records of calls.                                                       *)

(* Two states of a call that differ in the tasks, the channel and the      *)
(* place of the call only.                                                 *)
SameCore(j, k) ==
    /\ k.cap = j.cap /\ k.dedupe = j.dedupe /\ k.next = j.next /\ k.hit = j.hit
    /\ k.pending = j.pending /\ k.increments = j.increments /\ k.segs = j.segs
    /\ k.registered = j.registered /\ k.undo = j.undo

SameTasks(j, k) == k.task = j.task /\ k.channel = j.channel /\ k.ordered = j.ordered

LEMMA JobFields ==
    ASSUME NEW j \in JobRecord
    PROVE  /\ j.pc \in PCs /\ j.cap \in Nat /\ j.dedupe \in BOOLEAN
           /\ j.task \in Seq({"running", "done", "failed"}) /\ j.channel \in Seq(Nat)
           /\ j.ordered \in SUBSET Nat /\ j.next \in Nat \ {0} /\ j.hit \in Nat
           /\ j.pending \in Seq(Staged) /\ j.increments \in Seq(Nat) /\ j.segs \in Seq(Nat)
           /\ j.registered \in Nat /\ j.failed \in BOOLEAN /\ j.undo \in Seq(UndoSteps)
BY DEF JobRecord

LEMMA SetPC ==
    ASSUME NEW j \in JobRecord, NEW p \in PCs
    PROVE  LET k == [j EXCEPT !.pc = p] IN
           k \in JobRecord /\ k.pc = p /\ SameCore(j, k) /\ SameTasks(j, k) /\ k.failed = j.failed
BY DEF JobRecord, SameCore, SameTasks

LEMMA SetTask ==
    ASSUME NEW j \in JobRecord, NEW t \in Seq({"running", "done", "failed"}), NEW p \in PCs
    PROVE  LET k == [j EXCEPT !.task = t, !.pc = p] IN
           /\ k \in JobRecord /\ k.pc = p /\ k.task = t /\ SameCore(j, k)
           /\ k.channel = j.channel /\ k.ordered = j.ordered
BY DEF JobRecord, SameCore, SameTasks

LEMMA SetTaskOnly ==
    ASSUME NEW j \in JobRecord, NEW t \in Seq({"running", "done", "failed"})
    PROVE  LET k == [j EXCEPT !.task = t] IN
           /\ k \in JobRecord /\ k.pc = j.pc /\ k.task = t /\ SameCore(j, k)
           /\ k.channel = j.channel /\ k.ordered = j.ordered
BY DEF JobRecord, SameCore, SameTasks

LEMMA SetSent ==
    ASSUME NEW j \in JobRecord, NEW t \in Seq({"running", "done", "failed"}), NEW ch \in Seq(Nat)
    PROVE  LET k == [j EXCEPT !.channel = ch, !.task = t] IN
           /\ k \in JobRecord /\ k.pc = j.pc /\ k.task = t /\ SameCore(j, k)
           /\ k.channel = ch /\ k.ordered = j.ordered
BY DEF JobRecord, SameCore, SameTasks

LEMMA SetReceived ==
    ASSUME NEW j \in JobRecord, NEW o \in SUBSET Nat, NEW ch \in Seq(Nat), NEW p \in PCs
    PROVE  LET k == [j EXCEPT !.ordered = o, !.channel = ch, !.pc = p] IN
           /\ k \in JobRecord /\ k.pc = p /\ k.task = j.task /\ SameCore(j, k)
           /\ k.channel = ch /\ k.ordered = o
BY DEF JobRecord, SameCore, SameTasks

LEMMA SetUndo ==
    ASSUME NEW j \in JobRecord, NEW u \in Seq(UndoSteps), NEW p \in PCs
    PROVE  LET k == [j EXCEPT !.pc = p, !.undo = u] IN
           /\ k \in JobRecord /\ k.pc = p /\ k.undo = u /\ SameTasks(j, k)
           /\ k.cap = j.cap /\ k.next = j.next /\ k.pending = j.pending /\ k.dedupe = j.dedupe
           /\ k.increments = j.increments /\ k.segs = j.segs /\ k.registered = j.registered
BY DEF JobRecord, SameTasks

LEMMA SetUndoOnly ==
    ASSUME NEW j \in JobRecord, NEW u \in Seq(UndoSteps)
    PROVE  LET k == [j EXCEPT !.undo = u] IN
           /\ k \in JobRecord /\ k.pc = j.pc /\ k.undo = u /\ SameTasks(j, k)
           /\ k.cap = j.cap /\ k.next = j.next /\ k.pending = j.pending /\ k.dedupe = j.dedupe
           /\ k.increments = j.increments /\ k.segs = j.segs /\ k.registered = j.registered
BY DEF JobRecord, SameTasks

-----------------------------------------------------------------------------
(* Steps of the tasks and of the writer that leave what it has taken as it *)
(* is and touch no map.                                                    *)

(* Where such a step may lead.                                             *)
MovesOn(p, q) ==
    \/ q = p
    \/ /\ p \in EarlyPCs \ {"idle"}
       /\ q \in EarlyPCs \ {"idle", "increment"}
       /\ q = "spawn" => p = "spawn"
       /\ p # "increment"
    \/ p = "register" /\ q = "create"

Shuffled(w, k) ==
    /\ job' = [job EXCEPT ![w] = k] /\ SameCore(job[w], k) /\ MovesOn(job[w].pc, k.pc)
    /\ UNCHANGED <<segment_map, content_store, capsules, next_segment, data_of, unregistered,
                   save_fails>>
    /\ task_fails' \in Nat

ShuffleActions(w) ==
    \/ SpawnTask(w) \/ Receive(w) \/ ChannelClosed(w) \/ AwaitTurn(w) \/ AllRegistered(w)
    \/ JoinAll(w) /\ ~Failed(w)
    \/ \E i \in 1 .. MaxChunks : TaskStep(w, i) \/ TaskFailsToPrepare(w, i)

(* The data of a call that runs.                                           *)
LEMMA DataType ==
    ASSUME Types, NEW c \in 1 .. Len(data_of)
    PROVE  data_of[c] \in Seq(Contents) /\ Len(data_of[c]) \in Nat /\ data_of[c] \in Datas
<1>1. data_of \in Seq(Datas)
    BY DEF Types
<1>2. data_of[c] \in Datas
    BY <1>1
<1>3. data_of[c] \in Seq(Contents)
    BY <1>2, AsyncAssumption
<1> QED  BY <1>2, <1>3

LEMMA JobType ==
    ASSUME Types, NEW w \in Writers
    PROVE  job[w] \in JobRecord /\ job = [job EXCEPT ![w] = job[w]]
BY DEF Types

(* Steps that leave the rest of the call alone keep TasksOK when the place *)
(* of the call allows it.                                                  *)
LEMMA TasksKept ==
    ASSUME NEW j, NEW k, NEW d, TasksOK(j, d), SameCore(j, k), j.pc # "idle", k.pc # "idle",
           MovesOn(j.pc, k.pc),
           k.pc \in {"spawn", "receive", "take", "increment", "join"} =>
                /\ Len(k.task) <= Len(d[j.cap])
                /\ \A i \in DOMAIN k.channel : k.channel[i] \in 1 .. Len(d[j.cap])
                /\ k.ordered \subseteq 1 .. Len(d[j.cap]),
           k.pc = "spawn" => Len(k.task) < Len(d[j.cap]),
           k.pc = "commit" => j.pc = "commit" \/ j.next = Len(d[j.cap]) + 1
    PROVE  TasksOK(k, d)
BY DEF TasksOK, SameCore, MovesOn, EarlyPCs

(* What such a step has shown when its parts are shown.                    *)
ShuffledTo(w, k) == k \in JobRecord /\ Shuffled(w, k) /\ TasksOK(k, data_of)

LEMMA SpawnTaskStep ==
    ASSUME Types, AllTasks, NEW w \in Writers, SpawnTask(w)
    PROVE  \E k : ShuffledTo(w, k)
<1> DEFINE j == job[w]
           t == Append(j.task, "running")
           p == IF Len(t) = Total(w) THEN "receive" ELSE "spawn"
           k == [j EXCEPT !.task = t, !.pc = p]
<1>1. j \in JobRecord /\ j.pc = "spawn" /\ TasksOK(j, data_of)
    BY JobType DEF AllTasks, SpawnTask, At
<1>2. j.task \in Seq({"running", "done", "failed"}) /\ j.cap \in 1 .. Len(data_of)
    BY <1>1 DEF JobRecord, TasksOK
<1>3. Len(data_of[j.cap]) \in Nat /\ Total(w) = Len(data_of[j.cap])
    BY <1>2, DataType DEF Total, Data
<1>4. t \in Seq({"running", "done", "failed"}) /\ Len(t) = Len(j.task) + 1 /\ Len(j.task) \in Nat
    BY <1>2
<1>5. p \in {"receive", "spawn"} /\ p \in PCs
    BY DEF PCs
<1>6. job' = [job EXCEPT ![w] = k]
    BY <1>1 DEF SpawnTask, Types, JobRecord
<1>7. Len(j.task) < Len(data_of[j.cap])
    BY <1>1 DEF TasksOK
<1>8. Len(t) <= Len(data_of[j.cap]) /\ (p = "spawn" => Len(t) < Len(data_of[j.cap]))
    BY <1>3, <1>4, <1>7
<1> HIDE DEF t, p
<1>9. k \in JobRecord /\ k.pc = p /\ k.task = t /\ SameCore(j, k) /\ k.channel = j.channel /\ k.ordered = j.ordered
  <2>1. p \in PCs /\ t \in Seq({"running", "done", "failed"}) /\ j \in JobRecord
    BY <1>1, <1>4, <1>5
  <2> HIDE DEF j
  <2> QED  BY <2>1 DEF JobRecord, SameCore
<1> HIDE DEF k
<1>10. MovesOn(j.pc, k.pc)
    BY <1>1, <1>5, <1>9 DEF MovesOn, EarlyPCs
<1>11. UNCHANGED <<segment_map, content_store, capsules, next_segment, data_of, unregistered, save_fails>>
            /\ task_fails' \in Nat
    BY DEF SpawnTask, shared, Types
<1>12. Shuffled(w, k)
    BY <1>6, <1>9, <1>10, <1>11 DEF Shuffled
<1>13. /\ \A i \in DOMAIN j.channel : j.channel[i] \in 1 .. Len(data_of[j.cap])
       /\ j.ordered \subseteq 1 .. Len(data_of[j.cap])
    BY <1>1 DEF TasksOK
<1> HIDE DEF j
<1>14. TasksOK(k, data_of)
    BY <1>1, <1>5, <1>8, <1>9, <1>10, <1>13, TasksKept
<1> QED  BY <1>9, <1>12, <1>14 DEF ShuffledTo

(* A step that only changes the place of the call.                         *)
LEMMA PlaceStep ==
    ASSUME Types, AllTasks, NEW w \in Writers, NEW p \in PCs \ {"idle", "spawn", "increment"},
           job' = [job EXCEPT ![w].pc = p], job[w].pc \notin {"idle", "increment"},
           MovesOn(job[w].pc, p),
           p = "commit" => job[w].next = Len(data_of[job[w].cap]) + 1,
           p \in {"receive", "take", "join"} => job[w].pc \in {"receive", "take", "join"},
           UNCHANGED <<segment_map, content_store, capsules, next_segment, data_of, unregistered,
                       task_fails, save_fails>>
    PROVE  \E k : ShuffledTo(w, k)
<1> DEFINE j == job[w]
           k == [j EXCEPT !.pc = p]
<1>1. j \in JobRecord /\ TasksOK(j, data_of)
    BY JobType DEF AllTasks
<1>2. job' = [job EXCEPT ![w] = k]
    BY <1>1 DEF Types, JobRecord
<1>3. k \in JobRecord /\ k.pc = p /\ SameCore(j, k) /\ SameTasks(j, k)
    BY <1>1, SetPC
<1> HIDE DEF k
<1>4. task_fails' \in Nat
    BY DEF Types
<1>5. Shuffled(w, k)
    BY <1>2, <1>3, <1>4 DEF Shuffled
<1>6. TasksOK(k, data_of)
    BY <1>1, <1>3 DEF SameTasks, TasksOK, SameCore, MovesOn, EarlyPCs
<1> QED  BY <1>3, <1>5, <1>6 DEF ShuffledTo

LEMMA ReceiveStep ==
    ASSUME Types, AllTasks, NEW w \in Writers, Receive(w)
    PROVE  \E k : ShuffledTo(w, k)
<1> DEFINE j == job[w]
           o == j.ordered \cup {Head(j.channel)}
           ch == Tail(j.channel)
           k == [j EXCEPT !.ordered = o, !.channel = ch, !.pc = "take"]
           N == Len(data_of[j.cap])
<1>1. j \in JobRecord /\ j.pc = "receive" /\ TasksOK(j, data_of) /\ j.channel # << >>
    BY JobType DEF AllTasks, Receive, At
<1>2. j.channel \in Seq(Nat) /\ j.ordered \in SUBSET Nat
    BY <1>1 DEF JobRecord
<1>3. /\ \A i \in DOMAIN j.channel : j.channel[i] \in 1 .. N
      /\ j.ordered \subseteq 1 .. N /\ Len(j.task) <= N
    BY <1>1 DEF TasksOK
<1>4. Head(j.channel) = j.channel[1] /\ 1 \in DOMAIN j.channel /\ Head(j.channel) \in Nat /\ ch \in Seq(Nat)
      /\ Len(ch) = Len(j.channel) - 1 /\ \A i \in 1 .. Len(ch) : ch[i] = j.channel[i + 1]
    BY <1>1, <1>2
<1>5. \A i \in DOMAIN ch : i + 1 \in DOMAIN j.channel /\ ch[i] = j.channel[i + 1]
    BY <1>2, <1>4
<1>6. (\A i \in DOMAIN ch : ch[i] \in 1 .. N) /\ o \subseteq 1 .. N /\ o \in SUBSET Nat
    BY <1>2, <1>3, <1>4, <1>5
<1>7. job' = [job EXCEPT ![w] = k]
    BY <1>1 DEF Receive, Types, JobRecord
<1>8. ch \in Seq(Nat) /\ o \in SUBSET Nat /\ "take" \in PCs
    BY <1>4, <1>6 DEF PCs
<1> HIDE DEF o, ch
<1>9. k \in JobRecord /\ k.pc = "take" /\ k.task = j.task /\ SameCore(j, k) /\ k.channel = ch /\ k.ordered = o
    BY <1>1, <1>8 DEF JobRecord, SameCore
<1> HIDE DEF k
<1>10. MovesOn(j.pc, k.pc)
    BY <1>1, <1>9 DEF MovesOn, EarlyPCs
<1>11. UNCHANGED <<segment_map, content_store, capsules, next_segment, data_of, unregistered, save_fails>>
            /\ task_fails' \in Nat
    BY DEF Receive, shared, Types
<1>12. Shuffled(w, k)
    BY <1>7, <1>9, <1>10, <1>11 DEF Shuffled
<1> HIDE DEF j
<1>13. TasksOK(k, data_of)
    BY <1>1, <1>3, <1>6, <1>9, <1>10, TasksKept
<1> QED  BY <1>9, <1>12, <1>13 DEF ShuffledTo

(* A task ends.                                                            *)
LEMMA TaskEnds ==
    ASSUME Types, AllTasks, NEW w \in Writers, NEW i \in Running(w), NEW x \in {"done", "failed"},
           NEW ch \in Seq(Nat), job' = [job EXCEPT ![w].channel = ch, ![w].task[i] = x],
           \A l \in DOMAIN ch : ch[l] \in 1 .. Len(data_of[job[w].cap])
                \/ (l \in DOMAIN job[w].channel /\ ch[l] = job[w].channel[l]),
           UNCHANGED <<segment_map, content_store, capsules, next_segment, data_of, unregistered,
                       save_fails>>, task_fails' \in Nat
    PROVE  \E k : ShuffledTo(w, k)
<1> DEFINE j == job[w]
           t == [j.task EXCEPT ![i] = x]
           k == [j EXCEPT !.channel = ch, !.task = t]
           N == Len(data_of[j.cap])
<1>1. j \in JobRecord /\ TasksOK(j, data_of)
    BY JobType DEF AllTasks
<1>2. j.task \in Seq({"running", "done", "failed"}) /\ i \in DOMAIN j.task
    BY <1>1 DEF JobRecord, Running
<1>3. t \in Seq({"running", "done", "failed"}) /\ Len(t) = Len(j.task)
    BY <1>2
<1>4. job' = [job EXCEPT ![w] = k]
    BY <1>1 DEF Types, JobRecord
<1> HIDE DEF t
<1>5. k \in JobRecord /\ k.pc = j.pc /\ k.task = t /\ SameCore(j, k) /\ k.channel = ch /\ k.ordered = j.ordered
    BY <1>1, <1>3 DEF JobRecord, SameCore
<1> HIDE DEF k
<1>6. MovesOn(j.pc, k.pc)
    BY <1>5 DEF MovesOn
<1>7. Shuffled(w, k)
    BY <1>4, <1>5, <1>6 DEF Shuffled
<1>8. TasksOK(k, data_of)
    BY <1>1, <1>3, <1>5 DEF TasksOK, SameCore
<1> QED  BY <1>5, <1>7, <1>8 DEF ShuffledTo

LEMMA TaskActions ==
    ASSUME Types, AllTasks, NEW w \in Writers, NEW i \in 1 .. MaxChunks,
           TaskStep(w, i) \/ TaskFailsToPrepare(w, i)
    PROVE  \E k : ShuffledTo(w, k)
<1> DEFINE j == job[w]
<1>1. j \in JobRecord /\ TasksOK(j, data_of) /\ i \in Running(w)
    BY JobType DEF AllTasks, TaskStep, TaskSends, TaskUnheard, TaskFailsToPrepare
<1>2. j.channel \in Seq(Nat) /\ j.task \in Seq({"running", "done", "failed"}) /\ i \in DOMAIN j.task
    BY <1>1 DEF JobRecord, Running
<1>3. UNCHANGED <<segment_map, content_store, capsules, next_segment, data_of, unregistered, save_fails>>
    BY DEF TaskStep, TaskSends, TaskUnheard, TaskFailsToPrepare, shared
<1>4. task_fails' \in Nat
    BY DEF TaskStep, TaskSends, TaskUnheard, TaskFailsToPrepare, Types, TaskFails
<1>5. CASE TaskSends(w, i)
  <2> DEFINE ch == Append(j.channel, i)
  <2>1. ch \in Seq(Nat) /\ Len(ch) = Len(j.channel) + 1 /\ ch[Len(j.channel) + 1] = i
        /\ \A l \in 1 .. Len(j.channel) : ch[l] = j.channel[l]
    BY <1>2
  <2>2. j.pc \in {"spawn", "receive", "take", "increment"}
    BY <1>5 DEF TaskSends, Receiving
  <2>3. Len(j.task) <= Len(data_of[j.cap]) /\ j.cap \in 1 .. Len(data_of)
    BY <1>1, <2>2 DEF TasksOK
  <2>4. Len(data_of[j.cap]) \in Nat
    BY <2>3, DataType
  <2>5. i \in 1 .. Len(data_of[j.cap])
    BY <1>2, <2>3, <2>4
  <2>6. \A l \in DOMAIN ch : ch[l] \in 1 .. Len(data_of[j.cap]) \/ (l \in DOMAIN j.channel /\ ch[l] = j.channel[l])
    <3>1. DOMAIN ch = 1 .. Len(j.channel) + 1 /\ DOMAIN j.channel = 1 .. Len(j.channel) /\ Len(j.channel) \in Nat
        BY <1>2, <2>1
    <3> HIDE DEF ch, j
    <3> TAKE l \in DOMAIN ch
    <3>2. CASE l \in 1 .. Len(j.channel)
        BY <3>1, <3>2, <2>1
    <3>3. CASE l = Len(j.channel) + 1
      <4>1. ch[l] = i
        BY <3>3, <2>1
      <4> QED  BY <4>1, <2>5
    <3> QED  BY <3>1, <3>2, <3>3
  <2>7. job' = [job EXCEPT ![w].channel = ch, ![w].task[i] = "done"]
    BY <1>5, <1>1 DEF TaskSends, Types, JobRecord
  <2> HIDE DEF ch, j
  <2> QED  BY <1>1, <1>3, <1>4, <2>1, <2>6, <2>7, TaskEnds DEF j
<1>6. CASE TaskUnheard(w, i) \/ TaskFailsToPrepare(w, i)
  <2>1. job' = [job EXCEPT ![w].task[i] = "failed"]
    BY <1>6 DEF TaskUnheard, TaskFailsToPrepare
  <2>2. job' = [job EXCEPT ![w].channel = job[w].channel, ![w].task[i] = "failed"]
    BY <1>1, <2>1 DEF Types, JobRecord
  <2> QED  BY <1>1, <1>2, <1>3, <1>4, <2>2, TaskEnds
<1> QED  BY <1>5, <1>6 DEF TaskStep

LEMMA ShuffleStep ==
    ASSUME Types, AllTasks, NEW w \in Writers, ShuffleActions(w)
    PROVE  \E k : ShuffledTo(w, k)
<1> USE DEF shared
<1>1. CASE SpawnTask(w)
    BY <1>1, SpawnTaskStep
<1>2. CASE Receive(w)
    BY <1>2, ReceiveStep
<1>3. CASE ChannelClosed(w)
  <2>1. MovesOn(job[w].pc, "join") /\ job[w].pc = "receive" /\ "join" \in PCs
    BY <1>3 DEF ChannelClosed, At, MovesOn, EarlyPCs, PCs
  <2> QED  BY <1>3, <2>1, PlaceStep DEF ChannelClosed, Goto
<1>4. CASE AwaitTurn(w)
  <2>1. MovesOn(job[w].pc, "receive") /\ job[w].pc = "take" /\ "receive" \in PCs
    BY <1>4 DEF AwaitTurn, At, MovesOn, EarlyPCs, PCs
  <2> QED  BY <1>4, <2>1, PlaceStep DEF AwaitTurn, Goto
<1>5. CASE AllRegistered(w)
  <2>1. MovesOn(job[w].pc, "create") /\ job[w].pc = "register" /\ "create" \in PCs
    BY <1>5 DEF AllRegistered, At, MovesOn, EarlyPCs, PCs
  <2> QED  BY <1>5, <2>1, PlaceStep DEF AllRegistered, Goto
<1>6. CASE JoinAll(w) /\ ~Failed(w)
  <2>1. MovesOn(job[w].pc, "commit") /\ job[w].pc = "join" /\ "commit" \in PCs
    BY <1>6 DEF JoinAll, At, MovesOn, EarlyPCs, PCs
  <2>2. job[w].next = Len(data_of[job[w].cap]) + 1
    BY <1>6 DEF Failed, Total, Data
  <2> QED  BY <1>6, <2>1, <2>2, PlaceStep DEF JoinAll, Goto
<1>7. CASE \E i \in 1 .. MaxChunks : TaskStep(w, i) \/ TaskFailsToPrepare(w, i)
    BY <1>7, TaskActions
<1> QED  BY <1>1, <1>2, <1>3, <1>4, <1>5, <1>6, <1>7 DEF ShuffleActions

-----------------------------------------------------------------------------
(* What the other steps make of the call of a writer.                      *)

Becomes(w, k) == k \in JobRecord /\ job' = [job EXCEPT ![w] = k] /\ TasksOK(k, data_of')

SameCall(j, k) ==
    /\ k.cap = j.cap /\ k.dedupe = j.dedupe /\ k.next = j.next /\ k.pending = j.pending
    /\ k.increments = j.increments /\ k.segs = j.segs /\ k.registered = j.registered

Undoes(w, k, u) == Becomes(w, k) /\ k.pc = "undo" /\ k.undo = u /\ SameCall(job[w], k)

LEMMA StartsUndo ==
    ASSUME Types, AllTasks, NEW w \in Writers, NEW u \in Seq(UndoSteps), StartUndo(w, u),
           job[w].pc # "idle", data_of' = data_of
    PROVE  \E k : Undoes(w, k, u)
<1> DEFINE j == job[w]
           k == [j EXCEPT !.pc = "undo", !.undo = u]
<1>1. j \in JobRecord /\ TasksOK(j, data_of)
    BY JobType DEF AllTasks
<1>2. job' = [job EXCEPT ![w] = k]
    BY <1>1 DEF Types, JobRecord, StartUndo
<1>3. k \in JobRecord /\ k.pc = "undo" /\ k.undo = u /\ SameCall(j, k)
    BY <1>1 DEF JobRecord, SameCall, PCs
<1> HIDE DEF k
<1>4. TasksOK(k, data_of)
    BY <1>1, <1>3 DEF SameCall, TasksOK
<1> QED  BY <1>2, <1>3, <1>4 DEF Undoes, Becomes

LEMMA UndoesMore ==
    ASSUME Types, AllTasks, NEW w \in Writers, NEW u \in Seq(UndoSteps), job' = [job EXCEPT ![w].undo = u],
           job[w].pc = "undo", data_of' = data_of
    PROVE  \E k : Undoes(w, k, u)
<1> DEFINE j == job[w]
           k == [j EXCEPT !.undo = u]
<1>1. j \in JobRecord /\ TasksOK(j, data_of)
    BY JobType DEF AllTasks
<1>2. job' = [job EXCEPT ![w] = k]
    BY <1>1 DEF Types, JobRecord
<1>3. k \in JobRecord /\ k.pc = "undo" /\ k.undo = u /\ SameCall(j, k)
    BY <1>1 DEF JobRecord, SameCall, PCs
<1> HIDE DEF k
<1>4. TasksOK(k, data_of)
    BY <1>1, <1>3 DEF SameCall, TasksOK
<1> QED  BY <1>2, <1>3, <1>4 DEF Undoes, Becomes

LEMMA IdleType ==
    IdleJob \in JobRecord /\ (\A d : TasksOK(IdleJob, d)) /\ IdleJob.pc = "idle"
        /\ IdleJob.pending = << >> /\ IdleJob.segs = << >> /\ IdleJob.increments = << >>
<1>1. << >> \in Seq({"running", "done", "failed"}) /\ << >> \in Seq(Nat) /\ << >> \in Seq(Staged)
        /\ << >> \in Seq(UndoSteps)
    OBVIOUS
<1>2. IdleJob \in JobRecord
    BY <1>1 DEF IdleJob, JobRecord, PCs
<1>3. IdleJob.pc = "idle" /\ IdleJob.pending = << >> /\ IdleJob.segs = << >> /\ IdleJob.increments = << >>
        /\ IdleJob.next = 1 /\ IdleJob.registered = 0
    BY DEF IdleJob
<1>4. Len(<< >>) = 0
    OBVIOUS
<1> HIDE DEF IdleJob
<1>5. \A d : TasksOK(IdleJob, d)
    BY <1>3, <1>4 DEF TasksOK
<1> QED  BY <1>2, <1>3, <1>5

(* A new call.                                                             *)
Begins(w, k) ==
    /\ Becomes(w, k) /\ k.pc \in {"create", "spawn"} /\ k.cap = Len(data_of) + 1
    /\ k.pending = << >> /\ k.segs = << >> /\ k.increments = << >>

LEMMA WriteBegins ==
    ASSUME Types, AllTasks, NEW w \in Writers, NEW data \in Datas, NEW dedupe \in BOOLEAN,
           WriteCapsuleAsync(w, data, dedupe)
    PROVE  \E k : Begins(w, k)
<1> DEFINE p == IF data = << >> THEN "create" ELSE "spawn"
           c == Len(data_of) + 1
           k == [IdleJob EXCEPT !.cap = c, !.dedupe = dedupe, !.pc = p]
           d == Append(data_of, data)
<1>1. job' = [job EXCEPT ![w] = k] /\ data_of' = d
    BY DEF WriteCapsuleAsync
<1>2. data_of \in Seq(Datas) /\ data \in Seq(Contents)
    BY AsyncAssumption DEF Types
<1>3. c \in Nat /\ Len(d) = c /\ d[c] = data /\ c \in 1 .. Len(d)
    BY <1>2
<1>4. p \in {"create", "spawn"} /\ p \in PCs /\ (p = "create" => Len(data) = 0)
    BY DEF PCs
<1>5. p = "spawn" => Len(data) \in Nat /\ 0 < Len(data)
    BY <1>2
<1> HIDE DEF p, c, d
<1>6. k \in JobRecord
    BY <1>3, <1>4, IdleType DEF JobRecord
<1>7. k.pc = p /\ k.cap = c /\ k.pending = << >> /\ k.segs = << >> /\ k.increments = << >>
        /\ k.next = 1 /\ k.registered = 0 /\ k.task = << >> /\ k.channel = << >> /\ k.ordered = {}
    BY DEF IdleJob
<1> HIDE DEF k
<1>8. Len(<< >>) = 0 /\ DOMAIN << >> = {}
    OBVIOUS
<1>9. Len(data) \in Nat /\ d[k.cap] = data
    BY <1>2, <1>3, <1>7
<1>10. TasksOK(k, d)
    BY <1>3, <1>4, <1>5, <1>7, <1>8, <1>9 DEF TasksOK
<1> QED  BY <1>1, <1>4, <1>6, <1>7, <1>10 DEF Begins, Becomes, c

(* The call k has taken the segment x for the next chunk of the call j.    *)
TakesSegment(j, k, x) ==
    /\ k.pc = "take" /\ k.next = j.next + 1 /\ k.segs = Append(j.segs, x)
    /\ k.cap = j.cap /\ k.dedupe = j.dedupe /\ k.registered = j.registered /\ k.undo = j.undo
    /\ k.task = j.task /\ k.channel = j.channel /\ k.ordered \subseteq j.ordered

LEMMA TakenFields ==
    ASSUME NEW j \in JobRecord, NEW x \in Nat
    PROVE  /\ Taken(j, x) \in JobRecord /\ TakesSegment(j, Taken(j, x), x)
           /\ Taken(j, x).pending = j.pending /\ Taken(j, x).increments = j.increments
<1> DEFINE k == Taken(j, x)
<1>1. j.segs \in Seq(Nat) /\ j.next \in Nat
    BY DEF JobRecord
<1>2. Append(j.segs, x) \in Seq(Nat) /\ j.next + 1 \in Nat \ {0}
    BY <1>1
<1>3. k \in JobRecord
    BY <1>2 DEF JobRecord, Taken, PCs
<1>4. TakesSegment(j, k, x) /\ k.pending = j.pending /\ k.increments = j.increments
    BY DEF TakesSegment, Taken, JobRecord
<1> QED  BY <1>3, <1>4

(* The chunk at hand is one of the data.                                   *)
LEMMA TakesOK ==
    ASSUME NEW j \in JobRecord, NEW k \in JobRecord, NEW x, NEW d, TasksOK(j, d),
           TakesSegment(j, k, x), j.pc \in {"take", "increment"}, Len(k.pending) >= Len(j.pending),
           Len(j.segs) \in Nat, Len(Append(j.segs, x)) = Len(j.segs) + 1
    PROVE  TasksOK(k, d)
<1>1. j.next \in Nat /\ j.registered \in Nat /\ j.pending \in Seq(Staged) /\ k.pending \in Seq(Staged)
    BY DEF JobRecord
<1>2. Len(j.pending) \in Nat /\ Len(k.pending) \in Nat
    BY <1>1
<1>3. Len(k.segs) + 1 = k.next
    BY <1>1 DEF TasksOK, TakesSegment
<1>4. k.registered <= Len(k.pending)
    BY <1>1, <1>2 DEF TasksOK, TakesSegment
<1>5. /\ k.cap \in 1 .. Len(d) /\ Len(k.task) <= Len(d[k.cap])
      /\ \A i \in DOMAIN k.channel : k.channel[i] \in 1 .. Len(d[k.cap])
      /\ k.ordered \subseteq 1 .. Len(d[k.cap])
    BY DEF TasksOK, TakesSegment
<1>6. k.pc = "take"
    BY DEF TakesSegment
<1> QED  BY <1>3, <1>4, <1>5, <1>6 DEF TasksOK

(* The three outcomes of commit_segment.                                   *)
Restages(w, k, i) ==
    /\ Becomes(w, k) /\ i \in StagedIndex(w, Data(w)[job[w].next])
    /\ TakesSegment(job[w], k, job[w].pending[i].id)
    /\ k.pending = [job[w].pending EXCEPT ![i].ref_count = @ + 1]
    /\ k.increments = job[w].increments
    /\ next_segment' = next_segment

Finds(w, k) ==
    LET hash == Data(w)[job[w].next] IN
    /\ Becomes(w, k) /\ hash \in DOMAIN content_store
    /\ k.pc = "increment" /\ k.hit = content_store[hash] /\ SameCall(job[w], k)
    /\ next_segment' = next_segment

Stages(w, k) ==
    LET hash == Data(w)[job[w].next] IN
    /\ Becomes(w, k) /\ TakesSegment(job[w], k, next_segment)
    /\ k.pending = Append(job[w].pending, [id |-> next_segment, data |-> hash, ref_count |-> 1])
    /\ k.increments = job[w].increments
    /\ next_segment' = next_segment + 1

LEMMA CommitSegmentStep ==
    ASSUME Types, AllTasks, NEW w \in Writers, CommitSegment(w)
    PROVE  /\ job[w].pc = "take" /\ Data(w)[job[w].next] \in Contents
           /\ \E k : (\E i : Restages(w, k, i)) \/ Finds(w, k) \/ Stages(w, k)
<1> DEFINE j == job[w]
           hash == Data(w)[j.next]
           o == j.ordered \ {j.next}
           jo == [j EXCEPT !.ordered = o]
<1>1. j \in JobRecord /\ TasksOK(j, data_of) /\ j.pc = "take" /\ j.next \in j.ordered
    BY JobType DEF AllTasks, CommitSegment, At, Turn
<1>2. j.cap \in 1 .. Len(data_of) /\ j.ordered \subseteq 1 .. Len(data_of[j.cap])
    BY <1>1 DEF TasksOK
<1>3. data_of[j.cap] \in Seq(Contents)
    BY <1>2, DataType
<1>4. j.next \in 1 .. Len(data_of[j.cap])
    BY <1>1, <1>2
<1>5. hash \in Contents
    BY <1>3, <1>4 DEF Data
<1>6. jo \in JobRecord /\ jo.pending = j.pending /\ jo.increments = j.increments /\ jo.dedupe = j.dedupe
    BY <1>1 DEF JobRecord
<1>7. \A k, x : TakesSegment(jo, k, x) => TakesSegment(j, k, x)
    BY <1>1 DEF TakesSegment, JobRecord
<1>8. j.segs \in Seq(Nat) /\ j.pending \in Seq(Staged) /\ data_of' = data_of /\ next_segment \in Nat
    BY <1>1 DEF JobRecord, CommitSegment, Types
<1>9. Len(j.segs) \in Nat /\ \A x \in Nat : Len(Append(j.segs, x)) = Len(j.segs) + 1
    BY <1>8
<1>a. jo.hit = j.hit /\ jo.undo = j.undo /\ jo.segs = j.segs /\ jo.next = j.next /\ jo.cap = j.cap /\ jo.registered = j.registered
    BY <1>1 DEF JobRecord
<1>10. ASSUME NEW i \in StagedIndex(w, hash),
              job' = [job EXCEPT ![w] = Taken([jo EXCEPT !.pending[i].ref_count = @ + 1], jo.pending[i].id)],
              next_segment' = next_segment
       PROVE  \E k : Restages(w, k, i)
  <2> DEFINE P == [j.pending EXCEPT ![i].ref_count = @ + 1]
             jp == [jo EXCEPT !.pending = P]
             x == j.pending[i].id
             k == Taken(jp, x)
  <2>1. i \in DOMAIN j.pending
    BY DEF StagedIndex
  <2>2. j.pending[i] \in Staged /\ j.pending[i].ref_count \in Nat /\ x \in Nat
    <3>1. j.pending[i] \in Staged
        BY <1>8, <2>1
    <3> QED  BY <3>1 DEF Staged
  <2>3. [j.pending[i] EXCEPT !.ref_count = @ + 1] \in Staged
    BY <2>2 DEF Staged
  <2>4. P \in Seq(Staged) /\ Len(P) = Len(j.pending)
    BY <1>8, <2>1, <2>3
  <2>5. [jo EXCEPT !.pending[i].ref_count = @ + 1] = jp
    BY <1>6
  <2>6. job' = [job EXCEPT ![w] = k]
    BY <1>10, <1>6, <2>5
  <2> HIDE DEF P, jo
  <2>7. jp \in JobRecord /\ jp.pending = P /\ jp.increments = j.increments /\ \A kk : TakesSegment(jp, kk, x) => TakesSegment(jo, kk, x)
    BY <1>6, <2>4 DEF JobRecord, TakesSegment
  <2> HIDE DEF jp, x
  <2>8. k \in JobRecord /\ TakesSegment(j, k, x) /\ k.pending = P /\ k.increments = j.increments
    BY <1>7, <2>2, <2>7, TakenFields
  <2> HIDE DEF k
  <2>9. Len(k.pending) >= Len(j.pending)
    BY <1>8, <2>4, <2>8
  <2>10. TasksOK(k, data_of)
    BY <1>1, <1>9, <2>2, <2>8, <2>9, TakesOK
  <2>11. Becomes(w, k)
    BY <1>8, <2>6, <2>8, <2>10 DEF Becomes
  <2> QED  BY <1>10, <2>8, <2>11 DEF Restages, P, x
<1>11. ASSUME hash \in DOMAIN content_store, next_segment' = next_segment,
              job' = [job EXCEPT ![w] = [jo EXCEPT !.hit = content_store[hash], !.pc = "increment"]]
       PROVE  \E k : Finds(w, k)
  <2> DEFINE k == [jo EXCEPT !.hit = content_store[hash], !.pc = "increment"]
  <2>1. content_store[hash] \in Nat
    BY <1>11 DEF Types
  <2> HIDE DEF jo, hash
  <2>2. k \in JobRecord /\ k.pc = "increment" /\ k.hit = content_store[hash] /\ SameCall(jo, k)
        /\ k.task = jo.task /\ k.channel = jo.channel /\ k.ordered = jo.ordered
    BY <1>6, <2>1 DEF JobRecord, PCs, SameCall
  <2>3. job' = [job EXCEPT ![w] = k]
    BY <1>11
  <2> HIDE DEF k
  <2>4. jo.ordered \subseteq j.ordered /\ jo.task = j.task /\ jo.channel = j.channel
    BY <1>1 DEF JobRecord, jo
  <2>5. SameCall(j, k)
    BY <1>6, <1>a, <2>2 DEF SameCall
  <2> HIDE DEF j
  <2>6. TasksOK(k, data_of)
    BY <1>1, <1>4, <2>2, <2>4, <2>5 DEF TasksOK, SameCall
  <2> QED  BY <1>8, <1>11, <2>2, <2>3, <2>5, <2>6 DEF Finds, Becomes, j, hash
<1>12. ASSUME next_segment' = next_segment + 1,
              job' = [job EXCEPT ![w] = Taken([jo EXCEPT !.pending = Append(@,
                          [id |-> next_segment, data |-> hash, ref_count |-> 1])], next_segment)]
       PROVE  \E k : Stages(w, k)
  <2> DEFINE P == Append(j.pending, [id |-> next_segment, data |-> hash, ref_count |-> 1])
             jp == [jo EXCEPT !.pending = P]
             k == Taken(jp, next_segment)
  <2>1. [id |-> next_segment, data |-> hash, ref_count |-> 1] \in Staged
    BY <1>5, <1>8 DEF Staged
  <2>2. P \in Seq(Staged) /\ Len(P) = Len(j.pending) + 1
    BY <1>8, <2>1
  <2>3. job' = [job EXCEPT ![w] = k]
    BY <1>12, <1>6
  <2> HIDE DEF P, jo
  <2>4. jp \in JobRecord /\ jp.pending = P /\ jp.increments = j.increments /\ \A kk, x : TakesSegment(jp, kk, x) => TakesSegment(jo, kk, x)
    BY <1>6, <2>2 DEF JobRecord, TakesSegment
  <2> HIDE DEF jp
  <2>5. k \in JobRecord /\ TakesSegment(j, k, next_segment) /\ k.pending = P /\ k.increments = j.increments
    BY <1>7, <1>8, <2>4, TakenFields
  <2> HIDE DEF k
  <2>6. Len(k.pending) >= Len(j.pending)
    BY <1>8, <2>2, <2>5
  <2>7. TasksOK(k, data_of)
    BY <1>1, <1>8, <1>9, <2>5, <2>6, TakesOK
  <2>8. Becomes(w, k)
    BY <1>8, <2>3, <2>5, <2>7 DEF Becomes
  <2> QED  BY <1>12, <2>5, <2>8 DEF Stages, P
<1> HIDE DEF hash, jo
<1>13. \/ \E i \in StagedIndex(w, hash) :
            /\ job' = [job EXCEPT ![w] = Taken([jo EXCEPT !.pending[i].ref_count = @ + 1], jo.pending[i].id)]
            /\ next_segment' = next_segment
       \/ /\ hash \in DOMAIN content_store /\ next_segment' = next_segment
          /\ job' = [job EXCEPT ![w] = [jo EXCEPT !.hit = content_store[hash], !.pc = "increment"]]
       \/ /\ next_segment' = next_segment + 1
          /\ job' = [job EXCEPT ![w] = Taken([jo EXCEPT !.pending = Append(@,
                          [id |-> next_segment, data |-> hash, ref_count |-> 1])], next_segment)]
    BY DEF CommitSegment, Turn, hash, jo
<1>14. \E k : (\E i : Restages(w, k, i)) \/ Finds(w, k) \/ Stages(w, k)
    BY <1>10, <1>11, <1>12, <1>13
<1> QED  BY <1>1, <1>5, <1>14 DEF hash

(* increment_refcount and decrement_refcount change counts only.           *)
SameData(m, n) == DOMAIN n = DOMAIN m /\ \A x \in DOMAIN m : n[x].data = m[x].data

LEMMA CountChanged ==
    ASSUME NEW m, SegmentMaps(m), NEW x \in DOMAIN m, NEW c \in Nat
    PROVE  LET n == [m EXCEPT ![x].ref_count = c] IN
           /\ SegmentMaps(n) /\ SameData(m, n) /\ n[x].ref_count = c
           /\ \A y \in DOMAIN m : y # x => n[y] = m[y]
<1> DEFINE n == [m EXCEPT ![x].ref_count = c]
<1>1. m \in [DOMAIN m -> [data : Contents, ref_count : Nat]] /\ DOMAIN m \subseteq Nat
    BY DEF SegmentMaps
<1>2. DOMAIN n = DOMAIN m /\ n[x] = [m[x] EXCEPT !.ref_count = c] /\ \A y \in DOMAIN m : y # x => n[y] = m[y]
    BY <1>1
<1>3. m[x] \in [data : Contents, ref_count : Nat]
    BY <1>1
<1>4. n[x] \in [data : Contents, ref_count : Nat] /\ n[x].data = m[x].data /\ n[x].ref_count = c
    BY <1>2, <1>3
<1>5. n = [y \in DOMAIN m |-> n[y]]
    BY <1>1
<1> HIDE DEF n
<1>6. \A y \in DOMAIN m : n[y] \in [data : Contents, ref_count : Nat] /\ n[y].data = m[y].data
    BY <1>1, <1>2, <1>4
<1> QED  BY <1>1, <1>2, <1>4, <1>5, <1>6 DEF SegmentMaps, SameData, n

Increments(w, k) ==
    /\ Becomes(w, k) /\ TakesSegment(job[w], k, job[w].hit) /\ k.pending = job[w].pending
    /\ k.increments = Append(job[w].increments, job[w].hit)

LEMMA IncrementStep ==
    ASSUME Types, AllTasks, NEW w \in Writers, IncrementRefcount(w)
    PROVE  /\ job[w].pc = "increment" /\ \E k : Increments(w, k)
           /\ SegmentMaps(segment_map') /\ SameData(segment_map, segment_map')
<1> DEFINE j == job[w]
           I == Append(j.increments, j.hit)
           ji == [j EXCEPT !.increments = I]
           k == Taken(ji, j.hit)
<1>1. j \in JobRecord /\ TasksOK(j, data_of) /\ j.pc = "increment" /\ j.hit \in DOMAIN segment_map
    BY JobType DEF AllTasks, IncrementRefcount, At
<1>2. j.hit \in Nat /\ j.increments \in Seq(Nat) /\ j.segs \in Seq(Nat) /\ data_of' = data_of
        /\ j.pending \in Seq(Staged)
    BY <1>1 DEF JobRecord, IncrementRefcount
<1>3. I \in Seq(Nat) /\ Len(j.segs) \in Nat /\ Len(Append(j.segs, j.hit)) = Len(j.segs) + 1
    BY <1>2
<1>4. job' = [job EXCEPT ![w] = k]
    BY <1>1 DEF IncrementRefcount, Types, Taken, JobRecord
<1> HIDE DEF I
<1>5. ji \in JobRecord /\ ji.pending = j.pending /\ ji.increments = I
        /\ \A kk, x : TakesSegment(ji, kk, x) => TakesSegment(j, kk, x)
    BY <1>1, <1>3 DEF JobRecord, TakesSegment
<1> HIDE DEF ji
<1>6. k \in JobRecord /\ TakesSegment(j, k, j.hit) /\ k.pending = j.pending /\ k.increments = I
    BY <1>2, <1>5, TakenFields
<1> HIDE DEF k
<1>7. Len(k.pending) >= Len(j.pending)
    BY <1>2, <1>6
<1>8. TasksOK(k, data_of)
    BY <1>1, <1>3, <1>6, <1>7, TakesOK
<1>9. Increments(w, k)
    BY <1>2, <1>4, <1>6, <1>8 DEF Increments, Becomes, I
<1>10. segment_map[j.hit].ref_count + 1 \in Nat /\ SegmentMaps(segment_map)
    BY <1>1 DEF Types, SegmentMaps
<1>11. segment_map' = [segment_map EXCEPT ![j.hit].ref_count = segment_map[j.hit].ref_count + 1]
    BY <1>1, <1>10 DEF IncrementRefcount, SegmentMaps
<1>12. SegmentMaps(segment_map') /\ SameData(segment_map, segment_map')
  <2> DEFINE c == segment_map[j.hit].ref_count + 1
  <2>1. c \in Nat /\ segment_map' = [segment_map EXCEPT ![j.hit].ref_count = c]
    BY <1>10, <1>11
  <2> HIDE DEF c, j
  <2> QED  BY <1>1, <1>10, <2>1, CountChanged
<1> QED  BY <1>1, <1>9, <1>12

LEMMA IncrementFailsStep ==
    ASSUME Types, AllTasks, NEW w \in Writers, IncrementFails(w)
    PROVE  /\ job[w].pc = "increment" /\ \E k : Becomes(w, k) /\ SameCall(job[w], k) /\ k.pc = "join"
           /\ SegmentMaps(segment_map') /\ SameData(segment_map, segment_map')
           /\ save_fails' \in 0 .. MaxSaveFails
           /\ save_fails' = MaxSaveFails => segment_map' = segment_map /\ save_fails = MaxSaveFails
<1> DEFINE j == job[w]
           k == [j EXCEPT !.pc = "join", !.failed = TRUE]
<1>1. j \in JobRecord /\ TasksOK(j, data_of) /\ j.pc = "increment"
    BY JobType DEF AllTasks, IncrementFails, At
<1>2. k \in JobRecord /\ SameCall(j, k) /\ SameTasks(j, k) /\ k.pc = "join"
    BY <1>1 DEF JobRecord, SameCall, SameTasks, PCs
<1>3. job' = [job EXCEPT ![w] = k] /\ data_of' = data_of
    BY <1>1 DEF IncrementFails, Types, JobRecord
<1> HIDE DEF k
<1>4. TasksOK(k, data_of)
    BY <1>1, <1>2 DEF TasksOK, SameCall, SameTasks
<1>5. Becomes(w, k)
    BY <1>2, <1>3, <1>4 DEF Becomes
<1>6. SegmentMaps(segment_map) /\ save_fails \in 0 .. MaxSaveFails /\ MaxSaveFails \in Nat
    BY AsyncAssumption DEF Types
<1>7. CASE segment_map' = segment_map /\ save_fails' = save_fails
    BY <1>1, <1>2, <1>5, <1>6, <1>7 DEF SameData
<1>8. CASE j.hit \in DOMAIN segment_map /\ SaveFails
                /\ segment_map' = [segment_map EXCEPT ![j.hit].ref_count = @ + 1]
  <2>1. segment_map[j.hit].ref_count + 1 \in Nat
    BY <1>6, <1>8 DEF SegmentMaps
  <2>2. segment_map' = [segment_map EXCEPT ![j.hit].ref_count = segment_map[j.hit].ref_count + 1]
    BY <1>6, <1>8 DEF SegmentMaps
  <2>3. SegmentMaps(segment_map') /\ SameData(segment_map, segment_map')
    <3> DEFINE c == segment_map[j.hit].ref_count + 1
    <3>1. c \in Nat /\ segment_map' = [segment_map EXCEPT ![j.hit].ref_count = c]
        BY <2>1, <2>2
    <3>2. j.hit \in DOMAIN segment_map
        BY <1>8
    <3> HIDE DEF c, j
    <3> QED  BY <1>6, <3>1, <3>2, CountChanged
  <2>4. save_fails' \in 0 .. MaxSaveFails /\ save_fails' # MaxSaveFails
    BY <1>6, <1>8 DEF SaveFails
  <2> QED  BY <1>1, <1>2, <1>5, <2>3, <2>4
<1> QED  BY <1>7, <1>8 DEF IncrementFails

LEMMA CommitStep ==
    ASSUME Types, AllTasks, NEW w \in Writers, CommitTransaction(w)
    PROVE  job[w].pc = "commit" /\ \E k : Becomes(w, k) /\ SameCall(job[w], k) /\ k.pc = "register"
<1> DEFINE j == job[w]
           k == [j EXCEPT !.pc = "register"]
<1>1. j \in JobRecord /\ TasksOK(j, data_of) /\ j.pc = "commit"
    BY JobType DEF AllTasks, CommitTransaction, At
<1>2. k \in JobRecord /\ SameCall(j, k) /\ k.pc = "register"
    BY <1>1 DEF JobRecord, SameCall, PCs
<1>3. job' = [job EXCEPT ![w] = k] /\ data_of' = data_of
    BY <1>1 DEF CommitTransaction, Goto, Types, JobRecord
<1> HIDE DEF k
<1>4. TasksOK(k, data_of)
    BY <1>1, <1>2 DEF TasksOK, SameCall
<1> QED  BY <1>1, <1>2, <1>3, <1>4 DEF Becomes

LEMMA RegistrationFacts ==
    ASSUME Types, AllTasks, NEW w \in Writers, NEW i \in DOMAIN Registrations(w)
    PROVE  i \in DOMAIN job[w].pending /\ Registrations(w)[i] = job[w].pending[i]
BY DEF Registrations

Registers(w, k) ==
    /\ Becomes(w, k) /\ k.pc = job[w].pc /\ k.pending = job[w].pending /\ k.segs = job[w].segs
    /\ k.increments = job[w].increments /\ k.cap = job[w].cap /\ k.next = job[w].next

LEMMA RegisterStep ==
    ASSUME Types, AllTasks, NEW w \in Writers, At(w, "register"),
           job[w].registered < Len(Registrations(w)), data_of' = data_of,
           job' = [job EXCEPT ![w].registered = @ + 1]
    PROVE  \E k : Registers(w, k)
<1> DEFINE j == job[w]
           k == [j EXCEPT !.registered = @ + 1]
<1>1. j \in JobRecord /\ TasksOK(j, data_of) /\ j.pc = "register"
    BY JobType DEF AllTasks, At
<1>2. j.registered \in Nat /\ j.pending \in Seq(Staged)
    BY <1>1 DEF JobRecord
<1>3. k \in JobRecord /\ k.registered = j.registered + 1 /\ k.pc = j.pc /\ k.pending = j.pending
        /\ k.segs = j.segs /\ k.increments = j.increments /\ k.cap = j.cap /\ k.next = j.next
  <2> DEFINE r == j.registered + 1
  <2>1. r \in Nat
    BY <1>2
  <2>2. k = [j EXCEPT !.registered = r]
    OBVIOUS
  <2> HIDE DEF r, k
  <2>3. k \in JobRecord /\ k.registered = r /\ k.pc = j.pc /\ k.pending = j.pending
        /\ k.segs = j.segs /\ k.increments = j.increments /\ k.cap = j.cap /\ k.next = j.next
    BY <1>1, <2>1, <2>2 DEF JobRecord
  <2> QED  BY <2>3 DEF r
<1>4. job' = [job EXCEPT ![w] = k]
    BY <1>1 DEF Types, JobRecord
<1> HIDE DEF k
<1>5. j.registered + 1 <= Len(j.pending)
    BY <1>2 DEF Registrations
<1>6. TasksOK(k, data_of)
    BY <1>1, <1>3, <1>5 DEF TasksOK
<1> QED  BY <1>3, <1>4, <1>6 DEF Becomes, Registers

-----------------------------------------------------------------------------
(* What an error undoes.                                                   *)

LEMMA Joined ==
    ASSUME NEW S, NEW a \in Seq(S), NEW b \in Seq(S)
    PROVE  /\ a \o b \in Seq(S)
           /\ \A k \in DOMAIN a : k \in DOMAIN (a \o b) /\ (a \o b)[k] = a[k]
           /\ \A k \in DOMAIN (a \o b) :
                k \in DOMAIN a \/ \E i \in DOMAIN b : k = Len(a) + i /\ (a \o b)[k] = b[i]
<1>1. a \o b \in Seq(S) /\ Len(a \o b) = Len(a) + Len(b) /\ Len(a) \in Nat /\ Len(b) \in Nat
    OBVIOUS
<1>2. \A k \in 1 .. Len(a) : (a \o b)[k] = a[k]
    OBVIOUS
<1>3. \A k \in 1 .. Len(a) + Len(b) : k > Len(a) => (a \o b)[k] = b[k - Len(a)]
    OBVIOUS
<1>4. DOMAIN a = 1 .. Len(a) /\ DOMAIN b = 1 .. Len(b) /\ DOMAIN (a \o b) = 1 .. Len(a) + Len(b)
    BY <1>1
<1>5. ASSUME NEW k \in DOMAIN (a \o b), k \notin DOMAIN a
      PROVE  \E i \in DOMAIN b : k = Len(a) + i /\ (a \o b)[k] = b[i]
  <2>1. k - Len(a) \in 1 .. Len(b) /\ k > Len(a) /\ k = Len(a) + (k - Len(a))
    BY <1>1, <1>4, <1>5
  <2>2. (a \o b)[k] = b[k - Len(a)]
    BY <1>3, <1>4, <2>1
  <2> QED  BY <1>4, <2>1, <2>2
<1>6. \A k \in DOMAIN a : k \in DOMAIN (a \o b) /\ (a \o b)[k] = a[k]
    BY <1>1, <1>2, <1>4
<1> QED  BY <1>1, <1>5, <1>6

LEMMA StepType ==
    ASSUME NEW s \in Staged, NEW op \in {"deregister", "remove", "decrement"}
    PROVE  Step(op, s) \in UndoSteps /\ Step(op, s).op = op /\ Step(op, s).id = s.id /\ Step(op, s).hash = s.data
BY DEF Step, Staged, UndoSteps

LEMMA DecrementsFacts ==
    ASSUME Types, NEW w \in Writers
    PROVE  /\ Decrements(w) \in Seq(UndoSteps)
           /\ \A k \in DOMAIN Decrements(w) : Decrements(w)[k].op = "decrement"
           /\ Len(Decrements(w)) = Len(job[w].increments)
           /\ \A k \in DOMAIN Decrements(w) :
                Decrements(w)[k].id = job[w].increments[Len(job[w].increments) + 1 - k]
<1> DEFINE I == job[w].increments
           n == Len(I)
           st(k) == [op |-> "decrement", id |-> I[n + 1 - k], hash |-> 0]
<1>1. job[w] \in JobRecord
    BY JobType
<1>2. I \in Seq(Nat)
    BY <1>1 DEF JobRecord
<1>3. n \in Nat /\ \A k \in 1 .. n : n + 1 - k \in 1 .. n
    BY <1>2
<1>4. \A k \in 1 .. n : I[n + 1 - k] \in Nat
    BY <1>2, <1>3
<1>5. \A k \in 1 .. n : st(k) \in UndoSteps
    BY <1>4 DEF UndoSteps
<1>6. Decrements(w) = [k \in 1 .. n |-> st(k)]
    BY DEF Decrements
<1> HIDE DEF n, I, st
<1>7. Decrements(w) \in Seq(UndoSteps) /\ DOMAIN Decrements(w) = 1 .. n
    BY <1>3, <1>5, <1>6
<1>8. \A k \in DOMAIN Decrements(w) : Decrements(w)[k].op = "decrement" /\ Decrements(w)[k].id = I[n + 1 - k]
    BY <1>6, <1>7 DEF st
<1>9. Len(Decrements(w)) = n
    BY <1>3, <1>7
<1> QED  BY <1>7, <1>8, <1>9 DEF n, I

(* The staged segments of the call.                                        *)
LEMMA RegistrationType ==
    ASSUME Types, NEW w \in Writers
    PROVE  /\ Registrations(w) \in Seq(Staged) /\ Len(Registrations(w)) \in Nat
           /\ \A i \in 1 .. Len(Registrations(w)) :
                Registrations(w)[i] \in Staged /\ i \in DOMAIN job[w].pending
                    /\ Registrations(w)[i] = job[w].pending[i]
<1>1. job[w] \in JobRecord
    BY JobType
<1>2. job[w].pending \in Seq(Staged) /\ << >> \in Seq(Staged)
    BY <1>1 DEF JobRecord
<1>3. Registrations(w) \in Seq(Staged)
    BY <1>2 DEF Registrations
<1>4. Len(Registrations(w)) \in Nat /\ \A i \in 1 .. Len(Registrations(w)) : Registrations(w)[i] \in Staged
    BY <1>3
<1>5. CASE job[w].dedupe
    BY <1>2, <1>3, <1>4, <1>5 DEF Registrations
<1>6. CASE ~job[w].dedupe
  <2>1. Registrations(w) = << >>
    BY <1>6 DEF Registrations
  <2>2. Len(Registrations(w)) = 0
    BY <2>1
  <2> QED  BY <1>3, <1>4, <2>2
<1> QED  BY <1>5, <1>6

LEMMA RegisterUndoFacts ==
    ASSUME Types, NEW w \in Writers, job[w].registered <= Len(Registrations(w))
    PROVE  /\ RegisterUndo(w) \in Seq(UndoSteps)
           /\ \A k \in DOMAIN RegisterUndo(w) :
                RegisterUndo(w)[k].op = "remove" => RegisterUndo(w)[k].id \in PendingIds(job[w])
<1> DEFINE regs == Registrations(w)
           n == Len(regs)
           r == job[w].registered
           a == [k \in 1 .. r |-> Step("deregister", regs[k])]
           b == [k \in DOMAIN regs |-> Step("remove", regs[k])]
           c == Decrements(w)
<1>1. n \in Nat /\ DOMAIN regs = 1 .. n
    BY RegistrationType
<1>2. \A i \in 1 .. n : regs[i] \in Staged /\ i \in DOMAIN job[w].pending /\ regs[i] = job[w].pending[i]
    BY RegistrationType
<1>3. job[w] \in JobRecord
    BY JobType
<1>4. r \in Nat /\ r <= n
    BY <1>3 DEF JobRecord
<1> HIDE DEF n, r
<1>5. \A i \in 1 .. r : i \in 1 .. n
    BY <1>1, <1>4
<1> HIDE DEF regs
<1>6. a \in Seq(UndoSteps) /\ \A k \in DOMAIN a : a[k].op = "deregister"
  <2>1. \A i \in 1 .. r : Step("deregister", regs[i]) \in UndoSteps /\ Step("deregister", regs[i]).op = "deregister"
    BY <1>2, <1>5, StepType
  <2> QED  BY <1>4, <2>1
<1>7. b \in Seq(UndoSteps) /\ DOMAIN b = 1 .. n /\ \A k \in DOMAIN b : b[k].id = regs[k].id
  <2>1. \A i \in 1 .. n : Step("remove", regs[i]) \in UndoSteps /\ Step("remove", regs[i]).id = regs[i].id
    BY <1>2, StepType
  <2> QED  BY <1>1, <2>1
<1>8. c \in Seq(UndoSteps) /\ \A k \in DOMAIN c : c[k].op = "decrement"
    BY DecrementsFacts
<1>9. RegisterUndo(w) = (a \o b) \o c
    BY DEF RegisterUndo, regs, r
<1>10. \A k \in DOMAIN b : b[k].id \in PendingIds(job[w])
    BY <1>2, <1>7 DEF PendingIds
<1> HIDE DEF a, b, c
<1>11. a \o b \in Seq(UndoSteps)
    BY <1>6, <1>7
<1>12. \A k \in DOMAIN (a \o b) : (a \o b)[k].op = "remove" => (a \o b)[k].id \in PendingIds(job[w])
  <2>1. \A k \in DOMAIN (a \o b) : (k \in DOMAIN a /\ (a \o b)[k] = a[k]) \/ \E i \in DOMAIN b : (a \o b)[k] = b[i]
    <3>1. a \in Seq(UndoSteps) /\ b \in Seq(UndoSteps)
        BY <1>6, <1>7
    <3>2. \A k \in DOMAIN a : k \in DOMAIN (a \o b) /\ (a \o b)[k] = a[k]
        BY <3>1, Joined
    <3>3. \A k \in DOMAIN (a \o b) : k \in DOMAIN a \/ \E i \in DOMAIN b : k = Len(a) + i /\ (a \o b)[k] = b[i]
        BY <3>1, Joined
    <3> QED  BY <3>2, <3>3
  <2> QED  BY <1>6, <1>10, <2>1
<1> DEFINE ab == a \o b
<1> HIDE DEF ab
<1>13. ab \in Seq(UndoSteps) /\ \A k \in DOMAIN ab : ab[k].op = "remove" => ab[k].id \in PendingIds(job[w])
    BY <1>11, <1>12 DEF ab
<1>14. ab \o c \in Seq(UndoSteps)
    BY <1>8, <1>13
<1>15. \A k \in DOMAIN (ab \o c) : (ab \o c)[k].op = "remove" => (ab \o c)[k].id \in PendingIds(job[w])
    BY <1>8, <1>13, Joined
<1> QED  BY <1>9, <1>14, <1>15 DEF ab

(* Every removal is preceded by the removal of the name.                   *)
TakesNameBack(u, j) ==
    \A k \in DOMAIN u : u[k].op = "remove" =>
        /\ u[k].id \in PendingIds(j)
        /\ \E l \in DOMAIN u :
            /\ l < k /\ u[l].op = "deregister" /\ u[l].id = u[k].id
            /\ \E p \in DOMAIN j.pending : j.pending[p].id = u[k].id /\ j.pending[p].data = u[l].hash

LEMMA Halves ==
    ASSUME NEW n \in Nat, NEW k \in 1 .. 2 * n
    PROVE  /\ k % 2 = 1 => (k + 1) \div 2 \in 1 .. n
           /\ k % 2 # 1 => k \div 2 \in 1 .. n /\ k - 1 \in 1 .. 2 * n /\ (k - 1) % 2 = 1 /\ k - 1 < k
                            /\ ((k - 1) + 1) \div 2 = k \div 2
OBVIOUS

LEMMA CreateUndoFacts ==
    ASSUME Types, NEW w \in Writers
    PROVE  CreateUndo(w) \in Seq(UndoSteps) /\ TakesNameBack(CreateUndo(w), job[w])
<1> DEFINE regs == Registrations(w)
           n == Len(regs)
           st(k) == IF k % 2 = 1 THEN Step("deregister", regs[(k + 1) \div 2]) ELSE Step("remove", regs[k \div 2])
           a == [k \in 1 .. 2 * n |-> st(k)]
           c == Decrements(w)
           j == job[w]
<1>1. n \in Nat /\ \A i \in 1 .. n : regs[i] \in Staged /\ i \in DOMAIN j.pending /\ regs[i] = j.pending[i]
    BY RegistrationType
<1>2. CreateUndo(w) = a \o c
    BY DEF CreateUndo
<1> HIDE DEF n, regs, j
<1>3. ASSUME NEW k \in 1 .. 2 * n, k % 2 = 1
      PROVE  /\ (k + 1) \div 2 \in 1 .. n /\ st(k) \in UndoSteps /\ st(k).op = "deregister"
             /\ st(k).id = regs[(k + 1) \div 2].id /\ st(k).hash = regs[(k + 1) \div 2].data
  <2>1. (k + 1) \div 2 \in 1 .. n
    BY <1>1, <1>3, Halves
  <2>2. st(k) = Step("deregister", regs[(k + 1) \div 2])
    BY <1>3
  <2>3. regs[(k + 1) \div 2] \in Staged
    BY <1>1, <2>1
  <2> HIDE DEF st
  <2> DEFINE s == regs[(k + 1) \div 2]
  <2>4. s \in Staged /\ st(k) = Step("deregister", s)
    BY <2>2, <2>3
  <2> HIDE DEF s
  <2>5. st(k) \in UndoSteps /\ st(k).op = "deregister" /\ st(k).id = s.id /\ st(k).hash = s.data
    BY <2>4, StepType
  <2> QED  BY <2>1, <2>5 DEF s
<1>4. ASSUME NEW k \in 1 .. 2 * n, k % 2 # 1
      PROVE  /\ k \div 2 \in 1 .. n /\ st(k) \in UndoSteps /\ st(k).op = "remove"
             /\ st(k).id = regs[k \div 2].id
  <2>1. k \div 2 \in 1 .. n
    BY <1>1, <1>4, Halves
  <2>2. st(k) = Step("remove", regs[k \div 2])
    BY <1>4
  <2>3. regs[k \div 2] \in Staged
    BY <1>1, <2>1
  <2> HIDE DEF st
  <2> DEFINE s == regs[k \div 2]
  <2>4. s \in Staged /\ st(k) = Step("remove", s)
    BY <2>2, <2>3
  <2> HIDE DEF s
  <2>5. st(k) \in UndoSteps /\ st(k).op = "remove" /\ st(k).id = s.id
    BY <2>4, StepType
  <2> QED  BY <2>1, <2>5 DEF s
<1> HIDE DEF st
<1>5. 2 * n \in Nat /\ \A k \in 1 .. 2 * n : st(k) \in UndoSteps
    BY <1>1, <1>3, <1>4
<1>6. a \in Seq(UndoSteps) /\ DOMAIN a = 1 .. 2 * n /\ \A k \in 1 .. 2 * n : a[k] = st(k)
  <2> DEFINE N == 2 * n
  <2>1. N \in Nat /\ \A k \in 1 .. N : st(k) \in UndoSteps
    BY <1>5
  <2> HIDE DEF N
  <2>2. [k \in 1 .. N |-> st(k)] \in Seq(UndoSteps)
    BY <2>1
  <2> QED  BY <2>2 DEF N
<1>7. TakesNameBack(a, j)
  <2> SUFFICES ASSUME NEW k \in DOMAIN a, a[k].op = "remove"
               PROVE  /\ a[k].id \in PendingIds(j)
                      /\ \E l \in DOMAIN a :
                            /\ l < k /\ a[l].op = "deregister" /\ a[l].id = a[k].id
                            /\ \E p \in DOMAIN j.pending : j.pending[p].id = a[k].id /\ j.pending[p].data = a[l].hash
    BY DEF TakesNameBack
  <2>1. k \in 1 .. 2 * n /\ a[k] = st(k)
    BY <1>6
  <2>2. k % 2 # 1
    BY <1>3, <2>1
  <2> DEFINE p == k \div 2
             l == k - 1
  <2>3. p \in 1 .. n /\ l \in 1 .. 2 * n /\ l % 2 = 1 /\ l < k /\ (l + 1) \div 2 = p
    BY <1>1, <2>1, <2>2, Halves
  <2>4. a[k].id = regs[p].id
    BY <1>4, <2>1, <2>2
  <2> HIDE DEF l
  <2>5. a[l] = st(l) /\ l \in DOMAIN a
    BY <1>6, <2>3
  <2> HIDE DEF a, p
  <2>6. a[l].op = "deregister" /\ a[l].id = regs[p].id /\ a[l].hash = regs[p].data
    BY <1>3, <2>3, <2>5
  <2>7. p \in DOMAIN j.pending /\ regs[p] = j.pending[p]
    BY <1>1, <2>3
  <2>8. a[k].id \in PendingIds(j)
    BY <2>4, <2>7 DEF PendingIds
  <2> QED  BY <2>3, <2>4, <2>5, <2>6, <2>7, <2>8
<1>8. c \in Seq(UndoSteps) /\ \A k \in DOMAIN c : c[k].op = "decrement"
    BY DecrementsFacts
<1> HIDE DEF a, c
<1>9. a \in Seq(UndoSteps) /\ c \in Seq(UndoSteps)
    BY <1>6, <1>8
<1>10. a \o c \in Seq(UndoSteps)
    BY <1>9
<1>11. \A k \in DOMAIN a : k \in DOMAIN (a \o c) /\ (a \o c)[k] = a[k]
    BY <1>9, Joined
<1>12. \A k \in DOMAIN (a \o c) : k \in DOMAIN a \/ \E i \in DOMAIN c : (a \o c)[k] = c[i]
    BY <1>9, Joined
<1> DEFINE ac == a \o c
<1>13. /\ \A k \in DOMAIN a : k \in DOMAIN ac /\ ac[k] = a[k]
       /\ \A k \in DOMAIN ac : k \in DOMAIN a \/ \E i \in DOMAIN c : ac[k] = c[i]
    BY <1>11, <1>12
<1> HIDE DEF ac
<1>14. TakesNameBack(ac, j)
  <2> SUFFICES ASSUME NEW k \in DOMAIN ac, ac[k].op = "remove"
               PROVE  /\ ac[k].id \in PendingIds(j)
                      /\ \E l \in DOMAIN ac :
                            /\ l < k /\ ac[l].op = "deregister" /\ ac[l].id = ac[k].id
                            /\ \E p \in DOMAIN j.pending : j.pending[p].id = ac[k].id /\ j.pending[p].data = ac[l].hash
    BY DEF TakesNameBack
  <2>1. k \in DOMAIN a /\ ac[k] = a[k]
    BY <1>8, <1>13
  <2>2. a[k].id \in PendingIds(j)
    BY <1>7, <2>1 DEF TakesNameBack
  <2>3. PICK l \in DOMAIN a :
            /\ l < k /\ a[l].op = "deregister" /\ a[l].id = a[k].id
            /\ \E p \in DOMAIN j.pending : j.pending[p].id = a[k].id /\ j.pending[p].data = a[l].hash
    BY <1>7, <2>1 DEF TakesNameBack
  <2>4. l \in DOMAIN ac /\ ac[l] = a[l]
    BY <1>13
  <2> QED  BY <2>1, <2>2, <2>3, <2>4
<1> QED  BY <1>2, <1>10, <1>14 DEF ac, j

-----------------------------------------------------------------------------
(* What a commit and a step of an undo make of the maps.                   *)

LEMMA CommittedFacts ==
    ASSUME Types, NEW w \in Writers, PendingOK(job[w], segment_map, next_segment)
    PROVE  /\ SegmentMaps(Committed(w))
           /\ DOMAIN Committed(w) = DOMAIN segment_map \cup PendingIds(job[w])
           /\ \A x \in DOMAIN segment_map : Committed(w)[x] = segment_map[x]
           /\ \A k \in DOMAIN job[w].pending : job[w].pending[k].id \notin DOMAIN segment_map =>
                /\ Committed(w)[job[w].pending[k].id].data = job[w].pending[k].data
                /\ Committed(w)[job[w].pending[k].id].ref_count = job[w].pending[k].ref_count
<1> DEFINE m == segment_map
           p == job[w].pending
           val(k) == [data |-> p[k].data, ref_count |-> p[k].ref_count]
           Z == PendingIds(job[w])
           at(x) == CHOOSE k \in DOMAIN p : p[k].id = x
           c == Committed(w)
<1>1. job[w] \in JobRecord
    BY JobType
<1>2. p \in Seq(Staged)
    BY <1>1 DEF JobRecord
<1>3. \A k \in DOMAIN p : p[k] \in Staged
    BY <1>2
<1>4. \A k \in DOMAIN p : p[k].id \in Nat /\ val(k) \in [data : Contents, ref_count : Nat]
        /\ val(k).data = p[k].data /\ val(k).ref_count = p[k].ref_count
    BY <1>3 DEF Staged
<1>5. Z = {p[k].id : k \in DOMAIN p}
    BY DEF PendingIds
<1>6. c = [x \in DOMAIN m \cup Z |-> IF x \in DOMAIN m THEN m[x] ELSE val(at(x))]
    BY <1>5 DEF Committed
<1>7. \A k, l \in DOMAIN p : p[k].id = p[l].id => k = l
    BY DEF PendingOK
<1>8. \A k \in DOMAIN p : at(p[k].id) = k
    BY <1>7
<1>9. SegmentMaps(m)
    BY DEF Types
<1> HIDE DEF m, p, val, Z, at, c
<1>10. DOMAIN c = DOMAIN m \cup Z /\ \A x \in DOMAIN m : c[x] = m[x]
    BY <1>6
<1>11. \A k \in DOMAIN p : p[k].id \in Z /\ (p[k].id \notin DOMAIN m => c[p[k].id] = val(k))
    BY <1>5, <1>6, <1>8
<1>12. \A x \in DOMAIN c : x \in Nat /\ c[x] \in [data : Contents, ref_count : Nat]
  <2> TAKE x \in DOMAIN c
  <2>1. CASE x \in DOMAIN m
    BY <1>9, <1>10, <2>1 DEF SegmentMaps
  <2>2. CASE x \notin DOMAIN m
    <3>1. PICK k \in DOMAIN p : x = p[k].id
        BY <1>5, <1>10, <2>2
    <3> QED  BY <1>4, <1>11, <2>2, <3>1
  <2> QED  BY <2>1, <2>2
<1>13. c = [x \in DOMAIN c |-> c[x]]
    BY <1>6
<1>14. SegmentMaps(c)
  <2>1. c \in [DOMAIN c -> [data : Contents, ref_count : Nat]]
    BY <1>12, <1>13
  <2> QED  BY <1>12, <2>1 DEF SegmentMaps
<1>15. \A k \in DOMAIN p : p[k].id \notin DOMAIN m => c[p[k].id].data = p[k].data /\ c[p[k].id].ref_count = p[k].ref_count
    BY <1>4, <1>11
<1> QED  BY <1>10, <1>14, <1>15 DEF m, p, Z, c

StoreType(s) == DOMAIN s \subseteq Contents /\ s \in [DOMAIN s -> Nat]

(* The outcomes of a step u of an undo that is not refused.                *)
Deregisters(u) ==
    /\ u.op = "deregister" /\ segment_map' = segment_map
    /\ content_store' = IF <<u.hash, u.id>> \in Entries(content_store)
                        THEN Without(content_store, u.hash) ELSE content_store
Removes(u) ==
    /\ u.op = "remove" /\ content_store' = content_store
    /\ DOMAIN segment_map' = DOMAIN segment_map \ {u.id}
    /\ \A x \in DOMAIN segment_map' : segment_map'[x] = segment_map[x]
Decreases(u) ==
    /\ u.op = "decrement" /\ content_store' = content_store
    /\ u.id \in DOMAIN segment_map /\ SameData(segment_map, segment_map')
    /\ segment_map'[u.id].ref_count = segment_map[u.id].ref_count - 1
    /\ \A x \in DOMAIN segment_map : x # u.id => segment_map'[x] = segment_map[x]

LEMMA UndoFacts ==
    ASSUME Types, NEW u \in UndoSteps, Undo(u), ~Refused(u)
    PROVE  /\ SegmentMaps(segment_map') /\ StoreType(content_store')
           /\ Deregisters(u) \/ Removes(u) \/ Decreases(u)
<1> DEFINE m == segment_map
           s == content_store
<1>1. SegmentMaps(m) /\ StoreType(s)
    BY DEF Types, StoreType
<1>2. u.op \in {"deregister", "remove", "decrement"}
    BY DEF UndoSteps
<1>3. CASE u.op = "deregister"
  <2>1. Deregisters(u)
    BY <1>3 DEF Undo, Deregisters
  <2>2. StoreType(Without(s, u.hash))
    BY <1>1 DEF StoreType, Without
  <2> QED  BY <1>1, <2>1, <2>2 DEF Deregisters
<1>4. CASE u.op = "remove"
  <2>1. segment_map' = Without(m, u.id) /\ content_store' = s
    BY <1>4 DEF Undo
  <2>2. SegmentMaps(Without(m, u.id)) /\ DOMAIN Without(m, u.id) = DOMAIN m \ {u.id}
        /\ \A x \in DOMAIN Without(m, u.id) : Without(m, u.id)[x] = m[x]
    BY <1>1 DEF SegmentMaps, Without
  <2> QED  BY <1>1, <1>4, <2>1, <2>2 DEF Removes
<1>5. CASE u.op = "decrement"
  <2>1. u.id \in DOMAIN m /\ m[u.id].ref_count # 0
    BY <1>5 DEF Refused
  <2> DEFINE c == m[u.id].ref_count - 1
  <2>2. m[u.id].ref_count \in Nat
    BY <1>1, <2>1 DEF SegmentMaps
  <2>3. c \in Nat
    BY <2>1, <2>2
  <2>4. segment_map' = [m EXCEPT ![u.id].ref_count = c] /\ content_store' = s
    BY <1>5 DEF Undo
  <2> HIDE DEF c, m
  <2>5. /\ SegmentMaps(segment_map') /\ SameData(m, segment_map') /\ segment_map'[u.id].ref_count = c
        /\ \A y \in DOMAIN m : y # u.id => segment_map'[y] = m[y]
    BY <1>1, <2>1, <2>3, <2>4, CountChanged
  <2> QED  BY <1>1, <1>5, <2>1, <2>4, <2>5 DEF Decreases, c, m
<1> QED  BY <1>2, <1>3, <1>4, <1>5

-----------------------------------------------------------------------------
(* What a step of the writer w, to the state k of its call, has to show    *)
(* for the invariant to be kept.                                           *)

Inv == Types /\ AllTasks /\ Owned /\ Live /\ Ordered

CapsType(c) == DOMAIN c \subseteq Nat \ {0} /\ c \in [DOMAIN c -> Seq(Nat)]

(* data_of as it was, or with one more capsule.                            *)
DataGrows(d, e) == e = d \/ \E data \in Datas : e = Append(d, data)

TypedStep(w, k) ==
    /\ Becomes(w, k)
    /\ SegmentMaps(segment_map') /\ StoreType(content_store') /\ CapsType(capsules')
    /\ DataGrows(data_of, data_of')
    /\ unregistered' \in BOOLEAN /\ task_fails' \in Nat
    /\ save_fails' \in 0 .. MaxSaveFails /\ save_fails' <= save_fails

(* Only segments of Z come or go.                                          *)
MapMove(m, n, Z) ==
    /\ \A x : x \notin Z => (x \in DOMAIN m <=> x \in DOMAIN n)
    /\ \A x \in DOMAIN m : x \in DOMAIN n => n[x].data = m[x].data

OwnedStep(w, k) ==
    /\ next_segment' \in Nat /\ next_segment <= next_segment'
    /\ MapMove(segment_map, segment_map', PendingIds(job[w]))
    /\ PendingOK(k, segment_map', next_segment')
    /\ \A x \in PendingIds(k) : x \in PendingIds(job[w]) \/ next_segment <= x
    /\ \A x \in DOMAIN segment_map' : x < next_segment'

LiveStep(w, k) ==
    ~unregistered' =>
        /\ ~unregistered
        /\ LiveStore(content_store', segment_map') /\ UndoOrdered(k, content_store')
        /\ \A x \in Named(content_store') : x \in Named(content_store) \/ x \in PendingIds(job[w])

MapGrows(m, n) == \A x \in DOMAIN m : x \in DOMAIN n /\ n[x].data = m[x].data

OrderedStep(w, k) ==
    NoSaveFailed' =>
        /\ ~unregistered' /\ MapGrows(segment_map, segment_map')
        /\ ChunksOK(k, segment_map', data_of')
        /\ \A c \in DOMAIN capsules' :
            \/ c \in DOMAIN capsules /\ capsules'[c] = capsules[c]
            \/ c <= Len(data_of') /\ CapsuleOK(capsules'[c], data_of'[c], segment_map')

Step4(w, k) == TypedStep(w, k) /\ OwnedStep(w, k) /\ LiveStep(w, k) /\ OrderedStep(w, k)

(* The data of the capsules there are stays.                               *)
LEMMA DataKept ==
    ASSUME NEW d \in Seq(Datas), NEW e, DataGrows(d, e)
    PROVE  e \in Seq(Datas) /\ Len(d) <= Len(e) /\ \A c \in 1 .. Len(d) : c \in 1 .. Len(e) /\ e[c] = d[c]
<1>1. CASE e = d
    BY <1>1
<1>2. ASSUME NEW data \in Datas, e = Append(d, data)
      PROVE  e \in Seq(Datas) /\ Len(d) <= Len(e) /\ \A c \in 1 .. Len(d) : c \in 1 .. Len(e) /\ e[c] = d[c]
    BY <1>2
<1> QED  BY <1>1, <1>2 DEF DataGrows

LEMMA TasksStill ==
    ASSUME NEW j, NEW d \in Seq(Datas), NEW e, DataGrows(d, e), TasksOK(j, d)
    PROVE  TasksOK(j, e)
<1>1. CASE j.pc = "idle"
    BY <1>1 DEF TasksOK
<1>2. CASE j.pc # "idle"
  <2>1. j.cap \in 1 .. Len(d)
    BY <1>2 DEF TasksOK
  <2>2. j.cap \in 1 .. Len(e) /\ e[j.cap] = d[j.cap]
    BY <2>1, DataKept
  <2> QED  BY <2>2 DEF TasksOK
<1> QED  BY <1>1, <1>2

LEMMA TypedKept ==
    ASSUME Types, AllTasks, Owned, NEW w \in Writers, NEW k, TypedStep(w, k), OwnedStep(w, k)
    PROVE  Types' /\ AllTasks' /\ (\A v \in Writers \ {w} : job'[v] = job[v]) /\ job'[w] = k
<1>1. job' = [job EXCEPT ![w] = k] /\ k \in JobRecord /\ TasksOK(k, data_of')
    BY DEF TypedStep, Becomes
<1>2. job' \in [Writers -> JobRecord] /\ (\A v \in Writers \ {w} : job'[v] = job[v]) /\ job'[w] = k
    BY <1>1 DEF Types
<1>3. data_of' \in Seq(Datas)
    BY DataKept DEF TypedStep, Types
<1>4. next_segment' \in Nat \ {0}
    BY DEF OwnedStep, Types
<1>5. Types'
    BY <1>2, <1>3, <1>4 DEF Types, TypedStep, StoreType, CapsType
<1>6. \A v \in Writers : TasksOK(job'[v], data_of')
  <2> TAKE v \in Writers
  <2>1. CASE v = w
    BY <1>1, <1>2, <2>1
  <2>2. CASE v # w
    <3>1. TasksOK(job[v], data_of) /\ job'[v] = job[v]
        BY <1>2, <2>2 DEF AllTasks
    <3>2. data_of \in Seq(Datas) /\ DataGrows(data_of, data_of')
        BY DEF TypedStep, Types
    <3> QED  BY <3>1, <3>2, TasksStill
  <2> QED  BY <2>1, <2>2
<1> QED  BY <1>2, <1>5, <1>6 DEF AllTasks

LEMMA OthersKeep ==
    ASSUME NEW j, NEW m, NEW n \in Nat, NEW m2, NEW n2 \in Nat, NEW Z, PendingOK(j, m, n), n <= n2,
           MapMove(m, m2, Z), PendingIds(j) \cap Z = {}, \A k \in DOMAIN j.pending : j.pending[k].id \in Nat
    PROVE  PendingOK(j, m2, n2)
<1>1. \A x \in PendingIds(j) : x \in DOMAIN m <=> x \in DOMAIN m2
    BY DEF MapMove
<1>2. \A k \in DOMAIN j.pending : j.pending[k].id \in PendingIds(j)
    BY DEF PendingIds
<1>3. \A k \in DOMAIN j.pending : j.pending[k].id < n2
    BY DEF PendingOK
<1>4. \A k \in DOMAIN j.pending : j.pending[k].id \in DOMAIN m2 => m2[j.pending[k].id].data = j.pending[k].data
    BY <1>1, <1>2 DEF PendingOK, MapMove
<1>5. j.pc \in EarlyPCs => PendingIds(j) \cap DOMAIN m2 = {}
    BY <1>1 DEF PendingOK
<1>6. j.pc \in {"register", "create"} => PendingIds(j) \subseteq DOMAIN m2
    BY <1>1 DEF PendingOK
<1> QED  BY <1>3, <1>4, <1>5, <1>6 DEF PendingOK

LEMMA PendingType ==
    ASSUME Types, NEW w \in Writers
    PROVE  \A k \in DOMAIN job[w].pending : job[w].pending[k] \in Staged /\ job[w].pending[k].id \in Nat
<1>1. job[w] \in JobRecord
    BY JobType
<1>2. job[w].pending \in Seq(Staged)
    BY <1>1 DEF JobRecord
<1>3. \A k \in DOMAIN job[w].pending : job[w].pending[k] \in Staged
    BY <1>2
<1> QED  BY <1>3 DEF Staged

LEMMA OwnedKept ==
    ASSUME Types, AllTasks, Owned, NEW w \in Writers, NEW k, TypedStep(w, k), OwnedStep(w, k)
    PROVE  Owned'
<1>1. (\A v \in Writers \ {w} : job'[v] = job[v]) /\ job'[w] = k
    BY TypedKept
<1>2. \A x \in DOMAIN segment_map' : x < next_segment'
    BY DEF OwnedStep
<1>3. \A v \in Writers : PendingOK(job'[v], segment_map', next_segment')
  <2> TAKE v \in Writers
  <2>1. CASE v = w
    BY <1>1, <2>1 DEF OwnedStep
  <2>2. CASE v # w
    <3>1. PendingIds(job[v]) \cap PendingIds(job[w]) = {} /\ PendingOK(job[v], segment_map, next_segment)
        BY <2>2 DEF Owned
    <3>2. next_segment \in Nat /\ next_segment' \in Nat /\ next_segment <= next_segment'
          /\ MapMove(segment_map, segment_map', PendingIds(job[w]))
        BY DEF OwnedStep, Types
    <3>3. \A l \in DOMAIN job[v].pending : job[v].pending[l].id \in Nat
        BY PendingType
    <3>4. PendingOK(job[v], segment_map', next_segment')
        BY <3>1, <3>2, <3>3, OthersKeep
    <3> QED  BY <1>1, <2>2, <3>4
  <2> QED  BY <2>1, <2>2
<1>4. ASSUME NEW v \in Writers, v # w
      PROVE  PendingIds(job[v]) \cap PendingIds(k) = {}
  <2>1. PendingIds(job[v]) \cap PendingIds(job[w]) = {}
    BY <1>4 DEF Owned
  <2>2. \A x \in PendingIds(job[v]) : x \in Nat /\ x < next_segment
    <3>1. PendingOK(job[v], segment_map, next_segment)
        BY DEF Owned
    <3> QED  BY <3>1, PendingType DEF PendingIds, PendingOK
  <2>3. \A x \in PendingIds(k) : x \in PendingIds(job[w]) \/ next_segment <= x
    BY DEF OwnedStep
  <2>4. next_segment \in Nat
    BY DEF Types
  <2> QED  BY <2>1, <2>2, <2>3, <2>4
<1>5. \A v, u \in Writers : v # u => PendingIds(job'[v]) \cap PendingIds(job'[u]) = {}
  <2> SUFFICES ASSUME NEW v \in Writers, NEW u \in Writers, v # u
               PROVE  PendingIds(job'[v]) \cap PendingIds(job'[u]) = {}
    OBVIOUS
  <2>1. CASE v = w
    BY <1>1, <1>4, <2>1
  <2>2. CASE u = w
    BY <1>1, <1>4, <2>2
  <2>3. CASE v # w /\ u # w
    BY <1>1, <2>3 DEF Owned
  <2> QED  BY <2>1, <2>2, <2>3
<1> QED  BY <1>2, <1>3, <1>5 DEF Owned, PendingIds

LEMMA LiveKept ==
    ASSUME Types, AllTasks, Owned, Live, NEW w \in Writers, NEW k,
           TypedStep(w, k), OwnedStep(w, k), LiveStep(w, k)
    PROVE  Live'
<1> SUFFICES ASSUME ~unregistered'
             PROVE  LiveStore(content_store', segment_map') /\ \A v \in Writers : UndoOrdered(job'[v], content_store')
    BY DEF Live
<1>1. (\A v \in Writers \ {w} : job'[v] = job[v]) /\ job'[w] = k
    BY TypedKept
<1>2. /\ ~unregistered /\ LiveStore(content_store', segment_map') /\ UndoOrdered(k, content_store')
      /\ \A x \in Named(content_store') : x \in Named(content_store) \/ x \in PendingIds(job[w])
    BY DEF LiveStep
<1>3. ASSUME NEW v \in Writers, v # w
      PROVE  UndoOrdered(job[v], content_store')
  <2> DEFINE j == job[v]
  <2>1. PendingOK(j, segment_map, next_segment) /\ PendingIds(j) \cap PendingIds(job[w]) = {}
    BY <1>3 DEF Owned
  <2>2. UndoOrdered(j, content_store)
    BY <1>2 DEF Live
  <2> HIDE DEF j
  <2>3. j.pc = "undo" => \A l \in DOMAIN j.undo : j.undo[l].op = "remove" => j.undo[l].id \in PendingIds(j)
    BY <2>1 DEF PendingOK
  <2>4. \A x \in PendingIds(j) : x \notin Named(content_store) => x \notin Named(content_store')
    BY <1>2, <2>1
  <2>5. UndoOrdered(j, content_store')
    BY <2>2, <2>3, <2>4 DEF UndoOrdered
  <2> QED  BY <2>5 DEF j
<1>4. \A v \in Writers : UndoOrdered(job'[v], content_store')
    BY <1>1, <1>2, <1>3
<1> QED  BY <1>2, <1>4

LEMMA ChunksStill ==
    ASSUME NEW j, NEW m, NEW m2, NEW d \in Seq(Datas), NEW e, DataGrows(d, e), MapGrows(m, m2),
           TasksOK(j, d), ChunksOK(j, m, d)
    PROVE  ChunksOK(j, m2, e)
<1>1. \A x, c : InMap(x, c, m) => InMap(x, c, m2)
    BY DEF InMap, MapGrows
<1>2. CASE j.pc = "idle"
  <2>1. j.segs = << >>
    BY <1>2 DEF TasksOK
  <2>2. DOMAIN j.segs = {}
    BY <2>1
  <2> QED  BY <1>2, <2>2 DEF ChunksOK
<1>3. CASE j.pc # "idle"
  <2>1. j.cap \in 1 .. Len(d)
    BY <1>3 DEF TasksOK
  <2>2. e[j.cap] = d[j.cap]
    BY <2>1, DataKept
  <2> QED  BY <1>1, <2>2 DEF ChunksOK
<1> QED  BY <1>2, <1>3

LEMMA OrderedKept ==
    ASSUME Inv, NEW w \in Writers, NEW k, Step4(w, k)
    PROVE  Ordered'
<1>0. Types /\ AllTasks /\ Owned /\ Ordered /\ TypedStep(w, k) /\ OwnedStep(w, k) /\ OrderedStep(w, k)
    BY DEF Inv, Step4
<1> SUFFICES ASSUME NoSaveFailed'
             PROVE  /\ ~unregistered'
                    /\ \A v \in Writers : ChunksOK(job'[v], segment_map', data_of')
                    /\ \A c \in DOMAIN capsules' : c <= Len(data_of') /\ CapsuleOK(capsules'[c], data_of'[c], segment_map')
    BY DEF Ordered
<1>1. (\A v \in Writers \ {w} : job'[v] = job[v]) /\ job'[w] = k
    BY <1>0, TypedKept
<1>2. NoSaveFailed
    BY <1>0, AsyncAssumption DEF NoSaveFailed, TypedStep, Types
<1>3. /\ ~unregistered' /\ MapGrows(segment_map, segment_map') /\ ChunksOK(k, segment_map', data_of')
      /\ \A c \in DOMAIN capsules' :
            \/ c \in DOMAIN capsules /\ capsules'[c] = capsules[c]
            \/ c <= Len(data_of') /\ CapsuleOK(capsules'[c], data_of'[c], segment_map')
    BY <1>0 DEF OrderedStep
<1>4. /\ \A v \in Writers : ChunksOK(job[v], segment_map, data_of)
      /\ \A c \in DOMAIN capsules : c <= Len(data_of) /\ CapsuleOK(capsules[c], data_of[c], segment_map)
    BY <1>0, <1>2 DEF Ordered
<1>5. data_of \in Seq(Datas) /\ DataGrows(data_of, data_of') /\ CapsType(capsules)
    BY <1>0 DEF Types, TypedStep, CapsType
<1>6. \A v \in Writers : ChunksOK(job'[v], segment_map', data_of')
  <2> TAKE v \in Writers
  <2>1. CASE v = w
    BY <1>1, <1>3, <2>1
  <2>2. CASE v # w
    <3>1. TasksOK(job[v], data_of)
        BY <1>0 DEF AllTasks
    <3>2. ChunksOK(job[v], segment_map', data_of')
        BY <1>3, <1>4, <1>5, <3>1, ChunksStill
    <3> QED  BY <1>1, <2>2, <3>2
  <2> QED  BY <2>1, <2>2
<1>7. \A c \in DOMAIN capsules' : c <= Len(data_of') /\ CapsuleOK(capsules'[c], data_of'[c], segment_map')
  <2> TAKE c \in DOMAIN capsules'
  <2>1. CASE c \in DOMAIN capsules /\ capsules'[c] = capsules[c]
    <3>1. c <= Len(data_of) /\ CapsuleOK(capsules[c], data_of[c], segment_map)
        BY <1>4, <2>1
    <3>2. \A x, d : InMap(x, d, segment_map) => InMap(x, d, segment_map')
        BY <1>3 DEF InMap, MapGrows
    <3>3. CapsuleOK(capsules[c], data_of[c], segment_map')
        BY <3>1, <3>2 DEF CapsuleOK
    <3>4. 1 <= c /\ c \in Nat
        BY <1>0, <2>1 DEF Types
    <3>5. c \in 1 .. Len(data_of)
        BY <1>5, <3>1, <3>4
    <3>6. c \in 1 .. Len(data_of') /\ data_of'[c] = data_of[c]
        BY <1>5, <3>5, DataKept
    <3> QED  BY <2>1, <3>3, <3>6
  <2>2. CASE c <= Len(data_of') /\ CapsuleOK(capsules'[c], data_of'[c], segment_map')
    BY <2>2
  <2> QED  BY <1>3, <2>1, <2>2
<1> QED  BY <1>3, <1>6, <1>7

LEMMA StepKeeps ==
    ASSUME Inv, NEW w \in Writers, NEW k, Step4(w, k)
    PROVE  Inv'
<1>1. Types /\ AllTasks /\ Owned /\ Live /\ TypedStep(w, k) /\ OwnedStep(w, k) /\ LiveStep(w, k)
    BY DEF Inv, Step4
<1>2. Types' /\ AllTasks'
    BY <1>1, TypedKept
<1>3. Owned'
    BY <1>1, OwnedKept
<1>4. Live'
    BY <1>1, LiveKept
<1>5. Ordered'
    BY OrderedKept
<1> QED  BY <1>2, <1>3, <1>4, <1>5 DEF Inv

-----------------------------------------------------------------------------
(* Parts of these that many steps share.                                   *)

LEMMA SameDataRefl == \A m : SameData(m, m)
BY DEF SameData

(* The staged segments are the same but for their counts.                  *)
SamePending(j, k) ==
    /\ DOMAIN k.pending = DOMAIN j.pending
    /\ \A i \in DOMAIN j.pending : k.pending[i].id = j.pending[i].id /\ k.pending[i].data = j.pending[i].data

LEMMA SameIds ==
    ASSUME NEW j, NEW k, SamePending(j, k)
    PROVE  PendingIds(k) = PendingIds(j)
BY DEF SamePending, PendingIds

RemovesOwn(k) ==
    k.pc = "undo" => \A l \in DOMAIN k.undo : k.undo[l].op = "remove" => k.undo[l].id \in PendingIds(k)

LEMMA QuietOwned ==
    ASSUME Types, Owned, NEW w \in Writers, NEW k, next_segment' = next_segment,
           SameData(segment_map, segment_map'), SamePending(job[w], k),
           k.pc \in EarlyPCs => job[w].pc \in EarlyPCs,
           k.pc \in {"register", "create"} => job[w].pc \in {"register", "create"},
           RemovesOwn(k)
    PROVE  OwnedStep(w, k)
<1> DEFINE j == job[w]
<1>1. PendingOK(j, segment_map, next_segment) /\ \A x \in DOMAIN segment_map : x < next_segment
    BY DEF Owned
<1>2. next_segment \in Nat
    BY DEF Types
<1> HIDE DEF j
<1>3. PendingIds(k) = PendingIds(j) /\ SamePending(j, k)
    BY SameIds DEF j
<1>4. PendingOK(k, segment_map', next_segment')
  <2>1. \A l \in DOMAIN k.pending : k.pending[l].id < next_segment'
    BY <1>1, <1>3 DEF PendingOK, SamePending
  <2>2. \A l, i \in DOMAIN k.pending : k.pending[l].id = k.pending[i].id => l = i
    BY <1>1, <1>3 DEF PendingOK, SamePending
  <2>3. k.pc \in EarlyPCs => PendingIds(k) \cap DOMAIN segment_map' = {}
    BY <1>1, <1>3 DEF PendingOK, SameData, j
  <2>4. \A l \in DOMAIN k.pending : k.pending[l].id \in DOMAIN segment_map'
                => segment_map'[k.pending[l].id].data = k.pending[l].data
    BY <1>1, <1>3 DEF PendingOK, SamePending, SameData
  <2>5. k.pc \in {"register", "create"} => PendingIds(k) \subseteq DOMAIN segment_map'
    BY <1>1, <1>3 DEF PendingOK, SameData, j
  <2> QED  BY <2>1, <2>2, <2>3, <2>4, <2>5 DEF PendingOK, RemovesOwn
<1>5. MapMove(segment_map, segment_map', PendingIds(job[w]))
    BY DEF MapMove, SameData
<1> QED  BY <1>1, <1>2, <1>3, <1>4, <1>5 DEF OwnedStep, SameData, j

(* A call that has staged nothing.                                         *)
LEMMA NoneOwned ==
    ASSUME Types, Owned, NEW w \in Writers, NEW k, next_segment' = next_segment,
           MapMove(segment_map, segment_map', PendingIds(job[w])),
           DOMAIN segment_map' \subseteq DOMAIN segment_map, k.pending = << >>, k.pc # "undo"
    PROVE  OwnedStep(w, k)
<1>1. DOMAIN k.pending = {} /\ PendingIds(k) = {}
    BY DEF PendingIds
<1>2. PendingOK(k, segment_map', next_segment')
    BY <1>1 DEF PendingOK
<1>3. next_segment \in Nat /\ \A x \in DOMAIN segment_map : x < next_segment
    BY DEF Types, Owned
<1> QED  BY <1>1, <1>2, <1>3 DEF OwnedStep

LEMMA SameMapMove ==
    ASSUME NEW m, NEW n, SameData(m, n), NEW Z
    PROVE  MapMove(m, n, Z) /\ MapGrows(m, n) /\ DOMAIN n \subseteq DOMAIN m
BY DEF SameData, MapMove, MapGrows

LEMMA QuietLive ==
    ASSUME Live, NEW w \in Writers, NEW k, content_store' = content_store, unregistered' = unregistered,
           SameData(segment_map, segment_map'), ~unregistered => UndoOrdered(k, content_store)
    PROVE  LiveStep(w, k)
BY DEF Live, LiveStep, LiveStore, SameData

LEMMA QuietOrdered ==
    ASSUME Types, AllTasks, Ordered, NEW w \in Writers, NEW k,
           NoSaveFailed' => SameData(segment_map, segment_map'),
           capsules' = capsules, unregistered' = unregistered, save_fails' <= save_fails,
           NoSaveFailed' /\ ChunksOK(job[w], segment_map, data_of) => ChunksOK(k, segment_map', data_of'),
           save_fails' \in 0 .. MaxSaveFails
    PROVE  OrderedStep(w, k)
<1> SUFFICES ASSUME NoSaveFailed'
             PROVE  /\ ~unregistered' /\ MapGrows(segment_map, segment_map')
                    /\ ChunksOK(k, segment_map', data_of')
    BY DEF OrderedStep
<1>1. NoSaveFailed
    BY AsyncAssumption DEF NoSaveFailed, Types
<1>2. ~unregistered /\ ChunksOK(job[w], segment_map, data_of)
    BY <1>1 DEF Ordered
<1> QED  BY <1>2, SameMapMove

LEMMA QuietTyped ==
    ASSUME Types, NEW w \in Writers, NEW k, Becomes(w, k), SegmentMaps(segment_map'),
           content_store' = content_store, capsules' = capsules, DataGrows(data_of, data_of'),
           unregistered' = unregistered, task_fails' \in Nat, save_fails' \in 0 .. MaxSaveFails,
           save_fails' <= save_fails
    PROVE  TypedStep(w, k)
BY DEF Types, TypedStep, StoreType, CapsType

(* Saves that fail are counted.                                            *)
LEMMA SaveCounted ==
    ASSUME Types
    PROVE  /\ save_fails' = save_fails => save_fails' \in 0 .. MaxSaveFails /\ save_fails' <= save_fails
           /\ SaveFails => save_fails' \in 0 .. MaxSaveFails /\ save_fails' <= save_fails /\ ~NoSaveFailed'
BY AsyncAssumption DEF Types, SaveFails, NoSaveFailed

(* The chunks of a call that keeps its segments.                           *)
LEMMA ChunksSame ==
    ASSUME NEW j, NEW k, NEW m, NEW n, NEW d, ChunksOK(j, m, d), SameData(m, n),
           k.segs = j.segs, k.cap = j.cap, k.pending = j.pending,
           k.pc # "undo", j.pc # "undo", j.pc \in EarlyPCs => k.pc \in EarlyPCs,
           k.pc = "increment" => InMap(k.hit, d[k.cap][k.next], n)
    PROVE  ChunksOK(k, n, d)
<1>1. \A x, c : InMap(x, c, m) => InMap(x, c, n)
    BY DEF InMap, SameData
<1>2. \A x, c : InPending(x, c, j) => InPending(x, c, k)
    BY DEF InPending
<1> QED  BY <1>1, <1>2 DEF ChunksOK

-----------------------------------------------------------------------------
(* The steps, one by one.                                                  *)

LEMMA ShuffleKeeps ==
    ASSUME Inv, NEW w \in Writers, ShuffleActions(w)
    PROVE  \E k : Step4(w, k)
<1>1. Types /\ AllTasks /\ Owned /\ Live /\ Ordered
    BY DEF Inv
<1>2. PICK k : ShuffledTo(w, k)
    BY <1>1, ShuffleStep
<1> DEFINE j == job[w]
<1>3. /\ k \in JobRecord /\ job' = [job EXCEPT ![w] = k] /\ SameCore(j, k) /\ MovesOn(j.pc, k.pc)
      /\ TasksOK(k, data_of) /\ task_fails' \in Nat
      /\ UNCHANGED <<segment_map, content_store, capsules, next_segment, data_of, unregistered, save_fails>>
    BY <1>2 DEF ShuffledTo, Shuffled
<1>4. SameData(segment_map, segment_map') /\ SegmentMaps(segment_map') /\ DataGrows(data_of, data_of')
    BY <1>1, <1>3, SameDataRefl DEF Types, DataGrows
<1>5. save_fails' \in 0 .. MaxSaveFails /\ save_fails' <= save_fails
    BY <1>1, <1>3, SaveCounted
<1>6. Becomes(w, k)
    BY <1>3 DEF Becomes
<1>7. TypedStep(w, k)
    BY <1>1, <1>3, <1>4, <1>5, <1>6, QuietTyped
<1>8. /\ k.pc \in EarlyPCs <=> j.pc \in EarlyPCs
      /\ k.pc \in {"register", "create"} <=> j.pc \in {"register", "create"}
      /\ k.pc = "undo" <=> j.pc = "undo"
      /\ k.pc = "increment" => j.pc = "increment"
    BY <1>3 DEF MovesOn, EarlyPCs
<1>9. SamePending(j, k) /\ PendingIds(k) = PendingIds(j) /\ k.undo = j.undo /\ k.pending = j.pending
    BY <1>3 DEF SameCore, SamePending, PendingIds
<1>10. RemovesOwn(k)
  <2>1. PendingOK(j, segment_map, next_segment)
    BY <1>1 DEF Owned
  <2> QED  BY <1>8, <1>9, <2>1 DEF RemovesOwn, PendingOK
<1>11. OwnedStep(w, k)
    BY <1>1, <1>3, <1>4, <1>8, <1>9, <1>10, QuietOwned
<1>12. ~unregistered => UndoOrdered(k, content_store)
  <2>1. ~unregistered => UndoOrdered(j, content_store)
    BY <1>1 DEF Live
  <2> QED  BY <1>8, <1>9, <2>1 DEF UndoOrdered
<1>13. LiveStep(w, k)
    BY <1>1, <1>3, <1>4, <1>12, QuietLive
<1>14. ChunksOK(j, segment_map, data_of) => ChunksOK(k, segment_map', data_of')
  <2>1. CASE j.pc = "undo"
    BY <1>8, <1>9, <2>1 DEF ChunksOK
  <2>2. CASE j.pc # "undo"
    <3>1. k.segs = j.segs /\ k.cap = j.cap /\ k.pending = j.pending /\ k.hit = j.hit /\ k.next = j.next
        BY <1>3 DEF SameCore
    <3>2. \A x, c : InPending(x, c, j) => InPending(x, c, k)
        BY <3>1 DEF InPending
    <3> QED  BY <1>3, <1>8, <2>2, <3>1, <3>2 DEF ChunksOK
  <2> QED  BY <2>1, <2>2
<1>15. OrderedStep(w, k)
    BY <1>1, <1>3, <1>4, <1>5, <1>14, QuietOrdered
<1> QED  BY <1>7, <1>11, <1>13, <1>15 DEF Step4

LEMMA BeginKeeps ==
    ASSUME Inv, NEW w \in Writers, NEW data \in Datas, NEW dedupe \in BOOLEAN,
           WriteCapsuleAsync(w, data, dedupe)
    PROVE  \E k : Step4(w, k)
<1>1. Types /\ AllTasks /\ Owned /\ Live /\ Ordered
    BY DEF Inv
<1>2. PICK k : Begins(w, k)
    BY <1>1, WriteBegins
<1>3. /\ Becomes(w, k) /\ k.pc \in {"create", "spawn"} /\ k.pending = << >> /\ k.segs = << >>
      /\ k.pc # "undo" /\ k.pc # "increment"
    BY <1>2 DEF Begins
<1>4. /\ UNCHANGED <<segment_map, content_store, capsules, next_segment, unregistered, task_fails, save_fails>>
      /\ data_of' = Append(data_of, data)
    BY DEF WriteCapsuleAsync, shared
<1>5. SameData(segment_map, segment_map') /\ SegmentMaps(segment_map') /\ DataGrows(data_of, data_of') /\ task_fails' \in Nat
    BY <1>1, <1>4, SameDataRefl DEF Types, DataGrows
<1>6. save_fails' \in 0 .. MaxSaveFails /\ save_fails' <= save_fails
    BY <1>1, <1>4, SaveCounted
<1>7. TypedStep(w, k)
    BY <1>1, <1>3, <1>4, <1>5, <1>6, QuietTyped
<1>8. MapMove(segment_map, segment_map', PendingIds(job[w])) /\ DOMAIN segment_map' \subseteq DOMAIN segment_map
    BY <1>5, SameMapMove
<1>9. OwnedStep(w, k)
    BY <1>1, <1>3, <1>4, <1>8, NoneOwned
<1>10. UndoOrdered(k, content_store)
    BY <1>3 DEF UndoOrdered
<1>11. LiveStep(w, k)
    BY <1>1, <1>4, <1>5, <1>10, QuietLive
<1>12. DOMAIN k.segs = {}
    BY <1>3
<1>13. ChunksOK(k, segment_map', data_of')
    BY <1>3, <1>12 DEF ChunksOK
<1>14. OrderedStep(w, k)
    BY <1>1, <1>4, <1>5, <1>6, <1>13, QuietOrdered
<1> QED  BY <1>7, <1>9, <1>11, <1>14 DEF Step4

(* The call returns and the maps keep their data.                          *)
LEMMA ReturnKeeps ==
    ASSUME Inv, NEW w \in Writers, Return(w), data_of' = data_of, capsules' = capsules,
           next_segment' = next_segment, unregistered' = unregistered, task_fails' \in Nat,
           UNCHANGED <<segment_map, content_store, save_fails>>
    PROVE  Step4(w, IdleJob)
<1>1. Types /\ AllTasks /\ Owned /\ Live /\ Ordered
    BY DEF Inv
<1> DEFINE k == IdleJob
<1>2. Becomes(w, k) /\ k.pc = "idle" /\ k.pending = << >> /\ k.segs = << >>
    BY IdleType DEF Return, Becomes
<1> HIDE DEF k
<1>3. SameData(segment_map, segment_map') /\ SegmentMaps(segment_map') /\ DataGrows(data_of, data_of')
    BY <1>1, SameDataRefl DEF Types, DataGrows
<1>4. save_fails' \in 0 .. MaxSaveFails /\ save_fails' <= save_fails
    BY <1>1, SaveCounted
<1>5. TypedStep(w, k)
    BY <1>1, <1>2, <1>3, <1>4, QuietTyped
<1>6. MapMove(segment_map, segment_map', PendingIds(job[w])) /\ DOMAIN segment_map' \subseteq DOMAIN segment_map
    BY <1>3, SameMapMove
<1>7. OwnedStep(w, k)
    BY <1>1, <1>2, <1>6, NoneOwned
<1>8. UndoOrdered(k, content_store)
    BY <1>2 DEF UndoOrdered
<1>9. LiveStep(w, k)
    BY <1>1, <1>3, <1>8, QuietLive
<1>10. DOMAIN k.segs = {}
    BY <1>2
<1>11. ChunksOK(k, segment_map', data_of')
    BY <1>2, <1>10 DEF ChunksOK
<1>12. OrderedStep(w, k)
    BY <1>1, <1>3, <1>4, <1>11, QuietOrdered
<1> QED  BY <1>5, <1>7, <1>9, <1>12 DEF Step4, k

(* A call that takes a segment with the content of its next chunk.         *)
LEMMA TakesChunks ==
    ASSUME NEW j \in JobRecord, NEW k, NEW x \in Nat, NEW m, NEW n, NEW d,
           ChunksOK(j, m, d), TasksOK(j, d), TakesSegment(j, k, x), SameData(m, n),
           j.pc \in {"take", "increment"},
           \A y, c : InPending(y, c, j) => InPending(y, c, k),
           InMap(x, d[j.cap][j.next], n) \/ InPending(x, d[j.cap][j.next], k)
    PROVE  ChunksOK(k, n, d)
<1>1. j.segs \in Seq(Nat) /\ j.next \in Nat
    BY DEF JobRecord
<1>2. \A y, c : InMap(y, c, m) => InMap(y, c, n)
    BY DEF InMap, SameData
<1>3. k.pc = "take" /\ k.segs = Append(j.segs, x) /\ k.cap = j.cap /\ k.pc \in EarlyPCs
    BY DEF TakesSegment, EarlyPCs
<1>4. Len(j.segs) + 1 = j.next
    BY DEF TasksOK
<1>5. /\ DOMAIN k.segs = DOMAIN j.segs \cup {j.next} /\ k.segs[j.next] = x
      /\ \A i \in DOMAIN j.segs : k.segs[i] = j.segs[i]
    BY <1>1, <1>3, <1>4
<1>6. j.pc # "undo"
    OBVIOUS
<1> DEFINE G(i) == InMap(k.segs[i], d[j.cap][i], n) \/ InPending(k.segs[i], d[j.cap][i], k)
<1>7. \A i \in DOMAIN j.segs : G(i)
    BY <1>2, <1>5, <1>6 DEF ChunksOK
<1>8. G(j.next)
    BY <1>5
<1>9. \A i \in DOMAIN k.segs : G(i)
    BY <1>5, <1>7, <1>8
<1> QED  BY <1>3, <1>9 DEF ChunksOK

LEMMA RestageKeeps ==
    ASSUME Inv, NEW w \in Writers, CommitSegment(w), NEW k, NEW i, Restages(w, k, i)
    PROVE  Step4(w, k)
<1>1. Types /\ AllTasks /\ Owned /\ Live /\ Ordered
    BY DEF Inv
<1> DEFINE j == job[w]
           hash == Data(w)[j.next]
           x == j.pending[i].id
<1>2. /\ Becomes(w, k) /\ i \in StagedIndex(w, hash) /\ TakesSegment(j, k, x)
      /\ k.pending = [j.pending EXCEPT ![i].ref_count = @ + 1] /\ next_segment' = next_segment
    BY DEF Restages
<1>3. UNCHANGED <<segment_map, content_store, capsules, data_of, unregistered, task_fails, save_fails>>
    BY DEF CommitSegment
<1>4. SameData(segment_map, segment_map') /\ SegmentMaps(segment_map') /\ DataGrows(data_of, data_of') /\ task_fails' \in Nat
    BY <1>1, <1>3, SameDataRefl DEF Types, DataGrows
<1>5. save_fails' \in 0 .. MaxSaveFails /\ save_fails' <= save_fails
    BY <1>1, <1>3, SaveCounted
<1>6. j.pc = "take" /\ k.pc = "take" /\ k.pc \in EarlyPCs /\ j.pc \in EarlyPCs /\ j \in JobRecord
    BY <1>1, <1>2, JobType DEF CommitSegment, At, TakesSegment, EarlyPCs
<1>7. i \in DOMAIN j.pending /\ j.pending[i].data = hash
    BY <1>2 DEF StagedIndex
<1>8. SamePending(j, k)
  <2>1. j.pending \in Seq(Staged)
    BY <1>6 DEF JobRecord
  <2>2. \A l \in DOMAIN j.pending : j.pending[l] \in Staged
    BY <2>1
  <2>3. DOMAIN k.pending = DOMAIN j.pending /\ k.pending[i] = [j.pending[i] EXCEPT !.ref_count = @ + 1]
        /\ \A l \in DOMAIN j.pending : l # i => k.pending[l] = j.pending[l]
    BY <1>2, <1>7
  <2>4. k.pending[i].id = j.pending[i].id /\ k.pending[i].data = j.pending[i].data
    BY <1>7, <2>2, <2>3 DEF Staged
  <2> QED  BY <2>3, <2>4 DEF SamePending
<1>9. TypedStep(w, k)
    BY <1>1, <1>2, <1>3, <1>4, <1>5, QuietTyped
<1>10. RemovesOwn(k)
    BY <1>6 DEF RemovesOwn
<1>11. OwnedStep(w, k)
    BY <1>1, <1>2, <1>4, <1>6, <1>8, <1>10, QuietOwned
<1>12. UndoOrdered(k, content_store)
    BY <1>6 DEF UndoOrdered
<1>13. LiveStep(w, k)
    BY <1>1, <1>3, <1>4, <1>12, QuietLive
<1>14. ChunksOK(j, segment_map, data_of) => ChunksOK(k, segment_map', data_of')
  <2>1. \A y, c : InPending(y, c, j) => InPending(y, c, k)
    BY <1>8 DEF InPending, SamePending
  <2>2. InPending(x, hash, j) /\ hash = data_of[j.cap][j.next]
    BY <1>7 DEF InPending, Data
  <2>3. x \in Nat /\ TasksOK(j, data_of)
    BY <1>1, <1>7, PendingType DEF AllTasks
  <2>4. InPending(x, data_of[j.cap][j.next], k)
    BY <2>1, <2>2
  <2> HIDE DEF x, j, hash
  <2>5. ASSUME ChunksOK(j, segment_map, data_of) PROVE ChunksOK(k, segment_map', data_of)
    BY <1>2, <1>4, <1>6, <2>1, <2>3, <2>4, <2>5, TakesChunks
  <2> QED  BY <1>3, <2>5
<1>15. OrderedStep(w, k)
    BY <1>1, <1>3, <1>4, <1>5, <1>14, QuietOrdered
<1> QED  BY <1>9, <1>11, <1>13, <1>15 DEF Step4

LEMMA FindKeeps ==
    ASSUME Inv, NEW w \in Writers, CommitSegment(w), NEW k, Finds(w, k)
    PROVE  Step4(w, k)
<1>1. Types /\ AllTasks /\ Owned /\ Live /\ Ordered
    BY DEF Inv
<1> DEFINE j == job[w]
           hash == Data(w)[j.next]
<1>2. /\ Becomes(w, k) /\ hash \in DOMAIN content_store /\ k.pc = "increment"
      /\ k.hit = content_store[hash] /\ SameCall(j, k) /\ next_segment' = next_segment
    BY DEF Finds
<1>3. UNCHANGED <<segment_map, content_store, capsules, data_of, unregistered, task_fails, save_fails>>
    BY DEF CommitSegment
<1>4. SameData(segment_map, segment_map') /\ SegmentMaps(segment_map') /\ DataGrows(data_of, data_of') /\ task_fails' \in Nat
    BY <1>1, <1>3, SameDataRefl DEF Types, DataGrows
<1>5. save_fails' \in 0 .. MaxSaveFails /\ save_fails' <= save_fails
    BY <1>1, <1>3, SaveCounted
<1>6. j.pc = "take" /\ k.pc \in EarlyPCs /\ j.pc \in EarlyPCs
    BY <1>2 DEF CommitSegment, At, EarlyPCs
<1>7. SamePending(j, k) /\ RemovesOwn(k) /\ UndoOrdered(k, content_store)
    BY <1>2 DEF SameCall, SamePending, RemovesOwn, UndoOrdered
<1>8. TypedStep(w, k)
    BY <1>1, <1>2, <1>3, <1>4, <1>5, QuietTyped
<1>9. OwnedStep(w, k)
    BY <1>1, <1>2, <1>4, <1>6, <1>7, QuietOwned
<1>10. LiveStep(w, k)
    BY <1>1, <1>3, <1>4, <1>7, QuietLive
<1>11. ASSUME NoSaveFailed, ChunksOK(j, segment_map, data_of)
       PROVE  ChunksOK(k, segment_map', data_of')
  <2>1. LiveStore(content_store, segment_map)
    BY <1>1, <1>11 DEF Live, Ordered
  <2>2. InMap(k.hit, hash, segment_map)
    BY <1>2, <2>1 DEF LiveStore, InMap
  <2>3. k.cap = j.cap /\ k.next = j.next /\ k.segs = j.segs /\ k.pending = j.pending
    BY <1>2 DEF SameCall
  <2>4. InMap(k.hit, data_of[k.cap][k.next], segment_map')
    BY <1>3, <2>2, <2>3 DEF Data
  <2> HIDE DEF j, hash
  <2>5. ChunksOK(k, segment_map', data_of)
    BY <1>2, <1>4, <1>6, <1>11, <2>3, <2>4, ChunksSame
  <2> QED  BY <1>3, <2>5
<1>12. NoSaveFailed' => NoSaveFailed
    BY <1>3 DEF NoSaveFailed
<1>13. OrderedStep(w, k)
    BY <1>1, <1>3, <1>4, <1>5, <1>11, <1>12, QuietOrdered
<1> QED  BY <1>8, <1>9, <1>10, <1>13 DEF Step4

LEMMA StageKeeps ==
    ASSUME Inv, NEW w \in Writers, CommitSegment(w), NEW k, Stages(w, k), Data(w)[job[w].next] \in Contents
    PROVE  Step4(w, k)
<1>1. Types /\ AllTasks /\ Owned /\ Live /\ Ordered
    BY DEF Inv
<1> DEFINE j == job[w]
           hash == Data(w)[j.next]
           x == next_segment
           s == [id |-> x, data |-> hash, ref_count |-> 1]
<1>2. /\ Becomes(w, k) /\ TakesSegment(j, k, x) /\ k.pending = Append(j.pending, s)
      /\ next_segment' = next_segment + 1
    BY DEF Stages
<1>3. UNCHANGED <<segment_map, content_store, capsules, data_of, unregistered, task_fails, save_fails>>
    BY DEF CommitSegment
<1>4. SameData(segment_map, segment_map') /\ SegmentMaps(segment_map') /\ DataGrows(data_of, data_of') /\ task_fails' \in Nat
    BY <1>1, <1>3, SameDataRefl DEF Types, DataGrows
<1>5. save_fails' \in 0 .. MaxSaveFails /\ save_fails' <= save_fails
    BY <1>1, <1>3, SaveCounted
<1>6. j.pc = "take" /\ k.pc = "take" /\ k.pc \in EarlyPCs /\ j.pc \in EarlyPCs /\ j \in JobRecord
    BY <1>1, <1>2, JobType DEF CommitSegment, At, TakesSegment, EarlyPCs
<1>7. j.pending \in Seq(Staged) /\ next_segment \in Nat /\ s.id = x /\ s.data = hash
    BY <1>1, <1>6 DEF JobRecord, Types
<1> DEFINE L == Len(j.pending) + 1
<1>8. /\ DOMAIN k.pending = DOMAIN j.pending \cup {L} /\ L \notin DOMAIN j.pending
      /\ k.pending[L] = s /\ \A l \in DOMAIN j.pending : k.pending[l] = j.pending[l]
    BY <1>2, <1>7
<1>9. k.pending[L].id = x /\ k.pending[L].data = hash
    BY <1>7, <1>8
<1> HIDE DEF L, s
<1>10. PendingIds(k) = PendingIds(j) \cup {x}
  <2>1. \A l \in DOMAIN k.pending : k.pending[l].id \in PendingIds(j) \cup {x}
    BY <1>8, <1>9 DEF PendingIds
  <2>2. \A l \in DOMAIN j.pending : j.pending[l].id \in PendingIds(k)
    BY <1>8 DEF PendingIds
  <2>3. x \in PendingIds(k)
    BY <1>8, <1>9 DEF PendingIds
  <2> QED  BY <2>1, <2>2, <2>3 DEF PendingIds
<1>11. PendingOK(j, segment_map, next_segment) /\ \A y \in DOMAIN segment_map : y < next_segment
    BY <1>1 DEF Owned
<1>12. \A y \in DOMAIN segment_map : y \in Nat /\ y < next_segment'
    BY <1>1, <1>2, <1>7, <1>11 DEF Types, SegmentMaps
<1>13. x \notin DOMAIN segment_map
    BY <1>7, <1>11
<1>14. \A l \in DOMAIN j.pending : j.pending[l].id \in Nat /\ j.pending[l].id < x
    BY <1>1, <1>11, PendingType DEF PendingOK
<1>15. PendingOK(k, segment_map', next_segment')
  <2>1. \A l \in DOMAIN k.pending : k.pending[l].id < next_segment'
    BY <1>2, <1>7, <1>8, <1>9, <1>14
  <2>2. \A l, i \in DOMAIN k.pending : k.pending[l].id = k.pending[i].id => l = i
    <3> SUFFICES ASSUME NEW l \in DOMAIN k.pending, NEW i \in DOMAIN k.pending, k.pending[l].id = k.pending[i].id
                 PROVE  l = i
        OBVIOUS
    <3>1. CASE l \in DOMAIN j.pending /\ i \in DOMAIN j.pending
        BY <1>8, <1>11, <3>1 DEF PendingOK
    <3>2. CASE l = L /\ i \in DOMAIN j.pending
        BY <1>7, <1>8, <1>9, <1>14, <3>2
    <3>3. CASE i = L /\ l \in DOMAIN j.pending
        BY <1>7, <1>8, <1>9, <1>14, <3>3
    <3> QED  BY <1>8, <3>1, <3>2, <3>3
  <2>3. k.pc \in EarlyPCs => PendingIds(k) \cap DOMAIN segment_map' = {}
    BY <1>3, <1>6, <1>10, <1>11, <1>13 DEF PendingOK
  <2>4. \A l \in DOMAIN k.pending : k.pending[l].id \in DOMAIN segment_map'
            => segment_map'[k.pending[l].id].data = k.pending[l].data
    BY <1>3, <1>8, <1>9, <1>11, <1>13 DEF PendingOK
  <2>5. k.pc \notin {"register", "create"} /\ k.pc # "undo"
    BY <1>6
  <2> QED  BY <2>1, <2>2, <2>3, <2>4, <2>5 DEF PendingOK
<1>16. MapMove(segment_map, segment_map', PendingIds(job[w]))
    BY <1>4, SameMapMove
<1>17. OwnedStep(w, k)
  <2>1. next_segment' \in Nat /\ next_segment <= next_segment' /\ next_segment <= x
    BY <1>2, <1>7
  <2>2. \A y \in PendingIds(k) : y \in PendingIds(j) \/ next_segment <= y
    BY <1>10, <2>1
  <2>3. \A y \in DOMAIN segment_map' : y < next_segment'
    BY <1>3, <1>12
  <2> QED  BY <1>15, <1>16, <2>1, <2>2, <2>3 DEF OwnedStep
<1>18. TypedStep(w, k)
    BY <1>1, <1>2, <1>3, <1>4, <1>5, QuietTyped
<1>19. UndoOrdered(k, content_store)
    BY <1>6 DEF UndoOrdered
<1>20. LiveStep(w, k)
    BY <1>1, <1>3, <1>4, <1>19, QuietLive
<1>21. ChunksOK(j, segment_map, data_of) => ChunksOK(k, segment_map', data_of')
  <2>1. \A y, c : InPending(y, c, j) => InPending(y, c, k)
    BY <1>8 DEF InPending
  <2>2. InPending(x, hash, k) /\ hash = data_of[j.cap][j.next]
    BY <1>8, <1>9 DEF InPending, Data
  <2>3. x \in Nat /\ TasksOK(j, data_of)
    BY <1>1, <1>7 DEF AllTasks
  <2>4. InPending(x, data_of[j.cap][j.next], k)
    BY <2>2
  <2> HIDE DEF x, j, hash
  <2>5. ASSUME ChunksOK(j, segment_map, data_of) PROVE ChunksOK(k, segment_map', data_of)
    BY <1>2, <1>4, <1>6, <2>1, <2>3, <2>4, <2>5, TakesChunks
  <2> QED  BY <1>3, <2>5
<1>22. OrderedStep(w, k)
    BY <1>1, <1>3, <1>4, <1>5, <1>21, QuietOrdered
<1> QED  BY <1>17, <1>18, <1>20, <1>22 DEF Step4

LEMMA CommitSegmentKeeps ==
    ASSUME Inv, NEW w \in Writers, CommitSegment(w)
    PROVE  \E k : Step4(w, k)
<1>1. Types /\ AllTasks
    BY DEF Inv
<1>2. /\ Data(w)[job[w].next] \in Contents
      /\ \E k : (\E i : Restages(w, k, i)) \/ Finds(w, k) \/ Stages(w, k)
    BY <1>1, CommitSegmentStep
<1> QED  BY <1>2, RestageKeeps, FindKeeps, StageKeeps

LEMMA IncrementKeeps ==
    ASSUME Inv, NEW w \in Writers, IncrementRefcount(w)
    PROVE  \E k : Step4(w, k)
<1>1. Types /\ AllTasks /\ Owned /\ Live /\ Ordered
    BY DEF Inv
<1> DEFINE j == job[w]
           x == j.hit
<1>2. PICK k : Increments(w, k)
    BY <1>1, IncrementStep
<1>3. j.pc = "increment" /\ SegmentMaps(segment_map') /\ SameData(segment_map, segment_map')
    BY <1>1, IncrementStep
<1>4. UNCHANGED <<content_store, capsules, next_segment, data_of, unregistered, task_fails, save_fails>>
    BY DEF IncrementRefcount
<1>5. Becomes(w, k) /\ TakesSegment(j, k, x) /\ k.pending = j.pending
    BY <1>2 DEF Increments
<1>6. DataGrows(data_of, data_of') /\ task_fails' \in Nat
    BY <1>1, <1>4 DEF Types, DataGrows
<1>7. save_fails' \in 0 .. MaxSaveFails /\ save_fails' <= save_fails
    BY <1>1, <1>4, SaveCounted
<1>8. k.pc = "take" /\ k.pc \in EarlyPCs /\ j.pc \in EarlyPCs /\ j \in JobRecord /\ x \in Nat
    BY <1>1, <1>3, <1>5, JobType DEF TakesSegment, EarlyPCs, JobRecord
<1>9. SamePending(j, k) /\ RemovesOwn(k) /\ UndoOrdered(k, content_store)
    BY <1>5, <1>8 DEF SamePending, RemovesOwn, UndoOrdered
<1>10. TypedStep(w, k)
    BY <1>1, <1>3, <1>4, <1>5, <1>6, <1>7, QuietTyped
<1>11. OwnedStep(w, k)
    BY <1>1, <1>3, <1>4, <1>8, <1>9, QuietOwned
<1>12. LiveStep(w, k)
    BY <1>1, <1>3, <1>4, <1>9, QuietLive
<1>13. ASSUME ChunksOK(j, segment_map, data_of)
       PROVE  ChunksOK(k, segment_map', data_of')
  <2>1. InMap(x, data_of[j.cap][j.next], segment_map)
    BY <1>3, <1>13 DEF ChunksOK
  <2>2. InMap(x, data_of[j.cap][j.next], segment_map')
    BY <1>3, <2>1 DEF InMap, SameData
  <2>3. \A y, c : InPending(y, c, j) => InPending(y, c, k)
    BY <1>5 DEF InPending
  <2>4. TasksOK(j, data_of)
    BY <1>1 DEF AllTasks
  <2> HIDE DEF x, j
  <2>5. ChunksOK(k, segment_map', data_of)
    BY <1>3, <1>5, <1>8, <1>13, <2>2, <2>3, <2>4, TakesChunks
  <2> QED  BY <1>4, <2>5
<1>14. OrderedStep(w, k)
    BY <1>1, <1>3, <1>4, <1>7, <1>13, QuietOrdered
<1> QED  BY <1>10, <1>11, <1>12, <1>14 DEF Step4

LEMMA IncrementFailsKeeps ==
    ASSUME Inv, NEW w \in Writers, IncrementFails(w)
    PROVE  \E k : Step4(w, k)
<1>1. Types /\ AllTasks /\ Owned /\ Live /\ Ordered
    BY DEF Inv
<1> DEFINE j == job[w]
<1>2. PICK k : Becomes(w, k) /\ SameCall(j, k) /\ k.pc = "join"
    BY <1>1, IncrementFailsStep
<1>3. j.pc = "increment" /\ SegmentMaps(segment_map') /\ SameData(segment_map, segment_map')
        /\ save_fails' \in 0 .. MaxSaveFails
    BY <1>1, IncrementFailsStep
<1>4. UNCHANGED <<content_store, capsules, next_segment, data_of, unregistered, task_fails>>
    BY DEF IncrementFails
<1>5. save_fails' <= save_fails
    BY <1>1, SaveCounted DEF IncrementFails
<1>6. DataGrows(data_of, data_of') /\ task_fails' \in Nat
    BY <1>1, <1>4 DEF Types, DataGrows
<1>7. k.pc \in EarlyPCs /\ j.pc \in EarlyPCs
    BY <1>2, <1>3 DEF EarlyPCs
<1>8. SamePending(j, k) /\ RemovesOwn(k) /\ UndoOrdered(k, content_store)
    BY <1>2 DEF SameCall, SamePending, RemovesOwn, UndoOrdered
<1>9. TypedStep(w, k)
    BY <1>1, <1>2, <1>3, <1>4, <1>5, <1>6, QuietTyped
<1>10. OwnedStep(w, k)
    BY <1>1, <1>2, <1>3, <1>4, <1>7, <1>8, QuietOwned
<1>11. LiveStep(w, k)
    BY <1>1, <1>3, <1>4, <1>8, QuietLive
<1>12. ASSUME ChunksOK(j, segment_map, data_of)
       PROVE  ChunksOK(k, segment_map', data_of')
  <2>1. k.cap = j.cap /\ k.segs = j.segs /\ k.pending = j.pending
    BY <1>2 DEF SameCall
  <2> HIDE DEF j
  <2>2. ChunksOK(k, segment_map', data_of)
    BY <1>2, <1>3, <1>7, <1>12, <2>1, ChunksSame
  <2> QED  BY <1>4, <2>2
<1>13. OrderedStep(w, k)
    BY <1>1, <1>3, <1>4, <1>5, <1>12, QuietOrdered
<1> QED  BY <1>9, <1>10, <1>11, <1>13 DEF Step4

(* The staged segments come into the map.                                  *)
LEMMA CommittedKeeps ==
    ASSUME Inv, NEW w \in Writers, NEW k, Becomes(w, k), job[w].pc = "commit", SameCall(job[w], k),
           k.pc = "register" \/ (k.pc = "undo" /\ ~NoSaveFailed' /\ \A l \in DOMAIN k.undo : k.undo[l].op = "decrement"),
           segment_map' = Committed(w), task_fails' \in Nat, save_fails' \in 0 .. MaxSaveFails, save_fails' <= save_fails,
           UNCHANGED <<content_store, capsules, next_segment, data_of, unregistered>>
    PROVE  Step4(w, k)
<1>1. Types /\ AllTasks /\ Owned /\ Live /\ Ordered
    BY DEF Inv
<1> DEFINE j == job[w]
           m == segment_map'
<1>2. PendingOK(j, segment_map, next_segment) /\ \A x \in DOMAIN segment_map : x < next_segment
    BY <1>1 DEF Owned
<1>3. /\ SegmentMaps(m) /\ DOMAIN m = DOMAIN segment_map \cup PendingIds(j)
      /\ \A x \in DOMAIN segment_map : m[x] = segment_map[x]
      /\ \A l \in DOMAIN j.pending : j.pending[l].id \notin DOMAIN segment_map => m[j.pending[l].id].data = j.pending[l].data
    BY <1>1, <1>2, CommittedFacts
<1>4. PendingIds(j) \cap DOMAIN segment_map = {}
    BY <1>2 DEF PendingOK, EarlyPCs
<1>5. \A l \in DOMAIN j.pending : j.pending[l].id \in PendingIds(j)
    BY DEF PendingIds
<1>6. \A l \in DOMAIN j.pending : m[j.pending[l].id].data = j.pending[l].data
    BY <1>3, <1>4, <1>5
<1>7. k.pending = j.pending /\ PendingIds(k) = PendingIds(j) /\ k.segs = j.segs /\ k.cap = j.cap
    BY DEF SameCall, PendingIds
<1>8. k.pc \notin EarlyPCs /\ k.pc \in {"register", "undo"}
    BY DEF EarlyPCs
<1> HIDE DEF m
<1>9. PendingOK(k, m, next_segment')
  <2>1. \A l \in DOMAIN k.pending : k.pending[l].id < next_segment'
    BY <1>2, <1>7 DEF PendingOK
  <2>2. \A l, i \in DOMAIN k.pending : k.pending[l].id = k.pending[i].id => l = i
    BY <1>2, <1>7 DEF PendingOK
  <2>3. PendingIds(k) \subseteq DOMAIN m
    BY <1>3, <1>7
  <2>4. k.pc = "undo" => \A l \in DOMAIN k.undo : k.undo[l].op = "remove" => k.undo[l].id \in PendingIds(k)
    OBVIOUS
  <2> QED  BY <1>6, <1>7, <1>8, <2>1, <2>2, <2>3, <2>4 DEF PendingOK
<1>10. MapMove(segment_map, m, PendingIds(j)) /\ MapGrows(segment_map, m)
    BY <1>3 DEF MapMove, MapGrows
<1>11. \A x \in DOMAIN m : x < next_segment'
  <2>1. \A x \in PendingIds(j) : x < next_segment
    BY <1>2 DEF PendingIds, PendingOK
  <2> QED  BY <1>2, <1>3, <2>1
<1>12. next_segment \in Nat
    BY <1>1 DEF Types
<1>13. OwnedStep(w, k)
    BY <1>7, <1>9, <1>10, <1>11, <1>12 DEF OwnedStep, m
<1>14. TypedStep(w, k)
    BY <1>1, <1>3, QuietTyped DEF DataGrows, m
<1>15. UndoOrdered(k, content_store)
    BY <1>8 DEF UndoOrdered
<1>16. LiveStep(w, k)
  <2>1. LiveStore(content_store, segment_map) => LiveStore(content_store, m)
    BY <1>3 DEF LiveStore
  <2> QED  BY <1>1, <1>15, <2>1 DEF LiveStep, Live, m
<1>17. OrderedStep(w, k)
  <2> SUFFICES ASSUME NoSaveFailed'
               PROVE  ~unregistered' /\ ChunksOK(k, m, data_of')
    BY <1>10 DEF OrderedStep, m
  <2>1. NoSaveFailed
    BY <1>1, AsyncAssumption DEF NoSaveFailed, Types
  <2>2. ~unregistered /\ ChunksOK(j, segment_map, data_of) /\ k.pc = "register"
    BY <1>1, <2>1 DEF Ordered
  <2>3. j.pc \in EarlyPCs /\ j.pc # "undo"
    BY DEF EarlyPCs
  <2>4. \A x, c : InMap(x, c, segment_map) => InMap(x, c, m)
    BY <1>3 DEF InMap
  <2>5. \A x, c : InPending(x, c, j) => InMap(x, c, m)
    BY <1>3, <1>5, <1>6 DEF InMap, InPending
  <2> HIDE DEF j
  <2>6. \A i \in DOMAIN k.segs : InMap(k.segs[i], data_of[k.cap][i], m)
    BY <1>7, <2>2, <2>3, <2>4, <2>5 DEF ChunksOK
  <2> QED  BY <2>2, <2>6 DEF ChunksOK
<1> QED  BY <1>13, <1>14, <1>16, <1>17 DEF Step4

(* An error before or in the commit, with the map as it was.               *)
LEMMA AbortKeeps ==
    ASSUME Inv, NEW w \in Writers, job[w].pc \in {"join", "commit"}, StartUndo(w, AbortUndo(w)),
           task_fails' \in Nat, UNCHANGED <<shared, data_of, unregistered, save_fails>>
    PROVE  \E k : Step4(w, k)
<1>1. Types /\ AllTasks /\ Owned /\ Live /\ Ordered
    BY DEF Inv
<1> DEFINE j == job[w]
           u == Decrements(w)
<1>2. u \in Seq(UndoSteps) /\ \A l \in DOMAIN u : u[l].op = "decrement"
    BY <1>1, DecrementsFacts
<1>3. StartUndo(w, u)
    BY DEF AbortUndo
<1> HIDE DEF u
<1>4. PICK k : Undoes(w, k, u)
    BY <1>1, <1>2, <1>3, StartsUndo
<1>5. Becomes(w, k) /\ k.pc = "undo" /\ SameCall(j, k) /\ \A l \in DOMAIN k.undo : k.undo[l].op = "decrement"
    BY <1>2, <1>4 DEF Undoes
<1>6. UNCHANGED <<segment_map, content_store, capsules, next_segment>>
    BY DEF shared
<1>7. SameData(segment_map, segment_map') /\ SegmentMaps(segment_map') /\ DataGrows(data_of, data_of')
    BY <1>1, <1>6, SameDataRefl DEF Types, DataGrows
<1>8. save_fails' \in 0 .. MaxSaveFails /\ save_fails' <= save_fails
    BY <1>1, SaveCounted
<1>9. SamePending(j, k) /\ RemovesOwn(k) /\ UndoOrdered(k, content_store) /\ k.pc \notin EarlyPCs
    BY <1>5 DEF SameCall, SamePending, RemovesOwn, UndoOrdered, EarlyPCs
<1>10. TypedStep(w, k)
    BY <1>1, <1>5, <1>6, <1>7, <1>8, QuietTyped
<1>11. OwnedStep(w, k)
    BY <1>1, <1>5, <1>6, <1>7, <1>9, QuietOwned
<1>12. LiveStep(w, k)
    BY <1>1, <1>6, <1>7, <1>9, QuietLive
<1>13. ChunksOK(k, segment_map', data_of')
    BY <1>5 DEF ChunksOK
<1>14. OrderedStep(w, k)
    BY <1>1, <1>6, <1>7, <1>8, <1>13, QuietOrdered
<1> QED  BY <1>10, <1>11, <1>12, <1>14 DEF Step4

LEMMA CommitTransactionKeeps ==
    ASSUME Inv, NEW w \in Writers, CommitTransaction(w)
    PROVE  \E k : Step4(w, k)
<1>1. Types /\ AllTasks
    BY DEF Inv
<1>2. PICK k : Becomes(w, k) /\ SameCall(job[w], k) /\ k.pc = "register"
    BY <1>1, CommitStep
<1>3. job[w].pc = "commit"
    BY <1>1, CommitStep
<1>4. segment_map' = Committed(w) /\ UNCHANGED <<content_store, capsules, next_segment, data_of, unregistered, task_fails, save_fails>>
    BY DEF CommitTransaction
<1>5. save_fails' \in 0 .. MaxSaveFails /\ save_fails' <= save_fails /\ task_fails' \in Nat
    BY <1>1, <1>4, SaveCounted DEF Types
<1> QED  BY <1>2, <1>3, <1>4, <1>5, CommittedKeeps

LEMMA CommitFailsKeeps ==
    ASSUME Inv, NEW w \in Writers, CommitFails(w)
    PROVE  \E k : Step4(w, k)
<1>1. Types /\ AllTasks
    BY DEF Inv
<1>2. job[w].pc = "commit" /\ StartUndo(w, AbortUndo(w)) /\ UNCHANGED <<content_store, capsules, next_segment, data_of, unregistered>>
    BY DEF CommitFails, At
<1>3. CASE TaskFails /\ UNCHANGED <<segment_map, save_fails>>
  <2>1. task_fails' \in Nat
    BY <1>1, <1>3 DEF Types, TaskFails
  <2> QED  BY <1>2, <1>3, <2>1, AbortKeeps DEF shared
<1>4. CASE SaveFails /\ segment_map' = Committed(w) /\ task_fails' = task_fails
  <2> DEFINE u == Decrements(w)
  <2>1. u \in Seq(UndoSteps) /\ \A l \in DOMAIN u : u[l].op = "decrement"
    BY <1>1, DecrementsFacts
  <2>2. StartUndo(w, u)
    BY <1>2 DEF AbortUndo
  <2> HIDE DEF u
  <2>3. PICK k : Undoes(w, k, u)
    BY <1>1, <1>2, <2>1, <2>2, StartsUndo
  <2>4. Becomes(w, k) /\ k.pc = "undo" /\ SameCall(job[w], k) /\ \A l \in DOMAIN k.undo : k.undo[l].op = "decrement"
    BY <2>1, <2>3 DEF Undoes
  <2>5. save_fails' \in 0 .. MaxSaveFails /\ save_fails' <= save_fails /\ ~NoSaveFailed' /\ task_fails' \in Nat
    BY <1>1, <1>4, SaveCounted DEF Types
  <2> QED  BY <1>2, <1>4, <2>4, <2>5, CommittedKeeps
<1> QED  BY <1>3, <1>4 DEF CommitFails

LEMMA RegisterKeeps ==
    ASSUME Inv, NEW w \in Writers, RegisterContent(w)
    PROVE  \E k : Step4(w, k)
<1>1. Types /\ AllTasks /\ Owned /\ Live /\ Ordered
    BY DEF Inv
<1> DEFINE j == job[w]
           i == j.registered + 1
           s == Registrations(w)[i]
<1>2. /\ j.pc = "register" /\ j.registered < Len(Registrations(w))
      /\ content_store' = Put(content_store, s.data, s.id)
      /\ UNCHANGED <<segment_map, capsules, next_segment, data_of, task_fails>>
    BY DEF RegisterContent, At
<1>3. j \in JobRecord /\ j.registered \in Nat
    BY <1>1, JobType DEF JobRecord
<1>4. i \in 1 .. Len(Registrations(w))
    BY <1>1, <1>2, <1>3, RegistrationType
<1> HIDE DEF i
<1>5. s \in Staged /\ i \in DOMAIN j.pending /\ s = j.pending[i]
    BY <1>1, <1>4, RegistrationType
<1>6. s.id \in Nat /\ s.data \in Contents /\ s.id \in PendingIds(j)
    BY <1>5 DEF Staged, PendingIds
<1>7. PendingOK(j, segment_map, next_segment)
    BY <1>1 DEF Owned
<1>8. s.id \in DOMAIN segment_map /\ segment_map[s.id].data = s.data
    BY <1>2, <1>5, <1>6, <1>7 DEF PendingOK
<1> HIDE DEF s
<1>9. StoreType(content_store') /\ \A x \in Named(content_store') : x \in Named(content_store) \/ x \in PendingIds(j)
  <2>1. StoreType(content_store)
    BY <1>1 DEF Types, StoreType
  <2>2. StoreType(content_store')
    BY <1>2, <1>6, <2>1 DEF StoreType, Put
  <2>3. \A x \in Named(content_store') : x \in Named(content_store) \/ x = s.id
    BY <1>2 DEF Named, Put
  <2> QED  BY <1>6, <2>2, <2>3
<1>10. LiveStore(content_store, segment_map) => LiveStore(content_store', segment_map')
    BY <1>2, <1>8 DEF LiveStore, Put
<1>11. SegmentMaps(segment_map') /\ CapsType(capsules') /\ DataGrows(data_of, data_of') /\ task_fails' \in Nat
        /\ SameData(segment_map, segment_map') /\ unregistered \in BOOLEAN
    BY <1>1, <1>2, SameDataRefl DEF Types, CapsType, DataGrows
<1>12. CASE job' = [job EXCEPT ![w].registered = @ + 1] /\ UNCHANGED <<unregistered, save_fails>>
  <2>1. PICK k : Registers(w, k)
    BY <1>1, <1>2, <1>12, RegisterStep DEF At
  <2>2. /\ Becomes(w, k) /\ k.pc = "register" /\ k.pending = j.pending /\ k.segs = j.segs /\ k.cap = j.cap
    BY <1>2, <2>1 DEF Registers
  <2>3. save_fails' \in 0 .. MaxSaveFails /\ save_fails' <= save_fails
    BY <1>1, <1>12, SaveCounted
  <2>4. TypedStep(w, k)
    BY <1>9, <1>11, <1>12, <2>2, <2>3 DEF TypedStep
  <2>5. SamePending(j, k) /\ RemovesOwn(k) /\ UndoOrdered(k, content_store') /\ k.pc \notin EarlyPCs
    BY <2>2 DEF SamePending, RemovesOwn, UndoOrdered, EarlyPCs
  <2>6. OwnedStep(w, k)
    BY <1>1, <1>2, <1>11, <2>2, <2>5, QuietOwned
  <2>7. LiveStep(w, k)
    BY <1>1, <1>9, <1>10, <1>12, <2>5 DEF LiveStep, Live
  <2>8. ASSUME ChunksOK(j, segment_map, data_of)
        PROVE  ChunksOK(k, segment_map', data_of')
    <3>1. k.pc # "increment" /\ k.pc # "undo" /\ j.pc # "undo" /\ j.pc \notin EarlyPCs
        BY <1>2, <2>2 DEF EarlyPCs
    <3> HIDE DEF j
    <3>2. ChunksOK(k, segment_map', data_of)
        BY <1>11, <2>2, <2>8, <3>1, ChunksSame
    <3> QED  BY <1>2, <3>2
  <2>9. OrderedStep(w, k)
    BY <1>1, <1>2, <1>11, <1>12, <2>3, <2>8, QuietOrdered
  <2> QED  BY <2>4, <2>6, <2>7, <2>9 DEF Step4
<1>13. CASE SaveFails /\ StartUndo(w, RegisterUndo(w)) /\ unregistered' = TRUE
  <2> DEFINE u == RegisterUndo(w)
  <2>1. job[w].registered <= Len(Registrations(w))
    BY <1>1, <1>2, <1>3, RegistrationType
  <2>2. u \in Seq(UndoSteps) /\ \A l \in DOMAIN u : u[l].op = "remove" => u[l].id \in PendingIds(j)
    BY <1>1, <2>1, RegisterUndoFacts
  <2>3. StartUndo(w, u) /\ job[w].pc # "idle" /\ data_of' = data_of
    BY <1>2, <1>13
  <2> HIDE DEF u
  <2>4. PICK k : Undoes(w, k, u)
    BY <1>1, <2>2, <2>3, StartsUndo
  <2>5. Becomes(w, k) /\ k.pc = "undo" /\ k.undo = u /\ k.pending = j.pending
    BY <2>4 DEF Undoes, SameCall
  <2>6. save_fails' \in 0 .. MaxSaveFails /\ save_fails' <= save_fails /\ ~NoSaveFailed'
    BY <1>1, <1>13, SaveCounted
  <2>7. TypedStep(w, k)
    BY <1>9, <1>11, <1>13, <2>5, <2>6 DEF TypedStep
  <2>8. SamePending(j, k) /\ RemovesOwn(k) /\ k.pc \notin EarlyPCs /\ k.pc \notin {"register", "create"}
    BY <2>2, <2>5 DEF SamePending, RemovesOwn, PendingIds, EarlyPCs
  <2>9. OwnedStep(w, k)
    BY <1>1, <1>2, <1>11, <2>8, QuietOwned
  <2>10. LiveStep(w, k) /\ OrderedStep(w, k)
    BY <1>13, <2>6 DEF LiveStep, OrderedStep
  <2> QED  BY <2>7, <2>9, <2>10 DEF Step4
<1> QED  BY <1>12, <1>13 DEF RegisterContent

LEMMA CreateKeeps ==
    ASSUME Inv, NEW w \in Writers, CreateCapsule(w)
    PROVE  \E k : Step4(w, k)
<1>1. Types /\ AllTasks /\ Owned /\ Live /\ Ordered
    BY DEF Inv
<1> DEFINE j == job[w]
<1>2. /\ j.pc = "create" /\ capsules' = Put(capsules, j.cap, j.segs)
      /\ UNCHANGED <<segment_map, content_store, next_segment, data_of, unregistered, task_fails>>
    BY DEF CreateCapsule, At
<1>3. j \in JobRecord /\ j.segs \in Seq(Nat) /\ j.next \in Nat
    BY <1>1, JobType DEF JobRecord
<1>4. /\ j.cap \in 1 .. Len(data_of) /\ Len(j.segs) + 1 = j.next
      /\ j.next = Len(data_of[j.cap]) + 1
    BY <1>1, <1>2 DEF AllTasks, TasksOK
<1>5. SegmentMaps(segment_map') /\ StoreType(content_store') /\ DataGrows(data_of, data_of') /\ task_fails' \in Nat
        /\ SameData(segment_map, segment_map') /\ unregistered' \in BOOLEAN /\ data_of \in Seq(Datas)
    BY <1>1, <1>2, SameDataRefl DEF Types, StoreType, DataGrows
<1>6. CapsType(capsules') /\ \A c \in DOMAIN capsules' : c = j.cap \/ (c \in DOMAIN capsules /\ capsules'[c] = capsules[c])
  <2>1. CapsType(capsules) /\ j.cap \in Nat \ {0}
    BY <1>1, <1>4 DEF Types, CapsType
  <2> QED  BY <1>2, <1>3, <2>1 DEF CapsType, Put
<1>7. capsules'[j.cap] = j.segs
    BY <1>2 DEF Put
<1>8. Len(j.segs) = Len(data_of[j.cap])
  <2>1. Len(data_of[j.cap]) \in Nat /\ Len(j.segs) \in Nat
    BY <1>1, <1>3, <1>4, DataType
  <2> QED  BY <1>4, <2>1
<1>9. ASSUME NoSaveFailed, ChunksOK(j, segment_map, data_of)
      PROVE  CapsuleOK(capsules'[j.cap], data_of'[j.cap], segment_map')
    BY <1>2, <1>7, <1>8, <1>9 DEF ChunksOK, CapsuleOK, EarlyPCs
<1>10. CASE Return(w) /\ save_fails' = save_fails
  <2> DEFINE k == IdleJob
  <2>1. Becomes(w, k) /\ k.pc = "idle" /\ k.pending = << >> /\ k.segs = << >>
    BY <1>10, IdleType DEF Return, Becomes
  <2> HIDE DEF k
  <2>2. save_fails' \in 0 .. MaxSaveFails /\ save_fails' <= save_fails
    BY <1>1, <1>10, SaveCounted
  <2>3. TypedStep(w, k)
    BY <1>5, <1>6, <2>1, <2>2 DEF TypedStep
  <2>4. MapMove(segment_map, segment_map', PendingIds(job[w])) /\ DOMAIN segment_map' \subseteq DOMAIN segment_map
        /\ MapGrows(segment_map, segment_map')
    BY <1>5, SameMapMove
  <2>5. OwnedStep(w, k)
    BY <1>1, <1>2, <2>1, <2>4, NoneOwned
  <2>6. UndoOrdered(k, content_store)
    BY <2>1 DEF UndoOrdered
  <2>7. LiveStep(w, k)
    BY <1>1, <1>2, <1>5, <2>6, QuietLive
  <2>8. DOMAIN k.segs = {}
    BY <2>1
  <2>9. ChunksOK(k, segment_map', data_of')
    BY <2>1, <2>8 DEF ChunksOK
  <2>10. OrderedStep(w, k)
    <3> SUFFICES ASSUME NoSaveFailed'
                 PROVE  /\ ~unregistered'
                        /\ \A c \in DOMAIN capsules' :
                            \/ c \in DOMAIN capsules /\ capsules'[c] = capsules[c]
                            \/ c <= Len(data_of') /\ CapsuleOK(capsules'[c], data_of'[c], segment_map')
        BY <2>4, <2>9 DEF OrderedStep
    <3>1. NoSaveFailed
        BY <1>10 DEF NoSaveFailed
    <3>2. ~unregistered /\ ChunksOK(j, segment_map, data_of)
        BY <1>1, <3>1 DEF Ordered
    <3>3. CapsuleOK(capsules'[j.cap], data_of'[j.cap], segment_map') /\ j.cap <= Len(data_of')
        BY <1>2, <1>4, <1>5, <1>9, <3>1, <3>2
    <3> QED  BY <1>2, <1>6, <3>2, <3>3
  <2> QED  BY <2>3, <2>5, <2>7, <2>10 DEF Step4
<1>11. CASE SaveFails /\ StartUndo(w, CreateUndo(w))
  <2> DEFINE u == CreateUndo(w)
  <2>1. u \in Seq(UndoSteps) /\ TakesNameBack(u, j)
    BY <1>1, CreateUndoFacts
  <2>2. StartUndo(w, u) /\ job[w].pc # "idle" /\ data_of' = data_of
    BY <1>2, <1>11
  <2> HIDE DEF u
  <2>3. PICK k : Undoes(w, k, u)
    BY <1>1, <2>1, <2>2, StartsUndo
  <2>4. Becomes(w, k) /\ k.pc = "undo" /\ k.undo = u /\ k.pending = j.pending
    BY <2>3 DEF Undoes, SameCall
  <2>5. save_fails' \in 0 .. MaxSaveFails /\ save_fails' <= save_fails /\ ~NoSaveFailed'
    BY <1>1, <1>11, SaveCounted
  <2>6. TypedStep(w, k)
    BY <1>5, <1>6, <2>4, <2>5 DEF TypedStep
  <2> HIDE DEF j
  <2>7. SamePending(j, k) /\ RemovesOwn(k) /\ k.pc \notin EarlyPCs /\ k.pc \notin {"register", "create"}
    BY <2>1, <2>4 DEF SamePending, RemovesOwn, PendingIds, EarlyPCs, TakesNameBack
  <2>8. OwnedStep(w, k)
    BY <1>1, <1>2, <1>5, <2>7, QuietOwned DEF j
  <2>9. UndoOrdered(k, content_store)
    BY <2>1, <2>4 DEF UndoOrdered, TakesNameBack
  <2>10. LiveStep(w, k)
    BY <1>1, <1>2, <1>5, <2>9, QuietLive
  <2>11. OrderedStep(w, k)
    BY <2>5 DEF OrderedStep
  <2> QED  BY <2>6, <2>8, <2>10, <2>11 DEF Step4
<1> QED  BY <1>10, <1>11 DEF CreateCapsule

(* The maps after a step of the undo of w.                                 *)
LEMMA UndoMaps ==
    ASSUME Inv, NEW w \in Writers, job[w].pc = "undo", job[w].undo # << >>,
           Undo(Head(job[w].undo)), ~Refused(Head(job[w].undo)), unregistered' = unregistered
    PROVE  /\ Head(job[w].undo) = job[w].undo[1] /\ 1 \in DOMAIN job[w].undo /\ Head(job[w].undo) \in UndoSteps
           /\ MapMove(segment_map, segment_map', PendingIds(job[w]))
           /\ DOMAIN segment_map' \subseteq DOMAIN segment_map
           /\ Named(content_store') \subseteq Named(content_store)
           /\ ~unregistered => LiveStore(content_store', segment_map')
           /\ NoSaveFailed => SameData(segment_map, segment_map')
<1>1. Types /\ AllTasks /\ Owned /\ Live /\ Ordered
    BY DEF Inv
<1> DEFINE j == job[w]
           u == Head(j.undo)
<1>2. j \in JobRecord
    BY <1>1, JobType
<1>3. j.undo \in Seq(UndoSteps)
    BY <1>2 DEF JobRecord
<1>4. u = j.undo[1] /\ 1 \in DOMAIN j.undo /\ u \in UndoSteps
    BY <1>3
<1>5. PendingOK(j, segment_map, next_segment)
    BY <1>1 DEF Owned
<1>6. u.op = "remove" => u.id \in PendingIds(j)
    BY <1>4, <1>5 DEF PendingOK
<1>7. ~unregistered => UndoOrdered(j, content_store) /\ LiveStore(content_store, segment_map)
    BY <1>1 DEF Live
<1>8. NoSaveFailed => u.op = "decrement"
  <2>1. NoSaveFailed => ChunksOK(j, segment_map, data_of)
    BY <1>1 DEF Ordered
  <2> QED  BY <1>4, <2>1 DEF ChunksOK
<1>9. ~unregistered /\ u.op = "remove" => u.id \notin Named(content_store)
  <2> SUFFICES ASSUME ~unregistered, u.op = "remove" PROVE u.id \notin Named(content_store)
    OBVIOUS
  <2>1. DOMAIN j.undo \subseteq Nat \ {0}
    BY <1>3
  <2>2. ~ \E l \in DOMAIN j.undo : l < 1
    BY <2>1
  <2> QED  BY <1>4, <1>7, <2>2 DEF UndoOrdered
<1>10. Deregisters(u) \/ Removes(u) \/ Decreases(u)
    BY <1>1, <1>4, UndoFacts
<1> HIDE DEF u
<1>11. CASE Deregisters(u)
  <2>1. segment_map' = segment_map /\ u.op = "deregister"
    BY <1>11 DEF Deregisters
  <2>2. DOMAIN content_store' \subseteq DOMAIN content_store /\ \A h \in DOMAIN content_store' : content_store'[h] = content_store[h]
    BY <1>11 DEF Deregisters, Without
  <2>3. Named(content_store') \subseteq Named(content_store)
    BY <2>2 DEF Named
  <2>4. LiveStore(content_store, segment_map) => LiveStore(content_store', segment_map')
    BY <2>1, <2>2 DEF LiveStore
  <2>5. MapMove(segment_map, segment_map', PendingIds(j))
    BY <2>1 DEF MapMove
  <2> QED  BY <1>4, <1>7, <1>8, <2>1, <2>3, <2>4, <2>5 DEF u
<1>12. CASE Removes(u)
  <2>1. /\ u.op = "remove" /\ content_store' = content_store
        /\ DOMAIN segment_map' = DOMAIN segment_map \ {u.id}
        /\ \A x \in DOMAIN segment_map' : segment_map'[x] = segment_map[x]
    BY <1>12 DEF Removes
  <2>2. MapMove(segment_map, segment_map', PendingIds(j))
    BY <1>6, <2>1 DEF MapMove
  <2>3. ~unregistered => LiveStore(content_store', segment_map')
    BY <1>7, <1>9, <2>1 DEF LiveStore, Named
  <2> QED  BY <1>4, <1>8, <2>1, <2>2, <2>3 DEF u
<1>13. CASE Decreases(u)
  <2>1. content_store' = content_store /\ SameData(segment_map, segment_map')
    BY <1>13 DEF Decreases
  <2>2. MapMove(segment_map, segment_map', PendingIds(j)) /\ DOMAIN segment_map' \subseteq DOMAIN segment_map
    BY <2>1, SameMapMove
  <2>3. LiveStore(content_store, segment_map) => LiveStore(content_store', segment_map')
    BY <2>1 DEF LiveStore, SameData
  <2> QED  BY <1>4, <1>7, <2>1, <2>2, <2>3 DEF u
<1> QED  BY <1>10, <1>11, <1>12, <1>13

(* What is left of the undo is still in order.                             *)
LEMMA UndoOrderKept ==
    ASSUME Inv, NEW w \in Writers, job[w].pc = "undo", job[w].undo # << >>, ~unregistered,
           Undo(Head(job[w].undo)), ~Refused(Head(job[w].undo)), unregistered' = unregistered,
           NEW k, k.undo = Tail(job[w].undo), k.pending = job[w].pending
    PROVE  UndoOrdered(k, content_store')
<1>1. Types /\ Owned /\ Live
    BY DEF Inv
<1> DEFINE j == job[w]
           u == j.undo[1]
<1>2. Head(j.undo) = u /\ u \in UndoSteps /\ Named(content_store') \subseteq Named(content_store)
    BY UndoMaps
<1>3. j \in JobRecord
    BY <1>1, JobType
<1>4. j.undo \in Seq(UndoSteps)
    BY <1>3 DEF JobRecord
<1>5. /\ \A l \in DOMAIN k.undo : l \in Nat /\ l + 1 \in DOMAIN j.undo /\ k.undo[l] = j.undo[l + 1]
      /\ \A l \in DOMAIN j.undo : l # 1 => l \in Nat /\ l - 1 \in DOMAIN k.undo /\ k.undo[l - 1] = j.undo[l]
    BY <1>4
<1>6. UndoOrdered(j, content_store) /\ LiveStore(content_store, segment_map)
    BY <1>1 DEF Live
<1>7. PendingOK(j, segment_map, next_segment)
    BY <1>1 DEF Owned
<1> HIDE DEF j, u
<1> SUFFICES ASSUME NEW l \in DOMAIN k.undo, k.undo[l].op = "remove", k.undo[l].id \in Named(content_store')
             PROVE  \E i \in DOMAIN k.undo :
                        /\ i < l /\ k.undo[i].op = "deregister" /\ k.undo[i].id = k.undo[l].id
                        /\ \E p \in DOMAIN k.pending :
                            k.pending[p].id = k.undo[l].id /\ k.pending[p].data = k.undo[i].hash
    BY DEF UndoOrdered
<1> DEFINE x == k.undo[l].id
<1>8. l \in Nat /\ l + 1 \in DOMAIN j.undo /\ k.undo[l] = j.undo[l + 1] /\ x \in Named(content_store)
    BY <1>2, <1>5
<1>9. PICK i \in DOMAIN j.undo :
            /\ i < l + 1 /\ j.undo[i].op = "deregister" /\ j.undo[i].id = x
            /\ \E p \in DOMAIN j.pending : j.pending[p].id = x /\ j.pending[p].data = j.undo[i].hash
    BY <1>6, <1>8 DEF UndoOrdered, j
<1>10. PICK p \in DOMAIN j.pending : j.pending[p].id = x /\ j.pending[p].data = j.undo[i].hash
    BY <1>9
<1>11. i # 1
  <2> SUFFICES ASSUME i = 1 PROVE FALSE
    OBVIOUS
  <2>1. u.op = "deregister" /\ u.id = x /\ j.pending[p].data = u.hash
    BY <1>9, <1>10 DEF u
  <2>2. Deregisters(u)
    BY <1>1, <1>2, <2>1, UndoFacts DEF Removes, Decreases, j
  <2>3. PICK h \in DOMAIN content_store : content_store[h] = x
    BY <1>8 DEF Named
  <2>4. x \in DOMAIN segment_map /\ segment_map[x].data = h
    BY <1>6, <2>3 DEF LiveStore
  <2>5. segment_map[x].data = u.hash
    BY <1>7, <1>10, <2>1, <2>4 DEF PendingOK
  <2>6. h = u.hash
    BY <2>4, <2>5
  <2>7. <<u.hash, u.id>> \in Entries(content_store)
    BY <2>1, <2>3, <2>6 DEF Entries
  <2>8. content_store' = Without(content_store, u.hash)
    BY <2>2, <2>7 DEF Deregisters
  <2>9. PICK g \in DOMAIN content_store' : content_store'[g] = x
    BY DEF Named
  <2>10. g \in DOMAIN content_store /\ g # u.hash /\ content_store[g] = x
    BY <2>8, <2>9 DEF Without
  <2>11. segment_map[x].data = g
    BY <1>6, <2>10 DEF LiveStore
  <2> QED  BY <2>5, <2>10, <2>11
<1>12. i \in Nat /\ i - 1 \in DOMAIN k.undo /\ k.undo[i - 1] = j.undo[i]
    BY <1>5, <1>11
<1>13. i - 1 < l
    BY <1>8, <1>9, <1>12
<1>14. p \in DOMAIN k.pending /\ k.pending[p].id = x /\ k.pending[p].data = k.undo[i - 1].hash
    BY <1>10, <1>12 DEF j
<1>15. k.undo[i - 1].op = "deregister" /\ k.undo[i - 1].id = x
    BY <1>9, <1>12
<1> DEFINE q == i - 1
<1>16. q \in DOMAIN k.undo /\ q < l /\ k.undo[q].op = "deregister" /\ k.undo[q].id = x
        /\ k.pending[p].data = k.undo[q].hash
    BY <1>12, <1>13, <1>14, <1>15
<1> HIDE DEF q
<1> QED  BY <1>14, <1>16

LEMMA UndoStepKeeps ==
    ASSUME Inv, NEW w \in Writers, UndoStep(w)
    PROVE  \E k : Step4(w, k)
<1>1. Types /\ AllTasks /\ Owned /\ Live /\ Ordered
    BY DEF Inv
<1> DEFINE j == job[w]
<1>2. /\ j.pc = "undo" /\ j.undo # << >> /\ Undo(Head(j.undo)) /\ ~Refused(Head(j.undo))
      /\ job' = [job EXCEPT ![w].undo = Tail(j.undo)]
      /\ UNCHANGED <<capsules, next_segment, data_of, unregistered, task_fails, save_fails>>
    BY <1>1 DEF UndoStep, At, Types
<1>3. /\ Head(j.undo) \in UndoSteps
      /\ MapMove(segment_map, segment_map', PendingIds(j)) /\ DOMAIN segment_map' \subseteq DOMAIN segment_map
      /\ Named(content_store') \subseteq Named(content_store)
      /\ ~unregistered => LiveStore(content_store', segment_map')
      /\ NoSaveFailed => SameData(segment_map, segment_map')
    BY <1>2, UndoMaps
<1>4. SegmentMaps(segment_map') /\ StoreType(content_store')
    BY <1>1, <1>2, <1>3, UndoFacts
<1>5. j \in JobRecord
    BY <1>1, JobType
<1>6. j.undo \in Seq(UndoSteps)
    BY <1>5 DEF JobRecord
<1> DEFINE t == Tail(j.undo)
<1>7. t \in Seq(UndoSteps) /\ \A l \in DOMAIN t : \E i \in DOMAIN j.undo : t[l] = j.undo[i]
  <2>1. t \in Seq(UndoSteps) /\ \A l \in DOMAIN t : l + 1 \in DOMAIN j.undo /\ t[l] = j.undo[l + 1]
    BY <1>2, <1>6
  <2> QED  BY <2>1
<1>8. job' = [job EXCEPT ![w].undo = t]
    BY <1>2
<1> HIDE DEF t
<1>9. PICK k : Undoes(w, k, t)
    BY <1>1, <1>2, <1>7, <1>8, UndoesMore
<1>10. Becomes(w, k) /\ k.pc = "undo" /\ k.undo = t /\ k.pending = j.pending /\ PendingIds(k) = PendingIds(j)
    BY <1>9 DEF Undoes, SameCall, PendingIds
<1>11. CapsType(capsules') /\ DataGrows(data_of, data_of') /\ unregistered' \in BOOLEAN /\ task_fails' \in Nat
    BY <1>1, <1>2 DEF Types, CapsType, DataGrows
<1>12. save_fails' \in 0 .. MaxSaveFails /\ save_fails' <= save_fails
    BY <1>1, <1>2, SaveCounted
<1>13. TypedStep(w, k)
    BY <1>4, <1>10, <1>11, <1>12 DEF TypedStep
<1>14. PendingOK(j, segment_map, next_segment) /\ next_segment \in Nat /\ \A x \in DOMAIN segment_map : x < next_segment
    BY <1>1 DEF Owned, Types
<1>15. PendingOK(k, segment_map', next_segment')
  <2>1. \A l \in DOMAIN k.pending : k.pending[l].id < next_segment'
    BY <1>2, <1>10, <1>14 DEF PendingOK
  <2>2. \A l, i \in DOMAIN k.pending : k.pending[l].id = k.pending[i].id => l = i
    BY <1>10, <1>14 DEF PendingOK
  <2>3. \A l \in DOMAIN k.pending : k.pending[l].id \in DOMAIN segment_map'
                => segment_map'[k.pending[l].id].data = k.pending[l].data
    BY <1>3, <1>10, <1>14 DEF PendingOK, MapMove
  <2>4. \A l \in DOMAIN k.undo : k.undo[l].op = "remove" => k.undo[l].id \in PendingIds(k)
    BY <1>2, <1>7, <1>10, <1>14 DEF PendingOK
  <2>5. k.pc \notin EarlyPCs /\ k.pc \notin {"register", "create"}
    BY <1>10 DEF EarlyPCs
  <2> QED  BY <2>1, <2>2, <2>3, <2>4, <2>5 DEF PendingOK
<1>16. OwnedStep(w, k)
    BY <1>2, <1>3, <1>10, <1>14, <1>15 DEF OwnedStep
<1>17. LiveStep(w, k)
  <2> SUFFICES ASSUME ~unregistered' PROVE LiveStore(content_store', segment_map') /\ UndoOrdered(k, content_store')
    BY <1>2, <1>3 DEF LiveStep
  <2>1. ~unregistered
    BY <1>2
  <2>2. UndoOrdered(k, content_store')
    BY <1>2, <1>10, <2>1, UndoOrderKept DEF t
  <2> QED  BY <1>3, <2>1, <2>2
<1>18. NoSaveFailed' => NoSaveFailed
    BY <1>2 DEF NoSaveFailed
<1>19. ChunksOK(j, segment_map, data_of) => ChunksOK(k, segment_map', data_of')
    BY <1>2, <1>7, <1>10 DEF ChunksOK
<1>20. OrderedStep(w, k)
    BY <1>1, <1>2, <1>3, <1>12, <1>18, <1>19, QuietOrdered
<1> QED  BY <1>13, <1>16, <1>17, <1>20 DEF Step4

LEMMA UndoFailsKeeps ==
    ASSUME Inv, NEW w \in Writers, UndoFails(w)
    PROVE  \E k : Step4(w, k)
<1>1. Types /\ AllTasks /\ Owned /\ Live /\ Ordered
    BY DEF Inv
<1> DEFINE j == job[w]
           u == Head(j.undo)
<1>2. /\ j.pc = "undo" /\ j.undo # << >> /\ Return(w)
      /\ UNCHANGED <<capsules, next_segment, data_of, unregistered, task_fails>>
    BY DEF UndoFails, At
<1>3. CapsType(capsules') /\ DataGrows(data_of, data_of') /\ unregistered' \in BOOLEAN /\ task_fails' \in Nat
    BY <1>1, <1>2 DEF Types, CapsType, DataGrows
<1>4. CASE UNCHANGED <<segment_map, content_store, save_fails>>
    BY <1>2, <1>3, <1>4, ReturnKeeps
<1>5. CASE ~Refused(u) /\ SaveFails /\ Undo(u)
  <2>1. /\ u \in UndoSteps
        /\ MapMove(segment_map, segment_map', PendingIds(j)) /\ DOMAIN segment_map' \subseteq DOMAIN segment_map
        /\ Named(content_store') \subseteq Named(content_store)
        /\ ~unregistered => LiveStore(content_store', segment_map')
    BY <1>2, <1>5, UndoMaps
  <2>2. SegmentMaps(segment_map') /\ StoreType(content_store')
    BY <1>1, <1>5, <2>1, UndoFacts
  <2> DEFINE k == IdleJob
  <2>3. Becomes(w, k) /\ k.pc = "idle" /\ k.pending = << >>
    BY <1>2, IdleType DEF Return, Becomes
  <2> HIDE DEF k
  <2>4. save_fails' \in 0 .. MaxSaveFails /\ save_fails' <= save_fails /\ ~NoSaveFailed'
    BY <1>1, <1>5, SaveCounted
  <2>5. TypedStep(w, k)
    BY <1>3, <2>2, <2>3, <2>4 DEF TypedStep
  <2>6. OwnedStep(w, k)
    BY <1>1, <1>2, <2>1, <2>3, NoneOwned
  <2>7. UndoOrdered(k, content_store')
    BY <2>3 DEF UndoOrdered
  <2>8. LiveStep(w, k) /\ OrderedStep(w, k)
    BY <1>2, <2>1, <2>4, <2>7 DEF LiveStep, OrderedStep
  <2> QED  BY <2>5, <2>6, <2>8 DEF Step4
<1> QED  BY <1>4, <1>5 DEF UndoFails

LEMMA ReturnsKeep ==
    ASSUME Inv, NEW w \in Writers, UndoReturns(w) \/ SpawnRefused(w)
    PROVE  \E k : Step4(w, k)
<1>1. Types
    BY DEF Inv
<1>2. /\ Return(w) /\ task_fails' \in Nat
      /\ UNCHANGED <<segment_map, content_store, capsules, next_segment, data_of, unregistered, save_fails>>
    BY <1>1 DEF UndoReturns, SpawnRefused, shared, TaskFails, Types
<1> QED  BY <1>2, ReturnKeeps

-----------------------------------------------------------------------------
(* The invariant is kept.                                                  *)

LEMMA WriterKeeps ==
    ASSUME Inv, NEW w \in Writers,
           \/ \E data \in Datas, dedupe \in BOOLEAN : WriteCapsuleAsync(w, data, dedupe)
           \/ WriterStep(w) \/ SpawnRefused(w) \/ CommitFails(w)
           \/ \E i \in 1 .. MaxChunks : TaskStep(w, i) \/ TaskFailsToPrepare(w, i)
    PROVE  \E k : Step4(w, k)
<1>1. CASE \E data \in Datas, dedupe \in BOOLEAN : WriteCapsuleAsync(w, data, dedupe)
    BY <1>1, BeginKeeps
<1>2. CASE ShuffleActions(w)
    BY <1>2, ShuffleKeeps
<1>3. CASE JoinAll(w) /\ Failed(w)
  <2>1. Types
    BY DEF Inv
  <2>2. job[w].pc = "join" /\ StartUndo(w, AbortUndo(w)) /\ UNCHANGED <<shared, data_of, unregistered, save_fails>>
        /\ task_fails' \in Nat
    BY <1>3, <2>1 DEF JoinAll, At, Types
  <2> QED  BY <2>2, AbortKeeps
<1>4. CASE CommitSegment(w)
    BY <1>4, CommitSegmentKeeps
<1>5. CASE IncrementRefcount(w)
    BY <1>5, IncrementKeeps
<1>6. CASE IncrementFails(w)
    BY <1>6, IncrementFailsKeeps
<1>7. CASE CommitTransaction(w)
    BY <1>7, CommitTransactionKeeps
<1>8. CASE CommitFails(w)
    BY <1>8, CommitFailsKeeps
<1>9. CASE RegisterContent(w)
    BY <1>9, RegisterKeeps
<1>10. CASE CreateCapsule(w)
    BY <1>10, CreateKeeps
<1>11. CASE UndoStep(w)
    BY <1>11, UndoStepKeeps
<1>12. CASE UndoFails(w)
    BY <1>12, UndoFailsKeeps
<1>13. CASE UndoReturns(w) \/ SpawnRefused(w)
    BY <1>13, ReturnsKeep
<1> QED
    BY <1>1, <1>2, <1>3, <1>4, <1>5, <1>6, <1>7, <1>8, <1>9, <1>10, <1>11, <1>12, <1>13
    DEF WriterStep, ShuffleActions

LEMMA Stutters ==
    ASSUME Inv, UNCHANGED vars
    PROVE  Inv'
BY DEF vars, Inv, Types, AllTasks, Owned, Live, Ordered, NoSaveFailed

LEMMA StepKeepsInv ==
    ASSUME Inv, [Next]_vars
    PROVE  Inv'
<1>1. CASE Done \/ UNCHANGED vars
    BY <1>1, Stutters DEF Done
<1>2. ASSUME NEW w \in Writers,
           \/ \E data \in Datas, dedupe \in BOOLEAN : WriteCapsuleAsync(w, data, dedupe)
           \/ WriterStep(w) \/ SpawnRefused(w) \/ CommitFails(w)
           \/ \E i \in 1 .. MaxChunks : TaskStep(w, i) \/ TaskFailsToPrepare(w, i)
      PROVE  Inv'
  <2>1. PICK k : Step4(w, k)
    BY <1>2, WriterKeeps
  <2> QED  BY <2>1, StepKeeps
<1> QED  BY <1>1, <1>2 DEF Next

LEMMA InitInv == Init => Inv
<1> SUFFICES ASSUME Init PROVE Inv
    OBVIOUS
<1>1. /\ segment_map = Empty /\ content_store = Empty /\ capsules = Empty /\ next_segment = 1
      /\ job = [w \in Writers |-> IdleJob] /\ data_of = << >> /\ unregistered = FALSE
      /\ task_fails = MaxTaskFails /\ save_fails = MaxSaveFails
    BY DEF Init
<1>2. DOMAIN Empty = {}
    BY DEF Empty
<1>3. Empty = [x \in DOMAIN Empty |-> Empty[x]]
    BY DEF Empty
<1>4. SegmentMaps(Empty) /\ StoreType(Empty) /\ CapsType(Empty)
    BY <1>2, <1>3 DEF SegmentMaps, StoreType, CapsType
<1>5. \A w \in Writers : job[w] = IdleJob
    BY <1>1
<1>6. Types
  <2>1. job \in [Writers -> JobRecord]
    BY <1>1, IdleType
  <2>2. data_of \in Seq(Datas)
    BY <1>1
  <2>3. task_fails \in Nat /\ save_fails \in 0 .. MaxSaveFails /\ unregistered \in BOOLEAN /\ next_segment \in Nat \ {0}
    <3>1. MaxTaskFails \in Nat /\ MaxSaveFails \in Nat
        BY AsyncAssumption
    <3>2. MaxSaveFails \in 0 .. MaxSaveFails /\ 1 \in Nat \ {0} /\ FALSE \in BOOLEAN
        BY <3>1
    <3> QED  BY <1>1, <3>1, <3>2
  <2>4. SegmentMaps(segment_map) /\ StoreType(content_store) /\ CapsType(capsules)
    BY <1>1, <1>4
  <2> QED  BY <2>1, <2>2, <2>3, <2>4 DEF Types, StoreType, CapsType
<1>7. AllTasks
    BY <1>5, IdleType DEF AllTasks
<1>8. IdleJob.pc = "idle" /\ IdleJob.pending = << >> /\ DOMAIN IdleJob.pending = {} /\ DOMAIN IdleJob.segs = {}
  <2>1. IdleJob.pc = "idle" /\ IdleJob.pending = << >> /\ IdleJob.segs = << >>
    BY IdleType
  <2> QED  BY <2>1
<1>9. PendingIds(IdleJob) = {}
    BY <1>8 DEF PendingIds
<1>10. Owned
  <2>1. \A w \in Writers : PendingOK(job[w], segment_map, next_segment)
    BY <1>5, <1>8, <1>9 DEF PendingOK
  <2> QED  BY <1>1, <1>2, <1>5, <1>9, <2>1 DEF Owned
<1>11. Live
  <2>1. \A w \in Writers : UndoOrdered(job[w], content_store)
    BY <1>5, <1>8 DEF UndoOrdered
  <2> QED  BY <1>1, <1>2, <2>1 DEF Live, LiveStore
<1>12. Ordered
  <2>1. \A w \in Writers : ChunksOK(job[w], segment_map, data_of)
    BY <1>5, <1>8 DEF ChunksOK
  <2> QED  BY <1>1, <1>2, <2>1 DEF Ordered
<1> QED  BY <1>6, <1>7, <1>10, <1>11, <1>12 DEF Inv

(* The invariant holds in every state of the asynchronous write path:      *)
(* staged segments belong to one call, a name is registered after the      *)
(* commit and taken back before the segment, chunks are taken in order.    *)
THEOREM AsyncInvariant == Spec => []Inv
<1>1. Inv /\ [Next]_vars => Inv'
    BY StepKeepsInv
<1> QED  BY <1>1, InitInv, PTL DEF Spec

(* ContentStoreLive, for any number of writers: whatever fails but the     *)
(* save of a registration (register_content), a hash names a segment that  *)
(* is committed and has this content.                                      *)
THEOREM AsyncContentStoreLive == Spec => []ContentStoreLive
<1>1. Inv => ContentStoreLive
    BY DEF Inv, Live, LiveStore, ContentStoreLive
<1> QED  BY <1>1, AsyncInvariant, PTL

-----------------------------------------------------------------------------
(* Counting.                                                               *)

LEMMA NoTimes ==
    ASSUME NEW s \in Seq(Nat), NEW x
    PROVE  /\ Times(s, x) \in Nat
           /\ (\A i \in DOMAIN s : s[i] # x) => Times(s, x) = 0
           /\ Times(s, x) > 0 => \E i \in DOMAIN s : s[i] = x
           /\ \A i \in DOMAIN s : s[i] = x => Times(s, x) > 0
<1> DEFINE A == {i \in DOMAIN s : s[i] = x}
<1>1. Len(s) \in Nat /\ DOMAIN s = 1 .. Len(s)
    OBVIOUS
<1>2. IsFiniteSet(DOMAIN s)
    BY <1>1, FS_Interval
<1>3. IsFiniteSet(A)
    BY <1>2, FS_Subset
<1>4. Cardinality(A) \in Nat /\ (Cardinality(A) = 0 <=> A = {})
    BY <1>3, FS_CardinalityType, FS_EmptySet
<1>5. Times(s, x) = Cardinality(A)
    BY DEF Times
<1>6. A = {} <=> \A i \in DOMAIN s : s[i] # x
    OBVIOUS
<1> HIDE DEF A
<1>7. Times(s, x) \in Nat /\ ((\A i \in DOMAIN s : s[i] # x) => Times(s, x) = 0)
    BY <1>4, <1>5, <1>6
<1>8. Times(s, x) > 0 => \E i \in DOMAIN s : s[i] = x
    BY <1>4, <1>5, <1>6
<1>9. (\E i \in DOMAIN s : s[i] = x) => Times(s, x) > 0
    BY <1>4, <1>5, <1>6
<1> QED  BY <1>7, <1>8, <1>9

(* A sequence read backwards has its elements as often.                    *)
LEMMA TimesReversed ==
    ASSUME NEW s \in Seq(Nat), NEW t \in Seq(Nat), Len(t) = Len(s),
           \A k \in DOMAIN t : t[k] = s[Len(s) + 1 - k], NEW x
    PROVE  Times(t, x) = Times(s, x)
<1> DEFINE n == Len(s)
           A == {i \in DOMAIN s : s[i] = x}
           B == {i \in DOMAIN t : t[i] = x}
           f == [i \in A |-> n + 1 - i]
<1>1. n \in Nat /\ DOMAIN s = 1 .. n /\ DOMAIN t = 1 .. n
    OBVIOUS
<1>2. IsFiniteSet(DOMAIN s)
    BY <1>1, FS_Interval
<1>3. IsFiniteSet(A)
    BY <1>2, FS_Subset
<1>4. \A i \in 1 .. n : n + 1 - i \in 1 .. n /\ n + 1 - (n + 1 - i) = i
    BY <1>1
<1>5. \A i \in 1 .. n : t[n + 1 - i] = s[i] /\ t[i] = s[n + 1 - i]
  <2> TAKE i \in 1 .. n
  <2>1. n + 1 - i \in DOMAIN t /\ i \in DOMAIN t
    BY <1>1, <1>4
  <2>2. t[n + 1 - i] = s[n + 1 - (n + 1 - i)] /\ t[i] = s[n + 1 - i]
    BY <2>1
  <2> QED  BY <1>4, <2>2
<1> HIDE DEF n
<1>6. \A i \in A : n + 1 - i \in B
    BY <1>1, <1>4, <1>5
<1>7. f \in [A -> B]
    BY <1>6
<1>8. \A i, j \in A : f[i] = f[j] => i = j
    BY <1>1
<1>9. \A z \in B : \E i \in A : f[i] = z
  <2> TAKE z \in B
  <2>1. z \in 1 .. n /\ n + 1 - z \in 1 .. n /\ s[n + 1 - z] = x /\ n + 1 - (n + 1 - z) = z
    BY <1>1, <1>4, <1>5
  <2>2. n + 1 - z \in A
    BY <1>1, <2>1
  <2>3. f[n + 1 - z] = z
    BY <2>1, <2>2
  <2> QED  BY <2>2, <2>3
<1> HIDE DEF A, B, f
<1>10. Cardinality(B) = Cardinality(A)
    BY <1>3, <1>7, <1>8, <1>9, SameSize
<1> QED  BY <1>10 DEF Times, A, B

LEMMA HeldType ==
    ASSUME NEW j \in JobRecord
    PROVE  HeldSeq(j) \in Seq(Nat)
<1>1. j.segs \in Seq(Nat) /\ j.increments \in Seq(Nat) /\ j.undo \in Seq(UndoSteps)
    BY DEF JobRecord
<1> DEFINE u == [k \in DOMAIN j.undo |-> j.undo[k].id]
<1>2. \A k \in DOMAIN j.undo : j.undo[k] \in UndoSteps
    BY <1>1
<1>3. \A k \in DOMAIN j.undo : j.undo[k].id \in Nat
    BY <1>2 DEF UndoSteps
<1>4. u \in Seq(Nat)
    BY <1>1, <1>3
<1> HIDE DEF u
<1>5. HeldSeq(j) \in {u, j.segs, j.increments}
    BY DEF HeldSeq, u
<1> QED  BY <1>1, <1>4, <1>5

OthersAt(J, w, x) == UNION {Labelled(v, HeldSeq(J[v]), x) : v \in Writers \ {w}}

LEMMA HeldSplit ==
    ASSUME IsFiniteSet(Writers), NEW J, \A v \in Writers : J[v] \in JobRecord, NEW w \in Writers, NEW x
    PROVE  /\ Cardinality(HeldAt(J, x)) = Cardinality(OthersAt(J, w, x)) + Times(HeldSeq(J[w]), x)
           /\ Cardinality(OthersAt(J, w, x)) \in Nat /\ Times(HeldSeq(J[w]), x) \in Nat
           /\ IsFiniteSet(HeldAt(J, x))
<1> DEFINE F == [v \in Writers |-> Labelled(v, HeldSeq(J[v]), x)]
<1>1. ASSUME NEW v \in Writers
      PROVE  /\ IsFiniteSet(F[v]) /\ \A p \in F[v] : p[1] = v
             /\ Cardinality(F[v]) = Times(HeldSeq(J[v]), x)
  <2> DEFINE s == HeldSeq(J[v])
  <2>1. s \in Seq(Nat)
    BY HeldType
  <2> HIDE DEF s
  <2>2. Len(s) \in Nat /\ DOMAIN s = 1 .. Len(s)
    BY <2>1
  <2>3. /\ IsFiniteSet(Labelled(v, s, x)) /\ \A p \in Labelled(v, s, x) : p[1] = v
        /\ Cardinality(Labelled(v, s, x)) = Times(s, x)
    BY <2>2, LabelledSize
  <2>4. F[v] = Labelled(v, s, x)
    BY DEF s
  <2> HIDE DEF F
  <2> QED  BY <2>3, <2>4 DEF s
<1>2. HeldAt(J, x) = UnionOver(F, Writers) /\ OthersAt(J, w, x) = UnionOver(F, Writers \ {w})
    BY DEF HeldAt, OthersAt, UnionOver
<1> HIDE DEF F
<1>3. \A v \in Writers : IsFiniteSet(F[v]) /\ \A p \in F[v] : p[1] = v
    BY <1>1
<1>4. /\ Cardinality(UnionOver(F, Writers)) = Cardinality(UnionOver(F, Writers \ {w})) + Cardinality(F[w])
      /\ IsFiniteSet(UnionOver(F, Writers))
      /\ Cardinality(UnionOver(F, Writers \ {w})) \in Nat /\ Cardinality(F[w]) \in Nat
    BY <1>3, LabelledUnion
<1>5. Cardinality(F[w]) = Times(HeldSeq(J[w]), x)
    BY <1>1
<1> QED  BY <1>2, <1>4, <1>5

LEMMA RefsPut ==
    ASSUME NEW C, CapsType(C), IsFiniteSet(DOMAIN C), NEW c, c \notin DOMAIN C, NEW s \in Seq(Nat), NEW x
    PROVE  /\ Cardinality(RefsAt(Put(C, c, s), x)) = Cardinality(RefsAt(C, x)) + Times(s, x)
           /\ Cardinality(RefsAt(C, x)) \in Nat /\ IsFiniteSet(RefsAt(C, x))
<1> DEFINE D == DOMAIN C \cup {c}
           P == Put(C, c, s)
           F == [d \in D |-> Labelled(d, P[d], x)]
<1>1. DOMAIN P = D /\ P[c] = s /\ \A d \in DOMAIN C : P[d] = C[d]
    BY DEF Put
<1>2. IsFiniteSet(D)
    BY FS_AddElement
<1> HIDE DEF P
<1>3. ASSUME NEW d \in D
      PROVE  /\ IsFiniteSet(F[d]) /\ \A p \in F[d] : p[1] = d
             /\ Cardinality(F[d]) = Times(P[d], x)
  <2> DEFINE t == P[d]
  <2>1. t \in Seq(Nat)
    BY <1>1 DEF CapsType
  <2> HIDE DEF t
  <2>2. Len(t) \in Nat /\ DOMAIN t = 1 .. Len(t)
    BY <2>1
  <2>3. /\ IsFiniteSet(Labelled(d, t, x)) /\ \A p \in Labelled(d, t, x) : p[1] = d
        /\ Cardinality(Labelled(d, t, x)) = Times(t, x)
    BY <2>2, LabelledSize
  <2>4. F[d] = Labelled(d, t, x)
    BY DEF t
  <2> HIDE DEF F
  <2> QED  BY <2>3, <2>4 DEF t
<1>4. RefsAt(P, x) = UnionOver(F, D)
    BY <1>1 DEF RefsAt, UnionOver
<1>5. RefsAt(C, x) = UnionOver(F, D \ {c})
  <2>1. D \ {c} = DOMAIN C
    OBVIOUS
  <2>2. \A d \in DOMAIN C : F[d] = Labelled(d, C[d], x)
    BY <1>1
  <2> HIDE DEF F
  <2> QED  BY <2>1, <2>2 DEF RefsAt, UnionOver
<1> HIDE DEF F
<1>6. \A d \in D : IsFiniteSet(F[d]) /\ \A p \in F[d] : p[1] = d
    BY <1>3
<1>7. c \in D
    OBVIOUS
<1> HIDE DEF D
<1>8. /\ Cardinality(UnionOver(F, D)) = Cardinality(UnionOver(F, D \ {c})) + Cardinality(F[c])
      /\ Cardinality(UnionOver(F, D \ {c})) \in Nat /\ IsFiniteSet(UnionOver(F, D))
    BY <1>2, <1>6, <1>7, LabelledUnion
<1>9. Cardinality(F[c]) = Times(s, x)
    BY <1>1, <1>3, <1>7
<1>10. IsFiniteSet(RefsAt(C, x))
  <2>1. UnionOver(F, D \ {c}) \subseteq UnionOver(F, D)
    BY DEF UnionOver
  <2> QED  BY <1>5, <1>8, <2>1, FS_Subset
<1> QED  BY <1>4, <1>5, <1>8, <1>9, <1>10 DEF P

LEMMA CapsFinite ==
    ASSUME Inv, NoSaveFailed
    PROVE  /\ IsFiniteSet(DOMAIN capsules) /\ CapsType(capsules) /\ DOMAIN capsules \subseteq 1 .. Len(data_of)
           /\ \A x : Cardinality(RefsAt(capsules, x)) \in Nat /\ IsFiniteSet(RefsAt(capsules, x))
<1>1. Types /\ Ordered
    BY DEF Inv
<1>2. CapsType(capsules) /\ data_of \in Seq(Datas)
    BY <1>1 DEF Types, CapsType
<1>3. \A c \in DOMAIN capsules : c <= Len(data_of)
    BY <1>1 DEF Ordered
<1>4. Len(data_of) \in Nat
    BY <1>2
<1>5. DOMAIN capsules \subseteq 1 .. Len(data_of)
    BY <1>2, <1>3, <1>4 DEF CapsType
<1>6. IsFiniteSet(DOMAIN capsules)
  <2>1. IsFiniteSet(1 .. Len(data_of))
    BY <1>4, FS_Interval
  <2> QED  BY <1>5, <2>1, FS_Subset
<1>7. 0 \notin DOMAIN capsules /\ << >> \in Seq(Nat)
    BY <1>2 DEF CapsType
<1>8. \A x : Cardinality(RefsAt(capsules, x)) \in Nat /\ IsFiniteSet(RefsAt(capsules, x))
    BY <1>2, <1>6, <1>7, RefsPut
<1> QED  BY <1>2, <1>5, <1>6, <1>8

(* What a step that makes no capsule has to show.                          *)
Recounts(w, k) ==
    /\ TakenOK(k)
    /\ \A i \in DOMAIN HeldSeq(k) : HeldSeq(k)[i] \in DOMAIN segment_map'
    /\ DOMAIN segment_map' = DOMAIN segment_map
    /\ \A x \in DOMAIN segment_map :
        segment_map'[x].ref_count + Times(HeldSeq(job[w]), x) = segment_map[x].ref_count + Times(HeldSeq(k), x)

KeepsCap(w, k) ==
    k.pc # "idle" => (job[w].pc # "idle" /\ k.cap = job[w].cap) \/ k.cap = Len(data_of) + 1

KeepsPromise(w, k) == \A x : Promised(job[w], x) => Promised(k, x)

LEMMA OthersSame ==
    ASSUME NEW J, NEW K, NEW w \in Writers, \A v \in Writers \ {w} : K[v] = J[v], NEW x
    PROVE  OthersAt(K, w, x) = OthersAt(J, w, x)
BY DEF OthersAt

LEMMA FreshKept ==
    ASSUME Inv, NoSaveFailed, Fresh(capsules, job), NEW w \in Writers, NEW k,
           \A v \in Writers \ {w} : job'[v] = job[v], job'[w] = k, capsules' = capsules, KeepsCap(w, k)
    PROVE  Fresh(capsules', job')
<1>1. DOMAIN capsules \subseteq 1 .. Len(data_of)
    BY CapsFinite
<1>2. Types /\ AllTasks
    BY DEF Inv
<1>3. \A v \in Writers : job[v].pc # "idle" => job[v].cap \in 1 .. Len(data_of)
    BY <1>2 DEF AllTasks, TasksOK
<1>4. Len(data_of) \in Nat
    BY <1>2 DEF Types
<1> DEFINE n == Len(data_of)
<1> HIDE DEF n
<1>5. n + 1 \notin 1 .. n
    BY <1>4 DEF n
<1>6. k.pc # "idle" => k.cap \notin DOMAIN capsules
    BY <1>1, <1>5 DEF KeepsCap, Fresh, n
<1>7. ASSUME NEW v \in Writers, v # w, k.pc # "idle", job[v].pc # "idle"
      PROVE  k.cap # job[v].cap
    BY <1>3, <1>5, <1>7 DEF KeepsCap, Fresh, n
<1>8. \A v \in Writers : job'[v].pc # "idle" => job'[v].cap \notin DOMAIN capsules'
    BY <1>6 DEF Fresh
<1>9. \A v, u \in Writers : job'[v].pc # "idle" /\ job'[u].pc # "idle" /\ v # u => job'[v].cap # job'[u].cap
  <2> SUFFICES ASSUME NEW v \in Writers, NEW u \in Writers, job'[v].pc # "idle", job'[u].pc # "idle", v # u
               PROVE  job'[v].cap # job'[u].cap
    OBVIOUS
  <2>1. CASE v = w
    BY <1>7, <2>1
  <2>2. CASE u = w
    BY <1>7, <2>2
  <2>3. CASE u # w /\ v # w
    BY <2>3 DEF Fresh
  <2> QED  BY <2>1, <2>2, <2>3
<1> QED  BY <1>8, <1>9 DEF Fresh

(* The parts of Counted when NoSaveFailed.                                 *)
CountParts ==
    /\ \A w \in Writers : TakenOK(job[w])
    /\ \A w \in Writers : \A i \in DOMAIN HeldSeq(job[w]) : HeldSeq(job[w])[i] \in DOMAIN segment_map
    /\ SumOK(segment_map, capsules, job)
    /\ Fresh(capsules, job)
    /\ \A x \in DOMAIN segment_map : Listed(capsules, x) \/ \E w \in Writers : Promised(job[w], x)

LEMMA CountQuiet ==
    ASSUME IsFiniteSet(Writers), Inv, Inv', NoSaveFailed, CountParts, NEW w \in Writers, NEW k, Becomes(w, k),
           capsules' = capsules, Recounts(w, k), KeepsCap(w, k), KeepsPromise(w, k)
    PROVE  CountParts'
<1>1. job \in [Writers -> JobRecord] /\ job' \in [Writers -> JobRecord] /\ SegmentMaps(segment_map) /\ SegmentMaps(segment_map')
    BY DEF Inv, Types
<1>2. (\A v \in Writers \ {w} : job'[v] = job[v]) /\ job'[w] = k
    BY <1>1 DEF Becomes
<1>3. \A v \in Writers : TakenOK(job'[v])
    BY <1>2 DEF CountParts, Recounts
<1>4. \A v \in Writers : \A i \in DOMAIN HeldSeq(job'[v]) : HeldSeq(job'[v])[i] \in DOMAIN segment_map'
    BY <1>2 DEF CountParts, Recounts
<1>5. ASSUME NEW x \in DOMAIN segment_map'
      PROVE  segment_map'[x].ref_count = Cardinality(RefsAt(capsules', x)) + Cardinality(HeldAt(job', x))
  <2>1. x \in DOMAIN segment_map
    BY DEF Recounts
  <2>2. segment_map[x].ref_count = Cardinality(RefsAt(capsules, x)) + Cardinality(HeldAt(job, x))
    BY <2>1 DEF CountParts, SumOK
  <2>3. segment_map'[x].ref_count + Times(HeldSeq(job[w]), x) = segment_map[x].ref_count + Times(HeldSeq(k), x)
    BY <2>1 DEF Recounts
  <2>4. /\ Cardinality(HeldAt(job, x)) = Cardinality(OthersAt(job, w, x)) + Times(HeldSeq(job[w]), x)
        /\ Cardinality(OthersAt(job, w, x)) \in Nat /\ Times(HeldSeq(job[w]), x) \in Nat
    BY <1>1, HeldSplit
  <2>5. /\ Cardinality(HeldAt(job', x)) = Cardinality(OthersAt(job', w, x)) + Times(HeldSeq(k), x)
        /\ Times(HeldSeq(k), x) \in Nat
    BY <1>1, <1>2, HeldSplit
  <2>6. OthersAt(job', w, x) = OthersAt(job, w, x)
    BY <1>2, OthersSame
  <2>7. Cardinality(RefsAt(capsules, x)) \in Nat
    BY CapsFinite
  <2>8. segment_map'[x].ref_count \in Nat /\ segment_map[x].ref_count \in Nat
    BY <1>1, <2>1 DEF SegmentMaps
  <2> DEFINE a == Cardinality(HeldAt(job, x))
             b == Cardinality(HeldAt(job', x))
             o == Cardinality(OthersAt(job, w, x))
             r == Cardinality(RefsAt(capsules, x))
             p == Times(HeldSeq(job[w]), x)
             q == Times(HeldSeq(k), x)
             y == segment_map[x].ref_count
             z == segment_map'[x].ref_count
  <2>9. y = r + a /\ z + p = y + q /\ a = o + p /\ b = o + q /\ o \in Nat /\ p \in Nat /\ q \in Nat /\ r \in Nat
        /\ z \in Nat /\ y \in Nat
    BY <2>2, <2>3, <2>4, <2>5, <2>6, <2>7, <2>8
  <2> HIDE DEF a, b, o, r, p, q, y, z
  <2>10. z = r + b
    BY <2>9
  <2> QED  BY <2>10 DEF b, r, z
<1>6. SumOK(segment_map', capsules', job')
    BY <1>5 DEF SumOK
<1>7. Fresh(capsules', job')
    BY <1>2, FreshKept DEF CountParts
<1>8. \A x \in DOMAIN segment_map' : Listed(capsules', x) \/ \E v \in Writers : Promised(job'[v], x)
  <2> TAKE x \in DOMAIN segment_map'
  <2>1. x \in DOMAIN segment_map
    BY DEF Recounts
  <2>2. CASE Listed(capsules, x)
    BY <2>2
  <2>3. ASSUME NEW v \in Writers, Promised(job[v], x)
        PROVE  Promised(job'[v], x)
    BY <1>2, <2>3 DEF KeepsPromise
  <2> QED  BY <2>1, <2>2, <2>3 DEF CountParts
<1> HIDE DEF CountParts
<1> QED  BY <1>3, <1>4, <1>6, <1>7, <1>8 DEF CountParts, Listed, Promised, PendingIds, SumOK, Fresh, HeldSeq, TakenOK, RefsAt, HeldAt

-----------------------------------------------------------------------------
(* The counts, step by step.                                               *)

LEMMA RecountSame ==
    ASSUME CountParts, NEW w \in Writers, NEW k, segment_map' = segment_map, TakenOK(k),
           HeldSeq(k) = HeldSeq(job[w])
    PROVE  Recounts(w, k)
BY DEF CountParts, Recounts

LEMMA TakenSame ==
    ASSUME NEW j, NEW k, TakenOK(j), k.segs = j.segs, k.pending = j.pending, k.increments = j.increments
    PROVE  TakenOK(k) /\ PendingIds(k) = PendingIds(j)
<1>1. PendingIds(k) = PendingIds(j)
    BY DEF PendingIds
<1> QED  BY <1>1 DEF TakenOK

LEMMA TakenNone ==
    ASSUME NEW k, k.segs = << >>, k.pending = << >>, k.increments = << >>
    PROVE  TakenOK(k) /\ PendingIds(k) = {}
<1>1. DOMAIN k.pending = {} /\ DOMAIN k.increments = {}
    OBVIOUS
<1>2. PendingIds(k) = {}
    BY <1>1 DEF PendingIds
<1> QED  BY <1>1, <1>2 DEF TakenOK

(* The counted references of a call, by its place.                         *)
LEMMA HeldPlaces ==
    ASSUME NEW j
    PROVE  /\ j.pc \in EarlyPCs => HeldSeq(j) = j.increments
           /\ j.pc \in {"register", "create"} => HeldSeq(j) = j.segs
           /\ j.pc = "undo" => HeldSeq(j) = [k \in DOMAIN j.undo |-> j.undo[k].id]
BY DEF HeldSeq, EarlyPCs

LEMMA PCPlaces ==
    ASSUME NEW j \in JobRecord
    PROVE  j.pc \in EarlyPCs \/ j.pc \in {"register", "create"} \/ j.pc = "undo"
BY DEF JobRecord, PCs, EarlyPCs

LEMMA ShuffleCounts ==
    ASSUME Inv, CountParts, NEW w \in Writers, ShuffleActions(w)
    PROVE  capsules' = capsules /\ \E k : Becomes(w, k) /\ Recounts(w, k) /\ KeepsCap(w, k) /\ KeepsPromise(w, k)
<1>1. Types /\ AllTasks
    BY DEF Inv
<1>2. PICK k : ShuffledTo(w, k)
    BY <1>1, ShuffleStep
<1> DEFINE j == job[w]
<1>3. /\ k \in JobRecord /\ job' = [job EXCEPT ![w] = k] /\ SameCore(j, k) /\ MovesOn(j.pc, k.pc)
      /\ TasksOK(k, data_of)
      /\ UNCHANGED <<segment_map, content_store, capsules, next_segment, data_of, unregistered, save_fails>>
    BY <1>2 DEF ShuffledTo, Shuffled
<1>4. Becomes(w, k)
    BY <1>3 DEF Becomes
<1>5. /\ k.pc \in EarlyPCs <=> j.pc \in EarlyPCs
      /\ k.pc \in {"register", "create"} <=> j.pc \in {"register", "create"}
      /\ k.pc = "undo" <=> j.pc = "undo"
      /\ k.pc = "idle" <=> j.pc = "idle"
    BY <1>3 DEF MovesOn, EarlyPCs
<1>6. k.segs = j.segs /\ k.pending = j.pending /\ k.increments = j.increments /\ k.undo = j.undo /\ k.cap = j.cap
    BY <1>3 DEF SameCore
<1>7. TakenOK(j) /\ j \in JobRecord
    BY <1>1, JobType DEF CountParts
<1>8. TakenOK(k) /\ PendingIds(k) = PendingIds(j)
    BY <1>6, <1>7, TakenSame
<1>9. HeldSeq(k) = HeldSeq(j)
    BY <1>5, <1>6 DEF HeldSeq
<1>10. Recounts(w, k)
    BY <1>3, <1>8, <1>9, RecountSame
<1>11. KeepsCap(w, k) /\ KeepsPromise(w, k)
    BY <1>5, <1>6, <1>8 DEF KeepsCap, KeepsPromise, Promised
<1> QED  BY <1>3, <1>4, <1>10, <1>11

LEMMA BeginCounts ==
    ASSUME Inv, CountParts, NEW w \in Writers, NEW data \in Datas, NEW dedupe \in BOOLEAN,
           WriteCapsuleAsync(w, data, dedupe)
    PROVE  capsules' = capsules /\ \E k : Becomes(w, k) /\ Recounts(w, k) /\ KeepsCap(w, k) /\ KeepsPromise(w, k)
<1>1. Types /\ AllTasks
    BY DEF Inv
<1>2. PICK k : Begins(w, k)
    BY <1>1, WriteBegins
<1> DEFINE j == job[w]
<1>3. /\ Becomes(w, k) /\ k.pc \in {"create", "spawn"} /\ k.pending = << >> /\ k.segs = << >> /\ k.increments = << >>
      /\ k.cap = Len(data_of) + 1
    BY <1>2 DEF Begins
<1>4. j.pc = "idle" /\ segment_map' = segment_map /\ capsules' = capsules
    BY DEF WriteCapsuleAsync, At, shared
<1>5. j.increments = << >>
    BY <1>1, <1>4 DEF AllTasks, TasksOK
<1>6. HeldSeq(k) = << >> /\ HeldSeq(j) = << >>
    BY <1>3, <1>4, <1>5 DEF HeldSeq
<1>7. TakenOK(k)
    BY <1>3, TakenNone
<1>8. Recounts(w, k)
    BY <1>4, <1>6, <1>7, RecountSame
<1>9. KeepsCap(w, k) /\ KeepsPromise(w, k)
    BY <1>3, <1>4 DEF KeepsCap, KeepsPromise, Promised
<1> QED  BY <1>3, <1>4, <1>8, <1>9

(* A call that holds nothing returns.                                      *)
LEMMA ReturnCounts ==
    ASSUME Inv, CountParts, NEW w \in Writers, Return(w), DOMAIN HeldSeq(job[w]) = {},
           job[w].pc \notin {"register", "create"}, segment_map' = segment_map
    PROVE  \E k : Becomes(w, k) /\ Recounts(w, k) /\ KeepsCap(w, k) /\ KeepsPromise(w, k)
<1>1. Types
    BY DEF Inv
<1> DEFINE j == job[w]
           k == IdleJob
<1>2. Becomes(w, k) /\ k.pc = "idle" /\ k.pending = << >> /\ k.segs = << >> /\ k.increments = << >>
    BY IdleType DEF Return, Becomes
<1> HIDE DEF k
<1>3. TakenOK(k)
    BY <1>2, TakenNone
<1>4. HeldSeq(k) = << >>
    BY <1>2 DEF HeldSeq
<1>5. j \in JobRecord
    BY <1>1, JobType
<1>6. HeldSeq(j) \in Seq(Nat) /\ << >> \in Seq(Nat)
    BY <1>5, HeldType
<1>7. \A x : Times(HeldSeq(j), x) = 0 /\ Times(<< >>, x) = 0
    BY <1>6, NoTimes, TimesEmpty
<1>8. DOMAIN HeldSeq(k) = {}
    BY <1>4
<1>9. Recounts(w, k)
    BY <1>3, <1>4, <1>7, <1>8 DEF Recounts
<1>10. KeepsCap(w, k) /\ KeepsPromise(w, k)
    BY <1>2 DEF KeepsCap, KeepsPromise, Promised
<1> QED  BY <1>2, <1>9, <1>10

(* A call that takes a segment it has staged.                              *)
LEMMA RestageTaken ==
    ASSUME NEW j \in JobRecord, NEW k \in JobRecord, TakenOK(j), NEW i \in DOMAIN j.pending,
           k.segs = Append(j.segs, j.pending[i].id), k.increments = j.increments,
           k.pending = [j.pending EXCEPT ![i].ref_count = @ + 1],
           \A l, m \in DOMAIN j.pending : j.pending[l].id = j.pending[m].id => l = m
    PROVE  TakenOK(k)
<1> DEFINE x == j.pending[i].id
           s == j.segs
           t == k.segs
<1>1. j.pending \in Seq(Staged) /\ s \in Seq(Nat) /\ j.increments \in Seq(Nat)
    BY DEF JobRecord
<1>2. \A l \in DOMAIN j.pending : j.pending[l] \in Staged
    BY <1>1
<1>3. \A l \in DOMAIN j.pending : j.pending[l].id \in Nat /\ j.pending[l].ref_count \in Nat
    BY <1>2 DEF Staged
<1>4. IsAppend(t, s, x) /\ x \in Nat
    BY <1>3 DEF IsAppend
<1>5. DOMAIN k.pending = DOMAIN j.pending /\ k.pending[i] = [j.pending[i] EXCEPT !.ref_count = @ + 1]
        /\ \A l \in DOMAIN j.pending : l # i => k.pending[l] = j.pending[l]
    BY <1>1
<1>6. k.pending[i].id = x /\ k.pending[i].ref_count = j.pending[i].ref_count + 1
    BY <1>2, <1>5 DEF Staged
<1>7. \A l \in DOMAIN j.pending : k.pending[l].id = j.pending[l].id
    BY <1>5, <1>6
<1>8. PendingIds(k) = PendingIds(j)
    BY <1>5, <1>7 DEF PendingIds
<1> HIDE DEF x, s, t
<1>9. \A y : Times(t, y) = Times(s, y) + (IF x = y THEN 1 ELSE 0) /\ Times(s, y) \in Nat
    BY <1>1, <1>4, TimesAppended
<1>10. Times(t, x) = Times(s, x) + 1 /\ \A y : y # x => Times(t, y) = Times(s, y)
    BY <1>9
<1>11. \A l \in DOMAIN k.pending : k.pending[l].ref_count = Times(t, k.pending[l].id) /\ k.pending[l].ref_count > 0
  <2> TAKE l \in DOMAIN k.pending
  <2>0. j.pending[l].ref_count = Times(s, j.pending[l].id) /\ j.pending[l].ref_count > 0 /\ j.pending[l].ref_count \in Nat
    BY <1>3, <1>5 DEF TakenOK, s
  <2>1. CASE l = i
    <3>1. j.pending[i].ref_count = Times(s, x) /\ j.pending[i].ref_count > 0
        BY <2>0, <2>1 DEF x
    <3> QED  BY <1>3, <1>6, <1>10, <2>1, <3>1
  <2>2. CASE l # i
    <3>1. k.pending[l] = j.pending[l] /\ j.pending[l].id # x
        BY <1>5, <2>2 DEF x
    <3>2. Times(t, j.pending[l].id) = Times(s, j.pending[l].id)
        BY <1>10, <3>1
    <3> QED  BY <2>0, <3>1, <3>2
  <2> QED  BY <2>1, <2>2
<1>12. \A y \in Nat : y \notin PendingIds(k) => Times(t, y) = Times(k.increments, y)
  <2> SUFFICES ASSUME NEW y \in Nat, y \notin PendingIds(j) PROVE Times(t, y) = Times(j.increments, y)
    BY <1>8
  <2>1. x \in PendingIds(j)
    BY DEF PendingIds, x
  <2>2. Times(s, y) = Times(j.increments, y)
    BY DEF TakenOK, s
  <2> QED  BY <1>10, <2>1, <2>2
<1>13. \A l \in DOMAIN k.increments : k.increments[l] \notin PendingIds(k)
    BY <1>8 DEF TakenOK
<1> QED  BY <1>11, <1>12, <1>13 DEF TakenOK, t

(* A call that stages a new segment.                                       *)
LEMMA StageTaken ==
    ASSUME NEW j \in JobRecord, NEW k \in JobRecord, TakenOK(j), NEW x \in Nat, NEW d,
           k.segs = Append(j.segs, x), k.increments = j.increments,
           k.pending = Append(j.pending, [id |-> x, data |-> d, ref_count |-> 1]),
           x \notin PendingIds(j), \A l \in DOMAIN j.increments : j.increments[l] # x
    PROVE  TakenOK(k)
<1> DEFINE s == j.segs
           t == k.segs
           r == [id |-> x, data |-> d, ref_count |-> 1]
           L == Len(j.pending) + 1
<1>1. j.pending \in Seq(Staged) /\ s \in Seq(Nat) /\ j.increments \in Seq(Nat)
    BY DEF JobRecord
<1>2. /\ DOMAIN k.pending = DOMAIN j.pending \cup {L} /\ k.pending[L] = r
      /\ \A l \in DOMAIN j.pending : k.pending[l] = j.pending[l]
    BY <1>1
<1>3. r.id = x /\ r.ref_count = 1
    OBVIOUS
<1>4. IsAppend(t, s, x)
    BY DEF IsAppend
<1> HIDE DEF s, t, r, L
<1>5. \A y : Times(t, y) = Times(s, y) + (IF x = y THEN 1 ELSE 0) /\ Times(s, y) \in Nat
    BY <1>1, <1>4, TimesAppended
<1>6. Times(t, x) = Times(s, x) + 1 /\ \A y : y # x => Times(t, y) = Times(s, y)
    BY <1>5
<1>7. Times(s, x) = Times(j.increments, x) /\ Times(j.increments, x) = 0
    BY <1>1, NoTimes DEF TakenOK, s
<1>8. Times(t, x) = 1
    BY <1>6, <1>7
<1>9. PendingIds(k) = PendingIds(j) \cup {x}
  <2>1. \A l \in DOMAIN k.pending : k.pending[l].id \in PendingIds(j) \cup {x}
    BY <1>2, <1>3 DEF PendingIds
  <2>2. \A l \in DOMAIN j.pending : j.pending[l].id \in PendingIds(k)
    BY <1>2 DEF PendingIds
  <2>3. x \in PendingIds(k)
    BY <1>2, <1>3 DEF PendingIds
  <2> QED  BY <2>1, <2>2, <2>3 DEF PendingIds
<1>10. \A l \in DOMAIN k.pending : k.pending[l].ref_count = Times(t, k.pending[l].id) /\ k.pending[l].ref_count > 0
  <2> TAKE l \in DOMAIN k.pending
  <2>1. CASE l = L
    BY <1>2, <1>3, <1>8, <2>1
  <2>2. CASE l \in DOMAIN j.pending
    <3>1. k.pending[l] = j.pending[l] /\ j.pending[l].id \in PendingIds(j) /\ j.pending[l].id # x
        BY <1>2, <2>2 DEF PendingIds
    <3>2. Times(t, j.pending[l].id) = Times(s, j.pending[l].id)
        BY <1>6, <3>1
    <3>3. j.pending[l].ref_count = Times(s, j.pending[l].id) /\ j.pending[l].ref_count > 0
        BY <2>2 DEF TakenOK, s
    <3> QED  BY <3>1, <3>2, <3>3
  <2> QED  BY <1>2, <2>1, <2>2
<1>11. \A y \in Nat : y \notin PendingIds(k) => Times(t, y) = Times(k.increments, y)
  <2> SUFFICES ASSUME NEW y \in Nat, y \notin PendingIds(k) PROVE Times(t, y) = Times(j.increments, y)
    OBVIOUS
  <2>1. y # x /\ y \notin PendingIds(j)
    BY <1>9
  <2>2. Times(s, y) = Times(j.increments, y)
    BY <2>1 DEF TakenOK, s
  <2> QED  BY <1>6, <2>1, <2>2
<1>12. \A l \in DOMAIN k.increments : k.increments[l] \notin PendingIds(k)
    BY <1>9 DEF TakenOK
<1> QED  BY <1>10, <1>11, <1>12 DEF TakenOK, t

(* A call that takes a segment of the map.                                 *)
LEMMA IncrementTaken ==
    ASSUME NEW j \in JobRecord, NEW k \in JobRecord, TakenOK(j), NEW x \in Nat,
           k.segs = Append(j.segs, x), k.increments = Append(j.increments, x),
           k.pending = j.pending, x \notin PendingIds(j)
    PROVE  TakenOK(k)
<1> DEFINE s == j.segs
           t == k.segs
           a == j.increments
           b == k.increments
<1>1. s \in Seq(Nat) /\ a \in Seq(Nat)
    BY DEF JobRecord
<1>2. IsAppend(t, s, x) /\ IsAppend(b, a, x)
    BY DEF IsAppend
<1>3. PendingIds(k) = PendingIds(j)
    BY DEF PendingIds
<1>4. \A l \in DOMAIN b : (l \in DOMAIN a /\ b[l] = a[l]) \/ b[l] = x
    BY <1>1
<1> HIDE DEF s, t, a, b
<1>5. \A y : Times(t, y) = Times(s, y) + (IF x = y THEN 1 ELSE 0) /\ Times(s, y) \in Nat
    BY <1>1, <1>2, TimesAppended
<1>6. \A y : Times(b, y) = Times(a, y) + (IF x = y THEN 1 ELSE 0) /\ Times(a, y) \in Nat
    BY <1>1, <1>2, TimesAppended
<1>7. \A y : y # x => Times(t, y) = Times(s, y)
    BY <1>5
<1>8. \A l \in DOMAIN k.pending : k.pending[l].ref_count = Times(t, k.pending[l].id) /\ k.pending[l].ref_count > 0
  <2> TAKE l \in DOMAIN k.pending
  <2>1. j.pending[l].id # x
    BY DEF PendingIds
  <2>2. j.pending[l].ref_count = Times(s, j.pending[l].id) /\ j.pending[l].ref_count > 0
    BY DEF TakenOK, s
  <2> QED  BY <1>7, <2>1, <2>2
<1>9. \A y \in Nat : y \notin PendingIds(k) => Times(t, y) = Times(b, y)
  <2> SUFFICES ASSUME NEW y \in Nat, y \notin PendingIds(j) PROVE Times(t, y) = Times(b, y)
    BY <1>3
  <2>1. Times(s, y) = Times(a, y)
    BY DEF TakenOK, s, a
  <2> QED  BY <1>5, <1>6, <2>1
<1>10. \A l \in DOMAIN b : b[l] \notin PendingIds(k)
    BY <1>3, <1>4 DEF TakenOK, a
<1> QED  BY <1>8, <1>9, <1>10 DEF TakenOK, t, b

LEMMA CommitSegmentCounts ==
    ASSUME Inv, CountParts, NEW w \in Writers, CommitSegment(w)
    PROVE  capsules' = capsules /\ \E k : Becomes(w, k) /\ Recounts(w, k) /\ KeepsCap(w, k) /\ KeepsPromise(w, k)
<1>1. Types /\ AllTasks /\ Owned
    BY DEF Inv
<1> DEFINE j == job[w]
<1>2. segment_map' = segment_map /\ capsules' = capsules
    BY DEF CommitSegment
<1>3. j.pc = "take" /\ \E k : (\E i : Restages(w, k, i)) \/ Finds(w, k) \/ Stages(w, k)
    BY <1>1, CommitSegmentStep
<1>4. j \in JobRecord /\ TakenOK(j) /\ HeldSeq(j) = j.increments
    BY <1>1, <1>3, JobType, HeldPlaces DEF CountParts, EarlyPCs
<1>5. PendingOK(j, segment_map, next_segment) /\ \A x \in DOMAIN segment_map : x < next_segment
    BY <1>1 DEF Owned
<1>6. ASSUME NEW k, k.pc \in {"take", "increment"}, TakenOK(k), k.increments = j.increments, k.cap = j.cap
      PROVE  Recounts(w, k) /\ KeepsCap(w, k) /\ KeepsPromise(w, k)
  <2>1. HeldSeq(k) = HeldSeq(j)
    BY <1>4, <1>6, HeldPlaces DEF EarlyPCs
  <2>2. Recounts(w, k)
    BY <1>2, <1>6, <2>1, RecountSame
  <2> QED  BY <1>3, <1>6, <2>2 DEF KeepsCap, KeepsPromise, Promised
<1>7. ASSUME NEW k, NEW i, Restages(w, k, i)
      PROVE  Becomes(w, k) /\ Recounts(w, k) /\ KeepsCap(w, k) /\ KeepsPromise(w, k)
  <2>1. /\ Becomes(w, k) /\ i \in DOMAIN j.pending /\ TakesSegment(j, k, j.pending[i].id)
        /\ k.pending = [j.pending EXCEPT ![i].ref_count = @ + 1] /\ k.increments = j.increments
    BY <1>7 DEF Restages, StagedIndex
  <2>2. k.pc = "take" /\ k.segs = Append(j.segs, j.pending[i].id) /\ k.cap = j.cap /\ k \in JobRecord
    BY <2>1 DEF TakesSegment, Becomes
  <2>3. \A l, m \in DOMAIN j.pending : j.pending[l].id = j.pending[m].id => l = m
    BY <1>5 DEF PendingOK
  <2> HIDE DEF j
  <2>4. TakenOK(k)
    BY <1>4, <2>1, <2>2, <2>3, RestageTaken
  <2> QED  BY <1>6, <2>1, <2>2, <2>4
<1>8. ASSUME NEW k, Finds(w, k)
      PROVE  Becomes(w, k) /\ Recounts(w, k) /\ KeepsCap(w, k) /\ KeepsPromise(w, k)
  <2>1. Becomes(w, k) /\ k.pc = "increment" /\ k.segs = j.segs /\ k.pending = j.pending /\ k.increments = j.increments
        /\ k.cap = j.cap
    BY <1>8 DEF Finds, SameCall
  <2>2. TakenOK(k)
    BY <1>4, <2>1, TakenSame
  <2> QED  BY <1>6, <2>1, <2>2
<1>9. ASSUME NEW k, Stages(w, k)
      PROVE  Becomes(w, k) /\ Recounts(w, k) /\ KeepsCap(w, k) /\ KeepsPromise(w, k)
  <2> DEFINE d == Data(w)[j.next]
             x == next_segment
  <2>1. /\ Becomes(w, k) /\ TakesSegment(j, k, x) /\ k.increments = j.increments
        /\ k.pending = Append(j.pending, [id |-> x, data |-> d, ref_count |-> 1])
    BY <1>9 DEF Stages
  <2>2. k.pc = "take" /\ k.segs = Append(j.segs, x) /\ k.cap = j.cap /\ k \in JobRecord /\ x \in Nat
    BY <1>1, <2>1 DEF TakesSegment, Becomes, Types
  <2>3. x \notin PendingIds(j)
    BY <1>5, <2>2 DEF PendingOK, PendingIds
  <2>4. \A l \in DOMAIN j.increments : j.increments[l] # x
    <3>1. \A l \in DOMAIN j.increments : j.increments[l] \in DOMAIN segment_map
        BY <1>4 DEF CountParts
    <3> QED  BY <1>5, <2>2, <3>1
  <2> HIDE DEF j, x, d
  <2>5. TakenOK(k)
    BY <1>4, <2>1, <2>2, <2>3, <2>4, StageTaken
  <2> QED  BY <1>6, <2>1, <2>2, <2>5
<1> QED  BY <1>2, <1>3, <1>7, <1>8, <1>9

LEMMA IncrementCounts ==
    ASSUME Inv, CountParts, NEW w \in Writers, IncrementRefcount(w)
    PROVE  capsules' = capsules /\ \E k : Becomes(w, k) /\ Recounts(w, k) /\ KeepsCap(w, k) /\ KeepsPromise(w, k)
<1>1. Types /\ AllTasks /\ Owned
    BY DEF Inv
<1> DEFINE j == job[w]
           x == j.hit
<1>2. PICK k : Increments(w, k)
    BY <1>1, IncrementStep
<1>3. j.pc = "increment" /\ SegmentMaps(segment_map') /\ SameData(segment_map, segment_map')
    BY <1>1, IncrementStep
<1>4. capsules' = capsules /\ x \in DOMAIN segment_map
        /\ segment_map' = [segment_map EXCEPT ![x].ref_count = @ + 1]
    BY DEF IncrementRefcount
<1>5. /\ Becomes(w, k) /\ TakesSegment(j, k, x) /\ k.pending = j.pending /\ k.increments = Append(j.increments, x)
    BY <1>2 DEF Increments
<1>6. k.pc = "take" /\ k.segs = Append(j.segs, x) /\ k.cap = j.cap /\ k \in JobRecord
    BY <1>5 DEF TakesSegment, Becomes
<1>7. j \in JobRecord /\ TakenOK(j) /\ HeldSeq(j) = j.increments
    BY <1>1, <1>3, JobType, HeldPlaces DEF CountParts, EarlyPCs
<1>8. x \in Nat /\ j.increments \in Seq(Nat)
    BY <1>7 DEF JobRecord
<1>9. PendingOK(j, segment_map, next_segment)
    BY <1>1 DEF Owned
<1>10. x \notin PendingIds(j)
    BY <1>3, <1>4, <1>9 DEF PendingOK, EarlyPCs
<1>11. SegmentMaps(segment_map)
    BY <1>1 DEF Types
<1>12. segment_map'[x].ref_count = segment_map[x].ref_count + 1 /\ \A y \in DOMAIN segment_map : y # x => segment_map'[y] = segment_map[y]
    BY <1>4, <1>11 DEF SegmentMaps
<1> HIDE DEF j, x
<1>13. TakenOK(k)
    BY <1>5, <1>6, <1>7, <1>8, <1>10, IncrementTaken
<1>14. HeldSeq(k) = k.increments
    BY <1>6, HeldPlaces DEF EarlyPCs
<1>15. \A y : Times(k.increments, y) = Times(j.increments, y) + (IF x = y THEN 1 ELSE 0) /\ Times(j.increments, y) \in Nat
  <2>1. IsAppend(k.increments, j.increments, x)
    BY <1>5 DEF IsAppend
  <2> QED  BY <1>8, <2>1, TimesAppended
<1>16. ASSUME NEW y \in DOMAIN segment_map
       PROVE  segment_map'[y].ref_count + Times(j.increments, y) = segment_map[y].ref_count + Times(k.increments, y)
  <2>1. segment_map[y].ref_count \in Nat
    BY <1>11 DEF SegmentMaps
  <2>2. CASE y = x
    BY <1>12, <1>15, <2>1, <2>2
  <2>3. CASE y # x
    BY <1>12, <1>15, <2>1, <2>3
  <2> QED  BY <2>2, <2>3
<1>17. \A i \in DOMAIN k.increments : k.increments[i] \in DOMAIN segment_map'
  <2>1. \A i \in DOMAIN j.increments : j.increments[i] \in DOMAIN segment_map
    BY <1>7 DEF CountParts, j
  <2>2. \A i \in DOMAIN k.increments : (i \in DOMAIN j.increments /\ k.increments[i] = j.increments[i]) \/ k.increments[i] = x
    BY <1>5, <1>8
  <2> QED  BY <1>3, <1>4, <2>1, <2>2 DEF SameData
<1>18. Recounts(w, k)
    BY <1>3, <1>7, <1>13, <1>14, <1>16, <1>17 DEF Recounts, SameData, j
<1>19. KeepsCap(w, k) /\ KeepsPromise(w, k)
    BY <1>3, <1>6 DEF KeepsCap, KeepsPromise, Promised, j
<1> QED  BY <1>4, <1>5, <1>18, <1>19

LEMMA IncrementFailsCounts ==
    ASSUME Inv, CountParts, NoSaveFailed', NEW w \in Writers, IncrementFails(w)
    PROVE  capsules' = capsules /\ \E k : Becomes(w, k) /\ Recounts(w, k) /\ KeepsCap(w, k) /\ KeepsPromise(w, k)
<1>1. Types /\ AllTasks
    BY DEF Inv
<1> DEFINE j == job[w]
<1>2. PICK k : Becomes(w, k) /\ SameCall(j, k) /\ k.pc = "join"
    BY <1>1, IncrementFailsStep
<1>3. j.pc = "increment" /\ segment_map' = segment_map /\ capsules' = capsules
    BY <1>1, IncrementFailsStep DEF NoSaveFailed, IncrementFails
<1>4. k.segs = j.segs /\ k.pending = j.pending /\ k.increments = j.increments /\ k.cap = j.cap
    BY <1>2 DEF SameCall
<1>5. TakenOK(j)
    BY DEF CountParts
<1>6. TakenOK(k)
    BY <1>4, <1>5, TakenSame
<1>7. HeldSeq(k) = HeldSeq(j)
    BY <1>2, <1>3, <1>4, HeldPlaces DEF EarlyPCs
<1>8. Recounts(w, k)
    BY <1>3, <1>6, <1>7, RecountSame
<1>9. KeepsCap(w, k) /\ KeepsPromise(w, k)
    BY <1>2, <1>3, <1>4 DEF KeepsCap, KeepsPromise, Promised
<1> QED  BY <1>2, <1>3, <1>8, <1>9

LEMMA AbortCounts ==
    ASSUME Inv, CountParts, NEW w \in Writers, job[w].pc \in {"join", "commit"}, StartUndo(w, AbortUndo(w)),
           segment_map' = segment_map, data_of' = data_of
    PROVE  \E k : Becomes(w, k) /\ Recounts(w, k) /\ KeepsCap(w, k) /\ KeepsPromise(w, k)
<1>1. Types /\ AllTasks
    BY DEF Inv
<1> DEFINE j == job[w]
           u == Decrements(w)
           n == Len(j.increments)
<1>2. /\ u \in Seq(UndoSteps) /\ Len(u) = n /\ \A i \in DOMAIN u : u[i].id = j.increments[n + 1 - i]
    BY <1>1, DecrementsFacts
<1>3. StartUndo(w, u)
    BY DEF AbortUndo
<1> HIDE DEF u
<1>4. PICK k : Undoes(w, k, u)
    BY <1>1, <1>2, <1>3, StartsUndo
<1>5. Becomes(w, k) /\ k.pc = "undo" /\ k.undo = u /\ SameCall(j, k) /\ k \in JobRecord
    BY <1>4 DEF Undoes, Becomes
<1>6. k.segs = j.segs /\ k.pending = j.pending /\ k.increments = j.increments /\ k.cap = j.cap
    BY <1>5 DEF SameCall
<1>7. TakenOK(j) /\ j \in JobRecord /\ HeldSeq(j) = j.increments
    BY <1>1, JobType, HeldPlaces DEF CountParts, EarlyPCs
<1>8. TakenOK(k)
    BY <1>6, <1>7, TakenSame
<1> DEFINE t == HeldSeq(k)
<1>9. t = [i \in DOMAIN u |-> u[i].id] /\ t \in Seq(Nat)
    BY <1>5, HeldPlaces, HeldType
<1>10. DOMAIN t = DOMAIN u /\ \A i \in DOMAIN t : t[i] = j.increments[n + 1 - i]
    BY <1>2, <1>9
<1>11. j.increments \in Seq(Nat)
    BY <1>7 DEF JobRecord
<1> HIDE DEF t
<1>12. Len(t) = n /\ DOMAIN t = 1 .. n /\ n \in Nat
  <2>1. DOMAIN u = 1 .. n /\ n \in Nat
    BY <1>2, <1>11
  <2> QED  BY <1>9, <1>10, <2>1
<1>13. \A x : Times(t, x) = Times(j.increments, x)
    BY <1>9, <1>10, <1>11, <1>12, TimesReversed
<1>14. \A i \in DOMAIN t : t[i] \in DOMAIN segment_map
  <2>1. \A i \in DOMAIN j.increments : j.increments[i] \in DOMAIN segment_map
    BY <1>7 DEF CountParts
  <2>2. \A i \in 1 .. n : n + 1 - i \in DOMAIN j.increments
    BY <1>11, <1>12
  <2> QED  BY <1>10, <1>12, <2>1, <2>2
<1>15. Recounts(w, k)
    BY <1>7, <1>8, <1>13, <1>14 DEF Recounts, t
<1>16. KeepsCap(w, k) /\ KeepsPromise(w, k)
    BY <1>5, <1>6 DEF KeepsCap, KeepsPromise, Promised
<1> QED  BY <1>5, <1>15, <1>16

LEMMA RegisterCounts ==
    ASSUME Inv, CountParts, NoSaveFailed', NEW w \in Writers, RegisterContent(w)
    PROVE  capsules' = capsules /\ \E k : Becomes(w, k) /\ Recounts(w, k) /\ KeepsCap(w, k) /\ KeepsPromise(w, k)
<1>1. Types /\ AllTasks
    BY DEF Inv
<1> DEFINE j == job[w]
<1>2. /\ j.pc = "register" /\ j.registered < Len(Registrations(w)) /\ At(w, "register")
      /\ UNCHANGED <<segment_map, capsules, data_of>>
    BY DEF RegisterContent, At
<1>3. job' = [job EXCEPT ![w].registered = @ + 1]
    BY <1>1, SaveCounted DEF RegisterContent
<1>4. PICK k : Registers(w, k)
    BY <1>1, <1>2, <1>3, RegisterStep
<1>5. /\ Becomes(w, k) /\ k.pc = j.pc /\ k.pending = j.pending /\ k.segs = j.segs
      /\ k.increments = j.increments /\ k.cap = j.cap
    BY <1>4 DEF Registers
<1>6. TakenOK(j)
    BY DEF CountParts
<1>7. TakenOK(k) /\ PendingIds(k) = PendingIds(j)
    BY <1>5, <1>6, TakenSame
<1>8. HeldSeq(k) = HeldSeq(j)
    BY <1>2, <1>5, HeldPlaces
<1>9. Recounts(w, k)
    BY <1>2, <1>7, <1>8, RecountSame
<1>10. KeepsCap(w, k) /\ KeepsPromise(w, k)
    BY <1>2, <1>5, <1>7 DEF KeepsCap, KeepsPromise, Promised
<1> QED  BY <1>2, <1>5, <1>9, <1>10

(* The references that an undo still holds.                                *)
LEMMA UndoHolds ==
    ASSUME Inv, CountParts, NoSaveFailed, NEW w \in Writers, job[w].pc = "undo", job[w].undo # << >>
    PROVE  /\ Head(job[w].undo) \in UndoSteps /\ Head(job[w].undo).op = "decrement"
           /\ HeldSeq(job[w]) \in Seq(Nat) /\ HeldSeq(job[w]) # << >>
           /\ Head(HeldSeq(job[w])) = Head(job[w].undo).id
           /\ Head(job[w].undo).id \in DOMAIN segment_map
           /\ Times(HeldSeq(job[w]), Head(job[w].undo).id) > 0
<1> DEFINE j == job[w]
           s == HeldSeq(j)
<1>1. Types /\ Ordered
    BY DEF Inv
<1>2. j \in JobRecord
    BY <1>1, JobType
<1>3. j.undo \in Seq(UndoSteps)
    BY <1>2 DEF JobRecord
<1>4. 1 \in DOMAIN j.undo /\ Head(j.undo) = j.undo[1] /\ j.undo[1] \in UndoSteps
    BY <1>3
<1>5. ChunksOK(j, segment_map, data_of)
    BY <1>1 DEF Ordered
<1>6. j.undo[1].op = "decrement"
    BY <1>4, <1>5 DEF ChunksOK
<1>7. s \in Seq(Nat)
    BY <1>2, HeldType
<1>8. DOMAIN s = DOMAIN j.undo /\ s[1] = j.undo[1].id
    BY <1>4, HeldPlaces
<1>9. \A i \in DOMAIN s : s[i] \in DOMAIN segment_map
    BY DEF CountParts
<1> HIDE DEF s
<1>10. s # << >> /\ Head(s) = s[1]
    BY <1>4, <1>7, <1>8
<1>11. Times(s, s[1]) > 0
    BY <1>4, <1>7, <1>8, NoTimes
<1> QED  BY <1>4, <1>6, <1>7, <1>8, <1>9, <1>10, <1>11 DEF s

LEMMA UndoStepCounts ==
    ASSUME Inv, CountParts, NoSaveFailed, NEW w \in Writers, UndoStep(w)
    PROVE  capsules' = capsules /\ \E k : Becomes(w, k) /\ Recounts(w, k) /\ KeepsCap(w, k) /\ KeepsPromise(w, k)
<1>1. Types /\ AllTasks
    BY DEF Inv
<1> DEFINE j == job[w]
           u == Head(j.undo)
           t == Tail(j.undo)
           x == u.id
<1>2. /\ j.pc = "undo" /\ j.undo # << >> /\ Undo(u) /\ ~Refused(u)
      /\ job' = [job EXCEPT ![w].undo = t] /\ UNCHANGED <<capsules, data_of>>
    BY <1>1 DEF UndoStep, At, Types
<1>3. u \in UndoSteps /\ u.op = "decrement" /\ HeldSeq(j) \in Seq(Nat) /\ HeldSeq(j) # << >> /\ Head(HeldSeq(j)) = x
        /\ x \in DOMAIN segment_map
    BY <1>2, UndoHolds
<1>4. j \in JobRecord
    BY <1>1, JobType
<1>5. j.undo \in Seq(UndoSteps)
    BY <1>4 DEF JobRecord
<1>6. t \in Seq(UndoSteps)
    BY <1>2, <1>5
<1>7. HeldSeq(j) = [i \in DOMAIN j.undo |-> j.undo[i].id]
    BY <1>2, HeldPlaces
<1>8. [i \in DOMAIN t |-> t[i].id] = Tail(HeldSeq(j))
  <2>1. Len(HeldSeq(j)) = Len(j.undo) /\ Len(j.undo) \in Nat /\ Len(j.undo) # 0
    BY <1>2, <1>3, <1>5, <1>7
  <2>2. DOMAIN t = 1 .. Len(j.undo) - 1 /\ \A i \in DOMAIN t : t[i] = j.undo[i + 1] /\ i + 1 \in DOMAIN j.undo
    BY <1>2, <1>5
  <2>3. Tail(HeldSeq(j)) = [i \in 1 .. Len(HeldSeq(j)) - 1 |-> HeldSeq(j)[i + 1]]
    BY <1>3
  <2>4. \A i \in DOMAIN t : HeldSeq(j)[i + 1] = t[i].id
    BY <1>7, <2>2
  <2> HIDE DEF t
  <2> QED  BY <2>1, <2>2, <2>3, <2>4
<1>9. Decreases(u)
  <2>1. Deregisters(u) \/ Removes(u) \/ Decreases(u)
    BY <1>1, <1>2, <1>3, UndoFacts
  <2> QED  BY <1>3, <2>1 DEF Deregisters, Removes
<1> HIDE DEF t, u
<1>10. PICK k : Undoes(w, k, t)
    BY <1>1, <1>2, <1>6, UndoesMore
<1>11. Becomes(w, k) /\ k.pc = "undo" /\ k.undo = t /\ SameCall(j, k) /\ k \in JobRecord
    BY <1>10 DEF Undoes, Becomes
<1>12. k.segs = j.segs /\ k.pending = j.pending /\ k.increments = j.increments /\ k.cap = j.cap
    BY <1>11 DEF SameCall
<1>13. TakenOK(j)
    BY DEF CountParts
<1>14. TakenOK(k)
    BY <1>12, <1>13, TakenSame
<1> DEFINE a == HeldSeq(j)
           b == HeldSeq(k)
<1>15. b = Tail(a)
    BY <1>8, <1>11, HeldPlaces
<1>16. \A i \in DOMAIN a : a[i] \in DOMAIN segment_map
    BY DEF CountParts
<1>17. a \in Seq(Nat) /\ IsHeadTail(a, x, b)
    BY <1>3, <1>15 DEF IsHeadTail
<1> HIDE DEF a, b, x
<1>18. \A y : Times(a, y) = Times(b, y) + (IF x = y THEN 1 ELSE 0) /\ Times(a, y) \in Nat /\ Times(b, y) \in Nat
    BY <1>17, TimesTailed
<1>19. /\ DOMAIN segment_map' = DOMAIN segment_map /\ segment_map'[x].ref_count = segment_map[x].ref_count - 1
       /\ \A y \in DOMAIN segment_map : y # x => segment_map'[y] = segment_map[y]
    BY <1>9 DEF Decreases, SameData, x
<1>20. \A i \in DOMAIN b : b[i] \in DOMAIN segment_map'
  <2>1. \A i \in DOMAIN b : i + 1 \in DOMAIN a /\ b[i] = a[i + 1]
    BY <1>3, <1>15, <1>17 DEF a
  <2> QED  BY <1>16, <1>19, <2>1
<1>21. ASSUME NEW y \in DOMAIN segment_map
       PROVE  segment_map'[y].ref_count + Times(a, y) = segment_map[y].ref_count + Times(b, y)
  <2>1. segment_map[y].ref_count \in Nat
    BY <1>1 DEF Types, SegmentMaps
  <2>2. CASE y = x
    BY <1>18, <1>19, <2>1, <2>2
  <2>3. CASE y # x
    BY <1>18, <1>19, <2>1, <2>3
  <2> QED  BY <2>2, <2>3
<1>22. Recounts(w, k)
    BY <1>14, <1>19, <1>20, <1>21 DEF Recounts, a, b
<1>23. KeepsCap(w, k) /\ KeepsPromise(w, k)
    BY <1>2, <1>11, <1>12 DEF KeepsCap, KeepsPromise, Promised
<1> QED  BY <1>2, <1>11, <1>22, <1>23

(* As long as no save fails, no undo fails: what it gives back is counted. *)
LEMMA UndoNeverRefused ==
    ASSUME IsFiniteSet(Writers), Inv, CountParts, NoSaveFailed, NoSaveFailed', NEW w \in Writers, UndoFails(w)
    PROVE  FALSE
<1>1. Types
    BY DEF Inv
<1> DEFINE j == job[w]
           u == Head(j.undo)
           x == u.id
<1>2. j.pc = "undo" /\ j.undo # << >> /\ (Refused(u) \/ SaveFails)
    BY DEF UndoFails, At
<1>3. ~SaveFails
    BY <1>1, SaveCounted
<1>4. x \in DOMAIN segment_map /\ Times(HeldSeq(j), x) > 0
    BY <1>2, UndoHolds
<1>5. segment_map[x].ref_count = 0
    BY <1>2, <1>3, <1>4 DEF Refused
<1>6. segment_map[x].ref_count = Cardinality(RefsAt(capsules, x)) + Cardinality(HeldAt(job, x))
    BY <1>4 DEF CountParts, SumOK
<1>7. \A v \in Writers : job[v] \in JobRecord
    BY <1>1, JobType
<1>8. /\ Cardinality(HeldAt(job, x)) = Cardinality(OthersAt(job, w, x)) + Times(HeldSeq(j), x)
      /\ Cardinality(OthersAt(job, w, x)) \in Nat /\ Times(HeldSeq(j), x) \in Nat
    BY <1>7, HeldSplit
<1>9. Cardinality(RefsAt(capsules, x)) \in Nat
    BY CapsFinite
<1> HIDE DEF x, u
<1> QED  BY <1>4, <1>5, <1>6, <1>8, <1>9

LEMMA ReturnsCount ==
    ASSUME Inv, CountParts, NEW w \in Writers, UndoReturns(w) \/ SpawnRefused(w)
    PROVE  capsules' = capsules /\ \E k : Becomes(w, k) /\ Recounts(w, k) /\ KeepsCap(w, k) /\ KeepsPromise(w, k)
<1>1. Types /\ AllTasks
    BY DEF Inv
<1> DEFINE j == job[w]
<1>2. Return(w) /\ segment_map' = segment_map /\ capsules' = capsules /\ j.pc \notin {"register", "create"}
    BY DEF UndoReturns, SpawnRefused, shared, At
<1>3. DOMAIN HeldSeq(j) = {}
  <2>1. CASE UndoReturns(w)
    <3>1. j.pc = "undo" /\ j.undo = << >>
        BY <2>1 DEF UndoReturns, At
    <3>2. DOMAIN j.undo = {}
        BY <3>1
    <3> QED  BY <3>1, <3>2, HeldPlaces
  <2>2. CASE SpawnRefused(w)
    <3>1. j.pc = "spawn"
        BY <2>2 DEF SpawnRefused, At
    <3>2. j.increments = << >>
        BY <1>1, <3>1 DEF AllTasks, TasksOK
    <3>3. HeldSeq(j) = << >>
        BY <3>1, <3>2 DEF HeldSeq
    <3> QED  BY <3>3
  <2> QED  BY <2>1, <2>2
<1> QED  BY <1>2, <1>3, ReturnCounts

LEMMA FailsCount ==
    ASSUME Inv, CountParts, NoSaveFailed', NEW w \in Writers, (JoinAll(w) /\ Failed(w)) \/ CommitFails(w)
    PROVE  capsules' = capsules /\ \E k : Becomes(w, k) /\ Recounts(w, k) /\ KeepsCap(w, k) /\ KeepsPromise(w, k)
<1>1. Types
    BY DEF Inv
<1>2. ~SaveFails
    BY <1>1, SaveCounted
<1>3. /\ job[w].pc \in {"join", "commit"} /\ StartUndo(w, AbortUndo(w)) /\ segment_map' = segment_map
      /\ data_of' = data_of /\ capsules' = capsules
    BY <1>2 DEF JoinAll, CommitFails, At, shared
<1> QED  BY <1>3, AbortCounts

(* The commit puts segments in the map that only this call refers to.      *)
LEMMA CommitCounts ==
    ASSUME IsFiniteSet(Writers), Inv, Inv', NoSaveFailed, NoSaveFailed', CountParts, NEW w \in Writers,
           CommitTransaction(w)
    PROVE  CountParts'
<1>1. Types /\ AllTasks /\ Owned /\ Ordered /\ Types' /\ Ordered'
    BY DEF Inv
<1> DEFINE j == job[w]
           m == segment_map
           n == segment_map'
           P == PendingIds(j)
<1>2. PICK k : Becomes(w, k) /\ SameCall(j, k) /\ k.pc = "register"
    BY <1>1, CommitStep
<1>3. j.pc = "commit" /\ n = Committed(w) /\ capsules' = capsules /\ data_of' = data_of
    BY <1>1, CommitStep DEF CommitTransaction
<1>4. k.segs = j.segs /\ k.pending = j.pending /\ k.increments = j.increments /\ k.cap = j.cap /\ k \in JobRecord
    BY <1>2 DEF SameCall, Becomes
<1>5. job \in [Writers -> JobRecord] /\ job' \in [Writers -> JobRecord] /\ SegmentMaps(m) /\ SegmentMaps(n)
    BY <1>1 DEF Types
<1>6. (\A v \in Writers \ {w} : job'[v] = job[v]) /\ job'[w] = k
    BY <1>2, <1>5 DEF Becomes
<1>7. PendingOK(j, m, next_segment)
    BY <1>1 DEF Owned
<1>8. P \cap DOMAIN m = {}
    BY <1>3, <1>7 DEF PendingOK, EarlyPCs
<1>9. /\ DOMAIN n = DOMAIN m \cup P /\ \A x \in DOMAIN m : n[x] = m[x]
      /\ \A l \in DOMAIN j.pending : j.pending[l].id \notin DOMAIN m => n[j.pending[l].id].ref_count = j.pending[l].ref_count
    BY <1>1, <1>3, <1>7, CommittedFacts
<1>10. HeldSeq(j) = j.increments /\ HeldSeq(k) = j.segs /\ j \in JobRecord /\ TakenOK(j)
    BY <1>1, <1>2, <1>3, <1>4, JobType, HeldPlaces DEF EarlyPCs, CountParts
<1>11. TakenOK(k) /\ PendingIds(k) = P
    BY <1>4, <1>10, TakenSame
<1> HIDE DEF m, n, P
<1>12. \A v \in Writers : TakenOK(job'[v])
    BY <1>6, <1>11 DEF CountParts
<1>13. \A i \in DOMAIN HeldSeq(k) : HeldSeq(k)[i] \in DOMAIN n
  <2>1. ChunksOK(job'[w], segment_map', data_of')
    BY <1>1 DEF Ordered
  <2>2. \A i \in DOMAIN k.segs : InMap(k.segs[i], data_of'[k.cap][i], segment_map')
    BY <1>2, <1>6, <2>1 DEF ChunksOK, EarlyPCs
  <2> QED  BY <1>4, <1>10, <2>2 DEF InMap, n
<1>14. \A v \in Writers : \A i \in DOMAIN HeldSeq(job'[v]) : HeldSeq(job'[v])[i] \in DOMAIN n
    BY <1>6, <1>9, <1>13 DEF CountParts, m
<1>15. ASSUME NEW x \in DOMAIN n
       PROVE  n[x].ref_count = Cardinality(RefsAt(capsules, x)) + Cardinality(HeldAt(job', x))
  <2>1. /\ Cardinality(HeldAt(job', x)) = Cardinality(OthersAt(job', w, x)) + Times(j.segs, x)
        /\ Times(j.segs, x) \in Nat
    BY <1>5, <1>6, <1>10, HeldSplit
  <2>2. OthersAt(job', w, x) = OthersAt(job, w, x)
    BY <1>6, OthersSame
  <2>3. CASE x \in DOMAIN m
    <3>1. x \notin P /\ x \in Nat /\ n[x] = m[x]
        BY <1>5, <1>8, <1>9, <2>3 DEF SegmentMaps
    <3>2. Times(j.segs, x) = Times(j.increments, x)
        BY <1>10, <3>1 DEF TakenOK, P
    <3>3. Cardinality(HeldAt(job, x)) = Cardinality(OthersAt(job, w, x)) + Times(j.increments, x)
        BY <1>5, <1>10, HeldSplit
    <3>4. m[x].ref_count = Cardinality(RefsAt(capsules, x)) + Cardinality(HeldAt(job, x))
        BY <2>3 DEF CountParts, SumOK, m
    <3> QED  BY <2>1, <2>2, <3>1, <3>2, <3>3, <3>4
  <2>4. CASE x \notin DOMAIN m
    <3>1. x \in P
        BY <1>9, <2>4
    <3>2. PICK l \in DOMAIN j.pending : j.pending[l].id = x
        BY <3>1 DEF P, PendingIds
    <3>3. j.pending[l].ref_count = Times(j.segs, x)
        BY <1>10, <3>2 DEF TakenOK
    <3>4. n[x].ref_count = Times(j.segs, x)
        BY <1>9, <2>4, <3>2, <3>3
    <3>5. RefsAt(capsules, x) = {}
        <4>1. \A c \in DOMAIN capsules : \A i \in DOMAIN capsules[c] : capsules[c][i] \in DOMAIN m
            BY <1>1 DEF Ordered, CapsuleOK, InMap, m
        <4> QED  BY <2>4, <4>1 DEF RefsAt, Labelled
    <3>6. OthersAt(job, w, x) = {}
        <4>1. \A v \in Writers : \A i \in DOMAIN HeldSeq(job[v]) : HeldSeq(job[v])[i] \in DOMAIN m
            BY DEF CountParts, m
        <4> QED  BY <2>4, <4>1 DEF OthersAt, Labelled
    <3>7. Cardinality({}) = 0
        BY FS_EmptySet
    <3> QED  BY <2>1, <2>2, <3>4, <3>5, <3>6, <3>7
  <2> QED  BY <2>3, <2>4
<1>16. SumOK(segment_map', capsules', job')
    BY <1>3, <1>15 DEF SumOK, n
<1>17. KeepsCap(w, k)
    BY <1>3, <1>4 DEF KeepsCap
<1>18. Fresh(capsules', job')
    BY <1>3, <1>6, <1>17, FreshKept DEF CountParts
<1>19. \A x \in DOMAIN n : Listed(capsules', x) \/ \E v \in Writers : Promised(job'[v], x)
  <2> TAKE x \in DOMAIN n
  <2>1. CASE x \in P
    <3>1. Promised(job'[w], x)
        BY <1>2, <1>6, <1>11, <2>1 DEF Promised
    <3> QED  BY <3>1
  <2>2. CASE x \in DOMAIN m
    <3>1. ~Promised(job[w], x)
        BY <1>3 DEF Promised
    <3>2. \A v \in Writers : Promised(job[v], x) => Promised(job'[v], x)
        BY <1>6, <3>1
    <3> QED  BY <1>3, <2>2, <3>2 DEF CountParts, m
  <2> QED  BY <1>9, <2>1, <2>2
<1> HIDE DEF CountParts
<1> QED  BY <1>12, <1>14, <1>16, <1>18, <1>19 DEF CountParts, Listed, Promised, PendingIds, SumOK, Fresh, HeldSeq, TakenOK, RefsAt, HeldAt, n

(* The references of the call become those of its capsule.                 *)
LEMMA CreateCounts ==
    ASSUME IsFiniteSet(Writers), Inv, Inv', NoSaveFailed, NoSaveFailed', CountParts, NEW w \in Writers,
           CreateCapsule(w)
    PROVE  CountParts'
<1>1. Types /\ AllTasks /\ Types'
    BY DEF Inv
<1> DEFINE j == job[w]
           k == IdleJob
           c == j.cap
           s == j.segs
<1>2. ~SaveFails
    BY <1>1, SaveCounted
<1>3. j.pc = "create" /\ Return(w) /\ segment_map' = segment_map /\ capsules' = Put(capsules, c, s)
    BY <1>2 DEF CreateCapsule, At
<1>4. k.pc = "idle" /\ k.pending = << >> /\ k.segs = << >> /\ k.increments = << >>
    BY IdleType
<1>5. job \in [Writers -> JobRecord] /\ job' \in [Writers -> JobRecord]
    BY <1>1 DEF Types
<1>6. (\A v \in Writers \ {w} : job'[v] = job[v]) /\ job'[w] = k
    BY <1>3, <1>5 DEF Return
<1> HIDE DEF k
<1>7. TakenOK(k) /\ HeldSeq(k) = << >>
    BY <1>4, TakenNone DEF HeldSeq
<1>8. j \in JobRecord /\ TakenOK(j) /\ HeldSeq(j) = s
    BY <1>1, <1>3, JobType, HeldPlaces DEF CountParts
<1>9. s \in Seq(Nat)
    BY <1>8 DEF JobRecord
<1>10. c \notin DOMAIN capsules /\ \A v \in Writers : v # w /\ job[v].pc # "idle" => job[v].cap # c
    BY <1>3 DEF CountParts, Fresh
<1>11. DOMAIN capsules' = DOMAIN capsules \cup {c} /\ capsules'[c] = s /\ \A d \in DOMAIN capsules : capsules'[d] = capsules[d]
    BY <1>3, <1>10 DEF Put
<1>12. \A v \in Writers : TakenOK(job'[v])
    BY <1>6, <1>7 DEF CountParts
<1>13. \A v \in Writers : \A i \in DOMAIN HeldSeq(job'[v]) : HeldSeq(job'[v])[i] \in DOMAIN segment_map'
    BY <1>3, <1>6, <1>7 DEF CountParts
<1> HIDE DEF c, s
<1>14. ASSUME NEW x \in DOMAIN segment_map
       PROVE  segment_map[x].ref_count = Cardinality(RefsAt(capsules', x)) + Cardinality(HeldAt(job', x))
  <2>1. /\ Cardinality(HeldAt(job, x)) = Cardinality(OthersAt(job, w, x)) + Times(s, x)
        /\ Cardinality(OthersAt(job, w, x)) \in Nat /\ Times(s, x) \in Nat
    BY <1>5, <1>8, HeldSplit
  <2>2. Cardinality(HeldAt(job', x)) = Cardinality(OthersAt(job', w, x)) + Times(<< >>, x)
    BY <1>5, <1>6, <1>7, HeldSplit
  <2>3. OthersAt(job', w, x) = OthersAt(job, w, x) /\ Times(<< >>, x) = 0
    BY <1>6, OthersSame, TimesEmpty
  <2>4. CapsType(capsules) /\ IsFiniteSet(DOMAIN capsules)
    BY CapsFinite
  <2>5. /\ Cardinality(RefsAt(capsules', x)) = Cardinality(RefsAt(capsules, x)) + Times(s, x)
        /\ Cardinality(RefsAt(capsules, x)) \in Nat
    BY <1>3, <1>9, <1>10, <2>4, RefsPut
  <2>6. segment_map[x].ref_count = Cardinality(RefsAt(capsules, x)) + Cardinality(HeldAt(job, x))
    BY DEF CountParts, SumOK
  <2> QED  BY <2>1, <2>2, <2>3, <2>5, <2>6
<1>15. SumOK(segment_map', capsules', job')
    BY <1>3, <1>14 DEF SumOK
<1>16. Fresh(capsules', job')
  <2>1. \A v \in Writers : job'[v].pc # "idle" => v # w /\ job'[v] = job[v]
    BY <1>4, <1>6
  <2>2. \A v \in Writers : job'[v].pc # "idle" => job'[v].cap \notin DOMAIN capsules'
    BY <1>10, <1>11, <2>1 DEF CountParts, Fresh
  <2>3. \A u, v \in Writers : job'[u].pc # "idle" /\ job'[v].pc # "idle" /\ u # v => job'[u].cap # job'[v].cap
    BY <2>1 DEF CountParts, Fresh
  <2> QED  BY <2>2, <2>3 DEF Fresh
<1>17. \A x \in DOMAIN segment_map' : Listed(capsules', x) \/ \E v \in Writers : Promised(job'[v], x)
  <2> TAKE x \in DOMAIN segment_map'
  <2>1. CASE Listed(capsules, x)
    BY <1>11, <2>1 DEF Listed
  <2>2. CASE Promised(job[w], x)
    <3>1. PICK l \in DOMAIN j.pending : j.pending[l].id = x
        BY <2>2 DEF Promised, PendingIds
    <3>2. Times(s, x) > 0
        BY <1>8, <3>1 DEF TakenOK, s
    <3>3. \E i \in DOMAIN s : s[i] = x
        BY <1>9, <3>2, NoTimes
    <3> QED  BY <1>11, <3>3 DEF Listed
  <2>3. ASSUME NEW v \in Writers, v # w, Promised(job[v], x)
        PROVE  Promised(job'[v], x)
    BY <1>6, <2>3
  <2> QED  BY <1>3, <2>1, <2>2, <2>3 DEF CountParts
<1> HIDE DEF CountParts
<1> QED  BY <1>12, <1>13, <1>15, <1>16, <1>17 DEF CountParts, Listed, Promised, PendingIds, SumOK, Fresh, HeldSeq, TakenOK, RefsAt, HeldAt

LEMMA WriterCounts ==
    ASSUME Inv, Inv', NoSaveFailed, NoSaveFailed', CountParts, NEW w \in Writers,
           \/ \E data \in Datas, dedupe \in BOOLEAN : WriteCapsuleAsync(w, data, dedupe)
           \/ WriterStep(w) \/ SpawnRefused(w) \/ CommitFails(w)
           \/ \E i \in 1 .. MaxChunks : TaskStep(w, i) \/ TaskFailsToPrepare(w, i)
    PROVE  CountParts'
<1>1. IsFiniteSet(Writers)
    BY WritersAssumption
<1> DEFINE Quiet == capsules' = capsules /\ \E k : Becomes(w, k) /\ Recounts(w, k) /\ KeepsCap(w, k) /\ KeepsPromise(w, k)
<1>2. Quiet => CountParts'
    BY <1>1, CountQuiet
<1>3. CASE \E data \in Datas, dedupe \in BOOLEAN : WriteCapsuleAsync(w, data, dedupe)
  <2>1. Quiet
    BY <1>3, BeginCounts
  <2> QED  BY <1>2, <2>1
<1>4. CASE ShuffleActions(w)
  <2>1. Quiet
    BY <1>4, ShuffleCounts
  <2> QED  BY <1>2, <2>1
<1>5. CASE (JoinAll(w) /\ Failed(w)) \/ CommitFails(w)
  <2>1. Quiet
    BY <1>5, FailsCount
  <2> QED  BY <1>2, <2>1
<1>6. CASE CommitSegment(w)
  <2>1. Quiet
    BY <1>6, CommitSegmentCounts
  <2> QED  BY <1>2, <2>1
<1>7. CASE IncrementRefcount(w)
  <2>1. Quiet
    BY <1>7, IncrementCounts
  <2> QED  BY <1>2, <2>1
<1>8. CASE IncrementFails(w)
  <2>1. Quiet
    BY <1>8, IncrementFailsCounts
  <2> QED  BY <1>2, <2>1
<1>9. CASE CommitTransaction(w)
    BY <1>1, <1>9, CommitCounts
<1>10. CASE RegisterContent(w)
  <2>1. Quiet
    BY <1>10, RegisterCounts
  <2> QED  BY <1>2, <2>1
<1>11. CASE CreateCapsule(w)
    BY <1>1, <1>11, CreateCounts
<1>12. CASE UndoStep(w)
  <2>1. Quiet
    BY <1>12, UndoStepCounts
  <2> QED  BY <1>2, <2>1
<1>13. CASE UndoFails(w)
    BY <1>1, <1>13, UndoNeverRefused
<1>14. CASE UndoReturns(w) \/ SpawnRefused(w)
  <2>1. Quiet
    BY <1>14, ReturnsCount
  <2> QED  BY <1>2, <2>1
<1> HIDE DEF Quiet
<1> QED
    BY <1>3, <1>4, <1>5, <1>6, <1>7, <1>8, <1>9, <1>10, <1>11, <1>12, <1>13, <1>14
    DEF WriterStep, ShuffleActions

LEMMA CountedParts == Counted <=> (NoSaveFailed => CountParts)
BY DEF Counted, CountParts

LEMMA CountedStep ==
    ASSUME Inv, Inv', Counted, [Next]_vars
    PROVE  Counted'
<1>1. CASE Done \/ UNCHANGED vars
  <2>1. UNCHANGED vars
    BY <1>1 DEF Done
  <2> QED  BY <2>1 DEF vars, Counted, NoSaveFailed
<1>2. ASSUME NEW w \in Writers, NoSaveFailed',
           \/ \E data \in Datas, dedupe \in BOOLEAN : WriteCapsuleAsync(w, data, dedupe)
           \/ WriterStep(w) \/ SpawnRefused(w) \/ CommitFails(w)
           \/ \E i \in 1 .. MaxChunks : TaskStep(w, i) \/ TaskFailsToPrepare(w, i)
      PROVE  CountParts'
  <2>1. PICK k : Step4(w, k)
    BY <1>2, WriterKeeps
  <2>2. save_fails' <= save_fails
    BY <2>1 DEF Step4, TypedStep
  <2>3. NoSaveFailed
    BY <1>2, <2>2, AsyncAssumption DEF NoSaveFailed, Inv, Types
  <2>4. CountParts
    BY <2>3, CountedParts
  <2> QED  BY <1>2, <2>3, <2>4, WriterCounts
<1>3. ASSUME ~(Done \/ UNCHANGED vars)
      PROVE  NoSaveFailed' => CountParts'
    BY <1>2, <1>3 DEF Next
<1>4. CASE ~(Done \/ UNCHANGED vars)
  <2>1. (NoSaveFailed => CountParts)' => Counted'
    BY DEF Counted, CountParts
  <2> QED  BY <1>3, <1>4, <2>1
<1> QED  BY <1>1, <1>4

LEMMA InitCounted == Init => Counted
<1> SUFFICES ASSUME Init PROVE CountParts
    BY CountedParts
<1>1. \A w \in Writers : job[w] = IdleJob
    BY DEF Init
<1>2. \A w \in Writers : /\ job[w].pc = "idle" /\ job[w].segs = << >> /\ job[w].pending = << >>
                         /\ job[w].increments = << >>
    BY <1>1, IdleType
<1>3. \A w \in Writers : TakenOK(job[w])
    BY <1>2, TakenNone
<1>4. \A w \in Writers : HeldSeq(job[w]) = << >>
    BY <1>2 DEF HeldSeq
<1>5. \A w \in Writers : \A i \in DOMAIN HeldSeq(job[w]) : HeldSeq(job[w])[i] \in DOMAIN segment_map
    BY <1>4
<1>6. DOMAIN segment_map = {} /\ DOMAIN capsules = {}
    BY DEF Init, Empty
<1>7. SumOK(segment_map, capsules, job)
    BY <1>6 DEF SumOK
<1>8. Fresh(capsules, job)
    BY <1>2 DEF Fresh
<1> QED  BY <1>3, <1>5, <1>6, <1>7, <1>8 DEF CountParts

LEMMA CountedLeavesNothing ==
    ASSUME Inv, Counted
    PROVE  AbortLeavesNothing
<1> SUFFICES ASSUME NoSaveFailed, \A w \in Writers : At(w, "idle"), NEW x \in DOMAIN segment_map
             PROVE  segment_map[x].ref_count = References(x) /\ References(x) > 0
    BY DEF AbortLeavesNothing
<1>1. CountParts
    BY CountedParts
<1>2. References(x) = Cardinality(RefsAt(capsules, x))
    BY DEF References, RefsAt, Labelled
<1>3. \A w \in Writers : job[w].pc = "idle"
    BY DEF At
<1>4. \A w \in Writers : HeldSeq(job[w]) = << >>
  <2>1. \A w \in Writers : job[w].increments = << >>
    BY <1>3 DEF Inv, AllTasks, TasksOK
  <2> QED  BY <1>3, <2>1 DEF HeldSeq
<1>5. HeldAt(job, x) = {}
  <2>1. \A w \in Writers : DOMAIN HeldSeq(job[w]) = {}
    BY <1>4
  <2> QED  BY <2>1 DEF HeldAt, Labelled
<1>6. Cardinality(HeldAt(job, x)) = 0
    BY <1>5, FS_EmptySet
<1>7. Cardinality(RefsAt(capsules, x)) \in Nat /\ IsFiniteSet(RefsAt(capsules, x))
    BY CapsFinite
<1>8. segment_map[x].ref_count = Cardinality(RefsAt(capsules, x))
    BY <1>1, <1>6, <1>7 DEF CountParts, SumOK
<1>9. Listed(capsules, x)
    BY <1>1, <1>3 DEF CountParts, Promised
<1>10. RefsAt(capsules, x) # {}
  <2>1. PICK c \in DOMAIN capsules : \E i \in DOMAIN capsules[c] : capsules[c][i] = x
    BY <1>9 DEF Listed
  <2>2. PICK i \in DOMAIN capsules[c] : capsules[c][i] = x
    BY <2>1
  <2>3. <<c, i>> \in RefsAt(capsules, x)
    BY <2>2 DEF RefsAt, Labelled
  <2> QED  BY <2>3
<1>11. Cardinality(RefsAt(capsules, x)) # 0
    BY <1>7, <1>10, FS_EmptySet
<1> QED  BY <1>2, <1>7, <1>8, <1>11

(* As long as no save fails, a write that fails, in a task, at the memory  *)
(* limit or in the commit, leaves nothing: when all calls have returned,   *)
(* the count of every segment is the number of times capsules list it, and *)
(* every segment is in a capsule.  The invariant Counted says it while     *)
(* calls run: a count is the references of the capsules plus those that    *)
(* each call has taken (raised counts, then its own segments, then what    *)
(* its undo has still to give back).                                       *)
THEOREM AsyncAbortLeavesNothing == Spec => []AbortLeavesNothing
<1>1. Init => Inv /\ Counted
    BY InitInv, InitCounted
<1>2. Inv /\ Counted /\ [Next]_vars => (Inv /\ Counted)'
    BY StepKeepsInv, CountedStep
<1>3. Inv /\ Counted => AbortLeavesNothing
    BY CountedLeavesNothing
<1> QED  BY <1>1, <1>2, <1>3, PTL DEF Spec

-----------------------------------------------------------------------------
(* The data file.  As long as no save has failed and no transaction began  *)
(* while another was open, the committed segments lie before the base of   *)
(* the open transaction, and its staged chunks from there up to the log's  *)
(* next offset.                                                            *)

Clean == NoSaveFailed /\ ~overlapped

(* Where a call has an open transaction.                                   *)
OpenPCs == EarlyPCs \ {"idle"}

(* In terms of the jobs J, next_offset o and base b, ...                   *)
OneOpen(J, o, b) ==
    /\ o \in Nat /\ DOMAIN b \subseteq Writers
    /\ \A v, w \in DOMAIN b : v = w
    /\ \A w \in Writers : w \in DOMAIN b <=> J[w].pc \in OpenPCs
    /\ \A w \in DOMAIN b : b[w] \in Nat /\ o = b[w] + Len(J[w].pending)

(* ... of place p and data_file f: the segment x with content c.           *)
StoredAt(x, c, p, f, o, b) ==
    /\ x \in DOMAIN p /\ p[x] \in Nat /\ p[x] < o
    /\ \A w \in DOMAIN b : p[x] < b[w]
    /\ p[x] \in DOMAIN f /\ f[p[x]] = c

AllStored(m, p, f, o, b) == \A x \in DOMAIN m : StoredAt(x, m[x].data, p, f, o, b)

DiskParts ==
    OneOpen(job, next_offset, base) /\ AllStored(segment_map, place, data_file, next_offset, base)

DiskInv == Clean => DiskParts

(* What a step of the writer w does to the calls and to the map.           *)
OthersStay(w) == \A v \in Writers \ {w} : job'[v] = job[v]
Fewer(m, n) == \A x \in DOMAIN n : x \in DOMAIN m /\ n[x].data = m[x].data

(* The data file is not touched.                                           *)
LEMMA QuietDisk ==
    ASSUME DiskParts, NEW w \in Writers, UNCHANGED disk, OthersStay(w),
           Fewer(segment_map, segment_map'),
           job'[w].pc \in OpenPCs <=> job[w].pc \in OpenPCs,
           job[w].pc \in OpenPCs => Len(job'[w].pending) = Len(job[w].pending)
    PROVE  DiskParts'
<1>1. OneOpen(job, next_offset, base) /\ next_offset' = next_offset /\ base' = base
    BY DEF DiskParts, disk
<1>2. OneOpen(job', next_offset', base')
    BY <1>1 DEF OneOpen, OthersStay
<1>3. AllStored(segment_map', place', data_file', next_offset', base')
    BY DEF DiskParts, AllStored, Fewer, disk
<1> QED  BY <1>2, <1>3 DEF DiskParts

(* A transaction begins: none is open.                                     *)
LEMMA BeginDisk ==
    ASSUME DiskParts, NEW w \in Writers, Begin(w), base = Empty, OthersStay(w),
           Fewer(segment_map, segment_map'),
           job'[w].pc \in OpenPCs, job'[w].pending = << >>
    PROVE  DiskParts'
<1>1. DOMAIN base = {} /\ UNCHANGED <<data_file, place, next_offset>>
    BY DEF Empty, Begin
<1>2. DOMAIN base' = {w} /\ base'[w] = next_offset
    BY <1>1 DEF Begin, Put
<1>3. Len(job'[w].pending) = 0 /\ next_offset \in Nat
    BY DEF DiskParts, OneOpen
<1>4. OneOpen(job', next_offset', base')
  <2>1. \A v \in Writers : v \in DOMAIN base' <=> job'[v].pc \in OpenPCs
    BY <1>1, <1>2 DEF DiskParts, OneOpen, OthersStay
  <2>2. next_offset' = base'[w] + Len(job'[w].pending)
    BY <1>1, <1>2, <1>3
  <2> QED  BY <1>1, <1>2, <1>3, <2>1, <2>2 DEF OneOpen
<1>5. AllStored(segment_map', place', data_file', next_offset', base')
    BY <1>1, <1>2 DEF DiskParts, AllStored, StoredAt, Fewer
<1> QED  BY <1>4, <1>5 DEF DiskParts

(* The transaction is gone and the next offset is its base.                *)
LEMMA ClosedDisk ==
    ASSUME DiskParts, NEW w \in Writers, OthersStay(w), Fewer(segment_map, segment_map'),
           job'[w].pc \notin OpenPCs, base' = Without(base, w), place' = place,
           next_offset' = IF w \in DOMAIN base THEN base[w] ELSE next_offset,
           \A at \in DOMAIN data_file :
                /\ at \in DOMAIN data_file'
                /\ (w \notin DOMAIN base \/ at < base[w]) => data_file'[at] = data_file[at]
    PROVE  DiskParts'
<1>1. OneOpen(job, next_offset, base) /\ AllStored(segment_map, place, data_file, next_offset, base)
    BY DEF DiskParts
<1>2. DOMAIN base' = DOMAIN base \ {w} /\ \A v \in DOMAIN base' : base'[v] = base[v]
    BY DEF Without
<1>3. w \in DOMAIN base => DOMAIN base' = {} /\ base[w] \in Nat
    BY <1>1, <1>2 DEF OneOpen
<1>4. next_offset' \in Nat
    BY <1>1, <1>3 DEF OneOpen
<1>5. \A v \in Writers : v \in DOMAIN base' <=> job'[v].pc \in OpenPCs
    BY <1>1, <1>2 DEF OneOpen, OthersStay
<1>6. \A v \in DOMAIN base' : base'[v] \in Nat /\ next_offset' = base'[v] + Len(job'[v].pending)
    BY <1>1, <1>2, <1>3 DEF OneOpen, OthersStay
<1>7. OneOpen(job', next_offset', base')
    BY <1>1, <1>2, <1>4, <1>5, <1>6 DEF OneOpen
<1>8. ASSUME NEW x \in DOMAIN segment_map'
      PROVE  StoredAt(x, segment_map'[x].data, place', data_file', next_offset', base')
  <2>1. StoredAt(x, segment_map'[x].data, place, data_file, next_offset, base)
    BY <1>1 DEF AllStored, Fewer
  <2>2. w \in DOMAIN base => place[x] < base[w]
    BY <2>1 DEF StoredAt
  <2> QED  BY <1>2, <1>3, <2>1, <2>2 DEF StoredAt
<1>9. AllStored(segment_map', place', data_file', next_offset', base')
    BY <1>8 DEF AllStored
<1> QED  BY <1>7, <1>9 DEF DiskParts

(* One more chunk is staged.                                               *)
LEMMA StageDisk ==
    ASSUME DiskParts, NEW w \in Writers, OthersStay(w), Fewer(segment_map, segment_map'),
           Stage(w, Len(job[w].pending)), job[w].pending \in Seq(Staged),
           job[w].pc \in OpenPCs, job'[w].pc \in OpenPCs,
           Len(job'[w].pending) = Len(job[w].pending) + 1
    PROVE  DiskParts'
<1>1. OneOpen(job, next_offset, base) /\ AllStored(segment_map, place, data_file, next_offset, base)
    BY DEF DiskParts
<1>2. w \in DOMAIN base /\ base[w] \in Nat /\ Len(job[w].pending) \in Nat /\ base' = base
        /\ \A v \in DOMAIN base : v = w
    BY <1>1 DEF OneOpen, Stage
<1>3. next_offset' \in Nat /\ next_offset' = base[w] + Len(job'[w].pending) /\ next_offset <= next_offset'
        /\ next_offset \in Nat
  <2>1. next_offset \in Nat /\ next_offset = base[w] + Len(job[w].pending)
    BY <1>1, <1>2 DEF OneOpen
  <2>2. next_offset' = base[w] + Len(job[w].pending) + 1
    BY DEF Stage
  <2> DEFINE l == Len(job[w].pending)
             k == Len(job'[w].pending)
             at == base[w]
  <2>3. l \in Nat /\ k = l + 1 /\ at \in Nat /\ next_offset = at + l /\ next_offset' = at + l + 1
    BY <1>2, <2>1, <2>2
  <2> HIDE DEF l, k, at
  <2>4. next_offset' \in Nat /\ next_offset' = at + k /\ next_offset <= next_offset'
    BY <2>3
  <2> QED  BY <2>1, <2>4 DEF k, at
<1>4. OneOpen(job', next_offset', base')
    BY <1>1, <1>2, <1>3 DEF OneOpen, OthersStay
<1>5. ASSUME NEW x \in DOMAIN segment_map'
      PROVE  StoredAt(x, segment_map'[x].data, place', data_file', next_offset', base')
  <2>1. StoredAt(x, segment_map'[x].data, place, data_file, next_offset, base)
    BY <1>1 DEF AllStored, Fewer
  <2>2. place' = place /\ data_file' = data_file
    BY DEF Stage
  <2> QED  BY <1>2, <1>3, <2>1, <2>2 DEF StoredAt
<1>6. AllStored(segment_map', place', data_file', next_offset', base')
    BY <1>5 DEF AllStored
<1> QED  BY <1>4, <1>6 DEF DiskParts

(* What is written lies from the base on.                                  *)
LEMMA WrittenFacts ==
    ASSUME NEW w \in Writers, base[w] \in Nat, NEW n \in Nat, n <= Len(job[w].pending),
           job[w].pending \in Seq(Staged)
    PROVE  /\ \A at \in DOMAIN data_file : at \in DOMAIN Written(w, n)
           /\ \A at \in DOMAIN data_file : at < base[w] => Written(w, n)[at] = data_file[at]
           /\ \A k \in 1 .. n : /\ base[w] + k - 1 \in DOMAIN Written(w, n)
                                /\ Written(w, n)[base[w] + k - 1] = job[w].pending[k].data
<1> DEFINE B == base[w]
           R == B .. (B + n - 1)
           f == Written(w, n)
           c(at) == job[w].pending[at - B + 1].data
<1>1. f = [at \in DOMAIN data_file \cup R |-> IF at \in R THEN c(at) ELSE data_file[at]]
    BY DEF Written
<1>2. \A at \in DOMAIN data_file : at < B => at \notin R
    OBVIOUS
<1>3. \A k \in 1 .. n : B + k - 1 \in R /\ c(B + k - 1) = job[w].pending[k].data
  <2> TAKE k \in 1 .. n
  <2>1. (B + k - 1) - B + 1 = k /\ B + k - 1 \in R
    OBVIOUS
  <2> QED  BY <2>1
<1> HIDE DEF R, f, c
<1>4. DOMAIN f = DOMAIN data_file \cup R /\ \A at \in R : f[at] = c(at)
    BY <1>1
<1>5. \A at \in DOMAIN data_file : at \notin R => f[at] = data_file[at]
    BY <1>1
<1> QED  BY <1>2, <1>3, <1>4, <1>5 DEF f

LEMMA PlacedFacts ==
    ASSUME NEW w \in Writers, PendingOK(job[w], segment_map, next_segment)
    PROVE  /\ \A x \in DOMAIN place : x \in DOMAIN Placed(w)
           /\ \A x \in DOMAIN place : x \notin PendingIds(job[w]) => Placed(w)[x] = place[x]
           /\ \A k \in DOMAIN job[w].pending :
                /\ job[w].pending[k].id \in DOMAIN Placed(w)
                /\ Placed(w)[job[w].pending[k].id] = base[w] + k - 1
<1> DEFINE p == job[w].pending
           Z == {p[k].id : k \in DOMAIN p}
           at(x) == CHOOSE k \in DOMAIN p : p[k].id = x
           f == Placed(w)
<1>1. f = [x \in DOMAIN place \cup Z |->
                IF \E k \in DOMAIN p : p[k].id = x THEN base[w] + at(x) - 1 ELSE place[x]]
    BY DEF Placed
<1>2. \A k \in DOMAIN p : at(p[k].id) = k
    BY DEF PendingOK
<1>3. Z = PendingIds(job[w]) /\ \A x : x \in Z <=> \E k \in DOMAIN p : p[k].id = x
    BY DEF PendingIds
<1> HIDE DEF p, at, f
<1>4. DOMAIN f = DOMAIN place \cup Z
    BY <1>1
<1>5. \A x \in DOMAIN place : x \notin Z => f[x] = place[x]
    BY <1>1
<1>6. \A k \in DOMAIN p : f[p[k].id] = base[w] + k - 1
    BY <1>1, <1>2
<1> QED  BY <1>3, <1>4, <1>5, <1>6 DEF p, f

(* commit: the staged chunks are in the map, behind the others.            *)
LEMMA CommitDisk ==
    ASSUME Inv, DiskParts, NEW w \in Writers, job[w].pc = "commit", OthersStay(w),
           segment_map' = Committed(w), AllWritten(w), base' = Without(base, w),
           job'[w].pc \notin OpenPCs
    PROVE  DiskParts'
<1> DEFINE p == job[w].pending
           n == Len(p)
           b == base[w]
<1>1. OneOpen(job, next_offset, base) /\ AllStored(segment_map, place, data_file, next_offset, base)
    BY DEF DiskParts
<1>2. Types /\ PendingOK(job[w], segment_map, next_segment)
    BY DEF Inv, Owned
<1>3. p \in Seq(Staged) /\ n \in Nat /\ DOMAIN p = 1 .. n
    BY <1>2, JobType DEF JobRecord
<1>4. w \in DOMAIN base /\ b \in Nat /\ next_offset = b + n /\ \A v \in DOMAIN base : v = w
    BY <1>1 DEF OneOpen, OpenPCs, EarlyPCs
<1>5. DOMAIN base' = {}
    BY <1>4 DEF Without
<1>6. next_offset' = b + n
    BY <1>3, <1>4 DEF AllWritten
<1>7. OneOpen(job', next_offset', base')
  <2>1. \A v \in Writers : job'[v].pc \notin OpenPCs
    BY <1>1, <1>4 DEF OneOpen, OthersStay
  <2>2. next_offset' \in Nat
    BY <1>3, <1>4, <1>6
  <2> QED  BY <1>5, <2>1, <2>2 DEF OneOpen
<1>8. place' = Placed(w) /\ data_file' = Written(w, n)
    BY DEF AllWritten
<1>9. /\ DOMAIN segment_map' = DOMAIN segment_map \cup PendingIds(job[w])
      /\ \A x \in DOMAIN segment_map : segment_map'[x] = segment_map[x]
      /\ \A k \in DOMAIN p : p[k].id \notin DOMAIN segment_map => segment_map'[p[k].id].data = p[k].data
    BY <1>2, CommittedFacts
<1>10. PendingIds(job[w]) \cap DOMAIN segment_map = {}
    BY <1>2 DEF PendingOK, EarlyPCs
<1>11. /\ \A at \in DOMAIN data_file : at \in DOMAIN data_file'
       /\ \A at \in DOMAIN data_file : at < b => data_file'[at] = data_file[at]
       /\ \A k \in 1 .. n : b + k - 1 \in DOMAIN data_file' /\ data_file'[b + k - 1] = p[k].data
  <2>1. n <= Len(job[w].pending)
    BY <1>3
  <2> QED  BY <1>3, <1>4, <1>8, <2>1, WrittenFacts
<1>12. /\ \A x \in DOMAIN place : x \in DOMAIN place'
       /\ \A x \in DOMAIN place : x \notin PendingIds(job[w]) => place'[x] = place[x]
       /\ \A k \in DOMAIN p : p[k].id \in DOMAIN place' /\ place'[p[k].id] = b + k - 1
    BY <1>2, <1>8, PlacedFacts
<1>13. PendingIds(job[w]) = {p[k].id : k \in DOMAIN p}
    BY DEF PendingIds
<1> HIDE DEF p, n, b
<1>14. ASSUME NEW x \in DOMAIN segment_map
       PROVE  StoredAt(x, segment_map'[x].data, place', data_file', next_offset', base')
  <2>1. StoredAt(x, segment_map[x].data, place, data_file, next_offset, base)
    BY <1>1 DEF AllStored
  <2>2. x \notin PendingIds(job[w]) /\ segment_map'[x] = segment_map[x]
    BY <1>9, <1>10
  <2>3. place[x] < b /\ place'[x] = place[x] /\ x \in DOMAIN place'
    BY <1>4, <1>12, <2>1, <2>2 DEF StoredAt, b
  <2>4. data_file'[place[x]] = segment_map[x].data /\ place[x] \in DOMAIN data_file'
    BY <1>11, <2>1, <2>3 DEF StoredAt
  <2>5. place[x] < next_offset'
    BY <1>4, <1>6, <2>1 DEF StoredAt
  <2> QED  BY <1>5, <2>1, <2>2, <2>3, <2>4, <2>5 DEF StoredAt
<1>15. ASSUME NEW x \in PendingIds(job[w])
       PROVE  StoredAt(x, segment_map'[x].data, place', data_file', next_offset', base')
  <2>1. PICK k \in DOMAIN p : x = p[k].id
    BY <1>13
  <2>2. x \in DOMAIN place' /\ place'[x] = b + k - 1 /\ segment_map'[x].data = p[k].data
    BY <1>9, <1>10, <1>12, <2>1
  <2>3. k \in 1 .. n
    BY <1>3, <2>1
  <2>4. b + k - 1 \in Nat /\ b + k - 1 < b + n
    BY <1>3, <1>4, <2>3
  <2>5. b + k - 1 \in DOMAIN data_file' /\ data_file'[b + k - 1] = p[k].data
    BY <1>11, <2>3
  <2> QED  BY <1>5, <1>6, <2>2, <2>4, <2>5 DEF StoredAt
<1>16. AllStored(segment_map', place', data_file', next_offset', base')
    BY <1>9, <1>14, <1>15 DEF AllStored
<1> QED  BY <1>7, <1>16 DEF DiskParts

(* A commit that fails before the map is changed.                          *)
LEMMA CommitFailsDisk ==
    ASSUME Inv, DiskParts, NEW w \in Writers, job[w].pc = "commit", OthersStay(w),
           Fewer(segment_map, segment_map'),
           NEW n \in 0 .. Len(job[w].pending), data_file' = Written(w, n), next_offset' = base[w],
           base' = Without(base, w), place' = place, job'[w].pc \notin OpenPCs
    PROVE  DiskParts'
<1>1. OneOpen(job, next_offset, base)
    BY DEF DiskParts
<1>2. Types
    BY DEF Inv
<1>3. job[w].pending \in Seq(Staged)
    BY <1>2, JobType DEF JobRecord
<1>4. w \in DOMAIN base /\ base[w] \in Nat /\ n \in Nat /\ n <= Len(job[w].pending)
    BY <1>1, <1>3 DEF OneOpen, OpenPCs, EarlyPCs
<1>5. /\ \A at \in DOMAIN data_file : at \in DOMAIN data_file'
      /\ \A at \in DOMAIN data_file : at < base[w] => data_file'[at] = data_file[at]
    BY <1>3, <1>4, WrittenFacts
<1> QED  BY <1>4, <1>5, ClosedDisk

-----------------------------------------------------------------------------
(* The steps, one by one, for the data file.                               *)

LEMMA StepFrame ==
    ASSUME Inv, NEW w \in Writers, NEW k, Step4(w, k)
    PROVE  OthersStay(w) /\ job'[w] = k /\ k \in JobRecord /\ (NoSaveFailed' => NoSaveFailed)
<1>1. Types /\ AllTasks /\ Owned /\ TypedStep(w, k) /\ OwnedStep(w, k)
    BY DEF Inv, Step4
<1>2. OthersStay(w) /\ job'[w] = k
    BY <1>1, TypedKept DEF OthersStay
<1>3. k \in JobRecord
    BY <1>1 DEF TypedStep, Becomes
<1>4. NoSaveFailed' => NoSaveFailed
    BY <1>1, AsyncAssumption DEF TypedStep, NoSaveFailed, Types
<1> QED  BY <1>2, <1>3, <1>4

LEMMA FewerRefl == \A m : Fewer(m, m)
BY DEF Fewer

LEMMA SameIsFewer ==
    ASSUME NEW m, NEW n, SameData(m, n)
    PROVE  Fewer(m, n)
BY DEF SameData, Fewer

(* A call becomes k, as a step says.                                       *)
LEMMA JobIs ==
    ASSUME Types, NEW w \in Writers, NEW k, job' = [job EXCEPT ![w] = k]
    PROVE  job'[w] = k /\ OthersStay(w)
BY DEF Types, OthersStay

LEMMA BeginsOnDisk ==
    ASSUME Inv, DiskParts, Clean', NEW w \in Writers, NEW data \in Datas, NEW dedupe \in BOOLEAN,
           WriteCapsuleAsync(w, data, dedupe)
    PROVE  DiskParts'
<1> DEFINE p == IF data = << >> THEN "create" ELSE "spawn"
           k == [IdleJob EXCEPT !.cap = Len(data_of) + 1, !.dedupe = dedupe, !.pc = p]
<1>1. Types
    BY DEF Inv
<1>2. job' = [job EXCEPT ![w] = k]
    BY DEF WriteCapsuleAsync
<1>3. k.pc = p /\ k.pending = << >>
    BY DEF IdleJob
<1>4. job[w].pc = "idle" /\ Fewer(segment_map, segment_map')
    BY FewerRefl DEF WriteCapsuleAsync, shared, At
<1> HIDE DEF k
<1>5. job'[w] = k /\ OthersStay(w)
    BY <1>1, <1>2, JobIs
<1>6. CASE data = << >>
  <2>1. UNCHANGED disk /\ p = "create"
    BY <1>6 DEF WriteCapsuleAsync
  <2>2. job[w].pc \notin OpenPCs /\ job'[w].pc \notin OpenPCs
    BY <1>3, <1>4, <1>5, <2>1 DEF OpenPCs, EarlyPCs
  <2> QED  BY <1>4, <1>5, <2>1, <2>2, QuietDisk
<1>7. CASE data # << >>
  <2>1. Begin(w) /\ p = "spawn"
    BY <1>7 DEF WriteCapsuleAsync
  <2>2. base = Empty
    BY <2>1 DEF Begin, Clean
  <2>3. job'[w].pc \in OpenPCs /\ job'[w].pending = << >>
    BY <1>3, <1>5, <2>1 DEF OpenPCs, EarlyPCs
  <2> QED  BY <1>4, <1>5, <2>1, <2>2, <2>3, BeginDisk
<1> QED  BY <1>6, <1>7

LEMMA ShufflesOnDisk ==
    ASSUME Inv, DiskParts, NEW w \in Writers, ShuffleActions(w)
    PROVE  DiskParts'
<1>1. Types /\ AllTasks
    BY DEF Inv
<1>2. PICK k : ShuffledTo(w, k)
    BY <1>1, ShuffleStep
<1>3. job' = [job EXCEPT ![w] = k] /\ k.pending = job[w].pending /\ MovesOn(job[w].pc, k.pc)
        /\ segment_map' = segment_map
    BY <1>2 DEF ShuffledTo, Shuffled, SameCore
<1>4. job'[w] = k /\ OthersStay(w)
    BY <1>1, <1>3, JobIs
<1>5. job'[w].pc \in OpenPCs <=> job[w].pc \in OpenPCs
    BY <1>3, <1>4 DEF MovesOn, OpenPCs, EarlyPCs
<1>6. UNCHANGED disk
  <2>1. CASE SpawnTask(w) \/ Receive(w) \/ ChannelClosed(w) \/ AwaitTurn(w) \/ AllRegistered(w)
    BY <2>1 DEF SpawnTask, Receive, ChannelClosed, AwaitTurn, AllRegistered
  <2>2. CASE JoinAll(w) /\ ~Failed(w)
    BY <2>2 DEF JoinAll
  <2>3. CASE \E i \in 1 .. MaxChunks : TaskStep(w, i) \/ TaskFailsToPrepare(w, i)
    BY <2>3 DEF TaskStep, TaskSends, TaskUnheard, TaskFailsToPrepare
  <2> QED  BY <2>1, <2>2, <2>3 DEF ShuffleActions
<1> QED  BY <1>3, <1>4, <1>5, <1>6, FewerRefl, QuietDisk

(* The call gives its transaction up.                                      *)
LEMMA RollsBackOnDisk ==
    ASSUME DiskParts, NEW w \in Writers, RollBack(w), OthersStay(w),
           segment_map' = segment_map, job'[w].pc \notin OpenPCs
    PROVE  DiskParts'
<1>1. /\ base' = Without(base, w) /\ place' = place /\ data_file' = data_file
      /\ next_offset' = IF w \in DOMAIN base THEN base[w] ELSE next_offset
    BY DEF RollBack
<1>2. Fewer(segment_map, segment_map')
    BY FewerRefl
<1> QED  BY <1>1, <1>2, ClosedDisk

LEMMA ReturnsOnDisk ==
    ASSUME Inv, DiskParts, NEW w \in Writers, Return(w), RollBack(w), segment_map' = segment_map
    PROVE  DiskParts'
<1>1. Types
    BY DEF Inv
<1>2. job'[w] = IdleJob /\ OthersStay(w)
    BY <1>1, JobIs DEF Return
<1>3. job'[w].pc \notin OpenPCs
    BY <1>2, IdleType DEF OpenPCs
<1> QED  BY <1>2, <1>3, RollsBackOnDisk

LEMMA AbortsOnDisk ==
    ASSUME Inv, DiskParts, NEW w \in Writers, JoinAll(w), Failed(w)
    PROVE  DiskParts'
<1>1. Types
    BY DEF Inv
<1>2. StartUndo(w, AbortUndo(w)) /\ RollBack(w) /\ segment_map' = segment_map
    BY DEF JoinAll, shared
<1> DEFINE k == [job[w] EXCEPT !.pc = "undo", !.undo = AbortUndo(w)]
<1>3. job[w] \in JobRecord
    BY <1>1, JobType
<1>4. job' = [job EXCEPT ![w] = k] /\ k.pc = "undo"
    BY <1>1, <1>2, <1>3 DEF StartUndo, Types, JobRecord
<1> HIDE DEF k
<1>5. job'[w] = k /\ OthersStay(w)
    BY <1>1, <1>4, JobIs
<1>6. job'[w].pc \notin OpenPCs
    BY <1>4, <1>5 DEF OpenPCs, EarlyPCs
<1> QED  BY <1>2, <1>5, <1>6, RollsBackOnDisk

LEMMA CommitsSegmentOnDisk ==
    ASSUME Inv, DiskParts, NEW w \in Writers, CommitSegment(w)
    PROVE  DiskParts'
<1> DEFINE j == job[w]
<1>1. Types /\ AllTasks
    BY DEF Inv
<1>2. j.pc = "take" /\ \E k : (\E i : Restages(w, k, i)) \/ Finds(w, k) \/ Stages(w, k)
    BY <1>1, CommitSegmentStep
<1>3. PICK k : (\E i : Restages(w, k, i)) \/ Finds(w, k) \/ Stages(w, k)
    BY <1>2
<1>4. Becomes(w, k)
    BY <1>3 DEF Restages, Finds, Stages
<1>5. job'[w] = k /\ OthersStay(w) /\ k \in JobRecord
    BY <1>1, <1>4, JobIs DEF Becomes
<1>6. j \in JobRecord /\ j.pending \in Seq(Staged) /\ k.pending \in Seq(Staged)
    BY <1>1, <1>5, JobType DEF JobRecord
<1>7. next_segment \in Nat /\ Fewer(segment_map, segment_map')
    BY <1>1, FewerRefl DEF Types, CommitSegment
<1>8. (next_segment' = next_segment /\ UNCHANGED disk) \/ (next_segment' = next_segment + 1 /\ Stage(w, Len(j.pending)))
  <2>1. [j EXCEPT !.ordered = @ \ {Turn(w)}].pending = j.pending
    BY <1>6 DEF JobRecord
  <2> QED  BY <2>1 DEF CommitSegment
<1>9. CASE next_segment' = next_segment
  <2>1. UNCHANGED disk
    BY <1>7, <1>8, <1>9
  <2>2. ~Stages(w, k)
    BY <1>7, <1>9 DEF Stages
  <2>3. CASE Finds(w, k)
    <3>1. k.pc = "increment" /\ k.pending = j.pending
        BY <2>3 DEF Finds, SameCall
    <3>2. job'[w].pc \in OpenPCs /\ j.pc \in OpenPCs
        BY <1>2, <1>5, <3>1 DEF OpenPCs, EarlyPCs
    <3> QED  BY <1>5, <1>7, <2>1, <3>1, <3>2, QuietDisk
  <2>4. CASE \E i : Restages(w, k, i)
    <3>1. PICK i : Restages(w, k, i)
        BY <2>4
    <3>2. k.pc = "take" /\ DOMAIN k.pending = DOMAIN j.pending
        BY <3>1 DEF Restages, TakesSegment
    <3>3. Len(k.pending) = Len(j.pending)
        BY <1>6, <3>2
    <3>4. job'[w].pc \in OpenPCs /\ j.pc \in OpenPCs
        BY <1>2, <1>5, <3>2 DEF OpenPCs, EarlyPCs
    <3> QED  BY <1>5, <1>7, <2>1, <3>3, <3>4, QuietDisk
  <2> QED  BY <1>3, <2>2, <2>3, <2>4
<1>10. CASE next_segment' # next_segment
  <2>1. Stage(w, Len(j.pending))
    BY <1>8, <1>10
  <2>2. Stages(w, k)
    BY <1>3, <1>10 DEF Restages, Finds
  <2>3. k.pc = "take" /\ Len(k.pending) = Len(j.pending) + 1
    <3>1. \E s : k.pending = Append(j.pending, s)
        BY <2>2 DEF Stages
    <3>2. k.pc = "take"
        BY <2>2 DEF Stages, TakesSegment
    <3> QED  BY <1>6, <3>1, <3>2
  <2>4. job'[w].pc \in OpenPCs /\ j.pc \in OpenPCs
    BY <1>2, <1>5, <2>3 DEF OpenPCs, EarlyPCs
  <2> QED  BY <1>5, <1>6, <1>7, <2>1, <2>3, <2>4, StageDisk
<1> QED  BY <1>9, <1>10

LEMMA IncrementsOnDisk ==
    ASSUME Inv, DiskParts, NEW w \in Writers, IncrementRefcount(w) \/ IncrementFails(w)
    PROVE  DiskParts'
<1>1. Types /\ AllTasks
    BY DEF Inv
<1>2. UNCHANGED disk
    BY DEF IncrementRefcount, IncrementFails
<1>3. CASE IncrementRefcount(w)
  <2>1. job[w].pc = "increment" /\ SameData(segment_map, segment_map') /\ \E k : Increments(w, k)
    BY <1>1, <1>3, IncrementStep
  <2>2. PICK k : Increments(w, k)
    BY <2>1
  <2>3. Becomes(w, k) /\ k.pc = "take" /\ k.pending = job[w].pending
    BY <2>2 DEF Increments, TakesSegment
  <2>4. job'[w] = k /\ OthersStay(w)
    BY <1>1, <2>3, JobIs DEF Becomes
  <2>5. job[w].pc \in OpenPCs /\ job'[w].pc \in OpenPCs
    BY <2>1, <2>3, <2>4 DEF OpenPCs, EarlyPCs
  <2> QED  BY <1>2, <2>1, <2>3, <2>4, <2>5, SameIsFewer, QuietDisk
<1>4. CASE IncrementFails(w)
  <2>1. job[w].pc = "increment" /\ SameData(segment_map, segment_map')
        /\ \E k : Becomes(w, k) /\ SameCall(job[w], k) /\ k.pc = "join"
    BY <1>1, <1>4, IncrementFailsStep
  <2>2. PICK k : Becomes(w, k) /\ SameCall(job[w], k) /\ k.pc = "join"
    BY <2>1
  <2>3. k.pending = job[w].pending
    BY <2>2 DEF SameCall
  <2>4. job'[w] = k /\ OthersStay(w)
    BY <1>1, <2>2, JobIs DEF Becomes
  <2>5. job[w].pc \in OpenPCs /\ job'[w].pc \in OpenPCs
    BY <2>1, <2>2, <2>4 DEF OpenPCs, EarlyPCs
  <2> QED  BY <1>2, <2>1, <2>3, <2>4, <2>5, SameIsFewer, QuietDisk
<1> QED  BY <1>3, <1>4

LEMMA CommitsOnDisk ==
    ASSUME Inv, DiskParts, NoSaveFailed', NEW w \in Writers, CommitTransaction(w) \/ CommitFails(w)
    PROVE  DiskParts'
<1>1. Types /\ AllTasks
    BY DEF Inv
<1>2. CASE CommitTransaction(w)
  <2>1. PICK k : Becomes(w, k) /\ SameCall(job[w], k) /\ k.pc = "register"
    BY <1>1, <1>2, CommitStep
  <2>2. job'[w] = k /\ OthersStay(w)
    BY <1>1, <2>1, JobIs DEF Becomes
  <2>3. job'[w].pc \notin OpenPCs
    BY <2>1, <2>2 DEF OpenPCs, EarlyPCs
  <2>4. /\ job[w].pc = "commit" /\ segment_map' = Committed(w) /\ AllWritten(w)
        /\ base' = Without(base, w)
    BY <1>2 DEF CommitTransaction, At
  <2> QED  BY <2>2, <2>3, <2>4, CommitDisk
<1>3. CASE CommitFails(w)
  <2> DEFINE k == [job[w] EXCEPT !.pc = "undo", !.undo = AbortUndo(w)]
  <2>1. job[w].pc = "commit" /\ StartUndo(w, AbortUndo(w)) /\ ~SaveFails
    BY <1>1, <1>3, SaveCounted DEF CommitFails, At
  <2>2. job[w] \in JobRecord
    BY <1>1, JobType
  <2>3. job' = [job EXCEPT ![w] = k] /\ k.pc = "undo"
    BY <1>1, <2>1, <2>2 DEF StartUndo, Types, JobRecord
  <2> HIDE DEF k
  <2>4. job'[w] = k /\ OthersStay(w)
    BY <1>1, <2>3, JobIs
  <2>5. job'[w].pc \notin OpenPCs
    BY <2>3, <2>4 DEF OpenPCs, EarlyPCs
  <2>6. /\ \E n \in 0 .. Len(job[w].pending) : data_file' = Written(w, n)
        /\ next_offset' = base[w] /\ base' = Without(base, w) /\ UNCHANGED <<segment_map, place>>
    BY <1>3, <2>1 DEF CommitFails
  <2>7. PICK n \in 0 .. Len(job[w].pending) : data_file' = Written(w, n)
    BY <2>6
  <2>8. Fewer(segment_map, segment_map')
    BY <2>6, FewerRefl
  <2> QED  BY <2>1, <2>4, <2>5, <2>6, <2>7, <2>8, CommitFailsDisk
<1> QED  BY <1>2, <1>3

LEMMA RegistersOnDisk ==
    ASSUME Inv, DiskParts, NoSaveFailed', NEW w \in Writers, RegisterContent(w) \/ CreateCapsule(w)
    PROVE  DiskParts'
<1>1. Types /\ AllTasks
    BY DEF Inv
<1>2. UNCHANGED disk /\ segment_map' = segment_map /\ data_of' = data_of /\ ~SaveFails
    BY <1>1, SaveCounted DEF RegisterContent, CreateCapsule
<1>3. Fewer(segment_map, segment_map')
    BY <1>2, FewerRefl
<1>4. CASE RegisterContent(w)
  <2>1. At(w, "register") /\ job[w].registered < Len(Registrations(w))
        /\ job' = [job EXCEPT ![w].registered = @ + 1]
    BY <1>2, <1>4 DEF RegisterContent
  <2>2. PICK k : Registers(w, k)
    BY <1>1, <1>2, <2>1, RegisterStep
  <2>3. Becomes(w, k) /\ k.pc = job[w].pc /\ k.pending = job[w].pending
    BY <2>2 DEF Registers
  <2>4. job'[w] = k /\ OthersStay(w)
    BY <1>1, <2>3, JobIs DEF Becomes
  <2> QED  BY <1>2, <1>3, <2>3, <2>4, QuietDisk
<1>5. CASE CreateCapsule(w)
  <2>1. job[w].pc = "create" /\ Return(w)
    BY <1>2, <1>5 DEF CreateCapsule, At
  <2>2. job'[w] = IdleJob /\ OthersStay(w)
    BY <1>1, <2>1, JobIs DEF Return
  <2>3. job[w].pc \notin OpenPCs /\ job'[w].pc \notin OpenPCs
    BY <2>1, <2>2, IdleType DEF OpenPCs, EarlyPCs
  <2> QED  BY <1>2, <1>3, <2>2, <2>3, QuietDisk
<1> QED  BY <1>4, <1>5

LEMMA UndoesOnDisk ==
    ASSUME Inv, DiskParts, NoSaveFailed', NEW w \in Writers, UndoStep(w) \/ UndoFails(w)
    PROVE  DiskParts'
<1>1. Types /\ AllTasks
    BY DEF Inv
<1> DEFINE j == job[w]
<1>2. CASE UndoStep(w)
  <2>1. /\ j.pc = "undo" /\ j.undo # << >> /\ Undo(Head(j.undo)) /\ ~Refused(Head(j.undo))
        /\ unregistered' = unregistered /\ UNCHANGED disk
    BY <1>2 DEF UndoStep, At
  <2>2. MapMove(segment_map, segment_map', PendingIds(j)) /\ DOMAIN segment_map' \subseteq DOMAIN segment_map
    BY <2>1, UndoMaps
  <2>3. Fewer(segment_map, segment_map')
    BY <2>2 DEF MapMove, Fewer
  <2> DEFINE k == [j EXCEPT !.undo = Tail(@)]
  <2>4. j \in JobRecord
    BY <1>1, JobType
  <2>5. job' = [job EXCEPT ![w] = k] /\ k.pc = j.pc
    BY <1>1, <1>2, <2>4 DEF UndoStep, Types, JobRecord
  <2> HIDE DEF k
  <2>6. job'[w] = k /\ OthersStay(w)
    BY <1>1, <2>5, JobIs
  <2>7. job[w].pc \notin OpenPCs /\ job'[w].pc \notin OpenPCs
    BY <2>1, <2>5, <2>6 DEF OpenPCs, EarlyPCs
  <2> QED  BY <2>1, <2>3, <2>6, <2>7, QuietDisk
<1>3. CASE UndoFails(w)
  <2>1. ~SaveFails
    BY <1>1, SaveCounted
  <2>2. Return(w) /\ RollBack(w) /\ segment_map' = segment_map
    BY <1>3, <2>1 DEF UndoFails
  <2> QED  BY <2>2, ReturnsOnDisk
<1> QED  BY <1>2, <1>3

LEMMA WriterOnDisk ==
    ASSUME Inv, DiskParts, Clean', NEW w \in Writers,
           \/ \E data \in Datas, dedupe \in BOOLEAN : WriteCapsuleAsync(w, data, dedupe)
           \/ WriterStep(w) \/ SpawnRefused(w) \/ CommitFails(w)
           \/ \E i \in 1 .. MaxChunks : TaskStep(w, i) \/ TaskFailsToPrepare(w, i)
    PROVE  DiskParts'
<1>1. NoSaveFailed'
    BY DEF Clean
<1>2. CASE \E data \in Datas, dedupe \in BOOLEAN : WriteCapsuleAsync(w, data, dedupe)
    BY <1>2, BeginsOnDisk
<1>3. CASE ShuffleActions(w)
    BY <1>3, ShufflesOnDisk
<1>4. CASE JoinAll(w) /\ Failed(w)
    BY <1>4, AbortsOnDisk
<1>5. CASE CommitSegment(w)
    BY <1>5, CommitsSegmentOnDisk
<1>6. CASE IncrementRefcount(w) \/ IncrementFails(w)
    BY <1>6, IncrementsOnDisk
<1>7. CASE CommitTransaction(w) \/ CommitFails(w)
    BY <1>1, <1>7, CommitsOnDisk
<1>8. CASE RegisterContent(w) \/ CreateCapsule(w)
    BY <1>1, <1>8, RegistersOnDisk
<1>9. CASE UndoStep(w) \/ UndoFails(w)
    BY <1>1, <1>9, UndoesOnDisk
<1>10. CASE UndoReturns(w) \/ SpawnRefused(w)
  <2>1. Return(w) /\ RollBack(w) /\ segment_map' = segment_map
    BY <1>10 DEF UndoReturns, SpawnRefused, shared
  <2> QED  BY <2>1, ReturnsOnDisk
<1> QED
    BY <1>2, <1>3, <1>4, <1>5, <1>6, <1>7, <1>8, <1>9, <1>10 DEF WriterStep, ShuffleActions

(* What has failed or overlapped once stays so.                            *)
LEMMA CleanBefore ==
    ASSUME Inv, NEW w \in Writers,
           \/ \E data \in Datas, dedupe \in BOOLEAN : WriteCapsuleAsync(w, data, dedupe)
           \/ WriterStep(w) \/ SpawnRefused(w) \/ CommitFails(w)
           \/ \E i \in 1 .. MaxChunks : TaskStep(w, i) \/ TaskFailsToPrepare(w, i)
    PROVE  Clean' => Clean
<1>1. NoSaveFailed' => NoSaveFailed
  <2>1. PICK k : Step4(w, k)
    BY WriterKeeps
  <2> QED  BY <2>1, StepFrame
<1>2. overlapped' = overlapped \/ \E data \in Datas, dedupe \in BOOLEAN : WriteCapsuleAsync(w, data, dedupe)
  <2>1. CASE SpawnTask(w) \/ Receive(w) \/ ChannelClosed(w) \/ AwaitTurn(w) \/ IncrementRefcount(w)
    BY <2>1 DEF SpawnTask, Receive, ChannelClosed, AwaitTurn, IncrementRefcount, disk
  <2>2. CASE IncrementFails(w) \/ RegisterContent(w) \/ AllRegistered(w) \/ CreateCapsule(w) \/ UndoStep(w)
    BY <2>2 DEF IncrementFails, RegisterContent, AllRegistered, CreateCapsule, UndoStep, disk
  <2>3. CASE JoinAll(w) \/ UndoFails(w) \/ UndoReturns(w) \/ SpawnRefused(w)
    BY <2>3 DEF JoinAll, UndoFails, UndoReturns, SpawnRefused, RollBack, disk
  <2>4. CASE CommitTransaction(w) \/ CommitFails(w)
    BY <2>4 DEF CommitTransaction, CommitFails, AllWritten
  <2>5. CASE CommitSegment(w)
    BY <2>5 DEF CommitSegment, Stage, disk
  <2>6. CASE \E i \in 1 .. MaxChunks : TaskStep(w, i) \/ TaskFailsToPrepare(w, i)
    BY <2>6 DEF TaskStep, TaskSends, TaskUnheard, TaskFailsToPrepare, disk
  <2> QED  BY <2>1, <2>2, <2>3, <2>4, <2>5, <2>6 DEF WriterStep
<1>3. (\E data \in Datas, dedupe \in BOOLEAN : WriteCapsuleAsync(w, data, dedupe)) => (overlapped => overlapped')
    BY DEF WriteCapsuleAsync, Begin, disk
<1> QED  BY <1>1, <1>2, <1>3 DEF Clean

LEMMA StepKeepsDisk ==
    ASSUME Inv, DiskInv, [Next]_vars
    PROVE  DiskInv'
<1>1. CASE Done \/ UNCHANGED vars
    BY <1>1 DEF Done, vars, disk, DiskInv, DiskParts, Clean, NoSaveFailed
<1>2. ASSUME NEW w \in Writers,
           \/ \E data \in Datas, dedupe \in BOOLEAN : WriteCapsuleAsync(w, data, dedupe)
           \/ WriterStep(w) \/ SpawnRefused(w) \/ CommitFails(w)
           \/ \E i \in 1 .. MaxChunks : TaskStep(w, i) \/ TaskFailsToPrepare(w, i)
      PROVE  DiskInv'
    BY <1>2, CleanBefore, WriterOnDisk DEF DiskInv
<1> QED  BY <1>1, <1>2 DEF Next

LEMMA InitDisk == Init => DiskInv
<1> SUFFICES ASSUME Init PROVE DiskParts
    BY DEF DiskInv
<1>1. DOMAIN segment_map = {} /\ DOMAIN base = {} /\ next_offset = 0
    BY DEF Init, Empty
<1>2. \A w \in Writers : job[w].pc \notin OpenPCs
    BY IdleType DEF Init, OpenPCs
<1> QED  BY <1>1, <1>2 DEF DiskParts, OneOpen, AllStored

(* InOrder, for any number of writers, tasks and chunks: as long as no     *)
(* save has failed, a capsule made by write_capsule_with_policy_async      *)
(* lists exactly the chunks of its write, in their order; and as long as   *)
(* no transaction began while another was open, the bytes of these chunks  *)
(* are in the data file where their segments say.                          *)
THEOREM AsyncInOrder == Spec => []InOrder
<1>1. Init => Inv /\ DiskInv
    BY InitInv, InitDisk
<1>2. Inv /\ DiskInv /\ [Next]_vars => (Inv /\ DiskInv)'
    BY StepKeepsInv, StepKeepsDisk
<1>3. Inv /\ DiskInv => InOrder
  <2> SUFFICES ASSUME Inv, DiskInv, NoSaveFailed, NEW c \in DOMAIN capsules
               PROVE  /\ Len(capsules[c]) = Len(data_of[c])
                      /\ \A i \in DOMAIN capsules[c] :
                            /\ capsules[c][i] \in DOMAIN segment_map
                            /\ segment_map[capsules[c][i]].data = data_of[c][i]
                            /\ ~overlapped => Readable(capsules[c][i])
    BY DEF InOrder
  <2>1. CapsuleOK(capsules[c], data_of[c], segment_map)
    BY DEF Inv, Ordered
  <2>2. \A x \in DOMAIN segment_map : ~overlapped => Readable(x)
    BY DEF DiskInv, Clean, DiskParts, AllStored, StoredAt, Readable, Entries
  <2> QED  BY <2>1, <2>2 DEF CapsuleOK, InMap
<1> QED  BY <1>1, <1>2, <1>3, PTL DEF Spec
=============================================================================

--------------------------------- MODULE Mesh ---------------------------------
(***************************************************************************)
(* The mesh around one storage node: the tail of the asynchronous write    *)
(* (metro-sync replication, telemetry, federation), the mesh node with its *)
(* registry of peers, the scaling agent at the other end of the telemetry  *)
(* channel, and the view projections (NFS export, NVMe, CSI, FUSE).        *)
(*                                                                         *)
(* A write enters here with its capsule created and its segments stored    *)
(* (module AsyncPipeline).  Writes, projections, deletes, registrations of *)
(* peers and the agent are tasks of one runtime; a step runs from one      *)
(* await to the next.                                                      *)
(***************************************************************************)
EXTENDS PolicyCompiler, Maps

CONSTANTS
    Nodes,          \* other nodes, all registrable as peers
    Zones,          \* zones this node may be in
    Policies,       \* policies of writes and projections
    Calls,          \* events, policies and snapshots compile_scaling is called
    CallPolicies,   \* with by others
    MeshStates,
    ExternalEvents, \* telemetry other than NewCapsule, from outside the pipeline
    MaxSegments,    \* bound: segments of a capsule
    MaxWrites,      \* bound: number of writes
    MaxEvents,      \* bound: external events
    MaxViews,       \* bound: projections
    None,           \* no projection, no event, no compilation
    Stopped         \* the agent has left its loop

PolicyType == [rpo : Nat, latency : Nat, sovereignty : {"Local", "Zone", "Global"}]
ZoneType == [kind : {"Metro", "Geo", "Edge"}, name : STRING]
NodeType == [id : Nodes, zone : ZoneType, available : Nat, used : Nat]

(* Telemetry, as others send it; a NewCapsule of the pipeline also carries *)
(* the policy of its capsule.                                              *)
Telemetry ==
    [type : {"NewCapsule", "ViewProjection"}, id : Nat] \cup
    [type : {"HeatSpike"}, id : Nat, accesses : Nat] \cup
    [type : {"CapacityThreshold"}, node : Nodes, used : Nat, total : Nat, threshold : Int] \cup
    [type : {"NodeDegraded"}, node : Nodes, critical : BOOLEAN]
EventType ==
    {event \in Telemetry : event.type # "NewCapsule"} \cup
    [type : {"NewCapsule"}, id : Nat, policy : PolicyType]

ASSUME MeshAssumption ==
    /\ {MaxSegments, MaxWrites, MaxEvents, MaxViews} \subseteq Nat
    /\ Zones \subseteq ZoneType
    /\ Policies \cup CallPolicies \subseteq PolicyType
    /\ Calls \subseteq Telemetry
    /\ ExternalEvents \subseteq {event \in Telemetry : event.type # "NewCapsule"}
    /\ None \notin EventType /\ Stopped \notin EventType
    /\ \A mesh \in MeshStates :
        /\ mesh \in [local_zone : ZoneType, nodes : Seq(NodeType)]
        /\ \A i, j \in DOMAIN mesh.nodes : i # j => mesh.nodes[i].id # mesh.nodes[j].id

VARIABLES
    zone,           \* MeshNode::zone
    peers,          \* MeshNode::peers, the registered nodes
    capsules,       \* registry: capsules with their number of segments
    writes,         \* the n-th write from its creation of the capsule on
    open,           \* the pipeline still holds its end of the telemetry channel
    queue,          \* the telemetry channel
    agent,          \* event the agent is handling, None, or Stopped
    view,           \* the running projection, or None
    federated,      \* capsules replicated by the metadata cluster
    shards,         \* <<capsule, zone>> with a metadata shard
    views,          \* projections handed out, with the policy they were asked under
    compiled,       \* history: the compilation this step made, or None
    emitted,        \* history: events sent into the channel
    handled,        \* history: events the agent has handled
    asked           \* projections begun, bounded by MaxViews

mesh_vars == <<zone, peers, capsules, writes, open, queue, agent, view, federated, shards, views,
              compiled, emitted, handled, asked>>
channel == <<open, queue, agent, emitted, handled>>
projection == <<view, federated, shards, views, asked>>


MeshInit ==
    /\ zone \in Zones
    /\ peers = {}
    /\ capsules = Empty
    /\ writes = <<>>
    /\ open = TRUE /\ queue = <<>> /\ agent = None
    /\ view = None /\ federated = {} /\ shards = {} /\ views = {}
    /\ compiled = None /\ emitted = <<>> /\ handled = <<>> /\ asked = 0

-----------------------------------------------------------------------------
(* MeshNode                                                                *)

RegisterPeer(node) ==
    /\ node \notin peers
    /\ peers' = peers \cup {node}
    /\ compiled' = None
    /\ UNCHANGED <<zone, capsules, writes, channel, projection>>

(* The keys of a hash map: every peer once, in no particular order.        *)
DiscoverPeers == SetToSeqs(peers)

-----------------------------------------------------------------------------
(* The tail of write_capsule_with_policy_async.                            *)

Segments(cap) == 1 .. writes[cap].segments

StartWrite(n, policy) ==
    /\ Len(writes) < MaxWrites
    /\ open
    /\ capsules' = Put(capsules, Len(writes) + 1, n)
    /\ writes' = Append(writes,
            [policy |-> policy, segments |-> n, targets |-> <<>>, todo |-> <<>>, sent |-> {},
             failed |-> {}, cut |-> FALSE,
             at |-> IF policy.rpo = 0 THEN "discover" ELSE "mirror"])
    /\ compiled' = None
    /\ UNCHANGED <<zone, peers, channel, projection>>

(* With a zero RPO the first two peers found are the targets, whatever     *)
(* their zone and the policy's; every segment goes to each in turn.        *)
SelectTargets(cap) ==
    /\ writes[cap].at = "discover"
    /\ \E found \in DiscoverPeers :
        LET targets == TakeTwo(found)
            k == Len(targets)
        IN  writes' = [writes EXCEPT ![cap].at = "mirror", ![cap].targets = targets,
                ![cap].todo = [i \in 1 .. writes[cap].segments * k |->
                                <<((i - 1) \div k) + 1, targets[((i - 1) % k) + 1]>>]]
    /\ compiled' = None
    /\ UNCHANGED <<zone, peers, capsules, channel, projection>>

(* Mutant: the first peer that cannot be reached ends the replication.     *)
SkipTargetStops(write, pair) ==
    [write EXCEPT !.todo = <<>>, !.failed = @ \cup {pair}]

(* A peer that cannot be reached is logged and passed over.                *)
SkipTarget(write, pair) ==
    [write EXCEPT !.todo = Tail(@), !.failed = @ \cup {pair}]

(* One mirror_segment.  The peer reads what has arrived and keeps nothing, *)
(* so a segment sent is not a segment stored.  A deleted capsule's segment *)
(* may still be there, shared with another capsule.                        *)
MirrorSegment(cap) ==
    /\ writes[cap].at = "mirror" /\ writes[cap].todo # <<>>
    /\ LET pair == Head(writes[cap].todo)
       IN  \/ writes' = [writes EXCEPT ![cap].todo = Tail(@), ![cap].sent = @ \cup {pair}]
           \/ writes' = [writes EXCEPT ![cap] = SkipTarget(@, pair)]
    /\ compiled' = None
    /\ UNCHANGED <<zone, peers, capsules, channel, projection>>

(* A segment is read before its first target.  The capsule was deleted     *)
(* meanwhile and the segment with it: the replication ends and the write   *)
(* goes on.                                                                *)
MirrorReadFails(cap) ==
    /\ writes[cap].at = "mirror" /\ writes[cap].todo # <<>>
    /\ Head(writes[cap].todo)[2] = writes[cap].targets[1]
    /\ cap \notin DOMAIN capsules
    /\ writes' = [writes EXCEPT ![cap].todo = <<>>, ![cap].cut = TRUE]
    /\ compiled' = None
    /\ UNCHANGED <<zone, peers, capsules, channel, projection>>

NewCapsule(cap) == [id |-> cap, type |-> "NewCapsule", policy |-> writes[cap].policy]

(* Mutant: the event is sent while segments are still being mirrored.      *)
ReplicationOverEarly(cap) == writes[cap].at = "mirror"

ReplicationOver(cap) == writes[cap].at = "mirror" /\ writes[cap].todo = <<>>

(* Send the event, then federate the capsule unless it is Local.           *)
EmitTelemetry(cap) ==
    /\ ReplicationOver(cap)
    /\ emitted' = Append(emitted, NewCapsule(cap))
    /\ queue' = Append(queue, NewCapsule(cap))
    /\ writes' = [writes EXCEPT ![cap].at = "returned"]
    /\ federated' = IF writes[cap].policy.sovereignty = "Local" THEN federated
                    ELSE federated \cup {cap}
    /\ compiled' = None
    /\ UNCHANGED <<zone, peers, capsules, open, agent, handled, view, shards, views, asked>>

DeleteCapsule(cap) ==
    /\ cap \in DOMAIN capsules
    /\ capsules' = [c \in DOMAIN capsules \ {cap} |-> capsules[c]]
    /\ compiled' = None
    /\ UNCHANGED <<zone, peers, writes, channel, projection>>

-----------------------------------------------------------------------------
(* The scaling agent.                                                      *)

SendTelemetry(event) ==
    /\ open
    /\ Len(SelectSeq(emitted, LAMBDA e : e.type # "NewCapsule")) < MaxEvents
    /\ emitted' = Append(emitted, event)
    /\ queue' = Append(queue, event)
    /\ compiled' = None
    /\ UNCHANGED <<zone, peers, capsules, writes, open, agent, handled, projection>>

(* The pipeline and with it the sender are dropped.                        *)
CloseChannel ==
    /\ open
    /\ \A cap \in DOMAIN writes : writes[cap].at = "returned"
    /\ open' = FALSE
    /\ compiled' = None
    /\ UNCHANGED <<zone, peers, capsules, writes, queue, agent, emitted, handled, projection>>

Receive ==
    /\ agent = None /\ queue # <<>>
    /\ agent' = Head(queue) /\ queue' = Tail(queue)
    /\ compiled' = None
    /\ UNCHANGED <<zone, peers, capsules, writes, open, emitted, handled, projection>>

(* Mutant: the agent stops when the channel is closed.                     *)
ChannelEndedAtOnce == ~open

(* recv returns None only when the channel is closed and drained.          *)
ChannelEnded == ~open /\ queue = <<>>

StopAgent ==
    /\ agent = None /\ ChannelEnded
    /\ agent' = Stopped
    /\ compiled' = None
    /\ UNCHANGED <<zone, peers, capsules, writes, open, queue, emitted, handled, projection>>

(* Only NewCapsule carries its policy.                                     *)
PolicyOf(event) == IF event.type = "NewCapsule" THEN event.policy ELSE MetroSync

(* Placeholders: every peer in this node's zone, one tenth used.           *)
BuildMeshState(found) ==
    [local_zone |-> zone,
     nodes |-> [i \in DOMAIN found |->
                  [id |-> found[i], zone |-> zone, available |-> 1000, used |-> 100]]]

Compile(event, policy, mesh) ==
    [event |-> event, policy |-> policy, mesh |-> mesh,
     actions |-> CompileScalingActions(event, policy, mesh)]

(* Every executor only logs what it would do.                              *)
ExecuteActions == UNCHANGED <<zone, peers, capsules, writes, projection>>

(* The agent compiles the event and executes the actions.                  *)
HandleTelemetryEvent ==
    /\ agent \notin {None, Stopped}
    /\ \E found \in DiscoverPeers :
        compiled' = Compile(agent, PolicyOf(agent), BuildMeshState(found))
    /\ ExecuteActions
    /\ handled' = Append(handled, agent)
    /\ agent' = None
    /\ UNCHANGED <<open, queue, emitted>>

(* compile_scaling called by others.  The compiler keeps no state, so it   *)
(* is enough to call it before anything else happens.                      *)
CompileScaling ==
    /\ peers = {} /\ writes = <<>> /\ emitted = <<>> /\ asked = 0 /\ open
    /\ compiled = None
    /\ \E event \in Calls, policy \in CallPolicies, mesh \in MeshStates :
        compiled' = Compile(event, policy, mesh)
    /\ UNCHANGED <<zone, peers, capsules, writes, channel, projection>>

-----------------------------------------------------------------------------
(* View projections: the same steps under the policy the caller hands in.  *)

ProjectView(cap, policy, fallible) ==
    LET mesh == [local_zone |-> zone, nodes |-> <<>>]
        call == Compile([type |-> "ViewProjection", id |-> cap], policy, mesh)
    IN  /\ view = None /\ asked < MaxViews
        /\ asked' = asked + 1
        /\ IF cap \in DOMAIN capsules
           THEN view' = [cap |-> cap, policy |-> policy, todo |-> call.actions,
                         fallible |-> fallible]
           ELSE view' = None
        /\ compiled' = IF cap \in DOMAIN capsules THEN call ELSE None
        /\ UNCHANGED <<zone, peers, capsules, writes, channel, federated, shards, views>>

(* Starting the server, provisioning and mounting can fail at the end; the *)
(* NVMe target is only built in memory.                                    *)
ExportNfsView(cap, policy) == ProjectView(cap, policy, TRUE)
ProjectNvmeView(cap, policy) == ProjectView(cap, policy, FALSE)
CsiProvisionCapsule(cap, policy) == ProjectView(cap, policy, TRUE)
MountFuseView(cap, policy) == ProjectView(cap, policy, TRUE)

FederateCapsule ==
    /\ view # None /\ view.todo # <<>> /\ Head(view.todo).type = "Federate"
    /\ federated' = federated \cup {view.cap}
    /\ view' = [view EXCEPT !.todo = Tail(@)]
    /\ compiled' = None
    /\ UNCHANGED <<zone, peers, capsules, writes, channel, shards, views, asked>>

(* serialize_capsule looks the capsule up again; if it is gone the         *)
(* projection fails with the capsule already federated.                    *)
ShardMetadata ==
    /\ view # None /\ view.todo # <<>> /\ Head(view.todo).type = "ShardEC"
    /\ IF view.cap \in DOMAIN capsules
       THEN /\ shards' = shards \cup {<<view.cap, z>> : z \in Head(view.todo).zones}
            /\ view' = [view EXCEPT !.todo = Tail(@)]
       ELSE view' = None /\ UNCHANGED shards
    /\ compiled' = None
    /\ UNCHANGED <<zone, peers, capsules, writes, channel, federated, views, asked>>

HandOutView ==
    /\ view # None /\ view.todo = <<>>
    /\ views' = views \cup {[cap |-> view.cap, policy |-> view.policy]}
    /\ view' = None
    /\ compiled' = None
    /\ UNCHANGED <<zone, peers, capsules, writes, channel, federated, shards, asked>>

ProjectionFails ==
    /\ view # None /\ view.todo = <<>> /\ view.fallible
    /\ view' = None
    /\ compiled' = None
    /\ UNCHANGED <<zone, peers, capsules, writes, channel, federated, shards, views, asked>>

-----------------------------------------------------------------------------
AgentNext == Receive \/ StopAgent \/ HandleTelemetryEvent

MeshNext ==
    \/ \E node \in Nodes : RegisterPeer(node)
    \/ \E n \in 1 .. MaxSegments, policy \in Policies : StartWrite(n, policy)
    \/ \E cap \in DOMAIN writes :
        \/ SelectTargets(cap) \/ MirrorSegment(cap)
        \/ MirrorReadFails(cap) \/ EmitTelemetry(cap)
    \/ \E cap \in 1 .. MaxWrites : DeleteCapsule(cap)
    \/ \E event \in ExternalEvents : SendTelemetry(event)
    \/ CloseChannel
    \/ AgentNext
    \/ CompileScaling
    \/ \E cap \in 1 .. MaxWrites, policy \in Policies :
        \/ ExportNfsView(cap, policy) \/ ProjectNvmeView(cap, policy)
        \/ CsiProvisionCapsule(cap, policy) \/ MountFuseView(cap, policy)
    \/ FederateCapsule \/ ShardMetadata \/ HandOutView \/ ProjectionFails

(* The runtime keeps polling the agent's task.                             *)
MeshSpec == MeshInit /\ [][MeshNext]_mesh_vars /\ WF_mesh_vars(AgentNext)

-----------------------------------------------------------------------------
(* What the policy of a compilation allows, said without the compiler.     *)
InScope(call, node) ==
    CASE call.policy.sovereignty = "Global" -> TRUE
      [] call.policy.sovereignty = "Zone" -> node.zone = call.mesh.local_zone
      [] call.policy.sovereignty = "Local" -> FALSE

(* The compiler never places data outside the scope of the policy it was   *)
(* given, never names one node twice or more than two, migrates to a node  *)
(* with room that no other allowed node undercuts, and never finds a       *)
(* transformation necessary.                                               *)
PlacementInScope ==
    compiled # None => \A i \in DOMAIN compiled.actions :
        LET action == compiled.actions[i]
            nodes == ToSet(compiled.mesh.nodes)
        IN  /\ action.type = "Replicate" =>
                /\ \A t \in ToSet(action.targets) : InScope(compiled, t) /\ t.available > 0
                /\ Cardinality(ToSet(action.targets)) = Len(action.targets)
                /\ Len(action.targets) \in 1 .. 2
            /\ action.type = "Migrate" =>
                /\ InScope(compiled, action.destination)
                /\ ~action.transform
                /\ \A n \in nodes :
                    InScope(compiled, n) /\ n.available >= 10 /\ compiled.policy.latency >= 2
                        => Utilization(action.destination) <= Utilization(n)

(* Once a zero-RPO write returns, every segment has been offered to each   *)
(* of two peers (or of all, if fewer were registered when it looked), no   *)
(* peer that failed having kept the others from their turn; only the       *)
(* deletion of the capsule cuts this short.                                *)
EveryTargetTried ==
    \A cap \in DOMAIN writes :
        LET w == writes[cap]
        IN  /\ w.at = "returned" /\ w.policy.rpo = 0 /\ ~w.cut =>
                w.sent \cup w.failed = Segments(cap) \X ToSet(w.targets)
            /\ w.cut => cap \notin DOMAIN capsules
            /\ ToSet(w.targets) \subseteq peers

(* The agent hears of a capsule once, after its replication is over, and   *)
(* of all events in the order they were sent.                              *)
AnnouncedAfterReplication ==
    /\ handled \o (IF agent \in {None, Stopped} THEN <<>> ELSE <<agent>>) \o queue
            = emitted
    /\ \A i \in DOMAIN emitted : emitted[i].type = "NewCapsule" =>
        /\ writes[emitted[i].id].todo = <<>>
        /\ \A j \in DOMAIN emitted : j # i => emitted[j] # emitted[i]

(* A view is handed out only for a capsule whose metadata has a shard in   *)
(* this node's zone and, unless the caller's policy is Local, that is      *)
(* federated.                                                              *)
ViewsPlaced ==
    \A v \in views :
        /\ <<v.cap, zone>> \in shards
        /\ v.policy.sovereignty # "Local" => v.cap \in federated

(* Every event sent is handled in the end, also those still in the channel *)
(* when the pipeline is dropped.                                           *)
EventsHandled ==
    \A n \in 1 .. (MaxWrites + MaxEvents) :
        (Len(emitted) >= n) ~> (Len(handled) >= n)

(* The data of a capsule of Local sovereignty is sent to no other node,    *)
(* and no action compiled for it places it elsewhere.                      *)
LocalStaysLocal ==
    \A cap \in DOMAIN writes : writes[cap].policy.sovereignty = "Local" =>
        /\ writes[cap].sent = {}
        /\ compiled # None => \A i \in DOMAIN compiled.actions :
            compiled.actions[i].type \in {"Replicate", "Migrate"} =>
                compiled.actions[i].id # cap
=============================================================================

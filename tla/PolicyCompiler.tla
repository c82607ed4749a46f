---------------------------- MODULE PolicyCompiler ----------------------------
(***************************************************************************)
(* crates/scaling/src/compiler.rs: what a telemetry event, a policy and a  *)
(* snapshot of the mesh compile to.  The compiler keeps no state.          *)
(*                                                                         *)
(* Times are milliseconds, sizes megabytes, a percentage is counted in     *)
(* hundredths.  A zone is [kind, name], a node [id, zone, available, used] *)
(* and a mesh [nodes, local_zone]; actions carry what they would act on.   *)
(***************************************************************************)
EXTENDS Integers, Sequences, FiniteSets, SequencesExt

(* The policies of crates/common, seen through the fields the mesh reads.  *)
DefaultPolicy == [rpo |-> 60000, latency |-> 10, sovereignty |-> "Local"]
EdgeOptimized == [rpo |-> 300000, latency |-> 50, sovereignty |-> "Local"]
MetroSync == [rpo |-> 0, latency |-> 2, sovereignty |-> "Zone"]
GeoReplicated == [rpo |-> 300000, latency |-> 100, sovereignty |-> "Global"]

-----------------------------------------------------------------------------
(* Iterator::filter: the elements of s that are in fit, in their order.    *)
Filter(s, fit) ==
    LET kept[i \in 0 .. Len(s)] == IF i = 0 THEN <<>>
                                   ELSE IF s[i] \in fit THEN Append(kept[i - 1], s[i])
                                   ELSE kept[i - 1]
    IN  kept[Len(s)]

-----------------------------------------------------------------------------
(* MeshState                                                               *)

(* Mutant: Local is treated like Zone.                                     *)
SatisfiesSovereigntyLoose(mesh, node, sovereignty) ==
    sovereignty = "Global" \/ node.zone = mesh.local_zone

(* Nothing satisfies Local, the local node itself included.                *)
SatisfiesSovereignty(mesh, node, sovereignty) ==
    \/ sovereignty = "Global"
    \/ sovereignty = "Zone" /\ node.zone = mesh.local_zone

IsMetroZone(node) == node.zone.kind = "Metro"

(* Two nodes of one edge site are in no common region.                     *)
IsSameGeoRegion(mesh, node) ==
    node.zone = mesh.local_zone /\ node.zone.kind \in {"Metro", "Geo"}

HasCapacity(node, required) == node.available >= required

Utilization(node) ==
    LET total == node.available + node.used
    IN  IF total = 0 THEN 0 ELSE (node.used * 100) \div total

FindUnderutilizedNodes(mesh, percent) ==
    Filter(mesh.nodes, {node \in ToSet(mesh.nodes) :
                            node.used * 100 < percent * (node.available + node.used)})

RequiresTransformation(mesh, node, policy) ==
    policy.sovereignty = "Zone" /\ node.zone # mesh.local_zone

(* Mutant: only the zones of other nodes.                                  *)
ZoneIdsOthers(mesh) == {node.zone : node \in ToSet(mesh.nodes)}

(* The local zone first, then those of the other nodes.                    *)
ZoneIds(mesh) == {mesh.local_zone} \cup {node.zone : node \in ToSet(mesh.nodes)}

-----------------------------------------------------------------------------
(* Selection of nodes.                                                     *)

TakeTwo(s) == SubSeq(s, 1, IF Len(s) < 2 THEN Len(s) ELSE 2)

SelectReplicationTargets(policy, mesh) ==
    LET near(node) == \/ policy.latency < 2 /\ IsMetroZone(node)
                      \/ policy.latency \in 2 .. 99 /\ IsSameGeoRegion(mesh, node)
                      \/ policy.latency >= 100
        fit == {node \in ToSet(mesh.nodes) :
                    /\ SatisfiesSovereignty(mesh, node, policy.sovereignty)
                    /\ near(node)
                    /\ HasCapacity(node, 1)}
    IN  TakeTwo(Filter(mesh.nodes, fit))

(* The first node of least utilization, as a sequence of at most one.      *)
SelectMigrationTarget(policy, mesh) ==
    LET fit == {node \in ToSet(mesh.nodes) :
                    /\ SatisfiesSovereignty(mesh, node, policy.sovereignty)
                    /\ policy.latency < 2 => IsMetroZone(node)
                    /\ HasCapacity(node, 10)}
        candidates == Filter(mesh.nodes, fit)
        least == {node \in fit : \A other \in fit : Utilization(node) <= Utilization(other)}
        chosen == Filter(candidates, least)
    IN  SubSeq(chosen, 1, IF chosen = <<>> THEN 0 ELSE 1)

-----------------------------------------------------------------------------
(* One operator per kind of event; each gives a sequence of actions.       *)

CompileReplicationStrategy(id, policy, mesh) ==
    LET targets == SelectReplicationTargets(policy, mesh)
    IN  IF policy.rpo >= 60000 \/ targets = <<>> THEN <<>>
        ELSE <<[type |-> "Replicate", id |-> id, targets |-> targets,
                strategy |-> IF policy.rpo = 0 THEN "MetroSync" ELSE "AsyncWithBatching"]>>

CompileMigrationForHeat(id, accesses, policy, mesh) ==
    LET target == SelectMigrationTarget(policy, mesh)
    IN  IF accesses <= 100 \/ policy.latency >= 10 \/ target = <<>> THEN <<>>
        ELSE <<[type |-> "Migrate", id |-> id, destination |-> target[1],
                transform |-> RequiresTransformation(mesh, target[1], policy)]>>

(* A threshold of at most 1 is a fraction, so 1 means one hundred percent. *)
NormalizedThreshold(pct) == IF -100 <= pct /\ pct <= 100 THEN pct * 100 ELSE pct

UsedPercent(used, total) == IF total = 0 THEN 0 ELSE (used * 10000) \div total

CompileRebalancing(event, mesh) ==
    LET used == UsedPercent(event.used, event.total)
        under == FindUnderutilizedNodes(mesh, 50)
    IN  IF used < NormalizedThreshold(event.threshold) \/ used < 8000 \/ under = <<>>
        THEN <<>>
        ELSE <<[type |-> "Rebalance", overloaded |-> event.node, underutilized |-> under]>>

CompileEvacuation(event) ==
    <<[type |-> "Evacuate", node |-> event.node,
       urgency |-> IF event.critical THEN "Immediate" ELSE "Gradual"]>>

CompileProjection(id, policy, mesh) ==
    LET federate == [type |-> "Federate", id |-> id, zone |-> mesh.local_zone]
        shard == [type |-> "ShardEC", id |-> id, zones |-> ZoneIds(mesh)]
    IN  IF policy.sovereignty = "Local" THEN <<shard>> ELSE <<federate, shard>>

(* validate_sovereignty, called last, lets every action through.           *)
ValidateSovereignty(actions, policy) == actions

CompileScalingActions(event, policy, mesh) ==
    ValidateSovereignty(
        CASE event.type = "NewCapsule" -> CompileReplicationStrategy(event.id, policy, mesh)
          [] event.type = "HeatSpike" ->
                CompileMigrationForHeat(event.id, event.accesses, policy, mesh)
          [] event.type = "CapacityThreshold" -> CompileRebalancing(event, mesh)
          [] event.type = "NodeDegraded" -> CompileEvacuation(event)
          [] event.type = "ViewProjection" -> CompileProjection(event.id, policy, mesh),
        policy)
=============================================================================

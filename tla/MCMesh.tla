-------------------------------- MODULE MCMesh --------------------------------
(* Small instances of Mesh for TLC.                                        *)
EXTENDS Mesh

CONSTANTS p, q

Zone(kind, name) == [kind |-> kind, name |-> name]
Here == Zone("Metro", "here")
Edge == Zone("Edge", "site")
MCZones == {Here}

(* The presets and a Local policy that asks for zero RPO.                  *)
MCCallPolicies == {MetroSync, GeoReplicated, EdgeOptimized,
                   [rpo |-> 0, latency |-> 1, sovereignty |-> "Local"],
                   [rpo |-> 30000, latency |-> 1, sovereignty |-> "Global"]}
MCPolicies == {MetroSync, DefaultPolicy}
LocalPolicies == {[MetroSync EXCEPT !.sovereignty = "Local"]}

(* Up to two nodes here or elsewhere, empty, nearly full or full.          *)
Infos(id) ==
    {[id |-> id, zone |-> z, available |-> u[1], used |-> u[2]] :
        z \in {Here, Zone("Metro", "there"), Edge}, u \in {<<1000, 100>>, <<5, 995>>, <<0, 0>>}}
MCMeshStates ==
    {[local_zone |-> z, nodes |-> ns] : z \in {Here, Edge},
        ns \in {<<>>} \cup {<<m>> : m \in Infos(p)} \cup
             {<<m, n>> : m \in Infos(p), n \in Infos(q)}}

Heat(accesses) == [id |-> 1, accesses |-> accesses, type |-> "HeatSpike"]
Capacity(used, threshold) ==
    [used |-> used, type |-> "CapacityThreshold", threshold |-> threshold, node |-> p,
     total |-> 1000]
MCEvents == {Heat(101)}
MCCalls == MCEvents \cup {Heat(100), [type |-> "NodeDegraded", node |-> p, critical |-> TRUE],
            Capacity(850, 8000), Capacity(850, 85), Capacity(500, 50),
            [type |-> "NodeDegraded", node |-> p, critical |-> FALSE],
            [id |-> 1, type |-> "ViewProjection"], [id |-> 1, type |-> "NewCapsule"]}
=============================================================================

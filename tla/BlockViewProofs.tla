---------------------------- MODULE BlockViewProofs ----------------------------
(***************************************************************************)
(* BlockView implements VolumeStore for all sets of threads, volumes and   *)
(* blocks and all bounds: what a call prepares outside the lock is its own *)
(* until it is put in place, and a capsule that readers can reach, in      *)
(* memory or after a restart, is never deleted.                            *)
(***************************************************************************)
EXTENDS BlockView, TLAPS

(* The steps of calls, and of the process.                                 *)
LEMMA Steps ==
    ASSUME Next
    PROVE  \/ \E t \in Threads, n \in Names : CreateVolume(t, n)
           \/ \E t \in Threads, n \in Names, b \in Blocks, v \in Values : WriteVolume(t, n, b, v)
           \/ \E t \in Threads : LoadCapsule(t)
           \/ \E t \in Threads : StoreCapsule(t)
           \/ \E t \in Threads : StoreFails(t)
           \/ \E t \in Threads : InsertVolume(t)
           \/ \E t \in Threads : SwapCapsule(t)
           \/ \E t \in Threads, n \in Names : DeleteVolume(t, n)
           \/ \E t \in Threads : Persist(t)
           \/ \E t \in Threads : PersistFails(t)
           \/ \E t \in Threads : Reclaim(t)
           \/ Restart
BY DEF Next

LEMMA IdleType == IdleJob \in Job
BY BlockAssumption DEF IdleJob, Job

Pcs == {"idle", "load", "store", "insert", "swap", "persist", "reclaim"}
CapsuleIds == 1 .. MaxCapsules \cup {NoCapsule}

(* The assignments to a job keep its type.                                 *)
LEMMA JobSet ==
    ASSUME NEW j \in Job
    PROVE  /\ \A p \in Pcs : [j EXCEPT !.pc = p] \in Job
           /\ \A p \in Pcs, b \in Contents : [j EXCEPT !.pc = p, !.buffer = b] \in Job
           /\ \A p \in Pcs, c \in CapsuleIds : [j EXCEPT !.pc = p, !.new = c] \in Job
           /\ \A p \in Pcs, c \in CapsuleIds : [j EXCEPT !.pc = p, !.drop = c] \in Job
<1>1. ASSUME NEW p \in Pcs
      PROVE  [j EXCEPT !.pc = p] \in Job
    BY DEF Job, Pcs
<1>2. ASSUME NEW p \in Pcs, NEW b \in Contents
      PROVE  [j EXCEPT !.pc = p, !.buffer = b] \in Job
    BY DEF Job, Pcs
<1>3. ASSUME NEW p \in Pcs, NEW c \in CapsuleIds
      PROVE  [j EXCEPT !.pc = p, !.new = c] \in Job
    BY DEF Job, Pcs, CapsuleIds
<1>4. ASSUME NEW p \in Pcs, NEW c \in CapsuleIds
      PROVE  [j EXCEPT !.pc = p, !.drop = c] \in Job
    BY DEF Job, Pcs, CapsuleIds
<1> QED  BY <1>1, <1>2, <1>3, <1>4

(* Changing one volume keeps a volume map a volume map.                    *)
LEMMA MapSet ==
    ASSUME NEW m, VolumeMap(m), NEW n \in Names,
           NEW r \in [capsule : 1 .. MaxCapsules, version : 1 .. MaxVersion]
    PROVE  VolumeMap(Put(m, n, r)) /\ VolumeMap([m EXCEPT ![n] = r]) /\ VolumeMap(Remove(m, n))
<1> DEFINE R == [capsule : 1 .. MaxCapsules, version : 1 .. MaxVersion]
<1>1. VolumeMap(Put(m, n, r))
    BY DEF VolumeMap, Put
<1>2. VolumeMap([m EXCEPT ![n] = r])
    <2>1. DOMAIN [m EXCEPT ![n] = r] = DOMAIN m
        OBVIOUS
    <2>2. ASSUME NEW k \in DOMAIN m
          PROVE  [m EXCEPT ![n] = r][k] = IF k = n THEN r ELSE m[k]
        OBVIOUS
    <2> QED  BY <2>1, <2>2 DEF VolumeMap
<1>3. VolumeMap(Remove(m, n))
    BY DEF VolumeMap, Remove
<1> QED  BY <1>1, <1>2, <1>3

-----------------------------------------------------------------------------
(* Types.                                                                  *)

LEMMA TypeStep ==
    ASSUME TypeOK, \A t \in Threads : Prepared(t), [Next]_vars
    PROVE  TypeOK'
<1> USE BlockAssumption, IdleType DEF TypeOK, VolumeMap
<1>1. ASSUME NEW t \in Threads, NEW n \in Names, CreateVolume(t, n)
      PROVE  TypeOK'
    <2>1. [b \in Blocks |-> Zero] \in Contents
        BY DEF Contents
    <2>2. [IdleJob EXCEPT !.pc = "store", !.op = "create", !.name = n,
                          !.buffer = [b \in Blocks |-> Zero]] \in Job
        BY <2>1 DEF Job
    <2> QED  BY <1>1, <2>2 DEF CreateVolume
<1>2. ASSUME NEW t \in Threads, NEW n \in Names, NEW b \in Blocks, NEW v \in Values,
             WriteVolume(t, n, b, v)
      PROVE  TypeOK'
    <2>1. volumes[n].capsule \in 1 .. MaxCapsules /\ volumes[n].version \in 0 .. MaxVersion
        BY <1>2 DEF WriteVolume
    <2>2. [IdleJob EXCEPT !.pc = "load", !.op = "write", !.name = n, !.block = b, !.value = v,
                !.cap = volumes[n].capsule, !.version = volumes[n].version] \in Job
        BY <2>1 DEF Job
    <2> QED  BY <1>2, <2>2 DEF WriteVolume
<1>3. ASSUME NEW t \in Threads, LoadCapsule(t)
      PROVE  TypeOK'
    <2> DEFINE read == [capsules[job[t].cap] EXCEPT ![job[t].block] = job[t].value]
    <2>1. job[t].cap \in DOMAIN capsules => read \in Contents
        BY DEF Contents, Job
    <2>2. job[t].cap \in DOMAIN capsules => [job[t] EXCEPT !.pc = "store", !.buffer = read] \in Job
        <3> HIDE DEF read
        <3> QED  BY <2>1, JobSet DEF Pcs
    <2> QED  BY <1>3, <2>2 DEF LoadCapsule, Return
<1>4. ASSUME NEW t \in Threads, StoreCapsule(t)
      PROVE  TypeOK'
    <2> DEFINE pc == IF job[t].op = "create" THEN "insert" ELSE "swap"
    <2>1. next_capsule \in 1 .. MaxCapsules
        BY <1>4 DEF StoreCapsule
    <2>2. pc \in {"insert", "swap"}
        OBVIOUS
    <2>3. [job[t] EXCEPT !.pc = pc, !.new = next_capsule] \in Job
        <3> HIDE DEF pc
        <3> QED  BY <2>1, <2>2, JobSet DEF Pcs, CapsuleIds
    <2>4. job[t].buffer \in Contents
        BY <1>4 DEF StoreCapsule, At, Prepared
    <2> QED  BY <1>4, <2>1, <2>3, <2>4 DEF StoreCapsule, Put
<1>5. ASSUME NEW t \in Threads, StoreFails(t)
      PROVE  TypeOK'
    BY <1>5 DEF StoreFails, Fails, Return
<1>6. ASSUME NEW t \in Threads, InsertVolume(t)
      PROVE  TypeOK'
    <2>1. /\ [job[t] EXCEPT !.pc = "reclaim", !.drop = job[t].new] \in Job
          /\ [job[t] EXCEPT !.pc = "persist"] \in Job
        BY DEF Job
    <2>2. job[t].new \in 1 .. MaxCapsules /\ job[t].name \in Names
        <3>1. Prepared(t) /\ job[t].pc = "insert"
            BY <1>6 DEF InsertVolume, At
        <3> QED  BY <3>1 DEF Prepared
    <2>3. VolumeMap(volumes')
        <3>1. [capsule |-> job[t].new, version |-> 1]
                \in [capsule : 1 .. MaxCapsules, version : 1 .. MaxVersion]
            BY <2>2
        <3> QED  BY <1>6, <2>2, <3>1, MapSet DEF InsertVolume
    <2>4. job' \in [Threads -> Job]
        BY <1>6, <2>1 DEF InsertVolume, Goto
    <2> QED  BY <1>6, <2>3, <2>4 DEF InsertVolume
<1>7. ASSUME NEW t \in Threads, SwapCapsule(t)
      PROVE  TypeOK'
    <2>1. /\ [job[t] EXCEPT !.pc = "reclaim", !.drop = job[t].new] \in Job
          /\ [job[t] EXCEPT !.pc = "persist", !.drop = job[t].cap] \in Job
        BY DEF Job
    <2>2. job[t].new \in 1 .. MaxCapsules /\ job[t].name \in Names
        <3>1. Prepared(t) /\ job[t].pc = "swap"
            BY <1>7 DEF SwapCapsule, At
        <3> QED  BY <3>1 DEF Prepared
    <2>3. VolumeMap(volumes')
        <3> DEFINE r == [capsule |-> job[t].new,
                         version |-> NextVersion(volumes[job[t].name].version)]
        <3>1. CASE volumes' = volumes
            BY <3>1
        <3>2. CASE /\ job[t].name \in DOMAIN volumes
                   /\ volumes' = [volumes EXCEPT ![job[t].name] = r]
            <4>1. NextVersion(volumes[job[t].name].version) \in 1 .. MaxVersion
                BY <3>2 DEF NextVersion
            <4>2. r \in [capsule : 1 .. MaxCapsules, version : 1 .. MaxVersion]
                BY <2>2, <4>1
            <4> QED  BY <2>2, <3>2, <4>2, MapSet
        <3> QED  BY <1>7, <3>1, <3>2 DEF SwapCapsule
    <2>4. job' \in [Threads -> Job]
        BY <1>7, <2>1 DEF SwapCapsule, Return, AfterSwap
    <2> QED  BY <1>7, <2>3, <2>4 DEF SwapCapsule
<1>8. ASSUME NEW t \in Threads, NEW n \in Names, DeleteVolume(t, n)
      PROVE  TypeOK'
    <2>1. volumes[n].capsule \in 1 .. MaxCapsules
        BY <1>8 DEF DeleteVolume
    <2>2. [IdleJob EXCEPT !.pc = "persist", !.op = "delete", !.name = n,
                          !.drop = volumes[n].capsule] \in Job
        BY <2>1 DEF Job
    <2> QED  BY <1>8, <2>2 DEF DeleteVolume, Remove
<1>9. ASSUME NEW t \in Threads, Persist(t)
      PROVE  TypeOK'
    <2>1. [job[t] EXCEPT !.pc = "reclaim"] \in Job
        BY DEF Job
    <2> QED  BY <1>9, <2>1 DEF Persist, Return, Goto
<1>10. ASSUME NEW t \in Threads, PersistFails(t)
       PROVE  TypeOK'
    BY <1>10 DEF PersistFails, Fails, Return
<1>11. ASSUME NEW t \in Threads, Reclaim(t)
       PROVE  TypeOK'
    BY <1>11 DEF Reclaim, Fails, Return, Remove
<1>12. CASE Restart
    BY <1>12 DEF Restart
<1>13. CASE UNCHANGED vars
    BY <1>13 DEF vars
<1> QED  BY Steps, <1>1, <1>2, <1>3, <1>4, <1>5, <1>6, <1>7, <1>8, <1>9, <1>10, <1>11,
            <1>12, <1>13

-----------------------------------------------------------------------------
(* The inductive invariant.                                                *)

(* A call that does not move stays prepared while ids are not reused and   *)
(* its own capsule stays.                                                  *)
LEMMA PreparedFrame ==
    ASSUME NEW u \in Threads, Prepared(u), TypeOK, TypeOK',
           job'[u] = job[u], next_capsule <= next_capsule',
           \A c \in DOMAIN capsules' : c < next_capsule =>
               c \in DOMAIN capsules /\ capsules'[c] = capsules[c],
           Owned(u) \in DOMAIN capsules => Owned(u) \in DOMAIN capsules'
    PROVE  Prepared(u)'
<1>1. next_capsule \in Int /\ next_capsule' \in Int /\ DOMAIN capsules \subseteq 1 .. (next_capsule - 1)
    BY BlockAssumption DEF TypeOK
<1>2. ASSUME job[u].cap \in 1 .. (next_capsule - 1), job[u].cap \in DOMAIN capsules'
      PROVE  job[u].cap \in DOMAIN capsules /\ capsules'[job[u].cap] = capsules[job[u].cap]
    BY <1>1, <1>2
<1>3. ASSUME job[u].pc \in {"insert", "swap"}
      PROVE  job[u].new \in DOMAIN capsules' /\ capsules'[job[u].new] = job[u].buffer
    BY <1>1, <1>3 DEF Prepared, Owned
<1>4. job[u].cap \in 1 .. (next_capsule - 1) => job[u].cap \in 1 .. (next_capsule' - 1)
    BY <1>1
<1> QED  BY <1>2, <1>3, <1>4 DEF Prepared

(* The capsules that calls own; the actions change it at one call.         *)
LEMMA OwnedFrame ==
    ASSUME NEW u \in Threads, job'[u] = job[u]
    PROVE  Owned(u)' = Owned(u) /\ job'[u].pc = job[u].pc
BY DEF Owned

(* A call that has returned owns nothing.                                  *)
LEMMA ReturnFrame ==
    ASSUME NEW t \in Threads, TypeOK, Return(t)
    PROVE  /\ \A u \in Threads \ {t} : job'[u] = job[u]
           /\ Owned(t)' = NoCapsule
           /\ Prepared(t)'
<1>1. \A u \in Threads \ {t} : job'[u] = job[u]
    BY DEF TypeOK, Return
<1>2. job'[t] = IdleJob /\ IdleJob.pc = "idle"
    BY DEF TypeOK, Return, IdleJob
<1> QED  BY <1>1, <1>2 DEF Owned, Prepared

(* Nothing is deleted and no volume changes, calls own no more than before *)
(* and the saved map is as it was.                                         *)
LEMMA QuietExclusive ==
    ASSUME NEW t \in Threads, Exclusive, UNCHANGED <<volumes, volumes_file, next_capsule>>,
           \A u \in Threads \ {t} : job'[u] = job[u],
           Owned(t)' = NoCapsule
    PROVE  Exclusive'
<1>1. \A u \in Threads \ {t} : Owned(u)' = Owned(u) /\ job'[u].pc = job[u].pc
    BY OwnedFrame
<1> QED  BY <1>1 DEF Exclusive

LEMMA QuietPrepared ==
    ASSUME NEW t \in Threads, IndInv, TypeOK, TypeOK', UNCHANGED <<capsules, next_capsule>>,
           \A u \in Threads \ {t} : job'[u] = job[u]
    PROVE  \A u \in Threads \ {t} : Prepared(u)'
<1> TAKE u \in Threads \ {t}
<1>1. Prepared(u) /\ job'[u] = job[u]
    BY DEF IndInv
<1>2. next_capsule <= next_capsule'
    BY DEF TypeOK
<1> QED  BY <1>1, <1>2, PreparedFrame

LEMMA IndStep ==
    ASSUME TypeOK, TypeOK', IndInv, [Next]_vars
    PROVE  IndInv'
<1> USE DEF IndInv
<1>1. ASSUME NEW t \in Threads, NEW n \in Names, CreateVolume(t, n)
      PROVE  IndInv'
    <2>1. /\ \A u \in Threads \ {t} : job'[u] = job[u]
          /\ job'[t] = [IdleJob EXCEPT !.pc = "store", !.op = "create", !.name = n,
                                       !.buffer = [b \in Blocks |-> Zero]]
        BY <1>1 DEF CreateVolume, TypeOK
    <2>2. /\ job'[t].pc = "store" /\ job'[t].op = "create" /\ job'[t].name = n
          /\ job'[t].buffer = [b \in Blocks |-> Zero] /\ job'[t].drop = NoCapsule
        BY <2>1 DEF IdleJob
    <2>3. Exclusive'
        BY <1>1, <2>1, <2>2, QuietExclusive DEF CreateVolume, Owned
    <2>4. \A u \in Threads \ {t} : Prepared(u)'
        BY <1>1, <2>1, QuietPrepared DEF CreateVolume
    <2>5. Prepared(t)'
        BY <2>2, BlockAssumption DEF Prepared, Contents
    <2> QED  BY <1>1, <2>3, <2>4, <2>5 DEF CreateVolume, LiveMap
<1>2. ASSUME NEW t \in Threads, NEW n \in Names, NEW b \in Blocks, NEW v \in Values,
             WriteVolume(t, n, b, v)
      PROVE  IndInv'
    <2>1. /\ \A u \in Threads \ {t} : job'[u] = job[u]
          /\ job'[t] = [IdleJob EXCEPT !.pc = "load", !.op = "write", !.name = n, !.block = b,
                !.value = v, !.cap = volumes[n].capsule, !.version = volumes[n].version]
        BY <1>2 DEF WriteVolume, TypeOK
    <2>2. /\ job'[t].pc = "load" /\ job'[t].op = "write" /\ job'[t].name = n
          /\ job'[t].block = b /\ job'[t].cap = volumes[n].capsule
          /\ job'[t].drop = NoCapsule
        BY <2>1 DEF IdleJob
    <2>3. Exclusive'
        BY <1>2, <2>1, <2>2, QuietExclusive DEF WriteVolume, Owned
    <2>4. \A u \in Threads \ {t} : Prepared(u)'
        BY <1>2, <2>1, QuietPrepared DEF WriteVolume
    <2>5. Prepared(t)'
        <3>1. volumes[n].capsule \in 1 .. (next_capsule' - 1)
            BY <1>2 DEF WriteVolume, LiveMap, TypeOK
        <3> QED  BY <2>2, <3>1 DEF Prepared
    <2> QED  BY <1>2, <2>3, <2>4, <2>5 DEF WriteVolume, LiveMap
<1>3. ASSUME NEW t \in Threads, LoadCapsule(t)
      PROVE  IndInv'
    <2>1. CASE job[t].cap \in DOMAIN capsules
        <3> DEFINE read == [capsules[job[t].cap] EXCEPT ![job[t].block] = job[t].value]
        <3>1. /\ \A u \in Threads \ {t} : job'[u] = job[u]
              /\ job'[t] = [job[t] EXCEPT !.pc = "store", !.buffer = read]
            BY <1>3, <2>1 DEF LoadCapsule, TypeOK
        <3>2. /\ job'[t].pc = "store" /\ job'[t].buffer = read
              /\ job'[t].op = job[t].op /\ job'[t].name = job[t].name
              /\ job'[t].block = job[t].block /\ job'[t].cap = job[t].cap
              /\ job'[t].value = job[t].value /\ job'[t].drop = job[t].drop
            <4> HIDE DEF read
            <4>1. job[t] \in Job
                BY DEF TypeOK
            <4> QED  BY <3>1, <4>1 DEF Job
        <3>3. Exclusive'
            BY <1>3, <3>1, <3>2, QuietExclusive DEF LoadCapsule, Owned
        <3>4. \A u \in Threads \ {t} : Prepared(u)'
            BY <1>3, <3>1, QuietPrepared DEF LoadCapsule
        <3>5. Prepared(t)'
            <4>1. read \in Contents
                BY <2>1 DEF TypeOK, Job, Contents
            <4>2. Prepared(t) /\ job[t].pc = "load" /\ UNCHANGED <<capsules, next_capsule>>
                BY <1>3 DEF LoadCapsule, At
            <4> QED  BY <3>2, <4>1, <4>2 DEF Prepared
        <3> QED  BY <1>3, <3>3, <3>4, <3>5 DEF LoadCapsule, LiveMap
    <2>2. CASE job[t].cap \notin DOMAIN capsules
        <3>1. Return(t)
            BY <1>3, <2>2 DEF LoadCapsule
        <3>2. \A u \in Threads \ {t} : Prepared(u)'
            BY <1>3, <3>1, ReturnFrame, QuietPrepared DEF LoadCapsule
        <3> QED  BY <1>3, <3>1, <3>2, ReturnFrame, QuietExclusive DEF LoadCapsule, LiveMap
    <2> QED  BY <2>1, <2>2
<1>4. ASSUME NEW t \in Threads, StoreCapsule(t)
      PROVE  IndInv'
    <2> DEFINE pc == IF job[t].op = "create" THEN "insert" ELSE "swap"
    <2>1. /\ \A u \in Threads \ {t} : job'[u] = job[u]
          /\ job'[t] = [job[t] EXCEPT !.pc = pc, !.new = next_capsule]
        BY <1>4 DEF StoreCapsule, TypeOK
    <2>2. /\ job'[t].pc = pc /\ job'[t].new = next_capsule
          /\ job'[t].op = job[t].op /\ job'[t].name = job[t].name
          /\ job'[t].block = job[t].block /\ job'[t].cap = job[t].cap
          /\ job'[t].value = job[t].value /\ job'[t].buffer = job[t].buffer
          /\ job'[t].drop = job[t].drop
        <3> HIDE DEF pc
        <3>1. job[t] \in Job
            BY DEF TypeOK
        <3> QED  BY <2>1, <3>1 DEF Job
    <2>3. \/ pc = "insert" /\ job[t].op = "create"
          \/ pc = "swap" /\ job[t].op = "write"
        BY <1>4 DEF StoreCapsule, At, Prepared
    <2> HIDE DEF pc
    <2>4. /\ next_capsule' = next_capsule + 1 /\ next_capsule \in Nat
          /\ next_capsule # NoCapsule
          /\ DOMAIN capsules \subseteq 1 .. (next_capsule - 1)
          /\ DOMAIN capsules' = DOMAIN capsules \cup {next_capsule}
          /\ \A c \in DOMAIN capsules : capsules'[c] = capsules[c]
          /\ capsules'[next_capsule] = job[t].buffer
        BY <1>4, BlockAssumption DEF StoreCapsule, Put, TypeOK
    <2>5. Owned(t)' = next_capsule
        BY <2>2, <2>3 DEF Owned
    <2>6. \A u \in Threads \ {t} : Owned(u)' = Owned(u) /\ job'[u].pc = job[u].pc
        BY <2>1, OwnedFrame
    <2>7. /\ \A n \in DOMAIN volumes : volumes[n].capsule < next_capsule
          /\ \A n \in DOMAIN volumes_file : volumes_file[n].capsule < next_capsule
        BY <2>4 DEF LiveMap
    <2>8. Exclusive'
        <3> SUFFICES ASSUME NEW u \in Threads, Owned(u)' # NoCapsule
                     PROVE  /\ Owned(u)' < next_capsule'
                            /\ \A n \in DOMAIN volumes : volumes[n].capsule # Owned(u)'
                            /\ \A w \in Threads \ {u} : Owned(w)' # Owned(u)'
                            /\ job'[u].pc # "persist" =>
                                \A n \in DOMAIN volumes_file :
                                    volumes_file[n].capsule # Owned(u)'
            BY <1>4 DEF Exclusive, StoreCapsule
        <3>1. CASE u = t
            BY <3>1, <2>4, <2>5, <2>6, <2>7 DEF Exclusive
        <3>2. CASE u # t
            <4>1. Owned(u) < next_capsule /\ Owned(u) # next_capsule
                BY <3>2, <2>4, <2>6 DEF Exclusive
            <4>2. Owned(u) < next_capsule + 1
                <5>1. Owned(u) \in Int
                    BY <3>2, <2>6 DEF Owned, TypeOK, Job
                <5> QED  BY <4>1, <5>1, <2>4
            <4> QED  BY <3>2, <4>1, <4>2, <2>4, <2>5, <2>6 DEF Exclusive
        <3> QED  BY <3>1, <3>2
    <2>9. \A u \in Threads \ {t} : Prepared(u)'
        <3> TAKE u \in Threads \ {t}
        <3>1. Prepared(u) /\ job'[u] = job[u] /\ next_capsule <= next_capsule'
            BY <2>1, <2>4
        <3>2. \A c \in DOMAIN capsules' : c < next_capsule =>
                  c \in DOMAIN capsules /\ capsules'[c] = capsules[c]
            BY <2>4
        <3> QED  BY <2>4, <3>1, <3>2, PreparedFrame
    <2>10. Prepared(t)'
        <3>1. Prepared(t) /\ job[t].pc = "store"
            BY <1>4 DEF StoreCapsule, At
        <3>2. job[t].op = "write" => job[t].cap \in 1 .. (next_capsule - 1)
            BY <3>1 DEF Prepared
        <3>3. job[t].op = "write" /\ job[t].cap \in DOMAIN capsules' =>
                  job[t].cap \in DOMAIN capsules /\ capsules'[job[t].cap] = capsules[job[t].cap]
            BY <3>2, <2>4
        <3>4. job[t].op = "write" => job[t].cap \in 1 .. (next_capsule' - 1)
            BY <3>2, <2>4
        <3> QED  BY <2>2, <2>3, <2>4, <3>1, <3>3, <3>4 DEF Prepared
    <2>11. LiveMap(volumes)' /\ LiveMap(volumes_file)'
        BY <1>4, <2>4 DEF StoreCapsule, LiveMap
    <2> QED  BY <2>8, <2>9, <2>10, <2>11
<1>5. ASSUME NEW t \in Threads, StoreFails(t) \/ PersistFails(t)
      PROVE  IndInv'
    <2>1. Return(t) /\ UNCHANGED <<volumes, volumes_file, capsules, next_capsule>>
        BY <1>5 DEF StoreFails, PersistFails
    <2>2. \A u \in Threads \ {t} : Prepared(u)'
        BY <2>1, ReturnFrame, QuietPrepared
    <2> QED  BY <2>1, <2>2, ReturnFrame, QuietExclusive DEF LiveMap
<1>6. ASSUME NEW t \in Threads, InsertVolume(t)
      PROVE  IndInv'
    <2> DEFINE n == job[t].name
    <2>1. /\ Prepared(t) /\ job[t].pc = "insert" /\ job[t] \in Job
          /\ UNCHANGED <<volumes_file, capsules, next_capsule>>
        BY <1>6 DEF InsertVolume, At, TypeOK
    <2>2. \A u \in Threads \ {t} : job'[u] = job[u]
        BY <1>6 DEF InsertVolume, Goto, TypeOK
    <2>3. \A u \in Threads \ {t} : Owned(u)' = Owned(u) /\ job'[u].pc = job[u].pc
        BY <2>2, OwnedFrame
    <2>4. \A u \in Threads \ {t} : Prepared(u)'
        BY <2>1, <2>2, QuietPrepared
    <2>5. Owned(t) = job[t].new /\ job[t].new \in DOMAIN capsules /\ job[t].drop = NoCapsule
        BY <2>1 DEF Owned, Prepared
    <2>6. CASE n \in DOMAIN volumes
        <3>1. UNCHANGED volumes
            BY <1>6, <2>6 DEF InsertVolume
        <3>2. job'[t] = [job[t] EXCEPT !.pc = "reclaim", !.drop = job[t].new]
            BY <1>6, <2>6 DEF InsertVolume, TypeOK
        <3>3. job'[t].pc = "reclaim" /\ job'[t].drop = job[t].new /\ job'[t].name = job[t].name
            BY <2>1, <3>2 DEF Job
        <3>4. Owned(t)' = Owned(t)
            BY <2>5, <3>3 DEF Owned
        <3>5. Exclusive'
            BY <2>1, <2>3, <3>1, <3>3, <3>4 DEF Exclusive
        <3>6. Prepared(t)'
            BY <2>1, <3>3 DEF Prepared
        <3> QED  BY <2>1, <2>4, <3>1, <3>5, <3>6 DEF LiveMap
    <2>7. CASE n \notin DOMAIN volumes
        <3>1. volumes' = Put(volumes, n, [capsule |-> job[t].new, version |-> 1])
            BY <1>6, <2>7 DEF InsertVolume
        <3>2. /\ DOMAIN volumes' = DOMAIN volumes \cup {n}
              /\ volumes'[n].capsule = job[t].new
              /\ \A k \in DOMAIN volumes : volumes'[k] = volumes[k]
            BY <2>7, <3>1 DEF Put
        <3>3. job'[t] = [job[t] EXCEPT !.pc = "persist"]
            BY <1>6, <2>7 DEF InsertVolume, Goto, TypeOK
        <3>4. job'[t].pc = "persist" /\ job'[t].drop = NoCapsule /\ job'[t].name = job[t].name
            BY <2>1, <2>5, <3>3 DEF Job
        <3>5. Owned(t)' = NoCapsule
            BY <3>4 DEF Owned
        <3>6. Exclusive'
            BY <2>1, <2>3, <2>5, <3>2, <3>5, BlockAssumption DEF Exclusive
        <3>7. Prepared(t)'
            BY <2>1, <3>4 DEF Prepared
        <3>8. LiveMap(volumes)' /\ LiveMap(volumes_file)'
            <4>1. job[t].new # NoCapsule
                BY <2>5, BlockAssumption DEF TypeOK
            <4>2. \A k \in DOMAIN volumes : volumes[k].capsule # job[t].new
                BY <2>5, <4>1 DEF Exclusive
            <4> QED  BY <2>1, <2>5, <2>7, <3>2, <4>2 DEF LiveMap
        <3> QED  BY <2>4, <3>6, <3>7, <3>8
    <2> QED  BY <2>6, <2>7
<1>7. ASSUME NEW t \in Threads, SwapCapsule(t)
      PROVE  IndInv'
    <2> DEFINE n == job[t].name
    <2>1. /\ Prepared(t) /\ job[t].pc = "swap" /\ job[t] \in Job
          /\ UNCHANGED <<volumes_file, capsules, next_capsule>>
        BY <1>7 DEF SwapCapsule, At, TypeOK
    <2>2. \A u \in Threads \ {t} : job'[u] = job[u]
        BY <1>7 DEF SwapCapsule, Return, TypeOK
    <2>3. \A u \in Threads \ {t} : Owned(u)' = Owned(u) /\ job'[u].pc = job[u].pc
        BY <2>2, OwnedFrame
    <2>4. \A u \in Threads \ {t} : Prepared(u)'
        BY <2>1, <2>2, QuietPrepared
    <2>5. /\ Owned(t) = job[t].new /\ job[t].new \in DOMAIN capsules
          /\ job[t].cap \in 1 .. (next_capsule - 1)
        BY <2>1 DEF Owned, Prepared
    <2>6. CASE n \notin DOMAIN volumes
        BY <1>7, <2>1, <2>4, <2>6, ReturnFrame, QuietExclusive DEF SwapCapsule, LiveMap
    <2>7. CASE n \in DOMAIN volumes /\ Conflict(t)
        <3>1. UNCHANGED volumes
            BY <1>7, <2>7 DEF SwapCapsule
        <3>2. job'[t] = [job[t] EXCEPT !.pc = "reclaim", !.drop = job[t].new]
            BY <1>7, <2>7 DEF SwapCapsule, TypeOK
        <3>3. job'[t].pc = "reclaim" /\ job'[t].drop = job[t].new /\ job'[t].name = job[t].name
            BY <2>1, <3>2 DEF Job
        <3>4. Owned(t)' = Owned(t)
            BY <2>5, <3>3 DEF Owned
        <3>5. Exclusive'
            BY <2>1, <2>3, <3>1, <3>3, <3>4 DEF Exclusive
        <3>6. Prepared(t)'
            BY <2>1, <3>3 DEF Prepared
        <3> QED  BY <2>1, <2>4, <3>1, <3>5, <3>6 DEF LiveMap
    <2>8. CASE n \in DOMAIN volumes /\ ~Conflict(t)
        <3>1. /\ DOMAIN volumes' = DOMAIN volumes
              /\ volumes'[n].capsule = job[t].new
              /\ \A k \in DOMAIN volumes : k # n => volumes'[k] = volumes[k]
            BY <1>7, <2>8 DEF SwapCapsule
        <3>2. job'[t] = [job[t] EXCEPT !.pc = "persist", !.drop = job[t].cap]
            BY <1>7, <2>8 DEF SwapCapsule, AfterSwap, TypeOK
        <3>3. job'[t].pc = "persist" /\ job'[t].drop = job[t].cap /\ job'[t].name = job[t].name
            BY <2>1, <3>2 DEF Job
        <3>4. Owned(t)' = job[t].cap /\ volumes[n].capsule = job[t].cap
            BY <2>8, <3>3 DEF Owned, Conflict
        <3>5. job[t].new # NoCapsule
            BY <2>5, BlockAssumption DEF TypeOK
        <3>6. \A k \in DOMAIN volumes : volumes[k].capsule # job[t].new
            BY <2>5, <3>5 DEF Exclusive
        <3>7. \A u \in Threads \ {t} : Owned(u) # NoCapsule =>
                  Owned(u) # job[t].cap /\ Owned(u) # job[t].new
            BY <2>5, <2>8, <3>4, <3>5 DEF Exclusive
        <3>8. \A k \in DOMAIN volumes : volumes'[k].capsule # job[t].cap
            BY <2>8, <3>1, <3>4, <3>6 DEF LiveMap
        <3>9. Exclusive'
            <4> SUFFICES ASSUME NEW u \in Threads, Owned(u)' # NoCapsule
                         PROVE  /\ Owned(u)' < next_capsule'
                                /\ \A k \in DOMAIN volumes' : volumes'[k].capsule # Owned(u)'
                                /\ \A w \in Threads \ {u} : Owned(w)' # Owned(u)'
                                /\ job'[u].pc # "persist" =>
                                    \A k \in DOMAIN volumes_file' :
                                        volumes_file'[k].capsule # Owned(u)'
                BY DEF Exclusive
            <4>1. CASE u = t
                <5>1. job[t].cap < next_capsule
                    BY <2>5 DEF TypeOK
                <5>2. \A w \in Threads \ {t} : Owned(w) # job[t].cap
                    BY <3>4, <3>7, <4>1
                <5> QED  BY <2>1, <2>3, <3>1, <3>3, <3>4, <3>8, <4>1, <5>1, <5>2
            <4>2. CASE u # t
                BY <2>1, <2>3, <3>1, <3>4, <3>7, <4>2 DEF Exclusive
            <4> QED  BY <4>1, <4>2
        <3>10. Prepared(t)'
            BY <2>1, <3>3 DEF Prepared
        <3>11. LiveMap(volumes)' /\ LiveMap(volumes_file)'
            BY <2>1, <2>5, <3>1, <3>6 DEF LiveMap
        <3> QED  BY <2>4, <3>9, <3>10, <3>11
    <2> QED  BY <2>6, <2>7, <2>8
<1>8. ASSUME NEW t \in Threads, NEW n \in Names, DeleteVolume(t, n)
      PROVE  IndInv'
    <2> DEFINE c == volumes[n].capsule
    <2>1. n \in DOMAIN volumes /\ UNCHANGED <<volumes_file, capsules, next_capsule>>
        BY <1>8 DEF DeleteVolume
    <2>2. /\ \A u \in Threads \ {t} : job'[u] = job[u]
          /\ job'[t] = [IdleJob EXCEPT !.pc = "persist", !.op = "delete", !.name = n,
                                       !.drop = volumes[n].capsule]
        BY <1>8 DEF DeleteVolume, TypeOK
    <2>3. job'[t].pc = "persist" /\ job'[t].drop = c /\ job'[t].name = n
        BY <2>2 DEF IdleJob
    <2>4. \A u \in Threads \ {t} : Owned(u)' = Owned(u) /\ job'[u].pc = job[u].pc
        BY <2>2, OwnedFrame
    <2>5. \A u \in Threads \ {t} : Prepared(u)'
        BY <2>1, <2>2, QuietPrepared
    <2>6. Prepared(t)'
        BY <2>3 DEF Prepared
    <2>7. /\ DOMAIN volumes' = DOMAIN volumes \ {n}
          /\ \A k \in DOMAIN volumes' : volumes'[k] = volumes[k]
        BY <1>8 DEF DeleteVolume, Remove
    <2>8. Owned(t)' = c
        BY <2>3 DEF Owned
    <2>9. c \in DOMAIN capsules /\ c < next_capsule
        BY <2>1 DEF LiveMap, TypeOK
    <2>10. Exclusive'
        <3> SUFFICES ASSUME NEW u \in Threads, Owned(u)' # NoCapsule
                     PROVE  /\ Owned(u)' < next_capsule'
                            /\ \A k \in DOMAIN volumes' : volumes'[k].capsule # Owned(u)'
                            /\ \A w \in Threads \ {u} : Owned(w)' # Owned(u)'
                            /\ job'[u].pc # "persist" =>
                                \A k \in DOMAIN volumes_file' :
                                    volumes_file'[k].capsule # Owned(u)'
            BY DEF Exclusive
        <3>1. CASE u = t
            <4>1. \A k \in DOMAIN volumes' : volumes'[k].capsule # c
                BY <2>1, <2>7 DEF LiveMap
            <4>2. \A w \in Threads \ {t} : Owned(w) # c
                BY <2>1, <2>8, <3>1 DEF Exclusive
            <4> QED  BY <2>1, <2>3, <2>4, <2>8, <2>9, <3>1, <4>1, <4>2
        <3>2. CASE u # t
            BY <2>1, <2>4, <2>7, <2>8, <3>2 DEF Exclusive
        <3> QED  BY <3>1, <3>2
    <2>11. LiveMap(volumes)' /\ LiveMap(volumes_file)'
        BY <2>1, <2>7 DEF LiveMap
    <2> QED  BY <2>5, <2>6, <2>10, <2>11
<1>9. ASSUME NEW t \in Threads, Persist(t)
      PROVE  IndInv'
    <2>1. /\ Prepared(t) /\ job[t].pc = "persist" /\ job[t] \in Job
          /\ volumes_file' = volumes /\ UNCHANGED <<volumes, capsules, next_capsule>>
        BY <1>9 DEF Persist, At, TypeOK
    <2>2. \A u \in Threads \ {t} : job'[u] = job[u]
        BY <1>9 DEF Persist, Return, Goto, TypeOK
    <2>3. \A u \in Threads \ {t} : Owned(u)' = Owned(u) /\ job'[u].pc = job[u].pc
        BY <2>2, OwnedFrame
    <2>4. \A u \in Threads \ {t} : Prepared(u)'
        BY <2>1, <2>2, QuietPrepared
    <2>5. Owned(t)' \in {NoCapsule, Owned(t)} /\ Prepared(t)'
        <3>1. CASE job[t].drop = NoCapsule
            BY <1>9, <3>1, ReturnFrame DEF Persist
        <3>2. CASE job[t].drop # NoCapsule
            <4>1. job'[t] = [job[t] EXCEPT !.pc = "reclaim"]
                BY <1>9, <3>2 DEF Persist, Goto, TypeOK
            <4>2. job'[t].pc = "reclaim" /\ job'[t].drop = job[t].drop /\ job'[t].name = job[t].name
                BY <2>1, <4>1 DEF Job
            <4> QED  BY <2>1, <4>2 DEF Owned, Prepared
        <3> QED  BY <3>1, <3>2
    <2>6. Exclusive'
        BY <2>1, <2>3, <2>5 DEF Exclusive
    <2>7. LiveMap(volumes)' /\ LiveMap(volumes_file)'
        BY <2>1 DEF LiveMap
    <2> QED  BY <2>4, <2>5, <2>6, <2>7
<1>10. ASSUME NEW t \in Threads, Reclaim(t)
       PROVE  IndInv'
    <2>1. /\ job[t].pc = "reclaim" /\ Return(t)
          /\ UNCHANGED <<volumes, volumes_file, next_capsule>>
        BY <1>10 DEF Reclaim, At
    <2>2. Owned(t) = job[t].drop
        BY <2>1 DEF Owned
    <2>3. Exclusive'
        BY <2>1, ReturnFrame, QuietExclusive
    <2>4. /\ DOMAIN capsules \ {Owned(t)} \subseteq DOMAIN capsules'
          /\ DOMAIN capsules' \subseteq DOMAIN capsules
          /\ \A c \in DOMAIN capsules' : capsules'[c] = capsules[c]
        BY <1>10, <2>2 DEF Reclaim, Remove
    <2>5. NoCapsule \notin DOMAIN capsules
        BY BlockAssumption DEF TypeOK
    <2>6. \A u \in Threads \ {t} : Prepared(u)'
        <3> TAKE u \in Threads \ {t}
        <3>1. Prepared(u) /\ job'[u] = job[u] /\ next_capsule <= next_capsule'
            BY <2>1, ReturnFrame DEF TypeOK
        <3>2. Owned(u) \in DOMAIN capsules => Owned(u) \in DOMAIN capsules'
            BY <2>4, <2>5 DEF Exclusive
        <3> QED  BY <2>4, <3>1, <3>2, PreparedFrame
    <2>7. Prepared(t)'
        BY <2>1, ReturnFrame
    <2>8. LiveMap(volumes)' /\ LiveMap(volumes_file)'
        BY <2>1, <2>4, <2>5 DEF LiveMap, Exclusive
    <2> QED  BY <2>3, <2>6, <2>7, <2>8
<1>11. CASE Restart
    <2>1. \A t \in Threads : job'[t] = IdleJob
        BY <1>11 DEF Restart
    <2>2. \A t \in Threads : Owned(t)' = NoCapsule /\ Prepared(t)'
        BY <2>1 DEF Owned, Prepared, IdleJob
    <2>3. Exclusive'
        BY <2>2 DEF Exclusive
    <2> QED  BY <1>11, <2>2, <2>3 DEF Restart, LiveMap
<1>12. CASE UNCHANGED vars
    BY <1>12 DEF vars, Exclusive, Owned, LiveMap, Prepared
<1> QED  BY Steps, <1>1, <1>2, <1>3, <1>4, <1>5, <1>6, <1>7, <1>8, <1>9, <1>10, <1>11, <1>12

-----------------------------------------------------------------------------
LEMMA InitInv == Init => TypeOK /\ IndInv
<1> SUFFICES ASSUME Init
             PROVE  TypeOK /\ IndInv
    OBVIOUS
<1>1. \A t \in Threads : job[t] = IdleJob
    BY DEF Init
<1>2. TypeOK
    BY BlockAssumption, IdleType DEF Init, TypeOK, VolumeMap, Empty
<1>3. \A t \in Threads : Owned(t) = NoCapsule /\ Prepared(t)
    BY <1>1 DEF IdleJob, Owned, Prepared
<1> QED  BY <1>2, <1>3 DEF IndInv, Exclusive, LiveMap, Init, Empty

(* Every field of the view keeps its type, and the inductive invariant     *)
(* holds: the capsule a call has stored or has to delete is its own, each  *)
(* volume in memory or in the saved file has a live capsule of its own,    *)
(* and what a call is about to put in place is what it read with its own   *)
(* change.                                                                 *)
THEOREM BlockInvariant == Spec => [](TypeOK /\ IndInv)
<1>1. TypeOK /\ IndInv /\ [Next]_vars => TypeOK' /\ IndInv'
    <2> SUFFICES ASSUME TypeOK, IndInv, [Next]_vars
                 PROVE  TypeOK' /\ IndInv'
        OBVIOUS
    <2>1. TypeOK'
        BY TypeStep DEF IndInv
    <2> QED  BY <2>1, IndStep
<1> QED  BY InitInv, <1>1, PTL DEF Spec

(* The volume map in memory differs from the saved one only while a call   *)
(* has still to save it, until a save fails.                               *)
SaveDue == fails = MaxFails => volumes_file = volumes \/ \E t \in Threads : At(t, "persist")

(* When every call has returned and no save failed, the saved map is the   *)
(* map in memory.                                                          *)
THEOREM BlockDurable == Spec => []Durable
<1>1. Init => SaveDue
    BY DEF Init, SaveDue
<1>2. TypeOK /\ SaveDue /\ [Next]_vars => SaveDue'
    <2> SUFFICES ASSUME TypeOK, SaveDue, [Next]_vars
                 PROVE  SaveDue'
        OBVIOUS
    <2> USE DEF SaveDue, At, TypeOK
    <2>1. ASSUME NEW t \in Threads, NEW n \in Names,
                 CreateVolume(t, n) \/ \E b \in Blocks, v \in Values : WriteVolume(t, n, b, v)
          PROVE  SaveDue'
        BY <2>1 DEF CreateVolume, WriteVolume, Start
    <2>2. ASSUME NEW t \in Threads, LoadCapsule(t) \/ StoreCapsule(t)
          PROVE  SaveDue'
        <3>1. /\ job[t].pc \in {"load", "store"}
              /\ \A u \in Threads \ {t} : job'[u] = job[u]
              /\ UNCHANGED <<volumes, volumes_file, fails>>
            BY <2>2 DEF LoadCapsule, StoreCapsule, Return
        <3> QED  BY <3>1
    <2>3. ASSUME NEW t \in Threads, StoreFails(t) \/ PersistFails(t)
          PROVE  SaveDue'
        BY <2>3, BlockAssumption DEF StoreFails, PersistFails, Fails
    <2>4. ASSUME NEW t \in Threads, InsertVolume(t) \/ SwapCapsule(t)
          PROVE  SaveDue'
        <3>1. /\ job[t].pc \in {"insert", "swap"} /\ job[t] \in Job
              /\ \A u \in Threads \ {t} : job'[u] = job[u]
              /\ UNCHANGED <<volumes_file, fails>>
            BY <2>4 DEF InsertVolume, SwapCapsule, Return, Goto
        <3>2. \/ UNCHANGED volumes
              \/ job'[t] = [job[t] EXCEPT !.pc = "persist"]
              \/ job'[t] = [job[t] EXCEPT !.pc = "persist", !.drop = job[t].cap]
            BY <2>4 DEF InsertVolume, SwapCapsule, Goto, AfterSwap
        <3>3. UNCHANGED volumes \/ job'[t].pc = "persist"
            BY <3>1, <3>2 DEF Job
        <3> QED  BY <3>1, <3>3
    <2>5. ASSUME NEW t \in Threads, NEW n \in Names, DeleteVolume(t, n)
          PROVE  SaveDue'
        <3>1. job'[t].pc = "persist"
            BY <2>5 DEF DeleteVolume, IdleJob
        <3> QED  BY <3>1
    <2>6. ASSUME NEW t \in Threads, Persist(t)
          PROVE  SaveDue'
        BY <2>6 DEF Persist
    <2>7. ASSUME NEW t \in Threads, Reclaim(t)
          PROVE  SaveDue'
        <3>1. /\ job[t].pc = "reclaim" /\ \A u \in Threads \ {t} : job'[u] = job[u]
              /\ UNCHANGED <<volumes, volumes_file>>
              /\ fails' = MaxFails => fails = MaxFails
            BY <2>7, BlockAssumption DEF Reclaim, Return, Fails
        <3> QED  BY <3>1
    <2>8. CASE Restart
        BY <2>8 DEF Restart
    <2>9. CASE UNCHANGED vars
        BY <2>9 DEF vars
    <2> QED  BY Steps, <2>1, <2>2, <2>3, <2>4, <2>5, <2>6, <2>7, <2>8, <2>9
<1>3. SaveDue => Durable
    BY DEF SaveDue, Durable, AllIdle, At
<1> QED  BY <1>1, <1>2, <1>3, BlockInvariant, PTL DEF Spec

-----------------------------------------------------------------------------
(* The refinement: readers see the contents of the volumes' capsules.      *)

Vol == [n \in Names |-> ContentOf(volumes, n)]
Saved == [n \in Names |-> ContentOf(volumes_file, n)]

(* A live volume shows the contents of its capsule, and no volume Absent.  *)
LEMMA LiveContent ==
    ASSUME TypeOK, NEW m, LiveMap(m), NEW n \in DOMAIN m
    PROVE  /\ ContentOf(m, n) = capsules[m[n].capsule]
           /\ ContentOf(m, n) \in Contents /\ ContentOf(m, n) # Absent
BY BlockAssumption DEF LiveMap, ContentOf, TypeOK, Contents

(* What readers of a map see stays while its capsules do.                  *)
LEMMA KeptContent ==
    ASSUME NEW m, LiveMap(m), NEW n,
           \A k \in DOMAIN m : /\ m[k].capsule \in DOMAIN capsules'
                               /\ capsules'[m[k].capsule] = capsules[m[k].capsule]
    PROVE  (IF n \notin DOMAIN m THEN Absent
            ELSE IF m[n].capsule \in DOMAIN capsules' THEN capsules'[m[n].capsule] ELSE Lost)
           = ContentOf(m, n)
BY DEF LiveMap, ContentOf

LEMMA KeptVolumes ==
    ASSUME IndInv, UNCHANGED volumes,
           \A k \in DOMAIN volumes :
               /\ volumes[k].capsule \in DOMAIN capsules'
               /\ capsules'[volumes[k].capsule] = capsules[volumes[k].capsule]
    PROVE  Vol' = Vol
BY KeptContent DEF Vol, ContentOf, IndInv

LEMMA KeptSaved ==
    ASSUME IndInv, UNCHANGED volumes_file,
           \A k \in DOMAIN volumes_file :
               /\ volumes_file[k].capsule \in DOMAIN capsules'
               /\ capsules'[volumes_file[k].capsule] = capsules[volumes_file[k].capsule]
    PROVE  Saved' = Saved
BY KeptContent DEF Saved, ContentOf, IndInv

LEMMA AbstractStep ==
    ASSUME TypeOK, IndInv, [Next]_vars
    PROVE  Abstract!Next \/ (UNCHANGED <<Vol, Saved>>)
<1>1. ASSUME UNCHANGED <<volumes, volumes_file, capsules>>
      PROVE  UNCHANGED <<Vol, Saved>>
    BY <1>1, KeptVolumes, KeptSaved DEF IndInv, LiveMap
<1>2. ASSUME NEW t \in Threads, StoreCapsule(t)
      PROVE  UNCHANGED <<Vol, Saved>>
    <2>1. /\ DOMAIN capsules \subseteq DOMAIN capsules'
          /\ \A c \in DOMAIN capsules : capsules'[c] = capsules[c]
          /\ UNCHANGED <<volumes, volumes_file>>
        BY <1>2 DEF StoreCapsule, Put, TypeOK
    <2> QED  BY <2>1, KeptVolumes, KeptSaved DEF IndInv, LiveMap
<1>3. ASSUME NEW t \in Threads, Reclaim(t)
      PROVE  UNCHANGED <<Vol, Saved>>
    <2>1. Owned(t) = job[t].drop /\ job[t].pc # "persist"
        BY <1>3 DEF Reclaim, At, Owned
    <2>2. /\ DOMAIN capsules \ {Owned(t)} \subseteq DOMAIN capsules'
          /\ \A c \in DOMAIN capsules' : capsules'[c] = capsules[c]
          /\ UNCHANGED <<volumes, volumes_file>>
        BY <1>3, <2>1 DEF Reclaim, Remove
    <2>3. NoCapsule \notin DOMAIN capsules
        BY BlockAssumption DEF TypeOK
    <2>4. /\ \A k \in DOMAIN volumes : volumes[k].capsule \in DOMAIN capsules'
          /\ \A k \in DOMAIN volumes_file : volumes_file[k].capsule \in DOMAIN capsules'
        BY <2>1, <2>2, <2>3 DEF IndInv, LiveMap, Exclusive
    <2> QED  BY <2>2, <2>4, KeptVolumes, KeptSaved
<1>4. ASSUME NEW t \in Threads, InsertVolume(t), job[t].name \notin DOMAIN volumes
      PROVE  Abstract!Create(job[t].name)
    <2> DEFINE zeroed == [b \in Blocks |-> Zero]
    <2>1. /\ Prepared(t) /\ job[t].pc = "insert" /\ job[t].name \in Names
          /\ UNCHANGED <<volumes_file, capsules>>
        BY <1>4 DEF InsertVolume, At, IndInv, Prepared
    <2>n. PICK n \in Names : n = job[t].name
        BY <2>1
    <2>2. job[t].new \in DOMAIN capsules /\ capsules[job[t].new] = zeroed
        BY <2>1 DEF Prepared
    <2>3. /\ DOMAIN volumes' = DOMAIN volumes \cup {n} /\ volumes'[n].capsule = job[t].new
          /\ \A k \in DOMAIN volumes : volumes'[k] = volumes[k]
        BY <1>4, <2>n DEF InsertVolume, Put
    <2>4. Vol' = [Vol EXCEPT ![n] = zeroed]
        <3>1. \A k \in Names \ {n} : ContentOf(volumes, k)' = ContentOf(volumes, k)
            BY <2>1, <2>3 DEF ContentOf
        <3>2. ContentOf(volumes, n)' = zeroed
            BY <2>1, <2>2, <2>3 DEF ContentOf
        <3> QED  BY <2>1, <3>1, <3>2 DEF Vol
    <2>5. Vol[n] = Absent
        BY <1>4, <2>n DEF Vol, ContentOf
    <2>6. UNCHANGED Saved
        BY <2>1, KeptSaved DEF IndInv, LiveMap
    <2> QED  BY <2>n, <2>4, <2>5, <2>6 DEF Abstract!Create, Vol, Saved
<1>5. ASSUME NEW t \in Threads, SwapCapsule(t), job[t].name \in DOMAIN volumes, ~Conflict(t)
      PROVE  Abstract!Write(job[t].name, job[t].block, job[t].value)
    <2>1. /\ Prepared(t) /\ job[t].pc = "swap" /\ job[t].name \in Names
          /\ UNCHANGED <<volumes_file, capsules>>
        BY <1>5 DEF SwapCapsule, At, IndInv, Prepared
    <2>n. PICK n \in Names : n = job[t].name
        BY <2>1
    <2>2. volumes[n].capsule = job[t].cap /\ job[t].cap \in DOMAIN capsules
        BY <1>5, <2>n DEF Conflict, IndInv, LiveMap
    <2>3. /\ job[t].new \in DOMAIN capsules
          /\ capsules[job[t].new] = [capsules[job[t].cap] EXCEPT ![job[t].block] = job[t].value]
        BY <2>1, <2>2 DEF Prepared
    <2>4. /\ DOMAIN volumes' = DOMAIN volumes /\ volumes'[n].capsule = job[t].new
          /\ \A k \in DOMAIN volumes : k # n => volumes'[k] = volumes[k]
        BY <1>5, <2>n DEF SwapCapsule
    <2>5. Vol[n] = capsules[job[t].cap] /\ Vol[n] # Absent
        BY <1>5, <2>n, <2>2, LiveContent DEF Vol, IndInv
    <2>6. Vol' = [Vol EXCEPT ![n] = [Vol[n] EXCEPT ![job[t].block] = job[t].value]]
        <3>1. \A k \in Names \ {n} : ContentOf(volumes, k)' = ContentOf(volumes, k)
            BY <2>1, <2>4 DEF ContentOf
        <3>2. ContentOf(volumes, n)' = [Vol[n] EXCEPT ![job[t].block] = job[t].value]
            BY <1>5, <2>n, <2>1, <2>3, <2>4, <2>5 DEF ContentOf
        <3> QED  BY <2>1, <3>1, <3>2 DEF Vol
    <2>7. UNCHANGED Saved
        BY <2>1, KeptSaved DEF IndInv, LiveMap
    <2> QED  BY <2>n, <2>5, <2>6, <2>7 DEF Abstract!Write, Vol, Saved
<1>6. ASSUME NEW t \in Threads, NEW n \in Names, DeleteVolume(t, n)
      PROVE  Abstract!Delete(n)
    <2>1. /\ n \in DOMAIN volumes /\ UNCHANGED <<volumes_file, capsules>>
          /\ DOMAIN volumes' = DOMAIN volumes \ {n}
          /\ \A k \in DOMAIN volumes' : volumes'[k] = volumes[k]
        BY <1>6 DEF DeleteVolume, Remove
    <2>2. Vol[n] # Absent
        BY <2>1, LiveContent DEF Vol, IndInv
    <2>3. Vol' = [Vol EXCEPT ![n] = Absent]
        BY <2>1 DEF Vol, ContentOf
    <2>4. UNCHANGED Saved
        BY <2>1, KeptSaved DEF IndInv, LiveMap
    <2> QED  BY <2>2, <2>3, <2>4 DEF Abstract!Delete, Vol, Saved
<1>7. ASSUME NEW t \in Threads, Persist(t)
      PROVE  Abstract!Save
    <2>1. volumes_file' = volumes /\ UNCHANGED <<volumes, capsules>>
        BY <1>7 DEF Persist
    <2>2. Saved' = Vol /\ Vol' = Vol
        BY <2>1 DEF Vol, Saved, ContentOf
    <2> QED  BY <2>2 DEF Abstract!Save, Vol, Saved
<1>8. CASE Restart
    <2>1. volumes' = volumes_file /\ UNCHANGED <<volumes_file, capsules>>
        BY <1>8 DEF Restart
    <2>2. Vol' = Saved /\ Saved' = Saved
        BY <2>1 DEF Vol, Saved, ContentOf
    <2>3. Abstract!Restart
        BY <2>2 DEF Abstract!Restart, Vol, Saved
    <2> QED  BY <2>3 DEF Abstract!Next
<1>9. ASSUME NEW t \in Threads, InsertVolume(t)
      PROVE  Abstract!Next \/ UNCHANGED <<Vol, Saved>>
    <2>1. job[t].name \in Names
        BY <1>9 DEF InsertVolume, At, IndInv, Prepared
    <2>2. CASE job[t].name \in DOMAIN volumes
        BY <1>1, <1>9, <2>2 DEF InsertVolume
    <2> QED  BY <1>4, <1>9, <2>1, <2>2 DEF Abstract!Next
<1>10. ASSUME NEW t \in Threads, SwapCapsule(t)
       PROVE  Abstract!Next \/ UNCHANGED <<Vol, Saved>>
    <2>1. job[t].name \in Names /\ job[t].block \in Blocks /\ job[t].value \in Values
        <3>1. Prepared(t) /\ job[t].pc = "swap" /\ job[t] \in Job
            BY <1>10 DEF SwapCapsule, At, IndInv, TypeOK
        <3> QED  BY <3>1 DEF Prepared, Job
    <2>2. CASE job[t].name \notin DOMAIN volumes \/ Conflict(t)
        BY <1>1, <1>10, <2>2 DEF SwapCapsule
    <2> QED  BY <1>5, <1>10, <2>1, <2>2 DEF Abstract!Next
<1>11. ASSUME NEW t \in Threads, NEW n \in Names,
              CreateVolume(t, n) \/ \E b \in Blocks, v \in Values : WriteVolume(t, n, b, v)
       PROVE  UNCHANGED <<Vol, Saved>>
    BY <1>1, <1>11 DEF CreateVolume, WriteVolume
<1>12. ASSUME NEW t \in Threads, LoadCapsule(t) \/ StoreFails(t) \/ PersistFails(t)
       PROVE  UNCHANGED <<Vol, Saved>>
    BY <1>1, <1>12 DEF LoadCapsule, StoreFails, PersistFails
<1>13. CASE UNCHANGED vars
    BY <1>1, <1>13 DEF vars
<1>14. ASSUME NEW t \in Threads, NEW n \in Names, DeleteVolume(t, n)
       PROVE  Abstract!Next
    BY <1>6, <1>14 DEF Abstract!Next
<1>15. ASSUME NEW t \in Threads, Persist(t)
       PROVE  Abstract!Next
    BY <1>7, <1>15 DEF Abstract!Next
<1> QED  BY Steps, <1>2, <1>3, <1>8, <1>9, <1>10, <1>11, <1>12, <1>13, <1>14, <1>15

(* The block view implements the store of volumes: create, write and       *)
(* delete take effect in one step or not at all, whatever other threads do *)
(* between reading a volume and swapping its capsule, and a restart brings *)
(* back exactly what was last saved.                                       *)
THEOREM BlockImplementsStore == Spec => Implements
<1>1. Init => Abstract!Init
    BY DEF Init, Abstract!Init, ContentOf, Empty
<1>2. TypeOK /\ IndInv /\ [Next]_vars => [Abstract!Next]_<<Vol, Saved>>
    BY AbstractStep
<1>3. TypeOK /\ IndInv /\ [Next]_vars =>
        [Abstract!Next]_<<[n \in Names |-> ContentOf(volumes, n)],
                          [n \in Names |-> ContentOf(volumes_file, n)]>>
    BY <1>2 DEF Vol, Saved
<1> QED  BY <1>1, <1>3, BlockInvariant, PTL DEF Spec, Implements, Abstract!Spec
=============================================================================

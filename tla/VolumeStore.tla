------------------------------ MODULE VolumeStore ------------------------------
(***************************************************************************)
(* What the block protocol promises, without capsules, versions and        *)
(* retries: a set of volumes, each an array of blocks that a write changes *)
(* in one place and in one step, and a saved copy of all of them that a    *)
(* restart brings back.                                                    *)
(***************************************************************************)
CONSTANTS
    Names,          \* names of volumes
    Blocks,         \* block positions of a volume
    Values,         \* contents of a block
    Zero,           \* the content of a block of a new volume
    Absent          \* no such volume

VARIABLES
    vol,            \* the volumes readers see
    saved           \* the volumes a restart brings back

Init == vol = [n \in Names |-> Absent] /\ saved = vol

Create(n) ==
    /\ vol[n] = Absent
    /\ vol' = [vol EXCEPT ![n] = [b \in Blocks |-> Zero]]
    /\ UNCHANGED saved

(* A write changes one block of the current contents and no other.         *)
Write(n, b, v) ==
    /\ vol[n] # Absent
    /\ vol' = [vol EXCEPT ![n][b] = v]
    /\ UNCHANGED saved

Delete(n) ==
    /\ vol[n] # Absent
    /\ vol' = [vol EXCEPT ![n] = Absent]
    /\ UNCHANGED saved

Save == saved' = vol /\ UNCHANGED vol

Restart == vol' = saved /\ UNCHANGED saved

Next ==
    \/ \E n \in Names :
        \/ Create(n) \/ Delete(n)
        \/ \E b \in Blocks, v \in Values : Write(n, b, v)
    \/ Save
    \/ Restart

Spec == Init /\ [][Next]_<<vol, saved>>
=============================================================================

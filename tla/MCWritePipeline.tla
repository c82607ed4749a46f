---------------------------- MODULE MCWritePipeline ----------------------------
(* Small instances of WritePipeline for TLC.  Threads and contents are     *)
(* interchangeable: no action and no property tells two of them apart.     *)
EXTENDS WritePipeline, TLC

(* Calls one at a time with failures and crashes at any step; and writes   *)
(* that overlap with writes, deletes and sweeps with deletes and sweeps.   *)
MCUsages == {[calls |-> "serial", fails |-> 2, crashes |-> 2],
             [calls |-> "apart", fails |-> 0, crashes |-> 0]}

(* Every call overlaps with every other.                                   *)
MCMixed == {[calls |-> "mixed", fails |-> 0, crashes |-> 0]}

Symmetry == Permutations(Threads) \cup Permutations(Contents)
=============================================================================

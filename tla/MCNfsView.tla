------------------------------- MODULE MCNfsView -------------------------------
(* Small instances of NfsView for TLC.  Callers and names are              *)
(* interchangeable.                                                        *)
EXTENDS NfsView, TLC

(* Calls one at a time, on paths of two parts, with a failure and a crash; *)
(* and overlapping calls on the names of one directory, with a failure.    *)
MCUsages == {[serial |-> TRUE, parts |-> 2, fails |-> 1, crashes |-> 1],
             [serial |-> FALSE, parts |-> 1, fails |-> 1, crashes |-> 0]}

Symmetry == Permutations(Callers) \cup Permutations(Names)
=============================================================================

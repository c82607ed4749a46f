------------------------------ MODULE MCBlockView ------------------------------
(* Small instances of BlockView for TLC.  Threads are interchangeable.     *)
EXTENDS BlockView, TLC

ThreadSymmetry == Permutations(Threads)
=============================================================================

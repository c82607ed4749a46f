----------------------------- MODULE MCBloomIndex -----------------------------
(* Small instance of BloomIndex for TLC: two hashes that share a bucket,   *)
(* one of them twice.                                                      *)
EXTENDS BloomIndex, TLC

MCHashes == {"a", "b"}
MCIndexes == [h \in MCHashes |-> IF h = "a" THEN <<1, 2>> ELSE <<2, 2>>]
ThreadSymmetry == Permutations(Threads)
=============================================================================

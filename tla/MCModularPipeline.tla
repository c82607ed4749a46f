--------------------------- MODULE MCModularPipeline ---------------------------
(* Small instances of ModularPipeline for TLC.  Units are interchangeable. *)
EXTENDS ModularPipeline

Symmetry == Permutations(Units)
=============================================================================

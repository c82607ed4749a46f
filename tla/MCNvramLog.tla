------------------------------ MODULE MCNvramLog ------------------------------
(* Small instances of NvramLog for TLC.  Clients is symmetric: no action   *)
(* and no property tells two clients apart.                                *)
EXTENDS NvramLog, TLC

ClientSymmetry == Permutations(Clients)
=============================================================================

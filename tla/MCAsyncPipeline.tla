---------------------------- MODULE MCAsyncPipeline ----------------------------
(* A small instance of AsyncPipeline for TLC.  No symmetry: the run checks *)
(* liveness.                                                               *)
EXTENDS AsyncPipeline

(* The empty capsule, one of one chunk, and one that has this content      *)
(* twice behind another: more chunks than permits.                         *)
MCDatas == {<<>>, <<1>>, <<2, 1, 1>>}
=============================================================================

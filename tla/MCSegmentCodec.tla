---------------------------- MODULE MCSegmentCodec ----------------------------
(* Small instances of SegmentCodec for TLC: data of one chunk of each kind *)
(* and of two, where a repeated chunk meets its own segment.               *)
EXTENDS SegmentCodec

CONSTANTS c, s

F == Frame("LZ4", Raw(c))
MCDatas == {<<Raw(c)>>, <<Raw(c), Raw(c)>>, <<Raw(c), F>>, <<Raw(c), Raw(s)>>}

(* Master key and ML-KEM key pair, the master key only, or neither.        *)
MCProvisions == {[keys |-> TRUE, mlkem |-> TRUE], [keys |-> TRUE, mlkem |-> FALSE],
                 [keys |-> FALSE, mlkem |-> FALSE]}
=============================================================================

---------------------------- MODULE MCStreamPipe ----------------------------
(* Instances of StreamPipe for TLC.                                         *)
EXTENDS StreamPipe

(* Chunks of size 1 and 2, as a ByteLengthQueuingStrategy sees them.        *)
Sizes == [c \in 1..3 |-> IF c = 2 THEN 2 ELSE 1]
=============================================================================

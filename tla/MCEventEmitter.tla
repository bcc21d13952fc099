--------------------------- MODULE MCEventEmitter ---------------------------
(* EventEmitter for TLC: an emitter with two events.                         *)
EXTENDS EventEmitter, TLC

Symmetry == Permutations(Types) \cup Permutations(Arrays)
=============================================================================

-------------------------- MODULE MCBorrowedChunk --------------------------
(* Two chunks, callbacks nested up to three deep.                             *)
EXTENDS BorrowedChunk, TLC

CONSTANTS c1, c2

ChunkSymmetry == Permutations({c1, c2})
=============================================================================

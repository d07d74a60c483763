---------------------------- MODULE MC_SubTurns ----------------------------
(* One chat turn and four spawns, in any tree of depth two; every pool,     *)
(* semaphore and channel holds one.                                         *)
EXTENDS SubTurns

CONSTANTS r1, a, b, c, d
=============================================================================

---------------------------- MODULE MCAudioPath ----------------------------
(* AudioPath for TLC: two blocks, so that their order shows.                 *)
EXTENDS AudioPath

CONSTANTS b1, b2

MCBlock == {b1, b2}
============================================================================

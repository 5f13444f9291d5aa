---------------------------- MODULE MCPalRingBuffer ----------------------------
(* A small ring for TLC with the readers of two streams.                   *)
EXTENDS PalRingBuffer

CONSTANTS r1, r2, s1, s2

TwoStreams == [r \in Readers |-> IF r = r1 THEN s1 ELSE s2]
=============================================================================

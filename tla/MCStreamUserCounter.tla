------------------------- MODULE MCStreamUserCounter -------------------------
(* A small instance of StreamUserCounter for TLC: three clients, so that   *)
(* two can close a stream while a third uses it, and two addresses.        *)
EXTENDS StreamUserCounter
=============================================================================

--------------------------- MODULE MCStreamCompress ---------------------------
(* Small instances of StreamCompress for TLC. *)
EXTENDS StreamCompress

CONSTANTS d1, d2

\* A client plays, drains, pauses, mutes and stops one stream, whose device may
\* fail to open.
Offload(gapless) ==
  [direction |-> "out", isGaplessFmt |-> gapless, mDevices |-> {d1}, Room |-> 2,
   MaxDown |-> 0, Faults |-> {"deviceOpen"},
   Ops |-> {"start", "drain", "flush", "pause", "resume", "volume", "mute"}]

\* The card is lost once, on two devices, and everything below may fail.
Losing(way) ==
  [direction |-> way, isGaplessFmt |-> TRUE, mDevices |-> {d1, d2}, Room |-> 1,
   MaxDown |-> 1, Faults |-> {"compressOpen", "late", "sessionOpen", "deviceStart"},
   Ops |-> {"start", "stop"}]

MCScenarios == {Offload(TRUE), Offload(FALSE), Losing("out"), Losing("in")}
=============================================================================

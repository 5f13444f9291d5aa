------------------------------ MODULE MCStreamPCM ------------------------------
(* Small instances of StreamPCM for TLC: every stream is opened with every *)
(* device.                                                                 *)
EXTENDS StreamPCM

CONSTANTS s1, s2, d1, d2

AllOps == {"start", "stop", "pause", "resume", "close"}

\* Two output streams on two devices that may fail to start.
Outputs ==
  [Used |-> {s1, s2}, Writes |-> FALSE, Direction |-> [s \in Streams |-> "out"],
   Routed |-> [s \in Streams |-> Devices], TxDevices |-> {}, Ops |-> AllOps,
   Faults |-> {"deviceStart", "sessionStart"}, DownStatus |-> {}, StandbyStreams |-> {},
   MaxDown |-> 0, MaxCount |-> 3]

\* A loopback and an input share the devices, and everything below them may fail.
Mixed ==
  [Outputs EXCEPT
     !.Direction = [s \in Streams |-> IF s = s1 THEN "loop" ELSE "in"], !.TxDevices = {d2},
     !.Ops = {"start", "stop", "close"}, !.MaxCount = 2,
     !.Faults = {"deviceOpen", "sessionOpen", "deviceStart", "sessionStart", "deviceStop"}]

\* A writer against the calls that move the state of its stream.
Written ==
  [Outputs EXCEPT !.Used = {s1}, !.Writes = TRUE, !.Ops = AllOps \ {"stop"}]

\* Two streams on one device lose the card once.
Recovering ==
  [Outputs EXCEPT
     !.Routed = [s \in Streams |-> {d1}], !.Ops = {"start"}, !.Faults = {},
     !.DownStatus = Statuses, !.MaxDown = 1]

\* One stream, written to and spared in standby, with late reports of the loss.
Spared ==
  [Recovering EXCEPT
     !.Used = {s1}, !.Writes = TRUE, !.Ops = {"start", "stop", "close"},
     !.Faults = {"deviceStart", "sessionStart", "netReset", "openLost"},
     !.StandbyStreams = {s1}]

SafetyScenarios == {Outputs, Mixed, Written, Recovering}
ReturnScenarios == {Spared}
=============================================================================

---------------------------- MODULE MCOtherStreams ----------------------------
(* Small instances of OtherStreams for TLC: what each class of streams meets. *)
EXTENDS OtherStreams

Quiet(c, ops, faults) ==
  [class |-> c, Ops |-> ops, ManagerOps |-> {}, Faults |-> faults, MaxDown |-> 0]
Lossy(c, ops) ==
  [class |-> c, Ops |-> ops, ManagerOps |-> {}, Faults |-> {}, MaxDown |-> 2]

MCScenarios ==
  { Quiet("common", {"start", "stop"}, {"sessionOpen", "sessionStart"}),
    Quiet("haptics", {"start", "stop"}, {"sessionOpen", "sessionStart", "deviceStart"}),
    Quiet("incall", {"start", "stop", "pause", "resume"}, {"sessionOpen", "sessionStart"}),
    Quiet("nontunnel", {"start", "stop", "suspend"}, {"sessionOpen", "sessionStart"}),
    Lossy("common", {"start"}), Lossy("haptics", {"start"}),
    Lossy("incall", {"start", "pause"}), Lossy("nontunnel", {"start", "stop", "suspend"}),
    [Lossy("sensor", {"start"}) EXCEPT !.ManagerOps = {"pause", "profile", "switch"}],
    [Quiet("sensor", {"start", "stop"}, {"deviceOpen"}) EXCEPT !.ManagerOps = {"pause"}] }
=============================================================================

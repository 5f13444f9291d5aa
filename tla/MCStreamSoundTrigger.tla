-------------------------- MODULE MCStreamSoundTrigger --------------------------
(* Small instances of StreamSoundTrigger for TLC. *)
EXTENDS StreamSoundTrigger

Detections ==
  [stages |-> {"kwd"}, Captures |-> {TRUE}, Notifies |-> {TRUE, FALSE},
   Calls |-> {"load", "config", "start", "stop", "read", "stopBuffering"},
   Events |-> {"lateCheck", "pause", "concurrency"}, Faults |-> {},
   MaxDetections |-> 1, MaxDown |-> 0, MaxSwitching |-> 0]

Switches ==
  [stages |-> {}, Captures |-> {TRUE, FALSE}, Notifies |-> {FALSE},
   Calls |-> {"load", "config", "start", "stop", "close"},
   Events |-> {"others", "device", "concurrency"}, Faults |-> {},
   MaxDetections |-> 1, MaxDown |-> 1, MaxSwitching |-> 1]

\* Two detections, the second after a report, a stop or a loss of the first.
Twice ==
  [Detections EXCEPT !.stages = {}, !.Notifies = {FALSE}, !.Events = {"pause"},
                     !.Calls = @ \cup {"close"}, !.MaxDetections = 2, !.MaxDown = 1]

MCDetectScenarios == {Detections, Twice}

MCManagerScenarios == {Switches}

MCFaultScenarios ==
  {[Switches EXCEPT !.Captures = {TRUE}, !.Calls = @ \cup {"reconfig", "delete"},
                    !.Faults = {"loadSM", "reload", "config", "engine", "device", "setup",
                                "connect"}],
   [Switches EXCEPT !.Events = {"overtake"}, !.MaxDetections = 2, !.MaxDown = 0]}

MCUnlockScenarios ==
  {[Detections EXCEPT !.Notifies = {FALSE}, !.Calls = {"load", "config", "start"},
                      !.Events = {"lateCheck", "concurrency"}]}
=============================================================================

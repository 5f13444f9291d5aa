------------------------------ MODULE MCStreamACD ------------------------------
(* Small instances of StreamACD for TLC. *)
EXTENDS StreamACD

CONSTANTS s1, s2, c1, c2

MCModelOf == [c \in Contexts |-> c]
Rec(f) == [rec |-> f, ctx |-> {}]
Low == Rec(c1 :> 1)
High == Rec(c1 :> 2)
Both == Rec(c1 :> 2 @@ c2 :> 1)
List == [rec |-> NoConfig, ctx |-> {c1, c2}]

Quiet == [streams |-> {s1}, Ops |-> {"config", "start"}, Rounds |-> {}, Faults |-> {},
          Configs |-> {Low}, newContexts |-> FALSE, MaxDetections |-> 0, MaxDown |-> 0,
          MaxRounds |-> 0]

MCScenarios ==
  { [Quiet EXCEPT !.streams = {s1, s2}, !.MaxDetections = 3],
    [Quiet EXCEPT !.Ops = {"config", "start", "stop"}, !.MaxDetections = 2,
                  !.Rounds = {"pause"}, !.MaxRounds = 2],
    [Quiet EXCEPT !.streams = {s1, s2}, !.Ops = {"config", "start", "stop", "close"},
                  !.Rounds = {"pause"}, !.MaxRounds = 2],
    [Quiet EXCEPT !.streams = {s1, s2}, !.Ops = {"config", "start", "stop", "close"},
                  !.Configs = {Low, High, Both, List}],
    [Quiet EXCEPT !.streams = {s1, s2}, !.Ops = {"config", "start", "stop"},
                  !.Rounds = {"lowPower", "device", "others"}, !.MaxRounds = 2],
    [Quiet EXCEPT !.streams = {s1, s2}, !.Ops = {"config", "start", "stop"},
                  !.Rounds = {"lowPower", "device"}, !.MaxRounds = 1, !.MaxDetections = 1],
    [Quiet EXCEPT !.streams = {s1, s2}, !.Ops = {"config", "start", "stop"},
                  !.Configs = {Low, Both}, !.newContexts = TRUE],
    [Quiet EXCEPT !.streams = {s1, s2}, !.Ops = {"config", "start", "stop"},
                  !.Faults = {"open", "start", "engine"}],
    [Quiet EXCEPT !.streams = {s1, s2}, !.Ops = {"config", "close"}, !.Configs = {Low, Both},
                  !.MaxDown = 1],
    [Quiet EXCEPT !.streams = {s1, s2}, !.Ops = {"config", "start", "stop"}, !.Configs = {Low, Both},
                  !.MaxDown = 1],
    [Quiet EXCEPT !.streams = {s1, s2}, !.Ops = @ \cup {"close"}, !.MaxDetections = 1],
    [Quiet EXCEPT !.MaxDetections = 3, !.Rounds = {"pause"}, !.MaxRounds = 2],
    [Quiet EXCEPT !.MaxDetections = 3, !.Rounds = {"device", "lowPower"}, !.MaxRounds = 2],
    [Quiet EXCEPT !.streams = {s1, s2}, !.MaxDown = 1, !.MaxDetections = 1],
    [Quiet EXCEPT !.streams = {s1, s2}, !.MaxDown = 1, !.Faults = {"open", "start", "engine"}],
    [Quiet EXCEPT !.streams = {s1, s2}, !.Ops = @ \cup {"stop"}, !.MaxRounds = 2,
                  !.Rounds = {"pause"}, !.Faults = {"open", "start", "engine"}] }
=============================================================================

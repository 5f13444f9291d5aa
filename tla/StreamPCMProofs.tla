---------------------------- MODULE StreamPCMProofs ----------------------------
(***************************************************************************)
(* What TLAPS proves of StreamPCM.  The arguments, in order:               *)
(*   - every thread stands where the code can bring it (Positions), and    *)
(*     the variables keep their types (PcmTypes);                          *)
(*   - the resource manager knows the state of the card (CardStateKnown);  *)
(*   - each thread finds its stream as the place it stands at needs it     *)
(*     (Places), so that each step has one of few effects on the counts of *)
(*     a device and on the list of active devices, and the counts and the  *)
(*     list stay right (DevicesStayRight);                                 *)
(*   - a stream is as its client believes it to be, without a loss and     *)
(*     through the parts of one (StreamsAsAsked).                          *)
(***************************************************************************)
EXTENDS StreamPCM, DeviceProofs, FiniteSetTheorems, SequenceTheorems

\* Where a thread stands inside StreamPCM::start, and inside stop.
Starting == {"start", "startRun", "startReset", "startLock", "startRegister"}
Stopping == {"stop", "stopLock", "stopRun"}
\* Every place a thread can stand at, and every stack of places to return to.
Labels == Starting \cup Stopping \cup
  {"idle", "open", "opened", "close", "closeRun", "closed", "pause", "resume", "startDone",
   "stopDone", "pauseDone", "resumeDone", "palStop", "palClose", "write", "writeReset",
   "writeCheck", "writeLock", "writeRegister", "writeState", "walk", "down", "downStopped",
   "downEnd", "up", "upOpened", "upStarted", "upEnd"}
Returns ==
  {<<>>, <<"opened">>, <<"startDone">>, <<"stopDone">>, <<"closeRun", "closed">>, <<"closed">>,
   <<"pauseDone">>, <<"resumeDone">>, <<"downStopped">>, <<"closeRun", "downEnd">>,
   <<"downEnd">>, <<"upEnd">>, <<"upOpened">>, <<"upStarted">>}
\* Places, stacks and results are of these.
Control ==
  /\ pc \in [Threads -> Labels] /\ ret \in [Threads -> Returns]
  /\ status \in [Threads -> {"ok", "err"}]

\* A thread that controls a stream stands at p with r to return to.
CtlAt(p, r) ==
  \/ /\ p \in {"idle", "opened", "closed", "startDone", "stopDone", "pauseDone", "resumeDone",
               "palStop", "palClose"}
     /\ r = <<>>
  \/ p = "open" /\ r = <<"opened">>
  \/ p \in Starting /\ r = <<"startDone">>
  \/ p \in Stopping /\ r \in {<<"stopDone">>, <<"closeRun", "closed">>}
  \/ p \in {"close", "closeRun"} /\ r = <<"closed">>
  \/ p = "pause" /\ r = <<"pauseDone">>
  \/ p = "resume" /\ r = <<"resumeDone">>
\* So does the recovery thread; it never resumes a stream.
SsrAt(p, r) ==
  \/ /\ p \in {"idle", "walk", "down", "downStopped", "downEnd", "up", "upOpened", "upStarted",
               "upEnd"}
     /\ r = <<>>
  \/ p = "open" /\ r \in {<<"upEnd">>, <<"upOpened">>}
  \/ p \in Starting /\ r = <<"upStarted">>
  \/ p \in Stopping /\ r \in {<<"downStopped">>, <<"closeRun", "downEnd">>}
  \/ p \in {"close", "closeRun"} /\ r = <<"downEnd">>
  \/ p = "pause" /\ r = <<"upEnd">>
\* A writer calls nothing.
WrAt(p, r) ==
  /\ p \in {"idle", "write", "writeReset", "writeCheck", "writeLock", "writeRegister",
            "writeState"}
  /\ r = <<>>

\* Every thread stands where the code can bring it.
Positions ==
  /\ Control
  /\ \A t \in Controls : CtlAt(pc[t], ret[t])
  /\ \A t \in WriterThreads : WrAt(pc[t], ret[t])
  /\ SsrAt(pc[Ssr], ret[Ssr])

-----------------------------------------------------------------------------
(* The scenarios in which every operation finds its stream as the operation  *)
(* before it left it.                                                        *)
Steady ==
  /\ \E c : Callers = {c}
  /\ MaxDown = 0 \/ (Ops \subseteq {"start"} /\ ~Writes)
  /\ Writes => "stop" \notin Ops
  /\ "pause" \in Ops => "deviceStop" \notin Faults
  /\ "deviceStart" \in Faults /\ Faults \subseteq {"deviceStart", "sessionStart"} =>
       \A s \in Streams : Direction[s] = "out"

\* The two halves of a start: under the mutex of the stream, and on the way into the list.
Bound == {"startRun", "startReset"}
Joining == {"startLock", "startRegister"}

\* STARTED or PAUSED: what stop, and the list of active devices, take as running.
IsRunning(x) == x.currentState \in {"STARTED", "PAUSED"}

\* Who owns the mutex of a stream is starting that stream.
Locks ==
  /\ \A t \in Threads : pc[t] \in Bound => mStreamMutex[Str(t)] = t
  /\ \A s \in Streams : mStreamMutex[s] # None =>
       pc[mStreamMutex[s]] \in Bound /\ Str(mStreamMutex[s]) = s

\* The state x of its stream when a control thread stands at p, to return to r.
CtlPlace(x, p, r, st) ==
  /\ x.handle = "none" => p = "idle" /\ x.currentState = "IDLE"
  /\ x.handle = "opening" =>
       /\ p \in {"open", "opened", "close", "closed"}
       /\ x.currentState = "IDLE" \/ (p = "opened" /\ st = "ok")
  /\ x.handle = "valid" =>
       p \in Starting \cup {"idle", "startDone", "stopDone", "pause", "pauseDone", "resume",
                            "resumeDone", "palStop"} \/ r = <<"stopDone">>
  /\ x.handle = "closing" =>
       p \in {"palClose", "close", "closeRun", "closed"} \/ r = <<"closeRun", "closed">>
  /\ p = "closed" => x.currentState = "IDLE"
  /\ p \in Bound => x.currentState \in {"INIT", "STOPPED"}
  /\ p \in {"stopLock", "stopRun"} \/ r = <<"closeRun", "closed">> => IsRunning(x)
  /\ p = "closeRun" => x.currentState = "STOPPED"
  /\ p \in Starting \cup {"startDone"} => x.want \in {"open", "stopped"}
  /\ p \in {"pause", "pauseDone", "resume", "resumeDone"} => x.want \in {"started", "paused"}
  /\ p \in {"palStop", "stopDone"} \/ r = <<"stopDone">> => "stop" \in Ops
  /\ p \in {"pause", "pauseDone"} => "pause" \in Ops
  /\ x.want = "stopped" => "stop" \in Ops
  /\ MaxDown # 0 => p \notin {"stopDone", "pause", "pauseDone", "resume", "resumeDone",
                               "palStop"} /\ r # <<"stopDone">>

\* Without a loss of the card, a stream runs as its client asked.
CtlLive(x, p, st) ==
  MaxDown = 0 =>
    /\ p \in Joining \/ (p = "startDone" /\ st = "ok") => IsRunning(x)
    /\ /\ "pause" \in Ops \/ Writes
       /\ x.handle = "valid" /\ x.want \in {"started", "paused"}
       => IsRunning(x) \/ (p = "stopDone" /\ st = "ok")

\* Who writes has a stream that was started.
WrPlace(x, p) ==
  p # "idle" => Writes /\ x.handle = "valid" /\ x.want \in {"started", "paused"}

\* Where the recovery thread takes its stream down.
Leaving == {"downStopped", "downEnd", "close"} \cup Stopping

\* The same for the recovery thread; m is the mutex of its stream.
SsrPlace(x, p, r, m) ==
  /\ MaxDown = 0 => p = "idle"
  /\ p \notin {"idle", "walk"} => ssr.stream \in Streams /\ x.handle = "valid"
  /\ p \in Leaving => m = None
  /\ p \in Leaving \cup {"down"} => CardDown
  /\ p \in Stopping => IsRunning(x)
  /\ p = "downStopped" => x.currentState = "STOPPED"
  /\ p = "close" => x.currentState \in {"INIT", "STOPPED"}
  /\ p = "downEnd" => x.currentState = "IDLE"
  /\ p \in Bound => x.currentState \in {"INIT", "STOPPED"}
  /\ p \notin {"closeRun", "pause"} /\ r # <<"closeRun", "downEnd">>

\* Each thread finds its stream as the place it stands at needs it.
Places ==
  /\ \A t \in Controls : CtlPlace(strm[Str(t)], pc[t], ret[t], status[t])
                         /\ CtlLive(strm[Str(t)], pc[t], status[t])
  /\ \A t \in WriterThreads : WrPlace(strm[Str(t)], pc[t])
  /\ SsrPlace(strm[ssr.stream], pc[Ssr], ret[Ssr], mStreamMutex[ssr.stream])
  /\ \A s \in Streams : MaxDown # 0 => strm[s].currentState # "PAUSED"
                                       /\ strm[s].cachedState # "PAUSED"
                                       /\ strm[s].handle # "closing"
  /\ MaxDown # 0 => ssr.upTo # "PAUSED"

\* The streams that have opened a device, and those that have started it.
In(s, d) == strm[s].currentState # "IDLE" /\ d \in strm[s].mDevices
\* Of those, the streams that have started it, or are about to undo that after a loss.
On(s, d) ==
  /\ d \in strm[s].mDevices
  /\ \/ IsRunning(strm[s])
     \/ mStreamMutex[s] # None /\ pc[mStreamMutex[s]] = "startReset"
\* All of them.
InOf(d) == {s \in Streams : In(s, d)}
OnOf(d) == {s \in Streams : On(s, d)}

\* No failure but that of a start, which leaves no count behind.
OnlyStartsFail == Faults \subseteq {"deviceStart", "sessionStart"}

\* The counts of every device cover the streams that use it, and no more if only starts fail.
Counts ==
  \A d \in Devices :
    /\ dev[d].count >= Cardinality(InOf(d)) /\ dev[d].startStop >= Cardinality(OnOf(d))
    /\ OnlyStartsFail => /\ dev[d].count = Cardinality(InOf(d))
                         /\ dev[d].startStop = Cardinality(OnOf(d))

\* The list pairs a running stream with its devices once its start is over.
Pairs ==
  MaxDown = 0 => \A s \in Streams, d \in Devices :
    <<d, s>> \in active_devices <=>
      /\ IsRunning(strm[s]) /\ d \in strm[s].mDevices
      /\ \A t \in Controls : Str(t) = s => pc[t] \notin Joining

\* The types of the variables, the threads' places among them.
Typed ==
  /\ scenario \in Scenarios
  /\ strm \in [Streams -> StreamType]
  /\ dev \in UseType
  /\ active_devices \subseteq Devices \X Streams
  /\ mStreamMutex \in [Streams -> Threads \cup {None}]
  /\ mActiveStreamMutex \in Threads \cup {None}
  /\ card \in Statuses \cup {"online"} /\ cardState \in Statuses \cup {"online"}
  /\ prevState \in Statuses \cup {"online"}
  /\ msgQ \in Seq(Statuses \cup {"online"})
  /\ downs \in Nat
  /\ ssr.upTo \in State /\ (pc[Ssr] \notin {"idle", "walk"} => ssr.stream \in Streams)
  /\ ssr \in [stream : Streams \cup {None}, upTo : State, visited : SUBSET Streams]
  /\ Positions

-----------------------------------------------------------------------------
\* What the threads are called, and whose stream they work on.
LEMMA Names ==
  /\ \A t \in Controls : t \in Threads /\ t # Ssr /\ t \notin WriterThreads
                         /\ Str(t) \in Streams /\ Str(t) = t[2]
  /\ \A t \in WriterThreads : t \in Threads /\ t # Ssr /\ t \notin Controls
                              /\ Str(t) \in Streams /\ Str(t) = t[2]
  /\ Ssr \in Threads /\ Ssr \notin Controls /\ Ssr \notin WriterThreads
  /\ Str(Ssr) = ssr.stream
  /\ \A t \in Threads : t \in Controls \/ t \in WriterThreads \/ t = Ssr
<1>1. ASSUME NEW c \in Callers, NEW s \in Streams
      PROVE  <<c, s>> # Ssr /\ <<c, s>> \notin WriterThreads
  BY NamesAssumption DEF Ssr, WriterThreads
<1>2. ASSUME NEW w \in Writers, NEW s \in Streams
      PROVE  <<w, s>> # Ssr /\ <<w, s>> \notin Controls
  BY NamesAssumption DEF Ssr, Controls
<1>. QED  BY <1>1, <1>2 DEF Threads, Controls, WriterThreads, Str

\* What the assumption on the scenarios says of the one of this behaviour.
LEMMA ScenarioIs ==
  ASSUME scenario \in Scenarios
  PROVE  /\ Used \subseteq Streams /\ Writes \in BOOLEAN /\ MaxDown \in Nat
         /\ \A s \in Streams : Direction[s] \in {"out", "in", "loop"} /\ Routed[s] \subseteq Devices
         /\ DownStatus \subseteq Statuses
BY ScenarioAssumption DEF Used, Writes, MaxDown, Direction, Routed, DownStatus

\* Pushing one place on a stack of one.
LEMMA Pair ==
  ASSUME NEW S, NEW a \in S, NEW b \in S
  PROVE  <<a>> \o <<b>> = <<a, b>>
<1>1. <<a>> \in Seq(S) /\ <<b>> \in Seq(S) /\ <<a, b>> \in Seq(S) /\ Len(<<a>>) = 1
      /\ Len(<<b>>) = 1
      /\ Len(<<a, b>>) = 2 /\ <<a, b>>[1] = a /\ <<a, b>>[2] = b /\ <<a>>[1] = a /\ <<b>>[1] = b
 OBVIOUS
<1>. DEFINE s == <<a>> \o <<b>>
            t == <<a, b>>
<1>2. s \in Seq(S) /\ Len(s) = 2 /\ s[1] = a /\ s[2] = b
  BY <1>1, ConcatProperties
<1>. HIDE DEF s, t
<1>3. t \in Seq(S) /\ Len(t) = 2 /\ t[1] = a /\ t[2] = b
  BY <1>1 DEF t
<1>4. \A i \in 1..Len(s) : s[i] = t[i]
  BY <1>2, <1>3
<1>5. s = t
  BY <1>2, <1>3, <1>4, SeqEqual
<1>. QED BY <1>5 DEF s, t

\* The stacks that calls make, and those that returns leave.
LEMMA Pushed ==
  /\ \A a \in Labels : <<a>> \o <<>> = <<a>>
  /\ <<"closeRun">> \o <<"closed">> = <<"closeRun", "closed">>
  /\ <<"closeRun">> \o <<"downEnd">> = <<"closeRun", "downEnd">>
<1>1. \A a \in Labels : <<a>> \o <<>> = <<a>>
  OBVIOUS
<1>2. /\ <<"closeRun">> \o <<"closed">> = <<"closeRun", "closed">>
      /\ <<"closeRun">> \o <<"downEnd">> = <<"closeRun", "downEnd">>
  BY ZenonT(30), Pair, "closeRun" \in Labels, "closed" \in Labels, "downEnd" \in Labels DEF Labels
<1>. QED  BY <1>1, <1>2

\* The stacks that calls make, and those that returns leave.
LEMMA Popped ==
  /\ \A a \in Labels : Head(<<a>>) = a /\ Tail(<<a>>) = <<>> /\ <<a>> # <<>>
  /\ Head(<<"closeRun", "closed">>) = "closeRun" /\ Tail(<<"closeRun", "closed">>) = <<"closed">>
  /\ Head(<<"closeRun", "downEnd">>) = "closeRun"
  /\ Tail(<<"closeRun", "downEnd">>) = <<"downEnd">>
  /\ <<"closeRun", "closed">> # <<>> /\ <<"closeRun", "downEnd">> # <<>>
OBVIOUS

\* Only thread t moves.
Stay(t) ==
  /\ scenario' = scenario
  /\ \A u \in Threads \ {t} : pc'[u] = pc[u] /\ ret'[u] = ret[u] /\ status'[u] = status[u]
\* Thread t stands at p, with r to return to, after the step.
At(t, p, r) == pc'[t] = p /\ ret'[t] = r

\* A thread that goes on, calls or returns: it alone moves, to where the step says.
LEMMA GoneTo ==
  ASSUME Control, NEW t \in Threads, NEW label \in Labels, Goto(t, label)
  PROVE  Control' /\ Stay(t) /\ At(t, label, ret[t]) /\ status' = status
BY DEF Control, Goto, Stay, At

\* A thread that calls.
LEMMA CalledTo ==
  ASSUME Control, NEW t \in Threads, NEW label \in Labels, NEW back, Call(t, label, back),
         <<back>> \o ret[t] \in Returns
  PROVE  Control' /\ Stay(t) /\ At(t, label, <<back>> \o ret[t]) /\ status' = status
BY DEF Control, Call, Stay, At

\* A thread that returns.
LEMMA ReturnedTo ==
  ASSUME Control, NEW t \in Threads, NEW x \in {"ok", "err"}, Return(t, x),
         Head(ret[t]) \in Labels, Tail(ret[t]) \in Returns
  PROVE  Control' /\ Stay(t) /\ At(t, Head(ret[t]), Tail(ret[t])) /\ status'[t] = x
BY DEF Control, Return, Stay, At

\* The places from which a call returns.
Calls == {"open", "close", "closeRun", "pause", "resume"} \cup Starting \cup Stopping

\* Where a call returns to when a client made it (the stack of its thread).
LEMMA CtlBack ==
  ASSUME Positions, NEW t \in Controls, NEW x \in {"ok", "err"}, Return(t, x), pc[t] \in Calls
  PROVE  /\ Control' /\ Stay(t) /\ status'[t] = x
         /\ pc[t] = "open" => At(t, "opened", <<>>)
         /\ pc[t] \in Starting => At(t, "startDone", <<>>)
         /\ pc[t] \in Stopping => \/ ret[t] = <<"stopDone">> /\ At(t, "stopDone", <<>>)
                                  \/ /\ ret[t] = <<"closeRun", "closed">>
                                     /\ At(t, "closeRun", <<"closed">>)
         /\ pc[t] \in {"close", "closeRun"} => At(t, "closed", <<>>)
         /\ pc[t] = "pause" => At(t, "pauseDone", <<>>)
         /\ pc[t] = "resume" => At(t, "resumeDone", <<>>)
         /\ CtlAt(pc'[t], ret'[t])
<1>1. t \in Threads /\ CtlAt(pc[t], ret[t]) /\ Control
  BY Names DEF Positions
<1>2. Head(ret[t]) \in Labels /\ Tail(ret[t]) \in Returns
  <2>1. (\E a \in Labels : ret[t] = <<a>>) \/ ret[t] = <<"closeRun", "closed">>
    BY <1>1 DEF CtlAt, Calls, Starting, Stopping, Labels
  <2>2. <<>> \in Returns /\ <<"closed">> \in Returns /\ "closeRun" \in Labels
    BY DEF Returns, Labels
  <2>. QED  BY <2>1, <2>2, Popped
<1>3. Control' /\ Stay(t) /\ At(t, Head(ret[t]), Tail(ret[t])) /\ status'[t] = x
  BY <1>1, <1>2, ReturnedTo
<1>4. \A a \in Labels : Head(<<a>>) = a /\ Tail(<<a>>) = <<>>
  BY Popped
<1>5. {"opened", "startDone", "stopDone", "closed", "pauseDone", "resumeDone"} \subseteq Labels
  BY DEF Labels
<1>6. /\ pc[t] = "open" => At(t, "opened", <<>>)
      /\ pc[t] \in Starting => At(t, "startDone", <<>>)
      /\ pc[t] \in Stopping => \/ ret[t] = <<"stopDone">> /\ At(t, "stopDone", <<>>)
                               \/ /\ ret[t] = <<"closeRun", "closed">>
                                  /\ At(t, "closeRun", <<"closed">>)
      /\ pc[t] \in {"close", "closeRun"} => At(t, "closed", <<>>)
      /\ pc[t] = "pause" => At(t, "pauseDone", <<>>)
      /\ pc[t] = "resume" => At(t, "resumeDone", <<>>)
  BY <1>1, <1>3, <1>4, <1>5, Popped DEF CtlAt, Starting, Stopping
<1>7. CtlAt(pc'[t], ret'[t])
  BY <1>6 DEF At, Calls, CtlAt
<1>. QED  BY <1>3, <1>6, <1>7

\* The same when recovery made it.
LEMMA SsrBack ==
  ASSUME Positions, NEW x \in {"ok", "err"}, Return(Ssr, x), pc[Ssr] \in Calls
  PROVE  /\ Control' /\ Stay(Ssr) /\ status'[Ssr] = x
         /\ pc[Ssr] = "open" => \/ ret[Ssr] = <<"upEnd">> /\ At(Ssr, "upEnd", <<>>)
                                \/ ret[Ssr] = <<"upOpened">> /\ At(Ssr, "upOpened", <<>>)
         /\ pc[Ssr] \in Starting => At(Ssr, "upStarted", <<>>)
         /\ pc[Ssr] \in Stopping =>
              \/ ret[Ssr] = <<"downStopped">> /\ At(Ssr, "downStopped", <<>>)
              \/ ret[Ssr] = <<"closeRun", "downEnd">> /\ At(Ssr, "closeRun", <<"downEnd">>)
         /\ pc[Ssr] \in {"close", "closeRun"} => At(Ssr, "downEnd", <<>>)
         /\ pc[Ssr] = "pause" => At(Ssr, "upEnd", <<>>)
         /\ pc[Ssr] # "resume"
         /\ SsrAt(pc'[Ssr], ret'[Ssr])
<1>1. Ssr \in Threads /\ SsrAt(pc[Ssr], ret[Ssr]) /\ Control
  BY Names DEF Positions
<1>2. Head(ret[Ssr]) \in Labels /\ Tail(ret[Ssr]) \in Returns
  <2>1. (\E a \in Labels : ret[Ssr] = <<a>>) \/ ret[Ssr] = <<"closeRun", "downEnd">>
    BY <1>1 DEF SsrAt, Calls, Starting, Stopping, Labels
  <2>2. <<>> \in Returns /\ <<"downEnd">> \in Returns /\ "closeRun" \in Labels
    BY DEF Returns, Labels
  <2>. QED  BY <2>1, <2>2, Popped
<1>3. Control' /\ Stay(Ssr) /\ At(Ssr, Head(ret[Ssr]), Tail(ret[Ssr])) /\ status'[Ssr] = x
  BY <1>1, <1>2, ReturnedTo
<1>4. \A a \in Labels : Head(<<a>>) = a /\ Tail(<<a>>) = <<>>
  BY Popped
<1>5. {"upEnd", "upOpened", "upStarted", "downStopped", "downEnd"} \subseteq Labels
  BY DEF Labels
<1>6. /\ pc[Ssr] = "open" => \/ ret[Ssr] = <<"upEnd">> /\ At(Ssr, "upEnd", <<>>)
                             \/ ret[Ssr] = <<"upOpened">> /\ At(Ssr, "upOpened", <<>>)
      /\ pc[Ssr] \in Starting => At(Ssr, "upStarted", <<>>)
      /\ pc[Ssr] \in Stopping =>
           \/ ret[Ssr] = <<"downStopped">> /\ At(Ssr, "downStopped", <<>>)
           \/ ret[Ssr] = <<"closeRun", "downEnd">> /\ At(Ssr, "closeRun", <<"downEnd">>)
      /\ pc[Ssr] \in {"close", "closeRun"} => At(Ssr, "downEnd", <<>>)
      /\ pc[Ssr] = "pause" => At(Ssr, "upEnd", <<>>)
      /\ pc[Ssr] # "resume"
  BY <1>1, <1>3, <1>4, <1>5, Popped DEF SsrAt, Starting, Stopping
<1>7. SsrAt(pc'[Ssr], ret'[Ssr])
  BY <1>6 DEF At, Calls, SsrAt
<1>. QED  BY <1>3, <1>6, <1>7

\* What a step of an operation does to the thread that runs it.
LEMMA OperationMoves ==
  ASSUME scenario \in Scenarios, NEW t \in Threads, Str(t) \in Streams, Operation(t)
  PROVE  \/ pc[t] \in Starting /\ \E l \in Starting : Goto(t, l)
         \/ pc[t] \in Stopping /\ \E l \in Stopping : Goto(t, l)
         \/ pc[t] = "close" /\ Call(t, "stop", "closeRun")
         \/ pc[t] \in Calls /\ \E x \in {"ok", "err"} : Return(t, x)
<1>1. CASE Open(t)
  BY <1>1 DEF Open, OpenIdle, Calls
<1>2. CASE StartEnter(t)
  BY <1>2 DEF StartEnter, Calls, Starting
<1>3. CASE StartRun(t)
  <2>1. ASSUME NEW s, NEW D, NEW st, SessionRun(t, s, D, st)
        PROVE  Return(t, "err") \/ Goto(t, "startReset") \/ Goto(t, "startLock")
    BY <2>1 DEF SessionRun
  <2>2. StartOutput(t, Str(t)) \/ StartInput(t, Str(t)) \/ StartLoopback(t, Str(t))
    BY <1>3, ScenarioIs DEF StartRun
  <2>3. Return(t, "err") \/ Goto(t, "startReset") \/ Goto(t, "startLock")
    <3>1. CASE StartOutput(t, Str(t))
      BY <3>1, <2>1 DEF StartOutput
    <3>2. CASE StartInput(t, Str(t))
      BY <3>2, <2>1 DEF StartInput
    <3>3. CASE StartLoopback(t, Str(t))
      BY <3>3, <2>1 DEF StartLoopback
    <3>. QED  BY <2>2, <3>1, <3>2, <3>3
  <2>. QED  BY <1>3, <2>3 DEF StartRun, Calls, Starting
<1>4. CASE StartReset(t) \/ StartLock(t) \/ StartRegister(t)
  BY <1>4 DEF StartReset, StartLock, StartRegister, Calls, Starting
<1>5. CASE StopEnter(t) \/ StopLock(t) \/ StopRun(t)
  BY <1>5 DEF StopEnter, StopLock, StopRun, Calls, Stopping
<1>6. CASE CloseEnter(t) \/ CloseRun(t)
  BY <1>6 DEF CloseEnter, CloseRun, CloseAll, Calls
<1>7. CASE Pause(t) \/ Resume(t)
  BY <1>7 DEF Pause, Resume, Calls
<1>. QED  BY <1>1, <1>2, <1>3, <1>4, <1>5, <1>6, <1>7 DEF Operation

-----------------------------------------------------------------------------
\* A step of one thread leaves the places of all others as they were.
LEMMA CtlKeeps ==
  ASSUME Positions, NEW t \in Controls, Control', Stay(t), CtlAt(pc'[t], ret'[t])
  PROVE  Positions'
BY Names DEF Positions, Stay

\* The same for the recovery thread.
LEMMA SsrKeeps ==
  ASSUME Positions, Control', Stay(Ssr), SsrAt(pc'[Ssr], ret'[Ssr])
  PROVE  Positions'
BY Names DEF Positions, Stay

\* The same for a writer.
LEMMA WrKeeps ==
  ASSUME Positions, NEW t \in WriterThreads, Control', Stay(t), WrAt(pc'[t], ret'[t])
  PROVE  Positions'
BY Names DEF Positions, Stay

\* Every step of open, start, stop, close, pause and resume stays on its way.
LEMMA OperationPositions ==
  ASSUME Positions, scenario \in Scenarios, NEW t \in Controls \cup {Ssr}, Str(t) \in Streams,
         Operation(t)
  PROVE  Positions' /\ Stay(t)
<1>1. t \in Threads /\ Control /\ Starting \subseteq Labels /\ Stopping \subseteq Labels
  BY Names DEF Positions, Labels
<1>2. \/ pc[t] \in Starting /\ \E l \in Starting : Goto(t, l)
      \/ pc[t] \in Stopping /\ \E l \in Stopping : Goto(t, l)
      \/ pc[t] = "close" /\ Call(t, "stop", "closeRun")
      \/ pc[t] \in Calls /\ \E x \in {"ok", "err"} : Return(t, x)
  BY <1>1, OperationMoves
<1>3. ASSUME NEW l, Goto(t, l),
             \/ pc[t] \in Starting /\ l \in Starting
             \/ pc[t] \in Stopping /\ l \in Stopping
      PROVE  Positions' /\ Stay(t)
  <2>1. Control' /\ Stay(t) /\ At(t, l, ret[t])
    BY <1>1, <1>3, GoneTo
  <2>2. CASE t \in Controls
    <3>1. CtlAt(pc[t], ret[t])
      BY <2>2 DEF Positions
    <3>2. CtlAt(pc'[t], ret'[t])
      BY <1>3, <2>1, <3>1 DEF CtlAt, At, Starting, Stopping
    <3>. QED  BY <2>1, <2>2, <3>2, CtlKeeps
  <2>3. CASE t = Ssr
    <3>1. SsrAt(pc[Ssr], ret[Ssr])
      BY DEF Positions
    <3>2. SsrAt(pc'[Ssr], ret'[Ssr])
      BY <1>3, <2>1, <2>3, <3>1 DEF SsrAt, At, Starting, Stopping
    <3>. QED  BY <2>1, <2>3, <3>2, SsrKeeps
  <2>. QED  BY <2>2, <2>3
<1>4. ASSUME pc[t] = "close", Call(t, "stop", "closeRun")
      PROVE  Positions' /\ Stay(t)
  <2>1. CASE t \in Controls
    <3>1. ret[t] = <<"closed">>
      BY <1>4, <2>1 DEF Positions, CtlAt, Starting, Stopping
    <3>2. <<"closeRun">> \o ret[t] = <<"closeRun", "closed">>
      BY <3>1, Pushed
    <3>3. Control' /\ Stay(t) /\ At(t, "stop", <<"closeRun", "closed">>)
      BY <1>1, <1>4, <3>2, CalledTo DEF Stopping, Returns
    <3>4. CtlAt(pc'[t], ret'[t])
      BY <3>3 DEF At, CtlAt, Stopping
    <3>. QED  BY <2>1, <3>3, <3>4, CtlKeeps
  <2>2. CASE t = Ssr
    <3>1. ret[t] = <<"downEnd">>
      BY <1>4, <2>2 DEF Positions, SsrAt, Starting, Stopping
    <3>2. <<"closeRun">> \o ret[t] = <<"closeRun", "downEnd">>
      BY <3>1, Pushed
    <3>3. Control' /\ Stay(t) /\ At(t, "stop", <<"closeRun", "downEnd">>)
      BY <1>1, <1>4, <3>2, CalledTo DEF Stopping, Returns
    <3>4. SsrAt(pc'[Ssr], ret'[Ssr])
      BY <2>2, <3>3 DEF At, SsrAt, Stopping
    <3>. QED  BY <2>2, <3>3, <3>4, SsrKeeps
  <2>. QED  BY <2>1, <2>2
<1>5. ASSUME pc[t] \in Calls, NEW x \in {"ok", "err"}, Return(t, x)
      PROVE  Positions' /\ Stay(t)
  <2>1. CASE t \in Controls
    BY <1>5, <2>1, CtlBack, CtlKeeps
  <2>2. CASE t = Ssr
    BY <1>5, <2>2, SsrBack, SsrKeeps
  <2>. QED  BY <2>1, <2>2
<1>. QED  BY <1>2, <1>3, <1>4, <1>5

\* A client thread between two calls goes on, or calls.
LEMMA CtlGoes ==
  ASSUME Positions, NEW t \in Controls, NEW l \in Labels, ret[t] = <<>>,
         \/ Goto(t, l) /\ CtlAt(l, <<>>)
         \/ \E b \in Labels : Call(t, l, b) /\ <<b>> \in Returns /\ CtlAt(l, <<b>>)
  PROVE  Positions' /\ Stay(t)
<1>1. t \in Threads /\ Control
  BY Names DEF Positions
<1>2. CASE Goto(t, l) /\ CtlAt(l, <<>>)
  BY <1>1, <1>2, GoneTo, CtlKeeps DEF At
<1>3. ASSUME NEW b \in Labels, Call(t, l, b), <<b>> \in Returns, CtlAt(l, <<b>>)
      PROVE  Positions' /\ Stay(t)
  <2>1. <<b>> \o ret[t] = <<b>>
    BY Pushed
  <2>2. Control' /\ Stay(t) /\ At(t, l, <<b>>)
    BY <1>1, <1>3, <2>1, CalledTo
  <2>. QED  BY <1>3, <2>2, CtlKeeps DEF At
<1>. QED  BY <1>2, <1>3

\* The recovery thread between two calls goes on, or calls.
LEMMA SsrGoes ==
  ASSUME Positions, NEW l \in Labels, ret[Ssr] = <<>>,
         \/ Goto(Ssr, l) /\ SsrAt(l, <<>>)
         \/ \E b \in Labels : Call(Ssr, l, b) /\ <<b>> \in Returns /\ SsrAt(l, <<b>>)
  PROVE  Positions' /\ Stay(Ssr)
<1>1. Ssr \in Threads /\ Control
  BY Names DEF Positions
<1>2. CASE Goto(Ssr, l) /\ SsrAt(l, <<>>)
  BY <1>1, <1>2, GoneTo, SsrKeeps DEF At
<1>3. ASSUME NEW b \in Labels, Call(Ssr, l, b), <<b>> \in Returns, SsrAt(l, <<b>>)
      PROVE  Positions' /\ Stay(Ssr)
  <2>1. <<b>> \o ret[Ssr] = <<b>>
    BY Pushed
  <2>2. Control' /\ Stay(Ssr) /\ At(Ssr, l, <<b>>)
    BY <1>1, <1>3, <2>1, CalledTo
  <2>. QED  BY <1>3, <2>2, SsrKeeps DEF At
<1>. QED  BY <1>2, <1>3

\* So do the steps of pal_stream_open, start, stop, pause, resume and close.
LEMMA CallerPositions ==
  ASSUME Positions, NEW t \in Controls,
         \/ PalOpened(t) \/ PalStop(t) \/ PalClose(t) \/ PalDone(t) \/ PalClosed(t)
         \/ PalOpen(t) \/ \E op \in Ops : PalCall(t, op)
  PROVE  Positions' /\ Stay(t)
<1>1. t \in Threads /\ Control /\ CtlAt(pc[t], ret[t])
  BY Names DEF Positions
<1>2. /\ {"idle", "palStop", "palClose", "open", "close", "stop", "start", "pause",
          "resume", "opened", "closed", "stopDone", "startDone", "pauseDone",
          "resumeDone"} \subseteq Labels
      /\ \A l \in {"idle", "palStop", "palClose"} : CtlAt(l, <<>>)
      /\ CtlAt("open", <<"opened">>) /\ CtlAt("close", <<"closed">>)
      /\ CtlAt("stop", <<"stopDone">>) /\ CtlAt("start", <<"startDone">>)
      /\ CtlAt("pause", <<"pauseDone">>) /\ CtlAt("resume", <<"resumeDone">>)
      /\ {<<"opened">>, <<"closed">>, <<"stopDone">>, <<"startDone">>, <<"pauseDone">>,
          <<"resumeDone">>} \subseteq Returns
  BY DEF CtlAt, Labels, Returns, Starting, Stopping
<1>3. pc[t] \in {"idle", "opened", "palStop", "palClose", "startDone", "stopDone", "pauseDone",
                 "resumeDone", "closed"} => ret[t] = <<>>
  BY <1>1 DEF CtlAt, Starting, Stopping
<1>4. CASE PalOpened(t)
  BY <1>2, <1>3, <1>4, CtlGoes DEF PalOpened
<1>5. CASE PalStop(t) \/ PalClose(t)
  BY <1>2, <1>3, <1>5, CtlGoes DEF PalStop, PalClose
<1>6. CASE PalDone(t) \/ PalClosed(t)
  BY <1>2, <1>3, <1>6, CtlGoes DEF PalDone, PalClosed
<1>7. CASE PalOpen(t)
  BY <1>2, <1>3, <1>7, CtlGoes DEF PalOpen
<1>8. ASSUME NEW op \in Ops, PalCall(t, op)
      PROVE  Positions' /\ Stay(t)
  <2>1. op \in {"start", "stop", "pause", "resume", "close"}
    BY <1>8 DEF PalCall, MayCall
  <2>2. \/ Call(t, "start", "startDone") \/ Goto(t, "palStop") \/ Call(t, "pause", "pauseDone")
        \/ Call(t, "resume", "resumeDone") \/ Goto(t, "palClose")
    BY <1>8, <2>1 DEF PalCall
  <2>3. pc[t] = "idle"
    BY <1>8 DEF PalCall
  <2>. QED  BY <1>2, <1>3, <2>2, <2>3, CtlGoes
<1>. QED  BY <1>4, <1>5, <1>6, <1>7, <1>8

\* So do the steps of a write.
LEMMA WriterPositions ==
  ASSUME Positions, NEW t \in WriterThreads, WriterStep(t) \/ PalWrite(t)
  PROVE  Positions' /\ Stay(t)
<1>1. t \in Threads /\ Control /\ WrAt(pc[t], ret[t])
  BY Names DEF Positions
<1>2. \E l \in {"idle", "write", "writeReset", "writeCheck", "writeLock", "writeRegister",
                "writeState"} : Goto(t, l)
  BY DEF WriterStep, PalWrite, Write, WriteReset, WriteCheck, WriteLock, WriteRegister,
    WriteState
<1>3. PICK l \in {"idle", "write", "writeReset", "writeCheck", "writeLock", "writeRegister",
                  "writeState"} : Goto(t, l)
  BY <1>2
<1>4. Control' /\ Stay(t) /\ At(t, l, ret[t])
  BY <1>1, <1>3, GoneTo DEF Labels
<1>5. WrAt(pc'[t], ret'[t])
  BY <1>1, <1>4 DEF At, WrAt
<1>. QED  BY <1>4, <1>5, WrKeeps

\* The steps of the recovery thread outside the operations of its stream.
SsrOwn == SsrTake \/ SsrNext \/ SsrDone \/ SsrDown \/ SsrDownStopped \/ SsrDownEnd
          \/ SsrUp \/ SsrUpOpened \/ SsrUpStarted \/ SsrUpEnd

\* So do the steps of the recovery thread itself.
LEMMA SsrPositions ==
  ASSUME Positions, SsrOwn
  PROVE  Positions' /\ Stay(Ssr)
<1>1. Ssr \in Threads /\ Control /\ SsrAt(pc[Ssr], ret[Ssr])
  BY Names DEF Positions
<1>2. /\ {"idle", "walk", "down", "up", "close", "stop", "downEnd", "downStopped", "upEnd",
          "upOpened", "upStarted", "open", "start", "pause"} \subseteq Labels
      /\ \A l \in {"idle", "walk", "down", "up", "downEnd", "upEnd"} : SsrAt(l, <<>>)
      /\ SsrAt("close", <<"downEnd">>) /\ SsrAt("stop", <<"downStopped">>)
      /\ SsrAt("open", <<"upEnd">>) /\ SsrAt("open", <<"upOpened">>)
      /\ SsrAt("start", <<"upStarted">>) /\ SsrAt("pause", <<"upEnd">>)
      /\ {<<"downEnd">>, <<"downStopped">>, <<"upEnd">>, <<"upOpened">>, <<"upStarted">>}
           \subseteq Returns
  BY DEF SsrAt, Labels, Returns, Starting, Stopping
<1>3. pc[Ssr] \in {"idle", "walk", "down", "downStopped", "downEnd", "up", "upOpened",
                   "upStarted", "upEnd"} => ret[Ssr] = <<>>
  BY <1>1 DEF SsrAt, Starting, Stopping
<1>4. ASSUME UNCHANGED <<ret, pc, status, scenario>>
      PROVE  Positions' /\ Stay(Ssr)
  BY <1>4 DEF Positions, Control, Stay
<1>5. CASE SsrTake \/ SsrNext \/ SsrDone
  BY <1>2, <1>3, <1>4, <1>5, SsrGoes DEF SsrTake, SsrNext, SsrDone
<1>6. CASE SsrDown
  BY <1>2, <1>3, <1>6, SsrGoes DEF SsrDown
<1>7. CASE SsrDownStopped \/ SsrDownEnd
  BY <1>2, <1>3, <1>7, SsrGoes DEF SsrDownStopped, SsrDownEnd
<1>8. CASE SsrUp
  <2>1. \/ Goto(Ssr, "walk") \/ Call(Ssr, "open", "upEnd") \/ Call(Ssr, "open", "upOpened")
        \/ Goto(Ssr, "upEnd")
    BY <1>8 DEF SsrUp
  <2>2. pc[Ssr] = "up"
    BY <1>8 DEF SsrUp
  <2>. QED  BY <1>2, <1>3, <2>1, <2>2, SsrGoes
<1>9. CASE SsrUpOpened
  BY <1>2, <1>3, <1>9, SsrGoes DEF SsrUpOpened
<1>10. CASE SsrUpStarted \/ SsrUpEnd
  BY <1>2, <1>3, <1>10, SsrGoes DEF SsrUpStarted, SsrUpEnd
<1>. QED  BY <1>5, <1>6, <1>7, <1>8, <1>9, <1>10 DEF SsrOwn

-----------------------------------------------------------------------------
\* Only stream s, and its mutex, may change.
Frame(s) ==
  \A u \in Streams \ {s} : strm'[u] = strm[u] /\ mStreamMutex'[u] = mStreamMutex[u]

\* The types of the streams, the mutexes, the card and recovery's locals.
StreamsTyped == strm \in [Streams -> StreamType]
MutexesTyped ==
  /\ mStreamMutex \in [Streams -> Threads \cup {None}]
  /\ mActiveStreamMutex \in Threads \cup {None}
CardTyped ==
  /\ card \in Statuses \cup {"online"} /\ cardState \in Statuses \cup {"online"}
  /\ prevState \in Statuses \cup {"online"} /\ msgQ \in Seq(Statuses \cup {"online"})
  /\ downs \in Nat
SsrTyped ==
  /\ ssr.upTo \in State /\ (pc[Ssr] \notin {"idle", "walk"} => ssr.stream \in Streams)
  /\ ssr \in [stream : Streams \cup {None}, upTo : State, visited : SUBSET Streams]

\* Together they are the types of all variables.
LEMMA TypedIs ==
  Typed <=> /\ scenario \in Scenarios /\ StreamsTyped /\ dev \in UseType
            /\ active_devices \subseteq Devices \X Streams
            /\ MutexesTyped /\ CardTyped /\ SsrTyped /\ Positions
BY DEF Typed, StreamsTyped, MutexesTyped, CardTyped, SsrTyped

\* The mutexes keep their types, and only that of stream s changes.
LEMMA MutexSteps ==
  ASSUME MutexesTyped, NEW s \in Streams, NEW t \in Threads
  PROVE  /\ LockStream(s, t) => /\ mStreamMutex' \in [Streams -> Threads \cup {None}]
                                /\ mStreamMutex'[s] = t
                                /\ \A u \in Streams \ {s} : mStreamMutex'[u] = mStreamMutex[u]
         /\ UnlockStream(s) => /\ mStreamMutex' \in [Streams -> Threads \cup {None}]
                               /\ mStreamMutex'[s] = None
                               /\ \A u \in Streams \ {s} : mStreamMutex'[u] = mStreamMutex[u]
         /\ LockActive(t) => mActiveStreamMutex' \in Threads \cup {None}
         /\ UnlockActive => mActiveStreamMutex' \in Threads \cup {None}
BY DEF MutexesTyped, LockStream, UnlockStream, LockActive, UnlockActive

\* A stream changed within its type.
LEMMA StreamSteps ==
  ASSUME StreamsTyped, NEW s \in Streams, NEW x \in StreamType, strm' = [strm EXCEPT ![s] = x]
  PROVE  StreamsTyped' /\ strm'[s] = x /\ \A u \in Streams \ {s} : strm'[u] = strm[u]
BY DEF StreamsTyped

\* A start keeps the types, whichever device or session fails.
LEMMA StartRunTyped ==
  ASSUME Typed, NEW t \in Controls \cup {Ssr}, Str(t) \in Streams, StartRun(t)
  PROVE  /\ StreamsTyped' /\ MutexesTyped' /\ dev' \in UseType /\ Frame(Str(t))
         /\ UNCHANGED <<active_devices, mActiveStreamMutex, cardVars, ssr>>
<1>. DEFINE s == Str(t)
            x == strm[s]
<1>1. SUFFICES StreamsTyped' /\ MutexesTyped' /\ dev' \in UseType /\ Frame(s)
  BY DEF StartRun
<1>2. t \in Threads /\ s \in Streams /\ x \in StreamType /\ StreamsTyped /\ MutexesTyped
      /\ dev \in UseType /\ scenario \in Scenarios
  BY Names, TypedIs DEF StreamsTyped
<1>3. x.mDevices \subseteq Devices
  BY <1>2 DEF StreamType
<1>4. ASSUME NEW D, D \subseteq Devices, NEW u \in UseType, SessionRun(t, s, D, u)
      PROVE  StreamsTyped' /\ MutexesTyped' /\ dev' \in UseType /\ Frame(s)
  <2>1. CASE /\ dev' = Stopped(u, D) /\ strm' = [strm EXCEPT ![s].mDevices = D]
             /\ UnlockStream(s) /\ UNCHANGED mActiveStreamMutex
    <3>1. strm' = [strm EXCEPT ![s] = [x EXCEPT !.mDevices = D]]
          /\ [x EXCEPT !.mDevices = D] \in StreamType
      BY <1>2, <1>4, <2>1 DEF StreamType, StreamsTyped
    <3>2. StreamsTyped' /\ \A v \in Streams \ {s} : strm'[v] = strm[v]
      BY <1>2, <3>1, StreamSteps
    <3>. QED  BY <1>2, <1>4, <2>1, <3>2, MutexSteps, ClosedStoppedTyped DEF MutexesTyped, Frame
  <2>2. CASE /\ dev' = u /\ strm' = [strm EXCEPT ![s].mDevices = D]
             /\ UNCHANGED <<mStreamMutex, mActiveStreamMutex>>
    <3>1. strm' = [strm EXCEPT ![s] = [x EXCEPT !.mDevices = D]]
          /\ [x EXCEPT !.mDevices = D] \in StreamType
      BY <1>2, <1>4, <2>2 DEF StreamType, StreamsTyped
    <3>2. StreamsTyped' /\ \A v \in Streams \ {s} : strm'[v] = strm[v]
      BY <1>2, <3>1, StreamSteps
    <3>. QED  BY <1>2, <1>4, <2>2, <3>2 DEF MutexesTyped, Frame
  <2>3. CASE /\ dev' = u /\ UnlockStream(s) /\ UNCHANGED mActiveStreamMutex
             /\ strm' = [strm EXCEPT ![s].mDevices = D, ![s].currentState = "STARTED",
                             ![s].session = "started"]
    <3>1. strm' = [strm EXCEPT ![s] = [x EXCEPT !.mDevices = D, !.currentState = "STARTED",
                                                !.session = "started"]]
          /\ [x EXCEPT !.mDevices = D, !.currentState = "STARTED", !.session = "started"]
               \in StreamType
      BY <1>2, <1>4, <2>3 DEF StreamType, StreamsTyped, State
    <3>2. StreamsTyped' /\ \A v \in Streams \ {s} : strm'[v] = strm[v]
      BY <1>2, <3>1, StreamSteps
    <3>. QED  BY <1>2, <1>4, <2>3, <3>2, MutexSteps DEF MutexesTyped, Frame
  <2>4. UNCHANGED mActiveStreamMutex
    BY DEF StartRun
  <2>. QED  BY <1>4, <2>1, <2>2, <2>3, <2>4 DEF SessionRun
<1>5. ASSUME strm' = strm, UnlockStream(s), dev' \in UseType
      PROVE  StreamsTyped' /\ MutexesTyped' /\ dev' \in UseType /\ Frame(s)
  <2>1. UNCHANGED mActiveStreamMutex
    BY DEF StartRun
  <2>. QED  BY <1>2, <1>5, <2>1, MutexSteps DEF StreamsTyped, MutexesTyped, Frame
<1>6. ASSUME NEW D, D \subseteq Devices
      PROVE  /\ Started(dev, D) \in UseType
             /\ \A E : Closed(Started(dev, D), E) \in UseType
             /\ \A E : Stopped(Started(dev, D), E) \in UseType
  BY <1>2, OpenedStartedTyped, ClosedStoppedTyped
<1>7. CASE StartOutput(t, s)
  <2>1. PICK F \in SUBSET x.mDevices :
          LET ok == x.mDevices \ F
              started == Closed(Started(dev, ok), F) IN
            IF ok # {}
              THEN SessionRun(t, s, ok, started)
              ELSE /\ dev' = started
                   /\ strm' = [strm EXCEPT ![s].mDevices = {}]
                   /\ UnlockStream(s)
    BY <1>7 DEF StartOutput
  <2>2. CASE x.mDevices \ F # {}
    BY <1>3, <1>4, <1>6, <2>1, <2>2
  <2>3. CASE x.mDevices \ F = {}
    <3>1. strm' = [strm EXCEPT ![s] = [x EXCEPT !.mDevices = {}]]
          /\ [x EXCEPT !.mDevices = {}] \in StreamType
      BY <1>2, <2>1, <2>3 DEF StreamType, StreamsTyped
    <3>2. StreamsTyped' /\ \A v \in Streams \ {s} : strm'[v] = strm[v]
      BY <1>2, <3>1, StreamSteps
    <3>3. dev' \in UseType /\ UnlockStream(s) /\ UNCHANGED mActiveStreamMutex
      BY <1>3, <1>6, <2>1, <2>3 DEF StartRun
    <3>. QED  BY <1>2, <3>2, <3>3, MutexSteps DEF MutexesTyped, Frame
  <2>. QED  BY <2>2, <2>3
<1>8. CASE StartInput(t, s)
  <2>1. CASE SessionRun(t, s, x.mDevices, Started(dev, x.mDevices))
    BY <1>3, <1>4, <1>6, <2>1
  <2>2. CASE /\ \E D \in ProperSubsets(x.mDevices) : dev' = Started(dev, D)
             /\ UnlockStream(s) /\ UNCHANGED strm
    <3>1. dev' \in UseType
      BY <1>3, <1>6, <2>2 DEF ProperSubsets
    <3>. QED  BY <2>2, <3>1, <1>5
  <2>. QED  BY <1>8, <2>1, <2>2 DEF StartInput
<1>9. CASE StartLoopback(t, s)
  <2>1. CASE SessionRun(t, s, x.mDevices, Started(dev, x.mDevices))
    BY <1>3, <1>4, <1>6, <2>1
  <2>2. CASE /\ \/ \E D \in ProperSubsets(RxOf(x.mDevices)) : dev' = Started(dev, D)
                \/ \E D \in ProperSubsets(TxOf(x.mDevices)) :
                     dev' = Stopped(Started(dev, RxOf(x.mDevices) \cup D), RxOf(x.mDevices))
             /\ UnlockStream(s) /\ UNCHANGED strm
    <3>1. dev' \in UseType
      <4>1. CASE \E D \in ProperSubsets(RxOf(x.mDevices)) : dev' = Started(dev, D)
        BY <1>3, <1>6, <4>1 DEF ProperSubsets, RxOf
      <4>2. ASSUME NEW D \in ProperSubsets(TxOf(x.mDevices)),
                   dev' = Stopped(Started(dev, RxOf(x.mDevices) \cup D), RxOf(x.mDevices))
            PROVE  dev' \in UseType
        <5>1. RxOf(x.mDevices) \cup D \subseteq Devices
          BY <1>3 DEF ProperSubsets, RxOf, TxOf
        <5>2. \A E : Stopped(Started(dev, RxOf(x.mDevices) \cup D), E) \in UseType
          BY <1>6, <5>1
        <5>. QED  BY <4>2, <5>2
      <4>. QED  BY <2>2, <4>1, <4>2
    <3>. QED  BY <2>2, <3>1, <1>5
  <2>. QED  BY <1>9, <2>1, <2>2 DEF StartLoopback
<1>10. StartOutput(t, s) \/ StartInput(t, s) \/ StartLoopback(t, s)
  BY <1>2, ScenarioIs DEF StartRun
<1>. QED  BY <1>7, <1>8, <1>9, <1>10

\* What recovery may be told keeps the queue's type.
LEMMA ReportTyped ==
  ASSUME CardTyped, ReportLoss
  PROVE  msgQ' \in Seq(Statuses \cup {"online"})
BY DEF CardTyped, ReportLoss, Statuses

\* So does every operation; it changes its own stream only.
LEMMA OperationTyped ==
  ASSUME Typed, NEW t \in Controls \cup {Ssr}, Operation(t)
  PROVE  Str(t) \in Streams /\ Typed' /\ Frame(Str(t)) /\ Stay(t) /\ ssr' = ssr
         /\ UNCHANGED <<card, downs, cardState, prevState>>
<1>. DEFINE s == Str(t)
            x == strm[s]
<1>1. t \in Threads /\ StreamsTyped /\ MutexesTyped /\ dev \in UseType /\ SsrTyped /\ CardTyped
      /\ scenario \in Scenarios /\ Positions /\ active_devices \subseteq Devices \X Streams
  BY Names, TypedIs
<1>2. pc[t] \in Calls
  <2>1. ASSUME NEW u, Operation(u) PROVE pc[u] \in Calls
    BY <2>1 DEF Operation, Open, StartEnter, StartRun, StartReset, StartLock, StartRegister,
      StopEnter, StopLock, StopRun, CloseEnter, CloseRun, Pause, Resume, Calls, Starting, Stopping
  <2>. QED  BY <2>1
<1>3. s \in Streams
  <2>1. CASE t \in Controls
    BY <2>1, Names
  <2>2. CASE t = Ssr
    BY <1>1, <1>2, <2>2, Names DEF SsrTyped, Calls, Starting, Stopping
  <2>. QED  BY <2>1, <2>2
<1>4. x \in StreamType /\ x.mDevices \subseteq Devices
  BY <1>1, <1>3 DEF StreamsTyped, StreamType
<1>5. Positions' /\ Stay(t) /\ scenario' \in Scenarios
  BY <1>1, <1>3, OperationPositions DEF Stay
<1>6. SUFFICES /\ StreamsTyped' /\ MutexesTyped' /\ dev' \in UseType /\ Frame(s)
               /\ msgQ' \in Seq(Statuses \cup {"online"}) /\ ssr' = ssr
               /\ UNCHANGED <<card, downs, cardState, prevState>>
               /\ active_devices' \subseteq Devices \X Streams
  <2>1. ASSUME ssr' = ssr  PROVE SsrTyped'
    <3>1. CASE t \in Controls
      BY <1>1, <1>5, <2>1, <3>1, Names DEF SsrTyped, Stay
    <3>2. CASE t = Ssr
      BY <1>1, <1>3, <2>1, <3>2, Names DEF SsrTyped
    <3>. QED  BY <3>1, <3>2
  <2>2. ASSUME msgQ' \in Seq(Statuses \cup {"online"}),
               UNCHANGED <<card, downs, cardState, prevState>>
        PROVE  CardTyped'
    BY <1>1, <2>2 DEF CardTyped
  <2>3. ASSUME scenario' \in Scenarios, StreamsTyped', dev' \in UseType,
               active_devices' \subseteq Devices \X Streams,
               MutexesTyped', CardTyped', SsrTyped', Positions'
        PROVE  Typed'
    BY <2>3 DEF Typed, StreamsTyped, MutexesTyped, CardTyped, SsrTyped
  <2>. QED  BY <1>3, <1>5, <2>1, <2>2, <2>3
<1>7. ASSUME UNCHANGED <<active_devices, cardVars, ssr>>
      PROVE  /\ msgQ' \in Seq(Statuses \cup {"online"}) /\ ssr' = ssr
             /\ UNCHANGED <<card, downs, cardState, prevState>>
             /\ active_devices' \subseteq Devices \X Streams
  BY <1>1, <1>7 DEF cardVars, CardTyped
<1>8. ASSUME NEW y \in StreamType, strm' = strm \/ strm' = [strm EXCEPT ![s] = y]
      PROVE  StreamsTyped' /\ \A u \in Streams \ {s} : strm'[u] = strm[u]
  BY <1>1, <1>3, <1>8, StreamSteps DEF StreamsTyped
<1>9. ASSUME UNCHANGED mStreamMutex, mActiveStreamMutex' \in Threads \cup {None}
      PROVE  MutexesTyped' /\ \A u \in Streams \ {s} : mStreamMutex'[u] = mStreamMutex[u]
  BY <1>1, <1>9 DEF MutexesTyped
<1>10. ASSUME UNCHANGED mActiveStreamMutex, LockStream(s, t) \/ UnlockStream(s)
       PROVE  MutexesTyped' /\ \A u \in Streams \ {s} : mStreamMutex'[u] = mStreamMutex[u]
  BY <1>1, <1>3, <1>10, MutexSteps DEF MutexesTyped
<1>11. mActiveStreamMutex \in Threads \cup {None}
  BY <1>1 DEF MutexesTyped
<1>12. ASSUME NEW D  PROVE Closed(dev, D) \in UseType /\ Stopped(dev, D) \in UseType
                           /\ Opened(dev, D) \in UseType /\ Closed(Opened(dev, D), D) \in UseType
  BY <1>1, OpenedStartedTyped, ClosedStoppedTyped
<1>13. CASE Open(t)
  <2>1. UNCHANGED <<active_devices, Mutexes, cardVars, ssr>> /\ UNCHANGED mStreamMutex
        /\ UNCHANGED mActiveStreamMutex
    BY <1>13 DEF Open, Mutexes
  <2>2. dev' \in UseType
    <3>1. \/ dev' = dev
          \/ \E D : dev' = Opened(dev, D)
          \/ \E D : dev' = Closed(Opened(dev, D), D)
      BY <1>13 DEF Open, OpenIdle
    <3>. QED  BY <1>1, <1>12, <3>1
  <2>3. \E y \in StreamType : strm' = strm \/ strm' = [strm EXCEPT ![s] = y]
    <3>1. \/ strm' = strm
          \/ strm' = [strm EXCEPT ![s] = [x EXCEPT !.currentState = "INIT",
                   !.session = IF CardUp \/ ~May("openLost") THEN "opened" ELSE "lost"]]
      BY <1>1, <1>3, <1>13 DEF Open, OpenIdle, StreamsTyped
    <3>2. [x EXCEPT !.currentState = "INIT",
             !.session = IF CardUp \/ ~May("openLost") THEN "opened" ELSE "lost"] \in StreamType
      BY ZenonT(30), <1>4 DEF StreamType, State
    <3>. QED  BY <1>4, <3>1, <3>2
  <2>. QED  BY <1>7, <1>8, <1>9, <1>11, <2>1, <2>2, <2>3 DEF Frame
<1>14. CASE StartEnter(t)
  <2>1. UNCHANGED <<active_devices, cardVars, ssr>> /\ dev' = dev /\ UNCHANGED mActiveStreamMutex
        /\ (UNCHANGED mStreamMutex \/ LockStream(s, t))
    BY <1>14 DEF StartEnter
  <2>2. \/ strm' = strm
        \/ strm' = [strm EXCEPT ![s] = [x EXCEPT !.cachedState = "STARTED"]]
    BY <1>1, <1>3, <1>14 DEF StartEnter, StreamsTyped
  <2>3. [x EXCEPT !.cachedState = "STARTED"] \in StreamType
    BY ZenonT(30), <1>4 DEF StreamType, State
  <2>. QED  BY <1>1, <1>7, <1>8, <1>9, <1>10, <1>11, <2>1, <2>2, <2>3 DEF Frame
<1>15. CASE StartRun(t)
  BY <1>1, <1>3, <1>7, <1>15, StartRunTyped
<1>16. CASE StartReset(t)
  <2>1. UNCHANGED active_devices /\ ssr' = ssr /\ UNCHANGED mActiveStreamMutex /\ UnlockStream(s)
        /\ dev' = Stopped(dev, x.mDevices) /\ ReportLoss
        /\ UNCHANGED <<card, downs, cardState, prevState>>
    BY <1>16 DEF StartReset
  <2>2. strm' = [strm EXCEPT ![s] = [x EXCEPT !.cachedState = "STARTED"]]
    BY <1>1, <1>3, <1>16 DEF StartReset, StreamsTyped
  <2>3. [x EXCEPT !.cachedState = "STARTED"] \in StreamType
    BY ZenonT(30), <1>4 DEF StreamType, State
  <2>. QED  BY <1>1, <1>8, <1>10, <1>12, <2>1, <2>2, <2>3, ReportTyped DEF Frame
<1>17. CASE StartLock(t) \/ StopLock(t)
  <2>1. UNCHANGED <<active_devices, cardVars, ssr>> /\ dev' = dev /\ strm' = strm
        /\ UNCHANGED mStreamMutex /\ LockActive(t)
    BY <1>17 DEF StartLock, StopLock
  <2>2. mActiveStreamMutex' \in Threads \cup {None}
    BY <1>1, <1>3, <2>1, MutexSteps
  <2>. QED  BY <1>1, <1>4, <1>7, <1>8, <1>9, <2>1, <2>2 DEF Frame
<1>18. CASE StartRegister(t) \/ StopRun(t)
  <2>1. UNCHANGED <<cardVars, ssr>> /\ UNCHANGED mStreamMutex /\ UnlockActive
        /\ \/ active_devices' = active_devices \cup (x.mDevices \X {s})
           \/ active_devices' = active_devices \ (x.mDevices \X {s})
    BY <1>18 DEF StartRegister, StopRun
  <2>2. mActiveStreamMutex' \in Threads \cup {None}
    BY <1>1, <1>3, <2>1, MutexSteps
  <2>3. dev' = dev \/ \E D : dev' = Stopped(dev, D)
    BY <1>18 DEF StartRegister, StopRun
  <2>4. \/ strm' = strm
        \/ strm' = [strm EXCEPT ![s] = [x EXCEPT !.currentState = "STOPPED",
                            !.session = IF @ = "started" THEN "opened" ELSE @,
                            !.sessionPaused = FALSE]]
    BY <1>1, <1>3, <1>18 DEF StartRegister, StopRun, StreamsTyped
  <2>5. [x EXCEPT !.currentState = "STOPPED", !.session = IF @ = "started" THEN "opened" ELSE @,
                  !.sessionPaused = FALSE] \in StreamType
    BY ZenonT(30), <1>4 DEF StreamType, State
  <2>6. active_devices' \subseteq Devices \X Streams
    BY <1>1, <1>3, <1>4, <2>1
  <2>7. dev' \in UseType
    BY <1>1, <1>12, <2>3
  <2>8. /\ msgQ' \in Seq(Statuses \cup {"online"}) /\ ssr' = ssr
        /\ UNCHANGED <<card, downs, cardState, prevState>>
    BY <1>1, <2>1 DEF cardVars, CardTyped
  <2>. QED  BY <1>8, <1>9, <2>1, <2>2, <2>4, <2>5, <2>6, <2>7, <2>8 DEF Frame
<1>19. CASE StopEnter(t)
  <2>1. UNCHANGED <<active_devices, cardVars, ssr>> /\ dev' = dev /\ strm' = strm
        /\ UNCHANGED mStreamMutex /\ UNCHANGED mActiveStreamMutex
    BY <1>19 DEF StopEnter, Mutexes
  <2>. QED  BY <1>1, <1>4, <1>7, <1>8, <1>9, <1>11, <2>1 DEF Frame
<1>20. CASE CloseEnter(t) \/ CloseRun(t)
  <2>1. UNCHANGED <<active_devices, cardVars, ssr>> /\ UNCHANGED mStreamMutex
        /\ UNCHANGED mActiveStreamMutex /\ (dev' = dev \/ dev' = Closed(dev, x.mDevices))
    BY <1>20 DEF CloseEnter, CloseRun, CloseAll, Mutexes
  <2>2. \/ strm' = strm
        \/ strm' = [strm EXCEPT ![s] = [x EXCEPT !.currentState = "IDLE", !.session = "closed"]]
    BY <1>1, <1>3, <1>20 DEF CloseEnter, CloseRun, CloseAll, StreamsTyped
  <2>3. [x EXCEPT !.currentState = "IDLE", !.session = "closed"] \in StreamType
    BY ZenonT(30), <1>4 DEF StreamType, State
  <2>. QED  BY <1>1, <1>7, <1>8, <1>9, <1>11, <1>12, <2>1, <2>2, <2>3 DEF Frame
<1>21. CASE Pause(t)
  <2>1. UNCHANGED <<active_devices, cardVars, ssr>> /\ UNCHANGED mStreamMutex
        /\ UNCHANGED mActiveStreamMutex /\ dev' = dev
    BY <1>21 DEF Pause, Mutexes
  <2>2. \/ strm' = strm
        \/ \E cs \in State, p \in BOOLEAN :
            strm' = [strm EXCEPT ![s] = [x EXCEPT !.cachedState = cs, !.isPaused = TRUE,
                                          !.currentState = "PAUSED", !.sessionPaused = p]]
    <3>1. x.cachedState \in State /\ x.sessionPaused \in BOOLEAN /\ x.isPaused \in BOOLEAN
          /\ "PAUSED" \in State
      BY ZenonT(30), <1>4 DEF StreamType, State
    <3>2. CASE strm' = [strm EXCEPT ![s].cachedState = "PAUSED",
                        ![s].isPaused = TRUE, ![s].currentState = "PAUSED"]
      <4>1. strm' = [strm EXCEPT ![s] = [x EXCEPT !.cachedState = "PAUSED", !.isPaused = TRUE,
                              !.currentState = "PAUSED", !.sessionPaused = x.sessionPaused]]
        BY <1>1, <1>3, <1>4, <3>2 DEF StreamsTyped, StreamType
      <4>. QED  BY <3>1, <4>1
    <3>3. CASE strm' = [strm EXCEPT ![s].currentState = "PAUSED"] /\ x.isPaused
      <4>1. strm' = [strm EXCEPT ![s] = [x EXCEPT !.cachedState = x.cachedState, !.isPaused = TRUE,
                              !.currentState = "PAUSED", !.sessionPaused = x.sessionPaused]]
        BY <1>1, <1>3, <1>4, <3>3, <3>1 DEF StreamsTyped, StreamType
      <4>. QED  BY <3>1, <4>1
    <3>4. CASE strm' = [strm EXCEPT ![s].isPaused = TRUE,
                        ![s].currentState = "PAUSED", ![s].sessionPaused = TRUE]
      <4>1. strm' = [strm EXCEPT ![s] = [x EXCEPT !.cachedState = x.cachedState, !.isPaused = TRUE,
                              !.currentState = "PAUSED", !.sessionPaused = TRUE]]
        BY <1>1, <1>3, <1>4, <3>4 DEF StreamsTyped, StreamType
      <4>. QED  BY <3>1, <4>1
    <3>. QED  BY <1>21, <3>2, <3>3, <3>4 DEF Pause
  <2>3. \A cs \in State, p \in BOOLEAN :
           [x EXCEPT !.cachedState = cs, !.isPaused = TRUE,
                     !.currentState = "PAUSED", !.sessionPaused = p] \in StreamType
    BY ZenonT(30), <1>4 DEF StreamType, State
  <2>. QED  BY <1>1, <1>4, <1>7, <1>8, <1>9, <1>11, <2>1, <2>2, <2>3 DEF Frame
<1>22. CASE Resume(t)
  <2>1. UNCHANGED <<active_devices, cardVars, ssr>> /\ UNCHANGED mStreamMutex
        /\ UNCHANGED mActiveStreamMutex /\ dev' = dev
    BY <1>22 DEF Resume, Mutexes
  <2>2. \/ strm' = strm
        \/ strm' = [strm EXCEPT ![s] = [x EXCEPT !.cachedState = "STARTED"]]
        \/ strm' = [strm EXCEPT ![s] = [x EXCEPT !.isPaused = FALSE, !.sessionPaused = FALSE]]
    BY <1>1, <1>3, <1>22 DEF Resume, StreamsTyped
  <2>3. /\ [x EXCEPT !.cachedState = "STARTED"] \in StreamType
        /\ [x EXCEPT !.isPaused = FALSE, !.sessionPaused = FALSE] \in StreamType
    BY ZenonT(30), <1>4 DEF StreamType, State
  <2>. QED  BY <1>1, <1>4, <1>7, <1>8, <1>9, <1>11, <2>1, <2>2, <2>3 DEF Frame
<1>. QED  BY <1>13, <1>14, <1>15, <1>16, <1>17, <1>18, <1>19, <1>20, <1>21, <1>22 DEF Operation

\* What the types say once the parts are known.
LEMMA TypedFrom ==
  ASSUME scenario' \in Scenarios, StreamsTyped', dev' \in UseType,
         active_devices' \subseteq Devices \X Streams,
         MutexesTyped', CardTyped', SsrTyped', Positions'
  PROVE  Typed'
BY DEF Typed, StreamsTyped, MutexesTyped, CardTyped, SsrTyped

\* What the constructor leaves is a stream.
LEMMA NewStreamTyped ==
  ASSUME scenario \in Scenarios, NEW s \in Streams, NEW h \in {"none", "opening"}
  PROVE  NewStream(s, h) \in StreamType
BY ScenarioIs DEF NewStream, StreamType, State

\* So do the calls of a client.
LEMMA CallerTyped ==
  ASSUME Typed, NEW t \in Controls,
         \/ PalOpened(t) \/ PalStop(t) \/ PalClose(t) \/ PalDone(t) \/ PalClosed(t)
         \/ PalOpen(t) \/ \E op \in Ops : PalCall(t, op)
  PROVE  /\ Typed' /\ Frame(Str(t)) /\ Stay(t)
         /\ UNCHANGED <<dev, active_devices, Mutexes, cardVars>>
         /\ ssr'.stream = ssr.stream /\ ssr'.upTo = ssr.upTo
         /\ PalOpen(t) \/ ssr' = ssr
<1>. DEFINE s == Str(t)
            x == strm[s]
<1>1. t \in Threads /\ StreamsTyped /\ MutexesTyped /\ dev \in UseType /\ SsrTyped /\ CardTyped
      /\ scenario \in Scenarios /\ Positions /\ active_devices \subseteq Devices \X Streams
      /\ s \in Streams /\ t # Ssr /\ Ssr \in Threads
  BY Names, TypedIs
<1>2. x \in StreamType
  BY <1>1 DEF StreamsTyped
<1>3. Positions' /\ Stay(t) /\ scenario' \in Scenarios
  BY <1>1, CallerPositions DEF Stay
<1>4. UNCHANGED <<dev, active_devices, Mutexes, cardVars>>
  BY DEF PalOpened, PalStop, PalClose, PalDone, PalClosed, PalOpen, PalCall, SetCachedState
<1>5. \/ ssr' = ssr
      \/ PalOpen(t) /\ ssr' = [ssr EXCEPT !.visited = @ \ {s}]
  BY DEF PalOpened, PalStop, PalClose, PalDone, PalClosed, PalOpen, PalCall, SetCachedState
<1>6. ssr'.stream = ssr.stream /\ ssr'.upTo = ssr.upTo /\ SsrTyped'
  BY <1>1, <1>3, <1>5 DEF SsrTyped, Stay
<1>7. \/ strm' = strm
      \/ \E y \in StreamType : strm' = [strm EXCEPT ![s] = y]
  <2>1. CASE PalOpened(t)
    <3>1. \/ strm' = strm
          \/ strm' = [strm EXCEPT ![s] = [x EXCEPT !.handle = "valid", !.want = "open"]]
      BY <1>1, <2>1 DEF PalOpened, StreamsTyped
    <3>2. [x EXCEPT !.handle = "valid", !.want = "open"] \in StreamType
      BY <1>2 DEF StreamType
    <3>. QED  BY <3>1, <3>2
  <2>2. CASE PalStop(t) \/ PalClose(t)
    <3>1. \E c \in State : strm' = [strm EXCEPT ![s] = [x EXCEPT !.cachedState = c]]
      BY <1>1, <2>2 DEF PalStop, PalClose, SetCachedState, StreamsTyped, State
    <3>2. \A c \in State : [x EXCEPT !.cachedState = c] \in StreamType
      BY <1>2 DEF StreamType
    <3>. QED  BY <3>1, <3>2
  <2>3. CASE PalDone(t)
    <3>1. \/ strm' = strm
          \/ strm' = [strm EXCEPT ![s] = [x EXCEPT !.want = Wanted(pc[t])]]
      BY <1>1, <2>3 DEF PalDone, StreamsTyped
    <3>2. [x EXCEPT !.want = Wanted(pc[t])] \in StreamType
      <4>1. Wanted(pc[t]) \in {"started", "paused", "stopped"}
        BY <2>3 DEF PalDone, Wanted
      <4>. QED  BY <1>2, <4>1 DEF StreamType
    <3>. QED  BY <3>1, <3>2
  <2>4. CASE PalClosed(t) \/ PalOpen(t)
    <3>1. \/ strm' = [strm EXCEPT ![s] = NewStream(s, "none")]
          \/ strm' = [strm EXCEPT ![s] = NewStream(s, "opening")]
      BY <2>4 DEF PalClosed, PalOpen
    <3>. QED  BY <1>1, <3>1, NewStreamTyped
  <2>5. CASE \E op \in Ops : PalCall(t, op)
    <3>1. \/ strm' = strm
          \/ strm' = [strm EXCEPT ![s] = [x EXCEPT !.handle = "closing"]]
      BY <1>1, <2>5 DEF PalCall, StreamsTyped
    <3>2. [x EXCEPT !.handle = "closing"] \in StreamType
      BY <1>2 DEF StreamType
    <3>. QED  BY <3>1, <3>2
  <2>. QED  BY <2>1, <2>2, <2>3, <2>4, <2>5
<1>8. StreamsTyped' /\ \A u \in Streams \ {s} : strm'[u] = strm[u]
  BY <1>1, <1>7, StreamSteps DEF StreamsTyped
<1>9. MutexesTyped' /\ mStreamMutex' = mStreamMutex /\ CardTyped' /\ dev' \in UseType
      /\ active_devices' \subseteq Devices \X Streams
  BY <1>1, <1>4 DEF Mutexes, MutexesTyped, cardVars, CardTyped
<1>10. Typed'
  BY <1>3, <1>6, <1>8, <1>9, TypedFrom
<1>. QED  BY <1>3, <1>4, <1>5, <1>6, <1>8, <1>9, <1>10 DEF Frame

\* So do writes; the only thing they change of a stream is its state, to STARTED.
LEMMA WriterTyped ==
  ASSUME Typed, NEW t \in WriterThreads, WriterStep(t) \/ PalWrite(t)
  PROVE  /\ Typed' /\ Frame(Str(t)) /\ Stay(t)
         /\ UNCHANGED <<dev, mStreamMutex, card, downs, cardState, prevState, ssr>>
         /\ \/ strm' = strm
            \/ pc[t] = "writeState" /\ strm' = [strm EXCEPT ![Str(t)].currentState = "STARTED"]
<1>. DEFINE s == Str(t)
            x == strm[s]
<1>1. t \in Threads /\ StreamsTyped /\ MutexesTyped /\ dev \in UseType /\ SsrTyped /\ CardTyped
      /\ scenario \in Scenarios /\ Positions /\ active_devices \subseteq Devices \X Streams
      /\ s \in Streams /\ t # Ssr /\ Ssr \in Threads
  BY Names, TypedIs
<1>2. x \in StreamType
  BY <1>1 DEF StreamsTyped
<1>3. Positions' /\ Stay(t) /\ scenario' \in Scenarios
  BY <1>1, WriterPositions DEF Stay
<1>4. UNCHANGED <<dev, mStreamMutex, card, downs, cardState, prevState, ssr>>
  BY DEF WriterStep, PalWrite, Write, WriteReset, WriteCheck, WriteLock, WriteRegister,
    WriteState, Mutexes, cardVars
<1>5. \/ strm' = strm
      \/ pc[t] = "writeState" /\ strm' = [strm EXCEPT ![s].currentState = "STARTED"]
  BY DEF WriterStep, PalWrite, Write, WriteReset, WriteCheck, WriteLock, WriteRegister, WriteState
<1>6. StreamsTyped' /\ \A u \in Streams \ {s} : strm'[u] = strm[u]
  <2>1. [x EXCEPT !.currentState = "STARTED"] \in StreamType
    BY <1>2 DEF StreamType, State
  <2>2. strm' = strm \/ strm' = [strm EXCEPT ![s] = [x EXCEPT !.currentState = "STARTED"]]
    BY <1>1, <1>5 DEF StreamsTyped
  <2>. QED  BY <1>1, <2>1, <2>2, StreamSteps DEF StreamsTyped
<1>7. MutexesTyped'
  <2>1. UNCHANGED mActiveStreamMutex \/ LockActive(t) \/ UnlockActive
    BY DEF WriterStep, PalWrite, Write, WriteReset, WriteCheck, WriteLock, WriteRegister,
      WriteState, Mutexes
  <2>. QED  BY <1>1, <1>4, <2>1, MutexSteps DEF MutexesTyped
<1>8. active_devices' \subseteq Devices \X Streams
  <2>1. \/ active_devices' = active_devices
        \/ active_devices' = active_devices \cup (x.mDevices \X {s})
    BY DEF WriterStep, PalWrite, Write, WriteReset, WriteCheck, WriteLock, WriteRegister, WriteState
  <2>. QED  BY <1>1, <1>2, <2>1 DEF StreamType
<1>9. CardTyped' /\ SsrTyped'
  <2>1. UNCHANGED msgQ \/ ReportLoss
    BY DEF WriterStep, PalWrite, Write, WriteReset, WriteCheck, WriteLock, WriteRegister,
      WriteState, cardVars
  <2>2. msgQ' \in Seq(Statuses \cup {"online"})
    BY <1>1, <2>1, ReportTyped DEF CardTyped
  <2>. QED  BY <1>1, <1>3, <1>4, <2>2 DEF CardTyped, SsrTyped, Stay
<1>10. Typed'
  BY <1>1, <1>3, <1>4, <1>6, <1>7, <1>8, <1>9, TypedFrom
<1>. QED  BY <1>3, <1>4, <1>5, <1>6, <1>10 DEF Frame

\* So does the recovery thread; it changes the stream it works on only.
LEMMA SsrOwnTyped ==
  ASSUME Typed, SsrOwn
  PROVE  /\ Typed' /\ Stay(Ssr)
         /\ UNCHANGED <<dev, active_devices, mStreamMutex, card, downs>>
         /\ \A u \in Streams : u # ssr.stream => strm'[u] = strm[u]
<1>. DEFINE s == ssr.stream
            x == strm[s]
<1>1. StreamsTyped /\ MutexesTyped /\ dev \in UseType /\ SsrTyped /\ CardTyped
      /\ scenario \in Scenarios /\ Positions /\ active_devices \subseteq Devices \X Streams
      /\ Ssr \in Threads
  BY Names, TypedIs
<1>2. Positions' /\ Stay(Ssr) /\ scenario' \in Scenarios
  BY <1>1, SsrPositions DEF Stay
<1>3. UNCHANGED <<dev, active_devices, mStreamMutex, card, downs>>
  BY DEF SsrOwn, SsrTake, SsrNext, SsrDone, SsrDown, SsrDownStopped, SsrDownEnd, SsrUp,
    SsrUpOpened, SsrUpStarted, SsrUpEnd, Mutexes, cardVars
<1>4. MutexesTyped'
  <2>1. UNCHANGED mActiveStreamMutex \/ mActiveStreamMutex' = Ssr \/ mActiveStreamMutex' = None
    BY DEF SsrOwn, SsrTake, SsrNext, SsrDone, SsrDown, SsrDownStopped, SsrDownEnd, SsrUp,
      SsrUpOpened, SsrUpStarted, SsrUpEnd, Mutexes, LockActive, UnlockActive
  <2>. QED  BY <1>1, <1>3, <2>1 DEF MutexesTyped
<1>5. CASE SsrTake
  <2>1. msgQ' = Tail(msgQ) /\ msgQ # <<>> /\ cardState' = Head(msgQ) /\ prevState' = Head(msgQ)
        /\ strm' = strm
    BY <1>5 DEF SsrTake
  <2>2. msgQ' \in Seq(Statuses \cup {"online"}) /\ Head(msgQ) \in Statuses \cup {"online"}
    BY <1>1, <2>1 DEF CardTyped
  <2>3. CardTyped'
    BY <1>1, <1>3, <2>1, <2>2 DEF CardTyped
  <2>4. SsrTyped'
    <3>1. \/ ssr' = ssr /\ pc' = pc
          \/ ssr' = [ssr EXCEPT !.visited = {}] /\ Goto(Ssr, "walk")
      BY <1>5 DEF SsrTake
    <3>2. pc'[Ssr] \in {"idle", "walk"}
      BY <1>1, <1>5, <3>1, GoneTo DEF SsrTake, Positions, At, Labels
    <3>. QED  BY <1>1, <3>1, <3>2 DEF SsrTyped
  <2>. QED  BY <1>1, <1>2, <1>3, <1>4, <2>1, <2>3, <2>4, TypedFrom DEF StreamsTyped
<1>6. CASE SsrNext \/ SsrDone
  <2>1. strm' = strm /\ UNCHANGED cardVars
    BY <1>6 DEF SsrNext, SsrDone
  <2>2. CardTyped'
    BY <1>1, <2>1 DEF CardTyped, cardVars
  <2>3. SsrTyped'
    <3>1. CASE SsrNext
      BY <1>1, <3>1 DEF SsrNext, SsrTyped, Counted
    <3>2. CASE SsrDone
      <4>1. pc'[Ssr] = "idle" /\ ssr' = ssr
        BY <1>1, <3>2, GoneTo DEF SsrDone, Positions, At, Labels
      <4>. QED  BY <1>1, <4>1 DEF SsrTyped
    <3>. QED  BY <1>6, <3>1, <3>2
  <2>. QED  BY <1>1, <1>2, <1>3, <1>4, <2>1, <2>2, <2>3, TypedFrom DEF StreamsTyped
<1>7. CASE SsrDown \/ SsrDownStopped \/ SsrDownEnd \/ SsrUp \/ SsrUpOpened \/ SsrUpStarted
           \/ SsrUpEnd
  <2>1. s \in Streams /\ UNCHANGED cardVars
    BY <1>1, <1>7 DEF SsrDown, SsrDownStopped, SsrDownEnd, SsrUp, SsrUpOpened, SsrUpStarted,
      SsrUpEnd, SsrTyped
  <2>2. CardTyped' /\ x \in StreamType
    BY <1>1, <2>1 DEF CardTyped, cardVars, StreamsTyped
  <2>3. StreamsTyped' /\ \A u \in Streams \ {s} : strm'[u] = strm[u]
    <3>1. \/ strm' = strm
          \/ \E b \in BOOLEAN : strm' = [strm EXCEPT ![s] = [x EXCEPT !.skipSSRHandling = b]]
          \/ \E c \in State : strm' = [strm EXCEPT ![s] = [x EXCEPT !.cachedState = c]]
          \/ strm' = [strm EXCEPT ![s] = [x EXCEPT !.currentState = "IDLE"]]
      <4>1. CASE SsrDown
        <5>1. \/ strm' = [strm EXCEPT ![s].skipSSRHandling = TRUE]
              \/ strm' = [strm EXCEPT ![s].cachedState =
                                        IF @ = "IDLE" THEN strm[s].currentState ELSE @]
          BY <4>1 DEF SsrDown
        <5>2. (IF x.cachedState = "IDLE" THEN x.currentState ELSE x.cachedState) \in State
          BY <2>2 DEF StreamType
        <5>. QED  BY <1>1, <2>1, <5>1, <5>2 DEF StreamsTyped
      <4>2. CASE SsrUp
        BY <1>1, <2>1, <4>2 DEF SsrUp, StreamsTyped
      <4>3. CASE SsrDownStopped \/ SsrDownEnd \/ SsrUpOpened \/ SsrUpStarted \/ SsrUpEnd
        BY <1>1, <2>1, <4>3 DEF SsrDownStopped, SsrDownEnd, SsrUpOpened, SsrUpStarted, SsrUpEnd,
          StreamsTyped, State
      <4>. QED  BY <1>7, <4>1, <4>2, <4>3
    <3>2. /\ \A b \in BOOLEAN : [x EXCEPT !.skipSSRHandling = b] \in StreamType
          /\ \A c \in State : [x EXCEPT !.cachedState = c] \in StreamType
          /\ [x EXCEPT !.currentState = "IDLE"] \in StreamType
      BY <2>2 DEF StreamType, State
    <3>3. \/ strm' = strm
          \/ \E y \in StreamType : strm' = [strm EXCEPT ![s] = y]
      BY <3>1, <3>2
    <3>. QED  BY <1>1, <2>1, <3>3, StreamSteps DEF StreamsTyped
  <2>4. SsrTyped'
    <3>1. \/ ssr' = ssr
          \/ /\ ssr' = [ssr EXCEPT !.stream = None, !.visited = @ \cup {ssr.stream}]
             /\ Goto(Ssr, "walk")
          \/ ssr' = [ssr EXCEPT !.upTo = x.cachedState]
      BY <1>7 DEF SsrDown, SsrDownStopped, SsrDownEnd, SsrUp, SsrUpOpened, SsrUpStarted,
      SsrUpEnd, Visited
    <3>2. CASE ssr' = ssr \/ ssr' = [ssr EXCEPT !.upTo = x.cachedState]
      BY <1>1, <2>1, <2>2, <3>2 DEF SsrTyped, StreamType
    <3>3. CASE /\ ssr' = [ssr EXCEPT !.stream = None, !.visited = @ \cup {ssr.stream}]
               /\ Goto(Ssr, "walk")
      <4>1. pc'[Ssr] = "walk"
        BY <1>1, <3>3, GoneTo DEF Positions, At, Labels
      <4>. QED  BY <1>1, <2>1, <3>3, <4>1 DEF SsrTyped
    <3>. QED  BY <3>1, <3>2, <3>3
  <2>. QED  BY <1>1, <1>2, <1>3, <1>4, <2>1, <2>2, <2>3, <2>4, TypedFrom
<1>. QED  BY <1>5, <1>6, <1>7 DEF SsrOwn

\* So does the card, which takes sessions and no state of a stream.
LEMMA CardTypedStep ==
  ASSUME Typed, CardGoesDown \/ CardComesUp
  PROVE  /\ Typed'
         /\ UNCHANGED <<dev, active_devices, Mutexes, cardState, prevState, ssr, pc, ret, status,
                        scenario>>
         /\ \A s \in Streams : /\ strm'[s].handle = strm[s].handle
                               /\ strm'[s].want = strm[s].want
                               /\ strm'[s].currentState = strm[s].currentState
                               /\ strm'[s].cachedState = strm[s].cachedState
                               /\ strm'[s].mDevices = strm[s].mDevices
<1>1. StreamsTyped /\ MutexesTyped /\ dev \in UseType /\ SsrTyped /\ CardTyped
      /\ scenario \in Scenarios /\ Positions /\ active_devices \subseteq Devices \X Streams
  BY TypedIs
<1>2. UNCHANGED <<dev, active_devices, Mutexes, cardState, prevState, ssr, pc, ret, status,
                  scenario>>
  BY DEF CardGoesDown, CardComesUp
<1>3. MutexesTyped' /\ SsrTyped' /\ Positions' /\ Mutexes' = Mutexes
  BY <1>1, <1>2 DEF Mutexes, MutexesTyped, SsrTyped, Positions, Control
<1>4. CASE CardGoesDown
  <2>1. PICK k \in DownStatus : card' = k /\ msgQ' = Append(msgQ, k) /\ downs' = downs + 1
                                /\ strm' = [s \in Streams |-> AfterLoss(s, k)]
    BY <1>4 DEF CardGoesDown
  <2>2. k \in Statuses
    BY <1>1, ScenarioIs
  <2>3. CardTyped'
    BY <1>1, <1>2, <2>1, <2>2 DEF CardTyped
  <2>4. ASSUME NEW s \in Streams
        PROVE  /\ AfterLoss(s, k) \in StreamType
               /\ AfterLoss(s, k).handle = strm[s].handle
               /\ AfterLoss(s, k).want = strm[s].want
               /\ AfterLoss(s, k).currentState = strm[s].currentState
               /\ AfterLoss(s, k).cachedState = strm[s].cachedState
               /\ AfterLoss(s, k).mDevices = strm[s].mDevices
    BY ZenonT(30), <1>1 DEF AfterLoss, StreamType, StreamsTyped
  <2>5. StreamsTyped'
    BY <2>1, <2>4 DEF StreamsTyped
  <2>6. Typed'
    BY <1>1, <1>2, <1>3, <2>3, <2>5, TypedFrom
  <2>. QED  BY <1>2, <2>1, <2>4, <2>6
<1>5. CASE CardComesUp
  <2>1. card' = "online" /\ msgQ' = Append(msgQ, "online") /\ downs' = downs /\ strm' = strm
    BY <1>5 DEF CardComesUp
  <2>2. CardTyped'
    BY <1>1, <1>2, <2>1 DEF CardTyped
  <2>3. Typed'
    BY <1>1, <1>2, <1>3, <2>1, <2>2, TypedFrom DEF StreamsTyped
  <2>. QED  BY <1>2, <2>1, <2>3
<1>. QED  BY <1>4, <1>5

\* The steps, one kind of thread at a time.
LEMMA StepKinds ==
  ASSUME Next
  PROVE  \/ \E t \in Controls \cup {Ssr} : Operation(t)
         \/ \E t \in Controls :
              \/ PalOpened(t) \/ PalStop(t) \/ PalClose(t) \/ PalDone(t) \/ PalClosed(t)
              \/ PalOpen(t) \/ \E op \in Ops : PalCall(t, op)
         \/ \E t \in WriterThreads : WriterStep(t) \/ PalWrite(t)
         \/ SsrOwn
         \/ CardGoesDown \/ CardComesUp
<1>1. CASE \E t \in Controls : \/ ControlStep(t)
                               \/ PalOpen(t) \/ \E op \in Ops : PalCall(t, op)
  BY <1>1 DEF ControlStep
<1>2. CASE SsrStep
  BY <1>2 DEF SsrStep, SsrOwn
<1>. QED  BY <1>1, <1>2 DEF Next

\* The types hold at the start,
LEMMA InitTyped ==
  ASSUME Init
  PROVE  Typed
<1>1. StreamsTyped
  BY NewStreamTyped DEF Init, StreamsTyped
<1>2. dev \in UseType /\ active_devices \subseteq Devices \X Streams /\ MutexesTyped
  BY NoUseTyped DEF Init, MutexesTyped
<1>3. CardTyped /\ SsrTyped
  BY Names DEF Init, CardTyped, SsrTyped, State
<1>4. Positions
  <2>1. "idle" \in Labels /\ <<>> \in Returns
    BY DEF Labels, Returns
  <2>. QED  BY <2>1, Names DEF Init, Positions, Control, CtlAt, WrAt, SsrAt
<1>. QED  BY <1>1, <1>2, <1>3, <1>4 DEF Init, Typed, StreamsTyped, MutexesTyped, CardTyped, SsrTyped

\* and every step keeps them.
LEMMA StepTyped ==
  ASSUME Typed, [Next]_vars
  PROVE  Typed'
<1>1. CASE Next
  BY <1>1, StepKinds, OperationTyped, CallerTyped, WriterTyped, SsrOwnTyped, CardTypedStep
<1>2. CASE UNCHANGED vars
  BY <1>2 DEF vars, cardVars, Typed, Positions, Control
<1>. QED  BY <1>1, <1>2

\* The types hold always.
LEMMA AlwaysTyped == Spec => []Typed
<1>1. Init => Typed
  BY InitTyped
<1>2. Typed /\ [Next]_vars => Typed'
  BY StepTyped
<1>. QED  BY <1>1, <1>2, PTL DEF Spec

\* Every variable keeps its type; a device count is never below 0 (StreamPCM, Device).
THEOREM PcmTypes == Spec => []TypeOK
<1>1. Typed => TypeOK
  <2>1. dev \in UseType => dev \in [Devices -> [count : Nat, startStop : Nat]]
    BY DEF UseType, Counters
  <2>. QED  BY <2>1 DEF Typed, TypeOK, Positions, Control, Statuses
<1>. QED  BY <1>1, AlwaysTyped, PTL

-----------------------------------------------------------------------------
(* What the recovery thread knows of the card.                               *)

\* The last of a queue after a push, and after a pop.
LEMMA LastOfQueue ==
  ASSUME NEW S, NEW q \in Seq(S)
  PROVE  /\ \A k \in S : Append(q, k) # <<>> /\ Append(q, k)[Len(Append(q, k))] = k
         /\ q # <<>> => /\ Tail(q) # <<>> => Tail(q)[Len(Tail(q))] = q[Len(q)]
                        /\ Tail(q) = <<>> => Head(q) = q[Len(q)]
<1>1. ASSUME NEW k \in S
      PROVE  Append(q, k) # <<>> /\ Append(q, k)[Len(Append(q, k))] = k
  OBVIOUS
<1>2. ASSUME q # <<>>
      PROVE  /\ Tail(q) # <<>> => Tail(q)[Len(Tail(q))] = q[Len(q)]
             /\ Tail(q) = <<>> => Head(q) = q[Len(q)]
  <2>1. Len(q) \in Nat /\ Len(q) > 0 /\ Len(Tail(q)) = Len(q) - 1 /\ Tail(q) \in Seq(S)
    BY <1>2
  <2>2. CASE Tail(q) = <<>>
    <3>1. Len(q) = 1
      BY <2>1, <2>2, EmptySeq
    <3>. QED  BY <1>2, <2>2, <3>1
  <2>3. CASE Tail(q) # <<>>
    BY <1>2, <2>1, <2>3
  <2>. QED  BY <2>2, <2>3
<1>. QED  BY <1>1, <1>2

\* No thread is about to report a loss by itself.
Unreported == \A t \in Threads : pc[t] \notin {"startReset", "writeReset"}

\* While no call meets a lost card (ssrHandler is called from start and write), nobody
\* reports a loss beside the card itself.
LEMMA NobodyReports ==
  ASSUME Typed, ~May("netReset") \/ CardUp, Unreported, Next
  PROVE  Unreported'
<1>1. Positions /\ scenario \in Scenarios /\ Control
  BY TypedIs DEF Positions
<1>2. ASSUME NEW t \in Threads, Stay(t), pc'[t] \notin {"startReset", "writeReset"}
      PROVE  Unreported'
  BY <1>2 DEF Unreported, Stay
<1>3. ASSUME NEW t \in Controls \cup {Ssr}, Operation(t)
      PROVE  Unreported'
  <2>1. Stay(t) /\ t \in Threads /\ Str(t) \in Streams
    BY <1>3, OperationTyped, Names
  <2>2. CASE t \in Controls /\ \E x \in {"ok", "err"} : Return(t, x) /\ pc[t] \in Calls
    <3>1. pc'[t] \notin {"startReset", "writeReset"}
      BY <1>1, <2>2, CtlBack DEF At, Calls
    <3>. QED  BY <2>1, <3>1, <1>2
  <2>3. CASE t = Ssr /\ \E x \in {"ok", "err"} : Return(t, x) /\ pc[t] \in Calls
    <3>1. pc'[t] \notin {"startReset", "writeReset"}
      BY <1>1, <2>3, SsrBack DEF At, Calls
    <3>. QED  BY <2>1, <3>1, <1>2
  <2>4. ASSUME NEW l \in Labels \ {"startReset", "writeReset"}, Goto(t, l) \/ \E b : Call(t, l, b)
        PROVE  Unreported'
    <3>1. pc'[t] = l
      BY <1>1, <2>1, <2>4 DEF Goto, Call, Control
    <3>. QED  BY <2>1, <2>4, <3>1, <1>2
  <2>5. CASE StartRun(t)
    <3>1. ASSUME NEW D, NEW u, SessionRun(t, Str(t), D, u)
          PROVE  Return(t, "err") \/ Goto(t, "startLock")
      BY <3>1 DEF SessionRun
    <3>2. Return(t, "err") \/ Goto(t, "startLock")
      <4>1. CASE StartOutput(t, Str(t))
        BY <3>1, <4>1 DEF StartOutput
      <4>2. CASE StartInput(t, Str(t))
        BY <3>1, <4>2 DEF StartInput
      <4>3. CASE StartLoopback(t, Str(t))
        BY <3>1, <4>3 DEF StartLoopback
      <4>4. StartOutput(t, Str(t)) \/ StartInput(t, Str(t)) \/ StartLoopback(t, Str(t))
        BY <1>1, <2>1, <2>5, ScenarioIs DEF StartRun
      <4>. QED  BY <4>1, <4>2, <4>3, <4>4
    <3>3. pc[t] \in Calls /\ "startLock" \in Labels \ {"startReset", "writeReset"}
      BY <2>5 DEF StartRun, Calls, Starting, Labels
    <3>. QED  BY <2>2, <2>3, <2>4, <3>2, <3>3
  <2>6. CASE Open(t) \/ StartRegister(t) \/ StopRun(t) \/ CloseRun(t) \/ Pause(t) \/ Resume(t)
             \/ StartReset(t)
    <3>1. pc[t] \in Calls /\ \E x \in {"ok", "err"} : Return(t, x)
      BY <2>6 DEF Open, OpenIdle, StartRegister, StopRun, CloseRun, CloseAll, Pause, Resume,
        StartReset, Calls, Starting, Stopping
    <3>. QED  BY <2>2, <2>3, <3>1
  <2>7. CASE StartEnter(t) \/ StartLock(t) \/ StopEnter(t) \/ StopLock(t) \/ CloseEnter(t)
    <3>1. \/ pc[t] \in Calls /\ \E x \in {"ok", "err"} : Return(t, x)
          \/ \E l \in {"startRun", "startRegister", "stopLock", "stopRun"} : Goto(t, l)
          \/ Call(t, "stop", "closeRun")
      BY <2>7 DEF StartEnter, StartLock, StopEnter, StopLock, CloseEnter, CloseAll, Calls,
        Starting, Stopping
    <3>2. {"startRun", "startRegister", "stopLock", "stopRun", "stop"}
            \subseteq Labels \ {"startReset", "writeReset"}
      BY DEF Labels, Starting, Stopping
    <3>. QED  BY <2>2, <2>3, <2>4, <3>1, <3>2
  <2>. QED  BY <1>3, <2>5, <2>6, <2>7 DEF Operation
<1>4. ASSUME NEW t \in Controls,
             \/ PalOpened(t) \/ PalStop(t) \/ PalClose(t) \/ PalDone(t) \/ PalClosed(t)
             \/ PalOpen(t) \/ \E op \in Ops : PalCall(t, op)
      PROVE  Unreported'
  <2>1. Stay(t) /\ t \in Threads /\ Positions'
    BY <1>4, CallerTyped, Names, TypedIs DEF Typed
  <2>2. CtlAt(pc'[t], ret'[t])
    BY <2>1 DEF Positions
  <2>3. pc'[t] # "startReset"
    <3>1. pc[t] \in {"idle", "opened", "palStop", "palClose", "startDone", "stopDone", "pauseDone",
                     "resumeDone", "closed"}
      BY <1>4 DEF PalOpened, PalStop, PalClose, PalDone, PalClosed, PalOpen, PalCall
    <3>2. \E l \in {"idle", "palStop", "palClose", "open", "close", "stop", "start", "pause",
                    "resume"} : Goto(t, l) \/ \E b : Call(t, l, b)
      <4>1. CASE \E op \in Ops : PalCall(t, op)
        <5>1. PICK op \in Ops : PalCall(t, op)
          BY <4>1
        <5>2. op \in {"start", "stop", "pause", "resume", "close"}
          BY <5>1 DEF PalCall, MayCall
        <5>. QED  BY <5>1, <5>2 DEF PalCall
      <4>. QED  BY <1>4, <4>1 DEF PalOpened, PalStop, PalClose, PalDone, PalClosed, PalOpen
    <3>. QED  BY <1>1, <2>1, <3>2 DEF Goto, Call, Control
  <2>. QED  BY <1>2, <2>1, <2>2, <2>3 DEF CtlAt, Starting, Stopping
<1>5. ASSUME NEW t \in WriterThreads, WriterStep(t) \/ PalWrite(t)
      PROVE  Unreported'
  <2>1. Stay(t) /\ t \in Threads
    BY <1>5, WriterTyped, Names
  <2>2. \E l \in {"idle", "write", "writeCheck", "writeLock", "writeRegister", "writeState"} :
          Goto(t, l)
    <3>1. pc[t] # "writeReset"
      BY <2>1 DEF Unreported
    <3>. QED  BY <1>5, <3>1 DEF WriterStep, PalWrite, Write, WriteReset, WriteCheck, WriteLock,
                WriteRegister, WriteState
  <2>3. pc'[t] \notin {"startReset", "writeReset"}
    BY <1>1, <2>1, <2>2 DEF Goto, Control
  <2>. QED  BY <1>2, <2>1, <2>3
<1>6. CASE SsrOwn
  <2>1. Stay(Ssr) /\ Ssr \in Threads /\ Positions'
    BY <1>6, SsrOwnTyped, Names, TypedIs DEF Typed
  <2>2. SsrAt(pc'[Ssr], ret'[Ssr])
    BY <2>1 DEF Positions
  <2>3. pc'[Ssr] # "startReset"
    <3>1. \/ pc' = pc
          \/ \E l \in {"idle", "walk", "down", "up", "close", "stop", "downEnd", "open", "start",
                       "upEnd", "pause"} : Goto(Ssr, l) \/ \E b : Call(Ssr, l, b)
      BY <1>6 DEF SsrOwn, SsrTake, SsrNext, SsrDone, SsrDown, SsrDownStopped, SsrDownEnd, SsrUp,
        SsrUpOpened, SsrUpStarted, SsrUpEnd
    <3>. QED  BY <1>1, <2>1, <3>1 DEF Goto, Call, Control, Unreported
  <2>. QED  BY <1>2, <2>1, <2>2, <2>3 DEF SsrAt, Starting, Stopping
<1>7. CASE CardGoesDown \/ CardComesUp
  BY <1>7 DEF CardGoesDown, CardComesUp, Unreported
<1>. QED  BY <1>3, <1>4, <1>5, <1>6, <1>7, StepKinds

\* What the recovery thread will have seen once its queue is empty.
Known ==
  ~May("netReset") =>
    /\ Unreported
    /\ card = IF msgQ = <<>> THEN cardState ELSE msgQ[Len(msgQ)]

\* Every step keeps what is known of the card.
LEMMA StepKnown ==
  ASSUME Typed, Known, [Next]_vars
  PROVE  Known'
<1>1. CASE UNCHANGED vars
  BY <1>1 DEF vars, cardVars, Known, Unreported, May, Faults
<1>2. CASE Next /\ ~May("netReset")
  <2>1. scenario' = scenario
    BY <1>2, StepKinds, OperationTyped, CallerTyped, WriterTyped, SsrOwnTyped, CardTypedStep
       DEF Stay
  <2>2. Unreported' /\ Unreported
    BY <1>2, NobodyReports DEF Known
  <2>3. card = IF msgQ = <<>> THEN cardState ELSE msgQ[Len(msgQ)]
    BY <1>2 DEF Known
  <2>4. CASE card' = card /\ msgQ' = msgQ /\ cardState' = cardState
    BY <2>2, <2>3, <2>4 DEF Known
  <2>5. ASSUME NEW t \in Controls \cup {Ssr}, Operation(t)
        PROVE  card' = card /\ msgQ' = msgQ /\ cardState' = cardState
    <3>1. pc[t] # "startReset"
      BY <2>2, Names DEF Unreported
    <3>. QED  BY <2>5, <3>1 DEF Operation, Open, StartEnter, StartRun, StartReset, StartLock,
                StartRegister, StopEnter, StopLock, StopRun, CloseEnter, CloseRun, Pause, Resume,
                cardVars
  <2>6. ASSUME NEW t \in WriterThreads, WriterStep(t) \/ PalWrite(t)
        PROVE  card' = card /\ msgQ' = msgQ /\ cardState' = cardState
    <3>1. pc[t] # "writeReset"
      BY <2>2, Names DEF Unreported
    <3>. QED  BY <2>6, <3>1 DEF WriterStep, PalWrite, Write, WriteReset, WriteCheck, WriteLock,
                WriteRegister, WriteState, cardVars
  <2>7. ASSUME NEW t \in Controls,
             \/ PalOpened(t) \/ PalStop(t) \/ PalClose(t) \/ PalDone(t) \/ PalClosed(t)
             \/ PalOpen(t) \/ \E op \in Ops : PalCall(t, op)
        PROVE  card' = card /\ msgQ' = msgQ /\ cardState' = cardState
    BY <2>7, CallerTyped DEF cardVars
  <2>8. msgQ \in Seq(Statuses \cup {"online"})
    BY DEF Typed
  <2>9. CASE SsrTake
    <3>1. msgQ # <<>> /\ msgQ' = Tail(msgQ) /\ cardState' = Head(msgQ) /\ card' = card
      BY <2>9 DEF SsrTake
    <3>2. card' = IF msgQ' = <<>> THEN cardState' ELSE msgQ'[Len(msgQ')]
      BY <2>3, <2>8, <3>1, LastOfQueue
    <3>. QED  BY <2>2, <3>2 DEF Known
  <2>10. CASE SsrOwn /\ ~SsrTake
    <3>1. card' = card /\ msgQ' = msgQ /\ cardState' = cardState
      BY <2>10 DEF SsrOwn, SsrNext, SsrDone, SsrDown, SsrDownStopped, SsrDownEnd, SsrUp,
        SsrUpOpened, SsrUpStarted, SsrUpEnd, cardVars
    <3>. QED  BY <2>4, <3>1
  <2>11. CASE CardGoesDown \/ CardComesUp
    <3>1. \E k \in Statuses \cup {"online"} : card' = k /\ msgQ' = Append(msgQ, k)
      BY <2>11, ScenarioIs DEF CardGoesDown, CardComesUp, Typed
    <3>2. card' = IF msgQ' = <<>> THEN cardState' ELSE msgQ'[Len(msgQ')]
      BY <2>8, <3>1, LastOfQueue
    <3>. QED  BY <2>2, <3>2 DEF Known
  <2>. QED  BY <1>2, <2>4, <2>5, <2>6, <2>7, <2>9, <2>10, <2>11, StepKinds
<1>3. CASE Next /\ May("netReset")
  <2>1. scenario' = scenario
    BY <1>3, StepKinds, OperationTyped, CallerTyped, WriterTyped, SsrOwnTyped, CardTypedStep
       DEF Stay
  <2>. QED  BY <1>3, <2>1 DEF Known, May, Faults
<1>. QED  BY <1>1, <1>2, <1>3

\* Once the queue of events is handled, the manager knows whether the card is there, unless
\* start or write report a loss late (ssrHandlingLoop against ssrHandler).
THEOREM CardStateKnown == Spec => [](~May("netReset") => CardStateRight)
<1>1. Init => Known
  BY DEF Init, Known, Unreported
<1>2. Typed /\ Known /\ [Next]_vars => Known'
  BY StepKnown
<1>3. Known => (~May("netReset") => CardStateRight)
  BY DEF Known, CardStateRight, Quiet
<1>. QED  BY <1>1, <1>2, <1>3, AlwaysTyped, PTL DEF Spec

-----------------------------------------------------------------------------
(* A card that never goes away, and who holds the mutex of a stream.         *)

\* Nothing is lost when the card never goes down.
NoLoss == MaxDown = 0 => Unreported /\ card = "online" /\ cardState = "online" /\ msgQ = <<>>

\* No step changes the scenario.
LEMMA SameScenario ==
  ASSUME Typed, [Next]_vars
  PROVE  scenario' = scenario
<1>1. CASE Next
  BY <1>1, StepKinds, OperationTyped, CallerTyped, WriterTyped, SsrOwnTyped, CardTypedStep
     DEF Stay
<1>. QED  BY <1>1 DEF vars

\* Every step keeps that.
LEMMA StepNoLoss ==
  ASSUME Typed, NoLoss, [Next]_vars
  PROVE  NoLoss'
<1>1. scenario' = scenario /\ downs \in Nat
  BY SameScenario DEF Typed
<1>2. CASE UNCHANGED vars
  BY <1>2 DEF vars, cardVars, NoLoss, Unreported, MaxDown
<1>3. CASE Next /\ MaxDown = 0
  <2>1. Unreported /\ card = "online" /\ cardState = "online" /\ msgQ = <<>>
    BY <1>3 DEF NoLoss
  <2>2. Unreported'
    BY <1>3, <2>1, NobodyReports DEF CardUp
  <2>3. ASSUME NEW t \in Controls \cup {Ssr}, Operation(t)
        PROVE  card' = card /\ msgQ' = msgQ /\ cardState' = cardState
    <3>1. pc[t] # "startReset"
      BY <2>1, Names DEF Unreported
    <3>. QED  BY <2>3, <3>1 DEF Operation, Open, StartEnter, StartRun, StartReset, StartLock,
                StartRegister, StopEnter, StopLock, StopRun, CloseEnter, CloseRun, Pause, Resume,
                cardVars
  <2>4. ASSUME NEW t \in WriterThreads, WriterStep(t) \/ PalWrite(t)
        PROVE  card' = card /\ msgQ' = msgQ /\ cardState' = cardState
    <3>1. pc[t] # "writeReset"
      BY <2>1, Names DEF Unreported
    <3>. QED  BY <2>4, <3>1 DEF WriterStep, PalWrite, Write, WriteReset, WriteCheck, WriteLock,
                WriteRegister, WriteState, cardVars
  <2>5. ASSUME NEW t \in Controls,
             \/ PalOpened(t) \/ PalStop(t) \/ PalClose(t) \/ PalDone(t) \/ PalClosed(t)
             \/ PalOpen(t) \/ \E op \in Ops : PalCall(t, op)
        PROVE  card' = card /\ msgQ' = msgQ /\ cardState' = cardState
    BY <2>5, CallerTyped DEF cardVars
  <2>6. CASE SsrOwn
    <3>1. ~SsrTake
      BY <2>1 DEF SsrTake
    <3>. QED  BY <2>1, <2>2, <2>6, <3>1 DEF SsrOwn, SsrNext, SsrDone, SsrDown, SsrDownStopped,
                SsrDownEnd, SsrUp, SsrUpOpened, SsrUpStarted, SsrUpEnd, cardVars, NoLoss
  <2>7. ~CardGoesDown /\ ~CardComesUp
    BY <1>1, <1>3, <2>1 DEF CardGoesDown, CardComesUp, CardUp
  <2>. QED  BY <1>3, <2>1, <2>2, <2>3, <2>4, <2>5, <2>6, <2>7, StepKinds DEF NoLoss
<1>4. CASE MaxDown # 0
  BY <1>1, <1>4 DEF NoLoss, MaxDown
<1>. QED  BY <1>2, <1>3, <1>4

\* What each operation does to the stream, beside its counts.
Kept(s) == strm'[s].handle = strm[s].handle /\ strm'[s].want = strm[s].want
\* What a step leaves of stream s.
Same(s) ==
  /\ Kept(s) /\ strm'[s].currentState = strm[s].currentState
  /\ strm'[s].mDevices = strm[s].mDevices
Unlocked(s) == mStreamMutex[s] = None /\ mStreamMutex' = mStreamMutex
NotPaused(s) == /\ strm[s].currentState # "PAUSED" /\ strm[s].cachedState # "PAUSED"
                   => strm'[s].currentState # "PAUSED" /\ strm'[s].cachedState # "PAUSED"

\* open opens every device of an idle stream, or leaves the stream idle.
LEMMA OpenDoes ==
  ASSUME Typed, NEW t, Str(t) \in Streams, Open(t)
  PROVE  LET s == Str(t) IN
         /\ pc[t] = "open" /\ Unlocked(s) /\ Kept(s) /\ NotPaused(s)
         /\ strm'[s].mDevices = strm[s].mDevices /\ active_devices' = active_devices
         /\ \E x \in {"ok", "err"} :
              /\ Return(t, x)
              /\ \/ strm'[s].currentState = strm[s].currentState
                 \/ /\ strm[s].currentState = "IDLE" /\ strm'[s].currentState = "INIT"
                    /\ x = "ok" /\ dev' = Opened(dev, strm[s].mDevices)
<1>1. strm[Str(t)] \in StreamType
  BY DEF Typed
<1>. QED  BY <1>1 DEF Open, OpenIdle, Unlocked, StreamFree, Kept, NotPaused, Mutexes, StreamType,
            Typed

\* start takes the mutex of a stream that is ready, or returns.
LEMMA StartEnterDoes ==
  ASSUME Typed, NEW t, Str(t) \in Streams, StartEnter(t)
  PROVE  LET s == Str(t) IN
         /\ pc[t] = "start" /\ mStreamMutex[s] = None /\ Same(s) /\ NotPaused(s)
         /\ dev' = dev /\ active_devices' = active_devices
         /\ \/ /\ Unlocked(s)
               /\ \E x \in {"ok", "err"} : /\ Return(t, x)
                                           /\ x = "ok" =>
                                                CardDown \/ strm[s].currentState = "STARTED"
            \/ /\ ~CardDown /\ LockStream(s, t) /\ Goto(t, "startRun")
               /\ strm[s].currentState \in {"INIT", "STOPPED"}
<1>1. strm[Str(t)] \in StreamType
  BY DEF Typed
<1>. QED  BY <1>1 DEF StartEnter, Unlocked, StreamFree, Kept, Same, NotPaused, StreamType,
            Typed

\* Once a thread starts the session, the stream is started or left as it was.
LEMMA StartRunDoes ==
  ASSUME Typed, NEW t, Str(t) \in Streams, StartRun(t)
  PROVE  LET s == Str(t) IN
         /\ pc[t] = "startRun" /\ Kept(s) /\ active_devices' = active_devices
         /\ strm'[s].cachedState = strm[s].cachedState
         /\ \/ /\ Return(t, "err") /\ UnlockStream(s)
               /\ strm'[s].currentState = strm[s].currentState
            \/ /\ Goto(t, "startReset") /\ UNCHANGED mStreamMutex /\ ~CardUp /\ May("netReset")
               /\ strm'[s].currentState = strm[s].currentState
            \/ /\ Goto(t, "startLock") /\ UnlockStream(s)
               /\ strm'[s].currentState = "STARTED"
<1>. DEFINE s == Str(t)
<1>1. strm[s] \in StreamType /\ scenario \in Scenarios /\ strm \in [Streams -> StreamType]
  BY DEF Typed
<1>2. ASSUME NEW D, NEW u, SessionRun(t, s, D, u)
      PROVE  /\ Kept(s) /\ strm'[s].cachedState = strm[s].cachedState
             /\ \/ /\ Return(t, "err") /\ UnlockStream(s)
                   /\ strm'[s].currentState = strm[s].currentState
                \/ /\ Goto(t, "startReset") /\ UNCHANGED mStreamMutex /\ ~CardUp /\ May("netReset")
                   /\ strm'[s].currentState = strm[s].currentState
                \/ /\ Goto(t, "startLock") /\ UnlockStream(s)
                   /\ strm'[s].currentState = "STARTED"
  BY <1>1, <1>2 DEF SessionRun, Kept, StreamType
<1>3. CASE StartOutput(t, s)
  BY <1>1, <1>2, <1>3 DEF StartOutput, Kept, StreamType, StartRun
<1>4. CASE StartInput(t, s)
  BY <1>1, <1>2, <1>4 DEF StartInput, Kept, StreamType, StartRun
<1>5. CASE StartLoopback(t, s)
  BY <1>1, <1>2, <1>5 DEF StartLoopback, Kept, StreamType, StartRun
<1>6. StartOutput(t, s) \/ StartInput(t, s) \/ StartLoopback(t, s)
  BY <1>1, ScenarioIs DEF StartRun
<1>. QED  BY <1>3, <1>4, <1>5, <1>6 DEF StartRun

\* The rest of a start: undone after a loss, or entered in the list.
LEMMA StartRestDoes ==
  ASSUME Typed, NEW t, Str(t) \in Streams
  PROVE  LET s == Str(t) IN
         /\ StartReset(t) =>
              /\ pc[t] = "startReset" /\ Same(s) /\ NotPaused(s) /\ UnlockStream(s)
              /\ Return(t, "ok") /\ active_devices' = active_devices
         /\ StartLock(t) =>
              /\ pc[t] = "startLock" /\ strm' = strm /\ mStreamMutex' = mStreamMutex
              /\ Goto(t, "startRegister") /\ active_devices' = active_devices /\ dev' = dev
         /\ StartRegister(t) =>
              /\ pc[t] = "startRegister" /\ strm' = strm /\ Unlocked(s) /\ Return(t, "ok")
              /\ dev' = dev
<1>1. strm[Str(t)] \in StreamType /\ strm \in [Streams -> StreamType]
  BY DEF Typed
<1>. QED  BY <1>1 DEF StartReset, StartLock, StartRegister, Unlocked, StreamFree, Kept, Same,
            NotPaused, StreamType

\* stop: nothing of a stream that does not run; else it is STOPPED, its devices stopped.
LEMMA StopDoes ==
  ASSUME Typed, NEW t, Str(t) \in Streams
  PROVE  LET s == Str(t) IN
         /\ StopEnter(t) =>
              /\ pc[t] = "stop" /\ strm' = strm /\ Unlocked(s) /\ dev' = dev
              /\ active_devices' = active_devices
              /\ \/ Goto(t, "stopLock") /\ IsRunning(strm[s])
                 \/ /\ \E x \in {"ok", "err"} : Return(t, x)
                    /\ ~IsRunning(strm[s])
         /\ StopLock(t) =>
              /\ pc[t] = "stopLock" /\ strm' = strm /\ mStreamMutex' = mStreamMutex
              /\ Goto(t, "stopRun") /\ dev' = dev /\ active_devices' = active_devices
         /\ StopRun(t) =>
              /\ pc[t] = "stopRun" /\ Kept(s) /\ NotPaused(s) /\ Unlocked(s)
              /\ strm'[s].currentState = "STOPPED" /\ strm'[s].mDevices = strm[s].mDevices
              /\ active_devices' = active_devices \ (strm[s].mDevices \X {s})
              /\ \/ dev' = Stopped(dev, strm[s].mDevices) /\ Return(t, "ok")
                 \/ /\ May("deviceStop") /\ Return(t, "err")
                    /\ \E D \in SUBSET strm[s].mDevices : dev' = Stopped(dev, D)
<1>1. strm[Str(t)] \in StreamType /\ strm \in [Streams -> StreamType]
  BY DEF Typed
<1>2. ASSUME NEW D \in ProperSubsets(RxOf(strm[Str(t)].mDevices))
      PROVE  D \cup TxOf(strm[Str(t)].mDevices) \in SUBSET strm[Str(t)].mDevices
  BY DEF ProperSubsets, RxOf, TxOf
<1>3. CASE StopEnter(t) \/ StopLock(t)
  BY <1>1, <1>3 DEF StopEnter, StopLock, StopRun, Unlocked, StreamFree, Mutexes, IsRunning
<1>4. ASSUME StopRun(t)
      PROVE  LET s == Str(t) IN
             /\ pc[t] = "stopRun" /\ Kept(s) /\ NotPaused(s) /\ Unlocked(s)
             /\ strm'[s].currentState = "STOPPED" /\ strm'[s].mDevices = strm[s].mDevices
             /\ active_devices' = active_devices \ (strm[s].mDevices \X {s})
  BY <1>1, <1>4 DEF StopRun, Unlocked, StreamFree, Kept, NotPaused, StreamType
<1>5. ASSUME StopRun(t)
      PROVE  \/ dev' = Stopped(dev, strm[Str(t)].mDevices) /\ Return(t, "ok")
             \/ /\ May("deviceStop") /\ Return(t, "err")
                /\ \E D \in SUBSET strm[Str(t)].mDevices : dev' = Stopped(dev, D)
  BY <1>2, <1>5 DEF StopRun
<1>6. StopEnter(t) => ~StopRun(t) /\ ~StopLock(t)
  BY DEF StopEnter, StopRun, StopLock
<1>7. StopLock(t) => ~StopRun(t)
  BY DEF StopRun, StopLock
<1>. QED  BY <1>3, <1>4, <1>5, <1>6, <1>7 DEF StopEnter, StopLock, Unlocked, StreamFree, Mutexes,
           IsRunning

\* close: by way of a stop when the stream runs.
LEMMA CloseDoes ==
  ASSUME Typed, NEW t, Str(t) \in Streams, CloseEnter(t) \/ CloseRun(t)
  PROVE  LET s == Str(t) IN
         /\ pc[t] \in {"close", "closeRun"} /\ Kept(s) /\ NotPaused(s) /\ Unlocked(s)
         /\ strm'[s].mDevices = strm[s].mDevices /\ active_devices' = active_devices
         /\ \/ /\ pc[t] = "close" /\ strm' = strm /\ dev' = dev
               /\ \/ Return(t, "ok") /\ strm[s].currentState = "IDLE"
                  \/ Call(t, "stop", "closeRun") /\ IsRunning(strm[s])
            \/ /\ pc[t] = "closeRun" \/ strm[s].currentState \in {"INIT", "STOPPED"}
               /\ strm'[s].currentState = "IDLE" /\ Return(t, "ok")
               /\ dev' = Closed(dev, strm[s].mDevices)
<1>1. strm[Str(t)] \in StreamType /\ strm \in [Streams -> StreamType]
  BY DEF Typed
<1>. QED  BY <1>1 DEF CloseEnter, CloseRun, CloseAll, Unlocked, StreamFree, Kept, NotPaused,
            StreamType, Mutexes, IsRunning

\* pause and resume touch no device.
LEMMA PauseDoes ==
  ASSUME Typed, NEW t, Str(t) \in Streams, Pause(t) \/ Resume(t)
  PROVE  LET s == Str(t) IN
         /\ pc[t] \in {"pause", "resume"} /\ Kept(s) /\ Unlocked(s) /\ dev' = dev
         /\ strm'[s].mDevices = strm[s].mDevices /\ active_devices' = active_devices
         /\ \E x \in {"ok", "err"} : Return(t, x)
         /\ \/ strm'[s].currentState = strm[s].currentState
            \/ pc[t] = "pause" /\ strm'[s].currentState = "PAUSED"
<1>1. strm[Str(t)] \in StreamType /\ strm \in [Streams -> StreamType]
  BY DEF Typed
<1>2. CASE Pause(t)
  BY <1>1, <1>2 DEF Pause, Unlocked, StreamFree, Kept, StreamType, Mutexes
<1>3. CASE Resume(t)
  BY <1>1, <1>3 DEF Resume, Unlocked, StreamFree, Kept, StreamType, Mutexes
<1>. QED  BY <1>2, <1>3

\* A step that touches no mutex leaves them with their owners.
LEMMA LocksKept ==
  ASSUME Typed, Locks, NEW t \in Threads, Stay(t),
         \A u \in Threads \ {t} : Str(u)' = Str(u),
         mStreamMutex' = mStreamMutex, pc[t] \notin Bound, pc'[t] \notin Bound
  PROVE  Locks'
BY DEF Locks, Stay, Typed

\* The operations hand a mutex on to nobody else.
LEMMA OperationLocks ==
  ASSUME Typed, Locks, NEW t \in Controls \cup {Ssr}, Operation(t)
  PROVE  Locks'
<1>. DEFINE s == Str(t)
<1>1. /\ s \in Streams /\ Stay(t) /\ Frame(s) /\ t \in Threads /\ t # None
      /\ Positions /\ Control /\ Starting \subseteq Labels /\ Typed' /\ MutexesTyped
  BY OperationTyped, TypedIs, Names, NamesAssumption DEF Positions, Labels
<1>2. \A u \in Threads : Str(u)' = Str(u)
  BY OperationTyped DEF Str
<1>3. ASSUME NEW x \in {"ok", "err"}, Return(t, x), pc[t] \in Calls
      PROVE  pc'[t] \notin Bound
  <2>1. CASE t \in Controls
    BY <1>1, <1>3, <2>1, CtlBack DEF At, Bound, Calls
  <2>2. CASE t = Ssr
    BY <1>1, <1>3, <2>2, SsrBack DEF At, Bound, Calls
  <2>. QED  BY <2>1, <2>2
<1>4. ASSUME NEW l, Goto(t, l) \/ \E b : Call(t, l, b)
      PROVE  pc'[t] = l
  BY <1>1, <1>4 DEF Goto, Call, Control
\* The mutex is not this thread's, before or after.
<1>5. ASSUME mStreamMutex' = mStreamMutex, pc[t] \notin Bound, pc'[t] \notin Bound
      PROVE  Locks'
  BY <1>1, <1>2, <1>5, LocksKept
\* The mutex is released.
<1>6. ASSUME pc[t] \in Bound, UnlockStream(s), pc'[t] \notin Bound
      PROVE  Locks'
  <2>1. mStreamMutex[s] = t
    BY <1>1, <1>6 DEF Locks
  <2>2. mStreamMutex'[s] = None /\ \A u \in Streams \ {s} : mStreamMutex'[u] = mStreamMutex[u]
    BY <1>1, <1>6, MutexSteps
  <2>3. ASSUME NEW u \in Threads, pc'[u] \in Bound
        PROVE  mStreamMutex'[Str(u)] = u
    <3>1. u # t /\ pc[u] \in Bound
      BY <1>1, <1>6, <2>3 DEF Stay
    <3>2. mStreamMutex[Str(u)] = u
      BY <3>1 DEF Locks
    <3>3. Str(u) \in Streams
      <4>1. CASE u = Ssr
        BY <1>1, <3>1, <4>1, Names DEF Typed, Bound
      <4>. QED  BY <4>1, Names
    <3>. QED  BY <2>1, <2>2, <3>1, <3>2, <3>3
  <2>4. ASSUME NEW u \in Streams, mStreamMutex'[u] # None
        PROVE  pc'[mStreamMutex'[u]] \in Bound /\ Str(mStreamMutex'[u]) = u
    <3>1. u # s /\ mStreamMutex'[u] = mStreamMutex[u]
      BY <2>2, <2>4
    <3>2. pc[mStreamMutex[u]] \in Bound /\ Str(mStreamMutex[u]) = u
          /\ mStreamMutex[u] \in Threads
      BY <1>1, <2>4, <3>1 DEF Locks, MutexesTyped
    <3>3. mStreamMutex[u] # t
      BY <3>1, <3>2
    <3>. QED  BY <1>1, <3>1, <3>2, <3>3 DEF Stay
  <2>5. ssr' = ssr
    BY OperationTyped
  <2>. QED  BY <2>3, <2>4, <2>5 DEF Locks, Str
\* The mutex is taken.
<1>7. ASSUME mStreamMutex[s] = None, LockStream(s, t), pc'[t] \in Bound, pc[t] \notin Bound
      PROVE  Locks'
  <2>1. mStreamMutex'[s] = t /\ \A u \in Streams \ {s} : mStreamMutex'[u] = mStreamMutex[u]
    BY <1>1, <1>7, MutexSteps
  <2>2. ASSUME NEW u \in Threads, pc'[u] \in Bound
        PROVE  mStreamMutex'[Str(u)] = u
    <3>1. CASE u = t
      BY <2>1, <3>1
    <3>2. CASE u # t
      <4>1. pc[u] \in Bound
        BY <1>1, <2>2, <3>2 DEF Stay
      <4>2. mStreamMutex[Str(u)] = u /\ u # None
        BY <4>1, NamesAssumption DEF Locks
      <4>3. Str(u) \in Streams
        <5>1. CASE u = Ssr
          BY <1>1, <4>1, <5>1, Names DEF Typed, Bound
        <5>. QED  BY <5>1, Names
      <4>. QED  BY <1>7, <2>1, <4>2, <4>3
    <3>. QED  BY <3>1, <3>2
  <2>3. ASSUME NEW u \in Streams, mStreamMutex'[u] # None
        PROVE  pc'[mStreamMutex'[u]] \in Bound /\ Str(mStreamMutex'[u]) = u
    <3>1. CASE u = s
      BY <1>7, <2>1, <3>1
    <3>2. CASE u # s
      <4>1. pc[mStreamMutex[u]] \in Bound /\ Str(mStreamMutex[u]) = u
            /\ mStreamMutex[u] \in Threads /\ mStreamMutex'[u] = mStreamMutex[u]
        BY <1>1, <2>1, <2>3, <3>2 DEF Locks, MutexesTyped
      <4>2. mStreamMutex[u] # t
        BY <1>7, <4>1
      <4>. QED  BY <1>1, <4>1, <4>2 DEF Stay
    <3>. QED  BY <3>1, <3>2
  <2>4. ssr' = ssr
    BY OperationTyped
  <2>. QED  BY <2>2, <2>3, <2>4 DEF Locks, Str
\* The mutex is kept.
<1>8. ASSUME pc[t] \in Bound, mStreamMutex' = mStreamMutex, pc'[t] \in Bound
      PROVE  Locks'
  BY <1>1, <1>2, <1>8 DEF Locks, Stay, MutexesTyped
<1>9. CASE Open(t)
  BY <1>1, <1>3, <1>5, <1>9, OpenDoes DEF Unlocked, Bound, Calls
<1>10. CASE StartEnter(t)
  BY <1>1, <1>3, <1>4, <1>5, <1>7, <1>10, StartEnterDoes DEF Unlocked, Bound, Calls, Starting
<1>11. CASE StartRun(t)
  <2>1. pc[t] \in Bound /\ pc[t] \in Calls
    BY <1>1, <1>11, StartRunDoes DEF Bound, Calls, Starting
  <2>2. \/ Return(t, "err") /\ UnlockStream(s)
        \/ Goto(t, "startReset") /\ UNCHANGED mStreamMutex
        \/ Goto(t, "startLock") /\ UnlockStream(s)
    BY <1>1, <1>11, StartRunDoes
  <2>. QED  BY <1>3, <1>4, <1>6, <1>8, <2>1, <2>2 DEF Bound
<1>12. CASE StartReset(t)
  BY <1>1, <1>3, <1>6, <1>12, StartRestDoes DEF Bound, Calls, Starting
<1>13. CASE StartLock(t) \/ StartRegister(t)
  BY <1>1, <1>3, <1>4, <1>5, <1>13, StartRestDoes DEF Unlocked, Bound, Calls, Starting
<1>14. CASE StopEnter(t) \/ StopLock(t) \/ StopRun(t)
  BY <1>1, <1>3, <1>4, <1>5, <1>14, StopDoes DEF Unlocked, Bound, Calls, Stopping
<1>15. CASE CloseEnter(t) \/ CloseRun(t)
  BY <1>1, <1>3, <1>4, <1>5, <1>15, CloseDoes DEF Unlocked, Bound, Calls
<1>16. CASE Pause(t) \/ Resume(t)
  BY <1>1, <1>3, <1>5, <1>16, PauseDoes DEF Unlocked, Bound, Calls
<1>. QED  BY <1>9, <1>10, <1>11, <1>12, <1>13, <1>14, <1>15, <1>16 DEF Operation

\* The mutex of a stream is held by who starts it, always.
LEMMA StepLocks ==
  ASSUME Typed, Locks, [Next]_vars
  PROVE  Locks'
<1>1. Positions /\ Control /\ MutexesTyped /\ Ssr \in Threads
  BY TypedIs, Names DEF Positions
<1>2. ASSUME NEW t \in Controls,
             \/ PalOpened(t) \/ PalStop(t) \/ PalClose(t) \/ PalDone(t) \/ PalClosed(t)
             \/ PalOpen(t) \/ \E op \in Ops : PalCall(t, op)
      PROVE  Locks'
  <2>1. t \in Threads /\ Stay(t) /\ mStreamMutex' = mStreamMutex /\ ssr'.stream = ssr.stream
    BY <1>2, CallerTyped, Names DEF Mutexes
  <2>2. pc[t] \notin Bound
    BY <1>2 DEF PalOpened, PalStop, PalClose, PalDone, PalClosed, PalOpen, PalCall, Bound
  <2>3. pc'[t] \notin Bound
    <3>1. \E l \in {"idle", "palStop", "palClose", "open", "close", "stop", "start", "pause",
                    "resume"} : Goto(t, l) \/ \E b : Call(t, l, b)
      <4>1. CASE \E op \in Ops : PalCall(t, op)
        <5>1. PICK op \in Ops : PalCall(t, op)
          BY <4>1
        <5>2. op \in {"start", "stop", "pause", "resume", "close"}
          BY <5>1 DEF PalCall, MayCall
        <5>. QED  BY <5>1, <5>2 DEF PalCall
      <4>. QED  BY <1>2, <4>1 DEF PalOpened, PalStop, PalClose, PalDone, PalClosed, PalOpen
    <3>. QED  BY <1>1, <2>1, <3>1 DEF Goto, Call, Control, Bound
  <2>4. \A u \in Threads : Str(u)' = Str(u)
    BY <2>1 DEF Str
  <2>. QED  BY <2>1, <2>2, <2>3, <2>4, LocksKept
<1>3. ASSUME NEW t \in WriterThreads, WriterStep(t) \/ PalWrite(t)
      PROVE  Locks'
  <2>1. t \in Threads /\ Stay(t) /\ mStreamMutex' = mStreamMutex /\ ssr' = ssr /\ Typed'
    BY <1>3, WriterTyped, Names
  <2>2. pc[t] \notin Bound /\ pc'[t] \notin Bound
    <3>1. WrAt(pc[t], ret[t]) /\ WrAt(pc'[t], ret'[t])
      BY <2>1 DEF Typed, Positions
    <3>. QED  BY <3>1 DEF WrAt, Bound
  <2>3. \A u \in Threads : Str(u)' = Str(u)
    BY <2>1 DEF Str
  <2>. QED  BY <2>1, <2>2, <2>3, LocksKept
<1>4. CASE SsrOwn
  <2>1. Stay(Ssr) /\ mStreamMutex' = mStreamMutex
    BY <1>4, SsrOwnTyped
  <2>2. pc[Ssr] \notin Bound
    BY <1>4 DEF SsrOwn, SsrTake, SsrNext, SsrDone, SsrDown, SsrDownStopped, SsrDownEnd, SsrUp,
        SsrUpOpened, SsrUpStarted, SsrUpEnd, Bound
  <2>3. pc'[Ssr] \notin Bound
    <3>1. \/ pc' = pc
          \/ \E l \in {"idle", "walk", "down", "up", "close", "stop", "downEnd", "open", "start",
                       "upEnd", "pause"} : Goto(Ssr, l) \/ \E b : Call(Ssr, l, b)
      BY <1>4 DEF SsrOwn, SsrTake, SsrNext, SsrDone, SsrDown, SsrDownStopped, SsrDownEnd, SsrUp,
        SsrUpOpened, SsrUpStarted, SsrUpEnd
    <3>. QED  BY <1>1, <2>2, <3>1 DEF Goto, Call, Control, Bound
  <2>4. \A u \in Threads \ {Ssr} : Str(u)' = Str(u)
    BY DEF Str
  <2>. QED  BY <1>1, <2>1, <2>2, <2>3, <2>4, LocksKept
<1>5. CASE CardGoesDown \/ CardComesUp
  <2>1. pc' = pc /\ ssr' = ssr /\ mStreamMutex' = mStreamMutex
    BY <1>5 DEF CardGoesDown, CardComesUp, Mutexes
  <2>. QED  BY <2>1 DEF Locks, Str
<1>6. CASE UNCHANGED vars
  BY <1>6 DEF vars, Locks, Str
<1>. QED  BY <1>2, <1>3, <1>4, <1>5, <1>6, StepKinds, OperationLocks

-----------------------------------------------------------------------------
(* Where each thread may be, and what its stream then looks like.            *)

\* A step of a client leaves the others at their places when it leaves its stream as they
\* need it.
LEMMA PlacesFrom ==
  ASSUME Typed, Steady, Places, NEW t \in Controls, Stay(t), Frame(Str(t)),
         ssr'.stream = ssr.stream, ssr'.upTo = ssr.upTo, cardState' = cardState,
         CtlPlace(strm'[Str(t)], pc'[t], ret'[t], status'[t]),
         CtlLive(strm'[Str(t)], pc'[t], status'[t]),
         \A w \in WriterThreads : Str(w) = Str(t) => WrPlace(strm'[Str(t)], pc[w]),
         ssr.stream = Str(t) /\ pc[Ssr] \notin {"idle", "walk"} =>
           SsrPlace(strm'[Str(t)], pc[Ssr], ret[Ssr], mStreamMutex'[Str(t)]),
         MaxDown # 0 => strm'[Str(t)].currentState # "PAUSED"
                        /\ strm'[Str(t)].cachedState # "PAUSED"
                        /\ strm'[Str(t)].handle # "closing"
  PROVE  Places'
<1>. DEFINE s == Str(t)
<1>1. t \in Threads /\ s \in Streams /\ t # Ssr /\ Ssr \in Threads /\ t = <<t[1], s>>
      /\ t \notin WriterThreads /\ \A u \in Controls \cup WriterThreads : Str(u)' = Str(u)
  BY Names DEF Controls, Str
<1>2. scenario' = scenario /\ \A u \in Threads \ {t} : pc'[u] = pc[u] /\ ret'[u] = ret[u]
                                                       /\ status'[u] = status[u]
  BY DEF Stay
<1>3. ASSUME NEW u \in Controls
      PROVE  CtlPlace(strm[Str(u)], pc[u], ret[u], status[u])'
             /\ CtlLive(strm[Str(u)], pc[u], status[u])'
  <2>1. CtlPlace(strm'[Str(u)], pc'[u], ret'[u], status'[u])
        /\ CtlLive(strm'[Str(u)], pc'[u], status'[u])
    <3>1. CASE u = t
      BY <3>1
    <3>2. CASE u # t
      <4>1. Str(u) # s /\ Str(u) \in Streams /\ u \in Threads
        BY <1>1, <3>2, Names DEF Steady, Controls
      <4>2. strm'[Str(u)] = strm[Str(u)]
        BY <4>1 DEF Frame
      <4>. QED  BY <1>2, <3>2, <4>1, <4>2 DEF Places
    <3>. QED  BY <3>1, <3>2
  <2>. QED  BY <1>1, <1>2, <2>1 DEF CtlPlace, CtlLive, MaxDown, Ops, Writes
<1>4. ASSUME NEW w \in WriterThreads
      PROVE  WrPlace(strm[Str(w)], pc[w])'
  <2>1. WrPlace(strm'[Str(w)], pc[w])
    <3>1. CASE Str(w) = s
      BY <3>1
    <3>2. CASE Str(w) # s
      BY <3>2, Names DEF Frame, Places
    <3>. QED  BY <3>1, <3>2
  <2>2. pc'[w] = pc[w]
    BY <1>1, <1>2, Names
  <2>. QED  BY <1>1, <1>2, <2>1, <2>2 DEF WrPlace, Writes
<1>5. SsrPlace(strm[ssr.stream], pc[Ssr], ret[Ssr], mStreamMutex[ssr.stream])'
  <2>1. pc'[Ssr] = pc[Ssr] /\ ret'[Ssr] = ret[Ssr]
        /\ SsrPlace(strm[ssr.stream], pc[Ssr], ret[Ssr], mStreamMutex[ssr.stream])
    BY <1>1, <1>2 DEF Places
  <2>2. CASE pc[Ssr] \in {"idle", "walk"}
    BY <1>2, <2>1, <2>2 DEF SsrPlace, MaxDown, Leaving, Stopping, Bound
  <2>3. CASE pc[Ssr] \notin {"idle", "walk"}
    <3>1. SsrPlace(strm'[ssr.stream], pc[Ssr], ret[Ssr], mStreamMutex'[ssr.stream])
      <4>1. CASE ssr.stream = s
        BY <2>3, <4>1
      <4>2. CASE ssr.stream # s
        <5>1. ssr.stream \in Streams
          BY <2>3 DEF Typed
        <5>. QED  BY <2>1, <4>2, <5>1 DEF Frame
      <4>. QED  BY <4>1, <4>2
    <3>. QED  BY <1>2, <2>1, <3>1 DEF SsrPlace, MaxDown, CardDown
  <2>. QED  BY <2>2, <2>3
<1>6. ASSUME NEW u \in Streams, MaxDown' # 0
      PROVE  /\ strm'[u].currentState # "PAUSED" /\ strm'[u].cachedState # "PAUSED"
             /\ strm'[u].handle # "closing" /\ ssr'.upTo # "PAUSED"
  <2>1. MaxDown # 0
    BY <1>2, <1>6 DEF MaxDown
  <2>. QED  BY <2>1 DEF Places, Frame
<1>7. MaxDown' # 0 => ssr'.upTo # "PAUSED"
  BY <1>2 DEF MaxDown, Places
<1>. QED  BY <1>3, <1>4, <1>5, <1>6, <1>7 DEF Places

\* Where a client may be while recovery works on its stream.
LEMMA Meeting ==
  ASSUME Typed, Steady, Places, Locks, NEW t \in Controls, ssr.stream = Str(t),
         pc[Ssr] \notin {"idle", "walk"}
  PROVE  /\ MaxDown # 0 /\ strm[Str(t)].handle = "valid" /\ ~Writes
         /\ pc[t] \in Starting \cup {"idle", "startDone"}
         /\ SsrPlace(strm[Str(t)], pc[Ssr], ret[Ssr], mStreamMutex[Str(t)])
         /\ pc[t] \in Bound => mStreamMutex[Str(t)] = t /\ t # None /\ pc[Ssr] \notin Leaving
                               /\ pc[Ssr] \notin Bound
<1>1. /\ SsrPlace(strm[Str(t)], pc[Ssr], ret[Ssr], mStreamMutex[Str(t)])
      /\ CtlPlace(strm[Str(t)], pc[t], ret[t], status[t])
      /\ CtlAt(pc[t], ret[t])
      /\ t \in Threads /\ t # None /\ t # Ssr /\ Ssr \in Threads /\ Str(Ssr) = ssr.stream
  BY Names, NamesAssumption DEF Places, Typed, Positions
<1>2. MaxDown # 0 /\ strm[Str(t)].handle = "valid"
  BY <1>1 DEF SsrPlace
<1>3. pc[t] \in Starting \cup {"idle", "startDone"}
  BY <1>1, <1>2 DEF CtlPlace, CtlAt
<1>4. ASSUME pc[t] \in Bound
      PROVE  mStreamMutex[Str(t)] = t /\ pc[Ssr] \notin Leaving /\ pc[Ssr] \notin Bound
  BY <1>1, <1>4 DEF Locks, SsrPlace
<1>. QED  BY <1>1, <1>2, <1>3, <1>4 DEF Steady

\* Every operation a client calls finds its stream as it needs it, and leaves it so.
LEMMA CtlOperationPlaces ==
  ASSUME Typed, Steady, Places, Locks, NoLoss, NEW t \in Controls, Operation(t)
  PROVE  Places'
<1>. DEFINE s == Str(t)
            x == strm[s]
            y == strm'[s]
<1>1. /\ t \in Threads /\ s \in Streams /\ Stay(t) /\ Frame(s) /\ ssr' = ssr
      /\ cardState' = cardState /\ x \in StreamType /\ Positions /\ t # None
      /\ Control /\ CtlAt(pc[t], ret[t]) /\ CtlPlace(x, pc[t], ret[t], status[t])
      /\ CtlLive(x, pc[t], status[t])
  BY OperationTyped, Names, NamesAssumption DEF Typed, Positions, Places
<1>2. ASSUME Kept(s)
      PROVE  \A w \in WriterThreads : Str(w) = s => WrPlace(y, pc[w])
  BY <1>2 DEF Places, WrPlace, Kept
<1>3. MaxDown # 0 => x.currentState # "PAUSED" /\ x.cachedState # "PAUSED"
                     /\ x.handle # "closing"
  BY <1>1 DEF Places
<1>4. ASSUME Kept(s), CtlPlace(y, pc'[t], ret'[t], status'[t]), CtlLive(y, pc'[t], status'[t]),
             ssr.stream = s /\ pc[Ssr] \notin {"idle", "walk"} =>
               SsrPlace(y, pc[Ssr], ret[Ssr], mStreamMutex'[s]),
             MaxDown # 0 => y.currentState # "PAUSED" /\ y.cachedState # "PAUSED"
      PROVE  Places'
  <2>1. MaxDown # 0 => y.handle # "closing"
    BY <1>3, <1>4 DEF Kept
  <2>. QED  BY <1>1, <1>2, <1>4, <2>1, PlacesFrom
\* Recovery finds its stream as it was.
<1>5. ASSUME Same(s), mStreamMutex' = mStreamMutex \/ pc[Ssr] \notin Leaving,
             ssr.stream = s /\ pc[Ssr] \notin {"idle", "walk"}
      PROVE  SsrPlace(y, pc[Ssr], ret[Ssr], mStreamMutex'[s])
  <2>1. SsrPlace(x, pc[Ssr], ret[Ssr], mStreamMutex[s])
    BY <1>5 DEF Places
  <2>. QED  BY <1>5, <2>1 DEF SsrPlace, Same, Kept, IsRunning
<1>6. ASSUME pc[t] \notin Starting, NEW m
      PROVE  ssr.stream = s /\ pc[Ssr] \notin {"idle", "walk"} =>
               pc[t] \in {"idle", "startDone"}
  BY <1>1, <1>6, Meeting
<1>7. ASSUME NEW l, Goto(t, l)
      PROVE  pc'[t] = l /\ ret'[t] = ret[t] /\ status'[t] = status[t]
  BY <1>1, <1>7 DEF Goto, Control
<1>8. CASE Open(t)
  <2>1. /\ pc[t] = "open" /\ Unlocked(s) /\ Kept(s) /\ NotPaused(s)
        /\ \E r \in {"ok", "err"} :
              /\ Return(t, r)
              /\ \/ y.currentState = x.currentState
                 \/ x.currentState = "IDLE" /\ y.currentState = "INIT" /\ r = "ok"
    BY <1>1, <1>8, OpenDoes
  <2>2. pc'[t] = "opened" /\ ret'[t] = <<>> /\ x.handle = "opening" /\ x.currentState = "IDLE"
    BY <1>1, <2>1, CtlBack DEF At, Calls, CtlPlace, CtlAt, Starting, Stopping, StreamType
  <2>3. y.currentState = x.currentState \/ status'[t] = "ok"
    BY <1>1, <2>1, CtlBack DEF Calls
  <2>4. CtlPlace(y, pc'[t], ret'[t], status'[t]) /\ CtlLive(y, pc'[t], status'[t])
    BY <1>1, <2>1, <2>2, <2>3 DEF CtlPlace, CtlLive, Kept, Starting, Stopping, Bound, Joining
  <2>. QED  BY <1>3, <1>4, <1>6, <2>1, <2>4 DEF NotPaused, Starting
<1>9. CASE StartEnter(t)
  <2>1. /\ pc[t] = "start" /\ mStreamMutex[s] = None /\ Same(s) /\ NotPaused(s)
        /\ \/ /\ Unlocked(s)
              /\ \E r \in {"ok", "err"} : /\ Return(t, r)
                                          /\ r = "ok" => CardDown \/ x.currentState = "STARTED"
           \/ /\ ~CardDown /\ LockStream(s, t) /\ Goto(t, "startRun")
              /\ x.currentState \in {"INIT", "STOPPED"}
    BY <1>1, <1>9, StartEnterDoes
  <2>2. /\ x.want \in {"open", "stopped"} /\ ret[t] = <<"startDone">>
        /\ x.handle # "none" /\ x.handle # "opening" /\ x.handle # "closing"
    BY <1>1, <2>1 DEF CtlPlace, CtlAt, Starting, Stopping
  <2>3. CASE Goto(t, "startRun") /\ ~CardDown /\ x.currentState \in {"INIT", "STOPPED"}
    <3>1. pc'[t] = "startRun" /\ ret'[t] = ret[t] /\ status'[t] = status[t]
      BY <1>7, <2>3
    <3>2. CtlPlace(y, pc'[t], ret'[t], status'[t]) /\ CtlLive(y, pc'[t], status'[t])
      BY <1>1, <2>1, <2>2, <2>3, <3>1 DEF CtlPlace, CtlLive, Same, Kept, Starting, Stopping, Bound,
         Joining, IsRunning
    <3>3. ssr.stream = s /\ pc[Ssr] \notin {"idle", "walk"} => pc[Ssr] \notin Leaving
      BY <2>3 DEF Places, SsrPlace
    <3>. QED  BY <1>3, <1>4, <1>5, <2>1, <3>2, <3>3 DEF Same, NotPaused
  <2>4. ASSUME NEW r \in {"ok", "err"}, Return(t, r),
               r = "ok" => CardDown \/ x.currentState = "STARTED",
               Unlocked(s)
        PROVE  Places'
    <3>1. pc'[t] = "startDone" /\ ret'[t] = <<>> /\ status'[t] = r
      BY <1>1, <2>1, <2>4, CtlBack DEF At, Calls, Starting
    <3>2. MaxDown = 0 => ~CardDown
      BY DEF NoLoss, CardDown
    <3>3. CtlPlace(y, pc'[t], ret'[t], status'[t]) /\ CtlLive(y, pc'[t], status'[t])
      BY <1>1, <2>1, <2>2, <2>4, <3>1, <3>2 DEF CtlPlace, CtlLive, Same, Kept, Starting, Stopping,
         Bound, Joining, IsRunning
    <3>. QED  BY <1>3, <1>4, <1>5, <2>1, <2>4, <3>3 DEF Same, NotPaused, Unlocked
  <2>. QED  BY <2>1, <2>3, <2>4
<1>10. CASE StartRun(t)
  <2>1. /\ pc[t] = "startRun" /\ Kept(s) /\ y.cachedState = x.cachedState
        /\ \/ Return(t, "err") /\ y.currentState = x.currentState
           \/ Goto(t, "startReset") /\ y.currentState = x.currentState
           \/ Goto(t, "startLock") /\ y.currentState = "STARTED"
    BY <1>1, <1>10, StartRunDoes
  <2>2. /\ x.want \in {"open", "stopped"} /\ ret[t] = <<"startDone">>
        /\ x.handle # "none" /\ x.handle # "opening" /\ x.handle # "closing"
        /\ x.currentState \in {"INIT", "STOPPED"}
    BY <1>1, <2>1 DEF CtlPlace, CtlAt, Starting, Stopping, Bound
  <2>3. ASSUME ssr.stream = s /\ pc[Ssr] \notin {"idle", "walk"}
        PROVE  SsrPlace(y, pc[Ssr], ret[Ssr], mStreamMutex'[s])
    <3>1. pc[Ssr] \notin Leaving /\ pc[Ssr] \notin Bound
          /\ SsrPlace(x, pc[Ssr], ret[Ssr], mStreamMutex[s])
      BY <2>1, <2>3, Meeting DEF Bound
    <3>. QED  BY <2>1, <3>1 DEF SsrPlace, Kept, Leaving
  <2>4. CASE Goto(t, "startReset") /\ y.currentState = x.currentState
    <3>1. pc'[t] = "startReset" /\ ret'[t] = ret[t] /\ status'[t] = status[t]
      BY <1>7, <2>4
    <3>2. CtlPlace(y, pc'[t], ret'[t], status'[t]) /\ CtlLive(y, pc'[t], status'[t])
      BY <1>1, <2>1, <2>2, <2>4, <3>1 DEF CtlPlace, CtlLive, Kept, Starting, Stopping, Bound,
         Joining, IsRunning
    <3>. QED  BY <1>3, <1>4, <2>1, <2>3, <2>4, <3>2
  <2>5. CASE Goto(t, "startLock") /\ y.currentState = "STARTED"
    <3>1. pc'[t] = "startLock" /\ ret'[t] = ret[t] /\ status'[t] = status[t]
      BY <1>7, <2>5
    <3>2. CtlPlace(y, pc'[t], ret'[t], status'[t]) /\ CtlLive(y, pc'[t], status'[t])
      BY <1>1, <2>1, <2>2, <2>5, <3>1 DEF CtlPlace, CtlLive, Kept, Starting, Stopping, Bound,
         Joining, IsRunning
    <3>. QED  BY <1>3, <1>4, <2>1, <2>3, <2>5, <3>2
  <2>6. CASE Return(t, "err") /\ y.currentState = x.currentState
    <3>1. pc'[t] = "startDone" /\ ret'[t] = <<>> /\ status'[t] = "err"
      BY <1>1, <2>1, <2>6, CtlBack DEF At, Calls, Starting
    <3>2. CtlPlace(y, pc'[t], ret'[t], status'[t]) /\ CtlLive(y, pc'[t], status'[t])
      BY <1>1, <2>1, <2>2, <2>6, <3>1 DEF CtlPlace, CtlLive, Kept, Starting, Stopping, Bound,
         Joining, IsRunning
    <3>. QED  BY <1>3, <1>4, <2>1, <2>3, <2>6, <3>2
  <2>. QED  BY <2>1, <2>4, <2>5, <2>6
<1>11. CASE StartReset(t)
  <2>1. pc[t] = "startReset" /\ Same(s) /\ NotPaused(s) /\ Return(t, "ok")
    BY <1>1, <1>11, StartRestDoes
  <2>2. /\ x.want \in {"open", "stopped"} /\ ret[t] = <<"startDone">>
        /\ x.handle # "none" /\ x.handle # "opening" /\ x.handle # "closing"
        /\ x.currentState \in {"INIT", "STOPPED"}
    BY <1>1, <2>1 DEF CtlPlace, CtlAt, Starting, Stopping, Bound
  <2>3. pc'[t] = "startDone" /\ ret'[t] = <<>> /\ status'[t] = "ok" /\ MaxDown # 0
    BY <1>1, <2>1, CtlBack DEF At, Calls, Starting, NoLoss, Unreported
  <2>4. CtlPlace(y, pc'[t], ret'[t], status'[t]) /\ CtlLive(y, pc'[t], status'[t])
    BY <1>1, <2>1, <2>2, <2>3 DEF CtlPlace, CtlLive, Same, Kept, Starting, Stopping, Bound,
         Joining, IsRunning
  <2>5. ssr.stream = s /\ pc[Ssr] \notin {"idle", "walk"} => pc[Ssr] \notin Leaving
    BY <2>1, Meeting DEF Bound
  <2>. QED  BY <1>3, <1>4, <1>5, <2>1, <2>4, <2>5 DEF Same, NotPaused
<1>12. CASE StartLock(t) \/ StartRegister(t)
  <2>1. strm' = strm /\ mStreamMutex' = mStreamMutex /\ Same(s) /\ NotPaused(s)
        /\ \/ pc[t] = "startLock" /\ Goto(t, "startRegister")
           \/ pc[t] = "startRegister" /\ Return(t, "ok")
    BY <1>1, <1>12, StartRestDoes DEF Unlocked, Same, Kept, NotPaused
  <2>2. /\ x.want \in {"open", "stopped"} /\ ret[t] = <<"startDone">>
        /\ x.handle # "none" /\ x.handle # "opening" /\ x.handle # "closing"
    BY <1>1, <2>1 DEF CtlPlace, CtlAt, Starting, Stopping
  <2>3. /\ pc'[t] \in {"startRegister", "startDone"}
        /\ pc'[t] = "startRegister" => ret'[t] = <<"startDone">>
        /\ pc'[t] = "startDone" => ret'[t] = <<>>
        /\ pc[t] \in Joining
    BY <1>1, <1>7, <2>1, <2>2, CtlBack DEF At, Calls, Starting, Joining
  <2>4. CtlPlace(y, pc'[t], ret'[t], status'[t]) /\ CtlLive(y, pc'[t], status'[t])
    BY <1>1, <2>1, <2>2, <2>3 DEF CtlPlace, CtlLive, Same, Kept, Starting, Stopping, Bound,
         Joining, IsRunning
  <2>. QED  BY <1>3, <1>4, <1>5, <2>1, <2>4 DEF Same, NotPaused
<1>13. CASE StopEnter(t) \/ StopLock(t) \/ StopRun(t)
  <2>1. /\ Kept(s) /\ NotPaused(s) /\ pc[t] \in Stopping
        /\ \/ pc[t] = "stop" /\ Goto(t, "stopLock") /\ IsRunning(x) /\ y = x
           \/ /\ pc[t] = "stop" /\ \E r \in {"ok", "err"} : Return(t, r)
              /\ ~IsRunning(x) /\ y = x
           \/ pc[t] = "stopLock" /\ Goto(t, "stopRun") /\ y = x
           \/ /\ pc[t] = "stopRun" /\ y.currentState = "STOPPED"
              /\ Return(t, "ok") \/ (May("deviceStop") /\ Return(t, "err"))
    BY <1>1, <1>13, StopDoes DEF Kept, NotPaused, Stopping
  <2>2. /\ \/ ret[t] = <<"stopDone">> /\ x.handle = "valid" /\ MaxDown = 0 /\ "stop" \in Ops
           \/ ret[t] = <<"closeRun", "closed">> /\ x.handle = "closing" /\ IsRunning(x)
              /\ MaxDown = 0
    BY <1>1, <1>3, <2>1 DEF CtlPlace, CtlAt, Starting, Stopping, StreamType
  <2>3. CtlPlace(y, pc'[t], ret'[t], status'[t]) /\ CtlLive(y, pc'[t], status'[t])
    <3>1. CASE \/ pc[t] = "stop" /\ Goto(t, "stopLock") /\ IsRunning(x) /\ y = x
               \/ pc[t] = "stopLock" /\ Goto(t, "stopRun") /\ y = x
      <4>1. pc'[t] \in {"stopLock", "stopRun"} /\ ret'[t] = ret[t] /\ IsRunning(x) /\ y = x
        BY <1>1, <1>7, <3>1 DEF CtlPlace
      <4>. QED  BY <1>1, <2>2, <4>1 DEF CtlPlace, CtlLive, Starting, Stopping, Bound, Joining
    <3>2. CASE /\ pc[t] = "stop" /\ \E r \in {"ok", "err"} : Return(t, r)
               /\ ~IsRunning(x) /\ y = x
      <4>1. ret[t] = <<"stopDone">> /\ pc'[t] = "stopDone" /\ ret'[t] = <<>>
        BY <1>1, <2>2, <3>2, CtlBack DEF At, Calls, Stopping
      <4>. QED  BY <1>1, <2>2, <3>2, <4>1 DEF CtlPlace, CtlLive, Starting, Stopping, Bound, Joining
    <3>3. CASE /\ pc[t] = "stopRun" /\ y.currentState = "STOPPED"
               /\ Return(t, "ok") \/ (May("deviceStop") /\ Return(t, "err"))
      <4>1. PICK r \in {"ok", "err"} : Return(t, r) /\ (r = "err" => May("deviceStop"))
        BY <3>3
      <4>2. /\ status'[t] = r
            /\ \/ ret[t] = <<"stopDone">> /\ pc'[t] = "stopDone" /\ ret'[t] = <<>>
               \/ ret[t] = <<"closeRun", "closed">> /\ pc'[t] = "closeRun" /\ ret'[t] = <<"closed">>
        BY <1>1, <2>1, <4>1, CtlBack DEF At, Calls
      <4>3. ret[t] # <<"stopDone">> \/ ret[t] # <<"closeRun", "closed">>
        BY Popped DEF Labels
      <4>4. CtlPlace(y, pc'[t], ret'[t], status'[t])
        BY <1>1, <2>1, <2>2, <3>3, <4>2 DEF CtlPlace, Kept, Starting, Stopping, Bound
      <4>5. CtlLive(y, pc'[t], status'[t])
        <5>1. CASE ret[t] = <<"closeRun", "closed">>
          BY <2>1, <2>2, <4>2, <4>3, <5>1 DEF CtlLive, Kept, Joining
        <5>2. CASE ret[t] = <<"stopDone">>
          <6>1. ("pause" \in Ops \/ Writes) => r = "ok"
            BY <2>2, <4>1, <4>3, <5>2 DEF Steady, May
          <6>. QED  BY <2>1, <2>2, <4>2, <4>3, <5>2, <6>1 DEF CtlLive, Kept, Joining
        <5>. QED  BY <2>2, <5>1, <5>2
      <4>. QED  BY <4>4, <4>5
    <3>. QED  BY <2>1, <3>1, <3>2, <3>3
  <2>4. ssr.stream = s => pc[Ssr] \in {"idle", "walk"}
    BY <2>2 DEF Places, SsrPlace
  <2>. QED  BY <1>3, <1>4, <2>1, <2>3, <2>4 DEF NotPaused
<1>14. CASE CloseEnter(t) \/ CloseRun(t)
  <2>1. /\ pc[t] \in {"close", "closeRun"} /\ Kept(s) /\ NotPaused(s)
        /\ \/ /\ pc[t] = "close" /\ strm' = strm
              /\ \/ Return(t, "ok") /\ x.currentState = "IDLE"
                 \/ Call(t, "stop", "closeRun") /\ IsRunning(x)
           \/ y.currentState = "IDLE" /\ Return(t, "ok")
    BY <1>1, <1>14, CloseDoes
  <2>2. ret[t] = <<"closed">> /\ x.handle \in {"opening", "closing"}
        /\ (x.handle = "opening" => x.currentState = "IDLE")
    BY <1>1, <2>1 DEF CtlPlace, CtlAt, Starting, Stopping, StreamType
  <2>3. CtlPlace(y, pc'[t], ret'[t], status'[t]) /\ CtlLive(y, pc'[t], status'[t])
    <3>1. CASE Return(t, "ok") /\ y.currentState = "IDLE"
      <4>1. pc'[t] = "closed" /\ ret'[t] = <<>>
        BY <1>1, <2>1, <3>1, CtlBack DEF At, Calls
      <4>. QED  BY <1>1, <2>1, <2>2, <3>1, <4>1 DEF CtlPlace, CtlLive, Kept, Starting, Stopping,
                Bound, Joining
    <3>2. CASE Call(t, "stop", "closeRun") /\ IsRunning(x) /\ strm' = strm
      <4>1. pc'[t] = "stop" /\ ret'[t] = <<"closeRun", "closed">>
        BY <1>1, <2>2, <3>2, Pushed DEF Call, Control
      <4>2. x.handle = "closing"
        BY <2>2, <3>2 DEF IsRunning
      <4>. QED  BY <1>1, <3>2, <4>1, <4>2 DEF CtlPlace, CtlLive, Starting, Stopping, Bound, Joining
    <3>. QED  BY <2>1, <3>1, <3>2
  <2>4. ssr.stream = s => pc[Ssr] \in {"idle", "walk"}
    BY <1>6, <2>1 DEF Starting
  <2>. QED  BY <1>3, <1>4, <2>1, <2>3, <2>4 DEF NotPaused
<1>15. CASE Pause(t) \/ Resume(t)
  <2>1. /\ pc[t] \in {"pause", "resume"} /\ Kept(s)
        /\ \E r \in {"ok", "err"} : Return(t, r)
        /\ \/ y.currentState = x.currentState
           \/ pc[t] = "pause" /\ y.currentState = "PAUSED"
    BY <1>1, <1>15, PauseDoes
  <2>2. /\ x.want \in {"started", "paused"} /\ MaxDown = 0 /\ x.handle = "valid"
        /\ pc[t] = "pause" => "pause" \in Ops
    BY <1>1, <2>1 DEF CtlPlace, CtlAt, Starting, Stopping, StreamType
  <2>3. /\ pc'[t] \in {"pauseDone", "resumeDone"} /\ ret'[t] = <<>>
        /\ pc'[t] = "pauseDone" => "pause" \in Ops
    BY <1>1, <2>1, <2>2, CtlBack DEF At, Calls
  <2>4. pc[t] = "pause" => IsRunning(x)
    BY <1>1, <2>2 DEF CtlLive
  <2>5. CtlPlace(y, pc'[t], ret'[t], status'[t])
    BY <1>1, <2>1, <2>2, <2>3 DEF CtlPlace, Kept, Starting, Stopping, Bound, IsRunning
  <2>6. CtlLive(y, pc'[t], status'[t])
    BY <1>1, <2>1, <2>2, <2>3, <2>4 DEF CtlLive, Kept, Joining, IsRunning
  <2>7. ssr.stream = s => pc[Ssr] \in {"idle", "walk"}
    BY <1>6, <2>1 DEF Starting
  <2>. QED  BY <1>4, <2>1, <2>2, <2>5, <2>6, <2>7
<1>. QED  BY <1>8, <1>9, <1>10, <1>11, <1>12, <1>13, <1>14, <1>15 DEF Operation

\* A step of the recovery thread leaves clients where they are; the stream they work on
\* keeps the state they rely on.
LEMMA PlacesFromSsr ==
  ASSUME Typed, Steady, Places, MaxDown # 0, Stay(Ssr), NEW s \in Streams,
         \A u \in Streams \ {s} : strm'[u] = strm[u],
         Kept(s), NotPaused(s), strm[s].handle = "valid",
         \/ strm'[s].currentState = strm[s].currentState
         \/ \A t \in Controls : Str(t) = s => pc[t] \notin Bound,
         ssr'.upTo # "PAUSED",
         SsrPlace(strm[ssr.stream], pc[Ssr], ret[Ssr], mStreamMutex[ssr.stream])'
  PROVE  Places'
<1>1. scenario' = scenario
      /\ \A u \in Threads \ {Ssr} : pc'[u] = pc[u] /\ ret'[u] = ret[u] /\ status'[u] = status[u]
  BY DEF Stay
<1>2. ASSUME NEW t \in Controls
      PROVE  CtlPlace(strm[Str(t)], pc[t], ret[t], status[t])'
             /\ CtlLive(strm[Str(t)], pc[t], status[t])'
  <2>1. t \in Threads \ {Ssr} /\ Str(t) \in Streams /\ Str(t)' = Str(t)
    BY Names DEF Str
  <2>2. CtlPlace(strm[Str(t)], pc[t], ret[t], status[t])
    BY DEF Places
  <2>3. CtlAt(pc[t], ret[t])
    BY DEF Typed, Positions
  <2>4. CtlPlace(strm'[Str(t)], pc[t], ret[t], status[t])
    <3>1. CASE Str(t) # s
      BY <2>1, <2>2, <3>1
    <3>2. CASE Str(t) = s
      <4>1. pc[t] \in Starting \cup {"idle", "startDone"}
        BY <2>2, <2>3, <3>2 DEF CtlPlace, CtlAt
      <4>2. ret[t] # <<"closeRun", "closed">>
        BY <2>3, <4>1, Popped DEF CtlAt, Starting, Stopping, Labels
      <4>. QED  BY <2>2, <3>2, <4>1, <4>2 DEF CtlPlace, Kept, Starting
    <3>. QED  BY <3>1, <3>2
  <2>. QED  BY <1>1, <2>1, <2>4 DEF CtlPlace, CtlLive, MaxDown, Ops
<1>3. ASSUME NEW w \in WriterThreads
      PROVE  WrPlace(strm[Str(w)], pc[w])'
  <2>1. w \in Threads \ {Ssr} /\ Str(w) \in Streams /\ Str(w)' = Str(w)
    BY Names DEF Str
  <2>2. pc[w] = "idle"
    BY DEF Places, WrPlace, Steady
  <2>. QED  BY <1>1, <2>1, <2>2 DEF WrPlace
<1>4. \A u \in Streams : MaxDown' # 0 => strm'[u].currentState # "PAUSED"
                                       /\ strm'[u].cachedState # "PAUSED"
                                       /\ strm'[u].handle # "closing"
  BY DEF Places, Kept, NotPaused
<1>. QED  BY <1>2, <1>3, <1>4 DEF Places

\* So does every operation that recovery calls.
LEMMA SsrOperationPlaces ==
  ASSUME Typed, Steady, Places, Locks, NoLoss, Operation(Ssr)
  PROVE  Places'
<1>. DEFINE s == Str(Ssr)
            x == strm[s]
            y == strm'[s]
            m == mStreamMutex[s]
<1>1. /\ Ssr \in Threads /\ s \in Streams /\ Stay(Ssr) /\ Frame(s) /\ ssr' = ssr /\ s = ssr.stream
      /\ cardState' = cardState /\ x \in StreamType /\ Positions /\ Ssr # None
      /\ Control /\ SsrAt(pc[Ssr], ret[Ssr]) /\ SsrPlace(x, pc[Ssr], ret[Ssr], m)
      /\ Ssr \in Controls \cup {Ssr} /\ scenario' = scenario
  BY OperationTyped, Names, NamesAssumption DEF Typed, Positions, Places, Stay
<1>2. pc[Ssr] \notin {"idle", "walk"}
  BY DEF Operation, Open, StartEnter, StartRun, StartReset, StartLock, StartRegister,
      StopEnter, StopLock, StopRun, CloseEnter, CloseRun, Pause, Resume
<1>3. MaxDown # 0 /\ x.handle = "valid" /\ pc[Ssr] \notin {"closeRun", "pause"}
      /\ ret[Ssr] # <<"closeRun", "downEnd">>
  BY <1>1, <1>2 DEF SsrPlace
\* No client starts the stream when its mutex is free or recovery's.
<1>4. ASSUME m \in {None, Ssr}
      PROVE  \A t \in Controls : Str(t) = s => pc[t] \notin Bound
  BY <1>1, <1>4, Names, NamesAssumption DEF Locks
<1>5. ssr'.upTo # "PAUSED"
  BY <1>1, <1>3 DEF Places
<1>6. ASSUME Kept(s), NotPaused(s), m \in {None, Ssr} \/ y.currentState = x.currentState,
             SsrPlace(y, pc'[Ssr], ret'[Ssr], mStreamMutex'[s])
      PROVE  Places'
  <2>1. SsrPlace(strm[ssr.stream], pc[Ssr], ret[Ssr], mStreamMutex[ssr.stream])'
    BY <1>1, <1>6 DEF SsrPlace, CardDown, MaxDown
  <2>. QED  BY <1>1, <1>3, <1>4, <1>5, <1>6, <2>1, PlacesFromSsr DEF Frame
<1>7. ASSUME NEW l, Goto(Ssr, l)
      PROVE  pc'[Ssr] = l /\ ret'[Ssr] = ret[Ssr]
  BY <1>1, <1>7 DEF Goto, Control
<1>8. CASE Open(Ssr)
  <2>1. /\ pc[Ssr] = "open" /\ Unlocked(s) /\ Kept(s) /\ NotPaused(s)
        /\ \E r \in {"ok", "err"} : Return(Ssr, r)
    BY <1>1, <1>8, OpenDoes
  <2>2. pc'[Ssr] \in {"upEnd", "upOpened"} /\ ret'[Ssr] = <<>>
    BY <1>1, <2>1, SsrBack DEF At, Calls
  <2>3. SsrPlace(y, pc'[Ssr], ret'[Ssr], mStreamMutex'[s])
    BY <1>1, <1>3, <2>1, <2>2, Popped DEF SsrPlace, Kept, Leaving, Stopping, Bound
  <2>. QED  BY <1>6, <2>1, <2>3 DEF Unlocked
<1>9. CASE StartEnter(Ssr)
  <2>1. /\ pc[Ssr] = "start" /\ m = None /\ Same(s) /\ NotPaused(s)
        /\ \/ \E r \in {"ok", "err"} : Return(Ssr, r)
           \/ Goto(Ssr, "startRun") /\ x.currentState \in {"INIT", "STOPPED"}
    BY <1>1, <1>9, StartEnterDoes
  <2>2. ret[Ssr] = <<"upStarted">>
    BY <1>1, <2>1 DEF SsrAt, Starting, Stopping
  <2>3. \/ pc'[Ssr] = "upStarted" /\ ret'[Ssr] = <<>>
        \/ pc'[Ssr] = "startRun" /\ ret'[Ssr] = <<"upStarted">>
           /\ x.currentState \in {"INIT", "STOPPED"}
    BY <1>1, <1>7, <2>1, <2>2, SsrBack DEF At, Calls, Starting
  <2>4. SsrPlace(y, pc'[Ssr], ret'[Ssr], mStreamMutex'[s])
    BY <1>1, <1>3, <2>1, <2>3, Popped DEF SsrPlace, Same, Kept, Leaving, Stopping, Bound
  <2>. QED  BY <1>6, <2>1, <2>4 DEF Same
<1>10. CASE StartRun(Ssr)
  <2>1. /\ pc[Ssr] = "startRun" /\ Kept(s) /\ y.cachedState = x.cachedState
        /\ \/ Return(Ssr, "err") /\ y.currentState = x.currentState
           \/ Goto(Ssr, "startReset") /\ y.currentState = x.currentState
           \/ Goto(Ssr, "startLock") /\ y.currentState = "STARTED"
    BY <1>1, <1>10, StartRunDoes
  <2>2. ret[Ssr] = <<"upStarted">> /\ x.currentState \in {"INIT", "STOPPED"} /\ m = Ssr
    BY <1>1, <2>1 DEF SsrAt, Starting, Stopping, SsrPlace, Bound, Locks
  <2>3. \/ pc'[Ssr] = "upStarted" /\ ret'[Ssr] = <<>>
        \/ /\ pc'[Ssr] = "startReset" /\ ret'[Ssr] = <<"upStarted">>
           /\ y.currentState = x.currentState
        \/ pc'[Ssr] = "startLock" /\ ret'[Ssr] = <<"upStarted">>
    BY <1>1, <1>7, <2>1, <2>2, SsrBack DEF At, Calls, Starting
  <2>4. SsrPlace(y, pc'[Ssr], ret'[Ssr], mStreamMutex'[s])
    BY <1>1, <1>3, <2>1, <2>2, <2>3, Popped DEF SsrPlace, Kept, Leaving, Stopping, Bound
  <2>. QED  BY <1>6, <2>1, <2>2, <2>4 DEF NotPaused
<1>11. CASE StartReset(Ssr) \/ StartLock(Ssr) \/ StartRegister(Ssr)
  <2>1. /\ Same(s) /\ NotPaused(s)
        /\ \/ pc[Ssr] \in {"startReset", "startRegister"} /\ Return(Ssr, "ok")
           \/ pc[Ssr] = "startLock" /\ Goto(Ssr, "startRegister")
    BY <1>1, <1>11, StartRestDoes DEF Same, Kept, NotPaused
  <2>2. ret[Ssr] = <<"upStarted">>
    BY <1>1, <2>1 DEF SsrAt, Starting, Stopping
  <2>3. \/ pc'[Ssr] = "upStarted" /\ ret'[Ssr] = <<>>
        \/ pc'[Ssr] = "startRegister" /\ ret'[Ssr] = <<"upStarted">>
    BY <1>1, <1>7, <2>1, <2>2, SsrBack DEF At, Calls, Starting
  <2>4. SsrPlace(y, pc'[Ssr], ret'[Ssr], mStreamMutex'[s])
    BY <1>1, <1>3, <2>1, <2>3, Popped DEF SsrPlace, Same, Kept, Leaving, Stopping, Bound
  <2>. QED  BY <1>6, <2>1, <2>4 DEF Same
<1>12. CASE StopEnter(Ssr) \/ StopLock(Ssr) \/ StopRun(Ssr)
  <2>1. /\ pc[Ssr] \in Stopping /\ Kept(s) /\ NotPaused(s) /\ mStreamMutex' = mStreamMutex
        /\ \/ pc[Ssr] = "stop" /\ Goto(Ssr, "stopLock") /\ y = x
           \/ pc[Ssr] = "stop" /\ ~IsRunning(x)
           \/ pc[Ssr] = "stopLock" /\ Goto(Ssr, "stopRun") /\ y = x
           \/ /\ pc[Ssr] = "stopRun" /\ y.currentState = "STOPPED"
              /\ \E r \in {"ok", "err"} : Return(Ssr, r)
    BY <1>1, <1>12, StopDoes DEF Kept, NotPaused, Stopping, Unlocked
  <2>2. ret[Ssr] = <<"downStopped">> /\ m = None /\ CardDown /\ IsRunning(x)
    BY <1>1, <1>3, <2>1 DEF SsrAt, Starting, Stopping, SsrPlace, Leaving
  <2>3. \/ pc'[Ssr] \in {"stopLock", "stopRun"} /\ ret'[Ssr] = <<"downStopped">> /\ y = x
        \/ pc'[Ssr] = "downStopped" /\ ret'[Ssr] = <<>> /\ y.currentState = "STOPPED"
    BY <1>1, <1>3, <1>7, <2>1, <2>2, SsrBack DEF At, Calls
  <2>4. SsrPlace(y, pc'[Ssr], ret'[Ssr], mStreamMutex'[s])
    BY <1>1, <1>3, <2>1, <2>2, <2>3, Popped DEF SsrPlace, Kept, Leaving, Stopping, Bound
  <2>. QED  BY <1>6, <2>1, <2>2, <2>4
<1>13. CASE CloseEnter(Ssr) \/ CloseRun(Ssr)
  <2>1. /\ pc[Ssr] = "close" /\ Kept(s) /\ NotPaused(s) /\ Unlocked(s)
        /\ \/ x.currentState = "IDLE" \/ IsRunning(x)
           \/ y.currentState = "IDLE" /\ Return(Ssr, "ok")
    BY <1>1, <1>3, <1>13, CloseDoes
  <2>2. CardDown /\ x.currentState \in {"INIT", "STOPPED"}
    BY <1>1, <2>1 DEF SsrPlace, Leaving
  <2>3. pc'[Ssr] = "downEnd" /\ ret'[Ssr] = <<>> /\ y.currentState = "IDLE"
    BY <1>1, <2>1, <2>2, SsrBack DEF At, Calls, IsRunning
  <2>4. SsrPlace(y, pc'[Ssr], ret'[Ssr], mStreamMutex'[s])
    BY <1>1, <1>3, <2>1, <2>2, <2>3, Popped DEF SsrPlace, Kept, Leaving, Stopping, Bound, Unlocked
  <2>. QED  BY <1>6, <2>1, <2>4 DEF Unlocked
<1>14. CASE Pause(Ssr) \/ Resume(Ssr)
  BY <1>1, <1>3, <1>14, PauseDoes DEF SsrAt, Starting, Stopping
<1>. QED  BY <1>8, <1>9, <1>10, <1>11, <1>12, <1>13, <1>14 DEF Operation

\* So do the calls themselves.
LEMMA CallerPlaces ==
  ASSUME Typed, Steady, Places, Locks, NoLoss, NEW t \in Controls,
         \/ PalOpened(t) \/ PalStop(t) \/ PalClose(t) \/ PalDone(t) \/ PalClosed(t)
         \/ PalOpen(t) \/ \E op \in Ops : PalCall(t, op)
  PROVE  Places'
<1>. DEFINE s == Str(t)
            x == strm[s]
            y == strm'[s]
<1>1. /\ t \in Threads /\ s \in Streams /\ Stay(t) /\ Frame(s)
      /\ ssr'.stream = ssr.stream /\ ssr'.upTo = ssr.upTo
      /\ cardState' = cardState /\ mStreamMutex' = mStreamMutex /\ x \in StreamType
      /\ Control /\ CtlAt(pc[t], ret[t]) /\ CtlPlace(x, pc[t], ret[t], status[t])
      /\ CtlLive(x, pc[t], status[t]) /\ strm \in [Streams -> StreamType]
  BY CallerTyped, Names DEF Typed, Positions, Places, cardVars, Mutexes
<1>2. ret[t] = <<>>
  <2>1. pc[t] \in {"idle", "opened", "palStop", "palClose", "startDone", "stopDone", "pauseDone",
                   "resumeDone", "closed"}
    BY DEF PalOpened, PalStop, PalClose, PalDone, PalClosed, PalOpen, PalCall
  <2>. QED  BY <1>1, <2>1 DEF CtlAt, Starting, Stopping
<1>3. ret[t] # <<"stopDone">> /\ ret[t] # <<"closeRun", "closed">>
  BY <1>2, Popped DEF Labels
<1>4. ASSUME NEW l, Goto(t, l)
      PROVE  pc'[t] = l /\ ret'[t] = <<>> /\ status'[t] = status[t]
  BY <1>1, <1>2, <1>4 DEF Goto, Control
<1>5. ASSUME NEW l, NEW b \in Labels, Call(t, l, b)
      PROVE  pc'[t] = l /\ ret'[t] = <<b>> /\ status'[t] = status[t]
  BY <1>1, <1>2, <1>5, Pushed DEF Call, Control
<1>6. MaxDown # 0 => x.currentState # "PAUSED" /\ x.cachedState # "PAUSED"
                     /\ x.handle # "closing" /\ Ops \subseteq {"start"}
  BY <1>1 DEF Places, Steady
<1>7. \A w \in WriterThreads : Str(w) = s => WrPlace(x, pc[w])
  BY DEF Places
<1>8. ssr.stream = s /\ pc[Ssr] \notin {"idle", "walk"} =>
        /\ SsrPlace(x, pc[Ssr], ret[Ssr], mStreamMutex[s]) /\ x.handle = "valid"
        /\ pc[t] \in {"idle", "startDone"} \cup Starting /\ MaxDown # 0
  BY Meeting
<1>9. /\ {"opened", "closed", "startDone", "stopDone", "pauseDone", "resumeDone"} \subseteq Labels
      /\ \A a \in Labels : <<a>> # <<>>
  BY Popped DEF Labels
<1>10. /\ <<"closed">> # <<"stopDone">> /\ <<"closed">> # <<"closeRun", "closed">>
       /\ <<"startDone">> # <<"stopDone">> /\ <<"startDone">> # <<"closeRun", "closed">>
       /\ <<"pauseDone">> # <<"stopDone">> /\ <<"pauseDone">> # <<"closeRun", "closed">>
       /\ <<"resumeDone">> # <<"stopDone">> /\ <<"resumeDone">> # <<"closeRun", "closed">>
       /\ <<"opened">> # <<"stopDone">> /\ <<"opened">> # <<"closeRun", "closed">>
       /\ <<"stopDone">> # <<"closeRun", "closed">>
       /\ <<>> # <<"stopDone">> /\ <<>> # <<"closeRun", "closed">>
  OBVIOUS
<1>11. CASE PalOpened(t)
  <2>1. pc[t] = "opened" /\ x.handle = "opening"
    BY <1>1, <1>3, <1>11 DEF PalOpened, CtlPlace, Starting, StreamType
  <2>2. ~(ssr.stream = s /\ pc[Ssr] \notin {"idle", "walk"})
    BY <1>8, <2>1
  <2>3. CASE status[t] = "ok" /\ Goto(t, "idle")
             /\ strm' = [strm EXCEPT ![s].handle = "valid", ![s].want = "open"]
    <3>1. y = [x EXCEPT !.handle = "valid", !.want = "open"]
      BY <1>1, <2>3
    <3>2. pc'[t] = "idle" /\ ret'[t] = <<>> /\ y.handle = "valid" /\ y.want = "open"
      BY <1>1, <1>4, <2>3, <3>1 DEF StreamType
    <3>3. CtlPlace(y, pc'[t], ret'[t], status'[t]) /\ CtlLive(y, pc'[t], status'[t])
      BY <1>10, <3>2 DEF CtlPlace, CtlLive, Starting, Stopping, Bound, Joining
    <3>4. \A w \in WriterThreads : Str(w) = s => WrPlace(y, pc[w])
      BY <1>7, <2>1 DEF WrPlace
    <3>5. y.currentState = x.currentState /\ y.cachedState = x.cachedState /\ y.handle = "valid"
      BY <1>1, <3>1 DEF StreamType
    <3>. QED  BY <1>1, <1>6, <2>2, <3>3, <3>4, <3>5, PlacesFrom
  <2>4. CASE status[t] # "ok" /\ Call(t, "close", "closed") /\ strm' = strm
    <3>1. CtlPlace(y, pc'[t], ret'[t], status'[t]) /\ CtlLive(y, pc'[t], status'[t])
      BY <1>1, <1>5, <1>6, <1>9, <1>10, <2>1, <2>4 DEF CtlPlace, CtlLive, Starting, Stopping,
        Bound, Joining
    <3>. QED  BY <1>1, <1>6, <1>7, <2>2, <2>4, <3>1, PlacesFrom
  <2>. QED  BY <1>11, <2>3, <2>4 DEF PalOpened
<1>12. CASE PalStop(t) \/ PalClose(t)
  <2>1. /\ MaxDown = 0
        /\ \/ /\ pc[t] = "palStop" /\ x.handle = "valid" /\ "stop" \in Ops
              /\ Call(t, "stop", "stopDone")
           \/ pc[t] = "palClose" /\ x.handle = "closing" /\ Call(t, "close", "closed")
    BY <1>1, <1>3, <1>6, <1>12 DEF PalStop, PalClose, CtlPlace, Starting, StreamType
  <2>2. \E c : strm' = [strm EXCEPT ![s].cachedState = c]
    BY <1>12 DEF PalStop, PalClose, SetCachedState
  <2>3. /\ y.handle = x.handle /\ y.want = x.want /\ y.currentState = x.currentState
    BY <1>1, <2>2 DEF StreamType
  <2>4. CtlPlace(y, pc'[t], ret'[t], status'[t])
    BY <1>1, <1>5, <1>9, <1>10, <2>1, <2>3 DEF CtlPlace, Starting, Stopping, Bound
  <2>5. CtlLive(y, pc'[t], status'[t])
    BY <1>1, <1>5, <1>9, <2>1, <2>3 DEF CtlLive, Joining, IsRunning
  <2>6. \A w \in WriterThreads : Str(w) = s => WrPlace(y, pc[w])
    BY <1>7, <2>3 DEF WrPlace
  <2>. QED  BY <1>1, <1>8, <2>1, <2>4, <2>5, <2>6, PlacesFrom
<1>13. CASE PalDone(t)
  <2>1. /\ pc[t] \in {"startDone", "stopDone", "pauseDone", "resumeDone"} /\ Goto(t, "idle")
        /\ IF status[t] = "ok" THEN strm' = [strm EXCEPT ![s].want = Wanted(pc[t])]
                               ELSE strm' = strm
    BY <1>13 DEF PalDone
  <2>2. x.handle = "valid" /\ pc'[t] = "idle" /\ ret'[t] = <<>> /\ status'[t] = status[t]
    BY <1>1, <1>3, <1>4, <2>1 DEF CtlPlace, StreamType
  <2>3. /\ y.handle = x.handle /\ y.currentState = x.currentState
        /\ y.cachedState = x.cachedState
        /\ y.want = IF status[t] = "ok" THEN Wanted(pc[t]) ELSE x.want
    BY <1>1, <2>1 DEF StreamType
  <2>4. CtlPlace(y, pc'[t], ret'[t], status'[t])
    BY <1>1, <1>10, <2>1, <2>2, <2>3 DEF CtlPlace, Starting, Stopping, Bound, Wanted
  <2>5. CtlLive(y, pc'[t], status'[t])
    BY <1>1, <2>1, <2>2, <2>3 DEF CtlLive, CtlPlace, Joining, IsRunning, Wanted, Starting
  <2>6. \A w \in WriterThreads : Str(w) = s => WrPlace(y, pc[w])
    <3>1. CASE status[t] # "ok" \/ pc[t] \in {"pauseDone", "resumeDone"}
      BY <1>7, <2>1, <2>3, <3>1 DEF WrPlace, Wanted
    <3>2. CASE pc[t] = "startDone"
      <4>1. x.want \in {"open", "stopped"}
        BY <1>1, <3>2 DEF CtlPlace
      <4>. QED  BY <1>7, <4>1 DEF WrPlace
    <3>3. CASE pc[t] = "stopDone"
      <4>1. ~Writes
        BY <1>1, <3>3, ScenarioIs DEF CtlPlace, Steady, Typed
      <4>. QED  BY <1>7, <4>1 DEF WrPlace
    <3>. QED  BY <2>1, <3>1, <3>2, <3>3
  <2>7. ssr.stream = s /\ pc[Ssr] \notin {"idle", "walk"} =>
           SsrPlace(y, pc[Ssr], ret[Ssr], mStreamMutex'[s])
    BY <1>1, <1>8, <2>3 DEF SsrPlace, IsRunning
  <2>. QED  BY <1>1, <1>6, <2>2, <2>3, <2>4, <2>5, <2>6, <2>7, PlacesFrom
<1>14. CASE PalClosed(t) \/ PalOpen(t)
  <2>1. /\ x.handle # "valid"
        /\ \/ y = NewStream(s, "none") /\ Goto(t, "idle")
           \/ y = NewStream(s, "opening") /\ Call(t, "open", "opened")
    BY <1>1, <1>3, <1>14 DEF PalClosed, PalOpen, CtlPlace, Starting
  <2>2. /\ y.currentState = "IDLE" /\ y.want = "none"
        /\ \/ y.handle = "none" /\ pc'[t] = "idle" /\ ret'[t] = <<>>
           \/ y.handle = "opening" /\ pc'[t] = "open" /\ ret'[t] = <<"opened">>
    BY <1>4, <1>5, <1>9, <2>1 DEF NewStream
  <2>3. CtlPlace(y, pc'[t], ret'[t], status'[t]) /\ CtlLive(y, pc'[t], status'[t])
    BY <1>10, <2>2 DEF CtlPlace, CtlLive, Starting, Stopping, Bound, Joining
  <2>4. \A w \in WriterThreads : Str(w) = s => WrPlace(y, pc[w])
    BY <1>7, <2>1 DEF WrPlace
  <2>5. y.currentState = "IDLE" /\ y.cachedState = "IDLE" /\ y.handle # "closing"
    BY <2>1 DEF NewStream
  <2>. QED  BY <1>1, <1>8, <2>1, <2>3, <2>4, <2>5, PlacesFrom
<1>15. ASSUME NEW op \in Ops, PalCall(t, op)
       PROVE  Places'
  <2>1. /\ op \in {"start", "stop", "pause", "resume", "close"} /\ MayCall(op, x.want)
        /\ x.handle = "valid" /\ pc[t] = "idle"
    BY <1>15 DEF PalCall, MayCall
  <2>2. CASE op = "close"
    <3>1. Goto(t, "palClose") /\ y = [x EXCEPT !.handle = "closing"] /\ MaxDown = 0
          /\ \A w \in Writers : pc[<<w, s>>] = "idle"
      BY <1>1, <1>6, <1>15, <2>2 DEF PalCall
    <3>2. /\ pc'[t] = "palClose" /\ ret'[t] = <<>> /\ y.handle = "closing"
          /\ y.want = x.want /\ y.currentState = x.currentState
      BY <1>1, <1>4, <3>1 DEF StreamType
    <3>3. CtlPlace(y, pc'[t], ret'[t], status'[t]) /\ CtlLive(y, pc'[t], status'[t])
      BY <1>1, <1>10, <3>1, <3>2 DEF CtlPlace, CtlLive, Starting, Stopping, Bound, Joining
    <3>4. \A w \in WriterThreads : Str(w) = s => WrPlace(y, pc[w])
      <4>1. ASSUME NEW w \in WriterThreads, Str(w) = s
            PROVE  pc[w] = "idle"
        BY <3>1, <4>1, Names DEF WriterThreads
      <4>. QED  BY <4>1 DEF WrPlace
    <3>. QED  BY <1>1, <1>8, <3>1, <3>3, <3>4, PlacesFrom
  <2>3. CASE op # "close"
    <3>1. /\ strm' = strm
          /\ \/ Call(t, "start", "startDone") /\ x.want \in {"open", "stopped"}
             \/ Goto(t, "palStop") /\ "stop" \in Ops
             \/ Call(t, "pause", "pauseDone") /\ "pause" \in Ops /\ x.want = "started"
             \/ Call(t, "resume", "resumeDone") /\ "resume" \in Ops /\ x.want = "paused"
      BY <1>15, <2>1, <2>3 DEF PalCall, MayCall
    <3>2. CtlPlace(y, pc'[t], ret'[t], status'[t]) /\ CtlLive(y, pc'[t], status'[t])
      <4>1. CASE Call(t, "start", "startDone") /\ x.want \in {"open", "stopped"}
        BY <1>1, <1>5, <1>9, <1>10, <2>1, <3>1, <4>1
           DEF CtlPlace, CtlLive, Starting, Stopping, Bound,
          Joining
      <4>2. CASE Goto(t, "palStop") /\ "stop" \in Ops
        <5>1. pc'[t] = "palStop" /\ ret'[t] = <<>> /\ y = x /\ MaxDown = 0
          <6>1. "stop" \notin {"start"}
            OBVIOUS
          <6>. QED  BY <1>4, <1>6, <3>1, <4>2, <6>1
        <5>. QED  BY <1>1, <1>10, <2>1, <4>2, <5>1 DEF CtlPlace, CtlLive, Starting, Stopping,
                    Bound, Joining, IsRunning
      <4>3. CASE Call(t, "pause", "pauseDone") /\ "pause" \in Ops /\ x.want = "started"
        BY <1>1, <1>5, <1>6, <1>9, <1>10, <2>1, <3>1, <4>3
           DEF CtlPlace, CtlLive, Starting, Stopping,
          Bound, Joining
      <4>4. CASE Call(t, "resume", "resumeDone") /\ "resume" \in Ops /\ x.want = "paused"
        BY <1>1, <1>5, <1>6, <1>9, <1>10, <2>1, <3>1, <4>4
           DEF CtlPlace, CtlLive, Starting, Stopping,
          Bound, Joining
      <4>. QED  BY <3>1, <4>1, <4>2, <4>3, <4>4
    <3>. QED  BY <1>1, <1>6, <1>7, <1>8, <3>1, <3>2, PlacesFrom
  <2>. QED  BY <2>2, <2>3
<1>. QED  BY <1>11, <1>12, <1>13, <1>14, <1>15

\* A writer works on a stream that runs, and no start of it is under way.
LEMMA WriterPlaces ==
  ASSUME Typed, Steady, Places, NoLoss, NEW t \in WriterThreads, WriterStep(t) \/ PalWrite(t)
  PROVE  /\ Places'
         /\ \A s \in Streams : Kept(s) /\ strm'[s].mDevices = strm[s].mDevices
                               /\ strm'[s].cachedState = strm[s].cachedState
         /\ strm' = strm \/ strm' = [strm EXCEPT ![Str(t)].currentState = "STARTED"]
         /\ IsRunning(strm[Str(t)]) /\ MaxDown = 0
         /\ \A u \in Controls : Str(u) = Str(t) => pc[u] \notin Starting
<1>. DEFINE s == Str(t)
            x == strm[s]
            y == strm'[s]
<1>1. /\ t \in Threads /\ s \in Streams /\ Stay(t) /\ Frame(s) /\ ssr' = ssr
      /\ cardState' = cardState /\ mStreamMutex' = mStreamMutex /\ x \in StreamType
      /\ strm \in [Streams -> StreamType] /\ t # Ssr /\ scenario' = scenario /\ Control
      /\ t \notin Controls
  BY WriterTyped, Names DEF Typed, Positions, Stay
<1>2. Writes /\ x.handle = "valid" /\ x.want \in {"started", "paused"}
  <2>1. CASE PalWrite(t)
    <3>1. x.want = "started" /\ x.handle = "valid" /\ Writes
      BY <2>1 DEF PalWrite
    <3>. QED  BY <3>1
  <2>2. CASE WriterStep(t)
    <3>1. pc[t] # "idle"
      BY <2>2 DEF WriterStep, Write, WriteReset, WriteCheck, WriteLock, WriteRegister, WriteState
    <3>. QED  BY <3>1 DEF Places, WrPlace
  <2>. QED  BY <2>1, <2>2
<1>3. MaxDown = 0 /\ "stop" \notin Ops
  BY <1>2 DEF Steady
<1>4. \/ strm' = strm
      \/ strm' = [strm EXCEPT ![s].currentState = "STARTED"] /\ pc[t] = "writeState"
  BY WriterTyped
<1>5. y.handle = x.handle /\ y.want = x.want
      /\ (y.currentState = x.currentState \/ y.currentState = "STARTED")
  BY <1>1, <1>4 DEF StreamType
<1>6. ASSUME NEW u \in Controls, Str(u) = s
      PROVE  /\ IsRunning(x) /\ pc[u] \notin Bound /\ pc[u] # "closed" /\ pc[u] # "closeRun"
             /\ pc[u] \notin Starting
  <2>1. CtlPlace(x, pc[u], ret[u], status[u]) /\ CtlLive(x, pc[u], status[u])
        /\ CtlAt(pc[u], ret[u])
    BY <1>6 DEF Places, Typed, Positions
  <2>2. pc[u] # "stopDone" /\ pc[u] \notin Starting
    BY <1>2, <1>3, <2>1 DEF CtlPlace
  <2>3. IsRunning(x)
    BY <1>2, <1>3, <2>1, <2>2 DEF CtlLive
  <2>. QED  BY <1>2, <2>1, <2>2, <2>3 DEF CtlPlace, Starting, Bound, IsRunning
<1>7. ASSUME NEW u \in Controls
      PROVE  CtlPlace(strm[Str(u)], pc[u], ret[u], status[u])'
             /\ CtlLive(strm[Str(u)], pc[u], status[u])'
  <2>1. u # t /\ u \in Threads /\ Str(u)' = Str(u) /\ Str(u) \in Streams
    BY <1>1, Names DEF Str
  <2>2. pc'[u] = pc[u] /\ ret'[u] = ret[u] /\ status'[u] = status[u]
    BY <2>1, <1>1 DEF Stay
  <2>3. CtlPlace(strm[Str(u)], pc[u], ret[u], status[u]) /\ CtlLive(strm[Str(u)], pc[u], status[u])
    BY DEF Places
  <2>4. CtlPlace(strm'[Str(u)], pc[u], ret[u], status[u])
        /\ CtlLive(strm'[Str(u)], pc[u], status[u])
    <3>1. CASE Str(u) # s
      BY <1>1, <2>1, <2>3, <3>1 DEF Frame
    <3>2. CASE Str(u) = s
      BY <1>2, <1>5, <1>6, <2>3, <3>2 DEF CtlPlace, CtlLive, IsRunning
    <3>. QED  BY <3>1, <3>2
  <2>. QED  BY <1>1, <2>1, <2>2, <2>4 DEF CtlPlace, CtlLive, MaxDown, Ops, Writes
<1>8. ASSUME NEW w \in WriterThreads
      PROVE  WrPlace(strm[Str(w)], pc[w])'
  <2>1. Str(w)' = Str(w) /\ w \in Threads /\ Str(w) \in Streams /\ Writes'
    BY <1>1, <1>2, Names DEF Str, Writes
  <2>2. CASE w = t
    BY <1>2, <1>5, <2>1, <2>2 DEF WrPlace
  <2>3. CASE w # t
    <3>1. pc'[w] = pc[w] /\ WrPlace(strm[Str(w)], pc[w])
      BY <1>1, <2>1, <2>3 DEF Stay, Places
    <3>2. strm'[Str(w)].handle = strm[Str(w)].handle /\ strm'[Str(w)].want = strm[Str(w)].want
      BY <1>1, <1>5, <2>1 DEF Frame
    <3>. QED  BY <2>1, <3>1, <3>2 DEF WrPlace
  <2>. QED  BY <2>2, <2>3
<1>9. SsrPlace(strm[ssr.stream], pc[Ssr], ret[Ssr], mStreamMutex[ssr.stream])'
  <2>1. pc[Ssr] = "idle" /\ ret[Ssr] # <<"closeRun", "downEnd">>
    BY <1>3 DEF Places, SsrPlace
  <2>2. pc'[Ssr] = "idle" /\ ret'[Ssr] = ret[Ssr]
    BY <1>1, <2>1, Names DEF Stay
  <2>. QED  BY <2>1, <2>2 DEF SsrPlace, Leaving, Stopping, Bound
<1>10. MaxDown' = 0
  BY <1>1, <1>3 DEF MaxDown
<1>11. Places'
  BY <1>7, <1>8, <1>9, <1>10 DEF Places
<1>12. IsRunning(x)
  <2>1. PICK c : Callers = {c}
    BY DEF Steady
  <2>2. <<c, s>> \in Controls /\ Str(<<c, s>>) = s
    BY <1>1, <2>1, Names DEF Controls
  <2>. QED  BY <1>6, <2>2
<1>13. \A u \in Streams : Kept(u) /\ strm'[u].mDevices = strm[u].mDevices
                          /\ strm'[u].cachedState = strm[u].cachedState
  BY <1>1, <1>4 DEF Kept, StreamType
<1>. QED  BY <1>3, <1>4, <1>6, <1>11, <1>12, <1>13

\* The recovery thread moves on and changes no stream.
LEMMA PlacesStill ==
  ASSUME Typed, Steady, Places, MaxDown # 0, Stay(Ssr), strm' = strm, ssr'.upTo # "PAUSED",
         SsrPlace(strm[ssr.stream], pc[Ssr], ret[Ssr], mStreamMutex[ssr.stream])'
  PROVE  Places'
<1>1. scenario' = scenario
      /\ \A u \in Threads \ {Ssr} : pc'[u] = pc[u] /\ ret'[u] = ret[u] /\ status'[u] = status[u]
  BY DEF Stay
<1>2. ASSUME NEW t \in Controls
      PROVE  CtlPlace(strm[Str(t)], pc[t], ret[t], status[t])'
             /\ CtlLive(strm[Str(t)], pc[t], status[t])'
  <2>1. t \in Threads \ {Ssr} /\ Str(t)' = Str(t)
    BY Names DEF Str
  <2>2. CtlPlace(strm[Str(t)], pc[t], ret[t], status[t])
        /\ CtlLive(strm[Str(t)], pc[t], status[t])
    BY DEF Places
  <2>. QED  BY <1>1, <2>1, <2>2 DEF CtlPlace, CtlLive, MaxDown, Ops, Writes
<1>3. ASSUME NEW w \in WriterThreads
      PROVE  WrPlace(strm[Str(w)], pc[w])'
  <2>1. w \in Threads \ {Ssr} /\ Str(w)' = Str(w) /\ WrPlace(strm[Str(w)], pc[w])
    BY Names DEF Str, Places
  <2>. QED  BY <1>1, <2>1 DEF WrPlace, Writes
<1>4. \A u \in Streams : MaxDown' # 0 => strm'[u].currentState # "PAUSED"
                                       /\ strm'[u].cachedState # "PAUSED"
                                       /\ strm'[u].handle # "closing"
  BY DEF Places
<1>. QED  BY <1>2, <1>3, <1>4 DEF Places

\* The recovery thread itself changes no state of a stream and none of its devices.
LEMMA SsrOwnPlaces ==
  ASSUME Typed, Steady, Places, NoLoss, SsrOwn
  PROVE  Places' /\ \A u \in Streams : Same(u)
<1>. DEFINE s == ssr.stream
            x == strm[s]
            y == strm'[s]
            m == mStreamMutex[s]
<1>1. /\ Stay(Ssr) /\ mStreamMutex' = mStreamMutex /\ \A u \in Streams : u # s => strm'[u] = strm[u]
      /\ Control /\ SsrAt(pc[Ssr], ret[Ssr]) /\ SsrPlace(x, pc[Ssr], ret[Ssr], m)
      /\ strm \in [Streams -> StreamType] /\ ssr.upTo \in State
      /\ pc[Ssr] \notin {"idle", "walk"} => s \in Streams
      /\ Ssr \in Threads /\ MaxDown' = MaxDown
      /\ ssr \in [stream : Streams \cup {None}, upTo : State, visited : SUBSET Streams]
  BY SsrOwnTyped, Names DEF Typed, Positions, Places, Stay, MaxDown
<1>2. /\ MaxDown # 0 /\ ret[Ssr] = <<>>
      /\ pc[Ssr] \in {"idle", "walk", "down", "downStopped", "downEnd", "up", "upOpened",
                      "upStarted", "upEnd"}
  <2>1. pc[Ssr] \in {"idle", "walk", "down", "downStopped", "downEnd", "up", "upOpened",
                     "upStarted", "upEnd"}
        /\ (SsrTake \/ pc[Ssr] # "idle") /\ (SsrTake => msgQ # <<>>)
    BY DEF SsrOwn, SsrTake, SsrNext, SsrDone, SsrDown, SsrDownStopped, SsrDownEnd, SsrUp,
      SsrUpOpened, SsrUpStarted, SsrUpEnd
  <2>2. MaxDown # 0
    BY <1>1, <2>1 DEF SsrPlace, NoLoss
  <2>. QED  BY <1>1, <2>1, <2>2 DEF SsrAt, Starting, Stopping
<1>3. ASSUME NEW l \in Labels, Goto(Ssr, l)
      PROVE  pc'[Ssr] = l /\ ret'[Ssr] = <<>> /\ status' = status
  BY <1>1, <1>2, <1>3 DEF Goto, Control
<1>4. ASSUME NEW l \in Labels, NEW b \in Labels, Call(Ssr, l, b)
      PROVE  pc'[Ssr] = l /\ ret'[Ssr] = <<b>> /\ status' = status
  BY <1>1, <1>2, <1>4, Pushed DEF Call, Control
<1>5. /\ {"idle", "walk", "down", "up", "close", "stop", "downEnd", "downStopped", "upEnd",
          "upOpened", "upStarted", "open", "start", "pause"} \subseteq Labels
      /\ \A b \in {"downEnd", "downStopped", "upEnd", "upOpened", "upStarted"} :
           <<b>> # <<"closeRun", "downEnd">>
      /\ <<>> # <<"closeRun", "downEnd">>
  BY DEF Labels, Starting, Stopping
<1>6. /\ x.currentState # "PAUSED" /\ x.cachedState # "PAUSED" /\ ssr.upTo # "PAUSED"
      /\ x \in StreamType /\ x.handle = "valid"
  \/ pc[Ssr] \in {"idle", "walk"}
  BY <1>1, <1>2 DEF Places, SsrPlace
<1>7. ssr.upTo # "PAUSED"
  BY <1>2 DEF Places
<1>8. ASSUME pc'[Ssr] \in {"idle", "walk"}, ret'[Ssr] # <<"closeRun", "downEnd">>
      PROVE  SsrPlace(strm[ssr.stream], pc[Ssr], ret[Ssr], mStreamMutex[ssr.stream])'
  BY <1>1, <1>2, <1>8 DEF SsrPlace, Leaving, Stopping, Bound
<1>9. CASE SsrTake \/ SsrDone
  <2>1. strm' = strm /\ ssr'.upTo = ssr.upTo
    BY <1>1, <1>9 DEF SsrTake, SsrDone
  <2>2. pc'[Ssr] \in {"idle", "walk"} /\ ret'[Ssr] = <<>>
    BY <1>1, <1>2, <1>3, <1>5, <1>9 DEF SsrTake, SsrDone
  <2>. QED  BY <1>1, <1>2, <1>5, <1>7, <1>8, <2>1, <2>2, PlacesStill DEF Same, Kept
<1>10. CASE SsrNext
  <2>1. strm' = strm /\ ssr'.upTo = ssr.upTo /\ cardState' = cardState
        /\ ssr'.stream \in Streams /\ strm[ssr'.stream].handle \in {"valid", "closing"}
        /\ \/ CardDown /\ Goto(Ssr, "down")
           \/ Goto(Ssr, "up")
    BY <1>1, <1>10 DEF SsrNext, Counted, cardVars
  <2>2. strm[ssr'.stream].handle = "valid"
    BY <1>2, <2>1 DEF Places
  <2>3. \/ CardDown' /\ pc'[Ssr] = "down" /\ ret'[Ssr] = <<>>
        \/ pc'[Ssr] = "up" /\ ret'[Ssr] = <<>>
    BY <1>3, <1>5, <2>1 DEF CardDown
  <2>4. SsrPlace(strm[ssr.stream], pc[Ssr], ret[Ssr], mStreamMutex[ssr.stream])'
    BY <1>1, <1>2, <1>5, <2>1, <2>2, <2>3 DEF SsrPlace, Leaving, Stopping, Bound
  <2>. QED  BY <1>1, <1>2, <1>7, <2>1, <2>4, PlacesStill DEF Same, Kept
\* The steps that take the stream down or up.
<1>11. ASSUME s \in Streams, pc[Ssr] \notin {"idle", "walk"}, Kept(s), NotPaused(s),
              y.currentState = x.currentState, y.mDevices = x.mDevices, ssr'.upTo # "PAUSED",
              SsrPlace(strm[ssr.stream], pc[Ssr], ret[Ssr], mStreamMutex[ssr.stream])'
       PROVE  Places' /\ \A u \in Streams : Same(u)
  BY <1>1, <1>2, <1>6, <1>11, PlacesFromSsr DEF Same, Kept
<1>12. CASE SsrDown
  <2>1. /\ s \in Streams /\ pc[Ssr] = "down" /\ m = None /\ cardState' = cardState
        /\ \/ strm' = [strm EXCEPT ![s].skipSSRHandling = TRUE]
           \/ strm' = [strm EXCEPT ![s].cachedState = IF @ = "IDLE" THEN x.currentState ELSE @]
    BY <1>1, <1>12 DEF SsrDown, StreamFree, cardVars
  <2>2. Kept(s) /\ NotPaused(s) /\ y.currentState = x.currentState /\ y.mDevices = x.mDevices
        /\ y.handle = "valid" /\ CardDown'
    BY <1>1, <1>6, <2>1 DEF Kept, NotPaused, StreamType, SsrPlace, CardDown
  <2>3. /\ ssr'.upTo = ssr.upTo
        /\ \/ Goto(Ssr, "walk")
           \/ ssr' = ssr /\ x.currentState \in {"INIT", "STOPPED"} /\ Call(Ssr, "close", "downEnd")
           \/ ssr' = ssr /\ IsRunning(x) /\ Call(Ssr, "stop", "downStopped")
           \/ ssr' = ssr /\ x.currentState = "IDLE" /\ Goto(Ssr, "downEnd")
    BY <1>1, <1>12 DEF SsrDown, IsRunning, Visited
  <2>4. \/ pc'[Ssr] = "walk" /\ ret'[Ssr] # <<"closeRun", "downEnd">>
        \/ /\ ssr' = ssr /\ ret'[Ssr] # <<"closeRun", "downEnd">>
           /\ \/ pc'[Ssr] = "close" /\ x.currentState \in {"INIT", "STOPPED"}
              \/ pc'[Ssr] = "stop" /\ IsRunning(x)
              \/ pc'[Ssr] = "downEnd" /\ x.currentState = "IDLE"
    BY <1>3, <1>4, <1>5, <2>3
  <2>5. SsrPlace(strm[ssr.stream], pc[Ssr], ret[Ssr], mStreamMutex[ssr.stream])'
    <3>1. CASE pc'[Ssr] = "walk" /\ ret'[Ssr] # <<"closeRun", "downEnd">>
      BY <1>8, <3>1
    <3>2. CASE ssr' = ssr /\ ret'[Ssr] # <<"closeRun", "downEnd">>
               /\ \/ pc'[Ssr] = "close" /\ x.currentState \in {"INIT", "STOPPED"}
                  \/ pc'[Ssr] = "stop" /\ IsRunning(x)
                  \/ pc'[Ssr] = "downEnd" /\ x.currentState = "IDLE"
      BY <1>1, <1>2, <2>1, <2>2, <3>2 DEF SsrPlace, Leaving, Stopping, Bound, IsRunning
    <3>. QED  BY <2>4, <3>1, <3>2
  <2>. QED  BY <1>7, <1>11, <2>1, <2>2, <2>3, <2>5
<1>13. CASE SsrDownStopped \/ SsrDownEnd
  <2>1. s \in Streams /\ pc[Ssr] \in {"downStopped", "downEnd"} /\ m = None /\ CardDown
    BY <1>1, <1>13 DEF SsrDownStopped, SsrDownEnd, SsrPlace, Leaving
  <2>2. /\ Kept(s) /\ NotPaused(s) /\ y.currentState = x.currentState /\ y.mDevices = x.mDevices
        /\ y.handle = "valid" /\ cardState' = cardState /\ ssr'.upTo = ssr.upTo
    <3>1. CASE SsrDownStopped
      BY <1>1, <1>6, <2>1, <3>1 DEF SsrDownStopped, Kept, NotPaused, cardVars
    <3>2. CASE SsrDownEnd
      <4>1. x.currentState = "IDLE"
        BY <1>1, <3>2 DEF SsrDownEnd, SsrPlace
      <4>. QED  BY <1>1, <1>6, <2>1, <3>2, <4>1 DEF SsrDownEnd, Kept, NotPaused, StreamType,
                  Visited, cardVars
    <3>. QED  BY <1>13, <3>1, <3>2
  <2>3. \/ SsrDownStopped /\ x.currentState = "STOPPED" /\ pc'[Ssr] = "close" /\ ssr' = ssr
           /\ ret'[Ssr] # <<"closeRun", "downEnd">>
        \/ pc'[Ssr] = "walk" /\ ret'[Ssr] # <<"closeRun", "downEnd">>
    BY <1>1, <1>3, <1>4, <1>5, <1>13 DEF SsrDownStopped, SsrDownEnd, SsrPlace
  <2>4. SsrPlace(strm[ssr.stream], pc[Ssr], ret[Ssr], mStreamMutex[ssr.stream])'
    <3>1. CASE pc'[Ssr] = "walk" /\ ret'[Ssr] # <<"closeRun", "downEnd">>
      BY <1>8, <3>1
    <3>2. CASE x.currentState = "STOPPED" /\ pc'[Ssr] = "close" /\ ssr' = ssr
               /\ ret'[Ssr] # <<"closeRun", "downEnd">>
      BY <1>1, <1>2, <2>1, <2>2, <3>2 DEF SsrPlace, Leaving, Stopping, Bound, CardDown
    <3>. QED  BY <2>3, <3>1, <3>2
  <2>. QED  BY <1>7, <1>11, <2>1, <2>2, <2>4
<1>14. CASE SsrUp \/ SsrUpOpened \/ SsrUpStarted \/ SsrUpEnd
  <2>1. s \in Streams /\ pc[Ssr] \in {"up", "upOpened", "upStarted", "upEnd"}
    BY <1>1, <1>14 DEF SsrUp, SsrUpOpened, SsrUpStarted, SsrUpEnd
  <2>2. \/ strm' = strm
        \/ strm' = [strm EXCEPT ![s].skipSSRHandling = FALSE]
        \/ strm' = [strm EXCEPT ![s].cachedState = "IDLE"]
    BY <1>14 DEF SsrUp, SsrUpOpened, SsrUpStarted, SsrUpEnd
  <2>3. Kept(s) /\ NotPaused(s) /\ y.currentState = x.currentState /\ y.mDevices = x.mDevices
        /\ y.handle = "valid"
    BY <1>1, <1>6, <2>1, <2>2 DEF Kept, NotPaused, StreamType
  <2>4. ssr'.upTo # "PAUSED"
    BY <1>1, <1>6, <2>1, <1>14 DEF SsrUp, SsrUpOpened, SsrUpStarted, SsrUpEnd, Visited
  <2>5. \/ Goto(Ssr, "walk")
        \/ /\ ssr'.stream = s
           /\ \/ Goto(Ssr, "upEnd") \/ Call(Ssr, "open", "upEnd") \/ Call(Ssr, "open", "upOpened")
              \/ Call(Ssr, "start", "upStarted")
    BY <1>1, <1>7, <1>14 DEF SsrUp, SsrUpOpened, SsrUpStarted, SsrUpEnd
  <2>6. ret'[Ssr] # <<"closeRun", "downEnd">>
        /\ \/ pc'[Ssr] = "walk"
           \/ ssr'.stream = s /\ pc'[Ssr] \in {"upEnd", "open", "start"}
    BY <1>3, <1>4, <1>5, <2>5
  <2>7. SsrPlace(strm[ssr.stream], pc[Ssr], ret[Ssr], mStreamMutex[ssr.stream])'
    <3>1. CASE pc'[Ssr] = "walk"
      BY <1>8, <2>6, <3>1
    <3>2. CASE ssr'.stream = s /\ pc'[Ssr] \in {"upEnd", "open", "start"}
      BY <1>1, <1>2, <2>1, <2>3, <2>6, <3>2 DEF SsrPlace, Leaving, Stopping, Bound
    <3>. QED  BY <2>6, <3>1, <3>2
  <2>. QED  BY <1>11, <2>1, <2>3, <2>4, <2>7
<1>. QED  BY <1>9, <1>10, <1>12, <1>13, <1>14 DEF SsrOwn

\* Nor does the card.
LEMMA CardPlaces ==
  ASSUME Typed, Steady, Places, CardGoesDown \/ CardComesUp
  PROVE  Places' /\ \A u \in Streams : Same(u)
<1>1. /\ UNCHANGED <<mStreamMutex, cardState, ssr, pc, ret, status, scenario>>
      /\ \A s \in Streams : Same(s) /\ strm'[s].cachedState = strm[s].cachedState
  BY CardTypedStep DEF Same, Kept, Mutexes
<1>2. ASSUME NEW t \in Controls
      PROVE  CtlPlace(strm[Str(t)], pc[t], ret[t], status[t])'
             /\ CtlLive(strm[Str(t)], pc[t], status[t])'
  <2>1. Str(t)' = Str(t) /\ Str(t) \in Streams
    BY Names DEF Str
  <2>2. CtlPlace(strm[Str(t)], pc[t], ret[t], status[t])
        /\ CtlLive(strm[Str(t)], pc[t], status[t])
    BY DEF Places
  <2>. QED  BY <1>1, <2>1, <2>2 DEF CtlPlace, CtlLive, MaxDown, Ops, Writes, Same, Kept, IsRunning
<1>3. ASSUME NEW w \in WriterThreads
      PROVE  WrPlace(strm[Str(w)], pc[w])'
  <2>1. Str(w)' = Str(w) /\ Str(w) \in Streams /\ WrPlace(strm[Str(w)], pc[w])
    BY Names DEF Str, Places
  <2>. QED  BY <1>1, <2>1 DEF WrPlace, Writes, Same, Kept
<1>4. SsrPlace(strm[ssr.stream], pc[Ssr], ret[Ssr], mStreamMutex[ssr.stream])'
  <2>1. SsrPlace(strm[ssr.stream], pc[Ssr], ret[Ssr], mStreamMutex[ssr.stream])
        /\ (pc[Ssr] \notin {"idle", "walk"} => ssr.stream \in Streams)
    BY DEF Places, Typed
  <2>2. CASE ssr.stream \in Streams
    BY <1>1, <2>1, <2>2 DEF SsrPlace, Same, Kept, IsRunning, MaxDown, CardDown
  <2>3. CASE ssr.stream \notin Streams
    BY <1>1, <2>1, <2>3 DEF SsrPlace, MaxDown, Leaving, Stopping, Bound
  <2>. QED  BY <2>2, <2>3
<1>5. (\A s \in Streams : MaxDown # 0 => strm[s].currentState # "PAUSED"
                                       /\ strm[s].cachedState # "PAUSED"
                                       /\ strm[s].handle # "closing")'
      /\ (MaxDown # 0 => ssr.upTo # "PAUSED")'
  BY <1>1 DEF Places, Same, Kept, MaxDown
<1>. QED  BY <1>1, <1>2, <1>3, <1>4, <1>5 DEF Places

\* Every step keeps every thread at its place.
LEMMA StepPlaces ==
  ASSUME Typed, Steady, Places, Locks, NoLoss, [Next]_vars
  PROVE  Places'
<1>1. CASE UNCHANGED vars
  BY <1>1
     DEF vars, cardVars, Places, CtlPlace, CtlLive, WrPlace, SsrPlace, Str, IsRunning, CardDown,
    MaxDown, Ops, Writes
<1>2. CASE Next
  <2>1. ASSUME NEW t \in Controls \cup {Ssr}, Operation(t)
        PROVE  Places'
    BY <2>1, CtlOperationPlaces, SsrOperationPlaces
  <2>. QED  BY <1>2, <2>1, StepKinds, CallerPlaces, WriterPlaces, SsrOwnPlaces, CardPlaces
<1>. QED  BY <1>1, <1>2

\* All threads are idle at the start.
LEMMA InitPlaces ==
  ASSUME Init
  PROVE  Places /\ Locks /\ NoLoss
<1>1. /\ \A t \in Threads : pc[t] = "idle" /\ ret[t] = <<>>
      /\ \A s \in Streams : strm[s] = NewStream(s, "none") /\ mStreamMutex[s] = None
  BY DEF Init
<1>2. Ssr \in Threads /\ \A t \in Controls : t \in Threads /\ Str(t) \in Streams
  BY Names
<1>3. ASSUME NEW t \in Controls
      PROVE  CtlPlace(strm[Str(t)], pc[t], ret[t], status[t])
             /\ CtlLive(strm[Str(t)], pc[t], status[t])
  <2>1. strm[Str(t)] = NewStream(Str(t), "none") /\ pc[t] = "idle" /\ ret[t] = <<>>
    BY <1>1, <1>2
  <2>2. <<>> # <<"stopDone">> /\ <<>> # <<"closeRun", "closed">>
    OBVIOUS
  <2>3. strm[Str(t)].handle = "none" /\ strm[Str(t)].want = "none"
        /\ strm[Str(t)].currentState = "IDLE"
    BY <2>1 DEF NewStream
  <2>. QED  BY <2>1, <2>2, <2>3 DEF CtlPlace, CtlLive, Starting, Stopping, Bound, Joining
<1>4. \A w \in WriterThreads : WrPlace(strm[Str(w)], pc[w])
  BY <1>1, Names DEF WrPlace
<1>5. SsrPlace(strm[ssr.stream], pc[Ssr], ret[Ssr], mStreamMutex[ssr.stream])
  <2>1. <<>> # <<"closeRun", "downEnd">>
    OBVIOUS
  <2>. QED  BY <1>1, <1>2, <2>1 DEF SsrPlace, Leaving, Stopping, Bound
<1>6. \A s \in Streams : strm[s].currentState # "PAUSED" /\ strm[s].cachedState # "PAUSED"
                         /\ strm[s].handle # "closing"
  <2>1. ASSUME NEW s \in Streams
        PROVE  strm[s].currentState = "IDLE" /\ strm[s].cachedState = "IDLE"
               /\ strm[s].handle = "none"
    <3>1. strm[s] = NewStream(s, "none")
      BY <1>1
    <3>. QED  BY <3>1 DEF NewStream
  <2>. QED  BY <2>1
<1>7. ssr.upTo # "PAUSED"
  BY DEF Init
<1>8. Places
  BY <1>3, <1>4, <1>5, <1>6, <1>7 DEF Places
<1>9. Locks
  BY <1>1 DEF Locks, Bound
<1>10. NoLoss
  BY <1>1 DEF NoLoss, Unreported, Init
<1>. QED  BY <1>8, <1>9, <1>10

-----------------------------------------------------------------------------
(* What a step does to the streams that use a device, and to its counts.     *)

\* Two sets that differ in one stream at most: their sizes differ by it.
LEMMA OneStream ==
  ASSUME NEW T, IsFiniteSet(T), NEW A \in SUBSET T, NEW B \in SUBSET T, NEW s,
         \A u \in T : u # s => (u \in A <=> u \in B)
  PROVE  /\ Cardinality(A) \in Nat /\ Cardinality(B) \in Nat
         /\ (s \in A <=> s \in B) => Cardinality(A) = Cardinality(B)
         /\ s \notin A /\ s \in B => Cardinality(B) = Cardinality(A) + 1
         /\ s \in A /\ s \notin B => Cardinality(A) = Cardinality(B) + 1
<1>1. IsFiniteSet(A) /\ IsFiniteSet(B)
  BY FS_Subset
<1>2. Cardinality(A) \in Nat /\ Cardinality(B) \in Nat
  BY <1>1, FS_CardinalityType
<1>3. CASE s \in A <=> s \in B
  <2>1. A = B
    BY <1>3
  <2>. QED  BY <1>2, <1>3, <2>1
<1>4. CASE s \notin A /\ s \in B
  <2>1. B = A \cup {s}
    BY <1>4
  <2>. QED  BY <1>1, <1>2, <1>4, <2>1, FS_AddElement
<1>5. CASE s \in A /\ s \notin B
  <2>1. A = B \cup {s}
    BY <1>5
  <2>. QED  BY <1>1, <1>2, <1>5, <2>1, FS_AddElement
<1>. QED  BY <1>3, <1>4, <1>5

\* A part of a finite set is no larger.
LEMMA SmallerSet ==
  ASSUME NEW T, IsFiniteSet(T), NEW A \in SUBSET T, NEW B \in SUBSET A
  PROVE  /\ Cardinality(B) <= Cardinality(A)
         /\ \A s \in A \ B : Cardinality(B) + 1 <= Cardinality(A)
<1>1. IsFiniteSet(A) /\ IsFiniteSet(B)
  BY FS_Subset
<1>2. Cardinality(A) \in Nat /\ Cardinality(B) \in Nat /\ Cardinality(B) <= Cardinality(A)
  BY <1>1, FS_CardinalityType, FS_Subset
<1>3. ASSUME NEW s \in A \ B
      PROVE  Cardinality(B) + 1 <= Cardinality(A)
  <2>1. B \cup {s} \subseteq A /\ Cardinality(B \cup {s}) = Cardinality(B) + 1
    BY <1>1, FS_AddElement
  <2>. QED  BY <1>1, <2>1, FS_Subset
<1>. QED  BY <1>2, <1>3

\* Whoever holds the mutex of a stream starts it.
LEMMA Owned ==
  ASSUME Typed, Places, Locks, NEW s \in Streams, mStreamMutex[s] # None
  PROVE  strm[s].currentState \in {"INIT", "STOPPED"}
<1>. DEFINE v == mStreamMutex[s]
<1>1. v \in Threads /\ pc[v] \in Bound /\ Str(v) = s
  BY DEF Locks, Typed
<1>2. CASE v \in Controls
  BY <1>1, <1>2 DEF Places, CtlPlace
<1>3. CASE v \in WriterThreads
  BY <1>1, <1>3 DEF Typed, Positions, WrAt, Bound
<1>4. CASE v = Ssr
  BY <1>1, <1>4, Names DEF Places, SsrPlace
<1>. QED  BY <1>1, <1>2, <1>3, <1>4, Names

\* A device that a stream has started, it has opened.
LEMMA OnMeansIn ==
  ASSUME Typed, Places, Locks, NEW s \in Streams, NEW d, On(s, d)
  PROVE  In(s, d)
BY Owned DEF On, In, IsRunning

\* What a step does to the use that stream s makes of device d.
Effect(s, d) ==
  LET c == dev[d].count
      n == dev[d].startStop
      c2 == dev'[d].count
      n2 == dev'[d].startStop
  IN  \/ (In(s, d)' <=> In(s, d)) /\ (On(s, d)' <=> On(s, d)) /\ c2 = c /\ n2 = n
      \/ ~In(s, d) /\ In(s, d)' /\ ~On(s, d)' /\ c2 = c + 1 /\ n2 = n
      \/ In(s, d) /\ In(s, d)' /\ ~On(s, d) /\ On(s, d)' /\ c2 = c /\ n2 = n + 1
      \/ /\ In(s, d)' /\ On(s, d) /\ ~On(s, d)' /\ c2 = c
         /\ n2 = IF n > 0 THEN n - 1 ELSE n
      \/ /\ In(s, d) /\ ~In(s, d)' /\ ~On(s, d) /\ ~On(s, d)'
         /\ c2 = IF c > 0 THEN c - 1 ELSE c
         /\ n2 = IF c = 1 THEN 0 ELSE n
      \/ /\ ~OnlyStartsFail /\ (In(s, d)' <=> In(s, d)) /\ (On(s, d)' => On(s, d))
         /\ c2 >= c /\ (n2 >= n \/ c = 0)

\* When a step has such an effect for one stream and none for the others, the counts are
\* kept.
LEMMA CountsFrom ==
  ASSUME Typed, Places, Locks, Counts, dev' \in UseType, scenario' = scenario, NEW s \in Streams,
         \A u \in Streams \ {s}, d \in Devices :
           (In(u, d)' <=> In(u, d)) /\ (On(u, d)' <=> On(u, d)),
         \A d \in Devices : Effect(s, d)
  PROVE  Counts'
<1>1. OnlyStartsFail' <=> OnlyStartsFail
  BY DEF OnlyStartsFail, Faults
<1>. SUFFICES ASSUME NEW d \in Devices
              PROVE  /\ dev'[d].count >= Cardinality(InOf(d)')
                     /\ dev'[d].startStop >= Cardinality(OnOf(d)')
                     /\ OnlyStartsFail => /\ dev'[d].count = Cardinality(InOf(d)')
                                          /\ dev'[d].startStop = Cardinality(OnOf(d)')
  BY <1>1 DEF Counts
<1>. DEFINE A == InOf(d)
            B == OnOf(d)
            A2 == InOf(d)'
            B2 == OnOf(d)'
            a == Cardinality(A)
            b == Cardinality(B)
            a2 == Cardinality(A2)
            b2 == Cardinality(B2)
<1>2. /\ A \in SUBSET Streams /\ A2 \in SUBSET Streams /\ B2 \in SUBSET Streams
      /\ B \in SUBSET A /\ B \in SUBSET Streams
  BY OnMeansIn DEF InOf, OnOf
<1>3. \A u \in Streams : u # s => (u \in A <=> u \in A2) /\ (u \in B <=> u \in B2)
  BY DEF InOf, OnOf
<1>4. /\ s \in A <=> In(s, d)
      /\ s \in B <=> On(s, d)
      /\ s \in A2 <=> In(s, d)'
      /\ s \in B2 <=> On(s, d)'
  BY DEF InOf, OnOf
<1>5. /\ a \in Nat /\ a2 \in Nat
      /\ (s \in A <=> s \in A2) => a = a2
      /\ s \notin A /\ s \in A2 => a2 = a + 1
      /\ s \in A /\ s \notin A2 => a = a2 + 1
  BY <1>2, <1>3, OneStream, NamesAssumption
<1>6. /\ b \in Nat /\ b2 \in Nat
      /\ (s \in B <=> s \in B2) => b = b2
      /\ s \notin B /\ s \in B2 => b2 = b + 1
      /\ s \in B /\ s \notin B2 => b = b2 + 1
  BY <1>2, <1>3, OneStream, NamesAssumption
<1>7. b <= a /\ (s \in A /\ s \notin B => b + 1 <= a)
  BY <1>2, SmallerSet, NamesAssumption
<1>8. /\ dev[d].count \in Nat /\ dev[d].startStop \in Nat
      /\ dev'[d].count \in Nat /\ dev'[d].startStop \in Nat
  BY DEF Typed, UseType, Counters
<1>9. /\ dev[d].count >= a /\ dev[d].startStop >= b
      /\ OnlyStartsFail => dev[d].count = a /\ dev[d].startStop = b
  BY DEF Counts
<1>10. Effect(s, d) /\ (On(s, d) => In(s, d))
  BY OnMeansIn
<1>. HIDE DEF A, B, A2, B2, a, b, a2, b2
<1>11. /\ dev'[d].count >= a2 /\ dev'[d].startStop >= b2
       /\ OnlyStartsFail => dev'[d].count = a2 /\ dev'[d].startStop = b2
  BY <1>4, <1>5, <1>6, <1>7, <1>8, <1>9, <1>10 DEF Effect
<1>. QED  BY <1>11 DEF A2, B2, a2, b2

\* The two counts of a device after each operation.
LEMMA CountsAfter ==
  ASSUME NEW u \in UseType, NEW D, NEW d \in Devices
  PROVE  /\ u[d].count \in Nat /\ u[d].startStop \in Nat
         /\ Opened(u, D)[d].count = IF d \in D THEN u[d].count + 1 ELSE u[d].count
         /\ Opened(u, D)[d].startStop = u[d].startStop
         /\ Started(u, D)[d].count = u[d].count
         /\ Started(u, D)[d].startStop = IF d \in D THEN u[d].startStop + 1 ELSE u[d].startStop
         /\ Closed(u, D)[d].count =
              IF d \in D /\ u[d].count > 0 THEN u[d].count - 1 ELSE u[d].count
         /\ Closed(u, D)[d].startStop =
              IF d \in D /\ u[d].count = 1 THEN 0 ELSE u[d].startStop
         /\ Stopped(u, D)[d].count = u[d].count
         /\ Stopped(u, D)[d].startStop =
              IF d \in D /\ u[d].startStop > 0 THEN u[d].startStop - 1 ELSE u[d].startStop
<1>1. u[d].count \in Nat /\ u[d].startStop \in Nat
  BY DEF UseType, Counters
<1>2. /\ Opened(u, D)[d].count = IF d \in D THEN u[d].count + 1 ELSE u[d].count
      /\ Opened(u, D)[d].startStop = u[d].startStop
  BY DEF Opened, Started, UseType, Counters
<1>3. /\ Started(u, D)[d].count = u[d].count
      /\ Started(u, D)[d].startStop = IF d \in D THEN u[d].startStop + 1 ELSE u[d].startStop
  BY DEF Opened, Started, UseType, Counters
<1>4. /\ Closed(u, D)[d].count =
           IF d \in D /\ u[d].count > 0 THEN u[d].count - 1 ELSE u[d].count
      /\ Closed(u, D)[d].startStop =
           IF d \in D /\ u[d].count = 1 THEN 0 ELSE u[d].startStop
  BY DEF Closed, Stopped, UseType, Counters
<1>5. /\ Stopped(u, D)[d].count = u[d].count
      /\ Stopped(u, D)[d].startStop =
           IF d \in D /\ u[d].startStop > 0 THEN u[d].startStop - 1 ELSE u[d].startStop
  BY DEF Closed, Stopped, UseType, Counters
<1>. QED  BY <1>1, <1>2, <1>3, <1>4, <1>5

\* A step leaves the use that other streams make of a device as it is.
LEMMA Elsewhere ==
  ASSUME Typed, Locks, NEW t \in Threads, NEW s \in Streams, Str(t) = s, Stay(t), Frame(s)
  PROVE  \A u \in Streams \ {s}, d \in Devices :
           (In(u, d)' <=> In(u, d)) /\ (On(u, d)' <=> On(u, d))
<1>1. SUFFICES ASSUME NEW u \in Streams \ {s}, NEW d \in Devices
               PROVE  (In(u, d)' <=> In(u, d)) /\ (On(u, d)' <=> On(u, d))
  OBVIOUS
<1>2. strm'[u] = strm[u] /\ mStreamMutex'[u] = mStreamMutex[u]
  BY <1>1 DEF Frame
<1>3. mStreamMutex[u] # None => mStreamMutex[u] \in Threads \ {t}
  BY <1>1 DEF Locks, Typed
<1>4. mStreamMutex[u] # None => pc'[mStreamMutex[u]] = pc[mStreamMutex[u]]
  BY <1>3 DEF Stay
<1>. QED  BY <1>2, <1>4 DEF In, On, IsRunning

\* The mutexes stay with their owners, none of which is t.
LEMMA SameOwner ==
  ASSUME Typed, Locks, NEW t \in Threads, Stay(t), pc[t] \notin Bound,
         mStreamMutex' = mStreamMutex, NEW u \in Streams
  PROVE  (mStreamMutex[u] # None /\ pc[mStreamMutex[u]] = "startReset")' <=>
           mStreamMutex[u] # None /\ pc[mStreamMutex[u]] = "startReset"
<1>1. mStreamMutex[u] # None => mStreamMutex[u] \in Threads \ {t}
  BY DEF Locks, Typed
<1>. QED  BY <1>1 DEF Stay

\* A step that leaves the counts alone must leave stream s as it is, or not open.
LEMMA NoEffect ==
  ASSUME Typed, Places, Locks, NEW t \in Threads, Stay(t), pc[t] \notin Bound, NEW s \in Streams,
         mStreamMutex' = mStreamMutex, dev' = dev,
         \/ /\ strm'[s].mDevices = strm[s].mDevices
            /\ \/ strm'[s].currentState = strm[s].currentState
               \/ IsRunning(strm[s]) /\ IsRunning(strm'[s])
         \/ strm[s].currentState = "IDLE" /\ strm'[s].currentState = "IDLE"
  PROVE  \A d \in Devices : Effect(s, d)
<1>1. SUFFICES ASSUME NEW d \in Devices
               PROVE  (In(s, d)' <=> In(s, d)) /\ (On(s, d)' <=> On(s, d))
  BY DEF Effect
<1>2. (mStreamMutex[s] # None /\ pc[mStreamMutex[s]] = "startReset")' <=>
        mStreamMutex[s] # None /\ pc[mStreamMutex[s]] = "startReset"
  BY SameOwner
<1>3. CASE strm'[s].mDevices = strm[s].mDevices
  BY <1>2, <1>3 DEF In, On, IsRunning
<1>4. CASE strm[s].currentState = "IDLE" /\ strm'[s].currentState = "IDLE"
  BY <1>2, <1>4, Owned DEF In, On, IsRunning
<1>. QED  BY <1>3, <1>4

\* The effect of open: all devices opened, or opens left behind after a failure.
LEMMA OpenEffect ==
  ASSUME Typed, Places, Locks, NEW t \in Controls \cup {Ssr}, NEW s \in Streams, Str(t) = s,
         Stay(t), Open(t)
  PROVE  \A d \in Devices : Effect(s, d)
<1>. DEFINE x == strm[s]
<1>1. /\ pc[t] = "open" /\ pc[t] \notin Bound /\ mStreamMutex[s] = None
      /\ mStreamMutex' = mStreamMutex /\ t \in Threads /\ dev \in UseType /\ x \in StreamType
      /\ strm \in [Streams -> StreamType]
  BY Names DEF Open, StreamFree, Mutexes, Bound, Typed
<1>2. CASE strm' = strm /\ dev' = dev
  BY <1>1, <1>2, NoEffect
<1>3. CASE OpenIdle(t, s) /\ x.currentState = "IDLE"
  <2>1. SUFFICES ASSUME NEW d \in Devices
                 PROVE  Effect(s, d)
    OBVIOUS
  <2>2. ~In(s, d) /\ ~On(s, d) /\ dev[d].count \in Nat /\ dev[d].startStop \in Nat
    BY <1>1, <1>3 DEF In, On, IsRunning, UseType, Counters
  <2>3. CASE May("deviceOpen") /\ strm' = strm /\ \E D : dev' = Opened(dev, D)
    <3>1. ~In(s, d)' /\ ~On(s, d)'
      BY <1>1, <1>3, <2>3 DEF In, On, IsRunning
    <3>2. dev'[d].count >= dev[d].count /\ dev'[d].startStop = dev[d].startStop
      BY <1>1, <2>2, <2>3, CountsAfter
    <3>. QED  BY <2>2, <2>3, <3>1, <3>2 DEF Effect, OnlyStartsFail, May
  <2>4. CASE May("sessionOpen") /\ strm' = strm
             /\ dev' = Closed(Opened(dev, x.mDevices), x.mDevices)
    <3>1. ~In(s, d)' /\ ~On(s, d)'
      BY <1>1, <1>3, <2>4 DEF In, On, IsRunning
    <3>2. Opened(dev, x.mDevices) \in UseType
      BY <1>1, OpenedStartedTyped
    <3>3. /\ Opened(dev, x.mDevices)[d].count =
               IF d \in x.mDevices THEN dev[d].count + 1 ELSE dev[d].count
          /\ Opened(dev, x.mDevices)[d].startStop = dev[d].startStop
      BY <1>1, CountsAfter
    <3>4. PICK u \in UseType : u = Opened(dev, x.mDevices)
      BY <3>2
    <3>5. /\ dev'[d].count =
               IF d \in x.mDevices /\ u[d].count > 0 THEN u[d].count - 1 ELSE u[d].count
          /\ dev'[d].startStop =
               IF d \in x.mDevices /\ u[d].count = 1 THEN 0 ELSE u[d].startStop
      BY <2>4, <3>4, CountsAfter
    <3>6. /\ dev'[d].count >= dev[d].count
          /\ dev'[d].startStop >= dev[d].startStop \/ dev[d].count = 0
      BY <2>2, <3>3, <3>4, <3>5
    <3>. QED  BY <2>2, <2>4, <3>1, <3>6 DEF Effect, OnlyStartsFail, May
  <2>5. CASE /\ dev' = Opened(dev, x.mDevices)
             /\ strm'[s].currentState = "INIT" /\ strm'[s].mDevices = x.mDevices
    <3>1. ~On(s, d)' /\ (In(s, d)' <=> d \in x.mDevices)
      BY <1>1, <1>3, <2>5 DEF In, On, IsRunning
    <3>2. /\ dev'[d].count = IF d \in x.mDevices THEN dev[d].count + 1 ELSE dev[d].count
          /\ dev'[d].startStop = dev[d].startStop
      BY <1>1, <2>5, CountsAfter
    <3>. QED  BY <2>2, <3>1, <3>2 DEF Effect
  <2>6. \/ May("deviceOpen") /\ strm' = strm /\ \E D : dev' = Opened(dev, D)
        \/ May("sessionOpen") /\ strm' = strm
           /\ dev' = Closed(Opened(dev, x.mDevices), x.mDevices)
        \/ /\ dev' = Opened(dev, x.mDevices)
           /\ strm'[s].currentState = "INIT" /\ strm'[s].mDevices = x.mDevices
    BY <1>1, <1>3 DEF OpenIdle, StreamType
  <2>. QED  BY <2>3, <2>4, <2>5, <2>6
<1>. QED  BY <1>2, <1>3 DEF Open

\* What a start does: stops what it started, or hands the devices to the running stream.
LEMMA SessionEffect ==
  ASSUME Typed, NEW t \in Threads, NEW s \in Streams, NEW D \in SUBSET Devices, NEW u \in UseType,
         pc[t] = "startRun", mStreamMutex[s] = t, t # None, SessionRun(t, s, D, u)
  PROVE  /\ strm'[s].mDevices = D
         /\ \/ /\ dev' = Stopped(u, D) /\ mStreamMutex'[s] = None
               /\ strm'[s].currentState = strm[s].currentState
            \/ /\ dev' = u /\ mStreamMutex'[s] = t /\ pc'[t] = "startReset"
               /\ strm'[s].currentState = strm[s].currentState
            \/ dev' = u /\ mStreamMutex'[s] = None /\ strm'[s].currentState = "STARTED"
<1>1. /\ strm \in [Streams -> StreamType] /\ strm[s] \in StreamType
      /\ mStreamMutex \in [Streams -> Threads \cup {None}] /\ pc \in [Threads -> Labels]
  BY DEF Typed, Positions, Control
<1>2. CASE /\ dev' = Stopped(u, D) /\ UnlockStream(s) /\ strm' = [strm EXCEPT ![s].mDevices = D]
  BY <1>1, <1>2 DEF UnlockStream, StreamType
<1>3. CASE /\ dev' = u /\ UNCHANGED mStreamMutex /\ Goto(t, "startReset")
           /\ strm' = [strm EXCEPT ![s].mDevices = D]
  BY <1>1, <1>3 DEF Goto, StreamType
<1>4. CASE /\ dev' = u /\ UnlockStream(s)
           /\ strm' = [strm EXCEPT ![s].mDevices = D, ![s].currentState = "STARTED",
                                   ![s].session = "started"]
  BY <1>1, <1>4 DEF UnlockStream, StreamType
<1>. QED  BY <1>2, <1>3, <1>4 DEF SessionRun

\* The same seen from a device: it leaves the stream, is stopped again, or serves it.
LEMMA SessionUse ==
  ASSUME Typed, Places, Locks, NEW t \in Threads, NEW s \in Streams, NEW D \in SUBSET Devices,
         NEW u \in UseType, pc[t] = "startRun", mStreamMutex[s] = t, t # None,
         SessionRun(t, s, D, u)
  PROVE  \/ /\ dev' = Stopped(u, D)
            /\ \A d \in Devices : (In(s, d)' <=> d \in D) /\ ~On(s, d)'
         \/ /\ dev' = u
            /\ \A d \in Devices : (In(s, d)' <=> d \in D) /\ (On(s, d)' <=> d \in D)
<1>1. strm[s].currentState \in {"INIT", "STOPPED"}
  BY Owned
<1>. QED  BY <1>1, SessionEffect DEF In, On, IsRunning

\* The same for a start that fails before the session.
LEMMA FailedUse ==
  ASSUME Typed, Places, Locks, NEW s \in Streams, mStreamMutex[s] # None, UnlockStream(s),
         strm'[s].currentState = strm[s].currentState
  PROVE  \A d \in Devices : (In(s, d)' <=> d \in strm'[s].mDevices) /\ ~On(s, d)'
<1>1. strm[s].currentState \in {"INIT", "STOPPED"} /\ mStreamMutex'[s] = None
  BY Owned DEF UnlockStream, Typed
<1>. QED  BY <1>1 DEF In, On, IsRunning

\* The effect of start: output devices that fail are closed and leave the stream, the
\* others serve it; a session that fails stops them again; input devices stay started.
LEMMA StartRunEffect ==
  ASSUME Typed, Steady, Places, Locks, NEW t \in Controls \cup {Ssr}, NEW s \in Streams,
         Str(t) = s, StartRun(t)
  PROVE  \A d \in Devices : Effect(s, d)
<1>. DEFINE x == strm[s]
<1>1. /\ t \in Threads /\ t # None /\ pc[t] = "startRun" /\ mStreamMutex[s] = t
      /\ x \in StreamType /\ x.mDevices \in SUBSET Devices /\ dev \in UseType
      /\ strm \in [Streams -> StreamType]
  BY Names, NamesAssumption DEF StartRun, Locks, Typed, Bound, StreamType
<1>2. \A d \in Devices : (In(s, d) <=> d \in x.mDevices) /\ ~On(s, d)
  BY <1>1, Owned DEF In, On, IsRunning
<1>3. SUFFICES ASSUME NEW d \in Devices
               PROVE  Effect(s, d)
  OBVIOUS
<1>4. dev[d].count \in Nat /\ dev[d].startStop \in Nat
  BY <1>1, CountsAfter
<1>5. ASSUME NEW D \in SUBSET Devices, NEW u \in UseType, SessionRun(t, s, D, u)
       PROVE  /\ In(s, d)' <=> d \in D
              /\ \/ dev' = Stopped(u, D) /\ ~On(s, d)'
                 \/ dev' = u /\ (On(s, d)' <=> d \in D)
  <2>1. \/ /\ dev' = Stopped(u, D)
           /\ \A e \in Devices : (In(s, e)' <=> e \in D) /\ ~On(s, e)'
        \/ /\ dev' = u
           /\ \A e \in Devices : (In(s, e)' <=> e \in D) /\ (On(s, e)' <=> e \in D)
    BY <1>1, <1>5, SessionUse
  <2>. QED  BY <1>3, <2>1
\* All devices run: they serve the stream, or are stopped again.
<1>6. ASSUME SessionRun(t, s, x.mDevices, Started(dev, x.mDevices))
      PROVE  Effect(s, d)
  <2>1. Started(dev, x.mDevices) \in UseType
    BY <1>1, OpenedStartedTyped
  <2>2. /\ In(s, d)' <=> d \in x.mDevices
        /\ \/ dev' = Stopped(Started(dev, x.mDevices), x.mDevices) /\ ~On(s, d)'
           \/ dev' = Started(dev, x.mDevices) /\ (On(s, d)' <=> d \in x.mDevices)
    BY <1>1, <1>6, <1>5, <2>1
  <2>3. CASE dev' = Stopped(Started(dev, x.mDevices), x.mDevices) /\ ~On(s, d)'
    <3>1. PICK u \in UseType : u = Started(dev, x.mDevices)
      BY <2>1
    <3>2. /\ u[d].count = dev[d].count
          /\ u[d].startStop = IF d \in x.mDevices THEN dev[d].startStop + 1
                                                  ELSE dev[d].startStop
      BY <1>1, <3>1, CountsAfter
    <3>3. /\ dev'[d].count = u[d].count
          /\ dev'[d].startStop = IF d \in x.mDevices /\ u[d].startStop > 0
                                 THEN u[d].startStop - 1 ELSE u[d].startStop
      BY <2>3, <3>1, CountsAfter
    <3>4. dev'[d].count = dev[d].count /\ dev'[d].startStop = dev[d].startStop
      BY <1>4, <3>2, <3>3
    <3>. QED  BY <1>2, <2>2, <2>3, <3>4 DEF Effect
  <2>4. CASE dev' = Started(dev, x.mDevices) /\ (On(s, d)' <=> d \in x.mDevices)
    <3>1. /\ dev'[d].count = dev[d].count
          /\ dev'[d].startStop = IF d \in x.mDevices THEN dev[d].startStop + 1
                                                     ELSE dev[d].startStop
      BY <1>1, <2>4, CountsAfter
    <3>. QED  BY <1>2, <2>2, <2>4, <3>1 DEF Effect
  <2>. QED  BY <2>2, <2>3, <2>4
\* A device that fails leaves starts behind.
<1>7. ASSUME strm' = strm, UnlockStream(s), ~OnlyStartsFail,
             dev'[d].count >= dev[d].count, dev'[d].startStop >= dev[d].startStop
      PROVE  Effect(s, d)
  <2>1. (In(s, d)' <=> d \in x.mDevices) /\ ~On(s, d)'
    BY <1>1, <1>7, FailedUse
  <2>. QED  BY <1>2, <1>7, <2>1 DEF Effect
<1>8. Direction[s] # "out" /\ May("deviceStart") => ~OnlyStartsFail
  BY DEF Steady, OnlyStartsFail, May
<1>9. CASE Direction[s] = "out"
  <2>1. PICK F \in SUBSET x.mDevices :
          LET ok == x.mDevices \ F
              started == Closed(Started(dev, ok), F) IN
            IF ok # {}
              THEN SessionRun(t, s, ok, started)
              ELSE /\ dev' = started
                   /\ strm' = [strm EXCEPT ![s].mDevices = {}]
                   /\ UnlockStream(s)
    <3>1. StartOutput(t, s)
      BY <1>1, <1>9 DEF StartRun
    <3>. QED  BY <3>1 DEF StartOutput
  <2>. DEFINE ok == x.mDevices \ F
              started == Closed(Started(dev, ok), F)
  <2>2. ok \in SUBSET Devices /\ Started(dev, ok) \in UseType /\ started \in UseType
    BY <1>1, OpenedStartedTyped, ClosedStoppedTyped
  <2>3. /\ In(s, d)' <=> d \in ok
        /\ \/ dev' = Stopped(started, ok) /\ ~On(s, d)'
           \/ dev' = started /\ (On(s, d)' <=> d \in ok)
    <3>1. CASE ok # {}
      <4>1. SessionRun(t, s, ok, started)
        BY <2>1, <3>1
      <4>. QED  BY <1>5, <2>2, <4>1
    <3>2. CASE ok = {}
      <4>1. dev' = started /\ UnlockStream(s) /\ strm' = [strm EXCEPT ![s].mDevices = {}]
        BY <2>1, <3>2
      <4>2. strm'[s].mDevices = {} /\ strm'[s].currentState = x.currentState
        BY <1>1, <4>1 DEF StreamType
      <4>. QED  BY <1>1, <3>2, <4>1, <4>2, FailedUse
    <3>. QED  BY <3>1, <3>2
  <2>4. /\ d \in ok => /\ started[d].count = dev[d].count
                       /\ started[d].startStop = dev[d].startStop + 1
        /\ d \in F => /\ started[d].count = IF dev[d].count > 0 THEN dev[d].count - 1
                                                                ELSE dev[d].count
                      /\ started[d].startStop = IF dev[d].count = 1 THEN 0 ELSE dev[d].startStop
        /\ d \notin x.mDevices => /\ started[d].count = dev[d].count
                                  /\ started[d].startStop = dev[d].startStop
    BY <1>1, <2>2, CountsAfter
  <2>5. started[d].count \in Nat /\ started[d].startStop \in Nat
        /\ Stopped(started, ok)[d].count = started[d].count
        /\ Stopped(started, ok)[d].startStop =
             IF d \in ok /\ started[d].startStop > 0 THEN started[d].startStop - 1
                                                     ELSE started[d].startStop
    BY <2>2, CountsAfter
  <2>. HIDE DEF started
  <2>6. CASE d \in F
    BY <1>2, <2>3, <2>4, <2>5, <2>6 DEF Effect
  <2>7. CASE d \in ok
    BY <1>2, <1>4, <2>3, <2>4, <2>5, <2>7 DEF Effect
  <2>8. CASE d \notin x.mDevices
    BY <1>2, <2>3, <2>4, <2>5, <2>8 DEF Effect
  <2>. QED  BY <2>6, <2>7, <2>8
<1>10. CASE Direction[s] = "in"
  <2>1. StartInput(t, s)
    BY <1>1, <1>10 DEF StartRun
  <2>2. CASE /\ May("deviceStart") /\ UnlockStream(s) /\ strm' = strm
             /\ \E D : dev' = Started(dev, D)
    <3>1. dev'[d].count >= dev[d].count /\ dev'[d].startStop >= dev[d].startStop
      BY <1>1, <1>4, <2>2, CountsAfter
    <3>. QED  BY <1>7, <1>8, <1>10, <2>2, <3>1
  <2>. QED  BY <1>6, <2>1, <2>2 DEF StartInput
<1>11. CASE Direction[s] = "loop"
  <2>1. StartLoopback(t, s)
    BY <1>1, <1>11 DEF StartRun
  <2>2. CASE /\ May("deviceStart") /\ UnlockStream(s) /\ strm' = strm
             /\ \E D : dev' = Started(dev, D)
    <3>1. dev'[d].count >= dev[d].count /\ dev'[d].startStop >= dev[d].startStop
      BY <1>1, <1>4, <2>2, CountsAfter
    <3>. QED  BY <1>7, <1>8, <1>11, <2>2, <3>1
  <2>3. CASE /\ May("deviceStart") /\ UnlockStream(s) /\ strm' = strm
             /\ \E D : dev' = Stopped(Started(dev, RxOf(x.mDevices) \cup D), RxOf(x.mDevices))
    <3>1. PICK D : dev' = Stopped(Started(dev, RxOf(x.mDevices) \cup D), RxOf(x.mDevices))
      BY <2>3
    <3>2. Started(dev, RxOf(x.mDevices) \cup D) \in UseType
      BY <1>1, OpenedStartedTyped
    <3>3. dev'[d].count >= dev[d].count /\ dev'[d].startStop >= dev[d].startStop
      BY <1>1, <1>4, <3>1, <3>2, CountsAfter
    <3>. QED  BY <1>7, <1>8, <1>11, <2>3, <3>3
  <2>. QED  BY <1>6, <2>1, <2>2, <2>3 DEF StartLoopback
<1>12. scenario \in Scenarios
  BY DEF Typed
<1>. QED  BY <1>9, <1>10, <1>11, <1>12, ScenarioIs

\* A start that the loss of the card interrupted stops its devices, and so does a stop.
LEMMA StopEffect ==
  ASSUME Typed, Places, Locks, NEW t \in Controls \cup {Ssr}, NEW s \in Streams, Str(t) = s,
         StartReset(t) \/ StopRun(t)
  PROVE  \A d \in Devices : Effect(s, d)
<1>. DEFINE x == strm[s]
<1>1. /\ t \in Threads /\ t # None /\ strm \in [Streams -> StreamType] /\ dev \in UseType
      /\ x \in StreamType /\ Positions
  BY Names, NamesAssumption DEF Typed
<1>2. SUFFICES ASSUME NEW d \in Devices
               PROVE  Effect(s, d)
  OBVIOUS
<1>3. CASE StartReset(t)
  <2>1. /\ pc[t] = "startReset" /\ mStreamMutex[s] = t /\ UnlockStream(s)
        /\ dev' = Stopped(dev, x.mDevices) /\ strm' = [strm EXCEPT ![s].cachedState = "STARTED"]
    BY <1>1, <1>3 DEF StartReset, Locks, Bound
  <2>2. /\ x.currentState \in {"INIT", "STOPPED"}
        /\ strm'[s].currentState = x.currentState /\ strm'[s].mDevices = x.mDevices
    BY <1>1, <2>1, Owned DEF StreamType
  <2>3. (In(s, d) <=> d \in x.mDevices) /\ (On(s, d) <=> d \in x.mDevices)
    BY <1>1, <2>1, <2>2 DEF In, On
  <2>4. (In(s, d)' <=> d \in x.mDevices) /\ ~On(s, d)'
    BY <1>1, <2>1, <2>2, FailedUse
  <2>5. /\ dev'[d].count = dev[d].count
        /\ dev'[d].startStop =
             IF d \in x.mDevices /\ dev[d].startStop > 0 THEN dev[d].startStop - 1
                                                         ELSE dev[d].startStop
    BY <1>1, <2>1, CountsAfter
  <2>. QED  BY <2>3, <2>4, <2>5 DEF Effect
<1>4. CASE StopRun(t)
  <2>1. /\ pc[t] = "stopRun" /\ mStreamMutex[s] = None /\ mStreamMutex' = mStreamMutex
        /\ strm'[s].currentState = "STOPPED" /\ strm'[s].mDevices = x.mDevices
        /\ \/ dev' = Stopped(dev, x.mDevices)
           \/ /\ May("deviceStop")
              /\ \E D \in SUBSET x.mDevices : dev' = Stopped(dev, D)
    BY <1>1, <1>4, StopDoes DEF Unlocked
  <2>2. IsRunning(x)
    <3>1. CASE t \in Controls
      BY <2>1, <3>1 DEF Places, CtlPlace
    <3>2. CASE t = Ssr
      BY <2>1, <3>2, Names DEF Places, SsrPlace, Stopping
    <3>. QED  BY <3>1, <3>2
  <2>3. (In(s, d) <=> d \in x.mDevices) /\ (On(s, d) <=> d \in x.mDevices)
    BY <2>1, <2>2 DEF In, On, IsRunning
  <2>4. (In(s, d)' <=> d \in x.mDevices) /\ ~On(s, d)'
    BY <2>1 DEF In, On, IsRunning
  <2>5. CASE dev' = Stopped(dev, x.mDevices)
    <3>1. /\ dev'[d].count = dev[d].count
          /\ dev'[d].startStop =
               IF d \in x.mDevices /\ dev[d].startStop > 0 THEN dev[d].startStop - 1
                                                           ELSE dev[d].startStop
      BY <1>1, <2>5, CountsAfter
    <3>. QED  BY <2>3, <2>4, <3>1 DEF Effect
  <2>6. CASE May("deviceStop") /\ \E D \in SUBSET x.mDevices : dev' = Stopped(dev, D)
    <3>1. PICK D \in SUBSET x.mDevices : dev' = Stopped(dev, D)
      BY <2>6
    <3>2. /\ dev'[d].count = dev[d].count
          /\ dev'[d].startStop = IF d \in D /\ dev[d].startStop > 0 THEN dev[d].startStop - 1
                                                                    ELSE dev[d].startStop
      BY <1>1, <3>1, CountsAfter
    <3>3. ~OnlyStartsFail
      BY <2>6 DEF OnlyStartsFail, May
    <3>4. CASE d \in D
      BY <2>3, <2>4, <3>2, <3>4 DEF Effect
    <3>5. CASE d \notin D
      <4>1. dev[d].count \in Nat /\ dev[d].startStop \in Nat
        BY <1>1, CountsAfter
      <4>. QED  BY <2>3, <2>4, <3>2, <3>3, <3>5, <4>1 DEF Effect
    <3>. QED  BY <3>4, <3>5
  <2>. QED  BY <2>1, <2>5, <2>6
<1>. QED  BY <1>3, <1>4

\* The effect of close: the devices of an open stream are closed once.
LEMMA CloseEffect ==
  ASSUME Typed, Places, Locks, NEW t \in Controls \cup {Ssr}, NEW s \in Streams, Str(t) = s,
         Stay(t), CloseEnter(t) \/ CloseRun(t)
  PROVE  \A d \in Devices : Effect(s, d)
<1>. DEFINE x == strm[s]
<1>1. /\ pc[t] \in {"close", "closeRun"} /\ mStreamMutex[s] = None /\ mStreamMutex' = mStreamMutex
      /\ strm'[s].mDevices = x.mDevices /\ t \in Threads /\ dev \in UseType
      /\ \/ strm' = strm /\ dev' = dev
         \/ /\ pc[t] = "closeRun" \/ x.currentState \in {"INIT", "STOPPED"}
            /\ strm'[s].currentState = "IDLE" /\ dev' = Closed(dev, x.mDevices)
  BY CloseDoes, Names DEF Unlocked, Typed
<1>2. CASE strm' = strm /\ dev' = dev
  BY <1>1, <1>2, NoEffect DEF Bound
<1>3. CASE /\ pc[t] = "closeRun" \/ x.currentState \in {"INIT", "STOPPED"}
           /\ strm'[s].currentState = "IDLE" /\ dev' = Closed(dev, x.mDevices)
  <2>1. x.currentState \in {"INIT", "STOPPED"}
    <3>1. CASE t \in Controls
      BY <1>3, <3>1 DEF Places, CtlPlace
    <3>2. CASE t = Ssr
      BY <1>3, <3>2, Names DEF Places, SsrPlace
    <3>. QED  BY <3>1, <3>2
  <2>2. SUFFICES ASSUME NEW d \in Devices
                 PROVE  Effect(s, d)
    OBVIOUS
  <2>3. (In(s, d) <=> d \in x.mDevices) /\ ~On(s, d) /\ ~In(s, d)' /\ ~On(s, d)'
    BY <1>1, <1>3, <2>1 DEF In, On, IsRunning
  <2>4. /\ dev'[d].count =
             IF d \in x.mDevices /\ dev[d].count > 0 THEN dev[d].count - 1 ELSE dev[d].count
        /\ dev'[d].startStop =
             IF d \in x.mDevices /\ dev[d].count = 1 THEN 0 ELSE dev[d].startStop
    BY <1>1, <1>3, CountsAfter
  <2>. QED  BY <2>3, <2>4 DEF Effect
<1>. QED  BY <1>1, <1>2, <1>3

\* A pause or a resume works on a stream that runs.
LEMMA PauseEffect ==
  ASSUME Typed, Steady, Places, Locks, NEW t \in Controls \cup {Ssr}, NEW s \in Streams,
         Str(t) = s, Stay(t), Pause(t) \/ Resume(t)
  PROVE  \A d \in Devices : Effect(s, d)
<1>. DEFINE x == strm[s]
<1>1. /\ pc[t] \in {"pause", "resume"} /\ mStreamMutex' = mStreamMutex /\ dev' = dev
      /\ strm'[s].mDevices = x.mDevices /\ t \in Threads /\ x \in StreamType /\ Positions
      /\ \/ strm'[s].currentState = x.currentState
         \/ pc[t] = "pause" /\ strm'[s].currentState = "PAUSED"
  BY PauseDoes, Names DEF Unlocked, Typed
<1>2. t \in Controls
  <2>1. t # Ssr
    <3>1. ASSUME t = Ssr
          PROVE  FALSE
      BY <1>1, <3>1, Names DEF Places, SsrPlace, Positions, SsrAt, Starting, Stopping
    <3>. QED  BY <3>1
  <2>. QED  BY <2>1
<1>3. /\ CtlPlace(x, pc[t], ret[t], status[t]) /\ CtlLive(x, pc[t], status[t])
      /\ CtlAt(pc[t], ret[t])
  BY <1>1, <1>2 DEF Places, Positions
<1>4. MaxDown = 0 /\ x.want \in {"started", "paused"} /\ (pc[t] = "pause" => "pause" \in Ops)
  BY <1>1, <1>3 DEF CtlPlace
<1>5. x.handle = "valid"
  <2>1. ret[t] # <<"closeRun", "closed">>
    BY <1>1, <1>3, Popped DEF CtlAt, Starting, Stopping, Labels
  <2>. QED  BY <1>1, <1>3, <2>1 DEF CtlPlace, StreamType
<1>6. pc[t] = "pause" => IsRunning(x)
  BY <1>3, <1>4, <1>5 DEF CtlLive
<1>. QED  BY <1>1, <1>6, NoEffect DEF Bound, IsRunning

\* Every operation has such an effect.
LEMMA OperationEffect ==
  ASSUME Typed, Steady, Places, Locks, NEW t \in Controls \cup {Ssr}, NEW s \in Streams,
         Str(t) = s, Stay(t), Operation(t)
  PROVE  \A d \in Devices : Effect(s, d)
<1>1. t \in Threads /\ Typed
  BY Names
<1>2. CASE StartEnter(t)
  <2>1. /\ pc[t] = "start" /\ mStreamMutex[s] = None /\ Same(s) /\ dev' = dev
        /\ \/ mStreamMutex' = mStreamMutex
           \/ /\ LockStream(s, t) /\ Goto(t, "startRun")
              /\ strm[s].currentState \in {"INIT", "STOPPED"}
    BY <1>1, <1>2, StartEnterDoes DEF Unlocked
  <2>2. CASE mStreamMutex' = mStreamMutex
    BY <1>1, <2>1, <2>2, NoEffect DEF Bound, Same
  <2>3. CASE /\ LockStream(s, t) /\ Goto(t, "startRun")
             /\ strm[s].currentState \in {"INIT", "STOPPED"}
    <3>1. mStreamMutex'[s] = t /\ pc'[t] = "startRun"
      BY <1>1, <2>3 DEF Typed, Positions, Control, LockStream, Goto
    <3>2. \A d \in Devices : (In(s, d)' <=> In(s, d)) /\ ~On(s, d) /\ ~On(s, d)'
      BY <2>1, <2>3, <3>1 DEF In, On, IsRunning, Same
    <3>. QED  BY <2>1, <3>2 DEF Effect
  <2>. QED  BY <2>1, <2>2, <2>3
<1>3. CASE StartLock(t) \/ StartRegister(t) \/ StopEnter(t) \/ StopLock(t)
  <2>1. /\ pc[t] \notin Bound /\ strm' = strm /\ mStreamMutex' = mStreamMutex /\ dev' = dev
    BY <1>1, <1>3, StartRestDoes, StopDoes DEF Bound, Unlocked
  <2>. QED  BY <1>1, <2>1, NoEffect
<1>. QED  BY <1>2, <1>3, OpenEffect, StartRunEffect, StopEffect, CloseEffect, PauseEffect
          DEF Operation

\* The calls of a client change the state of no stream that is open.
LEMMA CallerStates ==
  ASSUME Typed, Places, NEW t \in Controls, NEW s \in Streams, Str(t) = s,
         \/ PalOpened(t) \/ PalStop(t) \/ PalClose(t) \/ PalDone(t) \/ PalClosed(t)
         \/ PalOpen(t) \/ \E op \in Ops : PalCall(t, op)
  PROVE  /\ \/ /\ strm'[s].currentState = strm[s].currentState
               /\ strm'[s].mDevices = strm[s].mDevices
            \/ strm[s].currentState = "IDLE" /\ strm'[s].currentState = "IDLE"
         /\ pc[t] \notin Bound \cup Joining /\ pc'[t] \notin Joining
<1>. DEFINE x == strm[s]
            y == strm'[s]
<1>1. /\ t \in Threads /\ strm \in [Streams -> StreamType] /\ x \in StreamType
      /\ CtlPlace(x, pc[t], ret[t], status[t]) /\ Control
  BY Names DEF Typed, Places, Positions
<1>2. pc[t] \notin Bound \cup Joining
  BY DEF PalOpened, PalStop, PalClose, PalDone, PalClosed, PalOpen, PalCall, Bound, Joining
<1>3. pc'[t] \notin Joining
  <2>1. \E l \in {"idle", "open", "close", "start", "stop", "pause", "resume", "palStop",
                  "palClose"} : Goto(t, l) \/ \E b : Call(t, l, b)
    <3>1. CASE \E op \in Ops : PalCall(t, op)
      BY <3>1 DEF PalCall, MayCall
    <3>2. CASE PalOpened(t)
      BY <3>2 DEF PalOpened
    <3>3. CASE PalStop(t) \/ PalClose(t)
      BY <3>3 DEF PalStop, PalClose
    <3>4. CASE PalDone(t) \/ PalClosed(t) \/ PalOpen(t)
      BY <3>4 DEF PalDone, PalClosed, PalOpen
    <3>. QED  BY <3>1, <3>2, <3>3, <3>4
  <2>. QED  BY <1>1, <2>1 DEF Goto, Call, Control, Joining
<1>4. CASE PalOpened(t)
  BY <1>1, <1>2, <1>3, <1>4 DEF PalOpened, StreamType
<1>5. CASE PalStop(t) \/ PalClose(t)
  BY <1>1, <1>2, <1>3, <1>5 DEF PalStop, PalClose, SetCachedState, StreamType
<1>6. CASE PalDone(t)
  BY <1>1, <1>2, <1>3, <1>6 DEF PalDone, StreamType
<1>7. CASE PalClosed(t) \/ PalOpen(t)
  <2>1. x.currentState = "IDLE" /\ \E h : strm' = [strm EXCEPT ![s] = NewStream(s, h)]
    BY <1>1, <1>7 DEF PalClosed, PalOpen, CtlPlace
  <2>2. PICK h : strm' = [strm EXCEPT ![s] = NewStream(s, h)]
    BY <2>1
  <2>3. y = NewStream(s, h)
    BY <1>1, <2>2
  <2>4. y.currentState = "IDLE"
    BY <2>3 DEF NewStream
  <2>. QED  BY <1>2, <1>3, <2>1, <2>4
<1>8. CASE \E op \in Ops : PalCall(t, op)
  <2>1. strm' = strm \/ strm' = [strm EXCEPT ![s].handle = "closing"]
    BY <1>8 DEF PalCall
  <2>. QED  BY <1>1, <1>2, <1>3, <2>1 DEF StreamType
<1>. QED  BY <1>4, <1>5, <1>6, <1>7, <1>8

\* So do the calls of a client: none.
LEMMA CallerEffect ==
  ASSUME Typed, Places, Locks, NEW t \in Controls, NEW s \in Streams, Str(t) = s,
         \/ PalOpened(t) \/ PalStop(t) \/ PalClose(t) \/ PalDone(t) \/ PalClosed(t)
         \/ PalOpen(t) \/ \E op \in Ops : PalCall(t, op)
  PROVE  \A d \in Devices : Effect(s, d)
<1>1. t \in Threads /\ Stay(t) /\ dev' = dev /\ mStreamMutex' = mStreamMutex
  BY CallerTyped, Names DEF Mutexes
<1>. QED  BY <1>1, CallerStates, NoEffect

\* A step that touches neither counts nor streams keeps the counts.
LEMMA CountsStill ==
  ASSUME Counts, dev' = dev, scenario' = scenario,
         \A u \in Streams, d \in Devices : (In(u, d)' <=> In(u, d)) /\ (On(u, d)' <=> On(u, d))
  PROVE  Counts'
<1>1. \A d \in Devices : InOf(d)' = InOf(d) /\ OnOf(d)' = OnOf(d)
  BY DEF InOf, OnOf
<1>. QED  BY <1>1 DEF Counts, OnlyStartsFail, Faults

\* Every step keeps the counts.
LEMMA StepCounts ==
  ASSUME Typed, Steady, Places, Locks, NoLoss, Counts, [Next]_vars
  PROVE  Counts'
<1>1. Typed' /\ scenario' = scenario /\ dev' \in UseType
  BY StepTyped, SameScenario DEF Typed
<1>2. ASSUME NEW t \in Threads, NEW s \in Streams, Str(t) = s, Stay(t), Frame(s),
             \A d \in Devices : Effect(s, d)
      PROVE  Counts'
  <2>1. \A u \in Streams \ {s}, d \in Devices :
          (In(u, d)' <=> In(u, d)) /\ (On(u, d)' <=> On(u, d))
    BY <1>2, Elsewhere
  <2>. QED  BY <1>1, <1>2, <2>1, CountsFrom
<1>3. ASSUME NEW t \in Controls \cup {Ssr}, Operation(t)
      PROVE  Counts'
  <2>1. PICK s \in Streams : Str(t) = s
    BY <1>3, OperationTyped
  <2>2. t \in Threads /\ Stay(t) /\ Frame(s)
    BY <1>3, <2>1, OperationTyped, Names
  <2>. QED  BY <1>2, <1>3, <2>1, <2>2, OperationEffect
<1>4. ASSUME NEW t \in Controls,
             \/ PalOpened(t) \/ PalStop(t) \/ PalClose(t) \/ PalDone(t) \/ PalClosed(t)
             \/ PalOpen(t) \/ \E op \in Ops : PalCall(t, op)
      PROVE  Counts'
  <2>1. PICK s \in Streams : Str(t) = s
    BY Names
  <2>2. t \in Threads /\ Stay(t) /\ Frame(s)
    BY <1>4, <2>1, CallerTyped, Names
  <2>. QED  BY <1>2, <1>4, <2>1, <2>2, CallerEffect
<1>5. ASSUME NEW t \in WriterThreads, WriterStep(t) \/ PalWrite(t)
      PROVE  Counts'
  <2>1. PICK s \in Streams : Str(t) = s
    BY Names
  <2>2. t \in Threads /\ Stay(t) /\ Frame(s) /\ dev' = dev /\ mStreamMutex' = mStreamMutex
        /\ strm \in [Streams -> StreamType]
    BY <1>5, <2>1, WriterTyped, Names DEF Typed
  <2>3. /\ strm'[s].mDevices = strm[s].mDevices
        /\ \/ strm' = strm
           \/ IsRunning(strm[s]) /\ strm' = [strm EXCEPT ![s].currentState = "STARTED"]
    BY <1>5, <2>1, WriterPlaces
  <2>4. \/ strm'[s].currentState = strm[s].currentState
        \/ IsRunning(strm[s]) /\ IsRunning(strm'[s])
    BY <2>2, <2>3 DEF StreamType, IsRunning
  <2>5. pc[t] \notin Bound
    BY DEF Typed, Positions, WrAt, Bound
  <2>6. \A d \in Devices : Effect(s, d)
    BY <2>1, <2>2, <2>3, <2>4, <2>5, NoEffect
  <2>. QED  BY <1>2, <2>1, <2>2, <2>6
<1>6. CASE SsrOwn
  <2>1. /\ Ssr \in Threads /\ Stay(Ssr) /\ dev' = dev /\ mStreamMutex' = mStreamMutex
        /\ \A u \in Streams : Same(u)
    BY <1>6, SsrOwnTyped, SsrOwnPlaces, Names
  <2>2. pc[Ssr] \notin Bound
    BY <1>6 DEF SsrOwn, SsrTake, SsrNext, SsrDone, SsrDown, SsrDownStopped, SsrDownEnd, SsrUp,
      SsrUpOpened, SsrUpStarted, SsrUpEnd, Bound
  <2>3. ASSUME NEW u \in Streams, NEW d \in Devices
        PROVE  (In(u, d)' <=> In(u, d)) /\ (On(u, d)' <=> On(u, d))
    <3>1. (mStreamMutex[u] # None /\ pc[mStreamMutex[u]] = "startReset")' <=>
            mStreamMutex[u] # None /\ pc[mStreamMutex[u]] = "startReset"
      BY <2>1, <2>2, SameOwner
    <3>. QED  BY <2>1, <3>1 DEF In, On, IsRunning, Same
  <2>. QED  BY <1>1, <2>1, <2>3, CountsStill
<1>7. CASE CardGoesDown \/ CardComesUp
  <2>1. /\ UNCHANGED <<dev, mStreamMutex, pc>> /\ \A u \in Streams : Same(u)
    BY <1>7, CardTypedStep DEF Mutexes, Same, Kept
  <2>2. \A u \in Streams, d \in Devices : (In(u, d)' <=> In(u, d)) /\ (On(u, d)' <=> On(u, d))
    BY <2>1 DEF In, On, IsRunning, Same
  <2>. QED  BY <1>1, <2>1, <2>2, CountsStill
<1>8. CASE UNCHANGED vars
  <2>1. \A u \in Streams, d \in Devices : (In(u, d)' <=> In(u, d)) /\ (On(u, d)' <=> On(u, d))
    BY <1>8 DEF vars, In, On, IsRunning
  <2>. QED  BY <1>1, <1>8, <2>1, CountsStill DEF vars
<1>. QED  BY <1>3, <1>4, <1>5, <1>6, <1>7, <1>8, StepKinds

-----------------------------------------------------------------------------
(* The list of active devices, without a loss of the card.                   *)

\* Only thread t controls the stream s.
LEMMA OneControl ==
  ASSUME Steady, NEW t \in Controls, NEW s \in Streams, Str(t) = s
  PROVE  \A u \in Controls : Str(u) = s => u = t
BY Names DEF Steady, Controls

\* A step that lists its own stream right keeps the list.
LEMMA PairsFrom ==
  ASSUME Typed, Steady, Pairs, NEW t \in Controls, NEW s \in Streams, Str(t) = s, Stay(t), Frame(s),
         \A u \in Streams \ {s}, d \in Devices :
           <<d, u>> \in active_devices' <=> <<d, u>> \in active_devices,
         MaxDown = 0 => \A d \in Devices : <<d, s>> \in active_devices' <=>
           IsRunning(strm'[s]) /\ d \in strm'[s].mDevices /\ pc'[t] \notin Joining
  PROVE  Pairs'
<1>. SUFFICES ASSUME MaxDown = 0, NEW u \in Streams, NEW d \in Devices
              PROVE  <<d, u>> \in active_devices' <=>
                       /\ IsRunning(strm'[u]) /\ d \in strm'[u].mDevices
                       /\ \A v \in Controls : Str(v)' = u => pc'[v] \notin Joining
  BY DEF Pairs, MaxDown, Stay, IsRunning
<1>1. \A v \in Controls : Str(v)' = Str(v) /\ v \in Threads
  BY Names DEF Str
<1>2. CASE u = s
  <2>1. \A v \in Controls : Str(v)' = u <=> v = t
    BY <1>1, <1>2, OneControl
  <2>. QED  BY <1>2, <2>1
<1>3. CASE u # s
  <2>1. \A v \in Controls : Str(v) = u => pc'[v] = pc[v]
    BY <1>1, <1>3 DEF Stay
  <2>2. strm'[u] = strm[u]
    BY <1>3 DEF Frame
  <2>3. <<d, u>> \in active_devices <=>
          /\ IsRunning(strm[u]) /\ d \in strm[u].mDevices
          /\ \A v \in Controls : Str(v) = u => pc[v] \notin Joining
    BY DEF Pairs
  <2>. QED  BY <1>1, <1>3, <2>1, <2>2, <2>3
<1>. QED  BY <1>2, <1>3

\* What the list holds of the stream that t controls.
LEMMA PairsNow ==
  ASSUME Steady, Pairs, NEW t \in Controls, NEW s \in Streams, Str(t) = s, MaxDown = 0
  PROVE  \A d \in Devices : <<d, s>> \in active_devices <=>
           IsRunning(strm[s]) /\ d \in strm[s].mDevices /\ pc[t] \notin Joining
BY OneControl DEF Pairs

\* Every operation keeps the list: start enters a stream that runs, stop takes it off.
LEMMA OperationPairs ==
  ASSUME Typed, Steady, Places, Locks, Pairs, NEW t \in Controls, Operation(t)
  PROVE  Pairs'
<1>1. PICK s \in Streams : Str(t) = s
  BY Names
<1>. DEFINE x == strm[s]
            y == strm'[s]
<1>2. /\ t \in Threads /\ Stay(t) /\ Frame(s) /\ Positions /\ CtlAt(pc[t], ret[t])
      /\ CtlPlace(x, pc[t], ret[t], status[t]) /\ CtlLive(x, pc[t], status[t])
      /\ active_devices \subseteq Devices \X Streams /\ Control /\ x \in StreamType
  BY <1>1, OperationTyped, Names DEF Typed, Places, Positions
<1>3. \A u \in Streams \ {s}, d \in Devices :
        <<d, u>> \in active_devices' <=> <<d, u>> \in active_devices
  <2>1. \/ active_devices' = active_devices
        \/ active_devices' = active_devices \cup (x.mDevices \X {s})
        \/ active_devices' = active_devices \ (x.mDevices \X {s})
    BY <1>1 DEF Operation, Open, StartEnter, StartRun, StartReset, StartLock, StartRegister,
      StopEnter, StopLock, StopRun, CloseEnter, CloseRun, Pause, Resume
  <2>. QED  BY <2>1
<1>4. SUFFICES ASSUME MaxDown = 0, NEW d \in Devices
               PROVE  <<d, s>> \in active_devices' <=>
                        IsRunning(y) /\ d \in y.mDevices /\ pc'[t] \notin Joining
  BY <1>1, <1>2, <1>3, PairsFrom
<1>5. <<d, s>> \in active_devices <=>
        IsRunning(x) /\ d \in x.mDevices /\ pc[t] \notin Joining
  BY <1>1, <1>4, PairsNow
<1>6. ASSUME NEW r \in {"ok", "err"}, Return(t, r), pc[t] \in Calls
      PROVE  pc'[t] \notin Joining
  BY <1>2, <1>6, CtlBack DEF Joining, At, Calls
<1>7. ASSUME NEW l \in Labels, Goto(t, l) \/ \E b : Call(t, l, b)
      PROVE  pc'[t] = l
  BY <1>2, <1>7 DEF Control, Goto, Call
<1>8. /\ {"startRun", "startReset", "startLock", "startRegister", "stopLock", "stopRun",
          "stop"} \subseteq Labels
      /\ {"open", "close", "closeRun", "pause", "resume", "start", "startRun", "startReset",
          "startRegister", "stop", "stopRun"} \subseteq Calls
  BY DEF Labels, Calls, Starting, Stopping
\* The stream does not run, or is not listed yet, before the step and after it.
<1>9. ASSUME active_devices' = active_devices, ~IsRunning(x) \/ pc[t] \in Joining,
             ~IsRunning(y) \/ pc'[t] \in Joining
      PROVE  <<d, s>> \in active_devices' <=>
               IsRunning(y) /\ d \in y.mDevices /\ pc'[t] \notin Joining
  BY <1>5, <1>9
\* The stream is listed, or not, before the step and after it.
<1>10. ASSUME active_devices' = active_devices, IsRunning(x) <=> IsRunning(y),
              y.mDevices = x.mDevices, pc[t] \notin Joining, pc'[t] \notin Joining
       PROVE  <<d, s>> \in active_devices' <=>
                IsRunning(y) /\ d \in y.mDevices /\ pc'[t] \notin Joining
  BY <1>5, <1>10
<1>11. CASE Open(t)
  <2>1. /\ pc[t] = "open" /\ active_devices' = active_devices
        /\ y.mDevices = x.mDevices /\ (\E r \in {"ok", "err"} : Return(t, r))
        /\ \/ y.currentState = x.currentState
           \/ x.currentState = "IDLE" /\ y.currentState = "INIT"
    BY <1>1, <1>11, OpenDoes
  <2>. QED  BY <1>6, <1>8, <1>10, <2>1 DEF IsRunning, Joining
<1>12. CASE StartEnter(t)
  <2>1. /\ pc[t] = "start" /\ Same(s) /\ active_devices' = active_devices
        /\ (\E r \in {"ok", "err"} : Return(t, r)) \/ Goto(t, "startRun")
    BY <1>1, <1>12, StartEnterDoes
  <2>2. pc'[t] \notin Joining
    BY <1>6, <1>7, <1>8, <2>1 DEF Joining
  <2>. QED  BY <1>10, <2>1, <2>2 DEF IsRunning, Joining, Same
<1>13. CASE StartRun(t) \/ StartReset(t)
  <2>1. pc[t] \in Bound /\ ~IsRunning(x)
    BY <1>2, <1>13 DEF StartRun, StartReset, CtlPlace, Bound, IsRunning
  <2>2. active_devices' = active_devices /\ (~IsRunning(y) \/ pc'[t] \in Joining)
    <3>1. CASE StartRun(t)
      <4>1. /\ active_devices' = active_devices
            /\ y.currentState = x.currentState \/ Goto(t, "startLock")
        BY <1>1, <3>1, StartRunDoes
      <4>. QED  BY <1>7, <1>8, <2>1, <4>1 DEF IsRunning, Joining
    <3>2. CASE StartReset(t)
      BY <1>1, <2>1, <3>2, StartRestDoes DEF Same, IsRunning
    <3>. QED  BY <1>13, <3>1, <3>2
  <2>. QED  BY <1>9, <2>1, <2>2
<1>14. CASE StartLock(t)
  <2>1. pc[t] = "startLock" /\ Goto(t, "startRegister") /\ active_devices' = active_devices
    BY <1>1, <1>14, StartRestDoes
  <2>. QED  BY <1>7, <1>8, <1>9, <2>1 DEF Joining
<1>15. CASE StartRegister(t)
  <2>1. /\ pc[t] = "startRegister" /\ strm' = strm /\ Return(t, "ok")
        /\ active_devices' = active_devices \cup (x.mDevices \X {s})
    BY <1>1, <1>15 DEF StartRegister
  <2>2. IsRunning(x) /\ pc'[t] \notin Joining
    BY <1>2, <1>4, <1>6, <1>8, <2>1 DEF CtlLive, Joining
  <2>. QED  BY <1>5, <2>1, <2>2
<1>16. CASE StopEnter(t) \/ StopLock(t)
  <2>1. /\ pc[t] \in {"stop", "stopLock"} /\ strm' = strm /\ active_devices' = active_devices
        /\ \/ pc[t] = "stop" /\ \E r \in {"ok", "err"} : Return(t, r)
           \/ Goto(t, "stopLock") \/ Goto(t, "stopRun")
    BY <1>1, <1>16, StopDoes
  <2>2. pc'[t] \notin Joining
    BY <1>6, <1>7, <1>8, <2>1 DEF Joining
  <2>. QED  BY <1>10, <2>1, <2>2 DEF Joining
<1>17. CASE StopRun(t)
  <2>1. /\ pc[t] = "stopRun" /\ y.currentState = "STOPPED"
        /\ active_devices' = active_devices \ (x.mDevices \X {s})
    BY <1>1, <1>17, StopDoes
  <2>. QED  BY <1>5, <2>1 DEF IsRunning
<1>18. CASE CloseEnter(t) \/ CloseRun(t)
  <2>1. /\ pc[t] \in {"close", "closeRun"} /\ active_devices' = active_devices
        /\ y.mDevices = x.mDevices
        /\ \/ strm' = strm
           \/ /\ pc[t] = "closeRun" \/ x.currentState \in {"INIT", "STOPPED"}
              /\ y.currentState = "IDLE"
        /\ Return(t, "ok") \/ Call(t, "stop", "closeRun")
    BY <1>1, <1>18, CloseDoes
  <2>2. pc'[t] \notin Joining
    BY <1>6, <1>7, <1>8, <2>1 DEF Joining
  <2>3. IsRunning(x) <=> IsRunning(y)
    BY <1>2, <2>1 DEF CtlPlace, IsRunning
  <2>. QED  BY <1>10, <2>1, <2>2, <2>3 DEF Joining
<1>19. CASE Pause(t) \/ Resume(t)
  <2>1. /\ pc[t] \in {"pause", "resume"} /\ active_devices' = active_devices
        /\ y.mDevices = x.mDevices /\ (\E r \in {"ok", "err"} : Return(t, r))
        /\ \/ y.currentState = x.currentState
           \/ pc[t] = "pause" /\ y.currentState = "PAUSED"
    BY <1>1, <1>19, PauseDoes
  <2>2. pc'[t] \notin Joining
    BY <1>6, <1>8, <2>1
  <2>3. ret[t] # <<"closeRun", "closed">>
    BY <1>2, <2>1, Popped DEF CtlAt, Starting, Stopping, Labels
  <2>4. x.handle = "valid" /\ x.want \in {"started", "paused"}
        /\ (pc[t] = "pause" => "pause" \in Ops)
    BY <1>2, <2>1, <2>3 DEF CtlPlace, StreamType
  <2>5. pc[t] = "pause" => IsRunning(x)
    BY <1>2, <1>4, <2>4 DEF CtlLive
  <2>. QED  BY <1>10, <2>1, <2>2, <2>5 DEF IsRunning, Joining
<1>. QED  BY <1>11, <1>12, <1>13, <1>14, <1>15, <1>16, <1>17, <1>18, <1>19 DEF Operation

\* So do the calls of a client.
LEMMA CallerPairs ==
  ASSUME Typed, Steady, Places, Pairs, NEW t \in Controls,
         \/ PalOpened(t) \/ PalStop(t) \/ PalClose(t) \/ PalDone(t) \/ PalClosed(t)
         \/ PalOpen(t) \/ \E op \in Ops : PalCall(t, op)
  PROVE  Pairs'
<1>1. PICK s \in Streams : Str(t) = s
  BY Names
<1>2. Stay(t) /\ Frame(s) /\ active_devices' = active_devices
  BY <1>1, CallerTyped
<1>3. /\ \/ /\ strm'[s].currentState = strm[s].currentState
            /\ strm'[s].mDevices = strm[s].mDevices
         \/ strm[s].currentState = "IDLE" /\ strm'[s].currentState = "IDLE"
      /\ pc[t] \notin Joining /\ pc'[t] \notin Joining
  BY <1>1, CallerStates
<1>4. ASSUME MaxDown = 0, NEW d \in Devices
      PROVE  <<d, s>> \in active_devices' <=>
               IsRunning(strm'[s]) /\ d \in strm'[s].mDevices /\ pc'[t] \notin Joining
  <2>1. <<d, s>> \in active_devices <=>
          IsRunning(strm[s]) /\ d \in strm[s].mDevices /\ pc[t] \notin Joining
    BY <1>1, <1>4, PairsNow
  <2>. QED  BY <1>2, <1>3, <2>1 DEF IsRunning
<1>5. MaxDown = 0 => \A d \in Devices : <<d, s>> \in active_devices' <=>
        IsRunning(strm'[s]) /\ d \in strm'[s].mDevices /\ pc'[t] \notin Joining
  BY <1>4
<1>. QED  BY <1>1, <1>2, <1>5, PairsFrom

\* A write lists the devices of a stream that runs, and whose start is over.
LEMMA WriterPairs ==
  ASSUME Typed, Steady, Places, NoLoss, Pairs, NEW t \in WriterThreads, WriterStep(t) \/ PalWrite(t)
  PROVE  Pairs'
<1>. DEFINE s == Str(t)
<1>1. /\ s \in Streams /\ Stay(t) /\ strm \in [Streams -> StreamType]
      /\ active_devices \subseteq Devices \X Streams /\ scenario' = scenario
  BY WriterTyped, Names DEF Typed, Stay
<1>2. /\ strm' = strm \/ strm' = [strm EXCEPT ![s].currentState = "STARTED"]
      /\ IsRunning(strm[s]) /\ MaxDown = 0
      /\ \A u \in Controls : Str(u) = s => pc[u] \notin Starting
  BY WriterPlaces
<1>3. active_devices' = active_devices
      \/ active_devices' = active_devices \cup (strm[s].mDevices \X {s})
  BY DEF WriterStep, PalWrite, Write, WriteReset, WriteCheck, WriteLock, WriteRegister, WriteState
<1>4. \A u \in Controls : Str(u)' = Str(u) /\ pc'[u] = pc[u]
  BY <1>1, Names DEF Stay, Str
<1>5. \A u \in Streams : /\ IsRunning(strm'[u]) <=> IsRunning(strm[u])
                         /\ strm'[u].mDevices = strm[u].mDevices
  <2>1. CASE strm' = strm
    BY <2>1
  <2>2. CASE strm' = [strm EXCEPT ![s].currentState = "STARTED"]
    BY <1>1, <1>2, <2>2 DEF IsRunning, StreamType
  <2>. QED  BY <1>2, <2>1, <2>2
<1>6. ASSUME NEW u \in Streams, NEW d \in Devices
      PROVE  <<d, u>> \in active_devices' <=>
               /\ IsRunning(strm'[u]) /\ d \in strm'[u].mDevices
               /\ \A v \in Controls : Str(v)' = u => pc'[v] \notin Joining
  <2>1. <<d, u>> \in active_devices <=>
          /\ IsRunning(strm[u]) /\ d \in strm[u].mDevices
          /\ \A v \in Controls : Str(v) = u => pc[v] \notin Joining
    BY <1>2 DEF Pairs
  <2>2. u = s => \A v \in Controls : Str(v) = u => pc[v] \notin Joining
    BY <1>2 DEF Starting, Joining
  <2>3. CASE active_devices' = active_devices
    BY <1>4, <1>5, <2>1, <2>3
  <2>4. CASE active_devices' = active_devices \cup (strm[s].mDevices \X {s})
    <3>1. CASE u = s
      BY <1>2, <1>4, <1>5, <2>1, <2>2, <2>4, <3>1
    <3>2. CASE u # s
      BY <1>4, <1>5, <2>1, <2>4, <3>2
    <3>. QED  BY <3>1, <3>2
  <2>. QED  BY <1>3, <2>3, <2>4
<1>. QED  BY <1>6 DEF Pairs, IsRunning

\* Every step keeps the list.
LEMMA StepPairs ==
  ASSUME Typed, Steady, Places, Locks, NoLoss, Pairs, [Next]_vars
  PROVE  Pairs'
<1>1. scenario' = scenario
  BY SameScenario
<1>2. CASE MaxDown # 0
  BY <1>1, <1>2 DEF Pairs, MaxDown
<1>3. CASE MaxDown = 0
  <2>1. pc[Ssr] = "idle" /\ msgQ = <<>> /\ downs \in Nat
    BY <1>3 DEF Places, SsrPlace, NoLoss, Typed
  <2>2. ~Operation(Ssr) /\ ~SsrOwn
    BY <2>1 DEF Operation, Open, StartEnter, StartRun, StartReset, StartLock, StartRegister,
      StopEnter, StopLock, StopRun, CloseEnter, CloseRun, Pause, Resume, SsrOwn, SsrTake, SsrNext,
      SsrDone, SsrDown, SsrDownStopped, SsrDownEnd, SsrUp, SsrUpOpened, SsrUpStarted, SsrUpEnd
  <2>3. ASSUME UNCHANGED <<active_devices, pc>>,
               \A u \in Streams : /\ strm'[u].currentState = strm[u].currentState
                                  /\ strm'[u].mDevices = strm[u].mDevices
        PROVE  Pairs'
    <3>1. \A v \in Controls : Str(v)' = Str(v)
      BY Names DEF Str
    <3>. QED  BY <1>1, <2>3, <3>1 DEF Pairs, MaxDown, IsRunning
  <2>4. CASE CardGoesDown \/ CardComesUp
    BY <2>3, <2>4, CardTypedStep
  <2>5. CASE UNCHANGED vars
    BY <2>3, <2>5 DEF vars
  <2>. QED  BY <2>2, <2>4, <2>5, StepKinds, OperationPairs, CallerPairs, WriterPairs
<1>. QED  BY <1>2, <1>3

-----------------------------------------------------------------------------
\* The inductive invariant.
Balanced == Typed /\ Locks /\ NoLoss /\ (Steady => Places /\ Counts /\ Pairs)

\* It holds at the start,
LEMMA InitBalanced ==
  ASSUME Init
  PROVE  Balanced
<1>1. Typed /\ Locks /\ NoLoss /\ Places
  BY InitTyped, InitPlaces
<1>2. /\ \A s \in Streams : strm[s].currentState = "IDLE"
      /\ \A s \in Streams : mStreamMutex[s] = None
      /\ active_devices = {} /\ \A d \in Devices : dev[d] = [count |-> 0, startStop |-> 0]
  BY DEF Init, NewStream, NoUse
<1>3. Counts
  <2>1. \A d \in Devices : InOf(d) = {} /\ OnOf(d) = {}
    BY <1>2 DEF InOf, OnOf, In, On, IsRunning
  <2>2. \A d \in Devices : dev[d].count = 0 /\ dev[d].startStop = 0
    BY <1>2
  <2>3. Cardinality({}) = 0
    BY FS_EmptySet
  <2>. QED  BY <2>1, <2>2, <2>3 DEF Counts
<1>4. Pairs
  BY <1>2 DEF Pairs, IsRunning
<1>. QED  BY <1>1, <1>3, <1>4 DEF Balanced

\* every step keeps it,
LEMMA StepBalanced ==
  ASSUME Balanced, [Next]_vars
  PROVE  Balanced'
<1>1. Typed' /\ Locks' /\ NoLoss' /\ scenario' = scenario
  BY StepTyped, StepLocks, StepNoLoss, SameScenario DEF Balanced
<1>2. Steady' <=> Steady
  BY <1>1 DEF Steady, MaxDown, Ops, Writes, Faults, Direction
<1>3. Steady => Places' /\ Counts' /\ Pairs'
  BY StepPlaces, StepCounts, StepPairs DEF Balanced
<1>. QED  BY <1>1, <1>2, <1>3 DEF Balanced

\* and it makes the devices right.
LEMMA BalancedRight ==
  ASSUME Balanced, Steady
  PROVE  DevicesRight
<1>1. Typed /\ Locks /\ Places /\ Counts /\ Pairs /\ Positions
  BY DEF Balanced, Typed
<1>2. TypeOK
  BY <1>1 DEF Typed, TypeOK, UseType, Counters, Positions, Control, Statuses
<1>3. ASSUME NEW d \in Devices
      PROVE  Opener(d) = InOf(d) /\ Starter(d) \subseteq OnOf(d)
             /\ (Quiet => Starter(d) = OnOf(d))
  <2>1. Opener(d) = InOf(d) /\ Starter(d) \subseteq OnOf(d)
    BY DEF Opener, InOf, In, Starter, OnOf, On, IsRunning
  <2>2. ASSUME Quiet
        PROVE  OnOf(d) \subseteq Starter(d)
    <3>1. \A s \in Streams : mStreamMutex[s] = None
      BY <1>1, <2>2 DEF Quiet, Locks, Bound, Typed
    <3>. QED  BY <3>1 DEF Starter, OnOf, On, IsRunning
  <2>. QED  BY <2>1, <2>2
<1>4. DeviceServesUsers
  <2>1. ASSUME NEW d \in Devices
        PROVE  dev[d].count >= Cardinality(Opener(d))
               /\ dev[d].startStop >= Cardinality(Starter(d))
    <3>1. /\ dev[d].count >= Cardinality(InOf(d)) /\ dev[d].startStop >= Cardinality(OnOf(d))
          /\ dev[d].startStop \in Nat
      BY <1>1 DEF Counts, Typed, UseType, Counters
    <3>2. OnOf(d) \in SUBSET Streams
      BY DEF OnOf
    <3>3. Starter(d) \in SUBSET OnOf(d)
      BY <1>3
    <3>4. Cardinality(Starter(d)) <= Cardinality(OnOf(d))
      BY <3>2, <3>3, SmallerSet, NamesAssumption
    <3>5. Cardinality(Starter(d)) \in Nat /\ Cardinality(OnOf(d)) \in Nat
      BY <3>2, <3>3, NamesAssumption, FS_Subset, FS_CardinalityType
    <3>. QED  BY <1>3, <3>1, <3>4, <3>5
  <2>. QED  BY <2>1 DEF DeviceServesUsers
<1>5. CountsBalance
  <2>1. ASSUME Quiet, OnlyStartsFail, NEW d \in Devices
        PROVE  dev[d].count = Cardinality(Opener(d))
               /\ dev[d].startStop = Cardinality(Starter(d))
    BY <1>1, <1>3, <2>1 DEF Counts
  <2>. QED  BY <2>1 DEF CountsBalance, OnlyStartsFail
<1>6. ActiveDevicesRight
  <2>1. ASSUME Quiet, MaxDown = 0, NEW s \in Streams, NEW d \in Devices
        PROVE  <<d, s>> \in active_devices <=>
                 strm[s].currentState \in {"STARTED", "PAUSED"} /\ d \in strm[s].mDevices
    <3>1. \A t \in Controls : pc[t] \notin Joining
      BY <2>1, Names DEF Quiet, Joining
    <3>. QED  BY <1>1, <2>1, <3>1 DEF Pairs, IsRunning
  <2>2. active_devices \subseteq Devices \X Streams
        /\ \A s \in Streams : strm[s].mDevices \subseteq Devices
    BY <1>1 DEF Typed, StreamType
  <2>. QED  BY <2>1, <2>2 DEF ActiveDevicesRight
<1>. QED  BY <1>2, <1>4, <1>5, <1>6 DEF DevicesRight

\* The devices that streams share serve every stream that uses them, no longer than it does,
\* and are listed as active just as long, for any number of streams and devices and whatever
\* fails, in every scenario of Steady (open, start, stop, close, pause, write, and recovery).
THEOREM DevicesStayRight == Spec => [](Steady => DevicesRight)
<1>1. Init => Balanced
  BY InitBalanced
<1>2. Balanced /\ [Next]_vars => Balanced'
  BY StepBalanced
<1>3. Balanced => (Steady => DevicesRight)
  BY BalancedRight
<1>. QED  BY <1>1, <1>2, <1>3, PTL DEF Spec

-----------------------------------------------------------------------------
(* A PCM stream is as its client asked (StreamAsAsked of StreamPCM),       *)
(* without a loss of the card and after one.                               *)

\* What the client of stream x takes its stream to be, once the call it is in returns.
Believed(x, p, st) ==
  IF p = "opened" THEN "open"
  ELSE IF p \in Joining \/ (p \in {"startDone", "resumeDone"} /\ st = "ok") THEN "started"
  ELSE IF p = "pauseDone" /\ st = "ok" THEN "paused"
  ELSE x.want

\* A stream that is as its client believes it to be.
Fits(x, b) ==
  /\ b = "open" => x.currentState = "INIT" /\ x.session = "opened" /\ ~x.isPaused
  /\ b = "started" => IsRunning(x) /\ x.session = "started" /\ ~x.isPaused
  /\ b = "paused" => IsRunning(x) /\ x.session = "started" /\ x.isPaused
  /\ b \in {"open", "started", "paused"}

\* Without a loss: a stream the client has, or is about to get, is as it believes.
KeepsAsked(x, p, st) ==
  /\ x.handle \in {"opening", "valid"} => x.sessionPaused = x.isPaused
  /\ x.handle = "opening" => ~x.isPaused
  /\ x.handle = "valid" \/ (p = "opened" /\ st = "ok") => Fits(x, Believed(x, p, st))

-----------------------------------------------------------------------------
(* One loss.  It is under way while the manager has not heard of it, away   *)
(* while the manager takes the card for lost, and then back.                *)
Online == cardState = "online"
Back == downs = 1 /\ Online /\ msgQ = <<>>

OneLoss ==
  /\ prevState = cardState
  /\ \/ downs = 0 /\ card = "online" /\ Online /\ msgQ = <<>>
     \/ \E k \in Statuses : /\ downs = 1 /\ Online
                            /\ \/ card = k /\ msgQ = <<k>>
                               \/ card = "online" /\ msgQ = <<k, "online">>
     \/ /\ downs = 1 /\ CardDown
        /\ \/ card \in Statuses /\ msgQ = <<>>
           \/ card = "online" /\ msgQ = <<"online">>
     \/ card = "online" /\ Back

\* Where the recovery thread is in its walk.
Walks ==
  /\ Online /\ ~Back => pc[Ssr] = "idle"
  /\ pc[Ssr] \notin {"idle", "walk"} => ssr.stream \notin ssr.visited
  /\ pc[Ssr] = "up" => Online
  /\ \A s \in ssr.visited : strm[s].handle = "valid"

\* The stream at which recovery works.
AtWork(s) == ssr.stream = s /\ pc[Ssr] \notin {"idle", "walk", "down", "up"}
Waits(s) == s \notin ssr.visited /\ ~AtWork(s)

\* What recovery has to bring stream x to.
Due(x, p, st) == IF Believed(x, p, st) = "open" THEN "INIT" ELSE "STARTED"

\* The session follows the state of the stream, unless it died with the card.
Whole(x) ==
  /\ ~x.isPaused /\ ~x.sessionPaused /\ ~x.skipSSRHandling
  /\ x.currentState = "IDLE" => x.session = "closed"
  /\ x.currentState = "INIT" => x.session = "opened"
  /\ x.currentState = "STARTED" => x.session \in {"started", "lost"}
  /\ x.currentState = "STOPPED" => x.session \in {"opened", "lost"}

Ready(x, due) == x.currentState = due /\ (due = "STARTED" => x.session = "started")

\* While the card is away: a stream not walked over yet, one taken down, one that is down.
DownOf(s, x, p, due) ==
  /\ Waits(s) =>
       /\ \/ x.cachedState = "IDLE" /\ x.currentState = due
          \/ x.cachedState = "STARTED" /\ x.currentState = "INIT" /\ due = "STARTED"
       /\ pc[Ssr] = "idle" => x.currentState = "INIT" /\ p \notin Bound
       /\ p \in Bound => x.cachedState = "IDLE"
  /\ AtWork(s) => pc[Ssr] \in Leaving /\ x.cachedState = due
  /\ s \in ssr.visited => x.currentState = "IDLE" /\ x.cachedState = due /\ p \notin Bound

\* A stream recovery has still to open, or to start.
ToOpen(x, due) ==
  /\ x.cachedState = due
  /\ x.currentState = "IDLE" \/ (x.currentState = "INIT" /\ due = "STARTED")
ToStart(x, due) == due = "STARTED" /\ x.currentState = "INIT"

\* The stream it works at, at each place of ssrUpHandler.
Raised(x, due) ==
  \/ /\ pc[Ssr] = "open" /\ ToOpen(x, due)
     /\ ret[Ssr] = IF due = "INIT" THEN <<"upEnd">> ELSE <<"upOpened">>
  \/ pc[Ssr] = "upOpened" /\ status[Ssr] = "ok" /\ ToStart(x, due)
  \/ pc[Ssr] \in {"start", "startRun"} /\ ToStart(x, due)
  \/ pc[Ssr] \in Joining \cup {"upStarted", "upEnd"} /\ Ready(x, due)

\* Once it is back: a stream not walked over yet, one brought up, one that is up.
UpOf(s, x, due) ==
  /\ Waits(s) => \/ x.cachedState = "IDLE" /\ Ready(x, due)
                 \/ ToOpen(x, due) /\ pc[Ssr] # "idle"
  /\ AtWork(s) => Raised(x, due)
  /\ s \in ssr.visited => x.cachedState = "IDLE" /\ Ready(x, due)

\* With one loss: a stream is as its client believes, or recovery will make it so.
Recovers(s, x, p, st) ==
  /\ Whole(x)
  /\ x.handle \in {"none", "opening"} => x.cachedState = "IDLE"
  /\ x.handle = "opening" => x.currentState = IF p = "opened" /\ st = "ok" THEN "INIT" ELSE "IDLE"
  /\ x.handle = "valid" =>
       /\ Believed(x, p, st) \in {"open", "started"}
       /\ Online /\ ~Back => x.cachedState = "IDLE" /\ x.currentState = Due(x, p, st)
       /\ downs = 0 => Ready(x, Due(x, p, st))
       /\ CardDown => DownOf(s, x, p, Due(x, p, st))
       /\ Back => UpOf(s, x, Due(x, p, st))

\* The scenarios in which what recovery does to a stream succeeds.
Recoverable ==
  /\ MaxDown = 1 /\ Faults \subseteq {"deviceStop"} /\ StandbyStreams = {}
  /\ \A s \in Streams : Routed[s] # {}
Restorable == (MaxDown = 0 /\ "sessionOpen" \notin Faults) \/ Recoverable

Restores ==
  /\ OneLoss /\ Walks
  /\ \A s \in Streams : strm[s].mDevices # {}
  /\ \A t \in Controls : Recovers(Str(t), strm[Str(t)], pc[t], status[t])

Asked ==
  Restorable /\ "stop" \notin Ops =>
    IF MaxDown = 0 THEN \A t \in Controls : KeepsAsked(strm[Str(t)], pc[t], status[t])
    ELSE Restores

-----------------------------------------------------------------------------
(* Without a loss.                                                          *)

\* A step of a client's thread on its own stream.
LEMMA KeepsFrom ==
  ASSUME Typed, Steady, NEW t \in Controls, Stay(t), Frame(Str(t)),
         \A u \in Controls : KeepsAsked(strm[Str(u)], pc[u], status[u]),
         KeepsAsked(strm'[Str(t)], pc'[t], status'[t])
  PROVE  \A u \in Controls : KeepsAsked(strm[Str(u)], pc[u], status[u])'
<1>1. TAKE u \in Controls
<1>2. Str(u)' = Str(u) /\ Str(u) \in Streams /\ Str(t) \in Streams /\ u \in Threads
  BY Names DEF Str
<1>3. CASE u = t
  BY <1>2, <1>3 DEF KeepsAsked, Fits, Believed, IsRunning
<1>4. CASE u # t
  <2>1. Str(u) # Str(t)
    BY <1>2, <1>4, OneControl
  <2>2. strm'[Str(u)] = strm[Str(u)] /\ pc'[u] = pc[u] /\ status'[u] = status[u]
    BY <1>2, <1>4, <2>1 DEF Frame, Stay
  <2>. QED  BY <1>2, <2>2 DEF KeepsAsked, Fits, Believed, IsRunning
<1>. QED  BY <1>3, <1>4

\* What the session gets from a start: nothing, or it runs with its stream.
LEMMA StartSession ==
  ASSUME Typed, NEW t, NEW s \in Streams, Str(t) = s, StartRun(t)
  PROVE  \/ Return(t, "err") /\ \E D : strm' = [strm EXCEPT ![s] = [@ EXCEPT !.mDevices = D]]
         \/ ~CardUp /\ May("netReset")
         \/ /\ Goto(t, "startLock") /\ CardUp /\ strm[s].session \notin {"closed", "lost"}
            /\ \E D : strm' = [strm EXCEPT ![s] = [@ EXCEPT !.mDevices = D,
                                 !.currentState = "STARTED", !.session = "started"]]
<1>. DEFINE x == strm[s]
<1>1. strm = [strm EXCEPT ![s] = [x EXCEPT !.mDevices = x.mDevices]]
  BY DEF Typed, StreamType
<1>2. ASSUME NEW D, NEW dv, SessionRun(t, s, D, dv)
      PROVE  \/ Return(t, "err") /\ strm' = [strm EXCEPT ![s] = [x EXCEPT !.mDevices = D]]
             \/ ~CardUp /\ May("netReset")
             \/ /\ Goto(t, "startLock") /\ CardUp /\ strm[s].session \notin {"closed", "lost"}
                /\ strm' = [strm EXCEPT ![s] = [x EXCEPT !.mDevices = D,
                                 !.currentState = "STARTED", !.session = "started"]]
  BY <1>2 DEF SessionRun
<1>3. CASE StartOutput(t, s)
  BY <1>2, <1>3 DEF StartOutput
<1>4. CASE StartInput(t, s)
  BY <1>1, <1>2, <1>4 DEF StartInput
<1>5. CASE StartLoopback(t, s)
  BY <1>1, <1>2, <1>5 DEF StartLoopback
<1>. QED  BY <1>3, <1>4, <1>5, ScenarioIs DEF StartRun, Typed

\* What the invariants say of the thread of a client and its stream when no card is lost.
LEMMA Lossless ==
  ASSUME Typed, Steady, Places, NoLoss, MaxDown = 0, "stop" \notin Ops, NEW t \in Controls
  PROVE  /\ CardUp /\ ~CardDown /\ pc[t] # "startReset"
         /\ strm[Str(t)] \in StreamType /\ Str(t) \in Streams /\ t \in Threads /\ Positions
         /\ strm \in [Streams -> StreamType]
         /\ CtlPlace(strm[Str(t)], pc[t], ret[t], status[t])
         /\ status[t] \in {"ok", "err"}
         /\ strm[Str(t)].handle = "valid" =>
              /\ pc[t] \in Starting => strm[Str(t)].want = "open"
              /\ pc[t] \notin Stopping \cup {"palStop", "stopDone"}
BY Names DEF Typed, Places, NoLoss, Unreported, CardUp, CardDown, Positions, Control, CtlPlace,
  CtlAt, StreamType, Starting, Stopping

\* Whose call a stream is in.
LEMMA CallOf ==
  ASSUME NEW x \in StreamType, NEW p, NEW r, NEW st, CtlPlace(x, p, r, st), CtlAt(p, r)
  PROVE  /\ p = "open" => x.handle = "opening" /\ x.currentState = "IDLE"
         /\ p = "opened" => x.handle = "opening"
         /\ p \in {"startDone", "stopDone", "pauseDone", "resumeDone"} => x.handle = "valid"
         /\ p \in Starting \cup {"pause", "resume"} => x.handle = "valid"
         /\ p \in {"pause", "resume"} => x.want \in {"started", "paused"}
<1>1. /\ r = <<"opened">> \/ r = <<"startDone">> \/ r = <<"pauseDone">> \/ r = <<"resumeDone">>
         => r # <<"stopDone">> /\ r # <<"closeRun", "closed">>
  <2>1. Len(<<"closeRun", "closed">>) = 2
    OBVIOUS
  <2>. QED  BY <2>1
<1>2. p = "open" => r = <<"opened">>
  BY DEF CtlAt, Starting, Stopping
<1>3. p \in Starting => r = <<"startDone">>
  BY DEF CtlAt, Starting, Stopping
<1>4. p \in {"pause", "resume"} => r = <<"pauseDone">> \/ r = <<"resumeDone">>
  BY DEF CtlAt, Starting, Stopping
<1>5. x.handle \in {"none", "opening", "valid", "closing"}
  BY DEF StreamType
<1>8. p \in {"opened", "startDone", "stopDone", "pauseDone", "resumeDone"} => r = <<>>
  BY DEF CtlAt, Starting, Stopping
<1>9. <<>> # <<"stopDone">> /\ <<>> # <<"closeRun", "closed">>
  OBVIOUS
<1>6. p = "open" => x.handle = "opening" /\ x.currentState = "IDLE"
  BY <1>1, <1>2, <1>5 DEF CtlPlace, Starting
<1>7. p \in Starting \cup {"pause", "resume"} => x.handle = "valid"
  BY <1>1, <1>3, <1>4, <1>5 DEF CtlPlace, Starting
<1>10. p = "opened" => x.handle = "opening"
  BY <1>8, <1>9, <1>5 DEF CtlPlace, Starting
<1>11. p \in {"startDone", "stopDone", "pauseDone", "resumeDone"} => x.handle = "valid"
  BY <1>8, <1>9, <1>5 DEF CtlPlace, Starting
<1>. QED  BY <1>6, <1>7, <1>10, <1>11 DEF CtlPlace

LEMMA OperationKeepsAsked ==
  ASSUME Typed, Steady, Places, NoLoss, MaxDown = 0, "stop" \notin Ops,
         "sessionOpen" \notin Faults, NEW t \in Controls, Operation(t), Stay(t), Frame(Str(t)),
         KeepsAsked(strm[Str(t)], pc[t], status[t])
  PROVE  KeepsAsked(strm'[Str(t)], pc'[t], status'[t])
<1>. DEFINE s == Str(t)
            x == strm[s]
            y == strm'[s]
<1>1. /\ CardUp /\ ~CardDown /\ pc[t] # "startReset"
      /\ x \in StreamType /\ s \in Streams /\ t \in Threads /\ Positions
      /\ strm \in [Streams -> StreamType]
      /\ CtlPlace(x, pc[t], ret[t], status[t]) /\ CtlAt(pc[t], ret[t])
      /\ x.handle = "valid" => /\ pc[t] \in Starting => x.want = "open"
                               /\ pc[t] \notin Stopping \cup {"palStop", "stopDone"}
      /\ pc[t] = "open" => x.handle = "opening" /\ x.currentState = "IDLE"
      /\ pc[t] \in Starting \cup {"pause", "resume"} => x.handle = "valid"
      /\ pc[t] \in {"pause", "resume"} => x.want \in {"started", "paused"}
  BY Lossless, CallOf DEF Positions
<1>2. ASSUME NEW r \in {"ok", "err"}, Return(t, r), pc[t] \in Calls
      PROVE  /\ status'[t] = r
             /\ pc[t] = "open" => pc'[t] = "opened"
             /\ pc[t] \in Starting => pc'[t] = "startDone"
             /\ pc[t] \in {"close", "closeRun"} => pc'[t] = "closed"
             /\ pc[t] = "pause" => pc'[t] = "pauseDone"
             /\ pc[t] = "resume" => pc'[t] = "resumeDone"
  BY <1>1, <1>2, CtlBack DEF At
<1>3. ASSUME NEW l, Goto(t, l)
      PROVE  pc'[t] = l /\ status'[t] = status[t]
  BY <1>1, <1>3 DEF Goto, Positions, Control
<1>4. CASE Open(t)
  <2>1. pc[t] = "open" /\ x.handle = "opening" /\ x.currentState = "IDLE"
    BY <1>1, <1>4 DEF Open
  <2>2. OpenIdle(t, s) /\ pc[t] \in Calls
    BY <1>1, <1>4, <2>1 DEF Open, Calls
  <2>3. CASE Return(t, "err") /\ strm' = strm
    <3>1. pc'[t] = "opened" /\ status'[t] = "err"
      BY <1>2, <2>1, <2>2, <2>3
    <3>. QED  BY <2>1, <2>3, <3>1 DEF KeepsAsked
  <2>4. CASE /\ strm' = [strm EXCEPT ![s].currentState = "INIT", ![s].session = "opened"]
             /\ Return(t, "ok")
    <3>1. pc'[t] = "opened" /\ status'[t] = "ok"
      BY <1>2, <2>1, <2>2, <2>4
    <3>2. y = [x EXCEPT !.currentState = "INIT", !.session = "opened"]
      BY <1>1, <2>4
    <3>3. /\ y.currentState = "INIT" /\ y.session = "opened" /\ y.isPaused = x.isPaused
          /\ y.sessionPaused = x.sessionPaused
      BY <1>1, <3>2 DEF StreamType
    <3>. QED  BY <2>1, <3>1, <3>3 DEF KeepsAsked, Fits, Believed
  <2>. QED  BY <1>1, <2>2, <2>3, <2>4 DEF OpenIdle, May
<1>5. CASE StartEnter(t)
  <2>1. pc[t] = "start" /\ x.handle = "valid" /\ strm' = strm /\ pc[t] \in Calls
    BY <1>1, <1>5 DEF StartEnter, Starting, Calls
  <2>2. x.currentState = "INIT" /\ Believed(x, pc[t], status[t]) = "open" /\ x.want = "open"
    BY <1>1, <2>1 DEF KeepsAsked, Fits, Believed, Joining, Starting
  <2>3. pc'[t] = "startRun"
    BY <1>1, <1>3, <1>5, <2>1, <2>2 DEF StartEnter
  <2>. QED  BY <2>1, <2>2, <2>3 DEF KeepsAsked, Fits, Believed, Joining
<1>6. CASE StartRun(t)
  <2>1. pc[t] = "startRun" /\ x.handle = "valid" /\ pc[t] \in Calls /\ x.want = "open"
    BY <1>1, <1>6 DEF StartRun, Starting, Calls
  <2>2. Fits(x, "open") /\ ~x.sessionPaused
    BY <1>1, <2>1 DEF KeepsAsked, Fits, Believed, Joining, StreamType
  <2>3. CASE Return(t, "err") /\ \E D : strm' = [strm EXCEPT ![s] = [@ EXCEPT !.mDevices = D]]
    <3>1. pc'[t] = "startDone" /\ status'[t] = "err"
      BY <1>2, <2>1, <2>3 DEF Starting
    <3>2. PICK D : y = [x EXCEPT !.mDevices = D]
      BY <1>1, <2>3
    <3>3. /\ y.currentState = x.currentState /\ y.session = x.session /\ y.isPaused = x.isPaused
          /\ y.sessionPaused = x.sessionPaused /\ y.handle = x.handle /\ y.want = x.want
      BY <1>1, <3>2 DEF StreamType
    <3>. QED  BY <1>1, <2>1, <2>2, <3>1, <3>3 DEF KeepsAsked, Fits, Believed, Joining, StreamType
  <2>4. CASE /\ Goto(t, "startLock")
             /\ \E D : strm' = [strm EXCEPT ![s] = [@ EXCEPT !.mDevices = D,
                                 !.currentState = "STARTED", !.session = "started"]]
    <3>1. pc'[t] = "startLock"
      BY <1>3, <2>4
    <3>2. PICK D : y = [x EXCEPT !.mDevices = D, !.currentState = "STARTED",
                                 !.session = "started"]
      BY <1>1, <2>4
    <3>3. /\ y.currentState = "STARTED" /\ y.session = "started" /\ y.isPaused = x.isPaused
          /\ y.sessionPaused = x.sessionPaused /\ y.handle = x.handle /\ y.want = x.want
      BY <1>1, <3>2 DEF StreamType
    <3>. QED  BY <1>1, <2>1, <2>2, <3>1, <3>3 DEF KeepsAsked, Fits, Believed, Joining, IsRunning,
                StreamType
  <2>. QED  BY <1>1, <1>6, <2>3, <2>4, StartSession
<1>7. CASE StartReset(t)
  BY <1>1, <1>7 DEF StartReset
<1>8. CASE StartLock(t) \/ StartRegister(t)
  <2>1. pc[t] \in Joining /\ strm' = strm /\ x.handle = "valid" /\ pc[t] \in Calls
    BY <1>1, <1>8 DEF StartLock, StartRegister, Starting, Calls, Joining
  <2>2. pc'[t] \in Joining \/ (pc'[t] = "startDone" /\ status'[t] = "ok")
    BY <1>2, <1>3, <1>8, <2>1 DEF StartLock, StartRegister, Joining, Starting
  <2>3. Believed(y, pc'[t], status'[t]) = "started" /\ Believed(x, pc[t], status[t]) = "started"
    BY <2>1, <2>2 DEF Believed, Joining
  <2>. QED  BY <2>1, <2>3 DEF KeepsAsked
<1>9. CASE StopEnter(t) \/ StopLock(t) \/ StopRun(t)
  <2>1. pc[t] \in Stopping /\ x.handle \notin {"valid", "opening"}
    BY <1>1, <1>9 DEF StopEnter, StopLock, StopRun, CtlPlace, Stopping
  <2>2. y.handle = x.handle
    BY <1>1, <1>9 DEF StopEnter, StopLock, StopRun, StreamType
  <2>3. pc'[t] # "opened"
    <3>1. ret[t] = <<"stopDone">> \/ ret[t] = <<"closeRun", "closed">>
      BY <1>1, <2>1 DEF CtlAt, Stopping, Starting
    <3>2. Head(ret[t]) # "opened"
      BY <3>1, Popped DEF Labels
    <3>. QED  BY <1>1, <1>9, <3>2 DEF StopEnter, StopLock, StopRun, Goto, Return, Positions, Control
  <2>. QED  BY <2>1, <2>2, <2>3 DEF KeepsAsked
<1>10. CASE CloseEnter(t) \/ CloseRun(t)
  <2>1. pc[t] \in {"close", "closeRun"} /\ x.handle # "valid" /\ pc[t] \in Calls
    BY <1>1, <1>10 DEF CloseEnter, CloseRun, CtlPlace, CtlAt, Stopping, Starting, Calls
  <2>2. x.handle = "opening" => strm' = strm
    BY <1>1, <1>10, <2>1 DEF CloseEnter, CloseRun, CtlPlace
  <2>3. y.handle = x.handle
    BY <1>1, <1>10 DEF CloseEnter, CloseRun, CloseAll, StreamType
  <2>4. pc'[t] # "opened"
    BY <1>1, <1>2, <1>10, <2>1 DEF CloseEnter, CloseRun, CloseAll, Call, Positions, Control
  <2>. QED  BY <2>1, <2>2, <2>3, <2>4 DEF KeepsAsked
<1>11. CASE Pause(t) \/ Resume(t)
  <2>1. /\ pc[t] \in {"pause", "resume"} /\ x.handle = "valid" /\ pc[t] \in Calls
        /\ x.want \in {"started", "paused"}
    BY <1>1, <1>11 DEF Pause, Resume, Calls
  <2>2. IsRunning(x) /\ x.session = "started" /\ x.sessionPaused = x.isPaused /\ SessionThere(s)
    BY <1>1, <2>1 DEF KeepsAsked, Fits, Believed, Joining, SessionThere
  <2>3. CASE Pause(t)
    <3>1. pc[t] = "pause" /\ Return(t, "ok")
      BY <1>1, <2>2, <2>3 DEF Pause
    <3>2. \/ x.isPaused /\ y = [x EXCEPT !.currentState = "PAUSED"]
          \/ y = [x EXCEPT !.isPaused = TRUE, !.currentState = "PAUSED", !.sessionPaused = TRUE]
      BY <1>1, <2>2, <2>3 DEF Pause
    <3>3. /\ y.handle = "valid" /\ y.currentState = "PAUSED" /\ y.session = "started"
          /\ y.isPaused /\ y.sessionPaused
      BY <1>1, <2>1, <2>2, <3>2 DEF StreamType
    <3>4. pc'[t] = "pauseDone" /\ status'[t] = "ok"
      BY <1>2, <2>1, <3>1
    <3>. QED  BY <3>3, <3>4 DEF KeepsAsked, Fits, Believed, Joining, IsRunning
  <2>4. CASE Resume(t)
    <3>1. pc[t] = "resume" /\ Return(t, "ok")
      BY <1>1, <2>2, <2>4 DEF Resume
    <3>2. y = [x EXCEPT !.isPaused = FALSE, !.sessionPaused = FALSE]
      BY <1>1, <2>2, <2>4 DEF Resume
    <3>3. /\ y.handle = "valid" /\ y.currentState = x.currentState /\ y.session = "started"
          /\ y.isPaused = FALSE /\ y.sessionPaused = FALSE
      BY <1>1, <2>1, <2>2, <3>2 DEF StreamType
    <3>4. pc'[t] = "resumeDone" /\ status'[t] = "ok"
      BY <1>2, <2>1, <3>1
    <3>5. Believed(y, pc'[t], status'[t]) = "started"
      BY <3>4 DEF Believed, Joining
    <3>6. Fits(y, "started")
      BY <2>2, <3>3 DEF Fits, IsRunning
    <3>. QED  BY <3>3, <3>5, <3>6 DEF KeepsAsked
  <2>. QED  BY <1>11, <2>3, <2>4
<1>. QED  BY <1>4, <1>5, <1>6, <1>7, <1>8, <1>9, <1>10, <1>11 DEF Operation

\* The calls of a client, and the writes.
LEMMA CallerKeepsAsked ==
  ASSUME Typed, Steady, Places, NoLoss, MaxDown = 0, "stop" \notin Ops, NEW t \in Controls,
         \/ PalOpened(t) \/ PalStop(t) \/ PalClose(t) \/ PalDone(t) \/ PalClosed(t)
         \/ PalOpen(t) \/ \E op \in Ops : PalCall(t, op),
         KeepsAsked(strm[Str(t)], pc[t], status[t])
  PROVE  KeepsAsked(strm'[Str(t)], pc'[t], status'[t])
<1>. DEFINE s == Str(t)
            x == strm[s]
            y == strm'[s]
<1>1. /\ x \in StreamType /\ s \in Streams /\ t \in Threads /\ Control
      /\ strm \in [Streams -> StreamType]
      /\ CtlPlace(x, pc[t], ret[t], status[t])
      /\ x.handle = "valid" => pc[t] \notin Stopping \cup {"palStop", "stopDone"}
      /\ pc[t] = "opened" => x.handle = "opening"
      /\ pc[t] \in {"startDone", "stopDone", "pauseDone", "resumeDone"} => x.handle = "valid"
  BY Lossless, CallOf DEF Positions
<1>2. ASSUME NEW l, Goto(t, l) \/ \E b : Call(t, l, b)
      PROVE  pc'[t] = l /\ status'[t] = status[t]
  BY <1>1, <1>2 DEF Goto, Call, Control
<1>3. CASE PalOpened(t)
  <2>1. x.handle = "opening" /\ pc[t] = "opened"
    BY <1>1, <1>3 DEF PalOpened
  <2>2. CASE status[t] = "ok"
    <3>1. y = [x EXCEPT !.handle = "valid", !.want = "open"] /\ pc'[t] = "idle"
      BY <1>1, <1>2, <1>3, <2>2 DEF PalOpened
    <3>2. /\ y.currentState = x.currentState /\ y.session = x.session /\ y.isPaused = x.isPaused
          /\ y.sessionPaused = x.sessionPaused /\ y.want = "open"
      BY <1>1, <3>1 DEF StreamType
    <3>3. Fits(x, "open") /\ x.sessionPaused = x.isPaused
      BY <2>1, <2>2 DEF KeepsAsked, Believed
    <3>4. Believed(y, pc'[t], status'[t]) = "open"
      BY <3>1, <3>2 DEF Believed, Joining
    <3>5. Fits(y, "open")
      BY <3>2, <3>3 DEF Fits
    <3>. QED  BY <3>1, <3>2, <3>3, <3>4, <3>5 DEF KeepsAsked, Fits
  <2>3. CASE status[t] # "ok"
    <3>1. strm' = strm /\ pc'[t] = "close"
      BY <1>2, <1>3, <2>3 DEF PalOpened
    <3>. QED  BY <2>1, <3>1 DEF KeepsAsked
  <2>. QED  BY <2>2, <2>3
<1>4. CASE PalStop(t) \/ PalClose(t)
  <2>1. pc[t] \in {"palStop", "palClose"} /\ pc'[t] \in {"stop", "close"}
    BY <1>2, <1>4 DEF PalStop, PalClose
  <2>2. x.handle \notin {"valid", "opening"}
    BY <1>1, <2>1 DEF CtlPlace, Starting
  <2>3. y.handle = x.handle
    BY <1>1, <1>4 DEF PalStop, PalClose, SetCachedState, StreamType
  <2>. QED  BY <2>1, <2>2, <2>3 DEF KeepsAsked
<1>5. CASE PalDone(t)
  <2>1. /\ pc[t] \in {"startDone", "pauseDone", "resumeDone"} /\ x.handle = "valid"
        /\ pc'[t] = "idle"
    BY <1>1, <1>2, <1>5 DEF PalDone
  <2>2. /\ y.currentState = x.currentState /\ y.session = x.session /\ y.isPaused = x.isPaused
        /\ y.sessionPaused = x.sessionPaused /\ y.handle = x.handle
        /\ y.want = IF status[t] = "ok" THEN Wanted(pc[t]) ELSE x.want
    BY <1>1, <1>5 DEF PalDone, StreamType
  <2>3. Believed(y, pc'[t], status'[t]) = Believed(x, pc[t], status[t])
    BY <2>1, <2>2 DEF Believed, Joining, Wanted
  <2>4. ASSUME NEW b, Fits(x, b)
        PROVE  Fits(y, b)
    BY <2>2, <2>4 DEF Fits, IsRunning
  <2>. QED  BY <2>1, <2>2, <2>3, <2>4 DEF KeepsAsked
<1>6. CASE PalClosed(t)
  <2>1. y = NewStream(s, "none") /\ pc'[t] = "idle"
    BY <1>1, <1>2, <1>6 DEF PalClosed
  <2>. QED  BY <2>1 DEF KeepsAsked, NewStream
<1>7. CASE PalOpen(t)
  <2>1. y = NewStream(s, "opening") /\ pc'[t] = "open"
    BY <1>1, <1>2, <1>7 DEF PalOpen
  <2>. QED  BY <2>1 DEF KeepsAsked, NewStream
<1>8. ASSUME NEW op \in Ops, PalCall(t, op)
      PROVE  KeepsAsked(y, pc'[t], status'[t])
  <2>1. /\ pc[t] = "idle" /\ x.handle = "valid" /\ op \in {"start", "pause", "resume", "close"}
        /\ pc'[t] \in {"start", "pause", "resume", "palClose"}
        /\ op # "close" => strm' = strm
    BY <1>1, <1>2, <1>8 DEF PalCall, MayCall
  <2>2. CASE op = "close"
    <3>1. y.handle = "closing"
      BY <1>1, <1>8, <2>2 DEF PalCall, StreamType
    <3>. QED  BY <2>1, <3>1 DEF KeepsAsked
  <2>3. CASE op # "close"
    <3>1. Believed(y, pc'[t], status'[t]) = Believed(x, pc[t], status[t])
      BY <2>1, <2>3 DEF Believed, Joining
    <3>. QED  BY <2>1, <2>3, <3>1 DEF KeepsAsked
  <2>. QED  BY <2>2, <2>3
<1>. QED  BY <1>3, <1>4, <1>5, <1>6, <1>7, <1>8

\* A write only makes a paused stream's state STARTED again.
LEMMA WriterKeepsAsked ==
  ASSUME Typed, Steady, Places, NoLoss, NEW t \in WriterThreads, WriterStep(t) \/ PalWrite(t),
         \A u \in Controls : KeepsAsked(strm[Str(u)], pc[u], status[u])
  PROVE  \A u \in Controls : KeepsAsked(strm[Str(u)], pc[u], status[u])'
<1>. SUFFICES ASSUME NEW u \in Controls
              PROVE  KeepsAsked(strm'[Str(u)], pc'[u], status'[u])
  BY Names DEF Str, KeepsAsked, Fits, Believed, IsRunning
<1>. DEFINE x == strm[Str(u)]
            y == strm'[Str(u)]
<1>1. /\ x \in StreamType /\ strm \in [Streams -> StreamType] /\ Str(u) \in Streams
      /\ pc'[u] = pc[u] /\ status'[u] = status[u] /\ Str(t) \in Streams
  BY Names, WriterTyped DEF Typed, Stay
<1>2. y = x \/ (y = [x EXCEPT !.currentState = "STARTED"] /\ IsRunning(x))
  BY <1>1, WriterPlaces
<1>3. /\ y.handle = x.handle /\ y.want = x.want /\ y.session = x.session
      /\ y.isPaused = x.isPaused /\ y.sessionPaused = x.sessionPaused
      /\ y.currentState = x.currentState \/ (IsRunning(x) /\ IsRunning(y))
  BY <1>1, <1>2 DEF StreamType, IsRunning
<1>4. Believed(y, pc'[u], status'[u]) = Believed(x, pc[u], status[u])
  BY <1>1, <1>3 DEF Believed
<1>5. ASSUME NEW b, Fits(x, b)
      PROVE  Fits(y, b)
  BY <1>3, <1>5 DEF Fits, IsRunning
<1>6. KeepsAsked(x, pc[u], status[u])
  OBVIOUS
<1>. QED  BY <1>1, <1>3, <1>4, <1>5, <1>6 DEF KeepsAsked

\* Every step keeps the streams as asked when no card is lost.
LEMMA StepKeepsAsked ==
  ASSUME Typed, Steady, Places, NoLoss, MaxDown = 0, "stop" \notin Ops, "sessionOpen" \notin Faults,
         \A t \in Controls : KeepsAsked(strm[Str(t)], pc[t], status[t]), [Next]_vars
  PROVE  \A t \in Controls : KeepsAsked(strm[Str(t)], pc[t], status[t])'
<1>1. pc[Ssr] = "idle" /\ msgQ = <<>> /\ card = "online" /\ downs \in Nat
  BY DEF Places, SsrPlace, NoLoss, Typed
<1>2. ~Operation(Ssr) /\ ~SsrOwn
  BY <1>1 DEF Operation, Open, StartEnter, StartRun, StartReset, StartLock, StartRegister,
    StopEnter, StopLock, StopRun, CloseEnter, CloseRun, Pause, Resume, SsrOwn, SsrTake, SsrNext,
    SsrDone, SsrDown, SsrDownStopped, SsrDownEnd, SsrUp, SsrUpOpened, SsrUpStarted, SsrUpEnd
<1>3. ~CardGoesDown /\ ~CardComesUp
  BY <1>1 DEF CardGoesDown, CardComesUp, CardUp
<1>4. CASE UNCHANGED vars
  <2>1. \A t \in Controls : Str(t)' = Str(t)
    BY Names DEF Str
  <2>. QED  BY <1>4, <2>1 DEF vars, KeepsAsked, Fits, Believed, IsRunning
<1>5. ASSUME NEW t \in Controls, Operation(t)
      PROVE  \A u \in Controls : KeepsAsked(strm[Str(u)], pc[u], status[u])'
  <2>1. Stay(t) /\ Frame(Str(t))
    BY <1>5, OperationTyped
  <2>. QED  BY <1>5, <2>1, OperationKeepsAsked, KeepsFrom
<1>6. ASSUME NEW t \in Controls,
             \/ PalOpened(t) \/ PalStop(t) \/ PalClose(t) \/ PalDone(t) \/ PalClosed(t)
             \/ PalOpen(t) \/ \E op \in Ops : PalCall(t, op)
      PROVE  \A u \in Controls : KeepsAsked(strm[Str(u)], pc[u], status[u])'
  <2>1. Stay(t) /\ Frame(Str(t))
    BY <1>6, CallerTyped
  <2>. QED  BY <1>6, <2>1, CallerKeepsAsked, KeepsFrom
<1>. QED  BY <1>2, <1>3, <1>4, <1>5, <1>6, StepKinds, WriterKeepsAsked

-----------------------------------------------------------------------------
(* With one loss: the steps of a client.                                    *)

\* What a step of a client leaves of the card and of recovery.
LEMMA ClientLeaves ==
  ASSUME NEW t \in Controls, Stay(t), ssr' = ssr, UNCHANGED <<downs, cardState, msgQ>>, NEW s
  PROVE  /\ Online' = Online /\ Back' = Back /\ CardDown' = CardDown
         /\ AtWork(s)' = AtWork(s) /\ Waits(s)' = Waits(s)
         /\ pc'[Ssr] = pc[Ssr] /\ ret'[Ssr] = ret[Ssr] /\ status'[Ssr] = status[Ssr]
<1>1. /\ pc'[Ssr] = pc[Ssr] /\ ret'[Ssr] = ret[Ssr] /\ status'[Ssr] = status[Ssr]
  BY Names DEF Stay
<1>. QED  BY <1>1 DEF Online, Back, CardDown, AtWork, Waits

\* What recovery looks at of a stream.
Alike(x, y) ==
  /\ y.handle = x.handle /\ y.currentState = x.currentState /\ y.cachedState = x.cachedState
  /\ y.session = x.session /\ y.isPaused = x.isPaused /\ y.sessionPaused = x.sessionPaused
  /\ y.skipSSRHandling = x.skipSSRHandling

\* A step that changes neither that nor what the client believes.
LEMMA AlikeRecovers ==
  ASSUME NEW t \in Controls, Stay(t), ssr' = ssr, UNCHANGED <<downs, cardState, msgQ>>,
         NEW s \in Streams, Recovers(s, strm[s], pc[t], status[t]), Alike(strm[s], strm'[s]),
         Believed(strm'[s], pc'[t], status'[t]) = Believed(strm[s], pc[t], status[t]),
         strm[s].handle = "opening" =>
           (pc'[t] = "opened" /\ status'[t] = "ok" <=> pc[t] = "opened" /\ status[t] = "ok"),
         pc'[t] \in Bound => pc[t] \in Bound \/ ~CardDown
  PROVE  Recovers(s, strm[s], pc[t], status[t])'
<1>. DEFINE due == Due(strm[s], pc[t], status[t])
<1>1. /\ Online' = Online /\ Back' = Back /\ CardDown' = CardDown
      /\ AtWork(s)' = AtWork(s) /\ Waits(s)' = Waits(s)
      /\ pc'[Ssr] = pc[Ssr] /\ ret'[Ssr] = ret[Ssr] /\ status'[Ssr] = status[Ssr]
  BY ClientLeaves
<1>2. due' = due
  BY DEF Due
<1>3. Whole(strm[s])' /\ Ready(strm[s], due)' = Ready(strm[s], due)
      /\ ToOpen(strm[s], due)' = ToOpen(strm[s], due)
      /\ ToStart(strm[s], due)' = ToStart(strm[s], due)
  BY <1>2 DEF Recovers, Whole, Alike, Ready, ToOpen, ToStart
<1>4. CardDown /\ DownOf(s, strm[s], pc[t], due) => DownOf(s, strm[s], pc[t], due)'
  BY <1>1, <1>2 DEF DownOf, Alike
<1>5. UpOf(s, strm[s], due) => UpOf(s, strm[s], due)'
  BY <1>1, <1>2, <1>3 DEF UpOf, Raised, Alike
<1>. QED  BY <1>1, <1>2, <1>3, <1>4, <1>5 DEF Recovers, Alike

\* All that holds in a scenario with one loss.
Recovery == Typed /\ Locks /\ Steady /\ Places /\ Known /\ Recoverable /\ Restores

\* Of the calls below a stream only the stop of a device fails, and clients only start.
LEMMA Setting ==
  ASSUME Typed, Steady, Places, Recoverable
  PROVE  /\ MaxDown # 0 /\ MaxDown = 1 /\ ~Writes /\ Ops \subseteq {"start"}
         /\ \A f : May(f) => f = "deviceStop"
         /\ \A s \in Streams : /\ strm[s] \in StreamType /\ strm[s].handle # "closing"
                               /\ strm[s].currentState # "PAUSED"
                               /\ strm[s].cachedState # "PAUSED"
                               /\ s \notin StandbyStreams /\ Routed[s] # {}
<1>1. MaxDown = 1 /\ MaxDown # 0
  BY DEF Recoverable
<1>2. ~Writes /\ Ops \subseteq {"start"}
  BY <1>1 DEF Steady
<1>3. \A f : May(f) => f = "deviceStop"
  BY DEF Recoverable, May
<1>. QED  BY <1>1, <1>2, <1>3 DEF Places, Recoverable, Typed

\* Where a client can be: it opens its stream, or starts it.
LEMMA ClientPlace ==
  ASSUME Recovery, NEW t \in Controls, NEW s \in Streams, Str(t) = s
  PROVE  /\ t \in Threads /\ t # Ssr /\ strm[s] \in StreamType /\ Positions
         /\ strm \in [Streams -> StreamType] /\ s \in Streams
         /\ Recovers(s, strm[s], pc[t], status[t])
         /\ CtlPlace(strm[s], pc[t], ret[t], status[t])
         /\ strm[s].handle # "closing"
         /\ pc[t] \in Starting \cup {"idle", "open", "opened", "close", "closed", "startDone"}
         /\ pc[t] # "startReset"
         /\ pc[t] = "idle" => strm[s].handle \in {"none", "valid"}
         /\ pc[t] \in Starting \cup {"startDone"} => strm[s].handle = "valid"
                                                     /\ strm[s].want = "open"
         /\ pc[t] \in {"open", "opened", "close", "closed"} => strm[s].handle = "opening"
         /\ pc[t] \in {"open", "close", "closed"} => strm[s].currentState = "IDLE"
<1>. DEFINE x == strm[s]
            p == pc[t]
            r == ret[t]
<1>1. /\ t \in Threads /\ t # Ssr /\ x \in StreamType /\ Positions
      /\ strm \in [Streams -> StreamType] /\ Recovers(s, x, p, status[t])
      /\ CtlPlace(x, p, r, status[t]) /\ CtlAt(p, r) /\ MaxDown # 0
      /\ Ops \subseteq {"start"} /\ x.handle # "closing"
  BY Names, Setting DEF Recovery, Typed, Places, Restores, Positions
<1>2. p # "startReset"
  BY <1>1, Setting DEF Recovery, Known, Unreported
<1>3. p \notin {"pause", "resume", "palStop", "stopDone", "pauseDone", "resumeDone"}
      /\ r # <<"stopDone">> /\ x.want # "stopped"
  BY <1>1 DEF CtlPlace
<1>4. x.handle \in {"none", "opening", "valid"}
  BY <1>1 DEF StreamType
<1>5. p \notin Stopping \cup {"closeRun", "palClose"}
  BY <1>1, <1>3, <1>4 DEF CtlPlace, CtlAt, Stopping, Starting
<1>6. /\ p = "open" => x.handle = "opening" /\ x.currentState = "IDLE"
      /\ p = "opened" => x.handle = "opening"
      /\ p \in {"startDone"} \cup Starting => x.handle = "valid"
  BY <1>1, CallOf
<1>7. p \in {"close", "closed"} => x.handle = "opening" /\ x.currentState = "IDLE"
  BY <1>1, <1>3, <1>4 DEF CtlPlace, Starting
<1>8. p \in Starting \cup {"startDone"} => x.want = "open"
  BY <1>1, <1>3 DEF CtlPlace
<1>9. p = "idle" => x.handle \in {"none", "valid"}
  BY <1>1, <1>4 DEF CtlPlace
<1>10. p \in Starting \cup {"idle", "open", "opened", "close", "closed", "startDone"}
  BY <1>1, <1>3, <1>5 DEF CtlAt
<1>. QED  BY <1>1, <1>2, <1>6, <1>7, <1>8, <1>9, <1>10

\* A step of a client that keeps its own stream as recovery needs it.
LEMMA ClientRestores ==
  ASSUME Recovery, NEW t \in Controls, NEW s \in Streams, Str(t) = s, Stay(t), Frame(s),
         UNCHANGED cardVars, ssr' = ssr, strm'[s].mDevices # {},
         strm[s].handle = "valid" => strm'[s].handle = "valid",
         Recovers(s, strm[s], pc[t], status[t])'
  PROVE  Restores'
<1>1. /\ pc'[Ssr] = pc[Ssr] /\ ret'[Ssr] = ret[Ssr] /\ status'[Ssr] = status[Ssr]
      /\ \A u \in Controls : Str(u)' = Str(u) /\ Str(u) \in Streams /\ u \in Threads
  BY Names DEF Stay, Str
<1>2. Online' = Online /\ Back' = Back /\ CardDown' = CardDown
  BY DEF cardVars, Online, Back, CardDown
<1>3. OneLoss'
  BY <1>2 DEF Recovery, Restores, OneLoss, cardVars
<1>4. \A u \in Streams : (strm[u].handle = "valid" => strm'[u].handle = "valid")
                         /\ strm'[u].mDevices # {}
  BY DEF Frame, Recovery, Restores
<1>5. Walks'
  BY <1>1, <1>2, <1>4 DEF Recovery, Restores, Walks, Typed
<1>6. ASSUME NEW u \in Controls
      PROVE  Recovers(Str(u), strm[Str(u)], pc[u], status[u])'
  <2>1. CASE u = t
    BY <1>1, <2>1
  <2>2. CASE u # t
    <3>1. Str(u) # s
      BY <2>2, OneControl DEF Recovery
    <3>2. strm'[Str(u)] = strm[Str(u)] /\ pc'[u] = pc[u] /\ status'[u] = status[u]
      BY <1>1, <2>2, <3>1 DEF Frame, Stay
    <3>3. PICK v \in Streams : v = Str(u)
      BY <1>1
    <3>4. Recovers(v, strm[v], pc[u], status[u])
      BY <3>3 DEF Recovery, Restores
    <3>5. strm'[v] = strm[v] /\ v = Str(u)'
      BY <1>1, <3>2, <3>3
    <3>6. Alike(strm[v], strm'[v])
          /\ Believed(strm'[v], pc'[u], status'[u]) = Believed(strm[v], pc[u], status[u])
      BY <3>2, <3>5 DEF Alike
    <3>7. AtWork(v)' = AtWork(v) /\ Waits(v)' = Waits(v)
      BY <1>1 DEF AtWork, Waits
    <3>8. Recovers(v, strm[v], pc[u], status[u])'
      BY <1>1, <1>2, <3>2, <3>4, <3>5, <3>6, <3>7
         DEF Recovers, Whole, Due, DownOf, UpOf, Raised, Ready, ToOpen, ToStart, Believed, cardVars
    <3>. QED  BY <3>5, <3>8
  <2>. QED  BY <2>1, <2>2
<1>. QED  BY <1>3, <1>4, <1>5, <1>6 DEF Restores

\* What a start of the session can come to when no device fails to start.
LEMMA StartSound ==
  ASSUME Typed, NEW t, NEW s \in Streams, Str(t) = s, StartRun(t), strm[s].mDevices # {},
         \A f : May(f) => f = "deviceStop"
  PROVE  \/ /\ Return(t, "err") /\ strm'[s] = strm[s]
            /\ ~CardUp \/ strm[s].session \in {"closed", "lost"}
         \/ /\ Goto(t, "startLock") /\ CardUp /\ strm[s].session \notin {"closed", "lost"}
            /\ strm'[s] = [strm[s] EXCEPT !.currentState = "STARTED", !.session = "started"]
<1>. DEFINE x == strm[s]
<1>1. x \in StreamType /\ strm \in [Streams -> StreamType] /\ [x EXCEPT !.mDevices = x.mDevices] = x
  BY DEF Typed, StreamType
<1>2. ~May("deviceStart") /\ ~May("sessionStart") /\ ~May("netReset")
  OBVIOUS
<1>3. ASSUME NEW dv, SessionRun(t, s, x.mDevices, dv)
      PROVE  \/ /\ Return(t, "err") /\ strm'[s] = x
                /\ ~CardUp \/ x.session \in {"closed", "lost"}
             \/ /\ Goto(t, "startLock") /\ CardUp /\ x.session \notin {"closed", "lost"}
                /\ strm'[s] = [x EXCEPT !.currentState = "STARTED", !.session = "started"]
  <2>1. CASE /\ ~CardUp \/ x.session \in {"closed", "lost"}
             /\ strm' = [strm EXCEPT ![s].mDevices = x.mDevices] /\ Return(t, "err")
    BY <1>1, <2>1
  <2>2. CASE /\ CardUp /\ x.session \notin {"closed", "lost"} /\ Goto(t, "startLock")
             /\ strm' = [strm EXCEPT ![s].mDevices = x.mDevices, ![s].currentState = "STARTED",
                                     ![s].session = "started"]
    BY <1>1, <2>2
  <2>. QED  BY <1>2, <1>3, <2>1, <2>2 DEF SessionRun
<1>4. CASE StartOutput(t, s)
  <2>1. PICK F \in SUBSET x.mDevices :
          LET ok == x.mDevices \ F
              started == Closed(Started(dev, ok), F) IN
          /\ F # {} => May("deviceStart")
          /\ ok # {} => SessionRun(t, s, ok, started)
    BY <1>4 DEF StartOutput
  <2>2. x.mDevices \ F = x.mDevices
    BY <1>2, <2>1
  <2>. QED  BY <1>3, <2>1, <2>2
<1>5. CASE StartInput(t, s)
  BY <1>2, <1>3, <1>5 DEF StartInput
<1>6. CASE StartLoopback(t, s)
  BY <1>2, <1>3, <1>6 DEF StartLoopback
<1>. QED  BY <1>4, <1>5, <1>6, ScenarioIs DEF StartRun, Typed

\* A stream its client does not have yet.
LEMMA NotYet ==
  ASSUME NEW s, NEW x, NEW p, NEW st, x.handle \in {"none", "opening"}
  PROVE  Recovers(s, x, p, st) <=>
           /\ Whole(x) /\ x.cachedState = "IDLE"
           /\ x.handle = "opening" =>
                x.currentState = IF p = "opened" /\ st = "ok" THEN "INIT" ELSE "IDLE"
BY DEF Recovers

\* What each phase of the loss makes of it.
LEMMA Phase ==
  ASSUME Recovery
  PROVE  /\ Online <=> ~CardDown
         /\ downs = 0 => Online /\ ~Back
         /\ Back => CardUp
         /\ downs \in {0, 1}
         /\ ~CardUp \/ downs = 0 => ~Back
<1>1. /\ OneLoss /\ cardState \in {"offline", "standby", "online"}
      /\ \A k \in Statuses : <<k>> # <<>> /\ <<k, "online">> # <<>>
  BY DEF Recovery, Restores, Typed, Statuses
<1>2. Online <=> ~CardDown
  BY <1>1 DEF Online, CardDown
<1>. QED  BY <1>1, <1>2 DEF OneLoss, Back, CardUp

\* Opening a stream, and giving up when that failed.
LEMMA OpeningRestores ==
  ASSUME Recovery, NEW t \in Controls, NEW s \in Streams, Str(t) = s,
         Open(t) \/ CloseEnter(t)
  PROVE  Restores'
<1>. DEFINE x == strm[s]
            y == strm'[s]
<1>1. /\ x \in StreamType /\ strm \in [Streams -> StreamType] /\ x.handle = "opening"
      /\ x.currentState = "IDLE" /\ Recovers(s, x, pc[t], status[t])
      /\ pc[t] \in {"open", "close"} /\ t \in Threads /\ Positions
  BY ClientPlace DEF Open, CloseEnter
<1>2. Stay(t) /\ Frame(s) /\ ssr' = ssr
  BY OperationTyped DEF Operation, Recovery
<1>3. UNCHANGED cardVars
  BY DEF Open, CloseEnter
<1>4. \A f : May(f) => f = "deviceStop"
  BY Setting DEF Recovery
<1>5. \/ y = x /\ ~(pc'[t] = "opened" /\ status'[t] = "ok")
      \/ /\ y = [x EXCEPT !.currentState = "INIT", !.session = "opened"]
         /\ pc'[t] = "opened" /\ status'[t] = "ok"
  <2>1. CASE Open(t)
    <3>1. pc[t] = "open" /\ pc[t] \in Calls
      BY <2>1 DEF Open, Calls
    <3>2. CASE Return(t, "err") /\ strm' = strm
      BY <1>1, <3>1, <3>2, CtlBack
    <3>3. CASE /\ Return(t, "ok")
               /\ strm' = [strm EXCEPT ![s].currentState = "INIT", ![s].session = "opened"]
      BY <1>1, <3>1, <3>3, CtlBack DEF At
    <3>. QED  BY <1>1, <1>4, <2>1, <3>2, <3>3 DEF Open, OpenIdle
  <2>2. CASE CloseEnter(t)
    <3>1. pc[t] = "close" /\ pc[t] \in Calls
      BY <2>2 DEF CloseEnter, Calls
    <3>2. Return(t, "ok") /\ strm' = strm
      BY <1>1, <2>2 DEF CloseEnter
    <3>. QED  BY <1>1, <3>1, <3>2, CtlBack DEF At
  <2>. QED  BY <2>1, <2>2
<1>6. Whole(x) /\ x.cachedState = "IDLE" /\ x.currentState = "IDLE" /\ x.handle = "opening"
  BY <1>1, NotYet
<1>7. /\ Whole(y) /\ y.cachedState = "IDLE" /\ y.handle = "opening" /\ y.mDevices = x.mDevices
      /\ y.currentState = IF pc'[t] = "opened" /\ status'[t] = "ok" THEN "INIT" ELSE "IDLE"
  BY <1>1, <1>5, <1>6 DEF Whole, StreamType
<1>8. Recovers(s, strm[s], pc[t], status[t])'
  <2>1. Whole(strm[s])'
    BY <1>7 DEF Whole
  <2>. QED  BY <1>7, <2>1 DEF Recovers
<1>9. y.mDevices # {}
  BY <1>7 DEF Recovery, Restores
<1>. QED  BY <1>1, <1>2, <1>3, <1>7, <1>8, <1>9, ClientRestores

\* Steps of a start that change nothing recovery looks at.
LEMMA StartingRestores ==
  ASSUME Recovery, NEW t \in Controls, NEW s \in Streams, Str(t) = s, Stay(t), Frame(s),
         UNCHANGED cardVars, ssr' = ssr, strm'[s] = strm[s], strm[s].handle = "valid",
         Believed(strm[s], pc'[t], status'[t]) = Believed(strm[s], pc[t], status[t]),
         pc'[t] \in Bound => pc[t] \in Bound \/ ~CardDown
  PROVE  Restores'
<1>1. Recovers(s, strm[s], pc[t], status[t])
  BY ClientPlace
<1>2. Recovers(s, strm[s], pc[t], status[t])'
  BY <1>1, AlikeRecovers DEF Alike, cardVars
<1>3. strm'[s].mDevices # {}
  BY DEF Recovery, Restores
<1>. QED  BY <1>2, <1>3, ClientRestores

\* A start that finds the card lost is left to recovery.
LEMMA CachedRestores ==
  ASSUME Recovery, NEW t \in Controls, NEW s \in Streams, Str(t) = s, StartEnter(t), CardDown
  PROVE  Restores'
<1>. DEFINE x == strm[s]
            y == strm'[s]
<1>1. /\ x \in StreamType /\ strm \in [Streams -> StreamType] /\ x.handle = "valid"
      /\ x.want = "open" /\ Recovers(s, x, pc[t], status[t])
      /\ pc[t] = "start" /\ t \in Threads /\ Positions
  BY ClientPlace DEF StartEnter, Starting
<1>2. Stay(t) /\ Frame(s) /\ ssr' = ssr
  BY OperationTyped DEF Operation, Recovery
<1>3. UNCHANGED cardVars
  BY DEF StartEnter
<1>4. y = [x EXCEPT !.cachedState = "STARTED"] /\ Return(t, "ok") /\ pc[t] \in Calls
  BY <1>1 DEF StartEnter, Calls, Starting
<1>5. pc'[t] = "startDone" /\ status'[t] = "ok"
  BY <1>1, <1>4, CtlBack DEF At, Starting
<1>6. /\ y.handle = "valid" /\ y.mDevices = x.mDevices /\ y.cachedState = "STARTED"
      /\ y.currentState = x.currentState /\ Whole(y)
  BY <1>1, <1>4 DEF StreamType, Recovers, Whole
<1>7. Due(x, pc[t], status[t]) = "INIT" /\ DownOf(s, x, pc[t], "INIT")
      /\ Believed(y, pc'[t], status'[t]) = "started" /\ Due(y, pc'[t], status'[t]) = "STARTED"
  BY <1>1, <1>5 DEF Due, Believed, Joining, Recovers
<1>8. pc'[Ssr] = pc[Ssr] /\ AtWork(s)' = AtWork(s) /\ Waits(s)' = Waits(s)
      /\ Online' = Online /\ Back' = Back /\ CardDown'
  BY <1>2, <1>3, ClientLeaves DEF cardVars
<1>9. DownOf(s, strm[s], pc[t], "STARTED")'
  BY <1>2, <1>5, <1>6, <1>7, <1>8 DEF DownOf, Bound
<1>10. ~Online /\ ~Back /\ downs' # 0
  BY <1>3, Phase DEF Back, cardVars
<1>11. Recovers(s, strm[s], pc[t], status[t])'
  BY <1>6, <1>7, <1>8, <1>9, <1>10 DEF Recovers, Whole, DownOf
<1>12. y.mDevices # {}
  BY <1>6 DEF Recovery, Restores
<1>. QED  BY <1>2, <1>3, <1>6, <1>11, <1>12, ClientRestores

\* A start that succeeds: the stream is started for recovery, too.
LEMMA StartedRestores ==
  ASSUME Recovery, NEW t \in Controls, NEW s \in Streams, Str(t) = s, StartRun(t)
  PROVE  Restores'
<1>. DEFINE x == strm[s]
            y == strm'[s]
<1>1. /\ x \in StreamType /\ strm \in [Streams -> StreamType] /\ x.handle = "valid"
      /\ x.want = "open" /\ Recovers(s, x, pc[t], status[t])
      /\ pc[t] = "startRun" /\ t \in Threads /\ Positions
      /\ x.currentState \in {"INIT", "STOPPED"}
  BY ClientPlace DEF StartRun, Starting, CtlPlace, Bound
<1>2. Stay(t) /\ Frame(s) /\ ssr' = ssr
  BY OperationTyped DEF Operation, Recovery
<1>3. UNCHANGED cardVars
  BY DEF StartRun
<1>4. x.mDevices # {} /\ \A f : May(f) => f = "deviceStop"
  BY Setting DEF Recovery, Restores
<1>5. CASE Return(t, "err") /\ y = x
  <2>1. pc'[t] = "startDone" /\ status'[t] = "err"
    BY <1>1, <1>5, CtlBack DEF At, Starting, Calls
  <2>2. Believed(x, pc'[t], status'[t]) = Believed(x, pc[t], status[t])
    BY <1>1, <2>1 DEF Believed, Joining
  <2>. QED  BY <1>1, <1>2, <1>3, <1>5, <2>1, <2>2, StartingRestores DEF Bound
<1>6. CASE /\ Goto(t, "startLock")
           /\ y = [x EXCEPT !.currentState = "STARTED", !.session = "started"]
  <2>1. pc'[t] = "startLock"
    BY <1>1, <1>6 DEF Goto, Positions, Control
  <2>2. /\ y.handle = "valid" /\ y.mDevices = x.mDevices /\ y.cachedState = x.cachedState
        /\ y.currentState = "STARTED" /\ y.session = "started" /\ Whole(y)
    BY <1>1, <1>6 DEF StreamType, Recovers, Whole
  <2>3. Due(x, pc[t], status[t]) = "INIT" /\ Believed(y, pc'[t], status'[t]) = "started"
        /\ Due(y, pc'[t], status'[t]) = "STARTED"
    BY <1>1, <2>1 DEF Due, Believed, Joining
  <2>4. Ready(y, "STARTED")
    BY <2>2 DEF Ready
  <2>5. pc'[Ssr] = pc[Ssr] /\ ret'[Ssr] = ret[Ssr] /\ status'[Ssr] = status[Ssr]
        /\ AtWork(s)' = AtWork(s) /\ Waits(s)' = Waits(s)
        /\ Online' = Online /\ Back' = Back /\ CardDown' = CardDown
    BY <1>2, <1>3, ClientLeaves DEF cardVars
  <2>6. AtWork(s) => pc[Ssr] \notin Leaving
    <3>1. AtWork(s) => ssr.stream = Str(t) /\ pc[Ssr] \notin {"idle", "walk"}
      BY DEF AtWork
    <3>. QED  BY <1>1, <3>1, Meeting DEF Recovery, Bound
  <2>7. CardDown => DownOf(s, strm[s], pc[t], "STARTED")'
    <3>1. CardDown => DownOf(s, x, pc[t], "INIT")
      BY <1>1, <2>3 DEF Recovers
    <3>. QED  BY <1>1, <1>2, <2>1, <2>2, <2>5, <2>6, <3>1 DEF DownOf, Bound
  <2>8. Back => UpOf(s, strm[s], "STARTED")'
    <3>1. Back => UpOf(s, x, "INIT")
      BY <1>1, <2>3 DEF Recovers
    <3>2. ~ToOpen(x, "INIT") /\ ~ToStart(x, "INIT")
      BY <1>1 DEF ToOpen, ToStart
    <3>. QED  BY <1>2, <2>2, <2>4, <2>5, <3>1, <3>2 DEF UpOf, Raised, Ready
  <2>9. Recovers(s, strm[s], pc[t], status[t])'
    <3>1. Online /\ ~Back => x.cachedState = "IDLE"
      BY <1>1 DEF Recovers
    <3>. QED  BY <2>2, <2>3, <2>4, <2>5, <2>7, <2>8, <3>1
                DEF Recovers, Whole, DownOf, UpOf, Raised, Ready
  <2>. QED  BY <1>2, <1>3, <1>4, <2>2, <2>9, ClientRestores
<1>. QED  BY <1>4, <1>5, <1>6, StartSound DEF Recovery

\* The operations of a client.
LEMMA ClientOperation ==
  ASSUME Recovery, NEW t \in Controls, Operation(t)
  PROVE  Restores'
<1>1. PICK s \in Streams : Str(t) = s
  BY Names
<1>. DEFINE x == strm[s]
<1>2. /\ x \in StreamType /\ t \in Threads /\ Positions /\ Recovers(s, x, pc[t], status[t])
      /\ pc[t] \in Starting \cup {"idle", "open", "opened", "close", "closed", "startDone"}
      /\ pc[t] # "startReset"
      /\ pc[t] \in Starting => x.handle = "valid" /\ x.want = "open"
  BY <1>1, ClientPlace
<1>3. Stay(t) /\ Frame(s) /\ ssr' = ssr
  BY <1>1, OperationTyped DEF Recovery
<1>4. CASE StartEnter(t) /\ ~CardDown
  <2>1. /\ pc[t] = "start" /\ strm' = strm /\ UNCHANGED cardVars /\ x.handle = "valid"
        /\ x.want = "open" /\ pc[t] \in Calls
    BY <1>2, <1>4 DEF StartEnter, Starting, Calls
  <2>2. x.currentState # "STARTED"
    <3>1. Due(x, pc[t], status[t]) = "INIT"
      BY <2>1 DEF Due, Believed, Joining
    <3>2. Online
      BY <1>4, Phase
    <3>3. Back => UpOf(s, x, "INIT")
      BY <1>2, <2>1, <3>1 DEF Recovers
    <3>4. UpOf(s, x, "INIT") => x.currentState # "STARTED"
      BY DEF UpOf, Raised, Ready, ToOpen, ToStart, Waits
    <3>. QED  BY <1>2, <2>1, <3>1, <3>2, <3>3, <3>4 DEF Recovers
  <2>3. Goto(t, "startRun") \/ Return(t, "err")
    BY <1>1, <1>4, <2>2 DEF StartEnter
  <2>4. pc'[t] = "startRun" \/ (pc'[t] = "startDone" /\ status'[t] = "err")
    BY <1>2, <2>1, <2>3, CtlBack DEF At, Goto, Positions, Control, Starting
  <2>5. Believed(x, pc'[t], status'[t]) = Believed(x, pc[t], status[t])
    BY <2>1, <2>4 DEF Believed, Joining
  <2>. QED  BY <1>1, <1>3, <1>4, <2>1, <2>5, StartingRestores
<1>5. CASE StartLock(t) \/ StartRegister(t)
  <2>1. /\ pc[t] \in Joining /\ strm' = strm /\ UNCHANGED cardVars /\ x.handle = "valid"
        /\ pc[t] \in Calls /\ pc[t] \in Starting
    BY <1>2, <1>5 DEF StartLock, StartRegister, Joining, Starting, Calls
  <2>2. pc'[t] = "startRegister" \/ (pc'[t] = "startDone" /\ status'[t] = "ok")
    BY <1>2, <1>5, <2>1, CtlBack DEF At, StartLock, StartRegister, Goto, Positions, Control
  <2>3. Believed(x, pc'[t], status'[t]) = Believed(x, pc[t], status[t]) /\ pc'[t] \notin Bound
    BY <2>1, <2>2 DEF Believed, Joining, Bound
  <2>. QED  BY <1>1, <1>3, <2>1, <2>3, StartingRestores
<1>6. ~StartReset(t) /\ ~StopEnter(t) /\ ~StopLock(t) /\ ~StopRun(t) /\ ~CloseRun(t)
      /\ ~Pause(t) /\ ~Resume(t)
  BY <1>2 DEF StartReset, StopEnter, StopLock, StopRun, CloseRun, Pause, Resume, Starting
<1>. QED  BY <1>1, <1>4, <1>5, <1>6, OpeningRestores, CachedRestores, StartedRestores DEF Operation

\* The rest of what a client does.
LEMMA ClientCaller ==
  ASSUME Recovery, NEW t \in Controls,
         \/ PalOpened(t) \/ PalStop(t) \/ PalClose(t) \/ PalDone(t) \/ PalClosed(t)
         \/ PalOpen(t) \/ \E op \in Ops : PalCall(t, op)
  PROVE  Restores'
<1>1. PICK s \in Streams : Str(t) = s
  BY Names
<1>. DEFINE x == strm[s]
            y == strm'[s]
<1>2. /\ x \in StreamType /\ t \in Threads /\ Control /\ Recovers(s, x, pc[t], status[t])
      /\ strm \in [Streams -> StreamType]
      /\ pc[t] \in Starting \cup {"idle", "open", "opened", "close", "closed", "startDone"}
      /\ pc[t] = "startDone" => x.handle = "valid" /\ x.want = "open"
      /\ pc[t] \in {"opened", "closed"} => x.handle = "opening"
      /\ x.mDevices # {} /\ Routed[s] # {} /\ Ops \subseteq {"start"}
  BY <1>1, ClientPlace, Setting DEF Recovery, Restores, Positions
<1>3. Stay(t) /\ Frame(s) /\ UNCHANGED cardVars
  BY <1>1, CallerTyped DEF Recovery
<1>4. ASSUME NEW l, Goto(t, l) \/ \E b : Call(t, l, b)
      PROVE  pc'[t] = l /\ status'[t] = status[t]
  BY <1>2, <1>4 DEF Goto, Call, Control
<1>5. ASSUME ssr' = ssr, y.handle \in {"none", "opening"}, x.handle # "valid", y.mDevices # {},
             Whole(y), y.cachedState = "IDLE", y.currentState = "IDLE", pc'[t] # "opened"
      PROVE  Restores'
  <2>1. Recovers(s, strm[s], pc[t], status[t])'
    BY <1>5 DEF Recovers, Whole
  <2>. QED  BY <1>1, <1>3, <1>5, <2>1, ClientRestores
<1>6. ASSUME NEW h \in {"none", "opening"}, y = NewStream(s, h)
      PROVE  y.handle = h /\ y.mDevices # {} /\ Whole(y) /\ y.cachedState = "IDLE"
             /\ y.currentState = "IDLE"
  BY <1>2, <1>6 DEF NewStream, Whole
<1>7. CASE PalOpened(t)
  <2>1. pc[t] = "opened" /\ x.handle = "opening" /\ ssr' = ssr
    BY <1>2, <1>7 DEF PalOpened
  <2>2. CASE status[t] = "ok"
    <3>1. y = [x EXCEPT !.handle = "valid", !.want = "open"] /\ pc'[t] = "idle"
      BY <1>1, <1>2, <1>4, <1>7, <2>2 DEF PalOpened
    <3>2. /\ y.handle = "valid" /\ y.want = "open" /\ y.mDevices = x.mDevices
          /\ y.cachedState = "IDLE" /\ y.currentState = "INIT" /\ Whole(y)
      BY <1>2, <2>1, <2>2, <3>1 DEF StreamType, Recovers, Whole
    <3>3. Believed(y, pc'[t], status'[t]) = "open" /\ Due(y, pc'[t], status'[t]) = "INIT"
          /\ Ready(y, "INIT")
      BY <3>1, <3>2 DEF Believed, Due, Joining, Ready
    <3>4. ~AtWork(s) /\ s \notin ssr.visited
      <4>1. AtWork(s) => x.handle = "valid"
        BY DEF AtWork, Recovery, Places, SsrPlace
      <4>2. s \in ssr.visited => x.handle = "valid"
        BY DEF Recovery, Restores, Walks
      <4>. QED  BY <2>1, <4>1, <4>2
    <3>5. AtWork(s)' = AtWork(s) /\ Waits(s)' = Waits(s) /\ Online' = Online /\ Back' = Back
          /\ CardDown' = CardDown
      BY <1>3, <2>1, ClientLeaves DEF cardVars
    <3>6. DownOf(s, strm[s], pc[t], "INIT")'
      BY <2>1, <3>1, <3>2, <3>4, <3>5 DEF DownOf, Bound
    <3>7. UpOf(s, strm[s], "INIT")'
      BY <2>1, <3>2, <3>3, <3>4, <3>5 DEF UpOf, Raised, Ready
    <3>8. Recovers(s, strm[s], pc[t], status[t])'
      BY <3>2, <3>3, <3>6, <3>7 DEF Recovers, Whole, DownOf, UpOf, Raised, Ready
    <3>. QED  BY <1>1, <1>2, <1>3, <2>1, <3>2, <3>8, ClientRestores
  <2>3. CASE status[t] # "ok"
    <3>1. y = x /\ pc'[t] = "close"
      BY <1>4, <1>7, <2>3 DEF PalOpened
    <3>2. Whole(x) /\ x.cachedState = "IDLE" /\ x.currentState = "IDLE"
      BY <1>2, <2>1, <2>3 DEF Recovers
    <3>. QED  BY <1>2, <1>5, <2>1, <3>1, <3>2
  <2>. QED  BY <2>2, <2>3
<1>8. ~PalStop(t) /\ ~PalClose(t)
  BY <1>2 DEF PalStop, PalClose, Starting
<1>9. CASE PalDone(t)
  <2>1. pc[t] = "startDone" /\ x.handle = "valid" /\ pc'[t] = "idle" /\ ssr' = ssr
    BY <1>2, <1>4, <1>9 DEF PalDone, Starting
  <2>2. /\ Alike(x, y) /\ y.mDevices = x.mDevices
        /\ y.want = IF status[t] = "ok" THEN "started" ELSE x.want
    BY <1>1, <1>2, <1>9, <2>1 DEF PalDone, Wanted, StreamType, Alike
  <2>3. Believed(y, pc'[t], status'[t]) = Believed(x, pc[t], status[t])
    BY <2>1, <2>2 DEF Believed, Joining
  <2>4. Recovers(s, strm[s], pc[t], status[t])'
    BY <1>2, <1>3, <2>1, <2>2, <2>3, AlikeRecovers DEF cardVars, Bound
  <2>. QED  BY <1>1, <1>2, <1>3, <2>1, <2>2, <2>4, ClientRestores DEF Alike
<1>10. CASE PalClosed(t)
  <2>1. y = NewStream(s, "none") /\ pc'[t] = "idle" /\ ssr' = ssr /\ x.handle # "valid"
    BY <1>1, <1>2, <1>4, <1>10 DEF PalClosed
  <2>. QED  BY <1>5, <1>6, <2>1
<1>11. CASE PalOpen(t)
  <2>1. y = NewStream(s, "opening") /\ pc'[t] = "open" /\ x.handle = "none"
        /\ ssr' = [ssr EXCEPT !.visited = @ \ {s}]
    BY <1>1, <1>2, <1>4, <1>11 DEF PalOpen
  <2>2. ssr.visited \ {s} = ssr.visited
    BY <2>1 DEF Recovery, Restores, Walks
  <2>3. ssr' = ssr
    BY <2>1, <2>2 DEF Recovery, Typed
  <2>. QED  BY <1>5, <1>6, <2>1, <2>3
<1>12. ASSUME NEW op \in Ops, PalCall(t, op)
       PROVE  Restores'
  <2>1. op = "start"
    BY <1>2
  <2>2. pc[t] = "idle" /\ pc'[t] = "start" /\ strm' = strm /\ ssr' = ssr /\ x.handle = "valid"
    BY <1>1, <1>4, <1>12, <2>1 DEF PalCall
  <2>3. Believed(x, pc'[t], status'[t]) = Believed(x, pc[t], status[t])
    BY <2>2 DEF Believed, Joining
  <2>. QED  BY <1>1, <1>3, <2>2, <2>3, StartingRestores DEF Bound
<1>. QED  BY <1>7, <1>8, <1>9, <1>10, <1>11, <1>12

-----------------------------------------------------------------------------
(* With one loss: the steps of the recovery thread.                         *)

\* Every stream has its client's thread.
LEMMA HasControl ==
  ASSUME Steady, NEW s \in Streams
  PROVE  \E t \in Controls : Str(t) = s
<1>1. PICK c : Callers = {c}
  BY DEF Steady
<1>2. <<c, s>> \in Controls
  BY <1>1 DEF Controls
<1>3. Str(<<c, s>>) = <<c, s>>[2]
  BY <1>2, Names
<1>. QED  BY <1>2, <1>3

\* Recovery only walks while the card is away, or back.
LEMMA WalkPhase ==
  ASSUME Recovery, pc[Ssr] # "idle"
  PROVE  CardDown \/ (Back /\ Online /\ CardUp)
BY Phase DEF Recovery, Restores, Walks

\* A stream recovery does not work at.
LEMMA Untouched ==
  ASSUME Recovery, Stay(Ssr), NEW t \in Controls, NEW s \in Streams, Str(t) = s,
         UNCHANGED <<downs, cardState, msgQ>>, strm'[s] = strm[s], ~AtWork(s), AtWork(s)' = FALSE,
         s \in ssr'.visited <=> s \in ssr.visited, pc'[Ssr] # "idle"
  PROVE  Recovers(s, strm[s], pc[t], status[t])'
<1>. DEFINE due == Due(strm[s], pc[t], status[t])
<1>1. /\ Recovers(s, strm[s], pc[t], status[t]) /\ pc'[t] = pc[t] /\ status'[t] = status[t]
      /\ pc[Ssr] # "idle" \/ pc[Ssr] = "idle"
  BY ClientPlace DEF Stay
<1>2. Online' = Online /\ Back' = Back /\ CardDown' = CardDown /\ Waits(s)' = Waits(s)
  BY DEF Online, Back, CardDown, Waits
<1>3. due' = due /\ Whole(strm[s])' = Whole(strm[s])
      /\ Ready(strm[s], due)' = Ready(strm[s], due) /\ ToOpen(strm[s], due)' = ToOpen(strm[s], due)
  BY <1>1 DEF Due, Believed, Whole, Ready, ToOpen
<1>4. DownOf(s, strm[s], pc[t], due) => DownOf(s, strm[s], pc[t], due)'
  BY <1>1, <1>2, <1>3 DEF DownOf
<1>5. UpOf(s, strm[s], due) => UpOf(s, strm[s], due)'
  BY <1>1, <1>2, <1>3 DEF UpOf
<1>6. Believed(strm[s], pc[t], status[t])' = Believed(strm[s], pc[t], status[t])
  BY <1>1 DEF Believed
<1>. QED  BY <1>1, <1>2, <1>3, <1>4, <1>5, <1>6 DEF Recovers

\* The stream it works at, before a step.
LEMMA AtHand ==
  ASSUME Recovery, NEW s \in Streams, ssr.stream = s, pc[Ssr] \notin {"idle", "walk"},
         NEW t \in Controls, Str(t) = s, NEW due, due = Due(strm[s], pc[t], status[t])
  PROVE  /\ strm[s] \in StreamType /\ strm \in [Streams -> StreamType] /\ Positions
         /\ strm[s].handle = "valid" /\ s \notin ssr.visited /\ Whole(strm[s])
         /\ due \in {"INIT", "STARTED"} /\ strm[s].mDevices # {}
         /\ SsrPlace(strm[s], pc[Ssr], ret[Ssr], mStreamMutex[s])
         /\ strm[s].currentState # "PAUSED" /\ strm[s].cachedState # "PAUSED"
         /\ pc[Ssr] = "down" => strm[s].cachedState = due
              \/ (strm[s].cachedState = "IDLE" /\ strm[s].currentState = due)
         /\ pc[Ssr] \in Leaving => strm[s].cachedState = due /\ pc[t] \notin Bound
         /\ pc[Ssr] = "up" => (strm[s].cachedState = "IDLE" /\ Ready(strm[s], due))
                                \/ ToOpen(strm[s], due)
         /\ pc[Ssr] \notin Leaving \cup {"down", "up"} => Raised(strm[s], due)
         /\ pc[Ssr] \notin Leaving \cup {"down"} => ~CardDown /\ Online /\ Back /\ CardUp
         /\ pc[Ssr] \in Leaving \cup {"down"} => CardDown /\ ~Online /\ ~Back
<1>1. /\ strm[s] \in StreamType /\ strm \in [Streams -> StreamType] /\ Positions
      /\ s \notin ssr.visited /\ SsrPlace(strm[s], pc[Ssr], ret[Ssr], mStreamMutex[s])
      /\ strm[s].currentState # "PAUSED" /\ strm[s].cachedState # "PAUSED"
      /\ strm[s].mDevices # {}
  BY Setting DEF Recovery, Typed, Places, Restores, Walks
<1>2. strm[s].handle = "valid" /\ (pc[Ssr] \in Leaving \cup {"down"} => CardDown)
  BY <1>1 DEF SsrPlace
<1>3. pc[Ssr] = "up" => ~CardDown
  BY Phase DEF Recovery, Restores, Walks
<1>4. AtWork(s) <=> pc[Ssr] \notin {"down", "up"}
  BY DEF AtWork
<1>5. /\ Whole(strm[s]) /\ due \in {"INIT", "STARTED"}
      /\ CardDown => DownOf(s, strm[s], pc[t], due)
      /\ Back => UpOf(s, strm[s], due)
      /\ pc[Ssr] \in Leaving => pc[t] \notin Bound
  <2>1. Recovers(s, strm[s], pc[t], status[t])
    BY ClientPlace
  <2>2. pc[Ssr] \in Leaving => pc[t] \notin Bound
    BY Meeting DEF Recovery
  <2>. QED  BY <1>2, <2>1, <2>2 DEF Recovers, Due
<1>6. pc[Ssr] \notin Leaving \cup {"down"} => ~CardDown /\ Online /\ Back /\ CardUp
  <2>1. CardDown /\ AtWork(s) => pc[Ssr] \in Leaving
    BY <1>5 DEF DownOf
  <2>. QED  BY <1>3, <1>4, <2>1, WalkPhase
<1>7. Waits(s) <=> pc[Ssr] \in {"down", "up"}
  BY <1>1, <1>4 DEF Waits
<1>8. "down" \notin Leaving /\ "up" \notin Leaving
  BY DEF Leaving, Stopping
<1>9. CASE pc[Ssr] = "down"
  BY <1>1, <1>2, <1>5, <1>7, <1>8, <1>9, Phase DEF DownOf, Back
<1>10. CASE pc[Ssr] \in Leaving
  BY <1>1, <1>2, <1>4, <1>5, <1>8, <1>10, Phase DEF DownOf, Back
<1>11. CASE pc[Ssr] = "up"
  BY <1>1, <1>2, <1>5, <1>6, <1>7, <1>8, <1>11 DEF UpOf
<1>12. CASE pc[Ssr] \notin Leaving \cup {"down", "up"}
  BY <1>1, <1>2, <1>4, <1>5, <1>6, <1>12 DEF UpOf
<1>. QED  BY <1>9, <1>10, <1>11, <1>12

\* A step of recovery that goes on with its stream, or is done with it.
LEMMA WorkRestores ==
  ASSUME Recovery, Stay(Ssr), UNCHANGED cardVars, NEW s \in Streams, ssr.stream = s,
         pc[Ssr] \notin {"idle", "walk"}, \A u \in Streams \ {s} : strm'[u] = strm[u],
         strm'[s].handle = "valid", strm'[s].want = strm[s].want,
         strm'[s].mDevices = strm[s].mDevices, Whole(strm'[s]),
         \/ /\ ssr'.stream = s /\ ssr'.visited = ssr.visited
            /\ pc'[Ssr] \notin {"idle", "walk", "down", "up"}
            /\ CardDown => pc'[Ssr] \in Leaving
         \/ /\ ssr'.stream = None /\ ssr'.visited = ssr.visited \cup {s} /\ pc'[Ssr] = "walk",
         NEW t \in Controls, Str(t) = s, NEW due, due = Due(strm[s], pc[t], status[t]),
         CardDown => /\ strm'[s].cachedState = due
                     /\ pc'[Ssr] = "walk" =>
                          strm'[s].currentState = "IDLE" /\ pc[t] \notin Bound,
         Back => IF pc'[Ssr] = "walk"
                   THEN strm'[s].cachedState = "IDLE" /\ Ready(strm'[s], due)
                   ELSE Raised(strm[s], due)'
  PROVE  Restores'
<1>1. Online' = Online /\ Back' = Back /\ CardDown' = CardDown /\ OneLoss'
  BY DEF cardVars, Online, Back, CardDown, Recovery, Restores, OneLoss
<1>2. strm[s].handle = "valid" /\ s \notin ssr.visited
      /\ (Online <=> ~CardDown) /\ (CardDown \/ Back) /\ (Online => Back) /\ downs # 0
  BY AtHand, WalkPhase, Phase DEF Recovery, Restores, Back
<1>3. Walks'
  <2>1. \A u \in ssr'.visited : strm'[u].handle = "valid"
    <3>1. ssr.visited \subseteq Streams
      BY DEF Recovery, Typed
    <3>. QED  BY <3>1 DEF Recovery, Restores, Walks
  <2>. QED  BY <1>1, <1>2, <2>1 DEF Walks
<1>4. \A u \in Streams : strm'[u].mDevices # {}
  BY DEF Recovery, Restores
<1>5. ASSUME NEW v \in Controls, NEW u \in Streams, Str(v) = u, u # s
      PROVE  Recovers(u, strm[u], pc[v], status[v])'
  <2>1. ~AtWork(u) /\ AtWork(u)' = FALSE
    BY <1>5 DEF AtWork
  <2>. QED  BY <1>5, <2>1, Untouched DEF cardVars
<1>6. Recovers(s, strm[s], pc[t], status[t])'
  <2>1. pc'[t] = pc[t] /\ status'[t] = status[t]
        /\ Recovers(s, strm[s], pc[t], status[t])
    BY ClientPlace DEF Stay
  <2>2. /\ Believed(strm[s], pc[t], status[t])' = Believed(strm[s], pc[t], status[t])
        /\ Due(strm[s], pc[t], status[t])' = due
    BY <2>1 DEF Believed, Due
  <2>3. Waits(s)' = FALSE /\ AtWork(s)' = (pc'[Ssr] # "walk")
        /\ (s \in ssr'.visited <=> pc'[Ssr] = "walk")
    BY <1>2 DEF Waits, AtWork
  <2>4. CardDown => DownOf(s, strm[s], pc[t], due)'
    BY <2>1, <2>2, <2>3 DEF DownOf
  <2>5. Back => UpOf(s, strm[s], due)'
    BY <2>1, <2>2, <2>3 DEF UpOf, Ready
  <2>. QED  BY <1>1, <1>2, <2>1, <2>2, <2>4, <2>5 DEF Recovers, Whole, cardVars
<1>7. ASSUME NEW v \in Controls
      PROVE  Recovers(Str(v), strm[Str(v)], pc[v], status[v])'
  <2>1. PICK u \in Streams : u = Str(v) /\ u = Str(v)'
    BY Names DEF Str
  <2>2. u = s => v = t
    BY <2>1, OneControl DEF Recovery
  <2>3. Recovers(u, strm[u], pc[v], status[v])'
    BY <1>5, <1>6, <2>1, <2>2
  <2>. QED  BY <2>1, <2>3
<1>. QED  BY <1>1, <1>3, <1>4, <1>7 DEF Restores

\* The operations of a stream, run by recovery.
LEMMA SsrOperation ==
  ASSUME Recovery, Operation(Ssr)
  PROVE  Restores'
<1>1. PICK s \in Streams : ssr.stream = s
  BY OperationTyped, Names DEF Recovery
<1>2. PICK t \in Controls : Str(t) = s
  BY HasControl DEF Recovery
<1>3. PICK due : due = Due(strm[s], pc[t], status[t])
  OBVIOUS
<1>. DEFINE x == strm[s]
            y == strm'[s]
            p == pc[Ssr]
<1>4. Str(Ssr) = s /\ Ssr \in Threads /\ \A f : May(f) => f = "deviceStop"
  BY <1>1, Names, Setting DEF Recovery
<1>5. p \in Calls
  BY <1>1, <1>4, OperationMoves DEF Recovery, Typed, Calls
<1>6. Stay(Ssr) /\ Frame(s) /\ ssr' = ssr
  BY <1>4, OperationTyped DEF Recovery
<1>7. p \notin {"idle", "walk", "down", "up", "downStopped", "downEnd", "upOpened", "upStarted",
                "upEnd"}
  BY <1>5 DEF Calls, Starting, Stopping
<1>8. /\ x \in StreamType /\ strm \in [Streams -> StreamType] /\ Positions
      /\ x.handle = "valid" /\ s \notin ssr.visited /\ Whole(x)
      /\ due \in {"INIT", "STARTED"} /\ x.mDevices # {}
      /\ SsrPlace(x, p, ret[Ssr], mStreamMutex[s])
      /\ x.currentState # "PAUSED"
      /\ p \in Leaving => x.cachedState = due /\ CardDown /\ ~Back
      /\ p \notin Leaving => ~CardDown /\ Online /\ Back /\ CardUp /\ Raised(x, due)
  BY <1>1, <1>2, <1>3, <1>7, AtHand
<1>9. Control /\ SsrAt(p, ret[Ssr])
  BY <1>8 DEF Positions
<1>10. ASSUME NEW l, Goto(Ssr, l)
       PROVE  pc'[Ssr] = l /\ ret'[Ssr] = ret[Ssr] /\ status'[Ssr] = status[Ssr]
  BY <1>4, <1>9, <1>10 DEF Goto, Control
\* On the way down.
<1>11. ASSUME p \in Leaving, pc'[Ssr] \in Leaving, UNCHANGED cardVars,
              y.cachedState = x.cachedState, y.handle = x.handle, y.want = x.want,
              y.mDevices = x.mDevices, Whole(y)
       PROVE  Restores'
  <2>1. pc'[Ssr] \notin {"idle", "walk", "down", "up"}
    BY <1>11 DEF Leaving, Stopping
  <2>2. \A u \in Streams \ {s} : strm'[u] = strm[u]
    BY <1>6 DEF Frame
  <2>. QED  BY <1>1, <1>2, <1>3, <1>6, <1>7, <1>8, <1>11, <2>1, <2>2, WorkRestores
\* On the way up.
<1>12. ASSUME p \notin Leaving, pc'[Ssr] \notin {"idle", "walk", "down", "up"},
              Raised(strm[s], due)', UNCHANGED cardVars, y.handle = x.handle,
              y.want = x.want, y.mDevices = x.mDevices, Whole(y)
       PROVE  Restores'
  <2>1. \A u \in Streams \ {s} : strm'[u] = strm[u]
    BY <1>6 DEF Frame
  <2>. QED  BY <1>1, <1>2, <1>3, <1>6, <1>7, <1>8, <1>12, <2>1, WorkRestores
<1>13. CASE Open(Ssr)
  <2>1. p = "open" /\ p \notin Leaving /\ UNCHANGED cardVars
    BY <1>13 DEF Open, Leaving, Stopping
  <2>2. /\ ToOpen(x, due) /\ ~CardDown
        /\ ret[Ssr] = IF due = "INIT" THEN <<"upEnd">> ELSE <<"upOpened">>
    BY <1>8, <2>1 DEF Raised, Joining
  <2>3. /\ y.currentState = "INIT" /\ y.session = "opened" /\ Return(Ssr, "ok")
        /\ y.handle = x.handle /\ y.want = x.want /\ y.mDevices = x.mDevices /\ Whole(y)
    <3>1. CASE x.currentState = "IDLE"
      <4>1. /\ strm' = [strm EXCEPT ![s].currentState = "INIT", ![s].session = "opened"]
            /\ Return(Ssr, "ok")
        BY <1>4, <1>8, <1>13, <2>2, <3>1 DEF Open, OpenIdle
      <4>2. y = [x EXCEPT !.currentState = "INIT", !.session = "opened"]
        BY <1>8, <4>1
      <4>. QED  BY <1>8, <4>1, <4>2 DEF StreamType, Whole
    <3>2. CASE x.currentState = "INIT"
      BY <1>4, <1>8, <1>13, <2>2, <3>2 DEF Open, Whole
    <3>. QED  BY <2>2, <3>1, <3>2 DEF ToOpen
  <2>4. status'[Ssr] = "ok" /\ pc'[Ssr] = IF due = "INIT" THEN "upEnd" ELSE "upOpened"
    <3>1. <<"upEnd">> # <<"upOpened">>
      OBVIOUS
    <3>. QED  BY <1>5, <1>8, <2>1, <2>2, <2>3, <3>1, SsrBack DEF At
  <2>5. Raised(strm[s], due)'
    BY <1>8, <2>3, <2>4 DEF Raised, Ready, ToStart
  <2>. QED  BY <1>12, <2>1, <2>3, <2>4, <2>5
<1>14. CASE StartEnter(Ssr)
  <2>1. p = "start" /\ p \notin Leaving /\ UNCHANGED cardVars
    BY <1>14 DEF StartEnter, Leaving, Stopping
  <2>2. ToStart(x, due) /\ ~CardDown
    BY <1>8, <2>1 DEF Raised, Joining
  <2>3. Goto(Ssr, "startRun") /\ strm' = strm
    BY <1>4, <1>14, <2>2 DEF StartEnter, ToStart
  <2>4. pc'[Ssr] = "startRun"
    BY <1>10, <2>3
  <2>5. Raised(strm[s], due)'
    BY <2>2, <2>3, <2>4 DEF Raised, ToStart
  <2>. QED  BY <1>8, <1>12, <2>1, <2>3, <2>4, <2>5
<1>15. CASE StartRun(Ssr)
  <2>1. p = "startRun" /\ p \notin Leaving /\ UNCHANGED cardVars
    BY <1>15 DEF StartRun, Leaving, Stopping
  <2>2. ToStart(x, due) /\ CardUp
    BY <1>8, <2>1 DEF Raised, Joining
  <2>3. x.session = "opened"
    BY <1>8, <2>2 DEF ToStart, Whole
  <2>4. /\ Goto(Ssr, "startLock")
        /\ y = [x EXCEPT !.currentState = "STARTED", !.session = "started"]
    BY <1>4, <1>8, <1>15, <2>2, <2>3, StartSound DEF Recovery
  <2>5. /\ y.currentState = "STARTED" /\ y.session = "started" /\ y.handle = x.handle
        /\ y.want = x.want /\ y.mDevices = x.mDevices /\ Whole(y)
    BY <1>8, <2>4 DEF StreamType, Whole
  <2>6. pc'[Ssr] = "startLock"
    BY <1>10, <2>4
  <2>7. Raised(strm[s], due)'
    BY <2>2, <2>5, <2>6 DEF Raised, Ready, ToStart, Joining
  <2>. QED  BY <1>12, <2>1, <2>5, <2>6, <2>7
<1>16. CASE StartLock(Ssr) \/ StartRegister(Ssr)
  <2>1. p \in Joining /\ p \notin Leaving /\ UNCHANGED cardVars /\ strm' = strm
        /\ p \in Starting
    BY <1>16 DEF StartLock, StartRegister, Leaving, Stopping, Joining, Starting
  <2>2. Ready(x, due)
    BY <1>8, <2>1 DEF Raised, Joining
  <2>3. pc'[Ssr] \in {"startRegister", "upStarted"}
    BY <1>4, <1>5, <1>8, <1>10, <1>16, <2>1, SsrBack DEF StartLock, StartRegister, At
  <2>4. Raised(strm[s], due)'
    BY <2>1, <2>2, <2>3 DEF Raised, Ready, Joining
  <2>. QED  BY <1>8, <1>12, <2>1, <2>3, <2>4
<1>17. ~StartReset(Ssr)
  BY <1>4 DEF StartReset, Recovery, Known, Unreported
<1>18. CASE StopEnter(Ssr) \/ StopLock(Ssr) \/ StopRun(Ssr)
  <2>1. p \in Stopping /\ p \in Leaving /\ UNCHANGED cardVars
    BY <1>18 DEF StopEnter, StopLock, StopRun, Leaving, Stopping
  <2>2. x.currentState = "STARTED" /\ ret[Ssr] # <<"closeRun", "downEnd">>
    BY <1>8, <2>1 DEF SsrPlace, IsRunning
  <2>3. pc'[Ssr] \in {"stopLock", "stopRun", "downStopped"}
    <3>1. ASSUME NEW r \in {"ok", "err"}, Return(Ssr, r)
          PROVE  pc'[Ssr] = "downStopped"
      BY <1>5, <1>8, <2>1, <2>2, <3>1, SsrBack DEF At
    <3>2. CASE StopEnter(Ssr)
      BY <1>4, <1>10, <2>2, <3>2 DEF StopEnter
    <3>3. CASE StopLock(Ssr)
      BY <1>10, <3>3 DEF StopLock
    <3>4. CASE StopRun(Ssr)
      BY <3>1, <3>4 DEF StopRun
    <3>. QED  BY <1>18, <3>2, <3>3, <3>4
  <2>4. \/ y = x
        \/ y = [x EXCEPT !.currentState = "STOPPED", !.sessionPaused = FALSE,
                         !.session = IF @ = "started" THEN "opened" ELSE @]
    <3>1. CASE StopRun(Ssr)
      BY <1>4, <1>8, <3>1 DEF StopRun
    <3>. QED  BY <1>18, <3>1 DEF StopEnter, StopLock
  <2>5. /\ y.handle = x.handle /\ y.want = x.want /\ y.mDevices = x.mDevices /\ Whole(y)
        /\ y.cachedState = x.cachedState
    BY <1>8, <2>2, <2>4 DEF StreamType, Whole
  <2>6. pc'[Ssr] \in Leaving
    BY <2>3 DEF Leaving, Stopping
  <2>. QED  BY <1>11, <2>1, <2>5, <2>6
<1>19. CASE CloseEnter(Ssr)
  <2>1. p = "close" /\ p \in Leaving /\ UNCHANGED cardVars
    BY <1>19 DEF CloseEnter, Leaving
  <2>2. x.currentState \in {"INIT", "STOPPED"}
    BY <1>8, <2>1 DEF SsrPlace
  <2>3. y = [x EXCEPT !.currentState = "IDLE", !.session = "closed"] /\ Return(Ssr, "ok")
    BY <1>4, <1>8, <1>19, <2>2 DEF CloseEnter, CloseAll
  <2>4. pc'[Ssr] = "downEnd"
    BY <1>5, <1>8, <2>1, <2>3, SsrBack DEF At
  <2>5. /\ y.handle = x.handle /\ y.want = x.want /\ y.mDevices = x.mDevices /\ Whole(y)
        /\ y.cachedState = x.cachedState
    BY <1>8, <2>3 DEF StreamType, Whole
  <2>6. pc'[Ssr] \in Leaving
    BY <2>4 DEF Leaving
  <2>. QED  BY <1>11, <2>1, <2>5, <2>6
<1>20. ~CloseRun(Ssr) /\ ~Pause(Ssr) /\ ~Resume(Ssr)
  BY <1>8, <1>9 DEF CloseRun, Pause, Resume, SsrPlace, SsrAt, Starting, Stopping
<1>. QED  BY <1>13, <1>14, <1>15, <1>16, <1>17, <1>18, <1>19, <1>20 DEF Operation

\* What the thread does between the operations, at the stream it has taken.
LEMMA SsrHandles ==
  ASSUME Recovery,
         \/ SsrDown \/ SsrDownStopped \/ SsrDownEnd
         \/ SsrUp \/ SsrUpOpened \/ SsrUpStarted \/ SsrUpEnd
  PROVE  Restores'
<1>. DEFINE p == pc[Ssr]
<1>1. /\ p \in {"down", "downStopped", "downEnd", "up", "upOpened", "upStarted", "upEnd"}
      /\ SsrOwn /\ UNCHANGED cardVars
  BY DEF SsrDown, SsrDownStopped, SsrDownEnd, SsrUp, SsrUpOpened, SsrUpStarted, SsrUpEnd, SsrOwn
<1>2. PICK s \in Streams : ssr.stream = s
  BY <1>1 DEF Recovery, Typed
<1>3. PICK t \in Controls : Str(t) = s
  BY HasControl DEF Recovery
<1>4. PICK due : due = Due(strm[s], pc[t], status[t])
  OBVIOUS
<1>. DEFINE x == strm[s]
            y == strm'[s]
<1>5. /\ x \in StreamType /\ strm \in [Streams -> StreamType] /\ Positions
      /\ x.handle = "valid" /\ s \notin ssr.visited /\ Whole(x)
      /\ due \in {"INIT", "STARTED"} /\ x.mDevices # {}
      /\ SsrPlace(x, p, ret[Ssr], mStreamMutex[s])
      /\ x.currentState # "PAUSED" /\ x.cachedState # "PAUSED"
      /\ p = "down" => x.cachedState = due \/ (x.cachedState = "IDLE" /\ x.currentState = due)
      /\ p \in Leaving => x.cachedState = due /\ pc[t] \notin Bound
      /\ p = "up" => (x.cachedState = "IDLE" /\ Ready(x, due)) \/ ToOpen(x, due)
      /\ p \notin Leaving \cup {"down", "up"} => Raised(x, due)
      /\ p \notin Leaving \cup {"down"} => ~CardDown /\ Back
      /\ p \in Leaving \cup {"down"} => CardDown /\ ~Back
  BY <1>1, <1>2, <1>3, <1>4, AtHand
<1>6. Stay(Ssr) /\ \A u \in Streams \ {s} : strm'[u] = strm[u]
  BY <1>1, <1>2, SsrOwnTyped DEF Recovery
<1>7. Control /\ Ssr \in Threads /\ ssr \in [stream : Streams \cup {None}, upTo : State,
                                             visited : SUBSET Streams]
  BY <1>5, Names DEF Positions, Recovery, Typed
<1>8. ASSUME NEW l, Goto(Ssr, l)
      PROVE  pc'[Ssr] = l /\ ret'[Ssr] = ret[Ssr] /\ status'[Ssr] = status[Ssr]
  BY <1>7, <1>8 DEF Goto, Control
<1>9. ASSUME NEW l, NEW b \in Labels, Call(Ssr, l, b)
      PROVE  pc'[Ssr] = l /\ (ret[Ssr] = <<>> => ret'[Ssr] = <<b>>)
  BY <1>7, <1>9, Pushed DEF Call, Control
<1>10. Visited => ssr'.stream = None /\ ssr'.visited = ssr.visited \cup {s}
  BY <1>2, <1>7 DEF Visited
<1>11. ret[Ssr] = <<>>
  BY <1>1, <1>5 DEF Positions, SsrAt, Starting, Stopping
<1>12. CASE SsrDown
  <2>1. p = "down" /\ p \notin Leaving /\ s \notin StandbyStreams
    BY <1>12, Setting DEF SsrDown, Leaving, Stopping, Recovery
  <2>2. y = [x EXCEPT !.cachedState = IF @ = "IDLE" THEN x.currentState ELSE @]
    BY <1>2, <1>5, <1>12, <2>1 DEF SsrDown
  <2>3. /\ y.cachedState = due /\ y.handle = x.handle /\ y.want = x.want
        /\ y.mDevices = x.mDevices /\ Whole(y)
    BY <1>5, <2>1, <2>2 DEF StreamType, Whole
  <2>4. ssr' = ssr /\ pc'[Ssr] \in {"close", "stop", "downEnd"}
    BY <1>2, <1>8, <1>9, <1>12, <2>1 DEF SsrDown, Labels
  <2>5. pc'[Ssr] \in Leaving /\ pc'[Ssr] \notin {"idle", "walk", "down", "up"}
    BY <2>4 DEF Leaving, Stopping
  <2>. QED  BY <1>1, <1>2, <1>3, <1>4, <1>5, <1>6, <2>1, <2>3, <2>4, <2>5, WorkRestores
<1>13. CASE SsrDownStopped
  <2>1. p \in Leaving /\ strm' = strm /\ ssr' = ssr /\ pc'[Ssr] = "close"
    BY <1>9, <1>13 DEF SsrDownStopped, Leaving, Labels
  <2>2. pc'[Ssr] \in Leaving
    BY <2>1 DEF Leaving
  <2>. QED  BY <1>1, <1>2, <1>3, <1>4, <1>5, <1>6, <2>1, <2>2, WorkRestores
<1>14. CASE SsrDownEnd
  <2>1. p = "downEnd" /\ p \in Leaving /\ Visited /\ pc'[Ssr] = "walk"
    BY <1>8, <1>14 DEF SsrDownEnd, Leaving
  <2>2. x.currentState = "IDLE"
    BY <1>5, <2>1 DEF SsrPlace
  <2>3. y = [x EXCEPT !.currentState = "IDLE"]
    BY <1>2, <1>5, <1>14 DEF SsrDownEnd
  <2>4. y = x
    BY <1>5, <2>2, <2>3 DEF StreamType
  <2>. QED  BY <1>1, <1>2, <1>3, <1>4, <1>5, <1>6, <1>10, <2>1, <2>2, <2>4, WorkRestores
<1>15. CASE SsrUp
  <2>1. p = "up" /\ p \notin Leaving \cup {"down"} /\ ~x.skipSSRHandling
    BY <1>5, <1>15 DEF SsrUp, Leaving, Stopping, Whole
  <2>2. /\ strm' = strm /\ ssr' = [ssr EXCEPT !.upTo = x.cachedState]
        /\ CASE x.cachedState = "INIT" -> Call(Ssr, "open", "upEnd")
             [] x.cachedState \in {"STARTED", "PAUSED"} -> Call(Ssr, "open", "upOpened")
             [] OTHER -> Goto(Ssr, "upEnd")
    BY <1>2, <1>15, <2>1 DEF SsrUp
  <2>3. ssr'.stream = s /\ ssr'.visited = ssr.visited
    BY <1>2, <1>7, <2>2
  <2>4. CASE x.cachedState = "IDLE"
    <3>1. pc'[Ssr] = "upEnd"
      BY <1>8, <2>2, <2>4
    <3>2. Ready(x, due)
      BY <1>5, <2>1, <2>4 DEF ToOpen
    <3>3. Raised(strm[s], due)'
      BY <2>2, <3>1, <3>2 DEF Raised, Ready
    <3>. QED  BY <1>1, <1>2, <1>3, <1>4, <1>5, <1>6, <2>1, <2>2, <2>3, <3>1, <3>3, WorkRestores
  <2>5. CASE x.cachedState # "IDLE"
    <3>1. ToOpen(x, due) /\ x.cachedState = due
      BY <1>5, <2>1, <2>5 DEF ToOpen
    <3>2. pc'[Ssr] = "open" /\ ret'[Ssr] = IF due = "INIT" THEN <<"upEnd">> ELSE <<"upOpened">>
      BY <1>5, <1>9, <1>11, <2>2, <3>1 DEF Labels
    <3>3. Raised(strm[s], due)'
      BY <2>2, <3>1, <3>2 DEF Raised, ToOpen
    <3>. QED  BY <1>1, <1>2, <1>3, <1>4, <1>5, <1>6, <2>1, <2>2, <2>3, <3>2, <3>3, WorkRestores
  <2>. QED  BY <2>4, <2>5
<1>16. CASE SsrUpOpened
  <2>1. p = "upOpened" /\ p \notin Leaving \cup {"down", "up"} /\ strm' = strm /\ ssr' = ssr
    BY <1>16 DEF SsrUpOpened, Leaving, Stopping
  <2>2. ToStart(x, due) /\ status[Ssr] = "ok"
    BY <1>5, <2>1 DEF Raised, Joining
  <2>3. pc'[Ssr] = "start"
    BY <1>9, <1>16, <2>2 DEF SsrUpOpened, Labels
  <2>4. Raised(strm[s], due)'
    BY <2>1, <2>2, <2>3 DEF Raised, ToStart
  <2>. QED  BY <1>1, <1>2, <1>3, <1>4, <1>5, <1>6, <2>1, <2>3, <2>4, WorkRestores
<1>17. CASE SsrUpStarted
  <2>1. p = "upStarted" /\ p \notin Leaving \cup {"down", "up"} /\ strm' = strm /\ ssr' = ssr
    BY <1>17 DEF SsrUpStarted, Leaving, Stopping
  <2>2. Ready(x, due) /\ ssr.upTo # "PAUSED"
    BY <1>5, <2>1, Setting DEF Raised, Joining, Recovery, Places
  <2>3. pc'[Ssr] = "upEnd"
    BY <1>8, <1>17, <2>2 DEF SsrUpStarted
  <2>4. Raised(strm[s], due)'
    BY <2>1, <2>2, <2>3 DEF Raised, Ready
  <2>. QED  BY <1>1, <1>2, <1>3, <1>4, <1>5, <1>6, <2>1, <2>3, <2>4, WorkRestores
<1>18. CASE SsrUpEnd
  <2>1. /\ p = "upEnd" /\ p \notin Leaving \cup {"down", "up"} /\ Visited /\ pc'[Ssr] = "walk"
        /\ y = [x EXCEPT !.cachedState = "IDLE"]
    BY <1>2, <1>5, <1>8, <1>18 DEF SsrUpEnd, Leaving, Stopping
  <2>2. Ready(x, due)
    BY <1>5, <2>1 DEF Raised, Joining
  <2>3. /\ y.cachedState = "IDLE" /\ y.handle = x.handle /\ y.want = x.want
        /\ y.mDevices = x.mDevices /\ Whole(y) /\ Ready(y, due)
    BY <1>5, <2>1, <2>2 DEF StreamType, Whole, Ready
  <2>. QED  BY <1>1, <1>2, <1>3, <1>4, <1>5, <1>6, <1>10, <2>1, <2>3, WorkRestores
<1>. QED  BY <1>12, <1>13, <1>14, <1>15, <1>16, <1>17, <1>18

\* A step that leaves every thread of a client where it was.
LEMMA EachRecovers ==
  ASSUME Recovery, OneLoss', Walks', \A s \in Streams : strm'[s].mDevices # {},
         \A t \in Controls, s \in Streams : Str(t) = s => Recovers(s, strm[s], pc[t], status[t])'
  PROVE  Restores'
<1>1. ASSUME NEW t \in Controls
      PROVE  Recovers(Str(t), strm[Str(t)], pc[t], status[t])'
  <2>1. PICK s \in Streams : s = Str(t) /\ s = Str(t)'
    BY Names DEF Str
  <2>2. Recovers(s, strm[s], pc[t], status[t])'
    BY <2>1
  <2>. QED  BY <2>1, <2>2
<1>. QED  BY <1>1 DEF Restores

\* The thread hears of the loss, or of its end, and starts to walk.
LEMMA TakeRestores ==
  ASSUME Recovery, SsrTake
  PROVE  Restores'
<1>1. /\ pc[Ssr] = "idle" /\ msgQ # <<>> /\ msgQ' = Tail(msgQ) /\ strm' = strm
      /\ cardState' = Head(msgQ) /\ prevState' = Head(msgQ) /\ card' = card /\ downs' = downs
      /\ Head(msgQ) # prevState => ssr' = [ssr EXCEPT !.visited = {}] /\ Goto(Ssr, "walk")
      /\ Stay(Ssr) /\ OneLoss
  BY SsrOwnTyped DEF SsrTake, SsrOwn, Recovery, Restores
<1>2. \A k \in Statuses : /\ Head(<<k>>) = k /\ Tail(<<k>>) = <<>>
                          /\ Head(<<k, "online">>) = k /\ Tail(<<k, "online">>) = <<"online">>
                          /\ k # "online"
  BY DEF Statuses
<1>3. Head(<<"online">>) = "online" /\ Tail(<<"online">>) = <<>>
  OBVIOUS
<1>4. /\ downs = 1 /\ Head(msgQ) # prevState /\ ~Back
      /\ \/ Online /\ CardDown' /\ ~Online' /\ ~Back'
         \/ CardDown /\ ~Online /\ ~CardDown' /\ Back'
      /\ OneLoss'
  <2>1. CASE Online
    <3>1. PICK k \in Statuses : /\ downs = 1
                                /\ \/ card = k /\ msgQ = <<k>>
                                   \/ card = "online" /\ msgQ = <<k, "online">>
      BY <1>1, <2>1 DEF OneLoss, Online, Back, CardDown
    <3>2. cardState' = k /\ prevState' = k /\ k # prevState
          /\ \/ card' = k /\ msgQ' = <<>>
             \/ card' = "online" /\ msgQ' = <<"online">>
      BY <1>1, <1>2, <2>1, <3>1 DEF OneLoss, Online
    <3>. QED  BY <1>1, <1>2, <2>1, <3>1, <3>2 DEF OneLoss, Online, Back, CardDown, Statuses
  <2>2. CASE ~Online
    <3>1. downs = 1 /\ CardDown /\ card = "online" /\ msgQ = <<"online">>
      BY <1>1, <2>2 DEF OneLoss, Online, Back
    <3>2. cardState' = "online" /\ prevState' = "online" /\ msgQ' = <<>> /\ prevState # "online"
      BY <1>1, <1>3, <2>2, <3>1 DEF OneLoss, Online
    <3>. QED  BY <1>1, <2>2, <3>1, <3>2 DEF OneLoss, Online, Back, CardDown
  <2>. QED  BY <2>1, <2>2
<1>5. ssr'.visited = {} /\ ssr'.stream = ssr.stream /\ pc'[Ssr] = "walk"
  BY <1>1, <1>4, Names DEF Recovery, Typed, Goto, Positions, Control
<1>6. Walks'
  BY <1>4, <1>5 DEF Walks
<1>7. ASSUME NEW t \in Controls, NEW s \in Streams, Str(t) = s
      PROVE  Recovers(s, strm[s], pc[t], status[t])'
  <2>. DEFINE x == strm[s]
  <2>1. PICK due : due = Due(x, pc[t], status[t])
    OBVIOUS
  <2>2. /\ Recovers(s, x, pc[t], status[t]) /\ pc'[t] = pc[t] /\ status'[t] = status[t]
        /\ t # Ssr
    BY <1>1, <1>7, ClientPlace DEF Stay
  <2>3. due = Due(x, pc[t], status[t])' /\ Whole(x)'
        /\ Believed(x, pc[t], status[t])' = Believed(x, pc[t], status[t])
    BY <1>1, <2>1, <2>2 DEF Due, Believed, Recovers, Whole
  <2>4. Waits(s)' /\ ~(AtWork(s)') /\ ~(s \in ssr'.visited) /\ ~AtWork(s)
    BY <1>1, <1>5 DEF Waits, AtWork
  <2>5. CASE CardDown' /\ Online /\ ~(Online') /\ ~(Back')
    <3>1. x.handle = "valid" => x.cachedState = "IDLE" /\ x.currentState = due
      BY <1>4, <2>1, <2>2, <2>5 DEF Recovers
    <3>2. x.handle = "valid" => DownOf(s, x, pc[t], due)'
      BY <1>1, <1>5, <2>4, <3>1 DEF DownOf
    <3>. QED  BY <1>1, <1>4, <2>2, <2>3, <2>5, <3>2 DEF Recovers
  <2>6. CASE CardDown /\ ~(CardDown') /\ Back'
    <3>1. x.handle = "valid" => DownOf(s, x, pc[t], due)
      BY <2>1, <2>2, <2>6 DEF Recovers
    <3>2. CASE s \in ssr.visited
      <4>1. x.handle = "valid" => ToOpen(x, due)
        BY <3>1, <3>2 DEF DownOf, ToOpen
      <4>2. x.handle = "valid" => UpOf(s, x, due)'
        BY <1>1, <1>5, <2>4, <4>1 DEF UpOf, ToOpen
      <4>. QED  BY <1>1, <1>4, <2>2, <2>3, <2>6, <4>2 DEF Recovers
    <3>3. CASE s \notin ssr.visited
      <4>1. Waits(s)
        BY <2>4, <3>3 DEF Waits
      <4>2. due \in {"INIT", "STARTED"}
        BY <2>1 DEF Due
      <4>3. x.handle = "valid" => ToOpen(x, due) \/ (x.cachedState = "IDLE" /\ Ready(x, due))
        BY <1>1, <3>1, <4>1, <4>2 DEF DownOf, ToOpen, Ready
      <4>4. x.handle = "valid" => UpOf(s, x, due)'
        BY <1>1, <1>5, <2>4, <4>3 DEF UpOf, ToOpen, Ready
      <4>. QED  BY <1>1, <1>4, <2>2, <2>3, <2>6, <4>4 DEF Recovers
    <3>. QED  BY <3>2, <3>3
  <2>. QED  BY <1>4, <2>5, <2>6
<1>8. \A s \in Streams : strm'[s].mDevices # {}
  BY <1>1 DEF Recovery, Restores
<1>. QED  BY <1>4, <1>6, <1>7, <1>8, EachRecovers

\* It takes the next stream, or has walked over all that have a counter.
LEMMA WalkRestores ==
  ASSUME Recovery, SsrNext \/ SsrDone
  PROVE  Restores'
<1>1. /\ pc[Ssr] = "walk" /\ Stay(Ssr) /\ strm' = strm /\ UNCHANGED cardVars
      /\ ssr'.visited = ssr.visited
      /\ \/ pc'[Ssr] = "idle" /\ SsrDone /\ ssr' = ssr
         \/ /\ pc'[Ssr] = IF CardDown THEN "down" ELSE "up"
            /\ ssr'.stream \in Streams \ ssr.visited
  <2>1. Stay(Ssr) /\ pc \in [Threads -> Labels] /\ Ssr \in Threads
        /\ ssr \in [stream : Streams \cup {None}, upTo : State, visited : SUBSET Streams]
    BY SsrOwnTyped, Names DEF SsrOwn, Recovery, Typed, Positions, Control
  <2>2. CASE SsrNext
    BY <2>1, <2>2 DEF SsrNext, Goto, Counted
  <2>3. CASE SsrDone
    BY <2>1, <2>3 DEF SsrDone, Goto
  <2>. QED  BY <2>2, <2>3
<1>2. Online' = Online /\ Back' = Back /\ CardDown' = CardDown /\ OneLoss'
  BY <1>1 DEF cardVars, Online, Back, CardDown, Recovery, Restores, OneLoss
<1>3. (CardDown \/ Back) /\ (Online <=> ~CardDown)
  BY <1>1, WalkPhase, Phase
<1>4. Walks'
  <2>1. \A s \in ssr.visited : strm[s].handle = "valid"
    BY DEF Recovery, Restores, Walks
  <2>. QED  BY <1>1, <1>2, <1>3, <2>1 DEF Walks
<1>5. ASSUME NEW t \in Controls, NEW s \in Streams, Str(t) = s
      PROVE  Recovers(s, strm[s], pc[t], status[t])'
  <2>1. ~AtWork(s) /\ AtWork(s)' = FALSE
    BY <1>1 DEF AtWork
  <2>2. CASE pc'[Ssr] # "idle"
    BY <1>1, <1>5, <2>1, <2>2, Untouched DEF cardVars
  <2>3. CASE SsrDone
    <3>. DEFINE x == strm[s]
    <3>1. PICK due : due = Due(x, pc[t], status[t])
      OBVIOUS
    <3>2. /\ Recovers(s, x, pc[t], status[t]) /\ pc'[t] = pc[t] /\ status'[t] = status[t]
          /\ x.handle = "valid" => s \in ssr.visited
      BY <1>1, <1>5, <2>3, ClientPlace DEF Stay, SsrDone, Counted
    <3>3. due = Due(x, pc[t], status[t])' /\ Whole(x)'
          /\ Believed(x, pc[t], status[t])' = Believed(x, pc[t], status[t])
      BY <1>1, <3>1, <3>2 DEF Due, Believed, Recovers, Whole
    <3>4. s \in ssr.visited => Waits(s)' = FALSE
      BY <1>1 DEF Waits
    <3>5. s \in ssr.visited /\ DownOf(s, x, pc[t], due) => DownOf(s, x, pc[t], due)'
      BY <1>1, <2>1, <3>2, <3>4 DEF DownOf
    <3>6. s \in ssr.visited /\ UpOf(s, x, due) => UpOf(s, x, due)'
      BY <1>1, <2>1, <3>2, <3>4 DEF UpOf, Ready
    <3>7. Ready(x, due)' = Ready(x, due)
      BY <1>1 DEF Ready
    <3>. QED  BY <1>1, <1>2, <3>1, <3>2, <3>3, <3>5, <3>6, <3>7 DEF Recovers, cardVars
  <2>. QED  BY <1>1, <2>2, <2>3
<1>6. \A s \in Streams : strm'[s].mDevices # {}
  BY <1>1 DEF Recovery, Restores
<1>. QED  BY <1>2, <1>4, <1>5, <1>6, EachRecovers

\* The card is lost.
LEMMA LossRestores ==
  ASSUME Recovery, CardGoesDown
  PROVE  Restores'
<1>1. /\ downs < 1 /\ downs' = downs + 1 /\ UNCHANGED <<cardState, prevState, ssr, pc, ret, status>>
      /\ downs \in Nat
  BY Setting DEF CardGoesDown, Recovery, Typed
<1>2. PICK k \in Statuses : /\ card' = k /\ msgQ' = Append(msgQ, k)
                            /\ strm' = [s \in Streams |-> AfterLoss(s, k)]
  BY ScenarioIs DEF CardGoesDown, Recovery, Typed
<1>3. downs = 0 /\ downs' = 1 /\ msgQ = <<>> /\ Online /\ prevState = cardState /\ ~CardDown
  BY <1>1, Phase DEF Recovery, Restores, OneLoss
<1>4. msgQ' = <<k>> /\ <<k>> # <<>>
  BY <1>2, <1>3
<1>5. OneLoss' /\ Online' /\ ~(Back') /\ ~(CardDown') /\ ~Back
  BY <1>1, <1>2, <1>3, <1>4 DEF OneLoss, Online, Back, CardDown
<1>6. ASSUME NEW s \in Streams
      PROVE  LET x == strm[s]
                 y == strm'[s] IN
             /\ y.handle = x.handle /\ y.want = x.want /\ y.currentState = x.currentState
             /\ y.cachedState = x.cachedState /\ y.mDevices = x.mDevices
             /\ Whole(x) => Whole(y)
  <2>1. s \notin StandbyStreams /\ ~May("openLost") /\ strm[s] \in StreamType
    BY Setting DEF Recovery
  <2>2. strm'[s] = [strm[s] EXCEPT !.session = IF @ = "started" THEN "lost" ELSE @,
                                   !.sessionPaused = FALSE]
    BY <1>2, <2>1 DEF AfterLoss
  <2>3. /\ strm'[s].isPaused = strm[s].isPaused
        /\ strm'[s].skipSSRHandling = strm[s].skipSSRHandling
        /\ strm'[s].session = IF strm[s].session = "started" THEN "lost" ELSE strm[s].session
        /\ strm'[s].sessionPaused = FALSE
    BY <2>1, <2>2 DEF StreamType
  <2>. QED  BY <2>1, <2>2, <2>3 DEF StreamType, Whole
<1>7. Walks'
  <2>1. ssr.visited \subseteq Streams
    BY DEF Recovery, Typed
  <2>2. \A s \in ssr.visited : strm'[s].handle = "valid"
    BY <1>6, <2>1 DEF Recovery, Restores, Walks
  <2>3. pc[Ssr] = "idle"
    BY <1>3, <1>5 DEF Recovery, Restores, Walks
  <2>. QED  BY <1>1, <2>2, <2>3 DEF Walks
<1>8. ASSUME NEW t \in Controls, NEW s \in Streams, Str(t) = s
      PROVE  Recovers(s, strm[s], pc[t], status[t])'
  <2>1. Recovers(s, strm[s], pc[t], status[t])
    BY <1>8, ClientPlace
  <2>2. Believed(strm[s], pc[t], status[t])' = Believed(strm[s], pc[t], status[t])
        /\ Due(strm[s], pc[t], status[t])' = Due(strm[s], pc[t], status[t])
    BY <1>1, <1>6 DEF Due, Believed
  <2>. QED  BY <1>1, <1>3, <1>5, <1>6, <2>1, <2>2 DEF Recovers
<1>9. \A s \in Streams : strm'[s].mDevices # {}
  BY <1>6 DEF Recovery, Restores
<1>. QED  BY <1>5, <1>7, <1>8, <1>9, EachRecovers

\* The card comes back; the manager has yet to hear of it.
LEMMA ReturnRestores ==
  ASSUME Recovery, CardComesUp
  PROVE  Restores'
<1>1. /\ ~CardUp /\ card' = "online" /\ msgQ' = Append(msgQ, "online")
      /\ UNCHANGED <<strm, downs, cardState, prevState, ssr, pc, ret, status>>
  BY DEF CardComesUp
<1>2. \A k \in Statuses : Append(<<k>>, "online") = <<k, "online">> /\ <<k, "online">> # <<>>
                          /\ <<k>> # <<>>
  <2>1. TAKE k \in Statuses
  <2>2. PICK S : S = Statuses \cup {"online"}
    OBVIOUS
  <2>3. k \in S /\ "online" \in S
    BY <2>2
  <2>4. PICK q : q = <<k, "online">>
    OBVIOUS
  <2>5. q \in Seq(S) /\ Len(q) = 2 /\ q[1] = k /\ q[2] = "online"
    BY <2>3, <2>4
  <2>6. PICK a : a = Append(<<k>>, "online")
    OBVIOUS
  <2>7. a \in Seq(S) /\ Len(a) = 2 /\ a[1] = k /\ a[2] = "online"
    BY <2>3, <2>6
  <2>8. \A i \in 1..Len(a) : a[i] = q[i]
    BY <2>5, <2>7
  <2>9. a = q
    BY <2>5, <2>7, <2>8, SeqEqual
  <2>. QED  BY <2>4, <2>5, <2>6, <2>9
<1>3. Append(<<>>, "online") = <<"online">> /\ <<"online">> # <<>>
  OBVIOUS
<1>4. OneLoss /\ downs # 0 /\ ~Back
  BY <1>1, Phase DEF Recovery, Restores, OneLoss, CardUp
<1>5. OneLoss' /\ ~(Back') /\ Online' = Online /\ CardDown' = CardDown
  <2>1. CASE Online
    <3>1. PICK k \in Statuses : downs = 1 /\ msgQ = <<k>>
      BY <1>1, <1>4, <2>1 DEF OneLoss, CardUp, Online, CardDown
    <3>. QED  BY <1>1, <1>2, <1>4, <2>1, <3>1 DEF OneLoss, Online, Back, CardDown
  <2>2. CASE ~Online
    <3>1. downs = 1 /\ CardDown /\ msgQ = <<>>
      BY <1>1, <1>4, <2>2 DEF OneLoss, CardUp
    <3>. QED  BY <1>1, <1>3, <1>4, <2>2, <3>1 DEF OneLoss, Online, Back, CardDown
  <2>. QED  BY <2>1, <2>2
<1>6. Walks'
  BY <1>1, <1>4, <1>5 DEF Recovery, Restores, Walks
<1>7. ASSUME NEW t \in Controls, NEW s \in Streams, Str(t) = s
      PROVE  Recovers(s, strm[s], pc[t], status[t])'
  <2>1. Recovers(s, strm[s], pc[t], status[t])
    BY <1>7, ClientPlace
  <2>2. DownOf(s, strm[s], pc[t], Due(strm[s], pc[t], status[t]))'
          = DownOf(s, strm[s], pc[t], Due(strm[s], pc[t], status[t]))
    BY <1>1 DEF DownOf, Due, Believed, Waits, AtWork
  <2>. QED  BY <1>1, <1>4, <1>5, <2>1, <2>2 DEF Recovers, Due, Believed, Whole, Ready
<1>8. \A s \in Streams : strm'[s].mDevices # {}
  BY <1>1 DEF Recovery, Restores
<1>. QED  BY <1>5, <1>6, <1>7, <1>8, EachRecovers

\* Every step keeps what recovery needs.
LEMMA StepRestores ==
  ASSUME Recovery, NoLoss, [Next]_vars
  PROVE  Restores'
<1>1. CASE UNCHANGED vars
  <2>1. OneLoss' /\ Walks' /\ \A s \in Streams : strm'[s].mDevices # {}
    BY <1>1 DEF vars, cardVars, Recovery, Restores, OneLoss, Walks, Online, Back, CardDown
  <2>2. ASSUME NEW t \in Controls, NEW s \in Streams, Str(t) = s
        PROVE  Recovers(s, strm[s], pc[t], status[t])'
    <3>1. Recovers(s, strm[s], pc[t], status[t])
      BY <2>2, ClientPlace
    <3>. QED  BY <1>1, <3>1 DEF vars, cardVars, Recovers, Whole, Due, Believed, DownOf, UpOf,
                Raised, Ready, ToOpen, ToStart, Waits, AtWork, Online, Back, CardDown
  <2>. QED  BY <2>1, <2>2, EachRecovers
<1>2. ASSUME NEW t \in WriterThreads, WriterStep(t) \/ PalWrite(t)
      PROVE  FALSE
  <2>1. pc[t] = "idle" /\ ~Writes
    BY <1>2, Setting DEF Recovery, Places, WrPlace
  <2>. QED  BY <1>2, <2>1 DEF WriterStep, Write, WriteReset, WriteCheck, WriteLock,
              WriteRegister, WriteState, PalWrite
<1>3. CASE SsrOwn
  BY <1>3, TakeRestores, WalkRestores, SsrHandles DEF SsrOwn
<1>. QED  BY <1>1, <1>2, <1>3, StepKinds, ClientOperation, ClientCaller, SsrOperation,
            LossRestores, ReturnRestores

-----------------------------------------------------------------------------
(* The invariant, and what it says at rest.                                 *)

\* The streams, the card, and what is asked of them.
AllAsked == Balanced /\ Known /\ (Steady => Asked)

\* Streams nobody has opened are as nobody asked.
LEMMA InitAsked ==
  ASSUME Init
  PROVE  AllAsked
<1>1. Balanced /\ Typed
  BY InitBalanced DEF Balanced
<1>2. Known
  BY DEF Init, Known, Unreported
<1>3. \A t \in Controls : /\ pc[t] = "idle" /\ Str(t) \in Streams
                          /\ strm[Str(t)] = NewStream(Str(t), "none")
  BY Names DEF Init
<1>4. ASSUME NEW t \in Controls
      PROVE  KeepsAsked(strm[Str(t)], pc[t], status[t])
             /\ Recovers(Str(t), strm[Str(t)], pc[t], status[t])
  <2>. DEFINE x == NewStream(Str(t), "none")
  <2>1. /\ x.handle = "none" /\ x.cachedState = "IDLE" /\ x.currentState = "IDLE"
        /\ x.isPaused = FALSE /\ x.sessionPaused = FALSE /\ x.skipSSRHandling = FALSE
        /\ x.session = "closed"
    BY DEF NewStream
  <2>2. pc[t] = "idle" /\ strm[Str(t)] = x
    BY <1>3
  <2>. HIDE DEF x
  <2>3. KeepsAsked(x, pc[t], status[t]) /\ Whole(x)
    BY <2>1, <2>2 DEF KeepsAsked, Whole
  <2>4. Recovers(Str(t), x, pc[t], status[t])
    BY <2>1, <2>3 DEF Recovers
  <2>. QED  BY <2>2, <2>3, <2>4
<1>5. ASSUME Steady, Recoverable
      PROVE  Restores
  <2>1. OneLoss
    BY DEF Init, OneLoss, Online
  <2>2. pc[Ssr] = "idle" /\ ssr.visited = {}
    BY Names DEF Init
  <2>3. \A s \in Streams : strm[s].mDevices # {}
    BY <1>5 DEF Init, NewStream, Recoverable
  <2>4. \A t \in Controls : Recovers(Str(t), strm[Str(t)], pc[t], status[t])
    BY <1>4
  <2>. QED  BY <2>1, <2>2, <2>3, <2>4 DEF Restores, Walks
<1>6. Steady => Asked
  BY <1>4, <1>5 DEF Asked, Restorable
<1>. QED  BY <1>1, <1>2, <1>6 DEF AllAsked

\* Every step keeps the invariant.
LEMMA StepAsked ==
  ASSUME AllAsked, [Next]_vars
  PROVE  AllAsked'
<1>1. Typed /\ Balanced' /\ Known' /\ scenario' = scenario
  BY StepBalanced, StepKnown, SameScenario DEF AllAsked, Balanced
<1>2. Steady' = Steady /\ Restorable' = Restorable /\ Recoverable' = Recoverable
      /\ MaxDown' = MaxDown /\ Ops' = Ops /\ Faults' = Faults
  BY <1>1 DEF Steady, Restorable, Recoverable, MaxDown, Ops, Faults, Writes, Direction,
    StandbyStreams, Routed
<1>3. ASSUME Steady, Restorable, "stop" \notin Ops
      PROVE  (IF MaxDown = 0 THEN \A t \in Controls : KeepsAsked(strm[Str(t)], pc[t], status[t])
              ELSE Restores)'
  <2>1. CASE MaxDown = 0
    <3>1. "sessionOpen" \notin Faults
      BY <1>3, <2>1 DEF Restorable, Recoverable
    <3>2. \A t \in Controls : KeepsAsked(strm[Str(t)], pc[t], status[t])'
      BY <1>3, <2>1, <3>1, StepKeepsAsked DEF AllAsked, Balanced, Asked
    <3>. QED  BY <1>2, <2>1, <3>2
  <2>2. CASE MaxDown # 0
    <3>1. Recovery /\ NoLoss
      BY <1>3, <2>2 DEF AllAsked, Balanced, Asked, Restorable, Recovery
    <3>2. Restores'
      BY <3>1, StepRestores
    <3>. QED  BY <1>2, <2>2, <3>2
  <2>. QED  BY <2>1, <2>2
<1>4. Steady' => Asked'
  BY <1>2, <1>3 DEF Asked
<1>. QED  BY <1>1, <1>4 DEF AllAsked

\* At rest the manager knows the card, and the streams are as asked.
LEMMA AskedMeans ==
  ASSUME AllAsked, Steady, Restorable
  PROVE  StreamAsAsked
<1>1. Typed /\ Places /\ NoLoss
  BY DEF AllAsked, Balanced
<1>2. CardStateRight
  <2>1. CASE MaxDown = 0
    BY <1>1, <2>1 DEF NoLoss, CardStateRight
  <2>2. CASE MaxDown # 0
    <3>1. ~May("netReset")
      BY <1>1, <2>2, Setting DEF Restorable
    <3>. QED  BY <3>1 DEF AllAsked, Known, CardStateRight, Quiet
  <2>. QED  BY <2>1, <2>2
<1>3. ASSUME Recovered, "stop" \notin Ops, NEW s \in Valid
      PROVE  CASE strm[s].want = "open" -> strm[s].currentState = "INIT"
               [] strm[s].want = "started" ->
                    /\ strm[s].session = "started" /\ ~strm[s].sessionPaused
                    /\ strm[s].currentState \in {"STARTED", "PAUSED"}
               [] strm[s].want = "paused" -> strm[s].sessionPaused
               [] strm[s].want = "stopped" -> strm[s].currentState \in {"INIT", "STOPPED"}
  <2>. DEFINE x == strm[s]
  <2>1. s \in Streams /\ x.handle = "valid" /\ x \in StreamType
    BY <1>1 DEF Valid, Typed
  <2>2. PICK t \in Controls : Str(t) = s
    BY <2>1, HasControl
  <2>3. pc[t] = "idle" /\ pc[Ssr] = "idle" /\ msgQ = <<>> /\ CardUp /\ Online
    BY <1>3, Names DEF Recovered, Quiet, Online
  <2>4. Believed(x, pc[t], status[t]) = x.want
    BY <2>3 DEF Believed, Joining
  <2>5. CASE MaxDown = 0
    <3>1. KeepsAsked(x, pc[t], status[t])
      BY <1>3, <2>2, <2>5 DEF AllAsked, Asked
    <3>2. Fits(x, x.want) /\ x.sessionPaused = x.isPaused
      BY <2>1, <2>3, <2>4, <3>1 DEF KeepsAsked
    <3>. QED  BY <3>2 DEF Fits, IsRunning
  <2>6. CASE MaxDown # 0
    <3>1. Restores /\ Recoverable
      BY <1>3, <2>6 DEF AllAsked, Asked, Restorable
    <3>2. Recovers(s, x, pc[t], status[t])
      BY <2>2, <3>1 DEF Restores
    <3>3. x.want \in {"open", "started"} /\ Whole(x)
      BY <2>1, <2>4, <3>2 DEF Recovers
    <3>4. PICK due : due = Due(x, pc[t], status[t])
      OBVIOUS
    <3>5. Ready(x, due)
      <4>1. CASE downs = 0
        BY <2>1, <3>2, <3>4, <4>1 DEF Recovers
      <4>2. CASE downs # 0
        <5>1. Back
          BY <2>3, <3>1, <4>2 DEF Restores, OneLoss, Online, CardDown, Back
        <5>2. UpOf(s, x, due)
          BY <2>1, <3>2, <3>4, <5>1 DEF Recovers
        <5>. QED  BY <2>3, <5>2 DEF UpOf, Waits, AtWork
      <4>. QED  BY <4>1, <4>2
    <3>6. due = IF x.want = "open" THEN "INIT" ELSE "STARTED"
      BY <2>4, <3>4 DEF Due
    <3>. QED  BY <3>3, <3>5, <3>6 DEF Ready, Whole
  <2>. QED  BY <2>5, <2>6
<1>4. AsLeft
  BY <1>3 DEF AsLeft
<1>. QED  BY <1>2, <1>4 DEF StreamAsAsked

\* When nothing is under way the manager knows the card, and every stream is as the last call
\* of its client that succeeded left it (open, start, pause, resume of StreamPCM): without a
\* loss of the card if no open hides a failure of its session, and after one loss, handled by
\* ssrHandlingLoop, if recovery's own calls do not fail and standby spares no stream.
THEOREM StreamsAsAsked == Spec => [](Steady /\ Restorable => StreamAsAsked)
<1>1. Init => AllAsked
  BY InitAsked
<1>2. AllAsked /\ [Next]_vars => AllAsked'
  BY StepAsked
<1>3. AllAsked => (Steady /\ Restorable => StreamAsAsked)
  BY AskedMeans
<1>. QED  BY <1>1, <1>2, <1>3, PTL DEF Spec
=============================================================================

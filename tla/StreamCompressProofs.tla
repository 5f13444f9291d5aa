------------------------- MODULE StreamCompressProofs -------------------------
(***************************************************************************)
(* A compressed stream through its calls, its worker and the recovery from *)
(* a lost sound card: the worker never outlives the stream, a stream that  *)
(* plays sounds as it was asked, a closed stream leaves nothing in use,    *)
(* and a drain is reported only when everything written was played.        *)
(***************************************************************************)
EXTENDS StreamCompress, DeviceProofs, SequenceTheorems

\* The places a thread may be at, and the stacks of the calls it is in.
Labels == {"idle", "delete", "w_active", "w_register", "s_active", "s_run", "s_check",
           "c_check", "c_run", "c_join", "c_rest", "d_check", "d_lock", "d_done"}
Returns == {<<>>, <<"delete">>, <<"d_done">>, <<"d_lock">>, <<"c_run", "delete">>,
            <<"c_run", "d_done">>}
Control == pc \in [Threads -> Labels] /\ ret \in [Threads -> Returns]

\* Where the client, the recovery and the writer may be.
CtlAt(p, r) ==
  \/ p \in {"idle", "delete", "s_active", "s_run"} /\ r = <<>>
  \/ p \in {"s_check", "s_active", "s_run"} /\ r = <<"c_run", "delete">>
  \/ p \in {"c_check", "c_run", "c_join", "c_rest"} /\ r = <<"delete">>
SsrAt(p, r) ==
  \/ p \in {"idle", "d_check", "d_lock", "d_done"} /\ r = <<>>
  \/ p \in {"s_check", "s_active", "s_run"} /\ r \in {<<"d_lock">>, <<"c_run", "d_done">>}
  \/ p \in {"c_check", "c_run", "c_join", "c_rest"} /\ r = <<"d_done">>
WrAt(p, r) == p \in {"idle", "w_active", "w_register"} /\ r = <<>>

Positions ==
  /\ Control
  /\ CtlAt(pc["ctl"], ret["ctl"]) /\ SsrAt(pc["ssr"], ret["ssr"]) /\ WrAt(pc["wr"], ret["wr"])

\* Two sequences of one element make one of two (the stack of the calls a thread is in).
LEMMA Pair ==
  ASSUME NEW S, NEW a \in S, NEW b \in S
  PROVE  <<a>> \o <<b>> = <<a, b>>
<1>1. <<a>> \in Seq(S) /\ <<b>> \in Seq(S) /\ <<a, b>> \in Seq(S) /\ Len(<<a>>) = 1
      /\ Len(<<b>>) = 1
      /\ Len(<<a, b>>) = 2 /\ <<a, b>>[1] = a /\ <<a, b>>[2] = b /\ <<a>>[1] = a /\ <<b>>[1] = b
 OBVIOUS
<1>. DEFINE s == <<a>> \o <<b>>
            t == <<a, b>>
<1>2. s \in Seq(S) /\ Len(s) = 2 /\ s[1] = a /\ s[2] = b
  BY <1>1, ConcatProperties
<1>. HIDE DEF s, t
<1>3. t \in Seq(S) /\ Len(t) = 2 /\ t[1] = a /\ t[2] = b
  BY <1>1 DEF t
<1>4. \A i \in 1..Len(s) : s[i] = t[i]
  BY <1>2, <1>3
<1>5. s = t
  BY <1>2, <1>3, <1>4, SeqEqual
<1>. QED BY <1>5 DEF s, t

\* The stacks that the calls of stop and close build.
LEMMA Pushed ==
  /\ <<"delete">> \o <<>> = <<"delete">> /\ <<"d_done">> \o <<>> = <<"d_done">>
  /\ <<"d_lock">> \o <<>> = <<"d_lock">>
  /\ <<"c_run">> \o <<"delete">> = <<"c_run", "delete">>
  /\ <<"c_run">> \o <<"d_done">> = <<"c_run", "d_done">>
<1>1. \A a \in Labels : <<a>> \o <<>> = <<a>>
  OBVIOUS
<1>2. /\ <<"c_run">> \o <<"delete">> = <<"c_run", "delete">>
      /\ <<"c_run">> \o <<"d_done">> = <<"c_run", "d_done">>
  BY Pair, "c_run" \in Labels, "delete" \in Labels, "d_done" \in Labels DEF Labels
<1>. QED  BY <1>1, <1>2 DEF Labels

\* What is left of such a stack when a call returns.
LEMMA Popped ==
  /\ Head(<<"delete">>) = "delete" /\ Tail(<<"delete">>) = <<>> /\ <<"delete">> # <<>>
  /\ Head(<<"d_done">>) = "d_done" /\ Tail(<<"d_done">>) = <<>> /\ <<"d_done">> # <<>>
  /\ Head(<<"d_lock">>) = "d_lock" /\ Tail(<<"d_lock">>) = <<>> /\ <<"d_lock">> # <<>>
  /\ Head(<<"c_run", "delete">>) = "c_run" /\ Tail(<<"c_run", "delete">>) = <<"delete">>
  /\ Head(<<"c_run", "d_done">>) = "c_run" /\ Tail(<<"c_run", "d_done">>) = <<"d_done">>
  /\ <<"c_run", "delete">> # <<>> /\ <<"c_run", "d_done">> # <<>>
OBVIOUS

\* A thread that goes on in its handler moves alone.
LEMMA GoneTo ==
  ASSUME Control, NEW t \in Threads, NEW label \in Labels, Goto(t, label)
  PROVE  /\ Control' /\ pc'[t] = label /\ ret' = ret
         /\ \A u \in Threads \ {t} : pc'[u] = pc[u]
BY DEF Control, Goto

\* A thread that calls a handler of the stream moves alone and remembers where to go back.
LEMMA CalledTo ==
  ASSUME Control, NEW t \in Threads, NEW label \in Labels, NEW back, Call(t, label, back),
         <<back>> \o ret[t] \in Returns
  PROVE  /\ Control' /\ pc'[t] = label /\ ret'[t] = <<back>> \o ret[t]
         /\ \A u \in Threads \ {t} : pc'[u] = pc[u] /\ ret'[u] = ret[u]
BY DEF Control, Call

\* A thread whose handler returns goes where its caller left off.
LEMMA ReturnedTo ==
  ASSUME Control, NEW t \in Threads, Return(t),
         ret[t] = <<>> \/ (Head(ret[t]) \in Labels /\ Tail(ret[t]) \in Returns)
  PROVE  /\ Control' /\ pc'[t] = IF ret[t] = <<>> THEN "idle" ELSE Head(ret[t])
         /\ ret'[t] = IF ret[t] = <<>> THEN <<>> ELSE Tail(ret[t])
         /\ \A u \in Threads \ {t} : pc'[u] = pc[u] /\ ret'[u] = ret[u]
<1>1. <<>> \in Returns /\ "idle" \in Labels
  BY DEF Returns, Labels
<1>. QED BY <1>1 DEF Control, Return

\* Where a call that ends goes on.
LEMMA GoneBack ==
  ASSUME Positions, NEW t \in {"ctl", "ssr"}, Return(t)
  PROVE  /\ Control' /\ \A u \in Threads \ {t} : pc'[u] = pc[u] /\ ret'[u] = ret[u]
         /\ ret[t] = <<>> => pc'[t] = "idle" /\ ret'[t] = <<>>
         /\ t = "ctl" /\ pc[t] \in {"s_check", "s_active", "s_run"} /\ ret[t] # <<>>
              => pc'[t] = "c_run" /\ ret'[t] = <<"delete">>
         /\ t = "ctl" /\ pc[t] \in {"c_check", "c_run", "c_join", "c_rest"}
              => pc'[t] = "delete" /\ ret'[t] = <<>>
         /\ t = "ssr" /\ pc[t] \in {"s_check", "s_active", "s_run"}
              => \/ pc'[t] = "d_lock" /\ ret'[t] = <<>>
                 \/ pc'[t] = "c_run" /\ ret'[t] = <<"d_done">>
         /\ t = "ssr" /\ pc[t] \in {"c_check", "c_run", "c_join", "c_rest"}
              => pc'[t] = "d_done" /\ ret'[t] = <<>>
<1>1. t \in Threads
  BY DEF Threads
<1>2. \/ ret[t] = <<>>
      \/ Head(ret[t]) \in Labels /\ Tail(ret[t]) \in Returns /\ ret[t] # <<>>
  BY <1>1, Popped DEF Positions, Control, Returns, Labels
<1>3. /\ Control' /\ pc'[t] = IF ret[t] = <<>> THEN "idle" ELSE Head(ret[t])
      /\ ret'[t] = IF ret[t] = <<>> THEN <<>> ELSE Tail(ret[t])
      /\ \A u \in Threads \ {t} : pc'[u] = pc[u] /\ ret'[u] = ret[u]
  BY <1>1, <1>2, ReturnedTo DEF Positions
<1>4. CASE t = "ctl"
  BY <1>3, <1>4, Popped DEF Positions, CtlAt
<1>5. CASE t = "ssr"
  BY <1>3, <1>5, Popped DEF Positions, SsrAt
<1>. QED  BY <1>4, <1>5

\* Each step of StreamCompress::stop and close leads to a place that its caller may be at.
LEMMA StopCloseGoes ==
  ASSUME Positions, NEW t \in {"ctl", "ssr"}, StopClose(t)
  PROVE  Positions'
<1>1. t \in Threads
  BY DEF Threads
<1>2. ASSUME NEW l \in {"s_active", "s_run", "c_run", "c_join", "c_rest"}, Goto(t, l),
             \/ l \in {"s_active", "s_run"} /\ pc[t] \in {"s_check", "s_active"}
             \/ l \in {"c_run", "c_join", "c_rest"} /\ pc[t] \in {"c_check", "c_run", "c_join"}
      PROVE  Positions'
  <2>1. /\ Control' /\ pc'[t] = l /\ ret' = ret
        /\ \A u \in Threads \ {t} : pc'[u] = pc[u]
    BY <1>1, <1>2, GoneTo DEF Labels, Positions
  <2>2. CASE t = "ctl"
    BY <1>2, <2>1, <2>2 DEF Positions, CtlAt, Threads
  <2>3. CASE t = "ssr"
    BY <1>2, <2>1, <2>3 DEF Positions, SsrAt, Threads
  <2>. QED  BY <2>2, <2>3
<1>3. ASSUME Return(t), pc[t] \in {"s_check", "s_run", "c_check", "c_rest"}
      PROVE  Positions'
  <2>1. CASE t = "ctl"
    BY <1>3, <2>1, GoneBack DEF Positions, CtlAt, Threads
  <2>2. CASE t = "ssr"
    BY <1>3, <2>2, GoneBack DEF Positions, SsrAt, Threads
  <2>. QED  BY <2>1, <2>2
<1>4. ASSUME Call(t, "s_check", "c_run"), pc[t] = "c_check"
      PROVE  Positions'
  <2>1. \/ t = "ctl" /\ <<"c_run">> \o ret[t] = <<"c_run", "delete">>
        \/ t = "ssr" /\ <<"c_run">> \o ret[t] = <<"c_run", "d_done">>
    BY <1>4, Pushed DEF Positions, CtlAt, SsrAt
  <2>2. /\ Control' /\ pc'[t] = "s_check" /\ ret'[t] = <<"c_run">> \o ret[t]
        /\ \A u \in Threads \ {t} : pc'[u] = pc[u] /\ ret'[u] = ret[u]
    BY <1>1, <1>4, <2>1, CalledTo DEF Positions, Labels, Returns
  <2>. QED  BY <2>1, <2>2 DEF Positions, CtlAt, SsrAt, Threads
<1>5. CASE StopCheck(t)
  BY <1>2, <1>3, <1>5 DEF StopCheck
<1>6. CASE StopLockActive(t)
  BY <1>2, <1>6 DEF StopLockActive
<1>7. CASE StopRun(t)
  BY <1>3, <1>7 DEF StopRun
<1>8. CASE CloseCheck(t)
  BY <1>2, <1>3, <1>4, <1>8 DEF CloseCheck
<1>9. CASE CloseRun(t)
  BY <1>2, <1>9 DEF CloseRun
<1>10. CASE CloseJoin(t)
  BY <1>2, <1>10 DEF CloseJoin
<1>11. CASE CloseRest(t)
  BY <1>3, <1>11 DEF CloseRest
<1>. QED  BY <1>5, <1>6, <1>7, <1>8, <1>9, <1>10, <1>11 DEF StopClose

\* Every thread is at a place of its own handlers, with a stack that leads back to its caller.
LEMMA StepPositions ==
  ASSUME Positions, Next
  PROVE  Positions'
<1>1. CASE UNCHANGED <<pc, ret>>
  BY <1>1 DEF Positions, Control
<1>2. CASE Client
  <2>1. CASE Stop
    <3>1. Goto("ctl", "s_active") /\ pc["ctl"] = "idle"
      BY <2>1 DEF Stop, CtlMay
    <3>2. Control' /\ pc'["ctl"] = "s_active" /\ ret' = ret
          /\ \A u \in Threads \ {"ctl"} : pc'[u] = pc[u]
      BY <3>1, GoneTo DEF Labels, Positions, Threads
    <3>. QED  BY <3>1, <3>2 DEF Positions, CtlAt, Threads
  <2>2. CASE CloseBegin
    <3>1. Call("ctl", "c_check", "delete") /\ pc["ctl"] = "idle" /\ ret["ctl"] = <<>>
      BY <2>2 DEF CloseBegin, Positions, CtlAt
    <3>2. Control' /\ pc'["ctl"] = "c_check" /\ ret'["ctl"] = <<"delete">>
          /\ \A u \in Threads \ {"ctl"} : pc'[u] = pc[u] /\ ret'[u] = ret[u]
      BY <3>1, CalledTo, Pushed DEF Labels, Positions, Threads, Returns
    <3>. QED  BY <3>1, <3>2 DEF Positions, CtlAt, Threads
  <2>3. CASE Write
    <3>1. UNCHANGED <<pc, ret>> \/ (Goto("wr", "w_active") /\ pc["wr"] = "idle")
      BY <2>3 DEF Write
    <3>2. ASSUME Goto("wr", "w_active"), pc["wr"] = "idle"  PROVE Positions'
      <4>1. Control' /\ pc'["wr"] = "w_active" /\ ret' = ret
            /\ \A u \in Threads \ {"wr"} : pc'[u] = pc[u]
        BY <3>2, GoneTo DEF Labels, Positions, Threads
      <4>. QED  BY <4>1 DEF Positions, WrAt, Threads
    <3>. QED  BY <1>1, <3>1, <3>2
  <2>. QED  BY <1>1, <1>2, <2>1, <2>2, <2>3 DEF Client, Open, StartOutput, StartInput, Drain,
              Flush, SetVolume, Mute, Pause, Resume, ctlVolume
<1>3. CASE Worker
  BY <1>1, <1>3 DEF Worker, WkPop, WkWait, WkWaited, WkDrain, WkCheck, WkCall, workerOnly
<1>4. CASE Play \/ LoseCard \/ SsrUp
  BY <1>1, <1>4 DEF Play, LoseCard, SsrUp
<1>5. CASE StopClose("ctl") \/ StopClose("ssr")
  BY <1>5, StopCloseGoes
<1>6. CASE Delete
  <2>1. Goto("ctl", "idle") /\ pc["ctl"] = "delete"
    BY <1>6 DEF Delete
  <2>2. Control' /\ pc'["ctl"] = "idle" /\ ret' = ret
        /\ \A u \in Threads \ {"ctl"} : pc'[u] = pc[u]
    BY <2>1, GoneTo DEF Labels, Positions, Threads
  <2>. QED  BY <2>1, <2>2 DEF Positions, CtlAt, Threads
<1>7. CASE Writer
  <2>1. CASE WriteLockActive
    <3>1. Control' /\ pc'["wr"] = "w_register" /\ ret' = ret
          /\ \A u \in Threads \ {"wr"} : pc'[u] = pc[u]
      BY <2>1, GoneTo DEF WriteLockActive, Labels, Positions, Threads
    <3>. QED  BY <2>1, <3>1 DEF Positions, WrAt, Threads, WriteLockActive
  <2>2. CASE WriteRegister
    <3>1. ret["wr"] = <<>> /\ Return("wr")
      BY <2>2 DEF WriteRegister, Positions, WrAt
    <3>2. Control' /\ pc'["wr"] = "idle" /\ ret'["wr"] = <<>>
          /\ \A u \in Threads \ {"wr"} : pc'[u] = pc[u] /\ ret'[u] = ret[u]
      BY <3>1, ReturnedTo DEF Positions, Threads
    <3>. QED  BY <3>2 DEF Positions, WrAt, Threads
  <2>. QED  BY <1>7, <2>1, <2>2 DEF Writer
<1>8. CASE SsrDown \/ SsrDownCheck \/ SsrDownLock \/ SsrDownDone
  <2>1. pc["ssr"] \in {"idle", "d_check", "d_lock", "d_done"} /\ ret["ssr"] = <<>>
    BY <1>8 DEF SsrDown, SsrDownCheck, SsrDownLock, SsrDownDone, Positions, SsrAt
  <2>2. \/ UNCHANGED <<pc, ret>>
        \/ \E l \in {"d_check", "d_done"} : Goto("ssr", l)
        \/ \E l \in {"d_done", "d_lock"}, m \in {"c_check", "s_check"} :
             Call("ssr", m, l) /\ (m = "c_check" => l = "d_done") /\ (m = "s_check" => l = "d_lock")
        \/ Return("ssr")
    BY <1>8 DEF SsrDown, SsrDownCheck, SsrDownLock, SsrDownDone
  <2>3. ASSUME NEW l \in {"d_check", "d_done"}, Goto("ssr", l)
        PROVE  Positions'
    <3>1. Control' /\ pc'["ssr"] = l /\ ret' = ret
          /\ \A u \in Threads \ {"ssr"} : pc'[u] = pc[u]
      BY <2>3, GoneTo DEF Labels, Positions, Threads
    <3>. QED  BY <2>1, <3>1 DEF Positions, SsrAt, Threads
  <2>4. ASSUME NEW l \in {"d_done", "d_lock"}, NEW m \in {"c_check", "s_check"},
               Call("ssr", m, l), m = "c_check" => l = "d_done", m = "s_check" => l = "d_lock"
        PROVE  Positions'
    <3>1. <<l>> \o <<>> = <<l>> /\ <<l>> \in Returns
      BY Pushed DEF Returns
    <3>2. Control' /\ pc'["ssr"] = m /\ ret'["ssr"] = <<l>>
          /\ \A u \in Threads \ {"ssr"} : pc'[u] = pc[u] /\ ret'[u] = ret[u]
      BY <2>1, <2>4, <3>1, CalledTo DEF Labels, Positions, Threads
    <3>. QED  BY <2>4, <3>2 DEF Positions, SsrAt, Threads
  <2>5. ASSUME Return("ssr")  PROVE Positions'
    <3>1. Control' /\ pc'["ssr"] = "idle" /\ ret'["ssr"] = <<>>
          /\ \A u \in Threads \ {"ssr"} : pc'[u] = pc[u] /\ ret'[u] = ret[u]
      BY <2>1, <2>5, ReturnedTo DEF Positions, Threads
    <3>. QED  BY <3>1 DEF Positions, SsrAt, Threads
  <2>. QED  BY <1>1, <2>2, <2>3, <2>4, <2>5
<1>. QED  BY <1>2, <1>3, <1>4, <1>5, <1>6, <1>7, <1>8 DEF Next, Controller, Recovery

-----------------------------------------------------------------------------
\* The types, with the DSP bounded by what it can hold.
StrmType == [handle : {"none", "open", "closing"}, currentState : State,
             isPaused : BOOLEAN, mDevices : SUBSET Devices]
SesType == [open : BOOLEAN, compress : BOOLEAN, playback_started : BOOLEAN,
            isGaplessFmt : BOOLEAN, waiting : BOOLEAN]
WkPcs == {"none", "loop", "wait", "waited", "drain", "partial", "drained", "check",
          "call", "exited"}
Events == {"WRITE_READY", "DRAIN_READY", "PARTIAL_DRAIN_READY", "ERROR"}
WkType == [pc : WkPcs, ret : {"ok", "cancel", "error"}, event : Events,
           isDrainCalled : BOOLEAN]
VolumeType == [asked : {0, 1}, set : {0, 1}, dsp : {0, 1}, muteAsked : BOOLEAN,
               muted : BOOLEAN, unMutePending : BOOLEAN, lost : BOOLEAN]
DspType == [state : {"idle", "running", "cut"}, paused : BOOLEAN, filled : Nat]
AskType == [started : BOOLEAN, room : BOOLEAN, drain : {"none", "drain", "partial"},
            toDrain : Nat]

Typed ==
  /\ scenario \in Scenarios
  /\ strm \in StrmType /\ ses \in SesType /\ wk \in WkType /\ volume \in VolumeType
  /\ dsp \in DspType /\ dsp.filled <= Room /\ ask \in AskType
  /\ msg_queue_ \in Seq(Cmd)
  /\ dev \in UseType /\ registered \in SUBSET Devices /\ votes \in Nat /\ left \in Nat
  /\ card \in {"online", "lost"} /\ cardState \in {"online", "offline"} /\ downs \in Nat
  /\ mStreamMutex \in Threads \cup {None} /\ mActiveStreamMutex \in Threads \cup {None}

\* What the assumption on the constants says of the scenario at hand.
LEMMA ScenarioIs ==
  ASSUME Typed
  PROVE  /\ scenario.direction \in {"out", "in"} /\ scenario.isGaplessFmt \in BOOLEAN
         /\ Room \in Nat \ {0} /\ scenario.mDevices \in SUBSET Devices
BY CompressAssumption DEF Typed, Room

\* The members of a stream and of a session as their constructors leave them.
LEMMA NewsTyped ==
  ASSUME Typed
  PROVE  /\ \A h \in {"none", "open"} : NewStream(h) \in StrmType
         /\ NewWorker \in WkType /\ NewVolume \in VolumeType /\ NewDsp \in DspType
         /\ NoAsk \in AskType /\ \A g \in BOOLEAN : NewSession(g) \in SesType
BY ScenarioIs DEF NewStream, NewWorker, NewVolume, NewDsp, NoAsk, NewSession,
  StrmType, SesType, WkType, VolumeType, DspType, AskType, State, WkPcs, Events

\* What the loss of the card does to the DSP and to what was asked of it is of the types.
LEMMA CutTyped ==
  ASSUME Typed
  PROVE  Cut(ask) \in AskType /\ CutDsp(dsp) \in DspType /\ CutDsp(dsp).filled = dsp.filled
BY DEF Typed, Cut, CutDsp, AskType, DspType

\* A step of the thread that waits for the DSP (SessionAlsaCompress::offloadThreadLoop)
\* keeps the types.
LEMMA WorkerTyped ==
  ASSUME Typed, Worker
  PROVE  Typed'
<1>0. Threads = {"ctl", "wr", "ssr"}
  BY DEF Threads
<1>1. CASE WkPop
  <2>1. Head(msg_queue_) \in Cmd /\ msg_queue_' \in Seq(Cmd)
    BY <1>1 DEF WkPop, Typed
  <2>2. ses' \in SesType
    BY <1>1 DEF WkPop, Typed, SesType
  <2>3. wk' \in WkType
    BY <1>1, <2>1 DEF WkPop, Typed, WkType, Cmd, WkPcs, Events
  <2>. QED  BY <1>1, <2>1, <2>2, <2>3 DEF WkPop, Typed, workerOnly, deviceVars, cardVars, mutexes,
               Room
<1>2. CASE WkWait \/ WkDrain
  <2>1. ASSUME NEW b, NEW r \in Outcome(b)  PROVE r \in {"ok", "cancel", "error"}
    BY <2>1 DEF Outcome
  <2>2. wk' \in WkType
    <3>1. CASE WkWait
      <4>1. PICK r \in Outcome(dsp.filled < Room) :
              wk' = [wk EXCEPT !.ret = r, !.pc = "waited", !.event = "WRITE_READY"]
        BY <3>1 DEF WkWait
      <4>2. r \in {"ok", "cancel", "error"}
        BY <2>1
      <4>. QED  BY <4>1, <4>2 DEF Typed, WkType, WkPcs, Events
    <3>2. CASE WkDrain
      <4>. DEFINE next == wk.pc = "partial" /\ ses.isGaplessFmt
      <4>1. PICK r \in Outcome(IF next THEN dsp.filled <= 1 ELSE dsp.filled = 0) :
              wk' = CASE wk.pc = "drain" -> [wk EXCEPT !.ret = r, !.pc = "drained"]
                      [] next -> [wk EXCEPT !.ret = r, !.pc = "check",
                                     !.event = "PARTIAL_DRAIN_READY"]
                      [] OTHER -> [wk EXCEPT !.ret = r, !.pc = "check", !.isDrainCalled = TRUE,
                                      !.event = "DRAIN_READY"]
        BY <3>2 DEF WkDrain
      <4>2. r \in {"ok", "cancel", "error"}
        BY <2>1
      <4>. HIDE DEF next
      <4>. QED  BY <4>1, <4>2 DEF Typed, WkType, WkPcs, Events
    <3>. QED  BY <1>2, <3>1, <3>2
  <2>. QED  BY <1>2, <2>2 DEF WkWait, WkDrain, Typed, workerOnly, deviceVars, cardVars, mutexes,
               Room
<1>3. CASE WkWaited \/ WkCheck
  <2>1. wk' \in WkType /\ ses' \in SesType
    BY ZenonT(40), <1>3 DEF WkWaited, WkCheck, Typed, WkType, WkPcs, Events, SesType
  <2>. QED  BY <1>3, <2>1 DEF WkWaited, WkCheck, Typed, workerOnly, deviceVars, cardVars, mutexes,
               Room
<1>4. CASE WkCall
  <2>1. wk' \in WkType /\ ask' \in AskType
    BY <1>4 DEF WkCall, Typed, WkType, WkPcs, Events, AskType
  <2>. QED  BY <1>4, <2>1 DEF WkCall, Typed, workerOnly, deviceVars, cardVars, mutexes, Room
<1>. QED  BY <1>1, <1>2, <1>3, <1>4 DEF Worker

\* Starting the session keeps the types of what it changes.
LEMMA StartSessionTyped ==
  ASSUME Typed, NEW result, NEW D \in SUBSET Devices, NEW started \in UseType,
         result \in {"ok", "late", "compressOpen"}, StartSession(result, D, started)
  PROVE  /\ strm' \in StrmType /\ ses' \in SesType /\ wk' \in WkType
         /\ volume' \in VolumeType /\ ask' \in AskType /\ dev' \in UseType /\ votes' \in Nat
<1>1. Stopped(started, D) \in UseType
  BY ClosedStoppedTyped
<1>2. [NewWorker EXCEPT !.pc = "loop"] \in WkType
  BY NewsTyped DEF WkType, WkPcs
<1>3. CASE result = "ok"
  <2>1. /\ strm' = [strm EXCEPT !.currentState = "OPENED", !.mDevices = D]
        /\ ses' = [ses EXCEPT !.compress = TRUE] /\ wk' = [NewWorker EXCEPT !.pc = "loop"]
        /\ volume' = [volume EXCEPT !.dsp = volume.set]
        /\ ask' = [ask EXCEPT !.started = TRUE] /\ dev' = started /\ votes' = votes + 1
    BY <1>3 DEF StartSession
  <2>2. strm' \in StrmType
    BY <2>1 DEF Typed, StrmType, State
  <2>3. ses' \in SesType /\ ask' \in AskType /\ volume' \in VolumeType
    BY <2>1 DEF Typed, SesType, AskType, VolumeType
  <2>. QED  BY <1>2, <2>1, <2>2, <2>3 DEF Typed
<1>4. CASE result = "late"
  BY <1>1, <1>2, <1>4 DEF StartSession, Typed, StrmType, State, SesType
<1>5. CASE result = "compressOpen"
  BY <1>1, <1>5 DEF StartSession, Typed, StrmType, State
<1>. QED  BY <1>3, <1>4, <1>5

\* How the start of a session may end.
LEMMA ResultsAre == Results \subseteq {"ok", "late", "compressOpen"}
BY DEF Results

\* A call of the client keeps the types.
LEMMA ClientTyped ==
  ASSUME Typed, Client
  PROVE  Typed'
<1>0. Threads = {"ctl", "wr", "ssr"}
  BY DEF Threads
<1>1. CASE Open
  <2>1. \A D \in SUBSET Devices : Opened(dev, D) \in UseType
    BY OpenedStartedTyped DEF Typed
  <2>2. /\ NewStream("open") \in StrmType
        /\ [NewStream("open") EXCEPT !.currentState = "INIT"] \in StrmType
        /\ [ses EXCEPT !.open = TRUE] \in SesType
    BY NewsTyped DEF StrmType, State, SesType, Typed
  <2>3. strm' \in StrmType /\ ses' \in SesType /\ dev' \in UseType
    BY <1>1, <2>1, <2>2, ScenarioIs DEF Open, Typed, ProperSubsets
  <2>. QED  BY <1>1, <2>3 DEF Open, Typed, ctlOnly, cardVars, mutexes, Room
<1>2. CASE StartOutput
  <2>1. PICK failing \in SUBSET strm.mDevices :
       LET D == strm.mDevices \ failing
           startedDev == Started(Closed(dev, failing), D) IN
       /\ failing # {} => May("deviceStart")
       /\ IF D = {}
            THEN /\ strm' = [strm EXCEPT !.mDevices = {}] /\ dev' = startedDev
                 /\ UNCHANGED <<votes, ses, wk, volume, ask>>
            ELSE \E r \in Results : StartSession(r, D, startedDev)
    BY <1>2 DEF StartOutput
  <2>. DEFINE D == strm.mDevices \ failing
              startedDev == Started(Closed(dev, failing), D)
  <2>2. D \in SUBSET Devices /\ startedDev \in UseType
    BY ClosedStoppedTyped, OpenedStartedTyped DEF Typed, StrmType
  <2>. HIDE DEF D, startedDev
  <2>3. /\ strm' \in StrmType /\ ses' \in SesType /\ wk' \in WkType
        /\ volume' \in VolumeType /\ ask' \in AskType /\ dev' \in UseType /\ votes' \in Nat
    <3>1. CASE D = {}
      BY <2>1, <2>2, <3>1 DEF Typed, StrmType, D, startedDev
    <3>2. CASE D # {}
      BY <2>1, <2>2, <3>2, ResultsAre, StartSessionTyped DEF D, startedDev
    <3>. QED  BY <3>1, <3>2
  <2>. QED  BY <1>2, <2>3 DEF StartOutput, Typed, ctlOnly, cardVars, mutexes, Room
<1>3. CASE StartInput
  <2>1. \A D \in SUBSET Devices : Started(dev, D) \in UseType
    BY OpenedStartedTyped DEF Typed
  <2>2. /\ strm' \in StrmType /\ ses' \in SesType /\ volume' \in VolumeType /\ ask' \in AskType
        /\ dev' \in UseType /\ votes' \in Nat /\ left' \in Nat /\ registered' \in SUBSET Devices
    <3>1. strm' = strm \/ strm' = [strm EXCEPT !.currentState = "STARTED"]
      BY <1>3 DEF StartInput
    <3>2. ses' = ses \/ ses' = [ses EXCEPT !.compress = TRUE]
      BY <1>3 DEF StartInput
    <3>3. volume' = volume \/ volume' = [volume EXCEPT !.dsp = volume.set]
      BY <1>3 DEF StartInput
    <3>4. ask' = ask \/ ask' = [ask EXCEPT !.started = TRUE]
      BY <1>3 DEF StartInput
    <3>5. /\ dev' = dev \/ \E D \in SUBSET Devices : dev' = Started(dev, D)
          /\ votes' = votes \/ votes' = votes + 1
          /\ left' = left \/ left' = left + 1
          /\ registered' = registered \/ registered' = strm.mDevices
      BY <1>3 DEF StartInput, ProperSubsets, Typed, StrmType
    <3>6. strm' \in StrmType
      BY <3>1 DEF Typed, StrmType, State
    <3>7. ses' \in SesType /\ volume' \in VolumeType /\ ask' \in AskType
      BY <3>2, <3>3, <3>4 DEF Typed, SesType, VolumeType, AskType
    <3>8. dev' \in UseType /\ votes' \in Nat /\ left' \in Nat /\ registered' \in SUBSET Devices
      BY <2>1, <3>5 DEF Typed, StrmType
    <3>. QED  BY <3>6, <3>7, <3>8
  <2>. QED  BY <1>3, <2>2 DEF StartInput, Typed, cardVars, mutexes, Room
<1>4. CASE Write
  <2>1. /\ dsp' \in DspType /\ dsp'.filled <= Room /\ ses' \in SesType /\ ask' \in AskType
    <3>1. PICK short \in BOOLEAN :
            LET fits == dsp.filled < Room IN
            /\ dsp' = [dsp EXCEPT !.filled = IF fits THEN @ + 1 ELSE @,
                                 !.state = IF fits /\ ~ses.playback_started
                                             THEN "running" ELSE @]
            /\ ses' = [ses EXCEPT !.playback_started = @ \/ fits]
            /\ ask' = [ask EXCEPT !.room = @ \/ (short /\ ask.started)]
      BY <1>4 DEF Write
    <3>2. dsp' \in DspType /\ dsp'.filled <= Room
      <4>1. PICK f, d : dsp' = [dsp EXCEPT !.filled = f, !.state = d]
              /\ f = (IF dsp.filled < Room THEN dsp.filled + 1 ELSE dsp.filled)
              /\ d \in {"running", dsp.state}
        BY <3>1
      <4>2. f \in Nat /\ f <= Room
        BY <4>1, ScenarioIs DEF Typed, DspType
      <4>. QED  BY <4>1, <4>2 DEF Typed, DspType
    <3>3. ses' \in SesType
      BY <3>1 DEF Typed, SesType
    <3>4. ask' \in AskType
      <4>1. PICK b : ask' = [ask EXCEPT !.room = b] /\ b \in BOOLEAN
        <5>1. (ask.room \/ (short /\ ask.started)) \in BOOLEAN
          OBVIOUS
        <5>. QED  BY <3>1, <5>1
      <4>. QED  BY <4>1 DEF Typed, AskType
    <3>. QED  BY <3>2, <3>3, <3>4
  <2>2. msg_queue_' \in Seq(Cmd)
    BY <1>4 DEF Write, Typed, Cmd
  <2>3. strm' \in StrmType
    BY <1>4 DEF Write, Typed, StrmType, State
  <2>. QED  BY <1>4, <2>1, <2>2, <2>3 DEF Write, Typed, deviceVars, cardVars, mutexes, Room
<1>5. CASE Drain
  <2>1. PICK cmd \in {"drain", "partial"} :
          /\ msg_queue_' = Append(msg_queue_, cmd)
          /\ ask' = [ask EXCEPT !.drain = cmd, !.toDrain = dsp.filled]
    BY <1>5 DEF Drain
  <2>2. ask' \in AskType
    BY <2>1 DEF Typed, AskType, DspType
  <2>3. msg_queue_' \in Seq(Cmd)
    BY <2>1 DEF Typed, Cmd
  <2>. QED  BY <1>5, <2>2, <2>3 DEF Drain, Typed, streamVars, deviceVars, cardVars, mutexes, Room
<1>6. CASE Flush
  <2>1. ask' \in AskType /\ dsp' \in DspType /\ dsp'.filled <= Room
    BY <1>6, ScenarioIs DEF Flush, Typed, AskType, DspType
  <2>. QED  BY <1>6, <2>1 DEF Flush, Typed, streamVars, deviceVars, cardVars, mutexes, Room
<1>7. ASSUME NEW v \in VolumeType, NEW level \in {0, 1}
      PROVE  Applied(v, level) \in VolumeType
  BY <1>7 DEF Applied, VolumeType
<1>8. CASE SetVolume \/ Mute
  <2>1. volume' \in VolumeType
    <3>1. CASE SetVolume
      <4>1. PICK level \in {0, 1} :
        LET asked == [volume EXCEPT !.asked = level] IN
        volume' = IF /\ CardUp /\ CardThere /\ ~strm.isPaused
                    /\ strm.currentState \notin {"IDLE", "INIT"}
                   THEN Applied(asked, level) ELSE [asked EXCEPT !.set = level]
        BY <3>1 DEF SetVolume
      <4>2. [volume EXCEPT !.asked = level] \in VolumeType
            /\ [[volume EXCEPT !.asked = level] EXCEPT !.set = level] \in VolumeType
        BY DEF Typed, VolumeType
      <4>. QED  BY <4>1, <4>2, <1>7
    <3>2. CASE Mute
      BY <3>2 DEF Mute, Typed, VolumeType
    <3>. QED  BY <1>8, <3>1, <3>2
  <2>. QED  BY <1>8, <2>1 DEF SetVolume, Mute, Typed, ctlVolume, deviceVars, cardVars, mutexes, Room
<1>9. CASE Pause \/ Resume
  <2>1. volume' \in VolumeType
    <3>1. volume.set \in {0, 1} /\ Applied(volume, 0) \in VolumeType
          /\ Applied(volume, volume.set) \in VolumeType
      BY <1>7 DEF Typed, VolumeType
    <3>2. [Applied(volume, 0) EXCEPT !.set = volume.set] \in VolumeType
      BY <3>1 DEF VolumeType
    <3>. QED  BY <1>9, <3>1, <3>2 DEF Pause, Resume, Typed
  <2>2. strm' \in StrmType /\ dsp' \in DspType /\ dsp'.filled = dsp.filled
    BY <1>9 DEF Pause, Resume, Typed, StrmType, State, DspType
  <2>. QED  BY <1>9, <2>1, <2>2 DEF Pause, Resume, Typed, ctlVolume, deviceVars, cardVars, mutexes,
               Room
<1>10. CASE Stop \/ CloseBegin
  <2>1. ask' \in AskType /\ strm' \in StrmType
    BY <1>10, CutTyped DEF Stop, CloseBegin, streamVars, Typed, StrmType
  <2>. QED  BY <1>10, <2>1 DEF Stop, CloseBegin, Typed, streamVars, deviceVars, cardVars, mutexes,
               Room
<1>. QED  BY <1>1, <1>2, <1>3, <1>4, <1>5, <1>6, <1>8, <1>9, <1>10 DEF Client

\* A step of stop or of close keeps the types.
LEMMA StopCloseTyped ==
  ASSUME Typed, NEW t \in {"ctl", "ssr"}, StopClose(t)
  PROVE  Typed'
<1>0. Threads = {"ctl", "wr", "ssr"} /\ t \in Threads
  BY DEF Threads
<1>1. CASE StopCheck(t) \/ CloseCheck(t)
  BY <1>1 DEF StopCheck, CloseCheck, Typed, streamVars, deviceVars, cardVars, mutexes, Room
<1>2. CASE StopLockActive(t)
  BY <1>0, <1>2 DEF StopLockActive, Typed, streamVars, deviceVars, cardVars, Room
<1>3. CASE StopRun(t)
  <2>1. strm' \in StrmType /\ registered' \in SUBSET Devices /\ votes' \in Nat
    BY <1>3 DEF StopRun, Typed, StrmType, State
  <2>2. dev' \in UseType /\ dsp' \in DspType /\ dsp'.filled = dsp.filled
    BY <1>3, CutTyped, ClosedStoppedTyped DEF StopRun, Typed
  <2>3. ses' \in SesType
    BY <1>3 DEF StopRun, Typed, SesType
  <2>. QED  BY <1>3, <2>1, <2>2, <2>3 DEF StopRun, Typed, cardVars, Room
<1>4. CASE CloseRun(t)
  <2>1. msg_queue_' \in Seq(Cmd)
    <3>1. <<"exit">> \in Seq(Cmd) /\ <<"error", "exit">> \in Seq(Cmd)
      BY DEF Cmd
    <3>2. /\ msg_queue_ \o <<"exit">> \in Seq(Cmd)
          /\ msg_queue_ \o <<"error", "exit">> \in Seq(Cmd)
      BY <3>1, ConcatProperties DEF Typed
    <3>3. \/ msg_queue_' = msg_queue_ \/ msg_queue_' = msg_queue_ \o <<"exit">>
          \/ msg_queue_' = msg_queue_ \o <<"error", "exit">>
      BY <1>4 DEF CloseRun
    <3>. QED  BY <3>2, <3>3 DEF Typed
  <2>2. ses' = [ses EXCEPT !.open = FALSE] /\ (left' = left \/ left' = left + 1)
    BY <1>4 DEF CloseRun
  <2>3. ses' \in SesType /\ left' \in Nat
    <3>1. ses \in SesType /\ left \in Nat
      BY DEF Typed
    <3>2. ses' \in SesType
      BY <2>2, <3>1 DEF SesType
    <3>. QED  BY <2>2, <3>1, <3>2
  <2>4. /\ mStreamMutex' = t
        /\ UNCHANGED <<scenario, strm, volume, wk, dsp, dev, registered, votes, cardVars,
                       mActiveStreamMutex, ask>>
    BY <1>4 DEF CloseRun
  <2>. QED  BY <1>0, <2>1, <2>3, <2>4 DEF Typed, cardVars, Room
<1>5. CASE CloseJoin(t)
  <2>1. <<>> \in Seq(Cmd)
    OBVIOUS
  <2>. QED  BY <1>5, <2>1, NewsTyped DEF CloseJoin, Typed, streamVars, deviceVars, cardVars,
               mutexes, Room
<1>6. CASE CloseRest(t)
  <2>1. ses' \in SesType /\ strm' \in StrmType /\ dev' \in UseType
    BY <1>6, ClosedStoppedTyped DEF CloseRest, Typed, SesType, StrmType, State
  <2>. QED  BY <1>6, <2>1 DEF CloseRest, Typed, cardVars, Room
<1>. QED  BY <1>1, <1>2, <1>3, <1>4, <1>5, <1>6 DEF StopClose

\* Every step keeps the types.
LEMMA StepTyped ==
  ASSUME Typed, Next
  PROVE  Typed'
<1>0. Threads = {"ctl", "wr", "ssr"}
  BY DEF Threads
<1>1. CASE Play \/ LoseCard
  <2>1. dsp' \in DspType /\ dsp'.filled <= Room /\ ask' \in AskType
    <3>1. CASE Play
      <4>1. dsp' \in DspType /\ dsp'.filled <= Room
        BY <3>1, ScenarioIs DEF Play, Typed, DspType
      <4>2. ask' \in AskType
        BY <3>1 DEF Play, Typed, AskType
      <4>. QED  BY <4>1, <4>2
    <3>2. CASE LoseCard
      BY <3>2, CutTyped DEF LoseCard, Typed
    <3>. QED  BY <1>1, <3>1, <3>2
  <2>. QED  BY <1>1, <2>1 DEF Play, LoseCard, Typed, streamVars, deviceVars, cardVars, mutexes, Room
<1>2. CASE Delete
  <2>1. 0 <= Room /\ NewDsp.filled = 0
    BY ScenarioIs DEF NewDsp
  <2>2. NewSession(ses.isGaplessFmt) \in SesType
    BY NewsTyped DEF Typed, SesType
  <2>. QED  BY <1>2, <2>1, <2>2, NewsTyped DEF Delete, Typed, deviceVars, cardVars, mutexes, Room
<1>3. CASE Writer
  BY <1>0, <1>3 DEF Writer, WriteLockActive, WriteRegister, Typed, StrmType, streamVars,
     deviceVars, cardVars, mutexes, Room
<1>4. CASE SsrDown \/ SsrDownCheck \/ SsrDownLock \/ SsrUp
  BY <1>0, <1>4 DEF SsrDown, SsrDownCheck, SsrDownLock, SsrUp, Typed, streamVars, deviceVars,
     cardVars, mutexes, Room
<1>5. CASE SsrDownDone
  <2>1. strm' \in StrmType
    BY <1>5 DEF SsrDownDone, Typed, StrmType, State
  <2>. QED  BY <1>5, <2>1 DEF SsrDownDone, Typed, deviceVars, cardVars, Room
<1>. QED  BY <1>1, <1>2, <1>3, <1>4, <1>5, ClientTyped, WorkerTyped, StopCloseTyped DEF Next,
             Controller, Recovery

-----------------------------------------------------------------------------
\* A handle is closing while its close runs, none is left when nothing runs on it; the recovery
\* runs when the card is away; who joins the worker holds the mutex of the stream.
Linked ==
  /\ ret["ctl"] # <<>> \/ pc["ctl"] = "delete" => strm.handle = "closing"
  /\ strm.handle = "none" => pc["ctl"] = "idle" /\ pc["ssr"] = "idle"
  /\ pc["ssr"] # "idle" => ~CardUp
  /\ \A t \in Threads : pc[t] \in {"c_join", "c_rest"} => mStreamMutex = t

\* What a step of a call that stops or closes does to the places of the threads.
LEMMA StopClosePlaces ==
  ASSUME Positions, NEW t \in {"ctl", "ssr"}, StopClose(t)
  PROVE  /\ \A u \in Threads \ {t} : pc'[u] = pc[u] /\ ret'[u] = ret[u]
         /\ pc[t] \notin {"idle", "delete", "d_check", "d_lock", "d_done"}
         /\ pc'["ctl"] # "delete" => (ret'["ctl"] # <<>> => ret["ctl"] # <<>>)
         /\ pc'["ctl"] = "delete" => ret["ctl"] # <<>> \/ pc["ctl"] = "delete"
         /\ pc'[t] \in {"c_join", "c_rest"} => 
              \/ StreamFree /\ mStreamMutex' = t
              \/ pc[t] = "c_join" /\ UNCHANGED mStreamMutex
         /\ pc[t] = "c_rest" => mStreamMutex' = None
         /\ pc[t] \notin {"c_rest", "c_run"} => UNCHANGED mStreamMutex
         /\ pc[t] = "c_run" => StreamFree
<1>1. t \in Threads /\ Control /\ Positions'
  BY StopCloseGoes DEF Threads, Positions
<1>. DEFINE Others == \A u \in Threads \ {t} : pc'[u] = pc[u] /\ ret'[u] = ret[u]
<1>5. CASE StopCheck(t)
  <2>1. Goto(t, "s_active") \/ Return(t)
    BY <1>5 DEF StopCheck
  <2>2. ASSUME Goto(t, "s_active") PROVE Others /\ pc'[t] = "s_active" /\ ret' = ret
    BY <1>1, <2>2, GoneTo DEF Labels
  <2>. QED  BY <1>1, <1>5, <2>1, <2>2, GoneBack DEF StopCheck, mutexes, Positions, CtlAt, SsrAt,
               Threads
<1>6. CASE StopLockActive(t)
  <2>1. Others /\ pc'[t] = "s_run" /\ ret' = ret
    BY <1>1, <1>6, GoneTo DEF Labels, StopLockActive
  <2>. QED  BY <1>1, <1>6, <2>1 DEF StopLockActive, Positions, CtlAt, SsrAt, Threads
<1>7. CASE StopRun(t)
  BY <1>1, <1>7, GoneBack DEF StopRun, Positions, CtlAt, SsrAt, Threads
<1>8. CASE CloseCheck(t)
  <2>1. Goto(t, "c_run") \/ Return(t) \/ Call(t, "s_check", "c_run")
    BY <1>8 DEF CloseCheck
  <2>2. ASSUME Goto(t, "c_run") PROVE Others /\ pc'[t] = "c_run" /\ ret' = ret
    BY <1>1, <2>2, GoneTo DEF Labels
  <2>3. ASSUME Call(t, "s_check", "c_run") PROVE Others /\ pc'[t] = "s_check"
    BY <1>1, <2>3 DEF Control, Call
  <2>. QED  BY <1>1, <1>8, <2>1, <2>2, <2>3, GoneBack DEF CloseCheck, mutexes, Positions, CtlAt,
               SsrAt, Threads
<1>9. CASE CloseRun(t)
  <2>1. PICK l \in {"c_rest", "c_join"} : Goto(t, l)
    BY <1>9 DEF CloseRun
  <2>2. Others /\ pc'[t] = l /\ ret' = ret
    BY <1>1, <2>1, GoneTo DEF Labels
  <2>3. StreamFree /\ mStreamMutex' = t /\ pc[t] = "c_run"
    BY <1>9 DEF CloseRun
  <2>. QED  BY <1>1, <2>2, <2>3 DEF Positions, CtlAt, SsrAt, Threads
<1>10. CASE CloseJoin(t)
  <2>1. Others /\ pc'[t] = "c_rest" /\ ret' = ret
    BY <1>1, <1>10, GoneTo DEF Labels, CloseJoin
  <2>. QED  BY <1>1, <1>10, <2>1 DEF CloseJoin, mutexes, Positions, CtlAt, SsrAt, Threads
<1>11. CASE CloseRest(t)
  BY <1>1, <1>11, GoneBack DEF CloseRest, Positions, CtlAt, SsrAt, Threads
<1>. QED  BY <1>5, <1>6, <1>7, <1>8, <1>9, <1>10, <1>11 DEF StopClose

\* What stop and close leave alone: the handle, the pause, the devices, the volume, the card.
LEMMA StopCloseKeeps ==
  ASSUME Typed, NEW t, StopClose(t)
  PROVE  /\ strm'.handle = strm.handle /\ strm'.isPaused = strm.isPaused
         /\ strm'.mDevices = strm.mDevices /\ ses'.isGaplessFmt = ses.isGaplessFmt
         /\ UNCHANGED <<scenario, volume, ask, card, cardState, downs>>
BY DEF StopClose, StopCheck, StopLockActive, StopRun, CloseCheck, CloseRun, CloseJoin, CloseRest,
       streamVars, deviceVars, cardVars, mutexes, Typed, StrmType, SesType

\* Every step keeps the places of the threads and the handle together.
LEMMA StepLinked ==
  ASSUME Typed, Positions, Linked, Next
  PROVE  Linked'
<1>1. Positions' /\ Typed'
  BY StepPositions, StepTyped
<1>2. CASE UNCHANGED <<pc, ret, mStreamMutex>>
           /\ (strm'.handle = strm.handle \/ strm.handle = "none")
           /\ (pc["ssr"] # "idle" => UNCHANGED cardState)
           /\ (strm'.handle # "none" \/ strm.handle = "none")
  BY <1>2 DEF Linked, CardUp, Positions, CtlAt
<1>3. CASE Client
  <2>1. CASE Stop \/ CloseBegin \/ Write
    <3>1. UNCHANGED <<mStreamMutex, cardState>>
      BY <2>1 DEF Stop, CloseBegin, Write, mutexes, cardVars
    <3>2. CASE Stop
      <4>1. pc'["ctl"] = "s_active" /\ ret' = ret /\ ret["ctl"] = <<>>
            /\ pc'["ssr"] = pc["ssr"] /\ strm' = strm /\ pc'["wr"] = pc["wr"]
            /\ strm.handle = "open"
        BY <3>2, GoneTo DEF Stop, Labels, Threads, streamVars, Positions, CtlAt, CtlMay
      <4>. QED  BY <3>1, <3>2, <4>1 DEF Linked, CardUp, Threads
    <3>3. CASE CloseBegin
      <4>1. pc'["ctl"] = "c_check" /\ pc'["ssr"] = pc["ssr"] /\ pc'["wr"] = pc["wr"]
        BY <3>3 DEF CloseBegin, Call, Threads, Positions, Control
      <4>2. strm'.handle = "closing"
        BY <3>3 DEF CloseBegin, Typed, StrmType
      <4>. QED  BY <3>1, <3>3, <4>1, <4>2 DEF Linked, CardUp, Threads
    <3>4. CASE Write
      <4>1. pc'["ctl"] = pc["ctl"] /\ pc'["ssr"] = pc["ssr"] /\ ret' = ret
            /\ pc'["wr"] \in {pc["wr"], "w_active"}
        BY <3>4, GoneTo DEF Write, Labels, Threads, Positions
      <4>2. strm'.handle = strm.handle
        BY <3>4 DEF Write, Typed, StrmType
      <4>. QED  BY <3>1, <3>4, <4>1, <4>2 DEF Linked, CardUp, Threads
    <3>. QED  BY <2>1, <3>2, <3>3, <3>4
  <2>2. CASE Open
    <3>1. strm'.handle \in {"open", "none"} /\ strm.handle = "none"
          /\ UNCHANGED <<pc, ret, mStreamMutex, cardState>>
      BY <2>2 DEF Open, NewStream, ctlOnly, cardVars, mutexes
    <3>. QED  BY <1>2, <3>1
  <2>3. CASE StartOutput
    <3>1. strm'.handle = strm.handle
      BY <2>3 DEF StartOutput, StartSession, Results, Typed, StrmType
    <3>. QED  BY <1>2, <2>3, <3>1 DEF StartOutput, ctlOnly, cardVars, mutexes, Linked
  <2>4. CASE StartInput
    <3>1. strm'.handle = strm.handle
      BY <2>4 DEF StartInput, Typed, StrmType
    <3>. QED  BY <1>2, <2>4, <3>1 DEF StartInput, cardVars, mutexes, Linked
  <2>5. CASE Pause \/ Resume
    <3>1. strm'.handle = strm.handle
      BY <2>5 DEF Pause, Resume, Typed, StrmType
    <3>. QED  BY <1>2, <2>5, <3>1 DEF Pause, Resume, ctlVolume, cardVars, mutexes, Linked
  <2>6. CASE Drain \/ Flush \/ SetVolume \/ Mute
    BY <1>2, <2>6 DEF Drain, Flush, SetVolume, Mute, ctlVolume, streamVars, cardVars, mutexes,
       Linked
  <2>. QED  BY <1>3, <2>1, <2>2, <2>3, <2>4, <2>5, <2>6 DEF Client
<1>4. CASE Worker
  BY <1>2, <1>4 DEF Worker, WkPop, WkWait, WkWaited, WkDrain, WkCheck, WkCall, workerOnly,
     cardVars, mutexes, Linked
<1>5. CASE Play \/ LoseCard \/ SsrUp
  BY <1>2, <1>5 DEF Play, LoseCard, SsrUp, streamVars, cardVars, mutexes, Linked
<1>6. ASSUME NEW t \in {"ctl", "ssr"}, StopClose(t)  PROVE Linked'
  <2>1. strm'.handle = strm.handle /\ cardState' = cardState
    BY <1>6, StopCloseKeeps
  <2>2. t \in Threads /\ None \notin Threads
    BY CompressAssumption DEF Threads
  <2>3. \A u \in Threads : pc'[u] \in {"c_join", "c_rest"} => mStreamMutex' = u
    BY <1>6, <2>2, StopClosePlaces DEF Linked, StreamFree
  <2>4. strm.handle = "none" => pc'["ctl"] = "idle" /\ pc'["ssr"] = "idle"
    BY <1>6, StopClosePlaces DEF Linked, Threads
  <2>5. ret'["ctl"] # <<>> \/ pc'["ctl"] = "delete" => strm.handle = "closing"
    BY <1>6, StopClosePlaces DEF Linked, Threads
  <2>6. pc'["ssr"] # "idle" => ~CardUp
    BY <1>6, StopClosePlaces DEF Linked, Threads
  <2>. QED  BY <2>1, <2>3, <2>4, <2>5, <2>6 DEF Linked, CardUp
<1>7. CASE Delete
  <2>1. /\ pc'["ctl"] = "idle" /\ ret' = ret /\ pc'["ssr"] = pc["ssr"] /\ pc'["wr"] = pc["wr"]
        /\ pc["ssr"] = "idle" /\ ret["ctl"] = <<>> /\ UNCHANGED <<mStreamMutex, cardState>>
    BY <1>7, GoneTo DEF Delete, Labels, Threads, Positions, CtlAt, cardVars, mutexes
  <2>. QED  BY <2>1 DEF Linked, Threads
<1>8. CASE Writer
  <2>1. /\ \A u \in {"ctl", "ssr"} : pc'[u] = pc[u] /\ ret'[u] = ret[u]
        /\ UNCHANGED <<strm, mStreamMutex, cardState>>
    BY <1>8 DEF Writer, WriteLockActive, WriteRegister, Goto, Return, Positions, Control, Threads,
       streamVars, cardVars
  <2>2. pc'["wr"] \notin {"c_join", "c_rest"}
    BY <1>1 DEF Positions, WrAt
  <2>. QED  BY <2>1, <2>2 DEF Linked, Threads, CardUp
<1>9. CASE SsrDown \/ SsrDownCheck \/ SsrDownLock \/ SsrDownDone
  <2>1. /\ \A u \in {"ctl", "wr"} : pc'[u] = pc[u] /\ ret'[u] = ret[u]
        /\ UNCHANGED mStreamMutex /\ strm'.handle = strm.handle
        /\ pc'["ssr"] \notin {"c_join", "c_rest"}
    <3>1. CASE SsrDown
      BY <3>1 DEF SsrDown, Goto, Positions, Control, Threads, streamVars, SsrAt
    <3>2. CASE SsrDownCheck
      BY <3>2 DEF SsrDownCheck, Goto, Call, Positions, Control, Threads, streamVars, mutexes, SsrAt
    <3>3. CASE SsrDownLock
      BY <3>3 DEF SsrDownLock, Goto, Call, Positions, Control, Threads, streamVars, mutexes, SsrAt
    <3>4. CASE SsrDownDone
      <4>1. ret["ssr"] = <<>> /\ pc'["ssr"] = "idle"
        BY <3>4, GoneBack DEF SsrDownDone, Positions, SsrAt
      <4>2. strm'.handle = strm.handle
        BY <3>4 DEF SsrDownDone, Typed, StrmType
      <4>. QED  BY <3>4, <4>1, <4>2, GoneBack DEF SsrDownDone, Threads
    <3>. QED  BY <1>9, <3>1, <3>2, <3>3, <3>4
  <2>2. pc'["ssr"] # "idle" => ~CardUp' /\ strm.handle # "none"
    <3>1. CASE SsrDown
      BY <3>1 DEF SsrDown, CardUp, Linked
    <3>2. CASE SsrDownCheck \/ SsrDownLock \/ SsrDownDone
      BY <3>2 DEF SsrDownCheck, SsrDownLock, SsrDownDone, CardUp, Linked, cardVars
    <3>. QED  BY <1>9, <3>1, <3>2
  <2>. QED  BY <2>1, <2>2 DEF Linked, Threads
<1>. QED  BY <1>3, <1>4, <1>5, <1>6, <1>7, <1>8, <1>9 DEF Next, Controller, Recovery

-----------------------------------------------------------------------------
\* A stream that plays.
Playing ==
  ask.started => /\ CardThere /\ CardUp /\ strm.handle = "open" /\ pc["ctl"] = "idle"
                 /\ strm.currentState \notin {"IDLE", "INIT"}

\* Neither a stop, a close nor the recovery meets a stream that plays.
LEMMA QuietSteps ==
  ASSUME Typed, Positions, Linked, Playing,
         \/ \E t \in {"ctl", "ssr"} : StopClose(t)
         \/ SsrDown \/ SsrDownCheck \/ SsrDownLock \/ SsrDownDone \/ SsrUp \/ Delete
  PROVE  ~ask.started /\ ~ask'.started
<1>1. ASSUME NEW t \in {"ctl", "ssr"}, StopClose(t)  PROVE ~ask.started /\ ~ask'.started
  <2>1. pc[t] # "idle" /\ ask' = ask
    BY <1>1, StopClosePlaces, StopCloseKeeps
  <2>. QED  BY <2>1 DEF Playing, Linked
<1>2. CASE SsrDown \/ SsrDownCheck \/ SsrDownLock \/ SsrDownDone \/ SsrUp
  BY <1>2 DEF Playing, Linked, SsrDown, SsrDownCheck, SsrDownLock, SsrDownDone, SsrUp, CardThere,
     CardUp
<1>3. CASE Delete
  BY <1>3 DEF Playing, Delete, NoAsk
<1>. QED  BY <1>1, <1>2, <1>3

\* The client and the card.
\* A stream that plays is open, has its card and no call that ends it, after every step.
LEMMA StepPlaying ==
  ASSUME Typed, Positions, Linked, Playing, Next
  PROVE  Playing'
<1>1. CASE Client
  <2>1. CASE Stop \/ CloseBegin
    BY <2>1 DEF Stop, CloseBegin, Cut, Playing, Typed, AskType
  <2>2. CASE Open
    BY <2>2 DEF Open, Playing
  <2>3. CASE StartOutput
    <3>1. pc["ctl"] = "idle" /\ CardUp /\ strm.handle = "open" /\ UNCHANGED <<pc, card, cardState>>
      BY <2>3 DEF StartOutput, CtlMay, ctlOnly, cardVars
    <3>2. ~ask.started
      BY <2>3 DEF StartOutput, Playing
    <3>3. CASE ask' = ask
      BY <3>2, <3>3 DEF Playing
    <3>4. ASSUME NEW D, NEW dv, StartSession("ok", D, dv), "ok" \in Results  PROVE Playing'
      <4>1. CardThere
        BY <3>4 DEF Results
      <4>2. strm'.handle = "open" /\ strm'.currentState = "OPENED"
        BY <3>1, <3>4 DEF StartSession, Typed, StrmType
      <4>. QED  BY <3>1, <4>1, <4>2 DEF Playing, CardThere, CardUp
    <3>5. \/ ask' = ask
          \/ \E D, dv : StartSession("ok", D, dv) /\ "ok" \in Results
      <4>1. \A r \in {"late", "compressOpen"} : \A D, dv : StartSession(r, D, dv) => ask' = ask
        BY DEF StartSession
      <4>2. ask' = ask \/ \E r \in Results : \E D, dv : StartSession(r, D, dv)
        BY <2>3 DEF StartOutput
      <4>. QED  BY <4>1, <4>2, ResultsAre
    <3>. QED  BY <3>3, <3>4, <3>5
  <2>4. CASE StartInput
    <3>1. pc["ctl"] = "idle" /\ CardUp /\ strm.handle = "open" /\ UNCHANGED <<pc, card, cardState>>
          /\ ~ask.started
      BY <2>4 DEF StartInput, CtlMay, cardVars, Playing
    <3>2. \/ ask' = ask
          \/ "ok" \in Results /\ strm' = [strm EXCEPT !.currentState = "STARTED"]
      BY <2>4 DEF StartInput
    <3>. QED  BY <3>1, <3>2 DEF Playing, CardThere, CardUp, Results, Typed, StrmType
  <2>5. CASE Write
    <3>1. UNCHANGED <<card, cardState>> /\ pc'["ctl"] = pc["ctl"]
      BY <2>5 DEF Write, cardVars, Goto, Positions, Control, Threads
    <3>2. ask'.started = ask.started
      BY <2>5 DEF Write, Typed, AskType
    <3>3. strm'.handle = strm.handle /\ strm'.currentState \in {strm.currentState, "STARTED"}
      BY <2>5 DEF Write, Typed, StrmType
    <3>. QED  BY <3>1, <3>2, <3>3 DEF Playing, CardThere, CardUp
  <2>6. CASE Pause \/ Resume
    <3>1. strm'.handle = strm.handle /\ strm'.currentState \in {strm.currentState, "PAUSED"}
      BY <2>6 DEF Pause, Resume, Typed, StrmType
    <3>. QED  BY <2>6, <3>1 DEF Pause, Resume, ctlVolume, cardVars, Playing, CardThere, CardUp
  <2>7. CASE Drain \/ Flush \/ SetVolume \/ Mute
    <3>1. ask'.started = ask.started
      BY <2>7 DEF Drain, Flush, SetVolume, Mute, Typed, AskType
    <3>. QED  BY <2>7, <3>1 DEF Drain, Flush, SetVolume, Mute, ctlVolume, streamVars, cardVars,
                 Playing, CardThere, CardUp
  <2>. QED  BY <1>1, <2>1, <2>2, <2>3, <2>4, <2>5, <2>6, <2>7 DEF Client
<1>2. CASE Worker
  <2>1. ask'.started = ask.started
    BY <1>2 DEF Worker, WkPop, WkWait, WkWaited, WkDrain, WkCheck, WkCall, Typed, AskType
  <2>2. UNCHANGED workerOnly
    BY <1>2 DEF Worker, WkPop, WkWait, WkWaited, WkDrain, WkCheck, WkCall
  <2>. QED  BY <2>1, <2>2 DEF workerOnly, cardVars, Playing, CardThere, CardUp
<1>3. CASE LoseCard
  BY <1>3 DEF LoseCard, Cut, Playing, Typed, AskType
<1>4. CASE Play
  <2>1. ask'.started = ask.started
    BY <1>4 DEF Play, Typed, AskType
  <2>. QED  BY <1>4, <2>1 DEF Play, streamVars, cardVars, Playing, CardThere, CardUp
<1>5. CASE Writer
  BY <1>5 DEF Writer, WriteLockActive, WriteRegister, Goto, Return, Positions, Control, Threads,
     streamVars, cardVars, Playing, CardThere, CardUp
<1>. QED  BY <1>1, <1>2, <1>3, <1>4, <1>5, QuietSteps DEF Next, Controller, Recovery, Playing

-----------------------------------------------------------------------------
\* The volume set is the one asked for, and the DSP has it while the stream plays; a mute that waits
\* for the stream to start is the only thing that may differ.
Sound ==
  /\ volume.asked = volume.set
  /\ ask.started /\ ~strm.isPaused
       => volume.dsp = volume.set /\ (volume.unMutePending => volume.set = 0)
  /\ ~volume.lost => IF volume.unMutePending THEN ~volume.muteAsked
                     ELSE volume.muted = volume.muteAsked
  /\ strm.currentState = "INIT" \/ strm.handle = "none" => ~volume.unMutePending

\* What a volume that is applied does (setVolume on a running stream).
LEMMA AppliedAt ==
  ASSUME NEW v \in VolumeType, NEW level \in {0, 1}
  PROVE  LET w == Applied(v, level) IN
         /\ w.asked = v.asked /\ w.set = level /\ w.dsp = level
         /\ w.muteAsked = v.muteAsked /\ w.lost = v.lost
         /\ w.unMutePending <=> v.unMutePending /\ level = 0
         /\ w.muted <=> v.muted /\ ~(v.unMutePending /\ level > 0)
BY DEF Applied, VolumeType

\* Every step keeps the volume and the mute the DSP has those that were asked for.
LEMMA StepSound ==
  ASSUME Typed, Positions, Linked, Playing, Sound, Next
  PROVE  Sound'
<1>1. CASE Client
  <2>1. CASE Stop \/ CloseBegin
    <3>1. ~ask'.started
      BY <2>1 DEF Stop, CloseBegin, Cut, Playing, Typed, AskType
    <3>2. volume' = volume /\ strm'.currentState = strm.currentState
          /\ (strm'.handle = "none" => strm.handle = "none")
      BY <2>1 DEF Stop, CloseBegin, streamVars, Typed, StrmType
    <3>. QED  BY <3>1, <3>2 DEF Sound
  <2>2. CASE Open
    <3>1. strm.handle = "none" /\ UNCHANGED <<volume, ask>>
      BY <2>2 DEF Open
    <3>2. ~ask.started
      BY <3>1 DEF Playing
    <3>. QED  BY <3>1, <3>2 DEF Sound
  <2>3. CASE StartOutput \/ StartInput
    <3>1. strm.currentState = "INIT" /\ strm.handle = "open"
      BY <2>3 DEF StartOutput, StartInput, CtlMay
    <3>2. \/ UNCHANGED <<volume, ask>>
          \/ volume' = [volume EXCEPT !.dsp = volume.set]
      BY <2>3, ResultsAre DEF StartOutput, StartInput, StartSession
    <3>3. ~ask.started
      BY <3>1 DEF Playing
    <3>. QED  BY <3>1, <3>2, <3>3 DEF Sound, Typed, VolumeType
  <2>4. CASE Write
    <3>2. ask'.started = ask.started
      BY <2>4 DEF Write, Typed, AskType
    <3>3. strm'.handle = strm.handle /\ strm'.currentState \in {strm.currentState, "STARTED"}
          /\ strm'.isPaused = strm.isPaused
      BY <2>4 DEF Write, Typed, StrmType
    <3>. QED  BY <2>4, <3>2, <3>3 DEF Write, Sound
  <2>5. CASE Pause
    <3>1. strm'.handle = strm.handle /\ strm'.currentState \in {strm.currentState, "PAUSED"}
          /\ strm'.isPaused = TRUE
      BY <2>5 DEF Pause, Typed, StrmType
    <3>2. CASE UNCHANGED volume
      BY <3>1, <3>2 DEF Sound
    <3>3. CASE volume' = [Applied(volume, 0) EXCEPT !.set = volume.set]
      <4>1. /\ volume'.asked = volume.asked /\ volume'.set = volume.set
            /\ volume'.lost = volume.lost
            /\ volume'.unMutePending = volume.unMutePending /\ volume'.muted = volume.muted
            /\ volume'.muteAsked = volume.muteAsked
        BY <3>3 DEF Applied, Typed, VolumeType
      <4>. QED  BY <3>1, <4>1 DEF Sound
    <3>. QED  BY <2>5, <3>2, <3>3 DEF Pause
  <2>6. CASE Resume
    <3>1. strm' = [strm EXCEPT !.isPaused = FALSE] /\ ask.started /\ ask' = ask
          /\ volume' = Applied(volume, volume.set) /\ strm.handle = "open"
          /\ strm.currentState # "INIT"
      BY <2>6 DEF Resume, Playing
    <3>2. strm'.handle = "open" /\ strm'.currentState # "INIT"
      BY <3>1 DEF Typed, StrmType
    <3>3. volume \in VolumeType /\ volume.set \in {0, 1}
      BY DEF Typed, VolumeType
    <3>4. volume.muted \in BOOLEAN /\ volume'.muted \in BOOLEAN /\ volume.muteAsked \in BOOLEAN
      BY StepTyped DEF Typed, VolumeType
    <3>. QED  BY <3>1, <3>2, <3>3, <3>4, AppliedAt DEF Sound
  <2>7. CASE SetVolume
    <3>1. PICK level \in {0, 1} :
            LET asked == [volume EXCEPT !.asked = level] IN
              volume' = IF /\ CardUp /\ CardThere /\ ~strm.isPaused
                           /\ strm.currentState \notin {"IDLE", "INIT"}
                          THEN Applied(asked, level) ELSE [asked EXCEPT !.set = level]
      BY <2>7 DEF SetVolume
    <3>2. UNCHANGED <<strm, ask>>
      BY <2>7 DEF SetVolume
    <3>3. CASE CardUp /\ CardThere /\ ~strm.isPaused /\ strm.currentState \notin {"IDLE", "INIT"}
      <4>. DEFINE asked == [volume EXCEPT !.asked = level]
      <4>1. /\ asked \in VolumeType /\ asked.asked = level /\ asked.muteAsked = volume.muteAsked
            /\ asked.muted = volume.muted /\ asked.lost = volume.lost
            /\ asked.unMutePending = volume.unMutePending
        BY DEF Typed, VolumeType
      <4>2. volume' = Applied(asked, level)
        BY <3>1, <3>3
      <4>3. volume.muted \in BOOLEAN /\ volume'.muted \in BOOLEAN /\ volume.muteAsked \in BOOLEAN
        BY StepTyped DEF Typed, VolumeType
      <4>. HIDE DEF asked
      <4>. QED  BY <3>2, <3>3, <4>1, <4>2, <4>3, AppliedAt DEF Sound
    <3>4. CASE ~(CardUp /\ CardThere /\ ~strm.isPaused /\ strm.currentState \notin {"IDLE", "INIT"})
      BY <3>1, <3>2, <3>4 DEF Sound, Playing, Typed, VolumeType
    <3>. QED  BY <3>3, <3>4
  <2>8. CASE Mute
    <3>1. UNCHANGED <<strm, ask>> /\ strm.currentState # "INIT" /\ strm.handle = "open"
      BY <2>8 DEF Mute, Playing
    <3>. QED  BY <2>8, <3>1 DEF Mute, Sound, Typed, VolumeType
  <2>9. CASE Drain \/ Flush
    <3>1. ask'.started = ask.started
      BY <2>9 DEF Drain, Flush, SetVolume, Mute, Typed, AskType
    <3>. QED  BY <2>9, <3>1 DEF Drain, Flush, streamVars, Sound
  <2>. QED  BY <1>1, <2>1, <2>2, <2>3, <2>4, <2>5, <2>6, <2>7, <2>8, <2>9 DEF Client
<1>2. CASE Worker
  <2>1. ask'.started = ask.started
    BY <1>2 DEF Worker, WkPop, WkWait, WkWaited, WkDrain, WkCheck, WkCall, Typed, AskType
  <2>2. UNCHANGED workerOnly
    BY <1>2 DEF Worker, WkPop, WkWait, WkWaited, WkDrain, WkCheck, WkCall
  <2>. QED  BY <2>1, <2>2 DEF workerOnly, Sound
<1>3. CASE LoseCard
  BY <1>3 DEF LoseCard, Cut, Sound, Typed, AskType, streamVars
<1>4. CASE Play
  <2>1. ask'.started = ask.started
    BY <1>4 DEF Play, Typed, AskType
  <2>. QED  BY <1>4, <2>1 DEF Play, streamVars, Sound
<1>5. CASE Writer
  BY <1>5 DEF Writer, WriteLockActive, WriteRegister, streamVars, Sound
<1>6. CASE \E t \in {"ctl", "ssr"} : StopClose(t)
  <2>1. PICK t \in {"ctl", "ssr"} : StopClose(t)
    BY <1>6
  <2>2. strm'.handle = strm.handle /\ volume' = volume
    BY <2>1, StopCloseKeeps
  <2>3. strm'.currentState \in {strm.currentState, "STOPPED", "IDLE"}
    BY <2>1 DEF StopClose, StopCheck, StopLockActive, StopRun, CloseCheck, CloseRun, CloseJoin,
       CloseRest,
       streamVars, Typed, StrmType
  <2>. QED  BY <1>6, <2>2, <2>3, QuietSteps DEF Sound
<1>7. CASE SsrDown \/ SsrDownCheck \/ SsrDownLock \/ SsrDownDone \/ SsrUp
  <2>1. volume' = volume /\ strm'.handle = strm.handle
        /\ strm'.currentState \in {strm.currentState, "IDLE"}
    BY <1>7 DEF SsrDown, SsrDownCheck, SsrDownLock, SsrDownDone, SsrUp, streamVars, Typed, StrmType
  <2>. QED  BY <1>7, <2>1, QuietSteps DEF Sound
<1>8. CASE Delete
  BY <1>8, QuietSteps DEF Delete, NewVolume, Sound
<1>. QED  BY <1>1, <1>2, <1>3, <1>4, <1>5, <1>6, <1>7, <1>8 DEF Next, Controller, Recovery

-----------------------------------------------------------------------------
\* The thread runs only within the life of the stream.
WorkerRuns == wk.pc \notin {"none", "exited"}

Life ==
  WorkerRuns => /\ strm.handle # "none" /\ ses.compress
                /\ strm.currentState # "IDLE"
                /\ pc["ctl"] # "delete" /\ pc["ssr"] # "d_done"
                /\ \A t \in {"ctl", "ssr"} : pc[t] # "c_rest"

\* close joins the worker before it lets the session go: its steps keep Life.
LEMMA StopCloseLife ==
  ASSUME Typed, Positions, Linked, Life, NEW t \in {"ctl", "ssr"}, StopClose(t)
  PROVE  Life'
<1>1. t \in Threads /\ Control /\ strm'.handle = strm.handle
  BY StopCloseKeeps DEF Threads, Positions
<1>2. \A u \in {"ctl", "ssr"} \ {t} : pc'[u] = pc[u]
  BY StopClosePlaces DEF Threads
<1>5. CASE StopCheck(t)
  <2>1. pc'[t] \notin {"delete", "d_done", "c_rest"}
    <3>1. Goto(t, "s_active") => pc'[t] = "s_active"
      BY <1>1, GoneTo DEF Labels
    <3>. QED  BY <1>5, <3>1, GoneBack DEF StopCheck, Positions, CtlAt, SsrAt
  <2>. QED  BY <1>2, <1>5, <2>1 DEF StopCheck, Life, WorkerRuns, streamVars
<1>6. CASE StopLockActive(t)
  <2>1. pc'[t] = "s_run"
    BY <1>1, <1>6, GoneTo DEF Labels, StopLockActive
  <2>. QED  BY <1>2, <1>6, <2>1 DEF StopLockActive, Life, WorkerRuns, streamVars
<1>7. CASE StopRun(t)
  <2>1. pc'[t] \notin {"delete", "d_done", "c_rest"}
    BY <1>7, GoneBack DEF StopRun, Positions, CtlAt, SsrAt
  <2>2. ses'.compress = ses.compress /\ strm'.currentState = "STOPPED" /\ wk' = wk
    BY <1>7 DEF StopRun, Typed, SesType, StrmType
  <2>. QED  BY <1>1, <1>2, <2>1, <2>2 DEF Life, WorkerRuns
<1>8. CASE CloseCheck(t)
  <2>1. CASE strm.currentState = "IDLE"
    BY <1>8, <2>1 DEF CloseCheck, Life, WorkerRuns
  <2>2. CASE strm.currentState # "IDLE"
    <3>1. Goto(t, "c_run") \/ Call(t, "s_check", "c_run")
      BY <1>8, <2>2 DEF CloseCheck
    <3>2. pc'[t] \in {"c_run", "s_check"}
      BY <1>1, <3>1 DEF Goto, Call, Control
    <3>. QED  BY <1>2, <1>8, <3>2 DEF CloseCheck, Life, WorkerRuns, streamVars
  <2>. QED  BY <2>1, <2>2
<1>9. CASE CloseRun(t)
  <2>1. pc'[t] = IF wk.pc = "none" THEN "c_rest" ELSE "c_join"
    BY <1>1, <1>9 DEF CloseRun, Goto, Control
  <2>2. ses'.compress = ses.compress /\ strm' = strm /\ wk' = wk
    BY <1>9 DEF CloseRun, Typed, SesType
  <2>. QED  BY <1>2, <2>1, <2>2 DEF Life, WorkerRuns
<1>10. CASE CloseJoin(t)
  BY <1>10 DEF CloseJoin, Life, WorkerRuns, NewWorker
<1>11. CASE CloseRest(t)
  BY <1>11 DEF CloseRest, Life, WorkerRuns
<1>. QED  BY <1>5, <1>6, <1>7, <1>8, <1>9, <1>10, <1>11 DEF StopClose

\* Every step keeps the worker within the life of its stream.
LEMMA StepLife ==
  ASSUME Typed, Positions, Linked, Life, Next
  PROVE  Life'
<1>1. CASE Client
  <2>1. CASE StartOutput
    <3>1. /\ strm.handle = "open" /\ pc["ctl"] = "idle" /\ pc["ssr"] = "idle" /\ wk.pc = "none"
          /\ strm.currentState = "INIT" /\ UNCHANGED pc
      BY <2>1 DEF StartOutput, CtlMay, Linked
    <3>2. strm'.handle = "open" /\ strm'.currentState \in {"INIT", "OPENED"}
      BY <2>1, <3>1 DEF StartOutput, StartSession, Results, Typed, StrmType
    <3>3. wk' = wk \/ ses' = [ses EXCEPT !.compress = TRUE]
      BY <2>1, ResultsAre DEF StartOutput, StartSession
    <3>. QED  BY <3>1, <3>2, <3>3 DEF Life, WorkerRuns, Typed, SesType
  <2>2. CASE Open
    BY <2>2 DEF Open, Life, WorkerRuns
  <2>3. CASE StartInput
    <3>1. UNCHANGED <<wk, pc>> /\ (ses' = ses \/ ses' = [ses EXCEPT !.compress = TRUE])
          /\ (strm' = strm \/ strm' = [strm EXCEPT !.currentState = "STARTED"])
      BY <2>3 DEF StartInput
    <3>. QED  BY <3>1 DEF Life, WorkerRuns, Typed, SesType, StrmType
  <2>4. CASE Write
    <3>1. strm'.handle = strm.handle /\ strm'.currentState \in {strm.currentState, "STARTED"}
      BY <2>4 DEF Write, Typed, StrmType
    <3>2. ses'.compress = ses.compress
      BY <2>4 DEF Write, Typed, SesType
    <3>3. wk' = wk /\ pc'["ctl"] = pc["ctl"] /\ pc'["ssr"] = pc["ssr"]
      BY <2>4 DEF Write, Goto, Positions, Control, Threads
    <3>. QED  BY <3>1, <3>2, <3>3 DEF Life, WorkerRuns
  <2>5. CASE Pause \/ Resume
    <3>1. strm'.handle = strm.handle /\ (strm'.currentState \in {strm.currentState, "PAUSED"})
      BY <2>5 DEF Pause, Resume, Typed, StrmType
    <3>. QED  BY <2>5, <3>1 DEF Pause, Resume, ctlVolume, Life, WorkerRuns
  <2>6. CASE Stop \/ CloseBegin
    <3>1. strm'.handle \in {strm.handle, "closing"} /\ strm'.currentState = strm.currentState
      BY <2>6 DEF Stop, CloseBegin, streamVars, Typed, StrmType
    <3>2. pc'["ssr"] = pc["ssr"] /\ pc'["ctl"] \in {"s_active", "c_check"}
      BY <2>6 DEF Stop, CloseBegin, Goto, Call, Positions, Control, Threads
    <3>. QED  BY <2>6, <3>1, <3>2 DEF Stop, CloseBegin, streamVars, Life, WorkerRuns
  <2>7. CASE Drain \/ Flush \/ SetVolume \/ Mute
    BY <2>7 DEF Drain, Flush, SetVolume, Mute, ctlVolume, streamVars, Life, WorkerRuns
  <2>. QED  BY <1>1, <2>1, <2>2, <2>3, <2>4, <2>5, <2>6, <2>7 DEF Client
<1>2. CASE Worker
  <2>1. WorkerRuns
    BY <1>2 DEF Worker, WkPop, WkWait, WkWaited, WkDrain, WkCheck, WkCall, WorkerRuns
  <2>2. ses'.compress = ses.compress
    BY <1>2 DEF Worker, WkPop, WkWait, WkWaited, WkDrain, WkCheck, WkCall, Typed, SesType
  <2>3. UNCHANGED workerOnly
    BY <1>2 DEF Worker, WkPop, WkWait, WkWaited, WkDrain, WkCheck, WkCall
  <2>. QED  BY <2>1, <2>2, <2>3 DEF workerOnly, Life
<1>3. CASE Play \/ LoseCard \/ SsrUp
  BY <1>3 DEF Play, LoseCard, SsrUp, streamVars, Life, WorkerRuns
<1>4. CASE Writer
  BY <1>4 DEF Writer, WriteLockActive, WriteRegister, Goto, Return, Positions, Control, Threads,
     streamVars, Life, WorkerRuns
<1>5. CASE Delete
  BY <1>5 DEF Delete, Life, WorkerRuns
<1>6. CASE SsrDown \/ SsrDownLock
  BY <1>6 DEF SsrDown, SsrDownLock, Goto, Call, Positions, Control, Threads, streamVars, Life,
     WorkerRuns
<1>7. CASE SsrDownCheck
  <2>1. strm.currentState \in State
    BY DEF Typed, StrmType
  <2>2. CASE strm.currentState = "IDLE"
    BY <1>7, <2>2 DEF SsrDownCheck, streamVars, Life, WorkerRuns
  <2>3. CASE strm.currentState # "IDLE"
    BY <1>7, <2>1, <2>3 DEF SsrDownCheck, State, Goto, Call, Positions, Control, Threads,
       streamVars, Life, WorkerRuns
  <2>. QED  BY <2>2, <2>3
<1>8. CASE SsrDownDone
  BY <1>8 DEF SsrDownDone, Life, WorkerRuns
<1>. QED  BY <1>1, <1>2, <1>3, <1>4, <1>5, <1>6, <1>7, <1>8, StopCloseLife DEF Next, Controller,
             Recovery

-----------------------------------------------------------------------------
(* Devices and votes. *)

\* Each device of M is open at most once, no other is, and what is closed is not started.
Counted(dv, M) == \A d \in Devices :
  /\ dv[d].count \in {0, 1}
  /\ dv[d].count = 1 => d \in M
  /\ dv[d].count = 0 => dv[d].startStop = 0
OpenOn(dv, M) == \A d \in Devices : d \in M => dv[d].count = 1
Rests(dv) == \A d \in Devices : dv[d].count = 0

\* The counters of one device after it is opened, started, stopped or closed with others.
LEMMA CountsAt ==
  ASSUME NEW u \in UseType, NEW D, NEW d \in Devices
  PROVE  /\ u[d].count \in Nat /\ u[d].startStop \in Nat
         /\ Opened(u, D)[d].count = IF d \in D THEN u[d].count + 1 ELSE u[d].count
         /\ Opened(u, D)[d].startStop = u[d].startStop
         /\ Started(u, D)[d].count = u[d].count
         /\ Started(u, D)[d].startStop = IF d \in D THEN u[d].startStop + 1 ELSE u[d].startStop
         /\ Closed(u, D)[d].count = IF d \in D /\ u[d].count > 0 THEN u[d].count - 1 ELSE u[d].count
         /\ Closed(u, D)[d].startStop = IF d \in D /\ u[d].count = 1 THEN 0 ELSE u[d].startStop
         /\ Stopped(u, D)[d].count = u[d].count
         /\ Stopped(u, D)[d].startStop = IF d \in D /\ u[d].startStop > 0 THEN u[d].startStop - 1
                                                                          ELSE u[d].startStop
<1>1. u[d].count \in Nat /\ u[d].startStop \in Nat
  BY DEF UseType, Counters
<1>2. /\ Opened(u, D)[d].count = IF d \in D THEN u[d].count + 1 ELSE u[d].count
      /\ Opened(u, D)[d].startStop = u[d].startStop
  <2>1. CASE d \in D
    <3>1. Opened(u, D)[d] = [u[d] EXCEPT !.count = @ + 1]
      BY <2>1 DEF Opened
    <3>. QED  BY <2>1, <3>1 DEF UseType, Counters
  <2>2. CASE d \notin D
    BY <2>2 DEF Opened
  <2>. QED  BY <2>1, <2>2
<1>3. /\ Started(u, D)[d].count = u[d].count
      /\ Started(u, D)[d].startStop = IF d \in D THEN u[d].startStop + 1 ELSE u[d].startStop
  <2>1. CASE d \in D
    <3>1. Started(u, D)[d] = [u[d] EXCEPT !.startStop = @ + 1]
      BY <2>1 DEF Started
    <3>. QED  BY <2>1, <3>1 DEF UseType, Counters
  <2>2. CASE d \notin D
    BY <2>2 DEF Started
  <2>. QED  BY <2>1, <2>2
<1>4. /\ Closed(u, D)[d].count = IF d \in D /\ u[d].count > 0 THEN u[d].count - 1 ELSE u[d].count
      /\ Closed(u, D)[d].startStop = IF d \in D /\ u[d].count = 1 THEN 0 ELSE u[d].startStop
  <2>1. PICK n, m : n = (IF d \in D /\ u[d].count > 0 THEN u[d].count - 1 ELSE u[d].count)
             /\ m = (IF d \in D /\ u[d].count = 1 THEN 0 ELSE u[d].startStop)
    OBVIOUS
  <2>2. Closed(u, D)[d] = [count |-> n, startStop |-> m]
    BY <2>1, ClosedStoppedAt
  <2>. QED  BY <2>1, <2>2
<1>5. /\ Stopped(u, D)[d].count = u[d].count
      /\ Stopped(u, D)[d].startStop = IF d \in D /\ u[d].startStop > 0 THEN u[d].startStop - 1
                                             ELSE u[d].startStop
  <2>1. PICK n, m : n = (u[d].count)
             /\ m = (IF d \in D /\ u[d].startStop > 0 THEN u[d].startStop - 1
                                             ELSE u[d].startStop)
    OBVIOUS
  <2>2. Stopped(u, D)[d] = [count |-> n, startStop |-> m]
    BY <2>1, ClosedStoppedAt
  <2>. QED  BY <2>1, <2>2
<1>. QED  BY <1>1, <1>2, <1>3, <1>4, <1>5

\* Opening the devices of a stream that had none open.
LEMMA CountedOpened ==
  ASSUME NEW u \in UseType, NEW M, NEW D, Counted(u, M), Rests(u)
  PROVE  Counted(Opened(u, D), D) /\ OpenOn(Opened(u, D), D)
BY CountsAt DEF Counted, Rests, OpenOn

\* Starting some of the devices that are open.
LEMMA CountedStarted ==
  ASSUME NEW u \in UseType, NEW M, NEW D, Counted(u, M), OpenOn(u, D)
  PROVE  /\ Counted(Started(u, D), M)
         /\ \A X : OpenOn(u, X) => OpenOn(Started(u, D), X)
BY CountsAt DEF Counted, OpenOn

\* Stopping devices.
LEMMA CountedStopped ==
  ASSUME NEW u \in UseType, NEW M, NEW D, Counted(u, M)
  PROVE  /\ Counted(Stopped(u, D), M)
         /\ \A X : OpenOn(u, X) => OpenOn(Stopped(u, D), X)
         /\ Rests(u) => Rests(Stopped(u, D))
BY CountsAt DEF Counted, OpenOn, Rests

\* Closing devices.
LEMMA CountedClosed ==
  ASSUME NEW u \in UseType, NEW M, NEW D, Counted(u, M)
  PROVE  /\ Counted(Closed(u, D), M \ D)
         /\ \A X : OpenOn(u, X) => OpenOn(Closed(u, D), X \ D)
         /\ Rests(Closed(u, M))
<1>1. ASSUME NEW d \in Devices, NEW E
      PROVE  /\ Closed(u, E)[d].count = IF d \in E THEN 0 ELSE u[d].count
             /\ Closed(u, E)[d].startStop = IF d \in E THEN 0 ELSE u[d].startStop
  BY CountsAt DEF Counted
<1>. QED  BY <1>1 DEF Counted, OpenOn, Rests

\* The votes are those of a started stream, none when no stop is left to take it back.
Running == {"OPENED", "STARTED", "PAUSED"}
Closing == \E t \in {"ctl", "ssr"} : pc[t] \in {"c_join", "c_rest"}

Votes ==
  /\ votes <= IF strm.currentState \in Running /\ ~Closing THEN left + 1 ELSE left
  /\ \A t \in {"ctl", "ssr"} :
       pc[t] = "c_run" => strm.currentState \notin {"STARTED", "PAUSED"}
  /\ pc["ctl"] = "delete" \/ pc["ssr"] = "d_done" => strm.currentState \notin Running
  /\ strm.handle = "none" => strm.currentState = "IDLE"

\* The counters of the devices are those of the stream, unless opening one may fail.
Left ==
  ~May("deviceOpen") =>
    /\ Counted(dev, strm.mDevices)
    /\ strm.currentState = "IDLE" \/ pc["ctl"] = "delete" \/ pc["ssr"] = "d_done" => Rests(dev)
    /\ strm.currentState = "INIT" => OpenOn(dev, strm.mDevices)

\* stop and close take the vote against deep sleep back, or count it as left.
LEMMA StopCloseVotes ==
  ASSUME Typed, Positions, Linked, Votes, NEW t \in {"ctl", "ssr"}, StopClose(t)
  PROVE  Votes'
<1>1. t \in Threads /\ Control /\ strm'.handle = strm.handle /\ strm.handle # "none"
  BY StopCloseKeeps, StopClosePlaces DEF Threads, Positions, Linked
<1>2. \A u \in {"ctl", "ssr"} \ {t} : pc'[u] = pc[u]
  BY StopClosePlaces DEF Threads
<1>3. votes \in Nat /\ left \in Nat
  BY DEF Typed
<1>5. CASE StopCheck(t)
  <2>1. \/ pc'[t] = "s_active"
        \/ pc'[t] \notin {"delete", "d_done", "c_join", "c_rest"}
           /\ strm.currentState \notin Running
    <3>1. Goto(t, "s_active") => pc'[t] = "s_active"
      BY <1>1, GoneTo DEF Labels
    <3>. QED  BY <1>5, <3>1, GoneBack DEF StopCheck, Positions, CtlAt, SsrAt, Running
  <2>2. pc[t] = "s_check" /\ UNCHANGED <<strm, votes, left>>
    BY <1>5 DEF StopCheck, streamVars, deviceVars
  <2>. QED  BY <1>1, <1>2, <1>3, <2>1, <2>2 DEF Votes, Closing, Running
<1>6. CASE StopLockActive(t)
  <2>1. pc'[t] = "s_run" /\ pc[t] = "s_active"
    BY <1>1, <1>6, GoneTo DEF Labels, StopLockActive
  <2>. QED  BY <1>1, <1>2, <1>3, <1>6, <2>1 DEF StopLockActive, streamVars, deviceVars, Votes,
               Closing, Running
<1>7. CASE StopRun(t)
  <2>1. pc'[t] \notin {"delete", "d_done", "c_join", "c_rest"}
    BY <1>7, GoneBack DEF StopRun, Positions, CtlAt, SsrAt
  <2>2. strm'.currentState = "STOPPED" /\ left' = left
        /\ votes' = (IF votes > 0 THEN votes - 1 ELSE 0)
    BY <1>7 DEF StopRun, Typed, StrmType
  <2>3. votes' <= left
    BY <1>3, <2>2 DEF Votes
  <2>. QED  BY <1>1, <1>2, <1>3, <2>1, <2>2, <2>3 DEF Votes, Running
<1>8. CASE CloseCheck(t)
  <2>1. UNCHANGED <<strm, votes, left>> /\ pc[t] = "c_check"
    BY <1>8 DEF CloseCheck, streamVars, deviceVars
  <2>2. \/ strm.currentState = "IDLE" /\ pc'[t] \in {"delete", "d_done"}
        \/ pc'[t] = "s_check"
        \/ strm.currentState \notin {"STARTED", "PAUSED"} /\ pc'[t] = "c_run"
    <3>1. CASE strm.currentState = "IDLE"
      BY <1>8, <3>1, GoneBack DEF CloseCheck
    <3>2. CASE strm.currentState \in {"STARTED", "PAUSED"}
      BY <1>1, <1>8, <3>2 DEF CloseCheck, Call, Control
    <3>3. CASE strm.currentState \notin {"IDLE", "STARTED", "PAUSED"}
      BY <1>1, <1>8, <3>3 DEF CloseCheck, Goto, Control
    <3>. QED  BY <3>1, <3>2, <3>3
  <2>. QED  BY <1>1, <1>2, <1>3, <2>1, <2>2 DEF Votes, Closing, Running
<1>9. CASE CloseRun(t)
  <2>1. pc'[t] \in {"c_rest", "c_join"} /\ pc[t] = "c_run"
    BY <1>1, <1>9 DEF CloseRun, Goto, Control
  <2>2. strm' = strm /\ votes' = votes
          /\ left' = IF strm.currentState = "OPENED" THEN left + 1 ELSE left
    BY <1>9 DEF CloseRun
  <2>3. Closing'
    BY <2>1 DEF Closing
  <2>4. votes' <= left'
    BY <1>3, <2>1, <2>2 DEF Votes, Running
  <2>. QED  BY <1>1, <1>2, <1>3, <2>1, <2>2, <2>3, <2>4 DEF Votes
<1>10. CASE CloseJoin(t)
  <2>1. pc'[t] = "c_rest" /\ pc[t] = "c_join"
    BY <1>1, <1>10, GoneTo DEF Labels, CloseJoin
  <2>. QED  BY <1>1, <1>2, <1>3, <1>10, <2>1 DEF CloseJoin, streamVars, deviceVars, Votes, Closing,
               Running
<1>11. CASE CloseRest(t)
  <2>1. strm'.currentState = "IDLE" /\ UNCHANGED <<votes, left>> /\ pc[t] = "c_rest"
    BY <1>11 DEF CloseRest, Typed, StrmType
  <2>2. votes <= left
    BY <2>1 DEF Votes, Closing
  <2>. QED  BY <1>1, <1>3, <2>1, <2>2 DEF Votes, Running
<1>. QED  BY <1>5, <1>6, <1>7, <1>8, <1>9, <1>10, <1>11 DEF StopClose

\* Every step keeps the votes those of the stream and of the calls that failed.
LEMMA StepVotes ==
  ASSUME Typed, Positions, Linked, Playing, Votes, Next
  PROVE  Votes'
<1>0. votes \in Nat /\ left \in Nat
  BY DEF Typed
<1>1. CASE Client
  <2>1. CASE StartOutput \/ StartInput
    <3>1. /\ strm.handle = "open" /\ pc["ctl"] = "idle" /\ pc["ssr"] = "idle"
          /\ strm.currentState = "INIT" /\ UNCHANGED pc
      BY <2>1 DEF StartOutput, StartInput, CtlMay, Linked
    <3>2. ~Closing /\ ~Closing' /\ votes <= left
      BY <3>1 DEF Closing, Votes, Running
    <3>3. strm'.handle = "open"
      BY <2>1, <3>1 DEF StartOutput, StartInput, StartSession, Results, Typed, StrmType
    <3>4. \/ votes' = votes /\ left' = left
          \/ votes' = votes + 1 /\ left' = left + 1
          \/ votes' = votes + 1 /\ left' = left /\ strm'.currentState \in Running
      <4>1. CASE StartOutput
        <5>1. left' = left /\ (votes' = votes \/ \E D, dv : StartSession("ok", D, dv))
          BY <4>1, ResultsAre DEF StartOutput, StartSession
        <5>. QED  BY <5>1 DEF StartSession, Typed, StrmType, Running
      <4>2. CASE StartInput
        BY <4>2 DEF StartInput, Typed, StrmType, Running
      <4>. QED  BY <2>1, <4>1, <4>2
    <3>. QED  BY <1>0, <3>1, <3>2, <3>3, <3>4 DEF Votes
  <2>2. CASE Open
    <3>1. /\ strm.handle = "none" /\ pc["ctl"] = "idle" /\ pc["ssr"] = "idle"
          /\ UNCHANGED <<pc, votes, left>>
          /\ strm.currentState = "IDLE"
      BY <2>2 DEF Open, Linked, Votes
    <3>2. strm' = strm \/ (strm'.handle = "open" /\ strm'.currentState \in {"IDLE", "INIT"})
      BY <2>2 DEF Open, NewStream
    <3>3. votes <= left
      BY <3>1 DEF Votes, Running
    <3>4. strm'.currentState \notin Running
          /\ (strm'.handle = "none" => strm'.currentState = "IDLE")
      BY <3>1, <3>2 DEF Running
    <3>. QED  BY <1>0, <3>1, <3>3, <3>4 DEF Votes
  <2>3. CASE Write
    <3>1. strm'.handle = "open"
          /\ (strm'.currentState = strm.currentState
              \/ (strm.currentState \in Running /\ strm'.currentState = "STARTED"))
      BY <2>3 DEF Write, Typed, StrmType, Running
    <3>2. pc["ctl"] \notin {"c_run", "delete"} /\ pc["ssr"] = "idle"
      BY <2>3 DEF Write, Positions, CtlAt, Linked
    <3>3. UNCHANGED <<votes, left>> /\ pc'["ctl"] = pc["ctl"] /\ pc'["ssr"] = pc["ssr"]
      BY <2>3 DEF Write, deviceVars, Goto, Positions, Control, Threads
    <3>. QED  BY <1>0, <3>1, <3>2, <3>3 DEF Votes, Closing, Running
  <2>4. CASE Pause \/ Resume
    <3>1. strm'.handle = "open" /\ UNCHANGED <<votes, left, pc>> /\ pc["ctl"] = "idle"
      BY <2>4 DEF Pause, Resume, CtlMay, Typed, StrmType, ctlVolume, deviceVars
    <3>2. strm'.currentState = strm.currentState
          \/ (strm'.currentState = "PAUSED" /\ pc["ssr"] = "idle")
      BY <2>4 DEF Pause, Resume, Typed, StrmType, Linked
    <3>. QED  BY <1>0, <3>1, <3>2 DEF Votes, Closing, Running
  <2>5. CASE Stop \/ CloseBegin
    <3>1. strm'.handle # "none" /\ strm'.currentState = strm.currentState
      BY <2>5 DEF Stop, CloseBegin, CtlMay, streamVars, Typed, StrmType
    <3>2. pc'["ssr"] = pc["ssr"] /\ pc'["ctl"] \in {"s_active", "c_check"} /\ pc["ctl"] = "idle"
      BY <2>5 DEF Stop, CloseBegin, CtlMay, Goto, Call, Positions, Control, Threads
    <3>. QED  BY <1>0, <2>5, <3>1, <3>2 DEF Stop, CloseBegin, deviceVars, Votes, Closing, Running
  <2>6. CASE Drain \/ Flush \/ SetVolume \/ Mute
    BY <2>6 DEF Drain, Flush, SetVolume, Mute, ctlVolume, streamVars, deviceVars, Votes, Closing,
       Running
  <2>. QED  BY <1>1, <2>1, <2>2, <2>3, <2>4, <2>5, <2>6 DEF Client
<1>2. CASE Worker
  <2>3. UNCHANGED workerOnly
    BY <1>2 DEF Worker, WkPop, WkWait, WkWaited, WkDrain, WkCheck, WkCall
  <2>. QED  BY <2>3 DEF workerOnly, deviceVars, Votes, Closing, Running
<1>3. CASE Play \/ LoseCard \/ SsrUp
  BY <1>3 DEF Play, LoseCard, SsrUp, streamVars, deviceVars, Votes, Closing, Running
<1>4. CASE Writer
  BY <1>4 DEF Writer, WriteLockActive, WriteRegister, Goto, Return, Positions, Control, Threads,
     streamVars, deviceVars,
              Votes, Closing, Running
<1>5. CASE Delete
  <2>1. /\ pc["ctl"] = "delete" /\ pc'["ctl"] = "idle" /\ pc'["ssr"] = "idle"
        /\ UNCHANGED <<votes, left>>
        /\ strm'.currentState = "IDLE"
    BY <1>5 DEF Delete, Goto, Positions, Control, Threads, NewStream, deviceVars
  <2>. QED  BY <1>0, <2>1 DEF Votes, Closing, Running
<1>6. CASE SsrDown \/ SsrDownLock
  BY <1>0, <1>6 DEF SsrDown, SsrDownLock, Goto, Call, Positions, Control, Threads, streamVars,
     deviceVars, Votes, Closing, Running
<1>7. CASE SsrDownCheck
  <2>1. strm.currentState \in State
    BY DEF Typed, StrmType
  <2>2. /\ pc["ssr"] = "d_check" /\ UNCHANGED <<strm, votes, left>> /\ pc'["ctl"] = pc["ctl"]
        /\ \/ pc'["ssr"] \in {"c_check", "s_check"}
           \/ pc'["ssr"] = "d_done" /\ strm.currentState = "IDLE"
    BY <1>7, <2>1 DEF SsrDownCheck, State, Goto, Call, Positions, Control, Threads, streamVars,
       deviceVars
  <2>. QED  BY <1>0, <2>2 DEF Votes, Closing, Running
<1>8. CASE SsrDownDone
  <2>1. /\ pc["ssr"] = "d_done" /\ pc'["ssr"] = "idle" /\ pc'["ctl"] = pc["ctl"]
        /\ UNCHANGED <<votes, left>>
        /\ strm'.currentState = "IDLE"
    BY <1>8, GoneBack DEF SsrDownDone, Positions, SsrAt, Threads, deviceVars, Typed, StrmType
  <2>. QED  BY <1>0, <2>1 DEF Votes, Closing, Running
<1>. QED  BY <1>1, <1>2, <1>3, <1>4, <1>5, <1>6, <1>7, <1>8, StopCloseVotes DEF Next, Controller,
             Recovery

\* stop and close keep the counters of the devices those of the stream.
LEMMA StopCloseLeft ==
  ASSUME Typed, Positions, Linked, Votes, Left, NEW t \in {"ctl", "ssr"}, StopClose(t)
  PROVE  Left'
<1>0. SUFFICES ASSUME ~May("deviceOpen")'
               PROVE  /\ Counted(dev', strm.mDevices)
                      /\ strm'.currentState = "IDLE" \/ pc'["ctl"] = "delete" \/ pc'["ssr"] = "d_done" => Rests(dev')
                      /\ strm'.currentState = "INIT" => OpenOn(dev', strm.mDevices)
  BY StopCloseKeeps DEF Left, Counted, OpenOn, Rests
<1>1. t \in Threads /\ Control /\ dev \in UseType
  BY DEF Threads, Positions, Typed
<1>2. \A u \in {"ctl", "ssr"} \ {t} : pc'[u] = pc[u]
  BY StopClosePlaces DEF Threads
<1>3. /\ Counted(dev, strm.mDevices)
      /\ strm.currentState = "IDLE" \/ pc["ctl"] = "delete" \/ pc["ssr"] = "d_done" => Rests(dev)
      /\ strm.currentState = "INIT" => OpenOn(dev, strm.mDevices)
  BY <1>0, StopCloseKeeps DEF Left, May, Faults
<1>5. CASE StopCheck(t) \/ StopLockActive(t) \/ CloseRun(t) \/ CloseJoin(t)
  <2>1. pc'[t] \notin {"delete", "d_done"}
    <3>1. CASE StopCheck(t)
      <4>1. Goto(t, "s_active") => pc'[t] = "s_active"
        BY <1>1, GoneTo DEF Labels
      <4>. QED  BY <3>1, <4>1, GoneBack DEF StopCheck, Positions, CtlAt, SsrAt
    <3>2. CASE StopLockActive(t) \/ CloseRun(t) \/ CloseJoin(t)
      BY <1>1, <3>2 DEF StopLockActive, CloseRun, CloseJoin, Goto, Control
    <3>. QED  BY <1>5, <3>1, <3>2
  <2>2. UNCHANGED <<dev, strm>>
    BY <1>5 DEF StopCheck, StopLockActive, CloseRun, CloseJoin, streamVars, deviceVars
  <2>. QED  BY <1>2, <1>3, <2>1, <2>2
<1>7. CASE StopRun(t)
  <2>1. pc'[t] \notin {"delete", "d_done"}
    BY <1>7, GoneBack DEF StopRun, Positions, CtlAt, SsrAt
  <2>2. strm'.currentState = "STOPPED" /\ dev' = Stopped(dev, strm.mDevices)
    BY <1>7 DEF StopRun, Typed, StrmType
  <2>. QED  BY <1>1, <1>2, <1>3, <2>1, <2>2, CountedStopped
<1>8. CASE CloseCheck(t)
  <2>1. UNCHANGED <<strm, dev>>
    BY <1>8 DEF CloseCheck, streamVars, deviceVars
  <2>2. CASE strm.currentState = "IDLE"
    BY <1>2, <1>3, <2>1, <2>2
  <2>3. CASE strm.currentState # "IDLE"
    <3>1. Goto(t, "c_run") \/ Call(t, "s_check", "c_run")
      BY <1>8, <2>3 DEF CloseCheck
    <3>2. pc'[t] \in {"c_run", "s_check"}
      BY <1>1, <3>1 DEF Goto, Call, Control
    <3>. QED  BY <1>2, <1>3, <2>1, <2>3, <3>2
  <2>. QED  BY <2>2, <2>3
<1>11. CASE CloseRest(t)
  <2>1. strm'.currentState = "IDLE" /\ dev' = Closed(dev, strm.mDevices)
    BY <1>11 DEF CloseRest, Typed, StrmType
  <2>2. Rests(dev') /\ Counted(dev', strm.mDevices \ strm.mDevices)
    BY <1>1, <1>3, <2>1, CountedClosed
  <2>. QED  BY <2>1, <2>2 DEF Counted
<1>. QED  BY <1>5, <1>7, <1>8, <1>11 DEF StopClose

\* Every step keeps the counters of the devices those of the stream.
LEMMA StepLeft ==
  ASSUME Typed, Positions, Linked, Votes, Left, Next
  PROVE  Left'
<1>0. dev \in UseType /\ strm \in StrmType /\ scenario' = scenario
  <2>1. scenario' = scenario
    BY StopCloseKeeps DEF Next, Client, Open, StartOutput, StartInput, Write, Drain, Flush,
       SetVolume, Mute, Pause, Resume, Stop, CloseBegin,
       Worker, WkPop, WkWait, WkWaited, WkDrain, WkCheck, WkCall, workerOnly, Play, LoseCard,
       Controller, Delete,
       Writer, WriteLockActive, WriteRegister, Recovery, SsrDown, SsrDownCheck, SsrDownLock, SsrDownDone, SsrUp,
       streamVars, ctlVolume
  <2>. QED  BY <2>1 DEF Typed
<1>1. May("deviceOpen")' <=> May("deviceOpen")
  BY <1>0 DEF May, Faults
<1>2. CASE May("deviceOpen")
  BY <1>1, <1>2 DEF Left
<1>3. SUFFICES ASSUME ~May("deviceOpen"), ~(\E t \in {"ctl", "ssr"} : StopClose(t))
               PROVE  Left'
  BY <1>2, StopCloseLeft
<1>4. /\ Counted(dev, strm.mDevices)
      /\ strm.currentState = "IDLE" \/ pc["ctl"] = "delete" \/ pc["ssr"] = "d_done" => Rests(dev)
      /\ strm.currentState = "INIT" => OpenOn(dev, strm.mDevices)
  BY <1>3 DEF Left
<1>5. ASSUME Counted(dev', strm'.mDevices),
             strm'.currentState = "IDLE" \/ pc'["ctl"] = "delete" \/ pc'["ssr"] = "d_done" => Rests(dev'),
             strm'.currentState = "INIT" => OpenOn(dev', strm'.mDevices)
      PROVE  Left'
  BY <1>5 DEF Left, Counted, OpenOn, Rests
<1>6. ASSUME dev' = dev, strm'.mDevices = strm.mDevices,
             strm'.currentState \in {"IDLE", "INIT"} => strm'.currentState = strm.currentState,
             pc'["ctl"] = "delete" => pc["ctl"] = "delete",
             pc'["ssr"] = "d_done" => pc["ssr"] = "d_done" \/ strm.currentState = "IDLE"
      PROVE  Left'
  BY <1>4, <1>5, <1>6
<1>7. CASE Client
  <2>1. CASE Open
    <3>1. strm.handle = "none" /\ strm.currentState = "IDLE" /\ Rests(dev)
      BY <1>4, <2>1 DEF Open, Votes
    <3>2. pc["ctl"] = "idle" /\ pc["ssr"] = "idle" /\ pc' = pc
      BY <2>1 DEF Open, Linked
    <3>3. \/ dev' = Opened(dev, scenario.mDevices)
             /\ strm' = [NewStream("open") EXCEPT !.currentState = "INIT"]
          \/ dev' = dev /\ strm' = NewStream("open")
      BY <1>3, <2>1 DEF Open
    <3>4. CASE dev' = Opened(dev, scenario.mDevices)
               /\ strm' = [NewStream("open") EXCEPT !.currentState = "INIT"]
      <4>1. strm'.mDevices = scenario.mDevices /\ strm'.currentState = "INIT"
        BY <3>4 DEF NewStream
      <4>2. Counted(dev', scenario.mDevices) /\ OpenOn(dev', scenario.mDevices)
        BY <1>0, <1>4, <3>1, <3>4, CountedOpened
      <4>. QED  BY <1>5, <3>2, <4>1, <4>2
    <3>5. CASE dev' = dev /\ strm' = NewStream("open")
      <4>1. strm'.mDevices = scenario.mDevices /\ strm'.currentState = "IDLE"
        BY <3>5 DEF NewStream
      <4>2. Counted(dev, scenario.mDevices)
        BY <1>4, <3>1 DEF Counted, Rests
      <4>. QED  BY <1>5, <3>1, <3>2, <3>5, <4>1, <4>2
    <3>. QED  BY <3>3, <3>4, <3>5
  <2>2. CASE StartOutput
    <3>1. PICK failing \in SUBSET strm.mDevices :
         LET D == strm.mDevices \ failing
             startedDev == Started(Closed(dev, failing), D) IN
         IF D = {}
            THEN /\ strm' = [strm EXCEPT !.mDevices = {}] /\ dev' = startedDev
                 /\ UNCHANGED <<votes, ses, wk, volume, ask>>
            ELSE \E r \in Results : StartSession(r, D, startedDev)
      BY <2>2 DEF StartOutput
    <3>. DEFINE D == strm.mDevices \ failing
                closed == Closed(dev, failing)
                started == Started(closed, D)
    <3>2. /\ strm.currentState = "INIT" /\ pc["ctl"] = "idle" /\ pc["ssr"] = "idle" /\ pc' = pc
      BY <2>2 DEF StartOutput, CtlMay, Linked
    <3>3. closed \in UseType /\ started \in UseType
      BY <1>0, ClosedStoppedTyped, OpenedStartedTyped
    <3>4. Counted(closed, D) /\ OpenOn(closed, D)
      BY <1>0, <1>4, <3>2, CountedClosed
    <3>. HIDE DEF closed
    <3>5. Counted(started, D) /\ OpenOn(started, D)
      BY <3>3, <3>4, CountedStarted
    <3>. HIDE DEF started
    <3>6. Counted(Stopped(started, D), D) /\ OpenOn(Stopped(started, D), D)
      BY <3>3, <3>5, CountedStopped
    <3>. HIDE DEF D
    <3>7. dev' \in {started, Stopped(started, D)} /\ strm'.mDevices = D
          /\ strm'.currentState \in {"INIT", "OPENED"}
      <4>1. CASE D = {}
        <5>1. strm' = [strm EXCEPT !.mDevices = {}] /\ dev' = started
          BY <3>1, <4>1 DEF D, started, closed
        <5>. QED  BY <1>0, <3>2, <4>1, <5>1 DEF StrmType
      <4>2. CASE D # {}
        <5>1. PICK r \in Results : StartSession(r, D, started)
          BY <3>1, <4>2 DEF D, started, closed
        <5>2. r \in {"ok", "late", "compressOpen"}
          BY ResultsAre
        <5>. QED  BY <1>0, <3>2, <5>1, <5>2 DEF StartSession, StrmType
      <4>. QED  BY <4>1, <4>2
    <3>. QED  BY <1>5, <3>2, <3>5, <3>6, <3>7
  <2>3. CASE StartInput
    <3>1. /\ strm.currentState = "INIT" /\ pc["ctl"] = "idle" /\ pc["ssr"] = "idle" /\ pc' = pc
      BY <2>3 DEF StartInput, CtlMay, Linked
    <3>2. strm'.mDevices = strm.mDevices /\ strm'.currentState \in {"INIT", "STARTED"}
      BY <1>0, <2>3, <3>1 DEF StartInput, StrmType
    <3>3. dev' = dev \/ \E D \in SUBSET strm.mDevices : dev' = Started(dev, D)
      BY <2>3 DEF StartInput, ProperSubsets
    <3>4. ASSUME NEW D \in SUBSET strm.mDevices, dev' = Started(dev, D)
          PROVE  Counted(dev', strm.mDevices) /\ OpenOn(dev', strm.mDevices)
      <4>1. OpenOn(dev, strm.mDevices) /\ OpenOn(dev, D)
        BY <1>4, <3>1 DEF OpenOn
      <4>. QED  BY <1>0, <1>4, <3>4, <4>1, CountedStarted
    <3>. QED  BY <1>4, <1>5, <3>1, <3>2, <3>3, <3>4
  <2>4. CASE Write
    <3>1. strm'.mDevices = strm.mDevices /\ strm'.currentState \in {strm.currentState, "STARTED"}
      BY <1>0, <2>4 DEF Write, StrmType
    <3>2. dev' = dev /\ pc'["ctl"] = pc["ctl"] /\ pc'["ssr"] = pc["ssr"]
      BY <2>4 DEF Write, deviceVars, Goto, Positions, Control, Threads
    <3>. QED  BY <1>6, <3>1, <3>2
  <2>5. CASE Pause \/ Resume
    <3>1. strm'.mDevices = strm.mDevices /\ strm'.currentState \in {strm.currentState, "PAUSED"}
      BY <1>0, <2>5 DEF Pause, Resume, StrmType
    <3>. QED  BY <1>6, <2>5, <3>1 DEF Pause, Resume, ctlVolume, deviceVars
  <2>6. CASE Stop \/ CloseBegin
    <3>1. strm'.mDevices = strm.mDevices /\ strm'.currentState = strm.currentState
      BY <1>0, <2>6 DEF Stop, CloseBegin, streamVars, StrmType
    <3>2. pc'["ssr"] = pc["ssr"] /\ pc'["ctl"] \in {"s_active", "c_check"}
      BY <2>6 DEF Stop, CloseBegin, Goto, Call, Positions, Control, Threads
    <3>. QED  BY <1>6, <2>6, <3>1, <3>2 DEF Stop, CloseBegin, deviceVars
  <2>7. CASE Drain \/ Flush \/ SetVolume \/ Mute
    BY <1>6, <2>7 DEF Drain, Flush, SetVolume, Mute, ctlVolume, streamVars, deviceVars
  <2>. QED  BY <1>7, <2>1, <2>2, <2>3, <2>4, <2>5, <2>6, <2>7 DEF Client
<1>8. CASE Worker
  <2>1. UNCHANGED workerOnly
    BY <1>8 DEF Worker, WkPop, WkWait, WkWaited, WkDrain, WkCheck, WkCall
  <2>. QED  BY <1>6, <2>1 DEF workerOnly, deviceVars
<1>9. CASE Play \/ LoseCard \/ SsrUp
  BY <1>6, <1>9 DEF Play, LoseCard, SsrUp, streamVars, deviceVars
<1>10. CASE Writer
  BY <1>6, <1>10 DEF Writer, WriteLockActive, WriteRegister, Goto, Return, Positions, Control,
     Threads, streamVars, deviceVars
<1>11. CASE Delete
  <2>1. /\ pc["ctl"] = "delete" /\ pc'["ctl"] = "idle" /\ pc'["ssr"] = pc["ssr"] /\ dev' = dev
        /\ strm'.currentState = "IDLE" /\ strm'.mDevices = scenario.mDevices
    BY <1>11 DEF Delete, Goto, Positions, Control, Threads, NewStream, deviceVars
  <2>2. Rests(dev) /\ Counted(dev, scenario.mDevices)
    BY <1>4, <2>1 DEF Counted, Rests
  <2>. QED  BY <1>5, <2>1, <2>2
<1>12. CASE SsrDown \/ SsrDownLock
  BY <1>6, <1>12 DEF SsrDown, SsrDownLock, Goto, Call, Positions, Control, Threads, streamVars,
     deviceVars
<1>13. CASE SsrDownCheck
  <2>1. strm.currentState \in State
    BY <1>0 DEF StrmType
  <2>2. /\ UNCHANGED <<strm, dev>> /\ pc'["ctl"] = pc["ctl"]
        /\ pc'["ssr"] = "d_done" => strm.currentState = "IDLE"
    BY <1>13, <2>1 DEF SsrDownCheck, State, Goto, Call, Positions, Control, Threads, streamVars,
       deviceVars
  <2>. QED  BY <1>6, <2>2
<1>14. CASE SsrDownDone
  <2>1. /\ pc["ssr"] = "d_done" /\ pc'["ssr"] = "idle" /\ pc'["ctl"] = pc["ctl"] /\ dev' = dev
        /\ strm'.currentState = "IDLE" /\ strm'.mDevices = strm.mDevices
    BY <1>0, <1>14, GoneBack DEF SsrDownDone, Positions, SsrAt, Threads, deviceVars, StrmType
  <2>. QED  BY <1>4, <1>5, <2>1
<1>. QED  BY <1>3, <1>7, <1>8, <1>9, <1>10, <1>11, <1>12, <1>13, <1>14 DEF Next, Controller,
             Recovery

-----------------------------------------------------------------------------
(* What the DSP holds, and the requests to drain it. *)

\* What the DSP holds, in which state it is, and what is still to be drained.
Filled ==
  /\ ask.toDrain <= dsp.filled
  /\ dsp.state = "idle" => dsp.filled = 0 /\ ~ses.playback_started
  /\ dsp.state = "cut" => ~ask.started
  /\ strm.currentState = "INIT" \/ strm.handle = "none" => dsp.state = "idle"
  /\ ask.drain # "none" => ask.started

\* What the loss of the card does, field by field.
LEMMA CutAt ==
  ASSUME Typed
  PROVE  /\ ~Cut(ask).started /\ Cut(ask).drain = "none" /\ Cut(ask).toDrain = ask.toDrain
         /\ CutDsp(dsp).filled = dsp.filled
         /\ CutDsp(dsp).state = IF dsp.state = "running" THEN "cut" ELSE dsp.state
BY DEF Typed, Cut, CutDsp, AskType, DspType

\* Every step keeps what is still to be drained below what the DSP holds.
LEMMA StepFilled ==
  ASSUME Typed, Positions, Linked, Playing, Filled, Next
  PROVE  Filled'
<1>0. ask.toDrain \in Nat /\ dsp.filled \in Nat
  BY DEF Typed, AskType, DspType
<1>1. ASSUME UNCHANGED dsp, ask'.toDrain = ask.toDrain, ask'.started = ask.started,
             ask'.drain \in {ask.drain, "none"}, ses'.playback_started = ses.playback_started,
             strm'.currentState = "INIT" \/ strm'.handle = "none"
               => strm.currentState = "INIT" \/ strm.handle = "none"
      PROVE  Filled'
  BY <1>1 DEF Filled
<1>2. CASE Client
  <2>1. CASE Open
    <3>1. strm.handle = "none" /\ UNCHANGED <<dsp, ask>>
          /\ ses'.playback_started = ses.playback_started
      BY <2>1 DEF Open, Typed, SesType
    <3>. QED  BY <1>1, <3>1
  <2>2. CASE StartOutput \/ StartInput
    <3>1. strm.currentState = "INIT" /\ UNCHANGED dsp
      BY <2>2 DEF StartOutput, StartInput
    <3>2. /\ ask' = ask \/ ask' = [ask EXCEPT !.started = TRUE]
          /\ ses' = ses \/ ses' = [ses EXCEPT !.compress = TRUE]
      BY <2>2, ResultsAre DEF StartOutput, StartInput, StartSession
    <3>3. ask'.toDrain = ask.toDrain /\ ask'.drain = ask.drain /\ (ask.started => ask'.started)
      BY <3>2 DEF Typed, AskType
    <3>4. ses'.playback_started = ses.playback_started
      BY <3>2 DEF Typed, SesType
    <3>. QED  BY <3>1, <3>3, <3>4 DEF Filled
  <2>3. CASE Write
    <3>1. PICK short \in BOOLEAN :
            LET fits == dsp.filled < Room IN
            /\ dsp' = [dsp EXCEPT !.filled = IF fits THEN @ + 1 ELSE @,
                                 !.state = IF fits /\ ~ses.playback_started
                                             THEN "running" ELSE @]
            /\ ses' = [ses EXCEPT !.playback_started = @ \/ fits]
            /\ ask' = [ask EXCEPT !.room = @ \/ (short /\ ask.started)]
      BY <2>3 DEF Write
    <3>2. ask'.toDrain = ask.toDrain /\ ask'.drain = ask.drain /\ ask'.started = ask.started
      BY <3>1 DEF Typed, AskType
    <3>3. strm'.currentState # "INIT" /\ strm'.handle # "none"
      BY <2>3 DEF Write, Typed, StrmType
    <3>4. /\ dsp'.filled = IF dsp.filled < Room THEN dsp.filled + 1 ELSE dsp.filled
          /\ dsp'.state = IF dsp.filled < Room /\ ~ses.playback_started
                            THEN "running" ELSE dsp.state
          /\ ses'.playback_started <=> ses.playback_started \/ dsp.filled < Room
      BY <3>1 DEF Typed, DspType, SesType
    <3>. QED  BY <1>0, <3>2, <3>3, <3>4 DEF Filled
  <2>4. CASE Drain
    <3>1. ask'.toDrain = dsp.filled /\ ask'.started = ask.started /\ ask.started
          /\ UNCHANGED <<dsp, strm, ses>>
      BY <2>4 DEF Drain, Typed, AskType, streamVars
    <3>. QED  BY <1>0, <3>1 DEF Filled
  <2>5. CASE Flush
    <3>1. ask'.toDrain = 0 /\ ask'.started = ask.started /\ ask'.drain = ask.drain
          /\ UNCHANGED <<strm, ses>>
          /\ dsp'.filled = 0 /\ dsp'.state = dsp.state
      BY <2>5 DEF Flush, Typed, AskType, DspType, streamVars
    <3>. QED  BY <1>0, <3>1 DEF Filled
  <2>6. CASE SetVolume \/ Mute
    BY <1>1, <2>6 DEF SetVolume, Mute, ctlVolume
  <2>7. CASE Pause \/ Resume
    <3>1. strm'.handle = strm.handle /\ strm'.currentState \in {strm.currentState, "PAUSED"}
      BY <2>7 DEF Pause, Resume, Typed, StrmType
    <3>2. dsp'.filled = dsp.filled /\ dsp'.state = dsp.state /\ UNCHANGED <<ask, ses>>
      BY <2>7 DEF Pause, Resume, Typed, DspType, ctlVolume
    <3>. QED  BY <3>1, <3>2 DEF Filled
  <2>8. CASE Stop \/ CloseBegin
    <3>1. strm'.currentState = strm.currentState
          /\ (strm'.handle = "none" => strm.handle = "none")
          /\ UNCHANGED <<dsp, ses>> /\ ask' = Cut(ask)
      BY <2>8 DEF Stop, CloseBegin, streamVars, Typed, StrmType
    <3>. QED  BY <3>1, CutAt DEF Filled
  <2>. QED  BY <1>2, <2>1, <2>2, <2>3, <2>4, <2>5, <2>6, <2>7, <2>8 DEF Client
<1>3. CASE Worker
  <2>1. UNCHANGED workerOnly
    BY <1>3 DEF Worker, WkPop, WkWait, WkWaited, WkDrain, WkCheck, WkCall
  <2>2. ses'.playback_started = ses.playback_started
    BY <1>3 DEF Worker, WkPop, WkWait, WkWaited, WkDrain, WkCheck, WkCall, Typed, SesType
  <2>3. ask'.toDrain = ask.toDrain /\ ask'.started = ask.started
        /\ ask'.drain \in {ask.drain, "none"}
    BY <1>3 DEF Worker, WkPop, WkWait, WkWaited, WkDrain, WkCheck, WkCall, Typed, AskType
  <2>. QED  BY <1>1, <2>1, <2>2, <2>3 DEF workerOnly
<1>4. CASE Play
  <2>1. /\ dsp'.filled = dsp.filled - 1 /\ dsp'.state = dsp.state /\ dsp.state = "running"
    BY <1>4 DEF Play, Typed, DspType
  <2>2. ask'.started = ask.started /\ ask'.drain = ask.drain
        /\ ask'.toDrain = IF ask.toDrain > 0 THEN ask.toDrain - 1 ELSE ask.toDrain
    BY <1>4 DEF Play, Typed, AskType
  <2>3. UNCHANGED <<strm, ses>> /\ dsp.filled > 0
    BY <1>4 DEF Play, streamVars
  <2>. QED  BY <1>0, <2>1, <2>2, <2>3 DEF Filled
<1>5. CASE LoseCard
  BY <1>5, CutAt DEF LoseCard, Filled, streamVars
<1>6. CASE Writer
  BY <1>1, <1>6 DEF Writer, WriteLockActive, WriteRegister, streamVars
<1>7. CASE Delete
  BY <1>7 DEF Delete, NewDsp, NoAsk, NewSession, Filled
<1>8. CASE SsrDown \/ SsrDownCheck \/ SsrDownLock \/ SsrUp
  BY <1>1, <1>8 DEF SsrDown, SsrDownCheck, SsrDownLock, SsrUp, streamVars
<1>9. CASE SsrDownDone
  <2>1. strm'.currentState = "IDLE" /\ strm'.handle = strm.handle
    BY <1>9 DEF SsrDownDone, Typed, StrmType
  <2>. QED  BY <1>1, <1>9, <2>1 DEF SsrDownDone
<1>10. ASSUME NEW t \in {"ctl", "ssr"}, StopClose(t)  PROVE Filled'
  <2>1. /\ strm'.handle = strm.handle /\ ask' = ask /\ ~ask.started
    BY <1>10, StopCloseKeeps, QuietSteps
  <2>2. CASE StopRun(t)
    <3>1. strm'.currentState = "STOPPED"
      BY <2>2 DEF StopRun, Typed, StrmType
    <3>2. dsp' \in {dsp, CutDsp(dsp)}
      BY <2>2 DEF StopRun
    <3>3. ses'.playback_started => ses.playback_started
      BY <2>2 DEF StopRun, Typed, SesType
    <3>. QED  BY <2>1, <3>1, <3>2, <3>3, CutAt DEF Filled
  <2>3. CASE ~StopRun(t)
    <3>1. UNCHANGED dsp /\ ses'.playback_started = ses.playback_started
          /\ strm'.currentState \in {strm.currentState, "IDLE"}
      BY <1>10, <2>3 DEF StopClose, StopCheck, StopLockActive, CloseCheck, CloseRun, CloseJoin,
         CloseRest,
                streamVars, Typed, SesType, StrmType
    <3>. QED  BY <1>1, <2>1, <3>1
  <2>. QED  BY <2>2, <2>3
<1>. QED  BY <1>2, <1>3, <1>4, <1>5, <1>6, <1>7, <1>8, <1>9, <1>10 DEF Next, Controller, Recovery

-----------------------------------------------------------------------------
\* A session has a thread exactly while it plays, and no thread means no command.
Fresh ==
  /\ wk.pc = "none" => msg_queue_ = <<>>
  /\ ses.compress /\ direction = "out" =>
       wk.pc # "none" \/ \E t \in {"ctl", "ssr"} : pc[t] = "c_rest"
  /\ direction = "in" => wk.pc = "none"
  /\ ses.isGaplessFmt => ~wk.isDrainCalled
  /\ wk.pc = "waited" => wk.event = "WRITE_READY"

\* Every step keeps the queue of a thread that does not run empty.
LEMMA StepFresh ==
  ASSUME Typed, Positions, Linked, Fresh, Next
  PROVE  Fresh'
<1>0. /\ direction \in {"out", "in"} /\ scenario' = scenario /\ (direction' = direction)
      /\ ses.isGaplessFmt \in BOOLEAN
  <2>1. scenario' = scenario
    BY StopCloseKeeps DEF Next, Client, Open, StartOutput, StartInput, Write, Drain, Flush,
       SetVolume, Mute, Pause, Resume, Stop, CloseBegin,
       Worker, WkPop, WkWait, WkWaited, WkDrain, WkCheck, WkCall, workerOnly, Play, LoseCard,
       Controller, Delete,
       Writer, WriteLockActive, WriteRegister, Recovery, SsrDown, SsrDownCheck, SsrDownLock, SsrDownDone, SsrUp,
       streamVars, ctlVolume
  <2>. QED  BY <2>1, ScenarioIs DEF direction, Typed, SesType
<1>1. ASSUME UNCHANGED <<wk, msg_queue_>>, ses'.compress => ses.compress,
             ses'.isGaplessFmt = ses.isGaplessFmt,
             \A t \in {"ctl", "ssr"} : pc[t] = "c_rest" => pc'[t] = "c_rest"
      PROVE  Fresh'
  BY <1>0, <1>1 DEF Fresh
<1>2. ASSUME direction = "out", ses.compress, StreamFree  PROVE wk.pc # "none"
  BY <1>2, CompressAssumption DEF Fresh, Linked, StreamFree, Threads
<1>3. CASE Client
  <2>1. CASE Open
    BY <1>1, <2>1 DEF Open, ctlOnly, Typed, SesType
  <2>2. CASE StartOutput
    <3>1. direction = "out" /\ wk.pc = "none" /\ UNCHANGED <<msg_queue_, pc>>
      BY <2>2 DEF StartOutput, ctlOnly
    <3>2. \/ UNCHANGED <<ses, wk>>
          \/ wk' = [NewWorker EXCEPT !.pc = "loop"] /\ ses' = [ses EXCEPT !.compress = TRUE]
      BY <2>2, ResultsAre DEF StartOutput, StartSession
    <3>3. CASE UNCHANGED <<ses, wk>>
      BY <1>1, <3>1, <3>3
    <3>4. CASE wk' = [NewWorker EXCEPT !.pc = "loop"]
      BY <1>0, <3>1, <3>4 DEF NewWorker, Fresh
    <3>. QED  BY <3>2, <3>3, <3>4
  <2>3. CASE StartInput
    <3>1. direction = "in" /\ UNCHANGED <<wk, msg_queue_>> /\ ses'.isGaplessFmt = ses.isGaplessFmt
      BY <2>3 DEF StartInput, Typed, SesType
    <3>. QED  BY <1>0, <3>1 DEF Fresh
  <2>4. CASE Write
    <3>1. wk.pc # "none" /\ direction = "out"
      BY <1>2, <2>4 DEF Write
    <3>2. wk' = wk /\ ses'.isGaplessFmt = ses.isGaplessFmt
      BY <2>4 DEF Write, Typed, SesType
    <3>. QED  BY <1>0, <3>1, <3>2 DEF Fresh
  <2>5. CASE Drain
    <3>1. wk.pc # "none" /\ direction = "out"
      BY <1>2, <2>5 DEF Drain, CtlMay
    <3>. QED  BY <1>0, <2>5, <3>1 DEF Drain, streamVars, Fresh
  <2>6. CASE Flush \/ SetVolume \/ Mute \/ Pause \/ Resume
    BY <1>1, <2>6 DEF Flush, SetVolume, Mute, Pause, Resume, ctlVolume, streamVars
  <2>7. CASE Stop \/ CloseBegin
    <3>1. pc["ctl"] = "idle" /\ pc'["ssr"] = pc["ssr"] /\ UNCHANGED <<wk, msg_queue_, ses>>
      BY <2>7 DEF Stop, CloseBegin, CtlMay, Goto, Call, Positions, Control, Threads, streamVars
    <3>. QED  BY <1>1, <3>1
  <2>. QED  BY <1>3, <2>1, <2>2, <2>3, <2>4, <2>5, <2>6, <2>7 DEF Client
<1>4. CASE Worker
  <2>1. UNCHANGED workerOnly /\ wk.pc # "none"
    BY <1>4 DEF Worker, WkPop, WkWait, WkWaited, WkDrain, WkCheck, WkCall
  <2>2. ses'.isGaplessFmt = ses.isGaplessFmt
    BY <1>4 DEF Worker, WkPop, WkWait, WkWaited, WkDrain, WkCheck, WkCall, Typed, SesType
  <2>3. wk'.pc # "none" /\ (wk'.pc = "waited" => wk'.event = "WRITE_READY")
        /\ (ses.isGaplessFmt => ~wk'.isDrainCalled)
    <3>1. CASE WkPop
      <4>1. Head(msg_queue_) \in Cmd
        BY <3>1 DEF WkPop, Typed
      <4>. QED  BY <3>1, <4>1 DEF WkPop, Cmd, Fresh, Typed, WkType
    <3>2. CASE WkWait
      <4>1. PICK r : wk' = [wk EXCEPT !.ret = r, !.pc = "waited", !.event = "WRITE_READY"]
        BY <3>2 DEF WkWait
      <4>. QED  BY <4>1 DEF Fresh, Typed, WkType
    <3>3. CASE WkDrain
      <4>. DEFINE next == wk.pc = "partial" /\ ses.isGaplessFmt
      <4>1. PICK r : 
              wk' = CASE wk.pc = "drain" -> [wk EXCEPT !.ret = r, !.pc = "drained"]
                      [] next -> [wk EXCEPT !.ret = r, !.pc = "check",
                                     !.event = "PARTIAL_DRAIN_READY"]
                      [] OTHER -> [wk EXCEPT !.ret = r, !.pc = "check", !.isDrainCalled = TRUE,
                                      !.event = "DRAIN_READY"]
        BY <3>3 DEF WkDrain
      <4>2. wk.pc \in {"drain", "partial"}
        BY <3>3 DEF WkDrain
      <4>. QED  BY <4>1, <4>2 DEF Fresh, Typed, WkType
    <3>4. CASE WkWaited \/ WkCheck \/ WkCall
      BY <3>4 DEF WkWaited, WkCheck, WkCall, Fresh, Typed, WkType
    <3>. QED  BY <1>4, <3>1, <3>2, <3>3, <3>4 DEF Worker
  <2>. QED  BY <1>0, <2>1, <2>2, <2>3 DEF Fresh
<1>5. CASE Play \/ LoseCard \/ SsrUp
  BY <1>1, <1>5 DEF Play, LoseCard, SsrUp, streamVars
<1>6. CASE Writer
  BY <1>1, <1>6 DEF Writer, WriteLockActive, WriteRegister, Goto, Return, Positions, Control,
     Threads, streamVars
<1>7. CASE Delete
  <2>1. pc["ctl"] = "delete" /\ pc'["ssr"] = pc["ssr"] /\ UNCHANGED <<wk, msg_queue_>>
        /\ ~ses'.compress
        /\ ses'.isGaplessFmt = ses.isGaplessFmt
    BY <1>7 DEF Delete, Goto, Positions, Control, Threads, NewSession
  <2>. QED  BY <1>1, <2>1
<1>8. CASE SsrDown \/ SsrDownCheck \/ SsrDownLock
  BY <1>1, <1>8 DEF SsrDown, SsrDownCheck, SsrDownLock, Goto, Call, Positions, Control, Threads,
     streamVars
<1>9. CASE SsrDownDone
  BY <1>1, <1>9, GoneBack DEF SsrDownDone, Threads
<1>10. ASSUME NEW t \in {"ctl", "ssr"}, StopClose(t)  PROVE Fresh'
  <2>1. /\ ses'.isGaplessFmt = ses.isGaplessFmt
        /\ \A u \in {"ctl", "ssr"} \ {t} : pc'[u] = pc[u]
    BY <1>10, StopCloseKeeps, StopClosePlaces DEF Threads
  <2>2. CASE StopCheck(t) \/ StopLockActive(t) \/ StopRun(t) \/ CloseCheck(t)
    <3>1. pc[t] # "c_rest" /\ UNCHANGED <<wk, msg_queue_>> /\ ses'.compress = ses.compress
      BY <2>2 DEF StopCheck, StopLockActive, StopRun, CloseCheck, streamVars, Typed, SesType
    <3>. QED  BY <1>1, <2>1, <3>1
  <2>3. CASE CloseRun(t)
    <3>1. pc[t] # "c_rest" /\ wk' = wk /\ (wk.pc = "none" => msg_queue_' = msg_queue_)
      BY <2>3 DEF CloseRun
    <3>2. ses' = [ses EXCEPT !.open = FALSE]
      BY <2>3 DEF CloseRun
    <3>3. ses'.compress = ses.compress
      BY <3>2 DEF Typed, SesType
    <3>. QED  BY <1>0, <2>1, <3>1, <3>3 DEF Fresh
  <2>4. CASE CloseJoin(t)
    <3>1. pc'[t] = "c_rest" /\ wk' = NewWorker /\ msg_queue_' = <<>>
      BY <2>4 DEF CloseJoin, Goto, Positions, Control, Threads
    <3>. QED  BY <1>0, <3>1 DEF Fresh, NewWorker
  <2>5. CASE CloseRest(t)
    <3>1. ~ses'.compress /\ UNCHANGED <<wk, msg_queue_>>
      BY <2>5 DEF CloseRest, Typed, SesType
    <3>. QED  BY <1>0, <2>1, <3>1 DEF Fresh
  <2>. QED  BY <1>10, <2>2, <2>3, <2>4, <2>5 DEF StopClose
<1>. QED  BY <1>3, <1>4, <1>5, <1>6, <1>7, <1>8, <1>9, <1>10 DEF Next, Controller, Recovery

-----------------------------------------------------------------------------
\* What a queue of commands of a stream that plays holds: at most one drain.
DrainCmd == {"drain", "partial"}
Waits(q) == \A i \in 1..Len(q) : q[i] \in {"wait"} \cup DrainCmd
NoDrain(q) == \A i \in 1..Len(q) : q[i] \notin DrainCmd
OneDrain(q) == \A i, j \in 1..Len(q) : q[i] \in DrainCmd /\ q[j] \in DrainCmd => i = j

\* The thread is at a drain, or about to report one.
Draining == \/ wk.pc \in {"drain", "partial", "drained"}
            \/ wk.pc \in {"check", "call"} /\ wk.event # "WRITE_READY"
Reporting == wk.pc = "drained" \/ (wk.pc \in {"check", "call"} /\ wk.event = "DRAIN_READY")

\* One drain at a time: asked for, in the queue, or at the thread; reported when nothing is left.
Drains ==
  /\ ask.started =>
       /\ Waits(msg_queue_) /\ OneDrain(msg_queue_)
       /\ Draining \/ ask.drain = "none" => NoDrain(msg_queue_)
       /\ ask.drain = "none" => ~Draining
  /\ ask.drain = "drain" /\ ses.isGaplessFmt /\ Reporting => ask.toDrain = 0

\* What taking the first command of the queue keeps of it.
LEMMA PoppedQueue ==
  ASSUME NEW q \in Seq(Cmd), q # <<>>
  PROVE  /\ Waits(q) => Waits(Tail(q)) /\ Head(q) \in {"wait"} \cup DrainCmd
         /\ NoDrain(q) => NoDrain(Tail(q)) /\ Head(q) \notin DrainCmd
         /\ OneDrain(q) => OneDrain(Tail(q)) /\ (Head(q) \in DrainCmd => NoDrain(Tail(q)))
<1>1. Len(q) \in Nat /\ Len(q) > 0 /\ Head(q) = q[1] /\ Len(Tail(q)) = Len(q) - 1
      /\ \A i \in 1..Len(Tail(q)) : Tail(q)[i] = q[i + 1] /\ i + 1 \in 1..Len(q)
  OBVIOUS
<1>2. 1 \in 1..Len(q)
  BY <1>1
<1>3. \A i, j \in 1..Len(Tail(q)) : i + 1 = j + 1 => i = j
  BY <1>1
<1>4. \A i \in 1..Len(Tail(q)) : i + 1 # 1
  BY <1>1
<1>. QED  BY <1>1, <1>2, <1>3, <1>4 DEF Waits, NoDrain, OneDrain

\* What posting a command keeps of the queue.
LEMMA PostedQueue ==
  ASSUME NEW q \in Seq(Cmd), NEW c \in Cmd
  PROVE  /\ Waits(q) /\ c \in {"wait"} \cup DrainCmd => Waits(Append(q, c))
         /\ NoDrain(q) /\ c \notin DrainCmd => NoDrain(Append(q, c))
         /\ NoDrain(q) => OneDrain(Append(q, c))
<1>1. Len(q) \in Nat /\ Len(Append(q, c)) = Len(q) + 1 /\ Append(q, c)[Len(q) + 1] = c
      /\ \A i \in 1..Len(q) : Append(q, c)[i] = q[i]
  OBVIOUS
<1>2. \A i \in 1..Len(Append(q, c)) : i \in 1..Len(q) \/ i = Len(q) + 1
  BY <1>1
<1>. QED  BY <1>1, <1>2 DEF Waits, NoDrain, OneDrain

\* What an empty queue holds.
LEMMA NoQueue == Waits(<<>>) /\ NoDrain(<<>>) /\ OneDrain(<<>>)
<1>1. 1..Len(<<>>) = {}
  OBVIOUS
<1>. QED  BY <1>1 DEF Waits, NoDrain, OneDrain

\* A step of the worker keeps the drains that are asked for, queued and reported together.
LEMMA WorkerDrains ==
  ASSUME Typed, Playing, Life, Filled, Fresh, Drains, Worker
  PROVE  Drains'
<1>0. /\ msg_queue_ \in Seq(Cmd) /\ ask.toDrain \in Nat /\ dsp.filled \in Nat
      /\ wk.event \in Events /\ WorkerRuns
  BY DEF Typed, AskType, DspType, WkType, Worker, WkPop, WkWait, WkWaited, WkDrain, WkCheck,
     WkCall, WorkerRuns
<1>1. ask.started => CardUp /\ ses.compress /\ dsp.state # "cut"
  BY <1>0 DEF Playing, Life, Filled
<1>2. /\ ask'.started = ask.started /\ ask'.toDrain = ask.toDrain
      /\ ask'.drain \in {ask.drain, "none"}
      /\ ses'.isGaplessFmt = ses.isGaplessFmt /\ UNCHANGED dsp
  <2>1. UNCHANGED workerOnly
    BY DEF Worker, WkPop, WkWait, WkWaited, WkDrain, WkCheck, WkCall
  <2>2. ses'.isGaplessFmt = ses.isGaplessFmt
    BY DEF Worker, WkPop, WkWait, WkWaited, WkDrain, WkCheck, WkCall, Typed, SesType
  <2>3. ask'.toDrain = ask.toDrain /\ ask'.started = ask.started
        /\ ask'.drain \in {ask.drain, "none"}
    BY DEF Worker, WkPop, WkWait, WkWaited, WkDrain, WkCheck, WkCall, Typed, AskType
  <2>. QED  BY <2>1, <2>2, <2>3 DEF workerOnly
<1>3. CASE WkPop
  <2>. DEFINE cmd == Head(msg_queue_)
  <2>1. cmd \in Cmd /\ msg_queue_' = Tail(msg_queue_) /\ msg_queue_ # <<>> /\ ask' = ask
    BY <1>0, <1>3 DEF WkPop
  <2>2. ask.started => cmd \in {"wait", "drain", "partial"}
    BY <1>0, <2>1, PoppedQueue DEF Drains, DrainCmd
  <2>3. /\ wk'.pc \in {"exited", "call", "wait", "check", "drain", "drained", "partial"}
        /\ ask.started /\ cmd = "wait" => wk'.pc = "wait"
        /\ ask.started /\ cmd = "drain" => wk'.pc \in {"drain", "drained"}
                                            /\ (wk'.pc = "drained" => wk.isDrainCalled)
        /\ ask.started /\ cmd = "partial" => wk'.pc = "partial"
    <3>. HIDE DEF cmd
    <3>1. wk' = CASE cmd = "exit" -> [wk EXCEPT !.pc = "exited"]
                  [] cmd = "error" -> [wk EXCEPT !.event = "ERROR", !.pc = "call"]
                  [] cmd = "wait" -> [wk EXCEPT !.pc = IF CardUp THEN "wait" ELSE "check"]
                  [] cmd = "drain" ->
                       [wk EXCEPT !.pc = IF CardUp /\ ses.compress /\ ~wk.isDrainCalled
                                           THEN "drain" ELSE "drained"]
                  [] cmd = "partial" ->
                       [wk EXCEPT !.pc = IF CardUp /\ ses.compress THEN "partial" ELSE "check"]
      BY <1>3 DEF WkPop, cmd
    <3>. QED  BY <1>1, <2>1, <3>1 DEF Typed, WkType, Cmd
  <2>4. /\ ask.started => ~Draining' \/ cmd \in DrainCmd
        /\ ask.started /\ ses.isGaplessFmt => ~Reporting'
    BY <2>2, <2>3 DEF Draining, Reporting, DrainCmd, Fresh
  <2>5. ask.drain # "none" => ask.started
    BY DEF Filled
  <2>6. ask.started => /\ Waits(msg_queue_') /\ OneDrain(msg_queue_')
                       /\ NoDrain(msg_queue_) => NoDrain(msg_queue_') /\ cmd \notin DrainCmd
                       /\ cmd \in DrainCmd => NoDrain(msg_queue_')
    BY <1>0, <2>1, PoppedQueue DEF Drains
  <2>. HIDE DEF cmd
  <2>. QED  BY <1>2, <2>1, <2>4, <2>5, <2>6 DEF Drains, Waits, OneDrain, NoDrain
<1>4. CASE ~WkPop
  <2>1. msg_queue_' = msg_queue_
    BY <1>4 DEF Worker, WkPop, WkWait, WkWaited, WkDrain, WkCheck, WkCall
  <2>2. ask.drain = "drain" => ask.started
    BY DEF Filled
  <2>3. ASSUME ask'.drain = ask.drain, Draining' => Draining,
               ask.drain = "drain" /\ ses.isGaplessFmt /\ Reporting' => Reporting \/ ask.toDrain = 0
        PROVE  Drains'
    BY <1>2, <2>1, <2>3 DEF Drains, Waits, OneDrain, NoDrain
  <2>4. CASE WkWait
    <3>1. wk'.pc = "waited" /\ ask' = ask
      BY <2>4 DEF WkWait, Typed, WkType
    <3>. QED  BY <2>3, <3>1 DEF Draining, Reporting
  <2>5. CASE WkWaited
    <3>1. wk'.pc = "check" /\ wk'.event = "WRITE_READY" /\ ask' = ask
      BY <2>5 DEF WkWaited, Typed, WkType, Fresh
    <3>. QED  BY <2>3, <3>1 DEF Draining, Reporting
  <2>6. CASE WkDrain
    <3>. DEFINE next == wk.pc = "partial" /\ ses.isGaplessFmt
    <3>1. PICK r \in Outcome(IF next THEN dsp.filled <= 1 ELSE dsp.filled = 0) :
            wk' = CASE wk.pc = "drain" -> [wk EXCEPT !.ret = r, !.pc = "drained"]
                    [] next -> [wk EXCEPT !.ret = r, !.pc = "check",
                                   !.event = "PARTIAL_DRAIN_READY"]
                    [] OTHER -> [wk EXCEPT !.ret = r, !.pc = "check", !.isDrainCalled = TRUE,
                                    !.event = "DRAIN_READY"]
      BY <2>6 DEF WkDrain
    <3>2. Draining /\ wk.pc \in {"drain", "partial"} /\ ask' = ask
      BY <2>6 DEF WkDrain, Draining
    <3>3. CASE wk.pc = "partial"
      <4>1. ses.isGaplessFmt => wk'.pc = "check" /\ wk'.event = "PARTIAL_DRAIN_READY"
        BY <3>1, <3>3 DEF Typed, WkType
      <4>. QED  BY <2>3, <3>2, <4>1 DEF Reporting
    <3>4. CASE wk.pc = "drain"
      <4>1. r \in Outcome(dsp.filled = 0)
        BY <3>1, <3>4
      <4>2. ask.started => dsp.filled = 0
        BY <1>1, <4>1 DEF Outcome, Filled
      <4>3. ask.started => ask.toDrain = 0
        BY <1>0, <4>2 DEF Filled
      <4>. QED  BY <2>2, <2>3, <3>2, <4>3
    <3>. QED  BY <3>2, <3>3, <3>4
  <2>7. CASE WkCheck
    <3>1. \/ wk'.pc = "loop"
          \/ wk'.pc = "call" /\ wk.pc = "drained" /\ wk'.event = "DRAIN_READY"
          \/ wk'.pc = "call" /\ wk.pc = "check" /\ wk'.event = wk.event
      BY <2>7 DEF WkCheck, Typed, WkType
    <3>2. ask' = ask
      BY <2>7 DEF WkCheck
    <3>. QED  BY <2>3, <3>1, <3>2 DEF Draining, Reporting
  <2>8. CASE WkCall
    <3>1. wk.pc = "call" /\ wk'.pc = "loop"
      BY <2>8 DEF WkCall, Typed, WkType
    <3>2. ask'.drain = IF wk.event = "WRITE_READY" THEN ask.drain ELSE "none"
      BY <2>8 DEF WkCall, Typed, AskType
    <3>3. ~Draining' /\ ~Reporting' /\ (Draining \/ wk.event = "WRITE_READY")
      BY <3>1 DEF Draining, Reporting
    <3>. QED  BY <1>2, <2>1, <3>2, <3>3 DEF Drains, Waits, OneDrain, NoDrain
  <2>. QED  BY <1>4, <2>4, <2>5, <2>6, <2>7, <2>8 DEF Worker
<1>. QED  BY <1>3, <1>4

\* Every step does.
LEMMA StepDrains ==
  ASSUME Typed, Positions, Linked, Playing, Life, Filled, Fresh, Drains, Next
  PROVE  Drains'
<1>0. msg_queue_ \in Seq(Cmd)
  BY DEF Typed
<1>1. Filled'
  BY StepFilled
<1>2. ASSUME ~ask'.started  PROVE Drains'
  BY <1>1, <1>2 DEF Drains, Filled
<1>3. ASSUME UNCHANGED <<msg_queue_, wk>>, ask'.drain = ask.drain, ask'.started = ask.started,
             ask'.toDrain = ask.toDrain \/ ask'.toDrain <= ask.toDrain \/ ask'.toDrain = 0,
             ses'.isGaplessFmt = ses.isGaplessFmt
      PROVE  Drains'
  <2>1. ask.toDrain = 0 => ask'.toDrain = 0
    BY <1>3, StepTyped DEF Typed, AskType
  <2>. QED  BY <1>3, <2>1 DEF Drains, Draining, Reporting, Waits, OneDrain, NoDrain
<1>4. CASE Client
  <2>1. CASE Open
    BY <1>2, <2>1 DEF Open, Playing
  <2>2. CASE StartOutput \/ StartInput
    <3>0. ~ask.started /\ ask.drain = "none"
      BY <2>2 DEF StartOutput, StartInput, Playing, Filled, Typed, AskType
    <3>1. /\ ask' = ask \/ ask' = [ask EXCEPT !.started = TRUE]
          /\ wk.pc = "none" /\ msg_queue_' = msg_queue_
          /\ wk' = wk \/ wk' = [NewWorker EXCEPT !.pc = "loop"]
      BY <2>2, ResultsAre DEF StartOutput, StartInput, StartSession, ctlOnly, Fresh
    <3>2. msg_queue_' = <<>> /\ ask'.drain = "none" /\ wk'.pc \in {"none", "loop"}
      BY <3>0, <3>1 DEF Fresh, Typed, AskType, NewWorker
    <3>3. ~Draining'
      BY <3>2 DEF Draining
    <3>. QED  BY <3>2, <3>3, NoQueue DEF Drains, Waits, OneDrain, NoDrain
  <2>3. CASE Write
    <3>1. ask'.toDrain = ask.toDrain /\ ask'.drain = ask.drain /\ ask'.started = ask.started
      BY <2>3 DEF Write, Typed, AskType
    <3>2. wk' = wk /\ ses'.isGaplessFmt = ses.isGaplessFmt /\ ask.drain = "none"
      BY <2>3 DEF Write, Typed, SesType
    <3>3. msg_queue_' = msg_queue_ \/ msg_queue_' = Append(msg_queue_, "wait")
      BY <2>3 DEF Write
    <3>4. CASE msg_queue_' = msg_queue_
      BY <1>3, <3>1, <3>2, <3>4
    <3>5. CASE msg_queue_' = Append(msg_queue_, "wait")
      <4>1. ask.started => Waits(msg_queue_') /\ NoDrain(msg_queue_') /\ OneDrain(msg_queue_')
        BY <1>0, <3>2, <3>5, PostedQueue DEF Drains, DrainCmd, Cmd
      <4>. QED  BY <3>1, <3>2, <4>1 DEF Drains, Draining, Reporting, Waits, OneDrain, NoDrain
    <3>. QED  BY <3>3, <3>4, <3>5
  <2>4. CASE Drain
    <3>1. PICK cmd \in DrainCmd : 
            msg_queue_' = Append(msg_queue_, cmd)
            /\ ask' = [ask EXCEPT !.drain = cmd, !.toDrain = dsp.filled]
      BY <2>4 DEF Drain, DrainCmd
    <3>2. ask.started /\ ask.drain = "none" /\ wk' = wk
      BY <2>4 DEF Drain
    <3>3. ask'.drain # "none" /\ ask'.started
      BY <3>1, <3>2 DEF Typed, AskType, DrainCmd
    <3>4. Waits(msg_queue_') /\ OneDrain(msg_queue_')
      BY <1>0, <3>1, <3>2, PostedQueue DEF Drains, DrainCmd, Cmd
    <3>5. ~Draining' /\ ~Reporting'
      BY <3>2 DEF Drains, Draining, Reporting
    <3>. QED  BY <3>3, <3>4, <3>5 DEF Drains, Waits, OneDrain, NoDrain
  <2>5. CASE Flush
    <3>1. ask'.toDrain = 0 /\ ask'.started = ask.started /\ ask'.drain = ask.drain
      BY <2>5 DEF Flush, Typed, AskType
    <3>. QED  BY <1>3, <2>5, <3>1 DEF Flush, streamVars
  <2>6. CASE SetVolume \/ Mute \/ Pause \/ Resume
    BY <1>3, <2>6 DEF SetVolume, Mute, Pause, Resume, ctlVolume
  <2>7. CASE Stop \/ CloseBegin
    BY <1>2, <2>7, CutAt DEF Stop, CloseBegin
  <2>. QED  BY <1>4, <2>1, <2>2, <2>3, <2>4, <2>5, <2>6, <2>7 DEF Client
<1>5. CASE Play
  <2>1. ask'.started = ask.started /\ ask'.drain = ask.drain /\ ask'.toDrain <= ask.toDrain
    BY <1>5 DEF Play, Typed, AskType
  <2>. QED  BY <1>3, <1>5, <2>1 DEF Play, streamVars
<1>6. CASE LoseCard
  BY <1>2, <1>6, CutAt DEF LoseCard
<1>7. CASE Writer
  BY <1>3, <1>7 DEF Writer, WriteLockActive, WriteRegister, streamVars
<1>. QED  BY <1>2, <1>4, <1>5, <1>6, <1>7, WorkerDrains, QuietSteps DEF Next, Controller, Recovery

-----------------------------------------------------------------------------
\* The inductive invariant.
IInv ==
  /\ Typed /\ Positions /\ Linked
  /\ Playing /\ Sound
  /\ Life
  /\ Votes /\ Left
  /\ Filled /\ Fresh /\ Drains

\* The inductive invariant holds of a new stream.
LEMMA InitInv == Init => IInv
<1>. SUFFICES ASSUME Init  PROVE IInv
  OBVIOUS
<1>1. Typed
  <2>1. scenario \in Scenarios
    BY DEF Init
  <2>2. /\ scenario.isGaplessFmt \in BOOLEAN /\ scenario.mDevices \in SUBSET Devices
        /\ Room \in Nat \ {0}
    BY <2>1, CompressAssumption DEF Room
  <2>3. strm \in StrmType
    BY <2>2 DEF Init, NewStream, StrmType, State
  <2>4. ses \in SesType
    BY <2>2 DEF Init, NewSession, SesType
  <2>5. volume \in VolumeType /\ wk \in WkType /\ ask \in AskType
    BY DEF Init, NewVolume, VolumeType, NewWorker, WkType, WkPcs, Events, NoAsk, AskType
  <2>6. dsp \in DspType /\ dsp.filled <= Room
    BY <2>2 DEF Init, NewDsp, DspType
  <2>7. msg_queue_ \in Seq(Cmd)
    BY DEF Init
  <2>. QED  BY <2>1, <2>3, <2>4, <2>5, <2>6, <2>7, NoUseTyped DEF Init, Typed
<1>2. Positions
  <2>1. <<>> \in Returns /\ "idle" \in Labels
    BY DEF Returns, Labels
  <2>. QED  BY <2>1 DEF Init, Positions, Control, CtlAt, SsrAt, WrAt, Threads
<1>3. Linked
  BY DEF Init, Linked, Threads, NewStream
<1>4. Playing /\ Sound
  BY DEF Init, Playing, Sound, NoAsk, NewVolume
<1>5. Life
  BY DEF Init, Life, WorkerRuns, NewWorker
<1>6. Votes
  BY DEF Init, Votes, NewStream, Threads
<1>7. Left
  BY DEF Init, Left, Counted, Rests, OpenOn, NoUse, NewStream
<1>8. Filled
  BY DEF Init, Filled, NoAsk, NewDsp, NewSession
<1>9. Fresh
  BY DEF Init, Fresh, NewWorker, NewSession
<1>10. Drains
  BY DEF Init, Drains, NoAsk
<1>. QED  BY <1>1, <1>2, <1>3, <1>4, <1>5, <1>6, <1>7, <1>8, <1>9, <1>10 DEF IInv

\* Every step, and every stutter, keeps the inductive invariant.
LEMMA StepInv == IInv /\ [Next]_vars => IInv'
<1>1. ASSUME IInv, Next  PROVE IInv'
  BY <1>1, StepTyped, StepPositions, StepLinked, StepPlaying, StepSound, StepLife, StepVotes,
     StepLeft,
     StepFilled, StepFresh, StepDrains DEF IInv
<1>2. ASSUME IInv, UNCHANGED vars  PROVE IInv'
  <2>1. /\ UNCHANGED <<scenario, strm, ses, volume>> /\ UNCHANGED <<msg_queue_, wk, dsp>>
        /\ UNCHANGED <<dev, registered, votes, left>> /\ UNCHANGED <<card, cardState, downs>>
        /\ UNCHANGED <<mStreamMutex, mActiveStreamMutex, pc, ret, ask>>
    BY <1>2 DEF vars, streamVars, deviceVars, cardVars, mutexes
  <2>2. Typed' /\ Positions' /\ Linked'
    BY <1>2, <2>1 DEF IInv, Typed, Room, Positions, Control, Linked, CardUp
  <2>3. Playing' /\ Sound' /\ Life'
    BY <1>2, <2>1 DEF IInv, Playing, CardThere, CardUp, Sound, Life, WorkerRuns
  <2>4. Votes' /\ Left'
    BY <1>2, <2>1 DEF IInv, Votes, Closing, Left, May, Faults, Counted, Rests, OpenOn
  <2>5. Filled' /\ Fresh' /\ Drains'
    BY <1>2, <2>1 DEF IInv, Filled, Fresh, direction, Drains, Draining, Reporting, Waits, OneDrain,
       NoDrain
  <2>. QED  BY <2>2, <2>3, <2>4, <2>5 DEF IInv
<1>. QED  BY <1>1, <1>2

\* Every variable keeps to its type: the DSP never holds more than its buffer, whatever is
\* written, drained, flushed, or lost with the card (StreamCompress.cpp, SessionAlsaCompress.cpp).
THEOREM CompressTypes == Spec => []TypeOK
<1>1. IInv => TypeOK
  <2>1. SUFFICES ASSUME Typed  PROVE TypeOK
    BY DEF IInv
  <2>2. dsp.filled \in 0..Room
    BY <2>1, ScenarioIs DEF Typed, DspType
  <2>. QED  BY <2>1, <2>2 DEF Typed, TypeOK, StrmType, SesType, WkType, WkPcs, DspType, UseType,
               Counters
<1>. QED  BY <1>1, InitInv, StepInv, PTL DEF Spec

\* The thread that reports to the client runs only while its stream has a handle and is not
\* IDLE: close joins it before the stream is let go, also when the recovery closes the stream.
THEOREM WorkerKeepsStream == Spec => []WorkerHasStream
<1>1. IInv => WorkerHasStream
  BY DEF IInv, Life, WorkerRuns, WorkerHasStream
<1>. QED  BY <1>1, InitInv, StepInv, PTL DEF Spec

\* The volume and the mute of a stream that plays are those its client asked for, after
\* any order of volumes, mutes, pauses and losses of the card
\* (setVolume and mute of StreamCompress.cpp, its recovery in ssrDownHandler).
THEOREM SoundStaysAsked == Spec => []SoundAsAsked
<1>1. IInv => SoundAsAsked
  <2>1. SUFFICES ASSUME Sound, Typed  PROVE SoundAsAsked
    BY DEF IInv
  <2>2. volume.set \in {0, 1}
    BY <2>1 DEF Typed, VolumeType
  <2>. QED  BY <2>1, <2>2 DEF Sound, SoundAsAsked
<1>. QED  BY <1>1, InitInv, StepInv, PTL DEF Spec

\* A stream that is closed leaves no device open or started, and no vote against deep sleep
\* but those of calls that failed, whichever thread closed it.
THEOREM NothingStaysLeft == Spec => []NothingLeft
<1>1. IInv => NothingLeft
  <2>1. SUFFICES ASSUME Votes, Left, strm.handle = "none", ~May("deviceOpen")
                 PROVE  votes <= left /\ \A d \in Devices : dev[d].count = 0 /\ dev[d].startStop = 0
    BY DEF IInv, NothingLeft
  <2>2. strm.currentState = "IDLE" /\ votes <= left
    BY <2>1 DEF Votes, Running
  <2>3. Rests(dev) /\ Counted(dev, strm.mDevices)
    BY <2>1, <2>2 DEF Left
  <2>. QED  BY <2>2, <2>3 DEF Rests, Counted
<1>. QED  BY <1>1, InitInv, StepInv, PTL DEF Spec

\* In gapless playback the client is told that a drain is done only when everything
\* written before it was played (SessionAlsaCompress::offloadThreadLoop).
THEOREM DrainedMeansPlayed == Spec => DrainReadyMeansDrained
<1>1. IInv => (WkCall /\ wk.event = "DRAIN_READY" /\ ask.drain = "drain" /\ ses.isGaplessFmt
                 => ask.toDrain = 0)
  BY DEF IInv, Drains, Reporting, WkCall
<1>. QED  BY <1>1, InitInv, StepInv, PTL DEF Spec, DrainReadyMeansDrained

====

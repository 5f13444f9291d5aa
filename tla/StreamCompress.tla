----------------------------- MODULE StreamCompress -----------------------------
(***************************************************************************)
(* A compressed (offload) stream: StreamCompress, its SessionAlsaCompress  *)
(* and the offload thread of the session.                                  *)
(*                                                                         *)
(* A write that does not fit in the buffers of the DSP posts a request to  *)
(* the offload thread, which waits for room and calls the client back; so  *)
(* does a drain.  The client writes from one thread and controls the       *)
(* stream from another; the recovery thread closes the stream when the     *)
(* sound card is lost.  A section of mStreamMutex is one step.  close is   *)
(* the exception: it owns the mutex while it waits for the offload thread  *)
(* to end.  The queue of the offload thread has its own mutex, held only   *)
(* to push or to pop.                                                      *)
(***************************************************************************)
EXTENDS Naturals, Sequences, FiniteSets, Device

CONSTANTS
  Scenarios,   \* what the client and the environment may do; each behaviour follows one
  MaxQueue,    \* the requests waiting above which the client makes none
  MaxLeft,     \* the votes or devices left behind above which nothing is opened
  None

Threads == {"ctl", "wr", "ssr"}

ASSUME CompressAssumption ==
  /\ \A c \in Scenarios :
       /\ c.direction \in {"out", "in"} /\ c.isGaplessFmt \in BOOLEAN
       /\ c.Room \in Nat \ {0} /\ c.MaxDown \in Nat /\ c.mDevices \subseteq Devices
  /\ MaxQueue \in Nat /\ MaxLeft \in Nat /\ None \notin Threads

VARIABLE scenario                      \* the scenario of this behaviour

direction == scenario.direction        \* "out" or "in"
Ops == scenario.Ops                    \* the calls the client makes beside open and close
Faults == scenario.Faults              \* the calls below the stream that may fail
Room == scenario.Room                  \* writes that fit in the buffers of the DSP
MaxDown == scenario.MaxDown            \* how often the card is lost

VARIABLES
  strm, ses,                \* the stream and its session
  volume,                   \* volume and mute, asked for and in force
  msg_queue_, wk,           \* the offload thread
  dsp,                      \* the DSP behind the session (external)
  dev, registered,          \* devices; those registered as active for the stream
  votes, left,              \* votes against sleep (nlpi_counter_); ghost: those
                            \* that nothing will take back
  card, cardState, downs,   \* the card, what the manager knows of it, losses
  mStreamMutex, mActiveStreamMutex,
  pc, ret,                  \* where a thread is and where its call returns to
  ask                       \* ghost: what the client waits for

streamVars == <<scenario, strm, ses, volume>>
deviceVars == <<dev, registered, votes, left>>
cardVars == <<card, cardState, downs>>
mutexes == <<mStreamMutex, mActiveStreamMutex>>
vars == <<streamVars, msg_queue_, wk, dsp, deviceVars, cardVars, mutexes, pc, ret, ask>>

State == {"IDLE", "INIT", "OPENED", "STARTED", "PAUSED", "STOPPED"}
Cmd == {"exit", "error", "wait", "drain", "partial"}

\* waiting: whether command is OFFLOAD_CMD_WAIT_FOR_BUFFER.
NewStream(h) == [handle |-> h, currentState |-> "IDLE", isPaused |-> FALSE,
                 mDevices |-> scenario.mDevices]
NewSession(gapless) == [open |-> FALSE, compress |-> FALSE, playback_started |-> FALSE,
                        isGaplessFmt |-> gapless, waiting |-> FALSE]
NewWorker == [pc |-> "none", ret |-> "ok", event |-> "WRITE_READY",
              isDrainCalled |-> FALSE]
NewVolume == [asked |-> 1, set |-> 1, dsp |-> 1, muteAsked |-> FALSE, muted |-> FALSE,
              unMutePending |-> FALSE, lost |-> FALSE]
NewDsp == [state |-> "idle", paused |-> FALSE, filled |-> 0]
NoAsk == [started |-> FALSE, room |-> FALSE, drain |-> "none", toDrain |-> 0]

Init ==
  /\ scenario \in Scenarios
  /\ strm = NewStream("none") /\ volume = NewVolume
  /\ ses = NewSession(scenario.isGaplessFmt)
  /\ msg_queue_ = <<>> /\ wk = NewWorker /\ dsp = NewDsp
  /\ dev = NoUse /\ registered = {} /\ votes = 0 /\ left = 0
  /\ card = "online" /\ cardState = "online" /\ downs = 0
  /\ mStreamMutex = None /\ mActiveStreamMutex = None
  /\ pc = [t \in Threads |-> "idle"] /\ ret = [t \in Threads |-> <<>>]
  /\ ask = NoAsk

-----------------------------------------------------------------------------
(* Threads, mutexes and the card.                                          *)

Goto(t, label) == pc' = [pc EXCEPT ![t] = label] /\ UNCHANGED ret
Call(t, label, back) ==
  /\ pc' = [pc EXCEPT ![t] = label] /\ ret' = [ret EXCEPT ![t] = <<back>> \o @]
Return(t) ==
  /\ pc' = [pc EXCEPT ![t] = IF ret[t] = <<>> THEN "idle" ELSE Head(ret[t])]
  /\ ret' = [ret EXCEPT ![t] = IF @ = <<>> THEN @ ELSE Tail(@)]

StreamFree == mStreamMutex = None
ActiveFree == mActiveStreamMutex = None
CardUp == cardState = "online"
CardThere == card = "online"
May(fault) == fault \in Faults
CtlMay(op) == pc["ctl"] = "idle" /\ StreamFree /\ strm.handle = "open" /\ op \in Ops

\* After a stop or a loss of the card the client expects no event.
Cut(a) == [a EXCEPT !.started = FALSE, !.room = FALSE, !.drain = "none"]
CutDsp(d) == [d EXCEPT !.state = IF @ = "running" THEN "cut" ELSE @]

\* The card goes, and with it what is under way; it comes back when the
\* manager has taken note.
LoseCard ==
  /\ CardThere /\ CardUp /\ downs < MaxDown
  /\ card' = "lost" /\ downs' = downs + 1 /\ dsp' = CutDsp(dsp) /\ ask' = Cut(ask)
  /\ UNCHANGED <<streamVars, msg_queue_, wk, deviceVars, cardState, mutexes, pc, ret>>

\* The DSP plays what is in its buffers.
Play ==
  /\ dsp.state = "running" /\ ~dsp.paused /\ dsp.filled > 0
  /\ dsp' = [dsp EXCEPT !.filled = @ - 1]
  /\ ask' = [ask EXCEPT !.toDrain = IF @ > 0 THEN @ - 1 ELSE @]
  /\ UNCHANGED <<streamVars, msg_queue_, wk, deviceVars, cardVars, mutexes, pc, ret>>

-----------------------------------------------------------------------------
(* offloadThreadLoop.                                                      *)

workerOnly == <<scenario, strm, volume, dsp, deviceVars, cardVars, mutexes, pc, ret>>

\* Take a message.  Without a card only ret and event_id of before are looked at.
WkPop ==
  /\ wk.pc = "loop" /\ msg_queue_ # <<>>
  /\ LET cmd == Head(msg_queue_) IN
       /\ msg_queue_' = Tail(msg_queue_)
       /\ ses' = [ses EXCEPT !.waiting = (cmd = "wait")]
       /\ wk' = CASE cmd = "exit" -> [wk EXCEPT !.pc = "exited"]
                  [] cmd = "error" -> [wk EXCEPT !.event = "ERROR", !.pc = "call"]
                  [] cmd = "wait" -> [wk EXCEPT !.pc = IF CardUp THEN "wait" ELSE "check"]
                  [] cmd = "drain" ->
                       [wk EXCEPT !.pc = IF CardUp /\ ses.compress /\ ~wk.isDrainCalled
                                           THEN "drain" ELSE "drained"]
                  [] cmd = "partial" ->
                       [wk EXCEPT !.pc = IF CardUp /\ ses.compress THEN "partial" ELSE "check"]
  /\ UNCHANGED ask /\ UNCHANGED workerOnly

\* compress_wait and compress_drain return when it is done, or are cut short with
\* an errno the loop may know; a drain before the first write is refused.
Outcome(done) == (IF done /\ dsp.state # "idle" THEN {"ok"} ELSE {})
                   \cup (IF dsp.state = "cut" THEN {"cancel", "error"} ELSE {})
                   \cup (IF dsp.state = "idle" THEN {"error"} ELSE {})

WkWait ==
  /\ wk.pc = "wait"
  /\ \E r \in Outcome(dsp.filled < Room) :
       wk' = [wk EXCEPT !.ret = r, !.pc = "waited", !.event = "WRITE_READY"]
  /\ UNCHANGED <<ses, msg_queue_, ask>> /\ UNCHANGED workerOnly

\* Mutant of WkWaited: further short writes believe a request is waiting.
WkWaitedKeeps ==
  /\ wk.pc = "waited" /\ wk' = [wk EXCEPT !.pc = "check"]
  /\ UNCHANGED <<ses, msg_queue_, ask>> /\ UNCHANGED workerOnly

\* Only from here on does a short write post another request.
WkWaited ==
  /\ wk.pc = "waited" /\ wk' = [wk EXCEPT !.pc = "check"]
  /\ ses' = [ses EXCEPT !.waiting = FALSE]
  /\ UNCHANGED <<msg_queue_, ask>> /\ UNCHANGED workerOnly

\* Mutant of WkDrain: every partial drain counts as a drain.
WkDrainSticky ==
  /\ wk.pc \in {"drain", "partial"}
  /\ LET next == wk.pc = "partial" /\ ses.isGaplessFmt IN
     \E r \in Outcome(IF next THEN dsp.filled <= 1 ELSE dsp.filled = 0) :
       wk' = IF wk.pc = "drain" THEN [wk EXCEPT !.ret = r, !.pc = "drained"]
             ELSE [wk EXCEPT !.ret = r, !.pc = "check", !.isDrainCalled = TRUE,
                             !.event = IF next THEN "PARTIAL_DRAIN_READY" ELSE "DRAIN_READY"]
  /\ UNCHANGED <<ses, msg_queue_, ask>> /\ UNCHANGED workerOnly

\* A partial drain of a format that does not play without gaps drains all.
WkDrain ==
  /\ wk.pc \in {"drain", "partial"}
  /\ LET next == wk.pc = "partial" /\ ses.isGaplessFmt IN
     \E r \in Outcome(IF next THEN dsp.filled <= 1 ELSE dsp.filled = 0) :
       wk' = CASE wk.pc = "drain" -> [wk EXCEPT !.ret = r, !.pc = "drained"]
               [] next -> [wk EXCEPT !.ret = r, !.pc = "check",
                                     !.event = "PARTIAL_DRAIN_READY"]
               [] OTHER -> [wk EXCEPT !.ret = r, !.pc = "check", !.isDrainCalled = TRUE,
                                      !.event = "DRAIN_READY"]
  /\ UNCHANGED <<ses, msg_queue_, ask>> /\ UNCHANGED workerOnly

\* What was cancelled is not reported.  ret is that of the last call, however old.
WkCheck ==
  /\ wk.pc \in {"drained", "check"}
  /\ wk' = CASE wk.ret = "cancel" -> [wk EXCEPT !.pc = "loop"]
             [] wk.ret # "cancel" /\ wk.pc = "drained" ->
                  [wk EXCEPT !.pc = "call", !.isDrainCalled = FALSE,
                             !.event = "DRAIN_READY"]
             [] OTHER -> [wk EXCEPT !.pc = "call"]
  /\ UNCHANGED <<ses, msg_queue_, ask>> /\ UNCHANGED workerOnly

\* handleSessionCallBack: the callback is read from the stream and called.
WkCall ==
  /\ wk.pc = "call" /\ wk' = [wk EXCEPT !.pc = "loop"]
  /\ ask' = [ask EXCEPT !.room = @ /\ wk.event \notin {"WRITE_READY", "ERROR"},
                        !.drain = IF wk.event = "WRITE_READY" THEN @ ELSE "none"]
  /\ UNCHANGED <<ses, msg_queue_>> /\ UNCHANGED workerOnly

Worker == WkPop \/ WkWait \/ WkWaited \/ WkDrain \/ WkCheck \/ WkCall

-----------------------------------------------------------------------------
(* Open and start.                                                         *)

ctlOnly == <<msg_queue_, cardVars, mutexes, registered>>

\* pal_stream_open: a stream that does not open is deleted again.  A device that
\* does not open leaves those before it open; a session that does not open is
\* reported as open.
Open ==
  /\ pc["ctl"] = "idle" /\ StreamFree /\ strm.handle = "none" /\ CardUp
  /\ votes < MaxLeft /\ \A d \in Devices : dev[d].count < MaxLeft
  /\ \/ /\ CardThere
        /\ dev' = Opened(dev, scenario.mDevices)
        /\ strm' = [NewStream("open") EXCEPT !.currentState = "INIT"]
        /\ ses' = [ses EXCEPT !.open = TRUE]
     \/ /\ May("deviceOpen")
        /\ \E D \in ProperSubsets(scenario.mDevices) : dev' = Opened(dev, D)
        /\ UNCHANGED <<strm, ses>>
     \/ /\ May("sessionOpen") /\ direction = "out"
        /\ dev' = Opened(dev, scenario.mDevices)
        /\ strm' = [NewStream("open") EXCEPT !.currentState = "INIT"]
        /\ UNCHANGED ses
     \/ /\ May("sessionOpen") /\ direction = "in"
        /\ strm' = NewStream("open")
        /\ UNCHANGED <<dev, ses>>
  /\ UNCHANGED <<scenario, volume, wk, dsp, votes, left, pc, ret, ask>>
  /\ UNCHANGED ctlOnly

\* The session starts, or does not: compress_open fails and the thread is joined,
\* something after it fails and both stay, or the card is gone.
Results == IF CardThere /\ ses.open
             THEN {"ok"} \cup {f \in {"compressOpen", "late"} : May(f)}
             ELSE {"compressOpen"}

StartSession(result, D, startedDev) ==
  CASE result = "ok" ->
         /\ dev' = startedDev /\ votes' = votes + 1
         /\ strm' = [strm EXCEPT !.currentState = "OPENED", !.mDevices = D]
         /\ ses' = [ses EXCEPT !.compress = TRUE]
         /\ wk' = [NewWorker EXCEPT !.pc = "loop"]
         /\ volume' = [volume EXCEPT !.dsp = volume.set]
         /\ ask' = [ask EXCEPT !.started = TRUE]
    [] result = "late" ->
         /\ dev' = Stopped(startedDev, D)
         /\ strm' = [strm EXCEPT !.mDevices = D]
         /\ ses' = [ses EXCEPT !.compress = TRUE]
         /\ wk' = [NewWorker EXCEPT !.pc = "loop"]
         /\ UNCHANGED <<votes, volume, ask>>
    [] result = "compressOpen" ->
         /\ dev' = Stopped(startedDev, D)
         /\ strm' = [strm EXCEPT !.mDevices = D]
         /\ UNCHANGED <<votes, ses, wk, volume, ask>>

\* Mutant of StartOutput: devices that fail to start are not closed.
StartOutputNoClose ==
  /\ CtlMay("start") /\ direction = "out" /\ CardUp /\ strm.currentState = "INIT"
  /\ wk.pc = "none"
  /\ \E failing \in SUBSET strm.mDevices :
       LET D == strm.mDevices \ failing IN
       /\ D # {} /\ (failing # {} => May("deviceStart"))
       /\ \E r \in Results : StartSession(r, D, Started(dev, D))
  /\ UNCHANGED <<scenario, dsp, left, pc, ret>> /\ UNCHANGED ctlOnly

\* A second start would replace the thread of the first: the client makes none.
StartOutput ==
  /\ CtlMay("start") /\ direction = "out" /\ CardUp /\ strm.currentState = "INIT"
  /\ wk.pc = "none"
  /\ \E failing \in SUBSET strm.mDevices :
       LET D == strm.mDevices \ failing
           startedDev == Started(Closed(dev, failing), D) IN
       /\ failing # {} => May("deviceStart")
       /\ IF D = {}
            THEN /\ strm' = [strm EXCEPT !.mDevices = {}] /\ dev' = startedDev
                 /\ UNCHANGED <<votes, ses, wk, volume, ask>>
            ELSE \E r \in Results : StartSession(r, D, startedDev)
  /\ UNCHANGED <<scenario, dsp, left, pc, ret>> /\ UNCHANGED ctlOnly

\* A device that fails leaves those before it started; a capture that fails to
\* start keeps its vote and its handle.
StartInput ==
  /\ CtlMay("start") /\ direction = "in" /\ CardUp
  /\ strm.currentState = "INIT" /\ ~ses.compress
  /\ \/ /\ May("deviceStart") /\ \A d \in Devices : dev[d].startStop < MaxLeft
        /\ \E D \in ProperSubsets(strm.mDevices) : dev' = Started(dev, D)
        /\ UNCHANGED <<strm, ses, volume, votes, left, ask, registered>>
     \/ /\ "compressOpen" \in Results
        /\ UNCHANGED <<dev, strm, ses, volume, votes, left, ask, registered>>
     \/ /\ "late" \in Results
        /\ ses' = [ses EXCEPT !.compress = TRUE]
        /\ votes' = votes + 1 /\ left' = left + 1
        /\ UNCHANGED <<dev, strm, volume, ask, registered>>
     \/ /\ "ok" \in Results
        /\ dev' = Started(dev, strm.mDevices) /\ registered' = strm.mDevices
        /\ strm' = [strm EXCEPT !.currentState = "STARTED"]
        /\ ses' = [ses EXCEPT !.compress = TRUE]
        /\ volume' = [volume EXCEPT !.dsp = volume.set]
        /\ votes' = votes + 1 /\ ask' = [ask EXCEPT !.started = TRUE]
        /\ UNCHANGED left
  /\ UNCHANGED <<scenario, msg_queue_, wk, dsp, cardVars, mutexes, pc, ret>>

-----------------------------------------------------------------------------
(* Write, drain and flush.                                                 *)

\* What fits is written; the first bytes start the playback.  A short write posts
\* a request unless the thread is at one.  The client writes no more until it has
\* heard of room, or that what it asked to drain is drained.
Write ==
  /\ pc["wr"] = "idle" /\ StreamFree /\ direction = "out" /\ strm.handle = "open"
  /\ CardUp /\ CardThere /\ ses.compress /\ ~ask.room /\ ask.drain = "none"
  /\ Len(msg_queue_) < MaxQueue
  /\ strm.currentState \in {"OPENED", "STARTED", "PAUSED"}
  /\ \E short \in BOOLEAN :
       LET fits == dsp.filled < Room
           post == short /\ ~ses.waiting
       IN  /\ IF short THEN dsp.filled + 1 >= Room ELSE fits
           /\ dsp' = [dsp EXCEPT !.filled = IF fits THEN @ + 1 ELSE @,
                                 !.state = IF fits /\ ~ses.playback_started
                                             THEN "running" ELSE @]
           /\ ses' = [ses EXCEPT !.playback_started = @ \/ fits]
           /\ msg_queue_' = IF post THEN Append(msg_queue_, "wait") ELSE msg_queue_
           /\ ask' = [ask EXCEPT !.room = @ \/ (short /\ ask.started)]
  /\ IF strm.currentState = "STARTED" \/ (strm.currentState = "PAUSED" /\ strm.isPaused)
       THEN UNCHANGED <<strm, pc, ret>>
       ELSE strm' = [strm EXCEPT !.currentState = "STARTED"] /\ Goto("wr", "w_active")
  /\ UNCHANGED <<scenario, volume, wk, deviceVars, cardVars, mutexes>>

\* The mutex is released to take the two in their order; what happens to the
\* stream in between is not looked at.
WriteLockActive ==
  /\ pc["wr"] = "w_active" /\ ActiveFree
  /\ mActiveStreamMutex' = "wr" /\ Goto("wr", "w_register")
  /\ UNCHANGED <<streamVars, msg_queue_, wk, dsp, deviceVars, cardVars, mStreamMutex, ask>>

WriteRegister ==
  /\ pc["wr"] = "w_register" /\ StreamFree
  /\ registered' = registered \cup strm.mDevices
  /\ mActiveStreamMutex' = None /\ Return("wr")
  /\ UNCHANGED <<streamVars, msg_queue_, wk, dsp, dev, votes, left, cardVars,
                 mStreamMutex, ask>>

\* The client drains once at a time.
Drain ==
  /\ CtlMay("drain") /\ CardUp /\ ses.compress /\ ask.started /\ direction = "out"
  /\ ask.drain = "none" /\ Len(msg_queue_) < MaxQueue
  /\ \E cmd \in {"drain", "partial"} :
       /\ msg_queue_' = Append(msg_queue_, cmd)
       /\ ask' = [ask EXCEPT !.drain = cmd, !.toDrain = dsp.filled]
  /\ UNCHANGED <<streamVars, wk, dsp, deviceVars, cardVars, mutexes, pc, ret>>

\* The DSP forgets what it has not played; requests wait on.
Flush ==
  /\ CtlMay("flush") /\ strm.isPaused /\ strm.currentState \notin {"STOPPED", "IDLE"}
  /\ ses.playback_started /\ CardThere
  /\ dsp' = [dsp EXCEPT !.filled = 0] /\ ask' = [ask EXCEPT !.toDrain = 0]
  /\ UNCHANGED <<streamVars, msg_queue_, wk, deviceVars, cardVars, mutexes, pc, ret>>

-----------------------------------------------------------------------------
(* Pause, resume, volume and mute.                                         *)

ctlVolume == <<scenario, ses, msg_queue_, wk, deviceVars, cardVars, mutexes, pc, ret>>

\* setVolume on a running stream: a pending unmute is done with a volume above 0.
Applied(v, level) ==
  [v EXCEPT !.set = level, !.dsp = level, !.unMutePending = @ /\ level = 0,
            !.muted = @ /\ ~(v.unMutePending /\ level > 0)]

SetVolume ==
  /\ CtlMay("volume")
  /\ \E level \in {0, 1} :
     LET asked == [volume EXCEPT !.asked = level] IN
       volume' = IF /\ CardUp /\ CardThere /\ ~strm.isPaused
                    /\ strm.currentState \notin {"IDLE", "INIT"}
                   THEN Applied(asked, level) ELSE [asked EXCEPT !.set = level]
  /\ UNCHANGED <<strm, dsp, ask>> /\ UNCHANGED ctlVolume

\* mute_l.  A mute at volume 0 is not done, and done by nothing later; an unmute
\* pending since then outlives a mute that is done.
Mute ==
  /\ CtlMay("mute") /\ ask.started /\ CardThere
  /\ \E state \in BOOLEAN :
       volume' = IF volume.set = 0 /\ direction = "out"
                   THEN [volume EXCEPT !.unMutePending = ~state, !.muteAsked = state,
                                       !.lost = state /\ ~volume.muted]
                   ELSE [volume EXCEPT !.muted = state, !.muteAsked = state,
                                       !.lost = state /\ volume.unMutePending]
  /\ UNCHANGED <<strm, dsp, ask>> /\ UNCHANGED ctlVolume

\* Mutant of Pause: the volume of before is not kept.
PauseForgets ==
  /\ CtlMay("pause") /\ ask.started /\ CardUp /\ CardThere /\ ~strm.isPaused
  /\ strm' = [strm EXCEPT !.isPaused = TRUE, !.currentState = "PAUSED"]
  /\ dsp' = [dsp EXCEPT !.paused = TRUE]
  /\ volume' = [Applied(volume, 0) EXCEPT !.set = 0]
  /\ UNCHANGED ask /\ UNCHANGED ctlVolume

\* pause_l: the volume in force goes to 0, the volume asked for is kept.  Without
\* a card the pause is noted and refused.
Pause ==
  /\ CtlMay("pause")
  /\ \/ /\ ask.started /\ CardUp /\ CardThere /\ ~strm.isPaused
        /\ strm' = [strm EXCEPT !.isPaused = TRUE, !.currentState = "PAUSED"]
        /\ dsp' = [dsp EXCEPT !.paused = TRUE]
        /\ volume' = [Applied(volume, 0) EXCEPT !.set = volume.set]
     \/ /\ ~CardUp /\ strm' = [strm EXCEPT !.isPaused = TRUE] /\ UNCHANGED <<dsp, volume>>
  /\ UNCHANGED ask /\ UNCHANGED ctlVolume

\* resume_l leaves the state to the next write.
Resume ==
  /\ CtlMay("resume") /\ ask.started /\ CardUp /\ CardThere /\ strm.isPaused
  /\ strm' = [strm EXCEPT !.isPaused = FALSE]
  /\ dsp' = [dsp EXCEPT !.paused = FALSE]
  /\ volume' = Applied(volume, volume.set)
  /\ UNCHANGED ask /\ UNCHANGED ctlVolume

-----------------------------------------------------------------------------
(* Stop and close.                                                         *)

Stop ==
  /\ CtlMay("stop") /\ strm.currentState \in {"OPENED", "STARTED", "PAUSED"}
  /\ Goto("ctl", "s_active") /\ ask' = Cut(ask)
  /\ UNCHANGED <<streamVars, msg_queue_, wk, dsp, deviceVars, cardVars, mutexes>>

StopCheck(t) ==
  /\ pc[t] = "s_check" /\ StreamFree
  /\ IF strm.currentState \in {"OPENED", "STARTED", "PAUSED"}
       THEN Goto(t, "s_active") ELSE Return(t)
  /\ UNCHANGED <<streamVars, msg_queue_, wk, dsp, deviceVars, cardVars, mutexes, ask>>

StopLockActive(t) ==
  /\ pc[t] = "s_active" /\ ActiveFree
  /\ mActiveStreamMutex' = t /\ Goto(t, "s_run")
  /\ UNCHANGED <<streamVars, msg_queue_, wk, dsp, deviceVars, cardVars, mStreamMutex, ask>>

\* The state is not looked at again.  The vote is taken back whatever fails.
StopRun(t) ==
  /\ pc[t] = "s_run" /\ StreamFree
  /\ strm' = [strm EXCEPT !.currentState = "STOPPED"]
  /\ registered' = registered \ strm.mDevices /\ mActiveStreamMutex' = None
  /\ dsp' = IF ses.compress THEN CutDsp(dsp) ELSE dsp
  /\ ses' = [ses EXCEPT !.playback_started = @ /\ ~ses.compress]
  /\ votes' = IF votes > 0 THEN votes - 1 ELSE 0
  /\ dev' = Stopped(dev, strm.mDevices)
  /\ Return(t)
  /\ UNCHANGED <<scenario, volume, msg_queue_, wk, left, cardVars, mStreamMutex, ask>>

\* pal_stream_close.  The client does not close a stream it is writing to.
CloseBegin ==
  /\ pc["ctl"] = "idle" /\ strm.handle = "open" /\ pc["wr"] = "idle"
  /\ strm' = [strm EXCEPT !.handle = "closing"] /\ ask' = Cut(ask)
  /\ Call("ctl", "c_check", "delete")
  /\ UNCHANGED <<scenario, ses, volume, msg_queue_, wk, dsp, deviceVars, cardVars, mutexes>>

\* An OPENED stream has started devices and a vote, and is not stopped.
CloseCheck(t) ==
  /\ pc[t] = "c_check" /\ StreamFree
  /\ CASE strm.currentState = "IDLE" -> Return(t)
       [] strm.currentState \in {"STARTED", "PAUSED"} -> Call(t, "s_check", "c_run")
       [] OTHER -> Goto(t, "c_run")
  /\ UNCHANGED <<streamVars, msg_queue_, wk, dsp, deviceVars, cardVars, mutexes, ask>>

\* Mutant of CloseRun: after an error the thread is believed to end by itself.
CloseRunErrorOnly(t) ==
  /\ pc[t] = "c_run" /\ StreamFree
  /\ mStreamMutex' = t /\ Goto(t, IF wk.pc = "none" THEN "c_rest" ELSE "c_join")
  /\ left' = IF strm.currentState = "OPENED" THEN left + 1 ELSE left
  /\ ses' = [ses EXCEPT !.open = FALSE]
  /\ msg_queue_' = IF wk.pc = "none" THEN msg_queue_
                   ELSE IF CardUp THEN Append(msg_queue_, "exit")
                   ELSE Append(msg_queue_, "error")
  /\ UNCHANGED <<scenario, strm, volume, wk, dsp, dev, registered, votes, cardVars,
                 mActiveStreamMutex, ask>>

\* Mutant of CloseRun: the offload thread is told to end and left to itself.
CloseRunNoJoin(t) ==
  /\ pc[t] = "c_run" /\ StreamFree
  /\ mStreamMutex' = t /\ Goto(t, "c_rest")
  /\ left' = IF strm.currentState = "OPENED" THEN left + 1 ELSE left
  /\ ses' = [ses EXCEPT !.open = FALSE]
  /\ msg_queue_' = IF wk.pc = "none" THEN msg_queue_ ELSE Append(msg_queue_, "exit")
  /\ UNCHANGED <<scenario, strm, volume, wk, dsp, dev, registered, votes, cardVars,
                 mActiveStreamMutex, ask>>

\* The graph is closed and the offload thread told to end.
CloseRun(t) ==
  /\ pc[t] = "c_run" /\ StreamFree
  /\ mStreamMutex' = t /\ Goto(t, IF wk.pc = "none" THEN "c_rest" ELSE "c_join")
  /\ left' = IF strm.currentState = "OPENED" THEN left + 1 ELSE left
  /\ ses' = [ses EXCEPT !.open = FALSE]
  /\ msg_queue_' = IF wk.pc = "none" THEN msg_queue_
                   ELSE msg_queue_ \o (IF CardUp THEN <<"exit">> ELSE <<"error", "exit">>)
  /\ UNCHANGED <<scenario, strm, volume, wk, dsp, dev, registered, votes, cardVars,
                 mActiveStreamMutex, ask>>

CloseJoin(t) ==
  /\ pc[t] = "c_join" /\ wk.pc = "exited"
  /\ wk' = NewWorker /\ msg_queue_' = <<>> /\ Goto(t, "c_rest")
  /\ UNCHANGED <<streamVars, dsp, deviceVars, cardVars, mutexes, ask>>

CloseRest(t) ==
  /\ pc[t] = "c_rest"
  /\ ses' = [ses EXCEPT !.compress = FALSE] /\ dev' = Closed(dev, strm.mDevices)
  /\ strm' = [strm EXCEPT !.currentState = "IDLE"] /\ mStreamMutex' = None
  /\ Return(t)
  /\ UNCHANGED <<scenario, volume, msg_queue_, wk, dsp, registered, votes, left,
                 cardVars, mActiveStreamMutex, ask>>

\* deactivateStreamUserCounter has let the closer through; the next stream is new.
Delete ==
  /\ pc["ctl"] = "delete" /\ pc["ssr"] = "idle"
  /\ strm' = NewStream("none") /\ ses' = NewSession(ses.isGaplessFmt)
  /\ volume' = NewVolume /\ dsp' = NewDsp /\ ask' = NoAsk /\ Goto("ctl", "idle")
  /\ UNCHANGED <<scenario, msg_queue_, wk, deviceVars, cardVars, mutexes>>

-----------------------------------------------------------------------------
(* Recovery.                                                               *)

\* A stream that is being closed is not counted in and so left alone.
SsrDown ==
  /\ pc["ssr"] = "idle" /\ ~CardThere /\ CardUp /\ ActiveFree
  /\ cardState' = "offline"
  /\ IF strm.handle = "open"
       THEN mActiveStreamMutex' = "ssr" /\ Goto("ssr", "d_check")
       ELSE UNCHANGED <<mActiveStreamMutex, pc, ret>>
  /\ UNCHANGED <<streamVars, msg_queue_, wk, dsp, deviceVars, card, downs,
                 mStreamMutex, ask>>

SsrDownCheck ==
  /\ pc["ssr"] = "d_check" /\ StreamFree
  /\ CASE strm.currentState \in {"INIT", "STOPPED", "OPENED"} ->
            Call("ssr", "c_check", "d_done") /\ UNCHANGED mActiveStreamMutex
       [] strm.currentState \in {"STARTED", "PAUSED"} ->
            Call("ssr", "s_check", "d_lock") /\ mActiveStreamMutex' = None
       [] OTHER -> Goto("ssr", "d_done") /\ UNCHANGED mActiveStreamMutex
  /\ UNCHANGED <<streamVars, msg_queue_, wk, dsp, deviceVars, cardVars, mStreamMutex, ask>>

SsrDownLock ==
  /\ pc["ssr"] = "d_lock" /\ ActiveFree
  /\ mActiveStreamMutex' = "ssr" /\ Call("ssr", "c_check", "d_done")
  /\ UNCHANGED <<streamVars, msg_queue_, wk, dsp, deviceVars, cardVars, mStreamMutex, ask>>

\* The state is set without the mutex of the stream.
SsrDownDone ==
  /\ pc["ssr"] = "d_done"
  /\ strm' = [strm EXCEPT !.currentState = "IDLE"]
  /\ mActiveStreamMutex' = None /\ Return("ssr")
  /\ UNCHANGED <<scenario, ses, volume, msg_queue_, wk, dsp, deviceVars, cardVars,
                 mStreamMutex, ask>>

\* ssrUpHandler does nothing: the client opens a new stream.
SsrUp ==
  /\ pc["ssr"] = "idle" /\ ~CardUp /\ ActiveFree
  /\ card' = "online" /\ cardState' = "online"
  /\ UNCHANGED <<streamVars, msg_queue_, wk, dsp, deviceVars, downs, mutexes, pc, ret, ask>>

-----------------------------------------------------------------------------
Client ==
  \/ Open \/ StartOutput \/ StartInput \/ Write \/ Drain \/ Flush
  \/ SetVolume \/ Mute \/ Pause \/ Resume \/ Stop \/ CloseBegin

StopClose(t) ==
  \/ StopCheck(t) \/ StopLockActive(t) \/ StopRun(t)
  \/ CloseCheck(t) \/ CloseRun(t) \/ CloseJoin(t) \/ CloseRest(t)
Controller == StopClose("ctl") \/ Delete
Writer == WriteLockActive \/ WriteRegister
Recovery == SsrDown \/ SsrDownCheck \/ SsrDownLock \/ SsrDownDone \/ SsrUp \/ StopClose("ssr")

Next == Client \/ Worker \/ Play \/ LoseCard \/ Controller \/ Writer \/ Recovery

Spec == Init /\ [][Next]_vars

\* Threads run when they can, and a thread obtains a mutex that is free again and
\* again; the DSP plays.  Nothing makes the client call.
FairSpec ==
  /\ Spec /\ WF_vars(Worker) /\ WF_vars(Play)
  /\ SF_vars(Controller) /\ SF_vars(Writer) /\ SF_vars(Recovery)

-----------------------------------------------------------------------------
(* Properties.                                                             *)

TypeOK ==
  /\ scenario \in Scenarios
  /\ strm.handle \in {"none", "open", "closing"} /\ strm.currentState \in State
  /\ strm.isPaused \in BOOLEAN /\ strm.mDevices \subseteq Devices
  /\ ses.waiting \in BOOLEAN /\ msg_queue_ \in Seq(Cmd)
  /\ wk.pc \in {"none", "loop", "wait", "waited", "drain", "partial", "drained",
                "check", "call", "exited"}
  /\ dsp.state \in {"idle", "running", "cut"} /\ dsp.filled \in 0..Room
  /\ \A d \in Devices : dev[d].count \in Nat /\ dev[d].startStop \in Nat
  /\ registered \subseteq Devices /\ votes \in Nat /\ left \in Nat
  /\ mStreamMutex \in Threads \cup {None} /\ mActiveStreamMutex \in Threads \cup {None}

\* The offload thread reads the callback from the stream and the compress handle
\* from the session: it runs only while the stream exists and the handle is open
\* (offloadThreadLoop, against close and delete).
WorkerHasStream == wk.pc \notin {"none", "exited"} => strm.handle # "none" /\ ses.compress

\* Of a format that plays without gaps, a client hears that all is drained only
\* when everything it wrote before it asked has been played.
DrainReadyMeansDrained ==
  [][WkCall /\ wk.event = "DRAIN_READY" /\ ask.drain = "drain" /\ ses.isGaplessFmt
       => ask.toDrain = 0]_vars

\* At rest the volume is that asked for, and so is the mute unless a mute at
\* volume 0 was dropped: pending unmutes and pauses may come in any order.
SoundAsAsked ==
  ask.started /\ ~strm.isPaused
    => /\ volume.dsp = volume.asked
       /\ volume.asked > 0 /\ ~volume.lost => volume.muted = volume.muteAsked

\* With no stream open, no device is in use and no vote against sleep is left but
\* at most those of captures that failed to start and of streams closed while
\* OPENED (a stop that meets recovery takes one vote back twice).
NothingLeft ==
  strm.handle = "none" /\ ~May("deviceOpen")
    => /\ votes <= left
       /\ \A d \in Devices : dev[d].count = 0 /\ dev[d].startStop = 0

\* Every call returns and recovery gets past the stream, though close joins the
\* offload thread with mStreamMutex held.
CallsReturn == \A t \in Threads : (pc[t] # "idle") ~> (pc[t] = "idle")

\* A client whose write did not fit hears of room, and one that drains hears that
\* all is played, unless it leaves the stream paused.
AnswersCome ==
  /\ ask.room ~> (~ask.room \/ dsp.paused)
  /\ (ask.drain # "none") ~> (ask.drain = "none" \/ dsp.paused)
=============================================================================

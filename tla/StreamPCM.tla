------------------------------- MODULE StreamPCM -------------------------------
(***************************************************************************)
(* PCM streams, the devices they share and sound card recovery.            *)
(*                                                                         *)
(* StreamPCM keeps the state of a stream under mStreamMutex and the list   *)
(* of active devices of the resource manager under mActiveStreamMutex; the *)
(* order is mActiveStreamMutex first, so start and stop give the stream    *)
(* mutex up in the middle.  The thread of ssrHandlingLoop takes every      *)
(* stream down when the sound card goes away and up again when it is back, *)
(* from the state the stream has cached.  Clients, a writer and the        *)
(* recovery thread run between each other's critical sections.             *)
(*                                                                         *)
(* A section run under mStreamMutex is one step; it also holds the graph   *)
(* mutex where the code does, and the device counters it changes are each  *)
(* changed under mDeviceMutex.  A thread that must call out of a section   *)
(* keeps a stack of the places to return to.                               *)
(*                                                                         *)
(* The object of a stream outlives its users (module StreamUserCounter);   *)
(* here a deletion waits until nobody else works on the stream.            *)
(***************************************************************************)
EXTENDS Naturals, Sequences, FiniteSets, Device

CONSTANTS
  Streams,
  Callers,      \* names of the threads that control a stream
  Writers,      \* names of the threads that write to a stream
  Scenarios,    \* what the environment may do; each behaviour follows one of them
  MaxQueue,     \* events that wait before a further one is reported
  None

Statuses == {"offline", "standby"}     \* the ways a card goes down

ASSUME ScenarioAssumption ==
  /\ MaxQueue \in Nat
  /\ \A c \in Scenarios :
       /\ c.Used \subseteq Streams /\ c.Writes \in BOOLEAN
       /\ c.Direction \in [Streams -> {"out", "in", "loop"}]
       /\ c.Routed \in [Streams -> SUBSET Devices] /\ c.TxDevices \subseteq Devices
       /\ c.DownStatus \subseteq Statuses /\ c.StandbyStreams \subseteq Streams
       /\ c.MaxDown \in Nat /\ c.MaxCount \in Nat

VARIABLE scenario                        \* the scenario of this behaviour

Used == scenario.Used                    \* the streams that are opened
Writes == scenario.Writes                \* whether they are written to
Direction == scenario.Direction          \* "out", "in" or "loop" for each stream
Routed == scenario.Routed                \* the devices each stream is opened with
TxDevices == scenario.TxDevices          \* the input devices; the others are output
Ops == scenario.Ops                      \* the calls clients make beside open
Faults == scenario.Faults                \* the calls below the stream that may fail
DownStatus == scenario.DownStatus        \* the ways the card goes down
StandbyStreams == scenario.StandbyStreams \* the streams kept running in standby
MaxDown == scenario.MaxDown              \* how often the card goes down
MaxCount == scenario.MaxCount            \* the device counts above which nothing is
                                         \* opened or started

Ssr == <<"ssr", None>>
Controls == Callers \X Streams
WriterThreads == Writers \X Streams
Threads == Controls \cup WriterThreads \cup {Ssr}

\* Names tell the threads apart, and nobody owns a free mutex.
ASSUME NamesAssumption ==
  /\ Callers \cap Writers = {} /\ "ssr" \notin Callers \cup Writers
  /\ None \notin Threads /\ IsFiniteSet(Streams)

VARIABLES
  strm,                \* the stream objects
  dev,                 \* the device objects
  active_devices,      \* the resource manager's pairs of device and stream
  mStreamMutex, mActiveStreamMutex,      \* owners, or None
  card, downs,         \* the sound card itself (external)
  cardState, msgQ, prevState,            \* what the recovery thread knows of it
  ssr,                 \* locals of the recovery thread
  pc, ret, status      \* next place, stack and last result of each thread

cardVars == <<card, downs, cardState, msgQ, prevState>>
vars == <<strm, dev, active_devices, mStreamMutex, mActiveStreamMutex,
          cardVars, ssr, pc, ret, status, scenario>>

State == {"IDLE", "INIT", "STARTED", "PAUSED", "STOPPED"}

StreamType ==
  [handle : {"none", "opening", "valid", "closing"},
   want : {"none", "open", "started", "paused", "stopped"},  \* last call that returned 0
   currentState : State, cachedState : State,
   isPaused : BOOLEAN, skipSSRHandling : BOOLEAN,
   mDevices : SUBSET Devices,
   session : {"closed", "opened", "started", "lost"},        \* external
   sessionPaused : BOOLEAN]

\* What the constructor leaves; a stream that does not exist looks the same.
NewStream(s, h) ==
  [handle |-> h, want |-> "none", currentState |-> "IDLE",
   cachedState |-> "IDLE", isPaused |-> FALSE, skipSSRHandling |-> FALSE,
   mDevices |-> Routed[s], session |-> "closed", sessionPaused |-> FALSE]

Init ==
  /\ scenario \in Scenarios
  /\ strm = [s \in Streams |-> NewStream(s, "none")]
  /\ dev = NoUse
  /\ active_devices = {}
  /\ mStreamMutex = [s \in Streams |-> None] /\ mActiveStreamMutex = None
  /\ card = "online" /\ downs = 0
  /\ cardState = "online" /\ msgQ = <<>> /\ prevState = "online"
  /\ ssr = [stream |-> None, upTo |-> "IDLE", visited |-> {}]
  /\ pc = [t \in Threads |-> "idle"]
  /\ ret = [t \in Threads |-> <<>>]
  /\ status = [t \in Threads |-> "ok"]

-----------------------------------------------------------------------------
(* Control flow of a thread and its mutexes.  No step changes the scenario. *)

Str(t) == IF t = Ssr THEN ssr.stream ELSE t[2]

Goto(t, label) == pc' = [pc EXCEPT ![t] = label] /\ UNCHANGED <<ret, status, scenario>>
Call(t, label, back) ==
  /\ pc' = [pc EXCEPT ![t] = label]
  /\ ret' = [ret EXCEPT ![t] = <<back>> \o @]
  /\ UNCHANGED <<status, scenario>>
Return(t, result) ==
  /\ pc' = [pc EXCEPT ![t] = Head(ret[t])]
  /\ ret' = [ret EXCEPT ![t] = Tail(@)]
  /\ status' = [status EXCEPT ![t] = result]
  /\ UNCHANGED scenario

StreamFree(s) == mStreamMutex[s] = None
ActiveFree == mActiveStreamMutex = None
LockActive(t) == ActiveFree /\ mActiveStreamMutex' = t
UnlockActive == mActiveStreamMutex' = None
LockStream(s, t) == StreamFree(s) /\ mStreamMutex' = [mStreamMutex EXCEPT ![s] = t]
UnlockStream(s) == mStreamMutex' = [mStreamMutex EXCEPT ![s] = None]
Mutexes == <<mStreamMutex, mActiveStreamMutex>>

CardUp == card = "online"
CardDown == cardState \in {"offline", "standby"}
May(fault) == fault \in Faults

-----------------------------------------------------------------------------
RxOf(D) == D \ TxDevices
TxOf(D) == D \cap TxDevices

-----------------------------------------------------------------------------
(* StreamPCM::open.  A device that fails ends the call with the devices    *)
(* before it open; a session that fails closes them all, and the status of *)
(* the last close, which is 0, becomes the result.                         *)

OpenIdle(t, s) ==
  \/ /\ May("deviceOpen")
     /\ \E D \in ProperSubsets(strm[s].mDevices) : dev' = Opened(dev, D)
     /\ Return(t, "err")
     /\ UNCHANGED strm
  \/ /\ May("sessionOpen")
     /\ dev' = Closed(Opened(dev, strm[s].mDevices), strm[s].mDevices)
     /\ Return(t, IF strm[s].mDevices = {} THEN "err" ELSE "ok")
     /\ UNCHANGED strm
  \/ /\ dev' = Opened(dev, strm[s].mDevices)
     /\ strm' = [strm EXCEPT ![s].currentState = "INIT",
                   ![s].session = IF CardUp \/ ~May("openLost")
                                    THEN "opened" ELSE "lost"]
     /\ Return(t, "ok")

Open(t) ==
  LET s == Str(t) IN
    /\ pc[t] = "open" /\ StreamFree(s)
    /\ IF CardDown \/ strm[s].currentState # "IDLE"
         THEN /\ Return(t, IF ~CardDown /\ strm[s].currentState = "INIT"
                             THEN "ok" ELSE "err")
              /\ UNCHANGED <<strm, dev>>
         ELSE OpenIdle(t, s)
    /\ UNCHANGED <<active_devices, Mutexes, cardVars, ssr>>

-----------------------------------------------------------------------------
(* StreamPCM::start.                                                       *)

StartEnter(t) ==
  LET s == Str(t) IN
    /\ pc[t] = "start" /\ StreamFree(s)
    /\ IF CardDown
         THEN /\ strm' = [strm EXCEPT ![s].cachedState = "STARTED"]
              /\ Return(t, "ok")
              /\ UNCHANGED mStreamMutex
         ELSE /\ UNCHANGED strm
              /\ IF strm[s].currentState \in {"INIT", "STOPPED"}
                   THEN LockStream(s, t) /\ Goto(t, "startRun")
                   ELSE /\ Return(t, IF strm[s].currentState = "STARTED"
                                       THEN "ok" ELSE "err")
                        /\ UNCHANGED mStreamMutex
    /\ UNCHANGED <<dev, active_devices, mActiveStreamMutex, cardVars, ssr>>

\* Prepare and start the session with the devices D of the stream started.
SessionRun(t, s, D, started) ==
  \/ /\ May("sessionStart") \/ ~CardUp \/ strm[s].session \in {"closed", "lost"}
     /\ dev' = Stopped(started, D)
     /\ strm' = [strm EXCEPT ![s].mDevices = D]
     /\ UnlockStream(s) /\ Return(t, "err")
  \/ /\ May("netReset") /\ ~CardUp
     /\ dev' = started
     /\ strm' = [strm EXCEPT ![s].mDevices = D]
     /\ Goto(t, "startReset") /\ UNCHANGED mStreamMutex
  \/ /\ CardUp /\ strm[s].session \notin {"closed", "lost"}
     /\ dev' = started
     /\ strm' = [strm EXCEPT ![s].mDevices = D, ![s].currentState = "STARTED",
                             ![s].session = "started"]
     /\ UnlockStream(s) /\ Goto(t, "startLock")

\* Mutant of StartOutput: a device that fails leaves the stream open.
StartOutputNoClose(t, s) ==
  \E F \in SUBSET strm[s].mDevices :
    LET ok == strm[s].mDevices \ F IN
      /\ F # {} => May("deviceStart")
      /\ IF ok # {}
           THEN SessionRun(t, s, ok, Started(dev, ok))
           ELSE /\ strm' = [strm EXCEPT ![s].mDevices = {}]
                /\ UnlockStream(s) /\ Return(t, "err") /\ UNCHANGED dev

\* Output: a device that fails is closed and leaves the stream.
StartOutput(t, s) ==
  \E F \in SUBSET strm[s].mDevices :
    LET ok == strm[s].mDevices \ F
        started == Closed(Started(dev, ok), F) IN
      /\ F # {} => May("deviceStart")
      /\ IF ok # {}
           THEN SessionRun(t, s, ok, started)
           ELSE /\ dev' = started
                /\ strm' = [strm EXCEPT ![s].mDevices = {}]
                /\ UnlockStream(s) /\ Return(t, "err")

\* Input: a device that fails ends the call, those before it stay started.
StartInput(t, s) ==
  \/ SessionRun(t, s, strm[s].mDevices, Started(dev, strm[s].mDevices))
  \/ /\ May("deviceStart")
     /\ \E D \in ProperSubsets(strm[s].mDevices) : dev' = Started(dev, D)
     /\ UnlockStream(s) /\ Return(t, "err")
     /\ UNCHANGED strm

\* Loopback: outputs first; an input that fails stops the outputs only.
StartLoopback(t, s) ==
  LET rx == RxOf(strm[s].mDevices)
      tx == TxOf(strm[s].mDevices) IN
    \/ SessionRun(t, s, strm[s].mDevices, Started(dev, strm[s].mDevices))
    \/ /\ May("deviceStart")
       /\ \/ \E D \in ProperSubsets(rx) : dev' = Started(dev, D)
          \/ \E D \in ProperSubsets(tx) :
               dev' = Stopped(Started(dev, rx \cup D), rx)
       /\ UnlockStream(s) /\ Return(t, "err")
       /\ UNCHANGED strm

StartRun(t) ==
  LET s == Str(t) IN
    /\ pc[t] = "startRun"
    /\ CASE Direction[s] = "out" -> StartOutput(t, s)
         [] Direction[s] = "in" -> StartInput(t, s)
         [] Direction[s] = "loop" -> StartLoopback(t, s)
    /\ UNCHANGED <<active_devices, mActiveStreamMutex, cardVars, ssr>>

\* ResourceManager::ssrHandler, unless the loss is known already.
ReportLoss ==
  IF CardDown THEN UNCHANGED msgQ
              ELSE Len(msgQ) < MaxQueue /\ msgQ' = Append(msgQ, "offline")

\* The card was lost under session->start: 0 is returned for recovery to start it.
StartReset(t) ==
  LET s == Str(t) IN
    /\ pc[t] = "startReset"
    /\ ReportLoss
    /\ strm' = [strm EXCEPT ![s].cachedState = "STARTED"]
    /\ dev' = Stopped(dev, strm[s].mDevices)
    /\ UnlockStream(s) /\ Return(t, "ok")
    /\ UNCHANGED <<active_devices, mActiveStreamMutex, card, downs, cardState,
                   prevState, ssr>>

\* The stream is STARTED and unlocked; the active list comes first in the order.
StartLock(t) ==
  /\ pc[t] = "startLock" /\ LockActive(t)
  /\ Goto(t, "startRegister")
  /\ UNCHANGED <<strm, dev, active_devices, mStreamMutex, cardVars, ssr>>

StartRegister(t) ==
  LET s == Str(t) IN
    /\ pc[t] = "startRegister" /\ StreamFree(s)
    /\ active_devices' = active_devices \cup (strm[s].mDevices \X {s})
    /\ UnlockActive /\ Return(t, "ok")
    /\ UNCHANGED <<strm, dev, mStreamMutex, cardVars, ssr>>

-----------------------------------------------------------------------------
(* StreamPCM::stop.                                                        *)

StopEnter(t) ==
  LET s == Str(t) IN
    /\ pc[t] = "stop" /\ StreamFree(s)
    /\ IF strm[s].currentState \in {"STARTED", "PAUSED"}
         THEN Goto(t, "stopLock")
         ELSE Return(t, IF strm[s].currentState = "INIT" THEN "err" ELSE "ok")
    /\ UNCHANGED <<strm, dev, active_devices, Mutexes, cardVars, ssr>>

StopLock(t) ==
  /\ pc[t] = "stopLock" /\ LockActive(t)
  /\ Goto(t, "stopRun")
  /\ UNCHANGED <<strm, dev, active_devices, mStreamMutex, cardVars, ssr>>

\* The state is not looked at again; an output device that fails ends the stop.
StopRun(t) ==
  LET s == Str(t) IN
    /\ pc[t] = "stopRun" /\ StreamFree(s)
    /\ strm' = [strm EXCEPT ![s].currentState = "STOPPED",
                            ![s].session = IF @ = "started" THEN "opened" ELSE @,
                            ![s].sessionPaused = FALSE]
    /\ active_devices' = active_devices \ (strm[s].mDevices \X {s})
    /\ \/ dev' = Stopped(dev, strm[s].mDevices) /\ Return(t, "ok")
       \/ /\ May("deviceStop") /\ Direction[s] # "in"
          /\ \E D \in ProperSubsets(RxOf(strm[s].mDevices)) :
               dev' = Stopped(dev, D \cup TxOf(strm[s].mDevices))
          /\ Return(t, "err")
    /\ UnlockActive
    /\ UNCHANGED <<mStreamMutex, cardVars, ssr>>

-----------------------------------------------------------------------------
(* StreamPCM::close.                                                       *)

\* Session and devices are closed once each.
CloseAll(t, s) ==
  /\ dev' = Closed(dev, strm[s].mDevices)
  /\ strm' = [strm EXCEPT ![s].currentState = "IDLE", ![s].session = "closed"]
  /\ Return(t, "ok")

CloseEnter(t) ==
  LET s == Str(t) IN
    /\ pc[t] = "close" /\ StreamFree(s)
    /\ \/ /\ strm[s].currentState = "IDLE"
          /\ Return(t, "ok")
          /\ UNCHANGED <<strm, dev>>
       \/ /\ strm[s].currentState \in {"STARTED", "PAUSED"}
          /\ Call(t, "stop", "closeRun")
          /\ UNCHANGED <<strm, dev>>
       \/ /\ strm[s].currentState \in {"INIT", "STOPPED"}
          /\ CloseAll(t, s)
    /\ UNCHANGED <<active_devices, Mutexes, cardVars, ssr>>

\* After the stop the mutex is taken again, and the state not looked at.
CloseRun(t) ==
  /\ pc[t] = "closeRun" /\ StreamFree(Str(t))
  /\ CloseAll(t, Str(t))
  /\ UNCHANGED <<active_devices, Mutexes, cardVars, ssr>>

-----------------------------------------------------------------------------
(* StreamPCM::pause and resume.  Only setConfig of a session that is there *)
(* succeeds.                                                               *)

SessionThere(s) == CardUp /\ strm[s].session \in {"opened", "started"}

Pause(t) ==
  LET s == Str(t) IN
    /\ pc[t] = "pause" /\ StreamFree(s)
    /\ \/ /\ CardDown
          /\ strm' = [strm EXCEPT ![s].cachedState = "PAUSED",
                        ![s].isPaused = TRUE, ![s].currentState = "PAUSED"]
          /\ Return(t, "ok")
       \/ /\ ~CardDown /\ strm[s].isPaused
          /\ strm' = [strm EXCEPT ![s].currentState = "PAUSED"]
          /\ Return(t, "ok")
       \/ /\ ~CardDown /\ ~strm[s].isPaused /\ SessionThere(s)
          /\ strm' = [strm EXCEPT ![s].isPaused = TRUE,
                        ![s].currentState = "PAUSED", ![s].sessionPaused = TRUE]
          /\ Return(t, "ok")
       \/ /\ ~CardDown /\ ~strm[s].isPaused /\ ~SessionThere(s)
          /\ Return(t, "err")
          /\ UNCHANGED strm
    /\ UNCHANGED <<dev, active_devices, Mutexes, cardVars, ssr>>

\* Mutant of Resume: isPaused is not reset.
ResumeStaysPaused(t) ==
  LET s == Str(t) IN
    /\ pc[t] = "resume" /\ StreamFree(s)
    /\ \/ /\ CardDown
          /\ strm' = [strm EXCEPT ![s].cachedState = "STARTED"]
          /\ Return(t, "ok")
       \/ /\ ~CardDown /\ SessionThere(s)
          /\ strm' = [strm EXCEPT ![s].sessionPaused = FALSE]
          /\ Return(t, "ok")
    /\ UNCHANGED <<dev, active_devices, Mutexes, cardVars, ssr>>

Resume(t) ==
  LET s == Str(t) IN
    /\ pc[t] = "resume" /\ StreamFree(s)
    /\ \/ /\ CardDown
          /\ strm' = [strm EXCEPT ![s].cachedState = "STARTED"]
          /\ Return(t, "ok")
       \/ /\ ~CardDown /\ SessionThere(s)
          /\ strm' = [strm EXCEPT ![s].isPaused = FALSE, ![s].sessionPaused = FALSE]
          /\ Return(t, "ok")
       \/ /\ ~CardDown /\ ~SessionThere(s)
          /\ Return(t, "err")
          /\ UNCHANGED strm
    /\ UNCHANGED <<dev, active_devices, Mutexes, cardVars, ssr>>

-----------------------------------------------------------------------------
(* StreamPCM::write.  The first write after a resume brings the stream     *)
(* back to STARTED, without the stream mutex.                              *)

Dropped(s) == CardDown \/ strm[s].cachedState # "IDLE"

Write(t) ==
  LET s == Str(t) IN
    /\ pc[t] = "write" /\ StreamFree(s)
    /\ IF Dropped(s) \/ strm[s].currentState \notin {"STARTED", "PAUSED"}
         THEN Goto(t, "idle")
         ELSE Goto(t, IF ~CardUp /\ May("netReset") THEN "writeReset"
                      ELSE IF strm[s].session = "lost" THEN "idle"
                      ELSE "writeCheck")
    /\ UNCHANGED <<strm, dev, active_devices, Mutexes, cardVars, ssr>>

WriteReset(t) ==
  /\ pc[t] = "writeReset"
  /\ ReportLoss
  /\ Goto(t, "idle")
  /\ UNCHANGED <<strm, dev, active_devices, Mutexes, card, downs, cardState,
                 prevState, ssr>>

WriteCheck(t) ==
  LET s == Str(t) IN
    /\ pc[t] = "writeCheck"
    /\ Goto(t, IF strm[s].currentState = "PAUSED" /\ ~strm[s].isPaused
                 THEN "writeLock" ELSE "idle")
    /\ UNCHANGED <<strm, dev, active_devices, Mutexes, cardVars, ssr>>

WriteLock(t) ==
  /\ pc[t] = "writeLock" /\ LockActive(t)
  /\ Goto(t, "writeRegister")
  /\ UNCHANGED <<strm, dev, active_devices, mStreamMutex, cardVars, ssr>>

WriteRegister(t) ==
  LET s == Str(t) IN
    /\ pc[t] = "writeRegister" /\ StreamFree(s)
    /\ active_devices' = active_devices \cup (strm[s].mDevices \X {s})
    /\ UnlockActive /\ Goto(t, "writeState")
    /\ UNCHANGED <<strm, dev, mStreamMutex, cardVars, ssr>>

WriteState(t) ==
  /\ pc[t] = "writeState"
  /\ strm' = [strm EXCEPT ![Str(t)].currentState = "STARTED"]
  /\ Goto(t, "idle")
  /\ UNCHANGED <<dev, active_devices, Mutexes, cardVars, ssr>>

-----------------------------------------------------------------------------
(* The calls of a client, in the order PalApi.h asks for.  The list of     *)
(* streams and the counters of their users are under mActiveStreamMutex.   *)

\* The constructor throws when the card is known to be down: no stream comes of it.
PalOpen(t) ==
  LET s == Str(t) IN
    /\ pc[t] = "idle" /\ s \in Used /\ strm[s].handle = "none" /\ ActiveFree /\ ~CardDown
    /\ \A d \in Devices : dev[d].count < MaxCount /\ dev[d].startStop < MaxCount
    /\ strm' = [strm EXCEPT ![s] = NewStream(s, "opening")]
    /\ ssr' = [ssr EXCEPT !.visited = @ \ {s}]
    /\ Call(t, "open", "opened")
    /\ UNCHANGED <<dev, active_devices, Mutexes, cardVars>>

\* The stream gets its counter, or is closed and deleted.
PalOpened(t) ==
  LET s == Str(t) IN
    /\ pc[t] = "opened"
    /\ \/ /\ status[t] = "ok" /\ ActiveFree
          /\ strm' = [strm EXCEPT ![s].handle = "valid", ![s].want = "open"]
          /\ Goto(t, "idle")
       \/ /\ status[t] # "ok"
          /\ Call(t, "close", "closed") /\ UNCHANGED strm
    /\ UNCHANGED <<dev, active_devices, Mutexes, cardVars, ssr>>

\* start, pause and resume, when the last call that succeeded allows it.
MayCall(op, want) ==
  \/ op = "start" /\ want \in {"open", "stopped"}
  \/ op = "stop" /\ want \in {"started", "paused"}
  \/ op = "pause" /\ want = "started"
  \/ op = "resume" /\ want = "paused"
  \/ op = "close"

\* All but pause and resume look at the list first.
PalCall(t, op) ==
  LET s == Str(t) IN
    /\ pc[t] = "idle" /\ op \in Ops /\ MayCall(op, strm[s].want)
    /\ strm[s].handle = "valid"
    /\ op \in {"start", "stop", "close"} => ActiveFree
    /\ op = "start" => \A d \in Devices : dev[d].startStop < MaxCount
    /\ op = "close" => \A w \in Writers : pc[<<w, s>>] = "idle"
    /\ strm' = IF op = "close" THEN [strm EXCEPT ![s].handle = "closing"] ELSE strm
    /\ CASE op = "start" -> Call(t, "start", "startDone")
         [] op = "stop" -> Goto(t, "palStop")
         [] op = "pause" -> Call(t, "pause", "pauseDone")
         [] op = "resume" -> Call(t, "resume", "resumeDone")
         [] op = "close" -> Goto(t, "palClose")
    /\ UNCHANGED <<dev, active_devices, Mutexes, cardVars, ssr>>

\* pal_stream_stop and pal_stream_close first set the cached state.
SetCachedState(t, s, state) ==
  /\ StreamFree(s)
  /\ strm' = [strm EXCEPT ![s].cachedState = state]
  /\ UNCHANGED <<dev, active_devices, Mutexes, cardVars, ssr>>

PalStop(t) ==
  /\ pc[t] = "palStop" /\ SetCachedState(t, Str(t), "STOPPED")
  /\ Call(t, "stop", "stopDone")

PalClose(t) ==
  /\ pc[t] = "palClose" /\ SetCachedState(t, Str(t), "IDLE")
  /\ Call(t, "close", "closed")

Wanted(label) ==
  CASE label = "startDone" -> "started"
    [] label = "resumeDone" -> "started"
    [] label = "pauseDone" -> "paused"
    [] label = "stopDone" -> "stopped"

PalDone(t) ==
  /\ pc[t] \in {"startDone", "stopDone", "pauseDone", "resumeDone"}
  /\ pc[t] \in {"startDone", "stopDone"} => ActiveFree
  /\ strm' = IF status[t] = "ok"
               THEN [strm EXCEPT ![Str(t)].want = Wanted(pc[t])] ELSE strm
  /\ Goto(t, "idle")
  /\ UNCHANGED <<dev, active_devices, Mutexes, cardVars, ssr>>

Others(t) == {u \in Threads \ {t} : Str(u) = Str(t) /\ pc[u] # "idle"}

\* The last user gone, the stream is deleted; its active devices are not.
PalClosed(t) ==
  /\ pc[t] = "closed" /\ ActiveFree /\ Others(t) = {}
  /\ strm' = [strm EXCEPT ![Str(t)] = NewStream(Str(t), "none")]
  /\ Goto(t, "idle")
  /\ UNCHANGED <<dev, active_devices, Mutexes, cardVars, ssr>>

PalWrite(t) ==
  /\ pc[t] = "idle" /\ Writes /\ strm[Str(t)].handle = "valid"
  /\ strm[Str(t)].want = "started"
  /\ Goto(t, "write")
  /\ UNCHANGED <<strm, dev, active_devices, Mutexes, cardVars, ssr>>

-----------------------------------------------------------------------------
(* The sound card and its monitor, which queues every change.              *)

\* A running session dies with the card unless standby spares its stream; one
\* that is only open may live on, its graph is built by session->start.
AfterLoss(s, k) ==
  IF k = "standby" /\ s \in StandbyStreams THEN strm[s]
  ELSE [strm[s] EXCEPT
         !.session = IF @ = "started" \/ (@ = "opened" /\ May("openLost"))
                       THEN "lost" ELSE @,
         !.sessionPaused = FALSE]

CardGoesDown ==
  /\ downs < MaxDown /\ downs' = downs + 1
  /\ \E k \in DownStatus \ {card} :
       /\ card = "online" \/ k = "offline"
       /\ card' = k /\ msgQ' = Append(msgQ, k)
       /\ strm' = [s \in Streams |-> AfterLoss(s, k)]
  /\ UNCHANGED <<dev, active_devices, Mutexes, cardState, prevState, ssr, pc,
                 ret, status, scenario>>

CardComesUp ==
  /\ ~CardUp
  /\ card' = "online" /\ msgQ' = Append(msgQ, "online")
  /\ UNCHANGED <<strm, dev, active_devices, Mutexes, downs, cardState,
                 prevState, ssr, pc, ret, status, scenario>>

-----------------------------------------------------------------------------
(* ResourceManager::ssrHandlingLoop and the handlers of StreamPCM.         *)

\* Mutant of SsrTake: the events that wait behind the first are dropped.
SsrTakeOne ==
  /\ pc[Ssr] = "idle" /\ msgQ # <<>> /\ ActiveFree
  /\ msgQ' = <<>>
  /\ cardState' = Head(msgQ) /\ prevState' = Head(msgQ)
  /\ IF Head(msgQ) = prevState
       THEN UNCHANGED <<mActiveStreamMutex, ssr, pc, ret, status, scenario>>
       ELSE /\ mActiveStreamMutex' = Ssr
            /\ ssr' = [ssr EXCEPT !.visited = {}]
            /\ Goto(Ssr, "walk")
  /\ UNCHANGED <<strm, dev, active_devices, mStreamMutex, card, downs>>

\* A status that is handled already is only taken from the queue.
SsrTake ==
  /\ pc[Ssr] = "idle" /\ msgQ # <<>> /\ ActiveFree
  /\ msgQ' = Tail(msgQ)
  /\ cardState' = Head(msgQ) /\ prevState' = Head(msgQ)
  /\ IF Head(msgQ) = prevState
       THEN UNCHANGED <<mActiveStreamMutex, ssr, pc, ret, status, scenario>>
       ELSE /\ mActiveStreamMutex' = Ssr
            /\ ssr' = [ssr EXCEPT !.visited = {}]
            /\ Goto(Ssr, "walk")
  /\ UNCHANGED <<strm, dev, active_devices, mStreamMutex, card, downs>>

\* The streams with a user counter.
Counted == {s \in Streams : strm[s].handle \in {"valid", "closing"}}

SsrNext ==
  /\ pc[Ssr] = "walk"
  /\ \E s \in Counted \ ssr.visited : ssr' = [ssr EXCEPT !.stream = s]
  /\ Goto(Ssr, IF CardDown THEN "down" ELSE "up")
  /\ UNCHANGED <<strm, dev, active_devices, Mutexes, cardVars>>

SsrDone ==
  /\ pc[Ssr] = "walk" /\ Counted \subseteq ssr.visited
  /\ UnlockActive /\ Goto(Ssr, "idle")
  /\ UNCHANGED <<strm, dev, active_devices, mStreamMutex, cardVars, ssr>>

Visited == ssr' = [ssr EXCEPT !.stream = None, !.visited = @ \cup {ssr.stream}]

\* Mutant of SsrDown: what a call cached is overwritten.
SsrDownOverwrites ==
  LET s == ssr.stream
      spared == cardState = "standby" /\ s \in StandbyStreams IN
    /\ pc[Ssr] = "down" /\ StreamFree(s)
    /\ strm' = IF spared
                 THEN [strm EXCEPT ![s].skipSSRHandling = TRUE]
                 ELSE [strm EXCEPT ![s].cachedState = strm[s].currentState]
    /\ \/ spared /\ Visited /\ Goto(Ssr, "walk") /\ UNCHANGED mActiveStreamMutex
       \/ /\ ~spared /\ strm[s].currentState \in {"INIT", "STOPPED"}
          /\ Call(Ssr, "close", "downEnd") /\ UNCHANGED <<mActiveStreamMutex, ssr>>
       \/ /\ ~spared /\ strm[s].currentState \in {"STARTED", "PAUSED"}
          /\ UnlockActive /\ Call(Ssr, "stop", "downStopped") /\ UNCHANGED ssr
       \/ /\ ~spared /\ strm[s].currentState = "IDLE"
          /\ Goto(Ssr, "downEnd") /\ UNCHANGED <<mActiveStreamMutex, ssr>>
    /\ UNCHANGED <<dev, active_devices, mStreamMutex, cardVars>>

\* Mutant of SsrDown: stop is called with mActiveStreamMutex held.
SsrDownKeepsMutex ==
  LET s == ssr.stream
      spared == cardState = "standby" /\ s \in StandbyStreams IN
    /\ pc[Ssr] = "down" /\ StreamFree(s)
    /\ strm' = IF spared
                 THEN [strm EXCEPT ![s].skipSSRHandling = TRUE]
                 ELSE [strm EXCEPT ![s].cachedState =
                         IF @ = "IDLE" THEN strm[s].currentState ELSE @]
    /\ \/ spared /\ Visited /\ Goto(Ssr, "walk") /\ UNCHANGED mActiveStreamMutex
       \/ /\ ~spared /\ strm[s].currentState \in {"INIT", "STOPPED"}
          /\ Call(Ssr, "close", "downEnd") /\ UNCHANGED <<mActiveStreamMutex, ssr>>
       \/ /\ ~spared /\ strm[s].currentState \in {"STARTED", "PAUSED"}
          /\ Call(Ssr, "stop", "downStopped") /\ UNCHANGED <<mActiveStreamMutex, ssr>>
       \/ /\ ~spared /\ strm[s].currentState = "IDLE"
          /\ Goto(Ssr, "downEnd") /\ UNCHANGED <<mActiveStreamMutex, ssr>>
    /\ UNCHANGED <<dev, active_devices, mStreamMutex, cardVars>>

\* ssrDownHandler; a stream that standby spares is skipped, and so is its way up.
SsrDown ==
  LET s == ssr.stream
      spared == cardState = "standby" /\ s \in StandbyStreams IN
    /\ pc[Ssr] = "down" /\ StreamFree(s)
    /\ strm' = IF spared
                 THEN [strm EXCEPT ![s].skipSSRHandling = TRUE]
                 ELSE [strm EXCEPT ![s].cachedState =
                         IF @ = "IDLE" THEN strm[s].currentState ELSE @]
    /\ \/ spared /\ Visited /\ Goto(Ssr, "walk") /\ UNCHANGED mActiveStreamMutex
       \/ /\ ~spared /\ strm[s].currentState \in {"INIT", "STOPPED"}
          /\ Call(Ssr, "close", "downEnd") /\ UNCHANGED <<mActiveStreamMutex, ssr>>
       \/ /\ ~spared /\ strm[s].currentState \in {"STARTED", "PAUSED"}
          /\ UnlockActive /\ Call(Ssr, "stop", "downStopped") /\ UNCHANGED ssr
       \/ /\ ~spared /\ strm[s].currentState = "IDLE"
          /\ Goto(Ssr, "downEnd") /\ UNCHANGED <<mActiveStreamMutex, ssr>>
    /\ UNCHANGED <<dev, active_devices, mStreamMutex, cardVars>>

\* Mutant of SsrDownStopped: a stream that was stopped is not closed.
SsrDownUnclosed ==
  /\ pc[Ssr] = "downStopped" /\ LockActive(Ssr)
  /\ Goto(Ssr, "downEnd")
  /\ UNCHANGED <<strm, dev, active_devices, mStreamMutex, cardVars, ssr>>

SsrDownStopped ==
  /\ pc[Ssr] = "downStopped" /\ LockActive(Ssr)
  /\ Call(Ssr, "close", "downEnd")
  /\ UNCHANGED <<strm, dev, active_devices, mStreamMutex, cardVars, ssr>>

SsrDownEnd ==
  /\ pc[Ssr] = "downEnd"
  /\ strm' = [strm EXCEPT ![ssr.stream].currentState = "IDLE"]
  /\ Visited /\ Goto(Ssr, "walk")
  /\ UNCHANGED <<dev, active_devices, Mutexes, cardVars>>

\* ssrUpHandler.
SsrUp ==
  LET s == ssr.stream IN
    /\ pc[Ssr] = "up" /\ StreamFree(s)
    /\ IF strm[s].skipSSRHandling
         THEN /\ strm' = [strm EXCEPT ![s].skipSSRHandling = FALSE]
              /\ Visited /\ Goto(Ssr, "walk")
         ELSE /\ ssr' = [ssr EXCEPT !.upTo = strm[s].cachedState]
              /\ UNCHANGED strm
              /\ CASE strm[s].cachedState = "INIT" -> Call(Ssr, "open", "upEnd")
                   [] strm[s].cachedState \in {"STARTED", "PAUSED"} ->
                        Call(Ssr, "open", "upOpened")
                   [] OTHER -> Goto(Ssr, "upEnd")
    /\ UNCHANGED <<dev, active_devices, Mutexes, cardVars>>

SsrUpOpened ==
  /\ pc[Ssr] = "upOpened"
  /\ IF status[Ssr] = "ok"
       THEN UnlockActive /\ Call(Ssr, "start", "upStarted")
       ELSE UNCHANGED mActiveStreamMutex /\ Goto(Ssr, "upEnd")
  /\ UNCHANGED <<strm, dev, active_devices, mStreamMutex, cardVars, ssr>>

SsrUpStarted ==
  /\ pc[Ssr] = "upStarted" /\ LockActive(Ssr)
  /\ IF /\ status[Ssr] = "ok" /\ strm[ssr.stream].currentState = "STARTED"
        /\ ssr.upTo = "PAUSED"
       THEN Call(Ssr, "pause", "upEnd")
       ELSE Goto(Ssr, "upEnd")
  /\ UNCHANGED <<strm, dev, active_devices, mStreamMutex, cardVars, ssr>>

SsrUpEnd ==
  /\ pc[Ssr] = "upEnd"
  /\ strm' = [strm EXCEPT ![ssr.stream].cachedState = "IDLE"]
  /\ Visited /\ Goto(Ssr, "walk")
  /\ UNCHANGED <<dev, active_devices, Mutexes, cardVars>>

-----------------------------------------------------------------------------
\* The operations of a stream, called by a client or by recovery.
Operation(t) ==
  \/ Open(t)
  \/ StartEnter(t) \/ StartRun(t) \/ StartReset(t) \/ StartLock(t)
  \/ StartRegister(t)
  \/ StopEnter(t) \/ StopLock(t) \/ StopRun(t)
  \/ CloseEnter(t) \/ CloseRun(t)
  \/ Pause(t) \/ Resume(t)

ControlStep(t) ==
  \/ Operation(t)
  \/ PalOpened(t) \/ PalStop(t) \/ PalClose(t) \/ PalDone(t) \/ PalClosed(t)

WriterStep(t) ==
  \/ Write(t) \/ WriteReset(t) \/ WriteCheck(t) \/ WriteLock(t)
  \/ WriteRegister(t) \/ WriteState(t)

SsrStep ==
  \/ Operation(Ssr)
  \/ SsrTake \/ SsrNext \/ SsrDone
  \/ SsrDown \/ SsrDownStopped \/ SsrDownEnd
  \/ SsrUp \/ SsrUpOpened \/ SsrUpStarted \/ SsrUpEnd

Next ==
  \/ \E t \in Controls :
       \/ ControlStep(t)
       \/ PalOpen(t) \/ \E op \in Ops : PalCall(t, op)
  \/ \E t \in WriterThreads : WriterStep(t) \/ PalWrite(t)
  \/ SsrStep
  \/ CardGoesDown \/ CardComesUp

(* Every call and the recovery thread go on when they can; a mutex that    *)
(* becomes free again and again is granted in the end.  The card comes up. *)
Fairness ==
  /\ \A t \in Controls : SF_vars(ControlStep(t))
  /\ \A t \in WriterThreads : SF_vars(WriterStep(t))
  /\ SF_vars(SsrStep)
  /\ WF_vars(CardComesUp)

Spec == Init /\ [][Next]_vars
FairSpec == Spec /\ Fairness

-----------------------------------------------------------------------------
(* Every variable keeps its type; a device count never falls below 0.      *)
TypeOK ==
  /\ strm \in [Streams -> StreamType]
  /\ dev \in [Devices -> [count : Nat, startStop : Nat]]
  /\ active_devices \subseteq Devices \X Streams
  /\ mStreamMutex \in [Streams -> Threads \cup {None}]
  /\ mActiveStreamMutex \in Threads \cup {None}
  /\ cardState \in {"online", "offline", "standby"}
  /\ status \in [Threads -> {"ok", "err"}]

\* Nothing is under way: no event, no call, no walk.
Quiet == msgQ = <<>> /\ \A t \in Threads : pc[t] = "idle"
Recovered == Quiet /\ CardUp /\ cardState = "online"
Valid == {s \in Streams : strm[s].handle = "valid"}

(* Every call a client makes returns, every walk of the recovery thread    *)
(* ends: the two mutexes and the wait of the closing thread never close a  *)
(* circle.                                                                 *)
CallsReturn == \A t \in Threads : pc[t] # "idle" ~> pc[t] = "idle"

(* Once its events are handled, the resource manager knows whether the     *)
(* card is there.                                                          *)
CardStateRight == Quiet => cardState = card

(* When nothing is under way and the card is up, every stream is as the    *)
(* last call of its client that returned 0 left it, whatever happened to   *)
(* the card in between.  (A write may still move a paused stream's         *)
(* currentState, see WriteState; what counts is the session.)  A stream    *)
(* stopped while paused, and one whose open hid a failure, are not.        *)
AsLeft ==
  Recovered /\ "stop" \notin Ops => \A s \in Valid :
    CASE strm[s].want = "open" -> strm[s].currentState = "INIT"
      [] strm[s].want = "started" ->
           /\ strm[s].session = "started" /\ ~strm[s].sessionPaused
           /\ strm[s].currentState \in {"STARTED", "PAUSED"}
      [] strm[s].want = "paused" -> strm[s].sessionPaused
      [] strm[s].want = "stopped" -> strm[s].currentState \in {"INIT", "STOPPED"}

(* Once all is handled the manager knows whether the card is there, and    *)
(* every stream is as its client left it.                                  *)
StreamAsAsked == CardStateRight /\ AsLeft

Opener(d) == {s \in Streams : strm[s].currentState # "IDLE" /\ d \in strm[s].mDevices}
Starter(d) == {s \in Streams : strm[s].currentState \in {"STARTED", "PAUSED"}
                               /\ d \in strm[s].mDevices}

(* A device that streams use is never closed or stopped under them,        *)
(* whatever fails on the way: its counts cover the streams that opened and *)
(* started it.                                                             *)
DeviceServesUsers ==
  \A d \in Devices :
    /\ dev[d].count >= Cardinality(Opener(d))
    /\ dev[d].startStop >= Cardinality(Starter(d))

(* No open or start of a device is left behind: at rest its counts are the *)
(* streams that use it.  Only starts fail: other failures leave the counts *)
(* too high.                                                               *)
CountsBalance ==
  Quiet /\ Faults \subseteq {"deviceStart", "sessionStart"} => \A d \in Devices :
    /\ dev[d].count = Cardinality(Opener(d))
    /\ dev[d].startStop = Cardinality(Starter(d))

(* At rest the list of active devices pairs the running streams with their *)
(* devices, unless the card was lost.  Device switches and concurrency     *)
(* checks work from that list.                                             *)
ActiveDevicesRight ==
  Quiet /\ MaxDown = 0 => active_devices = UNION {strm[s].mDevices \X {s} : s \in
              {x \in Streams : strm[x].currentState \in {"STARTED", "PAUSED"}}}

(* The shared devices serve every stream that uses them, no longer than it *)
(* does, and are known as active just as long (start, stop, close and the  *)
(* clean-up of their failures); no count falls below 0.                    *)
DevicesRight ==
  TypeOK /\ DeviceServesUsers /\ CountsBalance /\ ActiveDevicesRight
=============================================================================

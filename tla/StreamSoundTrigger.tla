---------------------------- MODULE StreamSoundTrigger ----------------------------
(***************************************************************************)
(* A sound trigger stream among the threads that use it: the client, the   *)
(* event thread of the first stage engine, a thread of each second stage,  *)
(* the timer of the delayed stop and the resource manager (concurrency,    *)
(* pause and resume, device switch, recovery of the sound card).           *)
(*                                                                         *)
(* A section of mStreamMutex is one step, but where the code keeps the     *)
(* mutex across two calls, waits for a thread in it, or gives it up to     *)
(* call the client.  The states are those of StStates.  Not modelled: a    *)
(* stream deleted while the manager waits for its mutex, other streams on  *)
(* the same engine, a device shared with other streams, a notification     *)
(* that fails before it calls the client.                                  *)
(***************************************************************************)
EXTENDS StStates

CONSTANTS
  SecondStages,    \* the second stages there may be
  Scenarios,       \* what a behaviour is about: see ScenarioOK
  None

ScenarioOK(sc) ==
  /\ sc.stages \subseteq SecondStages
  /\ sc.Captures \subseteq BOOLEAN     \* values of capture_requested in the configuration
  /\ sc.Notifies \subseteq BOOLEAN     \* whether the client is told of rejections
  /\ sc.Calls \subseteq {"load", "config", "reconfig", "start", "stop", "read",
                        "stopBuffering", "close", "delete"}
  /\ sc.Events \subseteq {"lateCheck",  \* a report checks late
                         "overtake",   \* the DSP detects before the last detection is taken
                         "pause", "others", "concurrency", "device"}  \* the manager
  /\ sc.Faults \subseteq Stages        \* steps that may fail
  \* Bounds: detections of the DSP, losses of the card and switches begun, above which
  \* none is modelled.
  /\ sc.MaxDetections \in Nat /\ sc.MaxDown \in Nat /\ sc.MaxSwitching \in Nat

Threads == {"ctl", "rm", "gsl"} \cup SecondStages

ASSUME TriggerAssumption ==
  /\ SecondStages \subseteq {"kwd", "user"} /\ \A sc \in Scenarios : ScenarioOK(sc)
  /\ None \notin Stages \cup Threads

VARIABLES
  s,                                \* the stream
  queued,                           \* the size of det_streams_q_
  mutex_unlocked_after_cb_, is_abort_event_notifying_,
  mStreamMutex, mActiveStreamMutex,
  use_lpi_, nlpiStream,             \* low power; a stream that excludes it is active
  deferredSwitchState,
  disabled,                         \* concurrencyDisableCount # 0
  card, alive,                      \* the card; the stream exists
  pc, arg,                          \* where a thread is, and what for
  want,                             \* ghost: what the client last asked for or was told
  detections, downs,
  fault, scenario                   \* the kind of step that may fail, or None

flags == <<mutex_unlocked_after_cb_, is_abort_event_notifying_>>
mutexes == <<mStreamMutex, mActiveStreamMutex>>
manager == <<use_lpi_, nlpiStream, deferredSwitchState, disabled>>
bounds == <<detections, downs, fault, scenario>>
vars == <<s, queued, flags, mutexes, manager, card, alive, pc, arg, want, bounds>>

Up == card = "online"
StreamFree == mStreamMutex = None
ActiveFree == mActiveStreamMutex = None
Fault == {None, fault}
Event(t, ev, f) == Process(t, ev, f, use_lpi_, Up)

Goto(t, label, a) == pc' = [pc EXCEPT ![t] = label] /\ arg' = [arg EXCEPT ![t] = a]
Stay(t, label) == Goto(t, label, arg[t])

Init ==
  /\ scenario \in Scenarios /\ fault \in scenario.Faults \cup {None}
  /\ \E c \in scenario.Captures, n \in scenario.Notifies :
       s = NewStream(c, n, scenario.stages)
  /\ queued = 0 /\ mutex_unlocked_after_cb_ = FALSE /\ is_abort_event_notifying_ = FALSE
  /\ mStreamMutex = None /\ mActiveStreamMutex = None
  /\ use_lpi_ = TRUE /\ nlpiStream = FALSE /\ deferredSwitchState = "none"
  /\ disabled = FALSE /\ card = "online" /\ alive = TRUE
  /\ pc = [t \in Threads |-> "idle"] /\ arg = [t \in Threads |-> None]
  /\ want = "none" /\ detections = 0 /\ downs = 0

-----------------------------------------------------------------------------
(* handleDeferredSwitch and handleConcurrentStreamSwitch.  The mutex of the *)
(* stream is kept between the two halves of a switch.                      *)

\* Where a thread goes on after a switch.
AfterSwitch(t) ==
  CASE t = "ctl" /\ arg[t] = "start" -> "start_lock"
    [] t \in {"ctl", "rm"} /\ arg[t] # "start" -> "idle"
    [] t \in SecondStages -> "rest"
GoOn(t) == Goto(t, AfterSwitch(t), IF AfterSwitch(t) = "idle" THEN None ELSE arg[t])

Defer(t) ==
  /\ pc[t] = "defer" /\ ~(Up /\ ~ActiveFree)
  /\ IF Up /\ deferredSwitchState # "none" /\ ~InBuffering(s)
       THEN /\ use_lpi_' = (deferredSwitchState = "toLpi")
            /\ mActiveStreamMutex' = t /\ Stay(t, "off")
       ELSE UNCHANGED <<use_lpi_, mActiveStreamMutex>> /\ GoOn(t)
  /\ UNCHANGED <<s, queued, flags, mStreamMutex, nlpiStream, deferredSwitchState,
                 disabled, card, alive, want, bounds>>

SwitchOff(t) ==
  /\ pc[t] = "off" /\ StreamFree /\ mStreamMutex' = t
  /\ s' = IF s.prof # use_lpi_ THEN Event(s, "off", None) ELSE s
  /\ Stay(t, "on")
  /\ UNCHANGED <<queued, flags, mActiveStreamMutex, manager, card, alive, want, bounds>>

SwitchOn(t) ==
  /\ pc[t] = "on"
  /\ \E f \in Fault : s' = IF s.prof # use_lpi_ THEN Event(s, "on", f) ELSE s
  /\ mStreamMutex' = None /\ mActiveStreamMutex' = None
  /\ deferredSwitchState' = IF t = "rm" THEN deferredSwitchState ELSE "none"
  /\ GoOn(t)
  /\ UNCHANGED <<queued, flags, use_lpi_, nlpiStream, disabled, card, alive, want, bounds>>

Switch(t) == Defer(t) \/ SwitchOff(t) \/ SwitchOn(t)

-----------------------------------------------------------------------------
(* The client.                                                             *)

May(op) == pc["ctl"] = "idle" /\ alive /\ op \in scenario.Calls
noSection == <<queued, flags, mutexes, manager, card, alive, bounds>>

Load ==
  /\ May("load") /\ want = "none" /\ StreamFree
  /\ \E f \in Fault : \E n \in {Event(s, "load", f)} :
       /\ s' = IF n.ok THEN [n EXCEPT !.currentState = "opened"] ELSE n
       /\ want' = IF n.ok THEN "loaded" ELSE want
  /\ UNCHANGED noSection /\ UNCHANGED <<pc, arg>>

\* A configuration like the last is ignored and not modelled.
Config ==
  /\ May(IF s.currentState = "started" THEN "reconfig" ELSE "config")
  /\ want # "none" /\ StreamFree
  /\ \E f \in Fault : s' = Event(s, "config", f)
  /\ want' = IF ~s'.ok THEN want ELSE IF s.currentState = "started" THEN "any" ELSE "loaded"
  /\ UNCHANGED noSection /\ UNCHANGED <<pc, arg>>

\* A client reads when it was told of a detection; its first read keeps the DSP
\* awake and the stream going.
Read ==
  /\ May("read") /\ want = "told" /\ StreamFree /\ s.cur = "buffering" /\ ~s.nlpi
  /\ s' = [CancelDelayedStop(s) EXCEPT !.nlpi = TRUE]
  /\ UNCHANGED noSection /\ UNCHANGED <<pc, arg, want>>

StopBuffering ==
  /\ May("stopBuffering") /\ want = "told" /\ StreamFree /\ s.cur = "buffering"
  /\ s' = Event(s, "stopBuffering", None) /\ Goto("ctl", "defer", "stopBuffering")
  /\ UNCHANGED noSection /\ UNCHANGED want

\* pal_stream_start and pal_stream_stop; both locks are taken one by one.
CallStart ==
  /\ May("start") /\ want # "none" /\ Goto("ctl", "defer", "start")
  /\ UNCHANGED <<s, want>> /\ UNCHANGED noSection
CallStop ==
  /\ May("stop") /\ want # "none" /\ Goto("ctl", "stop_lock", "stop")
  /\ UNCHANGED <<s, want>> /\ UNCHANGED noSection

LockActive ==
  /\ pc["ctl"] \in {"start_lock", "stop_lock"} /\ ActiveFree /\ mActiveStreamMutex' = "ctl"
  /\ Stay("ctl", arg["ctl"])
  /\ UNCHANGED <<s, queued, flags, mStreamMutex, manager, card, alive, want, bounds>>

Finish(t) == Goto(t, "idle", None) /\ mActiveStreamMutex' = None
afterFinish == <<queued, flags, mStreamMutex, manager, card, alive, bounds>>

Start ==
  /\ pc["ctl"] = "start" /\ StreamFree
  /\ \E f \in Fault :
       \E n \in {Event([s EXCEPT !.currentState = "started", !.rejected = FALSE], "start", f)} :
       /\ s' = IF n.ok THEN n ELSE [n EXCEPT !.currentState = s.currentState]
       /\ want' = IF n.ok THEN "started" ELSE want
  /\ Finish("ctl") /\ UNCHANGED afterFinish

Stop ==
  /\ pc["ctl"] = "stop" /\ StreamFree
  /\ s' = Event([s EXCEPT !.currentState = "stopped"], "stop", None)
  /\ want' = IF want = "none" THEN want ELSE "loaded"
  /\ Finish("ctl") /\ UNCHANGED afterFinish

\* close keeps the mutex while it waits for the threads of the engines.
CloseBegin ==
  /\ May("close") /\ StreamFree /\ ~is_abort_event_notifying_
  /\ IF s.cur = "ssr"
       THEN /\ s' = [Event(s, "unload", None) EXCEPT !.model = FALSE, !.currentState = "idle"]
            /\ Goto("ctl", "closed", None) /\ UNCHANGED mStreamMutex
       ELSE /\ s' = BeforeUnload(s) /\ mStreamMutex' = "ctl" /\ Goto("ctl", "join", s.cur)
  /\ want' = "none"
  /\ UNCHANGED <<queued, flags, mActiveStreamMutex, manager, card, alive, bounds>>

EnginesQuiet == queued = 0 /\ \A t \in {"gsl"} \cup SecondStages : pc[t] = "idle"

\* The thread of the first stage releases the wake lock when it ends.
CloseJoin ==
  /\ pc["ctl"] = "join" /\ EnginesQuiet
  /\ s' = [Released(AfterUnload(s, arg["ctl"])) EXCEPT !.model = FALSE, !.currentState = "idle"]
  /\ mStreamMutex' = None /\ Goto("ctl", "closed", None)
  /\ UNCHANGED <<queued, flags, mActiveStreamMutex, manager, card, alive, want, bounds>>

\* The destructor ends the timer thread with the mutex held.
Delete ==
  /\ pc["ctl"] = "closed" /\ StreamFree /\ pc["rm"] = "idle" /\ "delete" \in scenario.Calls
  /\ mStreamMutex' = "ctl" /\ Goto("ctl", "join_timer", None)
  /\ UNCHANGED <<s, queued, flags, mActiveStreamMutex, manager, card, alive, want, bounds>>
Deleted ==
  /\ pc["ctl"] = "join_timer" /\ s.timer \in {"start", "wait"}
  /\ s' = [s EXCEPT !.timer = "exited"] /\ alive' = FALSE
  /\ mStreamMutex' = None /\ Goto("ctl", "deleted", None)
  /\ UNCHANGED <<queued, flags, mActiveStreamMutex, manager, card, want, bounds>>

Control == Switch("ctl") \/ LockActive \/ Start \/ Stop \/ CloseJoin \/ Delete \/ Deleted
Client == \/ Load \/ Config \/ Read \/ StopBuffering \/ CallStart \/ CallStop \/ CloseBegin
          \/ Control

-----------------------------------------------------------------------------
(* The timer of the delayed stop.                                          *)

TimerEnds ==
  /\ s.timer = "wait"
  /\ s' = [s EXCEPT !.timer = IF s.stopWaiting THEN "start" ELSE "fire"]
  /\ UNCHANGED noSection /\ UNCHANGED <<pc, arg, want>>

\* InternalStopRecognition
TimerFires ==
  /\ s.timer = "fire" /\ StreamFree
  /\ s' = [IF s.pending THEN Event(s, "stop", None) ELSE s EXCEPT !.timer = "fired"]
  /\ UNCHANGED noSection /\ UNCHANGED <<pc, arg, want>>

TimerBack ==
  /\ s.timer = "fired" /\ s' = [s EXCEPT !.timer = "start"]
  /\ UNCHANGED noSection /\ UNCHANGED <<pc, arg, want>>

Timer == TimerEnds \/ TimerFires \/ TimerBack

-----------------------------------------------------------------------------
(* The engines.  A worker reports what it found with                       *)
(* SetEngineDetectionState, which takes the mutex of the stream in a loop  *)
(* that ends without it when the state has changed.                        *)

\* HandleSessionEvent: the DSP detects the keyword.  The queue is swapped for one with
\* this detection only.
Detect ==
  /\ alive /\ Up /\ s.gsl = "active" /\ detections < scenario.MaxDetections
  /\ queued = 0 \/ "overtake" \in scenario.Events
  /\ s' = [s EXCEPT !.gsl = "detected", !.wake = @ + 1]
  /\ queued' = 1 /\ detections' = detections + 1
  /\ UNCHANGED <<flags, mutexes, manager, card, alive, pc, arg, want, downs,
                 fault, scenario>>

Captured == s.capture \/ s.stages # {}

\* ProcessEventTask: a detection of a recognition that was stopped is dropped.
GslTake ==
  /\ pc["gsl"] = "idle" /\ queued > 0 /\ queued' = queued - 1
  /\ IF s.gsl = "detected"
       THEN /\ s' = [s EXCEPT !.gsl = IF Captured THEN "buffering" ELSE @]
            /\ Goto("gsl", "try", "gmm")
       ELSE s' = Released(s) /\ UNCHANGED <<pc, arg>>
  /\ UNCHANGED <<flags, mutexes, manager, card, alive, want, bounds>>

\* The buffering ends before the keyword is read.
GslCut ==
  /\ pc["gsl"] = "try" /\ Captured /\ s.gsl # "buffering"
  /\ s' = Released(s) /\ Goto("gsl", "idle", None)
  /\ UNCHANGED noSection /\ UNCHANGED want

\* The report failed: the engine is restarted.  Else it goes on buffering.
GslReported ==
  /\ pc["gsl"] = "rest"
  /\ IF arg["gsl"] = "failed"
       THEN s' = Released(RestartActive(s)) /\ Goto("gsl", "idle", None)
       ELSE IF Captured THEN Goto("gsl", "buffer", None) /\ UNCHANGED s
       ELSE s' = Released(s) /\ Goto("gsl", "idle", None)
  /\ UNCHANGED noSection /\ UNCHANGED want

\* The loop reads until the engine is stopped or restarted.  Detections of further
\* streams, which it reports too, are not modelled.
GslBuffer ==
  /\ pc["gsl"] = "buffer" /\ s.gsl # "buffering"
  /\ s' = Released(s) /\ Goto("gsl", "idle", None)
  /\ UNCHANGED noSection /\ UNCHANGED want

\* A second stage has come to a verdict, unless it was stopped meanwhile.
Verdict(w) ==
  /\ pc[w] = "idle" /\ w \in s.run
  /\ \E v \in {"accept", "reject"} : Goto(w, "try", v)
  /\ UNCHANGED <<s, want>> /\ UNCHANGED noSection

\* processing_started_ is reset after the report.
Rest(w) ==
  /\ pc[w] = "rest" /\ Goto(w, "idle", None)
  /\ s' = [s EXCEPT !.run = @ \ {w}]
  /\ UNCHANGED noSection /\ UNCHANGED want

\* Mutant of Proper: the state is not looked at.
ProperAlways(t) == TRUE

Proper(t) == s.cur = IF t = "gsl" THEN "active" ELSE "buffering"

\* The event DETECTED, in a state that takes it.
Reported(t) ==
  CASE arg[t] = "gmm" -> Event([s EXCEPT !.wake = @ + 1], "detected", None)
    [] arg[t] = "accept" -> Accepted(s, t)
    [] arg[t] = "reject" -> Rejected(s, t, None, Up)

\* What is left of the report, by a thread that owns the mutex or believes it
\* does: notifyClient gives it up for the call of the client.
Report(t, owner) ==
  \E n \in {Reported(t)} :
  /\ Stay(t, CASE n.note = "detection" -> "callback"
               [] n.note = "rejection" -> "callback_rejection"
               [] n.note = "none" -> "tail")
  /\ IF n.note = "none"
       THEN s' = n /\ mStreamMutex' = owner /\ UNCHANGED want
       ELSE /\ s' = [PostDelayedStop(n) EXCEPT !.note = "none", !.currentState = "stopped",
                                               !.reader = TRUE]
            /\ mStreamMutex' = None /\ want' = "told"

Refuse(t) == Goto(t, "rest", "failed") /\ UNCHANGED <<s, want, mStreamMutex>>

TryLock(t) ==
  /\ (pc[t] = "try" /\ StreamFree) \/ pc[t] = "check"
  /\ IF Proper(t) THEN Report(t, IF pc[t] = "try" THEN t ELSE mStreamMutex) ELSE Refuse(t)
  /\ UNCHANGED <<queued, flags, mActiveStreamMutex, manager, card, alive, bounds>>

\* Mutant of TryGivesUp: the mutex is waited for.
TryWaits(t) == FALSE

\* try_lock failed, if only for a section that is about to end, and the state does
\* not keep the report waiting; the state is looked at again, at once or later.
TryGivesUp(t) ==
  /\ pc[t] = "try" /\ s.cur \notin {"active", "buffering"}
  /\ \/ Refuse(t)
     \/ "lateCheck" \in scenario.Events /\ Stay(t, "check") /\ UNCHANGED <<s, want, mStreamMutex>>
  /\ UNCHANGED <<queued, flags, mActiveStreamMutex, manager, card, alive, bounds>>

\* After the call of the client the mutex is tried for as long as the client has
\* not moved the stream on.  Only a rejection has a lock to release.
Relock(t) ==
  /\ pc[t] \in {"callback", "callback_rejection"}
  /\ \/ StreamFree /\ mStreamMutex' = t /\ UNCHANGED mutex_unlocked_after_cb_
     \/ /\ s.cur \notin {"detected", "buffering"}
        /\ mutex_unlocked_after_cb_' = TRUE /\ UNCHANGED mStreamMutex
  /\ s' = IF pc[t] = "callback_rejection" THEN Released(s) ELSE s
  /\ Stay(t, "tail")
  /\ UNCHANGED <<queued, is_abort_event_notifying_, mActiveStreamMutex, manager, card,
                 alive, want, bounds>>

\* The end of SetEngineDetectionState: the mutex is unlocked, whoever owns it.
Tail(t) ==
  /\ pc[t] = "tail"
  /\ IF mutex_unlocked_after_cb_ THEN UNCHANGED mStreamMutex ELSE mStreamMutex' = None
  /\ mutex_unlocked_after_cb_' = FALSE
  /\ Stay(t, IF arg[t] = "reject" THEN "defer" ELSE "rest")
  /\ UNCHANGED <<s, queued, is_abort_event_notifying_, mActiveStreamMutex, manager, card,
                 alive, want, bounds>>

SetEngineDetectionState(t) ==
  TryLock(t) \/ TryGivesUp(t) \/ Relock(t) \/ Tail(t)

Gsl == GslTake \/ GslCut \/ GslReported \/ GslBuffer \/ SetEngineDetectionState("gsl")
SecondStage(w) == Verdict(w) \/ Rest(w) \/ SetEngineDetectionState(w) \/ Switch(w)

-----------------------------------------------------------------------------
(* The resource manager, with mActiveStreamMutex.                          *)

MayRm(op) == pc["rm"] = "idle" /\ alive /\ Up /\ ActiveFree /\ op \in scenario.Events
Begin(label) == Goto("rm", label, None) /\ mActiveStreamMutex' = "rm"
noBegin == <<s, queued, flags, mStreamMutex, card, alive, want, bounds>>

\* HandleStreamPauseResume: a concurrency that pauses the stream comes or goes.
BeginPause ==
  /\ MayRm("pause") /\ ~disabled /\ disabled' = TRUE /\ Begin("pause")
  /\ UNCHANGED <<use_lpi_, nlpiStream, deferredSwitchState>> /\ UNCHANGED noBegin
BeginResume ==
  /\ MayRm("pause") /\ disabled /\ disabled' = FALSE /\ Begin("resume")
  /\ UNCHANGED <<use_lpi_, nlpiStream, deferredSwitchState>> /\ UNCHANGED noBegin

\* Another detection stream starts or stops, and the headset comes or goes.
BeginOthers == MayRm("others") /\ Begin("others") /\ UNCHANGED manager /\ UNCHANGED noBegin
BeginDevice ==
  /\ MayRm("device") /\ s.switching < scenario.MaxSwitching /\ Begin("device")
  /\ UNCHANGED manager /\ UNCHANGED noBegin

\* HandleConcurrencyForSoundTriggerStreams with checkAndUpdateDeferSwitchState: a
\* switch is cancelled by its opposite, and deferred while the stream buffers.
Concurrency ==
  /\ MayRm("concurrency") /\ nlpiStream' = ~nlpiStream
  /\ LET active == ~nlpiStream
         use_lpi_temp == CASE deferredSwitchState = "toNlpi" -> FALSE
                           [] deferredSwitchState = "toLpi" -> TRUE
                           [] OTHER -> use_lpi_
         opposite == IF active THEN "toLpi" ELSE "toNlpi"
     IN CASE active /\ ~use_lpi_temp ->
               UNCHANGED <<use_lpi_, deferredSwitchState, mActiveStreamMutex, pc, arg>>
          [] ~(active /\ ~use_lpi_temp) /\ deferredSwitchState = opposite ->
               /\ deferredSwitchState' = "none"
               /\ UNCHANGED <<use_lpi_, mActiveStreamMutex, pc, arg>>
          [] ~(active /\ ~use_lpi_temp) /\ deferredSwitchState # opposite /\ InBuffering(s) ->
               /\ deferredSwitchState' = IF active THEN "toNlpi" ELSE "toLpi"
               /\ UNCHANGED <<use_lpi_, mActiveStreamMutex, pc, arg>>
          [] OTHER -> /\ use_lpi_' = ~active /\ Begin("off") /\ UNCHANGED deferredSwitchState
  /\ UNCHANGED disabled /\ UNCHANGED noBegin

RmStep(label, back) == pc["rm"] = label /\ StreamFree /\ Goto("rm", back, None)
rmOnly == <<queued, manager, card, alive, bounds>>

\* The client is told of the abort with neither mutex held.
Pause ==
  /\ pc["rm"] = "pause" /\ StreamFree
  /\ \E n \in {Event(s, "pause", None)} :
     IF n.note = "none"
       THEN s' = n /\ Finish("rm") /\ UNCHANGED <<flags, mStreamMutex, want>>
       ELSE /\ s' = [n EXCEPT !.note = "none", !.currentState = "stopped"]
            /\ is_abort_event_notifying_' = TRUE /\ want' = "loaded"
            /\ mActiveStreamMutex' = None /\ Goto("rm", "abort", n.note)
            /\ UNCHANGED <<mutex_unlocked_after_cb_, mStreamMutex>>
  /\ UNCHANGED rmOnly

Aborted ==
  /\ pc["rm"] = "abort" /\ ActiveFree /\ mActiveStreamMutex' = "rm" /\ Stay("rm", "aborted")
  /\ UNCHANGED <<s, flags, mStreamMutex, want>> /\ UNCHANGED rmOnly

AbortEnds ==
  /\ pc["rm"] = "aborted" /\ StreamFree
  /\ s' = IF arg["rm"] = "abortDetection" THEN Released(s) ELSE s
  /\ is_abort_event_notifying_' = FALSE /\ Finish("rm")
  /\ UNCHANGED <<mutex_unlocked_after_cb_, mStreamMutex, want>> /\ UNCHANGED rmOnly

Resume ==
  /\ pc["rm"] = "resume" /\ StreamFree /\ s' = Event(s, "resume", None) /\ Finish("rm")
  /\ UNCHANGED <<flags, mStreamMutex, want>> /\ UNCHANGED rmOnly

\* StopOtherDetectionStreams and StartOtherDetectionStreams.
StopOthers ==
  /\ RmStep("others", "others_start") /\ s' = Event(s, "ipause", None)
  /\ UNCHANGED <<flags, mutexes, want>> /\ UNCHANGED rmOnly
StartOthers ==
  /\ pc["rm"] = "others_start" /\ StreamFree
  /\ \E f \in Fault : s' = Event(s, "iresume", f)
  /\ Finish("rm") /\ UNCHANGED <<flags, mStreamMutex, want>> /\ UNCHANGED rmOnly

\* The mutex of the stream is kept from the disconnection to the connection.
Disconnect ==
  /\ RmStep("device", "device_connect") /\ s' = Event(s, "disconnect", None)
  /\ mStreamMutex' = "rm" /\ UNCHANGED <<flags, mActiveStreamMutex, want>> /\ UNCHANGED rmOnly
Connect ==
  /\ pc["rm"] = "device_connect" /\ \E f \in Fault : s' = Event(s, "connect", f)
  /\ mStreamMutex' = None /\ Finish("rm") /\ UNCHANGED <<flags, want>> /\ UNCHANGED rmOnly

\* The card is lost; the manager takes the stream down and, later, up again.
LoseCard ==
  /\ pc["rm"] = "idle" /\ alive /\ Up /\ ActiveFree /\ downs < scenario.MaxDown
  /\ card' = "offline" /\ downs' = downs + 1 /\ Begin("down")
  /\ UNCHANGED <<s, queued, flags, mStreamMutex, manager, alive, want, detections,
                 fault, scenario>>
CardBack ==
  /\ pc["rm"] = "idle" /\ alive /\ ~Up /\ ActiveFree /\ card' = "online" /\ Begin("up")
  /\ UNCHANGED <<s, queued, flags, mStreamMutex, manager, alive, want, bounds>>

SsrDown ==
  /\ pc["rm"] = "down" /\ StreamFree
  /\ LET n == [s EXCEPT !.restore = ToRestore(s)] IN
     CASE s.cur = "ssr" -> UNCHANGED <<s, mStreamMutex>> /\ Finish("rm")
       [] s.cur = "idle" -> s' = To(n, "ssr") /\ UNCHANGED mStreamMutex /\ Finish("rm")
       [] OTHER -> /\ s' = BeforeUnload(n) /\ mStreamMutex' = "rm" /\ Goto("rm", "join", s.cur)
                   /\ UNCHANGED mActiveStreamMutex
  /\ UNCHANGED <<flags, want>> /\ UNCHANGED rmOnly

SsrJoin ==
  /\ pc["rm"] = "join" /\ EnginesQuiet
  /\ s' = To(Released(AfterUnload(s, arg["rm"])), "ssr")
  /\ mStreamMutex' = None /\ Finish("rm") /\ UNCHANGED <<flags, want>> /\ UNCHANGED rmOnly

SsrUp ==
  /\ pc["rm"] = "up" /\ StreamFree
  /\ \E f \in Fault : s' = IF s.cur = "ssr" THEN Online(s, f, use_lpi_, Up) ELSE s
  /\ Finish("rm") /\ UNCHANGED <<flags, mStreamMutex, want>> /\ UNCHANGED rmOnly

ManagerStep ==
  \/ SwitchOff("rm") \/ SwitchOn("rm") \/ Pause \/ Aborted \/ AbortEnds \/ Resume
  \/ StopOthers \/ StartOthers \/ Disconnect \/ Connect \/ CardBack
  \/ SsrDown \/ SsrJoin \/ SsrUp
Manager == \/ BeginPause \/ BeginResume \/ BeginOthers \/ BeginDevice \/ Concurrency \/ LoseCard
           \/ ManagerStep

Next == \/ Client \/ Timer \/ Detect \/ Gsl \/ (\E w \in SecondStages : SecondStage(w))
        \/ Manager

Spec == Init /\ [][Next]_vars

\* A thread runs when it can, and obtains a mutex that is free again and again.
\* Nothing makes the client call, the DSP detect or the manager interfere.
FairSpec ==
  /\ Spec /\ SF_vars(Control) /\ SF_vars(ManagerStep) /\ SF_vars(Gsl) /\ SF_vars(Timer)
  /\ \A w \in SecondStages : SF_vars(SecondStage(w))

-----------------------------------------------------------------------------
(* Properties.                                                             *)

TypeOK ==
  /\ s.cur \in StNames /\ s.currentState \in {"idle", "opened", "started", "stopped"}
  /\ s.gsl \in EngineStates /\ s.restore \in {"none", "idle", "loaded", "active"}
  /\ s.wake \in Nat /\ s.switching \in Nat /\ s.engines \in Nat /\ s.run \subseteq SecondStages
  /\ \A d \in Devices : s.use[d].count \in Nat /\ s.use[d].startStop \in Nat
  /\ queued \in {0, 1}
  /\ mStreamMutex \in Threads \cup {None} /\ mActiveStreamMutex \in Threads \cup {None}

Listening == s.cur \in {"active", "detected", "buffering"}
AllIdle == \A t \in Threads : pc[t] = "idle"

\* Whatever step failed of a load, a start, a switch or a recovery, between two sections
\* a stream that listens on a device has opened, started and registered it once, and any
\* other has it neither started nor registered.  No scenario has a step fail that opens
\* or starts the device or restarts the recognition.
DeviceFollowsState ==
  /\ TypeOK
  /\ mStreamMutex = None =>
       /\ s.registered <=> Listening /\ s.hasDev
       /\ \A d \in Devices :
            /\ s.use[d].startStop = IF Listening /\ s.hasDev THEN 1 ELSE 0
            /\ s.use[d].count = IF s.opened THEN 1 ELSE 0

\* At rest the stream is where the client left it, though the card was lost, the
\* device or the low power mode changed, or other streams stopped it meanwhile, and if
\* it waits for a detection its engine listens: the count of device switches must not
\* hold that back (SoundTriggerEngineGsl::CheckForStartRecognition).
AsAsked ==
  fault = None /\ mStreamMutex = None =>
    /\ AllIdle /\ ~s.paused /\ s.cur # "ssr" =>
         /\ want = "started" => Listening
         /\ want = "loaded" => s.cur = "loaded"
    /\ s.cur = "active" /\ Up /\ s.hasDev => IsEngineActive(s)

\* The vote that keeps the DSP out of low power lasts no longer than the buffering.
NlpiVote == s.nlpi => s.cur = "buffering"

\* From a detection to the end of its handling the system is kept awake, unless
\* rejections are notified (then the lock is released twice) or the device may be
\* switched (that releases it, and DETECTED remains).
AwakeWhileDetected ==
  ~s.notify /\ "device" \notin scenario.Events /\ s.cur \in {"detected", "buffering"}
    => s.wake >= 1

\* When all is handled and the recognition is over no wake lock is left.
SleepsAgain == AllIdle /\ queued = 0 /\ s.cur \in {"idle", "loaded"} => s.wake = 0

\* The wake lock and the vote against low power are held as long as a detection is
\* handled and no longer, though many paths of StBuffering and StDetected end it.
AwakeAsNeeded == NlpiVote /\ AwakeWhileDetected /\ SleepsAgain

\* A paused stream does not listen, whatever comes after the pause.
PausedMeansQuiet == mStreamMutex = None /\ s.paused => ~Listening

\* No detection is reported to a client that has stopped the recognition, or was told
\* that it is aborted, since: SetEngineDetectionState has to look at the state again.
ToldWhenAsked ==
  [][\A t \in Threads : pc[t] \in {"try", "check"} /\ pc'[t] = "callback"
        => want \in {"started", "any"}]_vars

\* The calls of the client and the rounds of the manager end, though close and the
\* loss of the card wait for the threads of the engines with mStreamMutex held.
CallsReturn == \A t \in {"ctl", "rm"} : (pc[t] # "idle") ~> (pc[t] \in {"idle", "closed"})

\* A detection of the first stage is decided: the stream does not wait for a second
\* stage for ever.
VerdictComes == (s.cur = "buffering" /\ s.second) ~> ~(s.cur = "buffering" /\ s.second)

\* A thread that ends a report unlocks a mutex it owns ("to avoid double unlock").
UnlocksOwnMutex ==
  [][\A t \in Threads : pc[t] = "tail" /\ pc'[t] # "tail" /\ ~mutex_unlocked_after_cb_
        => mStreamMutex = t]_vars
=============================================================================

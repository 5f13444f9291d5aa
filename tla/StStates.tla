-------------------------------- MODULE StStates --------------------------------
(***************************************************************************)
(* The states of a sound trigger stream: what StIdle, StLoaded, StActive,  *)
(* StDetected, StBuffering and StSSR do with each event, on one device,    *)
(* with the first stage engine (gsl) and the second stages that check what *)
(* it detected.                                                            *)
(*                                                                         *)
(* A handler maps the stream s, an event and the one step of it that fails *)
(* to the stream after it; ok is the status it returns, note the           *)
(* notification the caller has to make.  An event that a state does not    *)
(* handle changes nothing and succeeds.                                    *)
(***************************************************************************)
EXTENDS Integers, FiniteSets, Device

EngineStates == {"none", "idle", "loaded", "active", "detected", "buffering"}
StNames == {"idle", "loaded", "active", "detected", "buffering", "ssr"}
Stages == {"loadSM", "reload", "config", "engine", "restart", "open", "start",
           "device", "setup", "connect"}   \* the steps that may fail

\* Names are those of the members, but for cur (cur_state_), cfg (rec_config_),
\* model (sm_config_), capture (capture_requested of the config), notify
\* (GetNotifySecondStageFailure: tell the client of a rejection), reader (whether
\* reader_ is enabled or prepared), engines (how often engines_ was filled), run
\* (second stages with processing_started_), stages (the second stages of the model),
\* switching (dev_disconnect_count_),
\* switchStream (device_switch_stream_ is set) and prof (cap_prof_ is that of LPI).
NewStream(capture, notify, stages) ==
  [cur |-> "idle", currentState |-> "idle", paused |-> FALSE, restore |-> "none",
   model |-> FALSE, smCfg |-> FALSE, cfg |-> FALSE, capture |-> capture, notify |-> notify,
   stages |-> stages,
   gsl |-> "none", engines |-> 0, run |-> {}, second |-> FALSE, detection |-> {},
   rejected |-> FALSE, reader |-> FALSE, pending |-> FALSE, stopWaiting |-> FALSE,
   timer |-> "start", nlpi |-> FALSE, wake |-> 0, hasDev |-> FALSE, opened |-> FALSE,
   use |-> NoUse, registered |-> FALSE, switching |-> 0, switchStream |-> FALSE,
   prof |-> TRUE, ok |-> TRUE, note |-> "none"]

Ok(s) == [s EXCEPT !.ok = TRUE]
Bad(s) == [s EXCEPT !.ok = FALSE]
To(s, state) == [s EXCEPT !.cur = state]

Single(s) == s.stages = {} /\ s.engines = 1       \* engines_.size() == 1
IsStarted(s) == s.currentState = "started" \/ s.cur \in {"buffering", "detected"}
IsEngineActive(s) == s.gsl \in {"active", "detected", "buffering"}
InBuffering(s) == /\ s.capture \/ s.stages # {}
                  /\ s.cfg /\ s.cur = "buffering" /\ s.reader

Released(s) == [s EXCEPT !.wake = IF @ > 0 THEN @ - 1 ELSE 0]
Unvoted(s) == [s EXCEPT !.nlpi = FALSE]
CancelDelayedStop(s) == [s EXCEPT !.pending = FALSE, !.stopWaiting = TRUE]
\* The timer thread only hears of it while it waits for one.
PostDelayedStop(s) == [s EXCEPT !.pending = TRUE, !.stopWaiting = FALSE,
                                !.timer = IF @ = "start" THEN "wait" ELSE @]

-----------------------------------------------------------------------------
(* Engines and device.                                                     *)

StopEngines(s) ==
  [s EXCEPT !.gsl = IF IsEngineActive(s) THEN "loaded" ELSE @, !.run = {}]

\* The engine is not started while it waits for a device, nor without a card,
\* and reports neither.
StartEngines(s, up) ==
  [s EXCEPT !.gsl = IF s.switching > 0 THEN @
                    ELSE IF up THEN "active" ELSE IF IsEngineActive(s) THEN "loaded" ELSE @,
            !.run = {}, !.switchStream = IF s.switching > 0 THEN @ ELSE FALSE]

RestartActive(s) == [s EXCEPT !.gsl = IF IsEngineActive(s) THEN "active" ELSE @]

\* RestartRecognition, and StartRecognition when the engine ignores it.
RestartEngines(s, up) ==
  IF IsEngineActive(s) THEN [RestartActive(s) EXCEPT !.run = {}] ELSE StartEngines(s, up)

Registered(s, on) == [s EXCEPT !.registered = IF s.hasDev THEN on ELSE @]
OpenDev(s) == [s EXCEPT !.use = Opened(@, Devices), !.opened = TRUE]
StartDev(s) == [s EXCEPT !.use = Started(@, Devices)]
CloseDev(s) == [s EXCEPT !.use = Closed(@, Devices), !.opened = FALSE]
StopCloseDev(s) ==
  IF s.hasDev THEN [s EXCEPT !.use = Closed(Stopped(@, Devices), Devices), !.opened = FALSE]
              ELSE s
CloseOpenDev(s) == IF s.opened /\ s.hasDev THEN CloseDev(s) ELSE s
UpdateDeviceConfig(s, lpi) ==
  IF s.smCfg THEN [s EXCEPT !.hasDev = TRUE, !.prof = lpi] ELSE s

\* The common part of a stop, a pause, an unload and a new configuration.
StopAll(s) == To(StopCloseDev(StopEngines(Registered(s, FALSE))), "loaded")

\* Mutant of StartFailed: the device stays registered.
StartFailedRegistered(s) == Bad(StopCloseDev(StopEngines(s)))

\* The clean-up after an engine did not start.
StartFailed(s) == Bad(StopCloseDev(Registered(StopEngines(s), FALSE)))

UnloadSoundModel(s) ==
  [CloseOpenDev(s) EXCEPT !.hasDev = FALSE, !.engines = 0, !.gsl = "none", !.run = {},
                          !.reader = FALSE, !.ok = TRUE]

LoadSoundModel(s, f, lpi, up) ==
  LET t == UpdateDeviceConfig([s EXCEPT !.smCfg = TRUE], lpi) IN
  IF f = "loadSM"
    THEN Bad([t EXCEPT !.engines = 0, !.gsl = "none", !.model = FALSE])
    ELSE To(Ok([t EXCEPT !.model = TRUE, !.engines = @ + 1,
                         !.gsl = IF up THEN "loaded" ELSE "idle"]), "loaded")

SendRecognitionConfig(s, f) ==
  IF f = "config" THEN Bad([s EXCEPT !.cfg = FALSE])
                  ELSE Ok([s EXCEPT !.cfg = TRUE, !.reader = FALSE])

\* Mutant of StartRecognition: a paused stream starts.
StartRecognitionPaused(s, f, up) ==
  LET running == Registered(StartDev(IF s.opened THEN s ELSE OpenDev(s)), TRUE)
  IN IF ~s.cfg THEN Bad(s)
               ELSE To(Ok([StartEngines(running, up) EXCEPT !.reader = FALSE]), "active")

\* START in LOADED.
StartRecognition(s, f, up) ==
  LET opened == IF s.hasDev /\ ~s.opened THEN OpenDev(s) ELSE s
      running == Registered(IF s.hasDev THEN StartDev(opened) ELSE s, TRUE)
  IN IF s.paused \/ ~s.cfg THEN Bad(s)
     ELSE CASE s.hasDev /\ ~s.opened /\ f = "open" -> Bad(s)
            [] s.hasDev /\ f = "start" -> Bad(CloseDev(opened))
            [] f = "engine" -> StartFailed(running)
            [] OTHER ->
                 To(Ok([StartEngines(running, up) EXCEPT !.reader = FALSE]), "active")

ResumeInternally(s, f, up) ==
  LET t == [s EXCEPT !.paused = FALSE]
      c == SendRecognitionConfig(t, f)
  IN IF ~IsStarted(s) THEN Ok(t)
     ELSE IF s.cfg THEN (IF c.ok THEN StartRecognition(c, f, up) ELSE c)
     ELSE StartRecognition(t, f, up)

-----------------------------------------------------------------------------
(* Device switch.                                                          *)

\* DEVICE_DISCONNECTED in ACTIVE: the engine goes on.
DisconnectActive(s) ==
  IF ~s.hasDev THEN Ok(s)
  ELSE [StopCloseDev([Registered(s, FALSE) EXCEPT !.switching = @ + 1])
          EXCEPT !.hasDev = FALSE, !.ok = TRUE]

DisconnectLoaded(s) ==
  IF ~s.hasDev THEN Ok(s)
  ELSE [CloseOpenDev([s EXCEPT !.switching = @ + 1]) EXCEPT !.hasDev = FALSE, !.ok = TRUE]

\* DisconnectEvent: the engines are stopped too.
DisconnectEvent(s, switch) ==
  IF ~s.hasDev THEN Ok(s)
  ELSE LET t == Registered(StopEngines(CancelDelayedStop(s)), FALSE)
           d == IF switch
                  THEN [t EXCEPT !.switching = @ + 1,
                                 !.switchStream = @ \/ (s.cur = "buffering" /\ s.second)]
                  ELSE t
       IN [StopCloseDev(d) EXCEPT !.hasDev = FALSE, !.ok = TRUE]

\* Mutant of Connected: the switch is never over for the engine.
ConnectedStillSwitching(s, f, lpi, run) ==
  LET u == UpdateDeviceConfig(s, lpi)
      o == IF u.opened THEN u ELSE OpenDev(u)
      r == IF run THEN StartDev(o) ELSE o
  IN IF s.hasDev THEN Bad(s) ELSE Ok(IF run THEN Registered(r, TRUE) ELSE r)

\* The part the three DEVICE_CONNECTED have in common: the device is set up,
\* opened, started when run says so, and connected to the session.
Connected(s, f, lpi, run) ==
  LET c == UpdateDeviceConfig(s, lpi)
      u == [c EXCEPT !.switching = IF @ > 0 THEN @ - 1 ELSE 0]
      o == IF u.opened THEN u ELSE OpenDev(u)
      r == IF run THEN StartDev(o) ELSE o
  IN IF s.hasDev \/ f = "device" THEN Bad(s)
     ELSE CASE f = "setup" -> Bad([u EXCEPT !.hasDev = FALSE])
            [] f = "open" /\ ~u.opened -> Bad(u)
            [] f = "start" /\ run -> Bad(CloseDev(o))
            [] f = "connect" -> Bad([CloseDev(r) EXCEPT !.hasDev = FALSE])
            [] OTHER -> Ok(IF run THEN Registered(r, TRUE) ELSE r)

\* In LOADED the first stage only starts for a stream that was switched while it
\* buffered.
AfterConnectLoaded(c, f, up, run) ==
  CASE ~c.ok -> c
    [] c.ok /\ f = "engine" -> StartFailed(c)
    [] OTHER -> [IF c.switching = 0 /\ c.switchStream THEN StartEngines(c, up) ELSE c
                   EXCEPT !.reader = FALSE, !.second = FALSE,
                          !.cur = IF run THEN "active" ELSE @]

ConnectLoaded(s, f, lpi, up) ==
  LET run == IsStarted(s) /\ ~s.paused
  IN AfterConnectLoaded(Connected(s, f, lpi, run), f, up, run)

\* ConnectEvent, in DETECTED and BUFFERING.
AfterConnect(c, f, up) ==
  CASE ~c.ok -> c
    [] c.ok /\ c.cur = "buffering" /\ c.second ->
         IF f = "engine" THEN StartFailed(c)
         ELSE To([StartEngines(c, up) EXCEPT !.reader = FALSE, !.second = FALSE], "active")
    [] OTHER -> [c EXCEPT !.reader = FALSE, !.second = @ /\ c.cur = "buffering"]

ConnectEvent(s, f, lpi, up) == AfterConnect(Connected(s, f, lpi, TRUE), f, up)

-----------------------------------------------------------------------------
(* The states.  An unload is in two parts: what the state does before       *)
(* UnloadSoundModel (Stop), and UnloadSoundModel, which waits for threads.  *)

StIdle(s, ev, f, lpi, up) ==
  CASE ev = "load" -> LoadSoundModel(s, f, lpi, up)
    [] ev \in {"pause", "ipause"} -> Ok([s EXCEPT !.paused = TRUE])
    [] ev \in {"resume", "iresume"} -> Ok([s EXCEPT !.paused = FALSE])
    [] ev = "disconnect" -> Ok([s EXCEPT !.hasDev = FALSE])
    [] ev = "connect" -> IF s.hasDev THEN Bad(s) ELSE Ok(UpdateDeviceConfig(s, lpi))
    [] ev = "on" /\ s.model ->
         LET t == UpdateDeviceConfig(s, lpi)
             l == To(Ok([t EXCEPT !.gsl = IF up THEN "loaded" ELSE @]), "loaded")
         IN IF f = "reload" THEN Bad(t)
            ELSE IF IsStarted(l) THEN StartRecognition(l, f, up) ELSE l
    [] OTHER -> Ok(s)

\* CONCURRENT_STREAM, the first half, in LOADED.
Off(s) == To([CloseOpenDev(s) EXCEPT !.hasDev = FALSE, !.gsl = "idle", !.ok = TRUE], "idle")

StLoaded(s, ev, f, lpi, up) ==
  CASE ev = "config" -> SendRecognitionConfig(s, f)
    [] ev = "start" -> StartRecognition(s, f, up)
    [] ev \in {"pause", "ipause"} -> Ok([s EXCEPT !.paused = TRUE])
    [] ev = "resume" -> Ok([s EXCEPT !.paused = FALSE])
    [] ev = "iresume" -> ResumeInternally(s, f, up)
    [] ev = "disconnect" -> DisconnectLoaded(s)
    [] ev = "connect" -> ConnectLoaded(s, f, lpi, up)
    [] ev = "off" -> Off(s)
    [] ev = "on" -> Bad(s)
    [] ev = "detected" -> Ok(StopEngines(s))
    [] OTHER -> Ok(s)

\* The events that stop the recognition, and what is left to do after the stop.
StopEvents == {"pause", "ipause", "stop", "config"}
AfterStop(t, ev, f) ==
  CASE ev = "config" -> SendRecognitionConfig(t, f)
    [] ev = "pause" -> Ok([t EXCEPT !.paused = TRUE, !.note = "abort"])
    [] ev = "ipause" -> Ok([t EXCEPT !.paused = TRUE])
    [] ev = "stop" -> Ok(t)

StActive(s, ev, f, lpi, up) ==
  CASE ev \in StopEvents -> AfterStop(StopAll(s), ev, f)
    [] ev = "detected" ->
         LET t == [s EXCEPT !.second = IF Single(s) THEN @ ELSE TRUE]
             n == [t EXCEPT !.note = IF Single(s) THEN "detection" ELSE "none"]
         IN Ok(IF ~s.capture /\ Single(s) THEN To(n, "detected")
               ELSE To([n EXCEPT !.run = s.stages], "buffering"))
    [] ev = "disconnect" -> DisconnectActive(s)
    [] ev = "connect" -> Connected(s, f, lpi, TRUE)
    [] ev = "off" -> Off(StopAll(s))
    [] ev = "on" -> Bad(s)
    [] OTHER -> Ok(s)

\* START in DETECTED and BUFFERING.
Restart(s, f, up) ==
  LET r == [RestartEngines(CancelDelayedStop(Unvoted(s)), up) EXCEPT !.reader = FALSE]
  IN Released(IF f = "restart" THEN To(Bad([CancelDelayedStop(Unvoted(s)) EXCEPT !.reader = FALSE]), "loaded")
                               ELSE To(Ok(r), "active"))

\* Mutant of AfterDetection: the lock of a detection that is stopped stays.
AfterDetectionAwake(s, ev, f, lpi, up) ==
  LET closed == [s EXCEPT !.reader = FALSE]
      stopped == StopAll(CancelDelayedStop(Unvoted(closed)))
  IN CASE ev = "start" -> Restart(s, f, up)
       [] ev = "pause" -> [AfterStop(stopped, ev, f) EXCEPT !.note = "abortDetection"]
       [] ev \in StopEvents \ {"pause"} -> AfterStop(stopped, ev, f)
       [] OTHER -> Ok(s)

\* The lock of a detection that was aborted is given back after the client knows.
AfterDetection(s, ev, f, lpi, up) ==
  LET closed == [s EXCEPT !.reader = FALSE]
      stopped == StopAll(CancelDelayedStop(Unvoted(closed)))
  IN CASE ev = "start" -> Restart(s, f, up)
       [] ev = "pause" -> [AfterStop(stopped, ev, f) EXCEPT !.note = "abortDetection"]
       [] ev \in StopEvents \ {"pause"} -> Released(AfterStop(stopped, ev, f))
       [] ev = "disconnect" -> Released(DisconnectEvent(Unvoted(closed), TRUE))
       [] ev \in {"off", "on"} ->
            LET loaded == To(DisconnectEvent(Unvoted(closed), FALSE), "loaded")
            IN Released(IF ev = "off" THEN Off(loaded) ELSE Bad(loaded))
       [] OTHER -> Ok(s)

StDetected(s, ev, f, lpi, up) ==
  CASE ev \in {"resume", "iresume"} -> Ok([s EXCEPT !.paused = FALSE])
    [] ev = "connect" -> ConnectEvent(s, f, lpi, up)
    [] OTHER -> AfterDetection(s, ev, f, lpi, up)

\* A second stage rejects: the other one is stopped.
Rejected(s, w, f, up) ==
  LET t == [s EXCEPT !.run = @ \cap {w}, !.second = FALSE, !.detection = {},
                     !.reader = FALSE]
  IN CASE s.rejected -> Ok(s)
       [] ~s.rejected /\ s.notify ->
            Ok([t EXCEPT !.rejected = TRUE, !.note = "rejection"])
       [] ~s.rejected /\ ~s.notify ->
            Released(IF IsEngineActive(t) /\ f # "restart"
                       THEN To(Ok([RestartActive(t) EXCEPT !.run = {}]), "active")
                       ELSE To(Bad(t), "loaded"))

\* Mutant of Accepted: waits for both kinds of second stage, though one may do.
AcceptedByBoth(s, w) ==
  IF s.detection \cup {w} # {"kwd", "user"}
    THEN Ok([s EXCEPT !.detection = @ \cup {w}])
    ELSE Ok([s EXCEPT !.second = FALSE, !.detection = {}, !.note = "detection"])

Accepted(s, w) ==
  LET d == s.detection \cup {w}
      t == [s EXCEPT !.second = FALSE, !.detection = {}, !.note = "detection"]
  IN IF d # s.stages THEN Ok([s EXCEPT !.detection = d])
     ELSE Ok(IF s.capture THEN t ELSE To([t EXCEPT !.reader = FALSE], "detected"))

StBuffering(s, ev, f, lpi, up) ==
  CASE ev = "stopBuffering" -> Ok(PostDelayedStop(Unvoted([s EXCEPT !.reader = FALSE])))
    [] ev = "connect" -> ConnectEvent(s, f, lpi, up)
    [] OTHER -> AfterDetection(s, ev, f, lpi, up)

\* While the card is down only what to restore is kept.
StSSR(s, ev) ==
  CASE ev \in {"start", "stop", "config"} ->
         LET from == IF ev = "stop" THEN "active" ELSE "loaded"
             to == IF ev = "start" THEN "active" ELSE "loaded"
             ready == ev # "start" \/ s.cfg
         IN IF s.restore = from /\ ready
              THEN Ok([s EXCEPT !.restore = to, !.cfg = @ \/ ev = "config"]) ELSE Bad(s)
    [] ev = "load" -> IF s.restore = "idle"
                        THEN Ok([s EXCEPT !.restore = "loaded", !.model = TRUE])
                        ELSE Bad(s)
    [] ev = "unload" -> IF s.restore = "loaded" THEN Ok([s EXCEPT !.restore = "idle"])
                                                ELSE Bad(s)
    [] ev = "pause" -> Ok([s EXCEPT !.paused = TRUE, !.note = "abort"])
    [] ev = "ipause" -> Ok([s EXCEPT !.paused = TRUE])
    [] ev \in {"resume", "iresume"} /\ s.paused ->
         Ok([s EXCEPT !.paused = FALSE,
                      !.restore = IF s.currentState = "started" THEN "active" ELSE @])
    [] OTHER -> Ok(s)

Process(s, ev, f, lpi, up) ==
  CASE s.cur = "idle" -> StIdle(s, ev, f, lpi, up)
    [] s.cur = "loaded" -> StLoaded(s, ev, f, lpi, up)
    [] s.cur = "active" -> StActive(s, ev, f, lpi, up)
    [] s.cur = "detected" -> StDetected(s, ev, f, lpi, up)
    [] s.cur = "buffering" -> StBuffering(s, ev, f, lpi, up)
    [] s.cur = "ssr" -> StSSR(s, ev)

-----------------------------------------------------------------------------
(* Unload and the loss of the card.                                         *)

\* Before UnloadSoundModel: a recognition that runs is stopped.
BeforeUnload(s) ==
  CASE s.cur = "active" -> StopAll(s)
    [] s.cur \in {"detected", "buffering"} ->
         StopAll(CancelDelayedStop(Unvoted([s EXCEPT !.reader = FALSE])))
    [] OTHER -> s

\* After it.  DETECTED and BUFFERING release the lock last.
AfterUnload(s, from) ==
  LET u == To(UnloadSoundModel(s), "idle") IN
  IF from \in {"detected", "buffering"} THEN Released(u) ELSE u

\* Mutant of ToRestore: the state is read after the recognition was stopped.
ToRestoreLate(s) == IF s.cur = "idle" THEN "idle" ELSE "loaded"

ToRestore(s) ==
  IF s.restore # "none" THEN s.restore
  ELSE CASE s.cur = "active" \/ (s.cur = "buffering" /\ s.second) -> "active"
         [] s.cur = "idle" -> "idle"
         [] OTHER -> "loaded"

\* ST_EV_SSR_ONLINE: load, configure and start again, up to the first failure.
Online(s, f, lpi, up) ==
  LET r == IF s.restore # "idle" THEN s.restore
           ELSE CASE s.currentState = "started" -> "active"
                  [] s.currentState \in {"opened", "stopped"} -> "loaded"
                  [] OTHER -> "idle"
      i == To([s EXCEPT !.restore = r], "idle")
      l == LoadSoundModel(i, f, lpi, up)
      c == IF l.cfg THEN SendRecognitionConfig(l, f) ELSE l
      a == StartRecognition(c, f, up)
      end == IF r \notin {"loaded", "active"} THEN Ok(i)
             ELSE IF ~l.ok THEN l ELSE IF ~c.ok THEN c ELSE IF r = "active" THEN a ELSE c
  IN IF ~s.model THEN Ok(To(s, "idle"))
     ELSE IF end.ok THEN [end EXCEPT !.restore = "none"] ELSE end
=============================================================================

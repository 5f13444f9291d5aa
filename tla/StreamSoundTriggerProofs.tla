----------------------- MODULE StreamSoundTriggerProofs -----------------------
(***************************************************************************)
(* A paused sound trigger stream does not listen, the device follows the   *)
(* state, and the system is kept awake for as long as a detection is       *)
(* handled.                                                                *)
(***************************************************************************)
EXTENDS StreamSoundTrigger, DeviceProofs

Fields == {"cur", "currentState", "paused", "restore", "model", "smCfg", "cfg", "capture",
           "notify", "stages", "gsl", "engines", "run", "second", "detection", "rejected",
           "reader", "pending", "stopWaiting", "timer", "nlpi", "wake", "hasDev", "opened",
           "use", "registered", "switching", "switchStream", "prof", "ok", "note"}

\* A stream: a record of the members above, those the proofs speak of of their types.
Typed(x) ==
  /\ x = [a \in Fields |-> x[a]]
  /\ x.cur \in StNames /\ x.currentState \in {"idle", "opened", "started", "stopped"}
  /\ x.restore \in {"none", "idle", "loaded", "active"} /\ x.gsl \in EngineStates
  /\ x.wake \in Nat /\ x.switching \in Nat /\ x.engines \in Nat
  /\ x.run \subseteq x.stages /\ x.use \in UseType
  /\ x.hasDev \in BOOLEAN /\ x.opened \in BOOLEAN /\ x.registered \in BOOLEAN
  /\ x.paused \in BOOLEAN /\ x.notify \in BOOLEAN /\ x.smCfg \in BOOLEAN

\* What y keeps of x: what only detections change, the state, the device.
SameStages(x, y) == y.stages = x.stages /\ y.notify = x.notify /\ y.second = x.second
SameConfig(x, y) == SameStages(x, y) /\ y.model = x.model /\ y.restore = x.restore
Same(x, y) == SameConfig(x, y) /\ y.cur = x.cur /\ y.paused = x.paused /\ y.smCfg = x.smCfg
SameDevice(x, y) ==
  y.hasDev = x.hasDev /\ y.opened = x.opened /\ y.registered = x.registered /\ y.use = x.use

\* The device is closed, open or running.
DevClosed(x) == ~x.opened /\ ~x.registered /\ x.use = UseOf(0, 0)
DevOpen(x) == x.hasDev /\ x.opened /\ ~x.registered /\ x.use = UseOf(1, 0)
DevRuns(x) == x.hasDev /\ x.opened /\ x.registered /\ x.use = UseOf(1, 1)
Dev(x) == DevClosed(x) \/ DevOpen(x) \/ DevRuns(x)
\* It runs and is not registered.
DevEnds(x) == x.hasDev /\ x.opened /\ ~x.registered /\ x.use = UseOf(1, 1)

-----------------------------------------------------------------------------
(* What the helpers change.                                                *)

\* Members that no property here speaks of may change at will.
LEMMA OkBadKeep ==
  ASSUME NEW x, Typed(x), NEW y, y \in {Ok(x), Bad(x)}
  PROVE  Typed(y) /\ Same(x, y) /\ SameDevice(x, y)
BY DEF Ok, Bad, Typed, Fields, Same, SameConfig, SameStages, SameDevice

\* Only the state changes.
LEMMA ToKeeps ==
  ASSUME NEW x, Typed(x), NEW state \in StNames, NEW y, y = To(x, state)
  PROVE  /\ Typed(y) /\ SameConfig(x, y) /\ SameDevice(x, y)
         /\ y.cur = state /\ y.paused = x.paused /\ y.smCfg = x.smCfg
BY DEF To, Typed, Fields, SameConfig, SameStages, SameDevice, StNames

\* Giving a wake lock back touches neither state nor device; nor do the next four.
LEMMA ReleasedKeeps ==
  ASSUME NEW x, Typed(x), NEW y, y = Released(x)
  PROVE  Typed(y) /\ Same(x, y) /\ SameDevice(x, y)
BY DEF Released, Typed, Fields, Same, SameConfig, SameStages, SameDevice

\* The vote against low power is dropped.
LEMMA UnvotedKeeps ==
  ASSUME NEW x, Typed(x), NEW y, y = CancelDelayedStop(Unvoted(x))
  PROVE  Typed(y) /\ Same(x, y) /\ SameDevice(x, y)
BY ZenonT(40)
   DEF CancelDelayedStop, Unvoted, Typed, Fields, Same, SameConfig, SameStages, SameDevice

\* A delayed stop is posted.
LEMMA PostKeeps ==
  ASSUME NEW x, Typed(x), NEW y, y = PostDelayedStop(x)
  PROVE  Typed(y) /\ Same(x, y) /\ SameDevice(x, y)
<1>1. Typed(y)
  BY ZenonT(40) DEF PostDelayedStop, Typed, Fields
<1>2. Same(x, y) /\ SameDevice(x, y)
  BY DEF PostDelayedStop, Typed, Fields, Same, SameConfig, SameStages, SameDevice
<1>. QED  BY <1>1, <1>2

\* The reader is reset.
LEMMA ReaderKeeps ==
  ASSUME NEW x, Typed(x), NEW y, NEW b, y = [x EXCEPT !.reader = b]
  PROVE  Typed(y) /\ Same(x, y) /\ SameDevice(x, y)
BY DEF Typed, Fields, Same, SameConfig, SameStages, SameDevice

\* Stopping, starting and restarting the engines touches neither state nor device.
LEMMA EnginesKeep ==
  ASSUME NEW x, Typed(x), NEW up, NEW y,
         y \in {StopEngines(x), StartEngines(x, up), RestartActive(x)}
  PROVE  Typed(y) /\ Same(x, y) /\ SameDevice(x, y)
<1>1. CASE y = StopEngines(x)
  BY ZenonT(40), <1>1
     DEF StopEngines, IsEngineActive, Typed, Fields, EngineStates, Same, SameConfig,
              SameStages, SameDevice
<1>2. CASE y = StartEngines(x, up)
  <2>1. Typed(y)
    <3>1. y = [a \in Fields |-> y[a]]
      BY <1>2 DEF StartEngines, Typed
    <3>2. y.gsl \in EngineStates /\ y.run \subseteq y.stages
      BY <1>2 DEF StartEngines, IsEngineActive, Typed, Fields, EngineStates
    <3>. QED  BY <1>2, <3>1, <3>2 DEF StartEngines, Typed, Fields
  <2>2. Same(x, y) /\ SameDevice(x, y)
    BY <1>2 DEF StartEngines, Typed, Fields, Same, SameConfig, SameStages, SameDevice
  <2>. QED  BY <2>1, <2>2
<1>3. CASE y = RestartActive(x)
  BY <1>3 DEF RestartActive, IsEngineActive, Typed, Fields, EngineStates, Same, SameConfig,
              SameStages, SameDevice
<1>. QED  BY <1>1, <1>2, <1>3

\* A stream with a device is registered on it or no longer is.
LEMMA RegisteredKeeps ==
  ASSUME NEW x, Typed(x), NEW on \in BOOLEAN, NEW y, y = Registered(x, on)
  PROVE  /\ Typed(y) /\ Same(x, y)
         /\ y.hasDev = x.hasDev /\ y.opened = x.opened /\ y.use = x.use
         /\ y.registered = IF x.hasDev THEN on ELSE x.registered
BY DEF Registered, Typed, Fields, Same, SameConfig, SameStages

\* What one call to the device does, by its counters.
LEMMA OpenDevKeeps ==
  ASSUME NEW x, Typed(x), NEW y, y = OpenDev(x)
  PROVE  /\ Typed(y) /\ Same(x, y)
         /\ y.hasDev = x.hasDev /\ y.opened = TRUE /\ y.registered = x.registered
         /\ y.use = Opened(x.use, Devices)
BY ZenonT(40), OpenedStartedTyped DEF OpenDev, Typed, Fields, Same, SameConfig, SameStages

\* A start.
LEMMA StartDevKeeps ==
  ASSUME NEW x, Typed(x), NEW y, y = StartDev(x)
  PROVE  /\ Typed(y) /\ Same(x, y)
         /\ y.hasDev = x.hasDev /\ y.opened = x.opened /\ y.registered = x.registered
         /\ y.use = Started(x.use, Devices)
BY OpenedStartedTyped DEF StartDev, Typed, Fields, Same, SameConfig, SameStages

\* A close.
LEMMA CloseDevKeeps ==
  ASSUME NEW x, Typed(x), NEW y, y = CloseDev(x)
  PROVE  /\ Typed(y) /\ Same(x, y)
         /\ y.hasDev = x.hasDev /\ y.opened = FALSE /\ y.registered = x.registered
         /\ y.use = Closed(x.use, Devices)
BY ZenonT(40), ClosedStoppedTyped DEF CloseDev, Typed, Fields, Same, SameConfig, SameStages

\* A stop with a close.
LEMMA StopCloseDevKeeps ==
  ASSUME NEW x, Typed(x), NEW y, y = StopCloseDev(x)
  PROVE  /\ Typed(y) /\ Same(x, y)
         /\ y.hasDev = x.hasDev /\ y.registered = x.registered
         /\ y.opened = (x.opened /\ ~x.hasDev)
         /\ y.use = IF x.hasDev THEN Closed(Stopped(x.use, Devices), Devices) ELSE x.use
BY ZenonT(40), ClosedStoppedTyped DEF StopCloseDev, Typed, Fields, Same, SameConfig, SameStages

\* The stream gets or loses its device.
LEMMA HasDevKeeps ==
  ASSUME NEW x, Typed(x), NEW y, y = [x EXCEPT !.hasDev = FALSE]
  PROVE  /\ Typed(y) /\ Same(x, y) /\ ~y.hasDev
         /\ y.opened = x.opened /\ y.registered = x.registered /\ y.use = x.use
BY DEF Typed, Fields, Same, SameConfig, SameStages

\* UpdateDeviceConfig sets the device up only for a model.
LEMMA UpdateKeeps ==
  ASSUME NEW x, Typed(x), NEW lpi, NEW y, y = UpdateDeviceConfig(x, lpi)
  PROVE  /\ Typed(y) /\ Same(x, y) /\ y.hasDev = (x.hasDev \/ x.smCfg)
         /\ y.opened = x.opened /\ y.registered = x.registered /\ y.use = x.use
BY ZenonT(40) DEF UpdateDeviceConfig, Typed, Fields, Same, SameConfig, SameStages
-----------------------------------------------------------------------------
(* Steps of the device, whatever else they do to the stream.                *)

\* The same calls, by what the device is before and after: closed, open or running.
LEMMA OpenStep ==
  ASSUME NEW x, Typed(x), x.hasDev, DevClosed(x), NEW y, y = OpenDev(x)
  PROVE  Typed(y) /\ Same(x, y) /\ DevOpen(y)
BY OpenDevKeeps, UseOfSteps DEF DevClosed, DevOpen

\* An open device is started and registered.
LEMMA RunStep ==
  ASSUME NEW x, Typed(x), DevOpen(x), NEW y, y = Registered(StartDev(x), TRUE)
  PROVE  Typed(y) /\ Same(x, y) /\ DevRuns(y)
<1>1. PICK z : z = StartDev(x)
  OBVIOUS
<1>2. /\ Typed(z) /\ Same(x, z) /\ z.hasDev /\ z.opened /\ z.use = UseOf(1, 1)
  BY <1>1, StartDevKeeps, UseOfSteps DEF DevOpen
<1>3. y = Registered(z, TRUE)
  BY <1>1
<1>. QED  BY ZenonT(40), <1>2, <1>3, RegisteredKeeps DEF Same, SameConfig, SameStages, DevRuns

\* An open or running device is closed.
LEMMA CloseStep ==
  ASSUME NEW x, Typed(x), DevOpen(x), NEW y, y = CloseDev(x)
  PROVE  Typed(y) /\ Same(x, y) /\ y.hasDev /\ DevClosed(y)
BY CloseDevKeeps, UseOfSteps DEF DevOpen, DevClosed

\* A device is closed if it is open.
LEMMA CloseOpenStep ==
  ASSUME NEW x, Typed(x), NEW y, y = CloseOpenDev(x)
  PROVE  /\ Typed(y) /\ Same(x, y) /\ y.hasDev = x.hasDev
         /\ DevOpen(x) \/ DevClosed(x) => DevClosed(y)
<1>1. CASE x.opened /\ x.hasDev
  <2>1. y = CloseDev(x)
    BY <1>1 DEF CloseOpenDev
  <2>. QED  BY <2>1, <1>1, CloseDevKeeps, UseOfSteps DEF DevOpen, DevClosed
<1>2. CASE ~(x.opened /\ x.hasDev)
  BY <1>2 DEF CloseOpenDev, Same, SameConfig, SameStages, DevOpen, DevClosed
<1>. QED  BY <1>1, <1>2

\* The device is no longer registered when it is stopped and closed.
LEMMA StopCloseStep ==
  ASSUME NEW x, Typed(x), NEW y, y = StopCloseDev(x)
  PROVE  /\ Typed(y) /\ Same(x, y) /\ y.hasDev = x.hasDev
         /\ DevClosed(x) \/ DevOpen(x) \/ DevEnds(x) => DevClosed(y)
<1>1. CASE x.hasDev
  BY ZenonT(40), <1>1, StopCloseDevKeeps, UseOfSteps DEF DevClosed, DevOpen, DevEnds
<1>2. CASE ~x.hasDev
  BY <1>2, StopCloseDevKeeps DEF DevClosed, DevOpen, DevEnds
<1>. QED  BY <1>1, <1>2

\* After the common part of a stop, pause or unload the device is closed.
LEMMA StopAllKeeps ==
  ASSUME NEW x, Typed(x), NEW y, y = StopAll(x)
  PROVE  /\ Typed(y) /\ SameConfig(x, y) /\ y.cur = "loaded" /\ y.hasDev = x.hasDev
         /\ y.paused = x.paused /\ y.smCfg = x.smCfg
         /\ Dev(x) => DevClosed(y)
<1>1. PICK a, b, c : a = Registered(x, FALSE) /\ b = StopEngines(a) /\ c = StopCloseDev(b)
  OBVIOUS
<1>2. /\ Typed(a) /\ Same(x, a)
      /\ a.hasDev = x.hasDev /\ a.opened = x.opened /\ a.use = x.use
      /\ a.registered = IF x.hasDev THEN FALSE ELSE x.registered
  BY <1>1, RegisteredKeeps
<1>3. Typed(b) /\ Same(a, b) /\ SameDevice(a, b)
  BY <1>1, <1>2, EnginesKeep
<1>4. Typed(c) /\ Same(b, c) /\ c.hasDev = b.hasDev /\ (Dev(x) => DevClosed(c))
  <2>1. Dev(x) => DevClosed(b) \/ DevOpen(b) \/ DevEnds(b)
    BY <1>2, <1>3 DEF Dev, DevClosed, DevOpen, DevRuns, DevEnds, SameDevice
  <2>. QED  BY <2>1, <1>1, <1>3, StopCloseStep
<1>5. y = To(c, "loaded") /\ "loaded" \in StNames
  BY <1>1 DEF StopAll, StNames
<1>6. /\ Typed(y) /\ SameConfig(c, y) /\ SameDevice(c, y)
      /\ y.cur = "loaded" /\ y.paused = c.paused /\ y.smCfg = c.smCfg
  BY <1>4, <1>5, ToKeeps
<1>. QED  BY <1>2, <1>3, <1>4, <1>6 DEF Same, SameConfig, SameStages, SameDevice, DevClosed

\* After the engine did not start the device is closed again.
LEMMA StartFailedKeeps ==
  ASSUME NEW x, Typed(x), NEW y, y = StartFailed(x)
  PROVE  /\ Typed(y) /\ Same(x, y) /\ y.hasDev = x.hasDev
         /\ Dev(x) => DevClosed(y)
<1>1. PICK a, b, c : a = StopEngines(x) /\ b = Registered(a, FALSE) /\ c = StopCloseDev(b)
  OBVIOUS
<1>2. Typed(a) /\ Same(x, a) /\ SameDevice(x, a)
  BY <1>1, EnginesKeep
<1>3. /\ Typed(b) /\ Same(a, b)
      /\ b.hasDev = a.hasDev /\ b.opened = a.opened /\ b.use = a.use
      /\ b.registered = IF a.hasDev THEN FALSE ELSE a.registered
  BY <1>1, <1>2, RegisteredKeeps
<1>4. Typed(c) /\ Same(b, c) /\ c.hasDev = b.hasDev /\ (Dev(x) => DevClosed(c))
  <2>1. Dev(x) => DevClosed(b) \/ DevOpen(b) \/ DevEnds(b)
    BY <1>2, <1>3 DEF Dev, DevClosed, DevOpen, DevRuns, DevEnds, SameDevice
  <2>. QED  BY <2>1, <1>1, <1>3, StopCloseStep
<1>5. y = Bad(c)
  BY <1>1 DEF StartFailed
<1>6. Typed(y) /\ Same(c, y) /\ SameDevice(c, y)
  BY <1>4, <1>5, OkBadKeep
<1>. QED  BY <1>2, <1>3, <1>4, <1>6 DEF Same, SameConfig, SameStages, SameDevice, DevClosed

\* CONCURRENT_STREAM gives the device up (StLoaded).
LEMMA OffKeeps ==
  ASSUME NEW x, Typed(x), NEW y, y = Off(x)
  PROVE  /\ Typed(y) /\ SameConfig(x, y) /\ y.cur = "idle" /\ ~y.hasDev
         /\ y.paused = x.paused /\ y.smCfg = x.smCfg
         /\ DevOpen(x) \/ DevClosed(x) => DevClosed(y)
<1>1. PICK a : a = CloseOpenDev(x)
  OBVIOUS
<1>2. /\ Typed(a) /\ Same(x, a) /\ (DevOpen(x) \/ DevClosed(x) => DevClosed(a))
  BY <1>1, CloseOpenStep
<1>3. y = [a EXCEPT !.hasDev = FALSE, !.gsl = "idle", !.ok = TRUE, !.cur = "idle"]
  BY <1>1 DEF Off, To
<1>4. Typed(y)
  <2>1. y = [f \in Fields |-> y[f]]
    BY <1>2, <1>3 DEF Typed
  <2>2. y.cur \in StNames /\ y.gsl \in EngineStates /\ y.hasDev \in BOOLEAN
    BY <1>2, <1>3 DEF Typed, Fields, StNames, EngineStates
  <2>. QED  BY ZenonT(40), <1>2, <1>3, <2>1, <2>2 DEF Typed, Fields
<1>5. /\ y.cur = "idle" /\ ~y.hasDev /\ y.paused = a.paused /\ SameConfig(a, y) /\ y.smCfg = a.smCfg
      /\ y.opened = a.opened /\ y.registered = a.registered /\ y.use = a.use
  BY ZenonT(40), <1>2, <1>3 DEF Typed, Fields, SameConfig, SameStages
<1>. QED  BY <1>2, <1>4, <1>5 DEF Same, SameConfig, SameStages, DevClosed
-----------------------------------------------------------------------------
(* Load, configure, start.                                                 *)

\* A configuration touches neither state nor device.
LEMMA SendConfigKeeps ==
  ASSUME NEW x, Typed(x), NEW f, NEW y, y = SendRecognitionConfig(x, f)
  PROVE  Typed(y) /\ Same(x, y) /\ SameDevice(x, y)
BY ZenonT(40)
   DEF SendRecognitionConfig, Ok, Bad, Typed, Fields, Same, SameConfig, SameStages, SameDevice

\* A model is loaded, or not; the device is only set up.
LEMMA LoadKeeps ==
  ASSUME NEW x, Typed(x), NEW f, NEW lpi, NEW up, NEW y, y = LoadSoundModel(x, f, lpi, up)
  PROVE  /\ Typed(y) /\ SameStages(x, y) /\ y.cur \in {x.cur, "loaded"}
         /\ y.ok => y.cur = "loaded"
         /\ y.paused = x.paused /\ y.smCfg
         /\ DevClosed(x) => DevClosed(y)
<1>1. PICK a, b : a = [x EXCEPT !.smCfg = TRUE] /\ b = UpdateDeviceConfig(a, lpi)
  OBVIOUS
<1>2. /\ Typed(a) /\ SameStages(x, a) /\ SameDevice(x, a)
      /\ a.cur = x.cur /\ a.paused = x.paused /\ a.smCfg
  BY <1>1 DEF Typed, Fields, SameStages, SameDevice
<1>3. /\ Typed(b) /\ Same(a, b)
      /\ b.opened = a.opened /\ b.registered = a.registered /\ b.use = a.use
  <2>1. b = UpdateDeviceConfig(a, lpi)
    BY <1>1
  <2>. QED  BY <1>2, <2>1, UpdateKeeps
<1>4. CASE f = "loadSM"
  <2>1. PICK c : c = [b EXCEPT !.engines = 0, !.gsl = "none", !.model = FALSE]
    OBVIOUS
  <2>2. /\ Typed(c) /\ SameStages(b, c) /\ SameDevice(b, c) /\ c.cur = b.cur /\ c.paused = b.paused
        /\ c.smCfg = b.smCfg
    BY ZenonT(40), <1>3, <2>1 DEF Typed, Fields, EngineStates, Same, SameStages, SameDevice
  <2>3. y = Bad(c)
    BY <1>1, <1>4, <2>1 DEF LoadSoundModel
  <2>4. Typed(y) /\ Same(c, y) /\ SameDevice(c, y)
    BY <2>2, <2>3, OkBadKeep
  <2>5. ~y.ok
    BY <2>2, <2>3 DEF Bad, Typed, Fields
  <2>. QED  BY <1>2, <1>3, <2>2, <2>4, <2>5
               DEF Same, SameConfig, SameStages, SameDevice, DevClosed
<1>5. CASE f # "loadSM"
  <2>1. PICK c : c = [b EXCEPT !.model = TRUE, !.engines = @ + 1,
                               !.gsl = IF up THEN "loaded" ELSE "idle"]
    OBVIOUS
  <2>2. /\ Typed(c) /\ SameStages(b, c) /\ SameDevice(b, c) /\ c.cur = b.cur /\ c.paused = b.paused
        /\ c.smCfg = b.smCfg
    <3>1. c.engines \in Nat /\ c.gsl \in EngineStates
      BY <1>3, <2>1 DEF Typed, Fields, EngineStates
    <3>2. c = [f_1 \in Fields |-> c[f_1]]
      BY <1>3, <2>1 DEF Typed
    <3>. QED  BY <1>3, <2>1, <3>1, <3>2 DEF Typed, Fields, Same, SameStages, SameDevice
  <2>3. PICK d : d = Ok(c)
    OBVIOUS
  <2>4. Typed(d) /\ Same(c, d) /\ SameDevice(c, d)
    BY <2>2, <2>3, OkBadKeep
  <2>5. y = To(d, "loaded") /\ "loaded" \in StNames
    BY <1>1, <1>5, <2>1, <2>3 DEF LoadSoundModel, StNames
  <2>6. /\ Typed(y) /\ SameConfig(d, y) /\ SameDevice(d, y)
        /\ y.cur = "loaded" /\ y.paused = d.paused /\ y.smCfg = d.smCfg
    BY <2>4, <2>5, ToKeeps
  <2>. QED  BY <1>2, <1>3, <2>2, <2>4, <2>6
               DEF Same, SameConfig, SameStages, SameDevice, DevClosed
<1>. QED  BY <1>4, <1>5

\* A start ends in ACTIVE with the device running, or changes neither state nor use.
LEMMA StartRecognitionKeeps ==
  ASSUME NEW x, Typed(x), NEW f, NEW up, NEW y, y = StartRecognition(x, f, up)
  PROVE  /\ Typed(y) /\ SameConfig(x, y) /\ y.paused = x.paused /\ y.smCfg = x.smCfg
         /\ \/ y.cur = x.cur /\ (DevOpen(x) \/ DevClosed(x) => DevOpen(y) \/ DevClosed(y))
            \/ /\ y.cur = "active" /\ ~x.paused
               /\ DevOpen(x) \/ DevClosed(x)
                    => IF y.hasDev THEN DevRuns(y) ELSE DevClosed(y)
<1> DEFINE o == IF x.hasDev /\ ~x.opened THEN OpenDev(x) ELSE x
           r == Registered(IF x.hasDev THEN StartDev(o) ELSE x, TRUE)
<1>1. \/ y = Bad(x)
      \/ y = Bad(CloseDev(o)) /\ x.hasDev
      \/ y = StartFailed(r)
      \/ /\ y = To(Ok([StartEngines(r, up) EXCEPT !.reader = FALSE]), "active")
         /\ ~(x.paused \/ ~x.cfg)
  BY DEF StartRecognition
<1>3. /\ Typed(o) /\ Same(x, o)
      /\ (DevOpen(x) \/ DevClosed(x)) /\ x.hasDev => DevOpen(o)
  <2>1. CASE x.hasDev /\ ~x.opened
    BY <2>1, OpenStep, OpenDevKeeps DEF DevOpen
  <2>2. CASE ~(x.hasDev /\ ~x.opened)
    BY <2>2 DEF Same, SameConfig, SameStages, DevOpen, DevClosed
  <2>. QED  BY <2>1, <2>2
<1>4. /\ Typed(r) /\ Same(x, r)
      /\ (DevOpen(x) \/ DevClosed(x)) => IF r.hasDev THEN DevRuns(r) ELSE DevClosed(r)
  <2>1. CASE x.hasDev
    <3>1. r = Registered(StartDev(o), TRUE)
      BY <2>1
    <3>2. PICK z : z = StartDev(o)
      OBVIOUS
    <3>3. Typed(z) /\ Same(o, z)
      BY <3>2, <1>3, StartDevKeeps
    <3>4. Typed(r) /\ Same(z, r)
      BY <3>1, <3>2, <3>3, RegisteredKeeps
    <3>5. DevOpen(x) \/ DevClosed(x) => DevRuns(r)
      BY <1>3, <2>1, <3>1, RunStep
    <3>. QED  BY <1>3, <3>3, <3>4, <3>5 DEF Same, SameConfig, SameStages, DevRuns
  <2>2. CASE ~x.hasDev
    <3>1. r = Registered(x, TRUE)
      BY <2>2
    <3>. QED  BY ZenonT(40), <3>1, <2>2, RegisteredKeeps DEF DevOpen, DevClosed
  <2>. QED  BY <2>1, <2>2
<1>. HIDE DEF o, r
<1>5. CASE y = Bad(x)
  BY <1>5, OkBadKeep DEF Same, SameConfig, SameStages, SameDevice, DevOpen, DevClosed
<1>6. CASE y = Bad(CloseDev(o)) /\ x.hasDev
  <2>1. PICK z : z = CloseDev(o)
    OBVIOUS
  <2>2. Typed(z) /\ Same(o, z) /\ (DevOpen(x) \/ DevClosed(x) => DevClosed(z))
    BY <1>3, <1>6, <2>1, CloseDevKeeps, CloseStep
  <2>3. Typed(y) /\ Same(z, y) /\ SameDevice(z, y)
    BY <1>6, <2>1, <2>2, OkBadKeep
  <2>. QED  BY <1>3, <2>2, <2>3 DEF Same, SameConfig, SameStages, SameDevice, DevClosed
<1>7. CASE y = StartFailed(r)
  <2>1. Typed(y) /\ Same(r, y) /\ (Dev(r) => DevClosed(y))
    BY <1>4, <1>7, StartFailedKeeps
  <2>. QED  BY <1>4, <2>1 DEF Same, SameConfig, SameStages, Dev
<1>8. CASE /\ y = To(Ok([StartEngines(r, up) EXCEPT !.reader = FALSE]), "active")
           /\ ~(x.paused \/ ~x.cfg)
  <2>1. PICK a, b, c : /\ a = StartEngines(r, up) /\ b = [a EXCEPT !.reader = FALSE]
                       /\ c = Ok(b)
    OBVIOUS
  <2>2. Typed(a) /\ Same(r, a) /\ SameDevice(r, a)
    BY <1>4, <2>1, EnginesKeep
  <2>3. Typed(b) /\ Same(a, b) /\ SameDevice(a, b)
    BY <2>1, <2>2, ReaderKeeps
  <2>4. Typed(c) /\ Same(b, c) /\ SameDevice(b, c)
    BY <2>1, <2>3, OkBadKeep
  <2>5. /\ Typed(y) /\ SameConfig(c, y) /\ SameDevice(c, y)
        /\ y.cur = "active" /\ y.paused = c.paused /\ y.smCfg = c.smCfg
    <3>1. y = To(c, "active") /\ "active" \in StNames
      BY <1>8, <2>1 DEF StNames
    <3>. QED  BY <3>1, <2>4, ToKeeps
  <2>. QED  BY <1>4, <1>8, <2>2, <2>3, <2>4, <2>5
            DEF Same, SameConfig, SameStages, SameDevice, DevRuns, DevClosed
<1>. QED  BY <1>1, <1>5, <1>6, <1>7, <1>8

-----------------------------------------------------------------------------
(* Disconnect and connect.                                                 *)

\* Setting the device up again ends with the device open, or running when it has to,
\* or fails and leaves it closed; after a failed open or start it stays assigned.
LEMMA ConnectedKeeps ==
  ASSUME NEW x, Typed(x), NEW f, NEW lpi, NEW run \in BOOLEAN,
         NEW y, y = Connected(x, f, lpi, run)
  PROVE  /\ Typed(y) /\ Same(x, y)
         /\ Dev(x) /\ x.smCfg =>
              \/ ~y.ok /\ SameDevice(x, y)
              \/ ~y.ok /\ DevClosed(y) /\ (y.hasDev => f \in {"open", "start"})
              \/ y.ok /\ ~x.hasDev /\ IF run THEN DevRuns(y) ELSE DevOpen(y)
<1> DEFINE c == UpdateDeviceConfig(x, lpi)
           u == [c EXCEPT !.switching = IF @ > 0 THEN @ - 1 ELSE 0]
           o == IF u.opened THEN u ELSE OpenDev(u)
           r == IF run THEN StartDev(o) ELSE o
           q == CloseDev(r)
           closed == CloseDev(o)
           set == IF run THEN Registered(r, TRUE) ELSE r
<1>1. \/ y = Bad(x)
      \/ ~x.hasDev /\ y = Bad([u EXCEPT !.hasDev = FALSE])
      \/ ~x.hasDev /\ f = "open" /\ y = Bad(u) /\ ~u.opened
      \/ ~x.hasDev /\ f = "start" /\ y = Bad(closed)
      \/ ~x.hasDev /\ y = Bad([q EXCEPT !.hasDev = FALSE])
      \/ ~x.hasDev /\ y = Ok(set)
  BY DEF Connected
<1>2. /\ Typed(c) /\ Same(x, c) /\ c.hasDev = (x.hasDev \/ x.smCfg)
      /\ c.opened = x.opened /\ c.registered = x.registered /\ c.use = x.use
  BY UpdateKeeps
<1> HIDE DEF c
<1>3. Typed(u) /\ Same(c, u) /\ SameDevice(c, u)
  <2>1. Typed(u)
    BY <1>2 DEF Typed, Fields
  <2>2. Same(c, u) /\ SameDevice(c, u)
    BY <1>2 DEF Typed, Fields, Same, SameConfig, SameStages, SameDevice
  <2>. QED  BY <2>1, <2>2
<1> HIDE DEF u
<1>4. ~x.hasDev /\ Dev(x) /\ x.smCfg => u.hasDev /\ DevClosed(u)
  BY <1>2, <1>3 DEF Dev, DevClosed, DevOpen, DevRuns, SameDevice
<1>5. Typed(o) /\ Same(u, o) /\ (DevClosed(u) /\ u.hasDev => DevOpen(o))
  BY <1>3, OpenDevKeeps, OpenStep DEF Same, SameConfig, SameStages, DevClosed
<1> HIDE DEF o
<1>6. /\ Typed(r) /\ Same(o, r)
      /\ DevOpen(o) => IF run THEN DevEnds(r) ELSE DevOpen(r)
  BY <1>5, StartDevKeeps, UseOfSteps DEF Same, SameConfig, SameStages, DevOpen, DevEnds
<1>7. /\ Typed(set) /\ Same(r, set)
      /\ DevOpen(o) => IF run THEN DevRuns(set) ELSE DevOpen(set)
  <2>1. CASE run
    <3>1. set = Registered(r, TRUE)
      BY <2>1
    <3> HIDE DEF r, set
    <3>. QED  BY <1>6, <2>1, <3>1, RegisteredKeeps DEF DevEnds, DevRuns
  <2>2. CASE ~run
    <3>1. set = r
      BY <2>2
    <3> HIDE DEF r, set
    <3>. QED  BY <1>6, <2>2, <3>1 DEF Same, SameConfig, SameStages
  <2>. QED  BY <2>1, <2>2
<1> HIDE DEF r, set
<1>8. Typed(q) /\ Same(r, q) /\ (DevOpen(o) => DevClosed(q))
  BY ZenonT(40), <1>6, CloseDevKeeps, UseOfSteps DEF DevOpen, DevEnds, DevClosed
<1>9. Typed(closed) /\ Same(o, closed) /\ (DevOpen(o) => DevClosed(closed))
  BY <1>5, CloseDevKeeps, CloseStep
<1> HIDE DEF q, closed
<1>a. CASE y = Bad(x)
  <2>1. ~y.ok
    BY <1>a DEF Bad, Typed, Fields
  <2>. QED  BY <1>a, <2>1, OkBadKeep
<1>b. CASE ~x.hasDev /\ y = Bad([u EXCEPT !.hasDev = FALSE])
  <2>1. PICK z : z = [u EXCEPT !.hasDev = FALSE]
    OBVIOUS
  <2>2. Typed(z) /\ Same(u, z) /\ ~z.hasDev /\ (DevClosed(u) => DevClosed(z))
    BY <1>3, <2>1, HasDevKeeps DEF DevClosed
  <2>3. y = Bad(z)
    BY <1>b, <2>1
  <2>4. Typed(y) /\ Same(z, y) /\ SameDevice(z, y)
    BY <2>2, <2>3, OkBadKeep
  <2>5. ~y.ok
    BY <2>2, <2>3 DEF Bad, Typed, Fields
  <2>. QED  BY <1>b, <1>2, <1>3, <1>4, <2>2, <2>4, <2>5
            DEF Same, SameConfig, SameStages, SameDevice, DevClosed
<1>c. CASE ~x.hasDev /\ f = "open" /\ y = Bad(u)
  <2>1. Typed(y) /\ Same(u, y) /\ SameDevice(u, y) /\ ~y.ok
    <3>1. Typed(y) /\ Same(u, y) /\ SameDevice(u, y)
      BY <1>c, <1>3, OkBadKeep
    <3>2. Typed(u) /\ ~y.ok
      BY <1>c, <1>3 DEF Bad, Typed, Fields
    <3>. QED  BY <3>1, <3>2
  <2>. QED  BY <1>c, <1>2, <1>3, <1>4, <2>1
               DEF Same, SameConfig, SameStages, SameDevice, DevClosed
<1>d. CASE ~x.hasDev /\ f = "start" /\ y = Bad(closed)
  <2>1. Typed(y) /\ Same(closed, y) /\ SameDevice(closed, y) /\ ~y.ok
    BY SMTT(20), <1>d, <1>9, OkBadKeep DEF Bad, Typed, Fields
  <2>. QED  BY <1>d, <1>2, <1>3, <1>4, <1>5, <1>9, <2>1
            DEF Same, SameConfig, SameStages, SameDevice, DevClosed
<1>e. CASE ~x.hasDev /\ y = Bad([q EXCEPT !.hasDev = FALSE])
  <2>1. PICK z : z = [q EXCEPT !.hasDev = FALSE]
    OBVIOUS
  <2>2. Typed(z) /\ Same(q, z) /\ ~z.hasDev /\ (DevClosed(q) => DevClosed(z))
    BY <1>8, <2>1, HasDevKeeps DEF DevClosed
  <2>3. y = Bad(z)
    BY <1>e, <2>1
  <2>4. Typed(y) /\ Same(z, y) /\ SameDevice(z, y)
    BY <2>2, <2>3, OkBadKeep
  <2>5. ~y.ok
    BY <2>2, <2>3 DEF Bad, Typed, Fields
  <2>. QED  BY <1>e, <1>2, <1>3, <1>4, <1>5, <1>6, <1>8, <2>2, <2>4, <2>5
            DEF Same, SameConfig, SameStages, SameDevice, DevClosed
<1>f. CASE ~x.hasDev /\ y = Ok(set)
  <2>1. Typed(y) /\ Same(set, y) /\ SameDevice(set, y) /\ y.ok
    <3>1. Typed(y) /\ Same(set, y) /\ SameDevice(set, y)
      BY <1>f, <1>7, OkBadKeep
    <3>2. Typed(set) /\ y.ok
      BY <1>f, <1>7 DEF Ok, Typed, Fields
    <3>. QED  BY <3>1, <3>2
  <2>. QED  BY <1>f, <1>2, <1>3, <1>4, <1>5, <1>6, <1>7, <2>1
            DEF Same, SameConfig, SameStages, SameDevice, DevRuns, DevOpen
<1>. QED  BY <1>1, <1>a, <1>b, <1>c, <1>d, <1>e, <1>f

\* A disconnected stream has no device.
LEMMA DisconnectKeeps ==
  ASSUME NEW x, Typed(x), NEW switch \in BOOLEAN, NEW y,
         \/ y = DisconnectActive(x)
         \/ y = DisconnectEvent(x, switch)
  PROVE  Typed(y) /\ Same(x, y) /\ ~y.hasDev /\ (Dev(x) => DevClosed(y))
<1>1. CASE ~x.hasDev
  <2>1. y = Ok(x)
    BY <1>1 DEF DisconnectActive, DisconnectEvent
  <2>. QED  BY <1>1, <2>1, OkBadKeep DEF SameDevice, Dev, DevClosed, DevOpen, DevRuns
<1>2. CASE x.hasDev
  <2>1. ASSUME NEW z, Typed(z), Same(x, z), Dev(x) => DevClosed(z),
               y = [z EXCEPT !.hasDev = FALSE, !.ok = TRUE]
        PROVE  Typed(y) /\ Same(x, y) /\ ~y.hasDev /\ (Dev(x) => DevClosed(y))
    <3>1. PICK w : w = [z EXCEPT !.hasDev = FALSE]
      OBVIOUS
    <3>2. /\ Typed(w) /\ Same(z, w) /\ ~w.hasDev
          /\ w.opened = z.opened /\ w.registered = z.registered /\ w.use = z.use
      BY <2>1, <3>1, HasDevKeeps
    <3>3. y = Ok(w)
      BY <2>1, <3>1 DEF Ok
    <3>4. Typed(y) /\ Same(w, y) /\ SameDevice(w, y)
      BY <3>2, <3>3, OkBadKeep
    <3>. QED  BY <2>1, <3>2, <3>4 DEF Same, SameConfig, SameStages, SameDevice, DevClosed
  <2>2. ASSUME NEW z, Typed(z), Same(x, z),
               z.hasDev = x.hasDev /\ z.opened = x.opened /\ ~z.registered /\ z.use = x.use,
               NEW n \in Nat, NEW m, NEW w,
               \/ w = [z EXCEPT !.switching = n]
               \/ w = [z EXCEPT !.switching = n, !.switchStream = m]
               \/ w = z,
               y = [StopCloseDev(w) EXCEPT !.hasDev = FALSE, !.ok = TRUE]
        PROVE  Typed(y) /\ Same(x, y) /\ ~y.hasDev /\ (Dev(x) => DevClosed(y))
    <3>1. Typed(w) /\ Same(z, w) /\ SameDevice(z, w)
      <4>1. CASE w = [z EXCEPT !.switching = n]
        BY <2>2, <4>1 DEF Typed, Fields, Same, SameConfig, SameStages, SameDevice
      <4>2. CASE w = [z EXCEPT !.switching = n, !.switchStream = m]
        BY ZenonT(40), <2>2, <4>2 DEF Typed, Fields, Same, SameConfig, SameStages, SameDevice
      <4>3. CASE w = z
        BY <2>2, <4>3 DEF Same, SameConfig, SameStages, SameDevice
      <4>. QED  BY <2>2, <4>1, <4>2, <4>3
    <3>2. Dev(x) => DevClosed(w) \/ DevOpen(w) \/ DevEnds(w)
      BY <2>2, <3>1 DEF Dev, DevClosed, DevOpen, DevRuns, DevEnds, SameDevice
    <3>3. PICK v : v = StopCloseDev(w)
      OBVIOUS
    <3>4. Typed(v) /\ Same(w, v) /\ (Dev(x) => DevClosed(v))
      BY <3>1, <3>2, <3>3, StopCloseStep
    <3>. QED  BY <2>1, <2>2, <3>1, <3>3, <3>4 DEF Same, SameConfig, SameStages
  <2>3. CASE y = DisconnectActive(x)
    <3>1. PICK z : z = Registered(x, FALSE)
      OBVIOUS
    <3>2. /\ Typed(z) /\ Same(x, z) /\ z.hasDev = x.hasDev /\ z.opened = x.opened
          /\ ~z.registered /\ z.use = x.use
      BY <1>2, <3>1, RegisteredKeeps
    <3>3. PICK w : w = [z EXCEPT !.switching = z.switching + 1]
      OBVIOUS
    <3>4. y = [StopCloseDev(w) EXCEPT !.hasDev = FALSE, !.ok = TRUE]
      BY <1>2, <2>3, <3>1, <3>3 DEF DisconnectActive
    <3>5. z.switching + 1 \in Nat
      BY <3>2 DEF Typed
    <3>. QED  BY <2>2, <3>2, <3>3, <3>4, <3>5
  <2>5. CASE y = DisconnectEvent(x, switch)
    <3>1. PICK a, b, z : /\ a = [x EXCEPT !.pending = FALSE, !.stopWaiting = TRUE]
                         /\ b = StopEngines(a) /\ z = Registered(b, FALSE)
      OBVIOUS
    <3>2. Typed(a) /\ Same(x, a) /\ SameDevice(x, a)
      BY ZenonT(40), <3>1 DEF Typed, Fields, Same, SameConfig, SameStages, SameDevice
    <3>3. Typed(b) /\ Same(a, b) /\ SameDevice(a, b)
      BY <3>1, <3>2, EnginesKeep
    <3>9. /\ Typed(z) /\ Same(b, z) /\ z.hasDev = b.hasDev /\ z.opened = b.opened
          /\ z.use = b.use /\ z.registered = IF b.hasDev THEN FALSE ELSE b.registered
      BY ZenonT(40), <3>1, <3>3, RegisteredKeeps
    <3>4. /\ Typed(z) /\ Same(x, z) /\ z.hasDev = x.hasDev /\ z.opened = x.opened
          /\ ~z.registered /\ z.use = x.use
      BY <1>2, <3>2, <3>3, <3>9 DEF Same, SameConfig, SameStages, SameDevice
    <3>5. PICK m : m = (z.switchStream \/ (x.cur = "buffering" /\ x.second))
      OBVIOUS
    <3>6. PICK w : w = IF switch
                         THEN [z EXCEPT !.switching = z.switching + 1, !.switchStream = m]
                         ELSE z
      OBVIOUS
    <3>7. y = [StopCloseDev(w) EXCEPT !.hasDev = FALSE, !.ok = TRUE]
      BY <1>2, <2>5, <3>1, <3>5, <3>6 DEF DisconnectEvent, CancelDelayedStop
    <3>8. z.switching + 1 \in Nat
      BY <3>4 DEF Typed
    <3>. QED  BY <2>2, <3>4, <3>6, <3>7, <3>8
  <2>. QED  BY <2>3, <2>5
<1>. QED  BY <1>1, <1>2 DEF Typed

\* In LOADED only an open device is closed.
LEMMA DisconnectLoadedKeeps ==
  ASSUME NEW x, Typed(x), NEW y, y = DisconnectLoaded(x)
  PROVE  /\ Typed(y) /\ Same(x, y) /\ ~y.hasDev
         /\ DevOpen(x) \/ DevClosed(x) => DevClosed(y)
<1>1. CASE ~x.hasDev
  <2>1. y = Ok(x)
    BY <1>1 DEF DisconnectLoaded
  <2>. QED  BY <1>1, <2>1, OkBadKeep DEF SameDevice, DevClosed, DevOpen
<1>2. CASE x.hasDev
  <2>1. PICK w, v, u : /\ w = [x EXCEPT !.switching = @ + 1] /\ v = CloseOpenDev(w)
                       /\ u = [v EXCEPT !.hasDev = FALSE]
    OBVIOUS
  <2>2. Typed(w) /\ Same(x, w) /\ SameDevice(x, w)
    BY <2>1 DEF Typed, Fields, Same, SameConfig, SameStages, SameDevice
  <2>3. Typed(v) /\ Same(w, v) /\ (DevOpen(w) \/ DevClosed(w) => DevClosed(v))
    BY <2>1, <2>2, CloseOpenStep
  <2>4. /\ Typed(u) /\ Same(v, u) /\ ~u.hasDev
        /\ u.opened = v.opened /\ u.registered = v.registered /\ u.use = v.use
    BY <2>1, <2>3, HasDevKeeps
  <2>5. y = Ok(u)
    BY <1>2, <2>1 DEF DisconnectLoaded, Ok
  <2>6. Typed(y) /\ Same(u, y) /\ SameDevice(u, y)
    BY <2>4, <2>5, OkBadKeep
  <2>. QED  BY <2>2, <2>3, <2>4, <2>6
               DEF Same, SameConfig, SameStages, SameDevice, DevClosed, DevOpen
<1>. QED  BY <1>1, <1>2 DEF Typed

-----------------------------------------------------------------------------
(* What each event keeps.                                                  *)

Running == {"active", "detected", "buffering"}
Resting == {"idle", "ssr"}

\* A paused stream does not listen.
Quiet(x) == x.paused => x.cur \notin Running
\* No model was loaded yet, or only while the card was down, to be loaded later.
Unset(x) ==
  x.cur \in Resting /\ (x.model => x.cur = "ssr" /\ x.restore \in {"loaded", "active"})
\* The device is closed in IDLE and while the card is down, it runs only while the stream
\* listens, and a device that is set up is set up for the model.
Tied(x) ==
  /\ Dev(x) /\ (x.cur \in Resting => DevClosed(x)) /\ (DevRuns(x) => x.cur \in Running)
  /\ x.smCfg \/ Unset(x)
\* It does run while the stream listens on it.
Follows(x) == x.cur \in Running /\ x.hasDev => DevRuns(x)

\* The failures after which a stream listens on a device that was not started.
Lossy(x, f) == f \in {"open", "start", "restart"} \/ (f = "engine" /\ x.second)

Keeps(x, f, y) ==
  /\ Typed(y) /\ y.stages = x.stages /\ y.notify = x.notify
  /\ Quiet(x) => Quiet(y)
  /\ Tied(x) /\ f # "restart" => Tied(y)
  /\ Tied(x) /\ Follows(x) /\ ~Lossy(x, f) => Follows(y)

\* What no property speaks of may change before and after.
LEMMA KeepsSame ==
  ASSUME NEW x, NEW f, NEW y, Typed(y), Same(x, y), SameDevice(x, y)
  PROVE  Keeps(x, f, y)
BY
   DEF Keeps, Same, SameConfig, SameStages, SameDevice, Quiet, Tied, Unset, Follows, Dev,
       DevClosed, DevOpen,
       DevRuns

\* After: something no property speaks of.
LEMMA KeepsThen ==
  ASSUME NEW x, NEW f, NEW y, NEW z, Keeps(x, f, y), Typed(z), Same(y, z), SameDevice(y, z)
  PROVE  Keeps(x, f, z)
BY
   DEF Keeps, Same, SameConfig, SameStages, SameDevice, Quiet, Tied, Unset, Follows, Dev,
       DevClosed, DevOpen,
       DevRuns

\* Before: something no property speaks of.
LEMMA KeepsAfter ==
  ASSUME NEW x, NEW f, NEW y, NEW z, Same(x, y), SameDevice(x, y), Keeps(y, f, z)
  PROVE  Keeps(x, f, z)
<1>1. Quiet(x) = Quiet(y) /\ Follows(x) = Follows(y) /\ Tied(x) = Tied(y)
  BY
     DEF Same, SameConfig, SameDevice, Quiet, Follows, Tied, Unset, Dev, DevClosed, DevOpen,
         DevRuns
<1>2. Lossy(x, f) = Lossy(y, f)
  BY DEF Same, SameConfig, SameStages, Lossy
<1>. QED  BY <1>1, <1>2 DEF Keeps, Same, SameConfig, SameStages

\* A stream that no longer listens keeps all when its device is closed.
LEMMA KeepsClosed ==
  ASSUME NEW x, NEW f, NEW y, Typed(y), SameStages(x, y), y.cur \notin Running,
         Tied(x) => DevClosed(y) /\ (y.smCfg \/ Unset(y))
  PROVE  Keeps(x, f, y)
BY DEF Keeps, SameStages, Quiet, Tied, Follows, Dev, DevClosed, DevRuns

\* A recognition is stopped.
LEMMA StopAllStep ==
  ASSUME NEW x, Typed(x), x.cur \notin Resting, NEW f, NEW y, y = StopAll(x)
  PROVE  Keeps(x, f, y)
BY StopAllKeeps, KeepsClosed DEF Running, Resting, Tied, Unset, SameConfig

\* A recognition is started in LOADED; a paused stream refuses.
LEMMA StartRecognitionStep ==
  ASSUME NEW x, Typed(x), x.cur \notin Running, x.cur = "loaded", NEW f, NEW up, NEW y,
         y = StartRecognition(x, f, up)
  PROVE  Keeps(x, f, y)
<1>1. /\ Typed(y) /\ SameConfig(x, y) /\ y.paused = x.paused /\ y.smCfg = x.smCfg
      /\ \/ y.cur = x.cur /\ (DevOpen(x) \/ DevClosed(x) => DevOpen(y) \/ DevClosed(y))
         \/ /\ y.cur = "active" /\ ~x.paused
            /\ DevOpen(x) \/ DevClosed(x)
                 => IF y.hasDev THEN DevRuns(y) ELSE DevClosed(y)
  BY StartRecognitionKeeps
<1>2. Tied(x) => DevOpen(x) \/ DevClosed(x)
  BY DEF Tied, Unset, Dev, Running
<1>. QED  BY <1>1, <1>2
             DEF Keeps, SameConfig, SameStages, Quiet, Tied, Unset, Follows, Dev, DevOpen,
                 DevRuns,
                            DevClosed, Running, Resting

\* A device is disconnected.
LEMMA DisconnectStep ==
  ASSUME NEW x, Typed(x), NEW f, NEW switch \in BOOLEAN, NEW y,
         \/ y = DisconnectActive(x)
         \/ y = DisconnectLoaded(x) /\ x.cur \notin Running
         \/ y = DisconnectEvent(x, switch)
  PROVE  Keeps(x, f, y)
<1>1. Typed(y) /\ Same(x, y) /\ ~y.hasDev /\ (Tied(x) => DevClosed(y))
  <2>1. CASE y = DisconnectActive(x) \/ y = DisconnectEvent(x, switch)
    BY <2>1, DisconnectKeeps DEF Tied
  <2>2. CASE y = DisconnectLoaded(x) /\ x.cur \notin Running
    BY <2>2, DisconnectLoadedKeeps DEF Tied, Dev
  <2>. QED  BY <2>1, <2>2
<1>. QED  BY <1>1 DEF Keeps, Same, SameConfig, SameStages, Quiet, Tied, Unset, Follows, Dev,
                      DevRuns, DevClosed

\* A device is connected while the stream listens.
LEMMA ConnectedStep ==
  ASSUME NEW x, Typed(x), x.cur \in Running, NEW f, NEW lpi, NEW y,
         y = Connected(x, f, lpi, TRUE)
  PROVE  /\ Keeps(x, f, y) /\ Same(x, y)
         /\ Tied(x) /\ y.ok => DevRuns(y)
<1>1. /\ Typed(y) /\ Same(x, y)
      /\ Dev(x) /\ x.smCfg =>
              \/ ~y.ok /\ SameDevice(x, y)
              \/ ~y.ok /\ DevClosed(y) /\ (y.hasDev => f \in {"open", "start"})
              \/ y.ok /\ ~x.hasDev /\ DevRuns(y)
  BY ConnectedKeeps
<1>2. Tied(x) => Dev(x) /\ x.smCfg
  BY DEF Tied, Unset, Running, Resting
<1>3. Tied(x) => Dev(y)
  BY <1>1, <1>2 DEF SameDevice, Dev, DevClosed, DevOpen, DevRuns
<1>4. Tied(x) => Tied(y)
  BY <1>1, <1>2, <1>3 DEF Tied, Same, Running, Resting
<1>5. Tied(x) /\ Follows(x) /\ ~Lossy(x, f) => Follows(y)
  BY <1>1, <1>2 DEF Follows, Lossy, Same, SameDevice, DevRuns
<1>. QED  BY <1>1, <1>2, <1>4, <1>5 DEF Keeps, Same, SameConfig, SameStages, Quiet

\* DEVICE_CONNECTED in DETECTED and BUFFERING.
LEMMA ConnectEventStep ==
  ASSUME NEW x, Typed(x), x.cur \in Running, NEW f, NEW lpi, NEW up, NEW y,
         y = ConnectEvent(x, f, lpi, up)
  PROVE  Keeps(x, f, y)
<1>1. PICK c : c = Connected(x, f, lpi, TRUE)
  OBVIOUS
<1>2. Keeps(x, f, c) /\ Same(x, c) /\ (Tied(x) /\ c.ok => DevRuns(c))
  BY <1>1, ConnectedStep
<1>3. Typed(c) /\ y = AfterConnect(c, f, up)
  BY <1>1, <1>2 DEF ConnectEvent, Keeps
<1>4. CASE ~c.ok
  <2>1. y = c
    BY <1>3, <1>4 DEF AfterConnect
  <2>. QED  BY <1>2, <2>1
<1>5. CASE c.ok /\ c.cur = "buffering" /\ c.second /\ f = "engine"
  <2>1. Typed(y) /\ Same(c, y) /\ (Dev(c) => DevClosed(y))
    BY <1>3, <1>5, StartFailedKeeps DEF AfterConnect
  <2>2. Lossy(x, f)
    BY <1>2, <1>5 DEF Lossy, Same, SameConfig, SameStages
  <2>3. Tied(x) => Tied(y)
    BY <1>2, <2>1, <1>5 DEF Tied, Dev, DevRuns, Same, DevClosed, Unset, Resting
  <2>. QED  BY <1>2, <2>1, <2>2, <2>3 DEF Keeps, Same, SameConfig, SameStages, Quiet
<1>6. CASE c.ok /\ c.cur = "buffering" /\ c.second /\ f # "engine"
  <2>1. PICK a, b : /\ a = StartEngines(c, up)
                    /\ b = [a EXCEPT !.reader = FALSE, !.second = FALSE]
    OBVIOUS
  <2>2. Typed(a) /\ Same(c, a) /\ SameDevice(c, a)
    BY <1>3, <2>1, EnginesKeep
  <2>3. /\ Typed(b) /\ SameDevice(a, b) /\ b.paused = a.paused /\ b.smCfg = a.smCfg
        /\ b.stages = a.stages /\ b.notify = a.notify
    BY ZenonT(40), <2>1, <2>2 DEF Typed, Fields, SameDevice
  <2>4. y = To(b, "active") /\ "active" \in StNames
    BY <1>3, <1>6, <2>1 DEF AfterConnect, StNames
  <2>5. /\ Typed(y) /\ SameConfig(b, y) /\ SameDevice(b, y)
        /\ y.cur = "active" /\ y.paused = b.paused /\ y.smCfg = b.smCfg
    BY <2>3, <2>4, ToKeeps
  <2>6. /\ y.stages = x.stages /\ y.notify = x.notify /\ y.paused = x.paused
        /\ y.smCfg = x.smCfg /\ x.cur = "buffering"
    BY <1>2, <1>6, <2>2, <2>3, <2>5 DEF Same, SameConfig, SameStages
  <2>7. Tied(x) => DevRuns(y)
    BY <1>2, <1>6, <2>2, <2>3, <2>5 DEF SameDevice, DevRuns
  <2>. QED  BY <2>5, <2>6, <2>7 DEF Keeps, Quiet, Tied, Unset, Follows, Dev, Running, Resting
<1>7. CASE c.ok /\ ~(c.cur = "buffering" /\ c.second)
  <2>1. PICK a : a = (c.second /\ c.cur = "buffering")
    OBVIOUS
  <2>2. y = [c EXCEPT !.reader = FALSE, !.second = a]
    BY <1>3, <1>7, <2>1, Zenon DEF AfterConnect
  <2>3. Typed(y)
    BY ZenonT(40), <1>3, <2>2 DEF Typed, Fields
  <2>4. /\ SameDevice(c, y) /\ y.paused = c.paused /\ y.smCfg = c.smCfg /\ y.cur = c.cur
        /\ y.stages = c.stages /\ y.notify = c.notify /\ y.model = c.model
    BY ZenonT(40), <1>3, <2>2 DEF Typed, Fields, SameDevice
  <2>5. Tied(x) => DevRuns(y)
    BY <1>2, <1>7, <2>4 DEF SameDevice, DevRuns
  <2>. QED  BY <1>2, <2>3, <2>4, <2>5 DEF Keeps, Quiet, Tied, Unset, Follows, Dev, Same,
                                          SameConfig, SameStages, Running, Resting
<1>. QED  BY <1>4, <1>5, <1>6, <1>7

\* DEVICE_CONNECTED in LOADED.
LEMMA ConnectLoadedStep ==
  ASSUME NEW x, Typed(x), x.cur = "loaded", NEW f, NEW lpi, NEW up, NEW y,
         y = ConnectLoaded(x, f, lpi, up)
  PROVE  Keeps(x, f, y)
<1>1. PICK run \in BOOLEAN : run = (IsStarted(x) /\ ~x.paused)
  OBVIOUS
<1>2. PICK c : c = Connected(x, f, lpi, run)
  OBVIOUS
<1>3. y = AfterConnectLoaded(c, f, up, run)
  BY <1>1, <1>2, Zenon DEF ConnectLoaded
<1>4. /\ Typed(c) /\ Same(x, c)
      /\ Dev(x) /\ x.smCfg =>
           \/ ~c.ok /\ SameDevice(x, c)
           \/ ~c.ok /\ DevClosed(c) /\ (c.hasDev => f \in {"open", "start"})
           \/ c.ok /\ ~x.hasDev /\ IF run THEN DevRuns(c) ELSE DevOpen(c)
  BY <1>2, ConnectedKeeps
<1>5. Tied(x) => Dev(x) /\ x.smCfg /\ ~DevRuns(x)
  BY DEF Tied, Unset, Running, Resting
<1>6. CASE ~c.ok
  <2>1. y = c
    BY <1>3, <1>6 DEF AfterConnectLoaded
  <2>2. Tied(x) => Dev(c) /\ ~DevRuns(c)
    BY <1>4, <1>5, <1>6 DEF SameDevice, Dev, DevClosed, DevOpen, DevRuns
  <2>. QED  BY <1>4, <1>5, <2>1, <2>2 DEF Keeps, Same, SameConfig, SameStages, Quiet, Tied,
                                          Follows, Running, Resting
<1>7. CASE c.ok /\ f = "engine"
  <2>1. Typed(y) /\ Same(c, y) /\ (Dev(c) => DevClosed(y))
    BY <1>3, <1>4, <1>7, StartFailedKeeps DEF AfterConnectLoaded
  <2>2. Tied(x) => DevClosed(y) /\ y.smCfg
    BY <1>4, <1>5, <1>7, <2>1 DEF Same, Dev
  <2>3. SameStages(x, y) /\ y.cur \notin Running
    BY <1>4, <2>1 DEF Same, SameConfig, SameStages, Running
  <2>. QED  BY <2>1, <2>2, <2>3, KeepsClosed
<1>8. CASE c.ok /\ f # "engine"
  <2>1. PICK a : a = IF c.switching = 0 /\ c.switchStream THEN StartEngines(c, up) ELSE c
    OBVIOUS
  <2>2. Typed(a) /\ Same(c, a) /\ SameDevice(c, a)
    <3>1. CASE a = StartEngines(c, up)
      BY <1>4, <3>1, EnginesKeep
    <3>2. CASE a = c
      BY <1>4, <3>2 DEF Same, SameConfig, SameStages, SameDevice
    <3>. QED  BY <2>1, <3>1, <3>2
  <2>3. y = [a EXCEPT !.reader = FALSE, !.second = FALSE,
                      !.cur = IF run THEN "active" ELSE @]
    BY <1>3, <1>8, <2>1 DEF AfterConnectLoaded
  <2>4. y.cur = IF run THEN "active" ELSE "loaded"
    <3>1. a.cur = "loaded"
      BY <1>4, <2>2 DEF Same
    <3>. QED  BY <2>2, <2>3, <3>1 DEF Typed, Fields
  <2>5. /\ SameDevice(a, y) /\ y.paused = a.paused /\ y.smCfg = a.smCfg
        /\ y.stages = a.stages /\ y.notify = a.notify
    BY ZenonT(40), <2>2, <2>3 DEF Typed, Fields, SameDevice
  <2>6. Typed(y)
    <3>1. y = [g \in Fields |-> y[g]]
      BY <2>2, <2>3 DEF Typed
    <3>. QED  BY ZenonT(40), <2>2, <2>3, <2>4, <3>1 DEF Typed, Fields, StNames
  <2>7. Tied(x) => y.smCfg /\ IF run THEN DevRuns(y) ELSE DevOpen(y)
    BY <1>4, <1>5, <1>8, <2>2, <2>5 DEF Same, SameDevice, DevRuns, DevOpen
  <2>8. run => ~y.paused
    BY <1>1, <1>4, <2>2, <2>5 DEF Same
  <2>9. y.stages = x.stages /\ y.notify = x.notify
    BY <1>4, <2>2, <2>5 DEF Same, SameConfig, SameStages
  <2>. QED  BY <2>4, <2>6, <2>7, <2>8, <2>9
            DEF Keeps, Quiet, Tied, Unset, Follows, Dev, DevOpen, DevRuns, Running, Resting
<1>. QED  BY <1>6, <1>7, <1>8

\* START in DETECTED and BUFFERING: the engine alone is restarted.
LEMMA RestartStep ==
  ASSUME NEW x, Typed(x), x.cur \in Running, NEW f, NEW up, NEW y, y = Restart(x, f, up)
  PROVE  Keeps(x, f, y)
<1>1. PICK a : a = CancelDelayedStop(Unvoted(x))
  OBVIOUS
<1>2. Typed(a) /\ Same(x, a) /\ SameDevice(x, a)
  BY <1>1, UnvotedKeeps
<1>3. CASE f = "restart"
  <2>1. PICK b, c, d : b = [a EXCEPT !.reader = FALSE] /\ c = Bad(b) /\ d = To(c, "loaded")
    OBVIOUS
  <2>2. Typed(b) /\ Same(a, b)
    BY <1>2, <2>1, ReaderKeeps
  <2>3. Typed(c) /\ Same(b, c)
    BY <2>1, <2>2, OkBadKeep
  <2>4. Typed(d) /\ SameConfig(c, d) /\ d.cur = "loaded"
    BY <2>1, <2>3, ToKeeps DEF StNames
  <2>5. y = Released(d)
    BY <1>1, <1>3, <2>1 DEF Restart
  <2>6. Typed(y) /\ Same(d, y)
    BY <2>4, <2>5, ReleasedKeeps
  <2>. QED  BY <1>2, <1>3, <2>2, <2>3, <2>4, <2>6
            DEF Keeps, Same, SameConfig, SameStages, Quiet, Lossy, Running
<1>4. CASE f # "restart"
  <2>1. PICK r, b, c, d : /\ r = RestartEngines(a, up) /\ b = [r EXCEPT !.reader = FALSE]
                          /\ c = Ok(b) /\ d = To(c, "active")
    OBVIOUS
  <2>2. Typed(r) /\ Same(a, r) /\ SameDevice(a, r)
    <3>1. CASE IsEngineActive(a)
      <4>1. PICK e : e = RestartActive(a)
        OBVIOUS
      <4>2. Typed(e) /\ Same(a, e) /\ SameDevice(a, e)
        BY <1>2, <4>1, EnginesKeep
      <4>3. r = [e EXCEPT !.run = {}]
        BY <2>1, <3>1, <4>1 DEF RestartEngines
      <4>4. Typed(r)
        BY <4>2, <4>3 DEF Typed, Fields
      <4>5. Same(e, r) /\ SameDevice(e, r)
        BY <4>2, <4>3 DEF Typed, Fields, Same, SameConfig, SameStages, SameDevice
      <4>. QED  BY <4>2, <4>4, <4>5 DEF Same, SameConfig, SameStages, SameDevice
    <3>2. CASE ~IsEngineActive(a)
      BY <1>2, <2>1, <3>2, EnginesKeep DEF RestartEngines
    <3>. QED  BY <3>1, <3>2
  <2>3. Typed(b) /\ Same(r, b) /\ SameDevice(r, b)
    BY <2>1, <2>2, ReaderKeeps
  <2>4. Typed(c) /\ Same(b, c) /\ SameDevice(b, c)
    BY <2>1, <2>3, OkBadKeep
  <2>5. /\ Typed(d) /\ SameConfig(c, d) /\ SameDevice(c, d)
        /\ d.cur = "active" /\ d.paused = c.paused /\ d.smCfg = c.smCfg
    BY <2>1, <2>4, ToKeeps DEF StNames
  <2>6. y = Released(d)
    BY <1>1, <1>4, <2>1 DEF Restart
  <2>7. Typed(y) /\ Same(d, y) /\ SameDevice(d, y)
    BY <2>5, <2>6, ReleasedKeeps
  <2>8. /\ SameConfig(x, y) /\ SameDevice(x, y) /\ y.cur = "active" /\ y.paused = x.paused
        /\ y.smCfg = x.smCfg
    BY <1>2, <2>2, <2>3, <2>4, <2>5, <2>7 DEF Same, SameConfig, SameStages, SameDevice
  <2>. QED  BY <2>7, <2>8 DEF Keeps, SameConfig, SameStages, SameDevice, Quiet, Tied, Unset,
            Follows, Dev, DevClosed, DevOpen, DevRuns, Running, Resting
<1>. QED  BY <1>3, <1>4

\* What is left to do after the recognition was stopped.
LEMMA AfterStopStep ==
  ASSUME NEW x, Typed(x), x.cur \notin Resting, NEW t, Typed(t), SameConfig(x, t),
         t.cur = "loaded", t.smCfg = x.smCfg, Tied(x) => DevClosed(t),
         NEW ev \in StopEvents, NEW f, NEW y, y = AfterStop(t, ev, f)
  PROVE  Keeps(x, f, y)
<1>1. /\ Typed(y) /\ SameConfig(t, y) /\ SameDevice(t, y) /\ y.cur = "loaded"
      /\ y.smCfg = t.smCfg
  <2>1. CASE ev = "config"
    <3>1. Typed(y) /\ Same(t, y) /\ SameDevice(t, y)
      BY <2>1, SendConfigKeeps DEF AfterStop
    <3>. QED  BY <3>1 DEF Same
  <2>2. CASE ev \in {"pause", "ipause"}
    <3>1. PICK a : /\ y = Ok(a)
                   /\ \/ a = [t EXCEPT !.paused = TRUE, !.note = "abort"]
                      \/ a = [t EXCEPT !.paused = TRUE]
      BY <2>2 DEF AfterStop
    <3>2. Typed(a)
      <4>1. CASE a = [t EXCEPT !.paused = TRUE, !.note = "abort"]
        BY ZenonT(40), <4>1 DEF Typed, Fields
      <4>2. CASE a = [t EXCEPT !.paused = TRUE]
        BY <4>2 DEF Typed, Fields
      <4>. QED  BY <3>1, <4>1, <4>2
    <3>3. SameConfig(t, a) /\ SameDevice(t, a) /\ a.cur = "loaded" /\ a.smCfg = t.smCfg
      <4>1. CASE a = [t EXCEPT !.paused = TRUE, !.note = "abort"]
        BY <4>1 DEF Typed, Fields, SameConfig, SameStages, SameDevice
      <4>2. CASE a = [t EXCEPT !.paused = TRUE]
        BY <4>2 DEF Typed, Fields, SameConfig, SameStages, SameDevice
      <4>. QED  BY <3>1, <4>1, <4>2
    <3>4. Typed(y) /\ Same(a, y) /\ SameDevice(a, y)
      BY <3>1, <3>2, OkBadKeep
    <3>. QED  BY <3>3, <3>4 DEF Same, SameConfig, SameStages, SameDevice
  <2>3. CASE ev = "stop"
    <3>1. Typed(y) /\ Same(t, y) /\ SameDevice(t, y)
      BY <2>3, OkBadKeep DEF AfterStop
    <3>. QED  BY <3>1 DEF Same
  <2>. QED  BY <2>1, <2>2, <2>3 DEF StopEvents
<1>2. Tied(x) => DevClosed(y) /\ y.smCfg
  BY <1>1 DEF SameDevice, DevClosed, Tied, Unset
<1>3. SameStages(x, y) /\ y.cur \notin Running
  BY <1>1 DEF SameConfig, SameStages, Running
<1>. QED  BY <1>1, <1>2, <1>3, KeepsClosed

\* One step of a handler after another.
LEMMA KeepsTrans ==
  ASSUME NEW x, NEW f, NEW y, NEW z, Keeps(x, f, y), y.second = x.second, Keeps(y, f, z)
  PROVE  Keeps(x, f, z)
<1>1. Lossy(x, f) = Lossy(y, f)
  BY DEF Lossy
<1>2. f # "restart" \/ Lossy(x, f)
  BY DEF Lossy
<1>. QED  BY <1>1, <1>2 DEF Keeps

\* A stream that does not listen may be paused, and any may be resumed.
LEMMA PausedStep ==
  ASSUME NEW x, Typed(x), NEW f, NEW b \in BOOLEAN, ~b \/ x.cur \notin Running, NEW y,
         y = [x EXCEPT !.paused = b]
  PROVE  /\ Keeps(x, f, y) /\ SameConfig(x, y) /\ SameDevice(x, y) /\ y.cur = x.cur
         /\ y.paused = b /\ y.smCfg = x.smCfg
<1>1. Typed(y)
  BY DEF Typed, Fields
<1>2. /\ SameConfig(x, y) /\ SameDevice(x, y) /\ y.cur = x.cur /\ y.paused = b
      /\ y.smCfg = x.smCfg
  BY DEF Typed, Fields, SameConfig, SameStages, SameDevice
<1>. QED  BY <1>1, <1>2 DEF Keeps, SameConfig, SameStages, SameDevice, Quiet, Tied, Unset,
                            Follows, Dev, DevClosed, DevOpen, DevRuns

\* The internal resume, which starts a stream that was started.
LEMMA ResumeInternallyStep ==
  ASSUME NEW x, Typed(x), x.cur = "loaded", NEW f, NEW up, NEW y,
         y = ResumeInternally(x, f, up)
  PROVE  Keeps(x, f, y)
<1>1. PICK t, c : t = [x EXCEPT !.paused = FALSE] /\ c = SendRecognitionConfig(t, f)
  OBVIOUS
<1>2. /\ Keeps(x, f, t) /\ Typed(t) /\ t.cur = "loaded" /\ t.second = x.second
  BY <1>1, PausedStep DEF Keeps, SameConfig, SameStages
<1>3. Typed(c) /\ Same(t, c) /\ SameDevice(t, c)
  BY <1>1, <1>2, SendConfigKeeps
<1>4. Keeps(x, f, c) /\ c.cur = "loaded" /\ c.second = x.second
  BY <1>2, <1>3, KeepsThen DEF Same, SameConfig, SameStages
<1>5. CASE y = Ok(t)
  <2>1. Typed(y) /\ Same(t, y) /\ SameDevice(t, y)
    BY <1>2, <1>5, OkBadKeep
  <2>. QED  BY <1>2, <2>1, KeepsThen
<1>6. CASE y = c
  BY <1>4, <1>6
<1>7. CASE y = StartRecognition(c, f, up)
  <2>1. Keeps(c, f, y)
    BY <1>3, <1>4, <1>7, StartRecognitionStep DEF Running
  <2>. QED  BY <1>4, <2>1, KeepsTrans
<1>8. CASE y = StartRecognition(t, f, up)
  <2>1. Keeps(t, f, y)
    BY <1>2, <1>8, StartRecognitionStep DEF Running
  <2>. QED  BY <1>2, <2>1, KeepsTrans
<1>. QED  BY <1>1, <1>5, <1>6, <1>7, <1>8 DEF ResumeInternally

-----------------------------------------------------------------------------
(* The states.                                                             *)

\* Every event but a detection in ACTIVE leaves second as it is or resets it; those that
\* stop the recognition, or switch the device, in DETECTED and BUFFERING.
LEMMA AfterDetectionStep ==
  ASSUME NEW x, Typed(x), x.cur \in Running, NEW ev, NEW f, NEW lpi, NEW up,
         NEW y, y = AfterDetection(x, ev, f, lpi, up)
  PROVE  Keeps(x, f, y)
<1>1. PICK closed, u, st :
        /\ closed = [x EXCEPT !.reader = FALSE]
        /\ u = CancelDelayedStop(Unvoted(closed)) /\ st = StopAll(u)
  OBVIOUS
<1>2. Typed(closed) /\ Same(x, closed) /\ SameDevice(x, closed)
  BY <1>1, ReaderKeeps
<1>3. Typed(u) /\ Same(closed, u) /\ SameDevice(closed, u)
  BY <1>1, <1>2, UnvotedKeeps
<1>4. Same(x, u) /\ SameDevice(x, u)
  BY <1>2, <1>3 DEF Same, SameConfig, SameStages, SameDevice
<1>5. /\ Typed(st) /\ SameConfig(x, st) /\ st.cur = "loaded" /\ st.smCfg = x.smCfg
      /\ Tied(x) => DevClosed(st)
  <2>1. /\ Typed(st) /\ SameConfig(u, st) /\ st.cur = "loaded" /\ st.smCfg = u.smCfg
        /\ Dev(u) => DevClosed(st)
    BY <1>1, <1>3, StopAllKeeps
  <2>2. Tied(x) => Dev(u)
    BY <1>4 DEF Tied, Dev, DevClosed, DevOpen, DevRuns, SameDevice
  <2>. QED  BY <1>4, <2>1, <2>2 DEF Same, SameConfig, SameStages
<1>6. CASE ev = "start"
  <2>1. y = Restart(x, f, up)
    BY <1>6 DEF AfterDetection, StopEvents
  <2>. QED  BY <2>1, RestartStep
<1>7. CASE ev \in StopEvents
  <2>1. PICK z : z = AfterStop(st, ev, f)
    OBVIOUS
  <2>2. Keeps(x, f, z)
    BY <1>5, <1>7, <2>1, AfterStopStep DEF Running, Resting
  <2>3. y = Released(z) \/ y = [z EXCEPT !.note = "abortDetection"]
    BY <1>1, <1>7, <2>1 DEF AfterDetection, StopEvents
  <2>4. Typed(z)
    BY <2>2 DEF Keeps
  <2>5. CASE y = Released(z)
    <3>1. Typed(y) /\ Same(z, y) /\ SameDevice(z, y)
      BY <2>4, <2>5, ReleasedKeeps
    <3>. QED  BY <2>2, <3>1, KeepsThen
  <2>6. CASE y = [z EXCEPT !.note = "abortDetection"]
    <3>1. Typed(y)
      BY <2>4, <2>6 DEF Typed, Fields
    <3>2. Same(z, y) /\ SameDevice(z, y)
      BY <2>4, <2>6 DEF Typed, Fields, Same, SameConfig, SameStages, SameDevice
    <3>. QED  BY <2>2, <3>1, <3>2, KeepsThen
  <2>. QED  BY <2>3, <2>5, <2>6
<1>8. PICK v : v = Unvoted(closed)
  OBVIOUS
<1>9. Typed(v) /\ Same(closed, v) /\ SameDevice(closed, v)
  <2>1. Typed(v)
    BY <1>2, <1>8 DEF Unvoted, Typed, Fields
  <2>2. Same(closed, v) /\ SameDevice(closed, v)
    BY <1>2, <1>8 DEF Unvoted, Typed, Fields, Same, SameConfig, SameStages, SameDevice
  <2>. QED  BY <2>1, <2>2
<1>10. Same(x, v) /\ SameDevice(x, v)
  BY <1>2, <1>9 DEF Same, SameConfig, SameStages, SameDevice
<1>11. CASE ev = "disconnect"
  <2>1. PICK z : z = DisconnectEvent(v, TRUE)
    OBVIOUS
  <2>2. Keeps(v, f, z)
    BY <1>9, <2>1, DisconnectStep
  <2>3. y = Released(z)
    BY <1>1, <1>8, <1>11, <2>1 DEF AfterDetection, StopEvents
  <2>4. Keeps(x, f, z) /\ Typed(z)
    BY <1>10, <2>2, KeepsAfter DEF Keeps
  <2>5. Typed(y) /\ Same(z, y) /\ SameDevice(z, y)
    BY <2>3, <2>4, ReleasedKeeps
  <2>. QED  BY <2>4, <2>5, KeepsThen
<1>12. CASE ev \in {"off", "on"}
  <2>1. PICK z, l, m : /\ z = DisconnectEvent(v, FALSE) /\ l = To(z, "loaded")
                       /\ m = IF ev = "off" THEN Off(l) ELSE Bad(l)
    OBVIOUS
  <2>2. Typed(z) /\ Same(v, z) /\ (Dev(v) => DevClosed(z))
    BY <1>9, <2>1, DisconnectKeeps
  <2>3. /\ Typed(l) /\ SameConfig(z, l) /\ SameDevice(z, l) /\ l.cur = "loaded"
        /\ l.smCfg = z.smCfg
    <3>1. l = To(z, "loaded") /\ "loaded" \in StNames
      BY <2>1 DEF StNames
    <3>. QED  BY <2>2, <3>1, ToKeeps
  <2>4. Tied(x) => DevClosed(l) /\ l.smCfg
    BY <1>10, <2>2, <2>3 DEF Tied, Unset, Running, Resting, Same, SameDevice, Dev, DevClosed,
                             DevOpen, DevRuns
  <2>5. SameStages(x, l)
    BY <1>10, <2>2, <2>3 DEF Same, SameConfig, SameStages
  <2>6. /\ Typed(m) /\ SameStages(l, m) /\ m.smCfg = l.smCfg /\ m.cur \in {"idle", "loaded"}
        /\ DevClosed(l) => DevClosed(m)
    <3>1. CASE ev = "off"
      BY <2>1, <2>3, <3>1, OffKeeps DEF SameConfig
    <3>2. CASE ev = "on"
      BY <2>1, <2>3, <3>2, OkBadKeep DEF Same, SameConfig, SameDevice, DevClosed
    <3>. QED  BY <1>12, <3>1, <3>2
  <2>7. y = Released(m)
    BY <1>1, <1>8, <1>12, <2>1 DEF AfterDetection, StopEvents
  <2>8. Typed(y) /\ Same(m, y) /\ SameDevice(m, y)
    BY <2>6, <2>7, ReleasedKeeps
  <2>9. SameStages(x, y) /\ y.cur \notin Running
    BY <2>5, <2>6, <2>8 DEF Same, SameConfig, SameStages, Running
  <2>10. Tied(x) => DevClosed(y) /\ y.smCfg
    BY <2>4, <2>6, <2>8 DEF Same, SameDevice, DevClosed
  <2>. QED  BY <2>8, <2>9, <2>10, KeepsClosed
<1>13. CASE ev \notin StopEvents \cup {"start", "disconnect", "off", "on"}
  <2>1. y = Ok(x)
    BY <1>13 DEF AfterDetection, StopEvents
  <2>. QED  BY <2>1, OkBadKeep, KeepsSame
<1>. QED  BY <1>6, <1>7, <1>11, <1>12, <1>13

\* IDLE.
LEMMA StIdleStep ==
  ASSUME NEW x, Typed(x), x.cur = "idle", NEW ev, NEW f, NEW lpi \in BOOLEAN, NEW up,
         NEW y, y = StIdle(x, ev, f, lpi, up)
  PROVE  Keeps(x, f, y)
<1>0. Tied(x) => DevClosed(x) /\ (x.smCfg \/ ~x.model)
  BY DEF Tied, Unset, Resting
<1>1. CASE ev = "load"
  <2>1. /\ Typed(y) /\ SameStages(x, y) /\ y.cur \in {x.cur, "loaded"} /\ y.smCfg
        /\ DevClosed(x) => DevClosed(y)
    BY <1>1, LoadKeeps DEF StIdle
  <2>. QED  BY <1>0, <2>1, KeepsClosed DEF Running
<1>2. CASE ev \in {"pause", "ipause", "resume", "iresume"}
  <2>1. PICK b \in BOOLEAN : y = Ok([x EXCEPT !.paused = b])
    <3>1. CASE ev \in {"pause", "ipause"}
      <4>1. y = Ok([x EXCEPT !.paused = TRUE])
        BY <3>1 DEF StIdle
      <4>. QED  BY <4>1
    <3>2. CASE ev \in {"resume", "iresume"}
      <4>1. y = Ok([x EXCEPT !.paused = FALSE])
        BY <3>2 DEF StIdle
      <4>. QED  BY <4>1
    <3>. QED  BY <1>2, <3>1, <3>2
  <2>a. PICK a : a = [x EXCEPT !.paused = b]
    OBVIOUS
  <2>2. Keeps(x, f, a) /\ Typed(a)
    BY <2>a, PausedStep DEF Running, Keeps
  <2>3. Typed(y) /\ Same(a, y) /\ SameDevice(a, y)
    BY <2>1, <2>a, <2>2, OkBadKeep
  <2>. QED  BY <2>2, <2>3, KeepsThen
<1>3. CASE ev = "disconnect"
  <2>1. PICK a : a = [x EXCEPT !.hasDev = FALSE] /\ y = Ok(a)
    BY <1>3 DEF StIdle
  <2>2. /\ Typed(a) /\ Same(x, a)
        /\ a.opened = x.opened /\ a.registered = x.registered /\ a.use = x.use
    BY <2>1, HasDevKeeps
  <2>3. Typed(y) /\ Same(a, y) /\ SameDevice(a, y)
    BY <2>1, <2>2, OkBadKeep
  <2>4. SameStages(x, y) /\ y.cur \notin Running
    BY <2>2, <2>3 DEF Same, SameConfig, SameStages, Running
  <2>5. Tied(x) => DevClosed(y) /\ (y.smCfg \/ Unset(y))
    BY <1>0, <2>2, <2>3 DEF Same, SameConfig, SameDevice, DevClosed, Unset, Resting
  <2>. QED  BY <2>3, <2>4, <2>5, KeepsClosed
<1>4. CASE ev = "connect"
  <2>1. CASE x.hasDev
    <3>1. y = Bad(x)
      BY <1>4, <2>1 DEF StIdle
    <3>. QED  BY <3>1, OkBadKeep, KeepsSame
  <2>2. CASE ~x.hasDev
    <3>1. PICK a : a = UpdateDeviceConfig(x, lpi) /\ y = Ok(a)
      BY <1>4, <2>2 DEF StIdle
    <3>2. /\ Typed(a) /\ Same(x, a)
          /\ a.opened = x.opened /\ a.registered = x.registered /\ a.use = x.use
      BY <3>1, UpdateKeeps
    <3>3. Typed(y) /\ Same(a, y) /\ SameDevice(a, y)
      BY <3>1, <3>2, OkBadKeep
    <3>4. SameStages(x, y) /\ y.cur \notin Running
      BY <3>2, <3>3 DEF Same, SameConfig, SameStages, Running
    <3>5. Tied(x) => DevClosed(y) /\ (y.smCfg \/ Unset(y))
      BY <1>0, <3>2, <3>3 DEF Same, SameConfig, SameDevice, DevClosed, Unset, Resting
    <3>. QED  BY <3>3, <3>4, <3>5, KeepsClosed
  <2>. QED  BY <2>1, <2>2 DEF Typed
<1>5. CASE ev = "on" /\ x.model
  <2>1. PICK t, g, a, l : /\ t = UpdateDeviceConfig(x, lpi)
                          /\ g = [t EXCEPT !.gsl = IF up THEN "loaded" ELSE @]
                          /\ a = Ok(g) /\ l = To(a, "loaded")
    OBVIOUS
  <2>2. /\ Typed(t) /\ Same(x, t)
        /\ t.opened = x.opened /\ t.registered = x.registered /\ t.use = x.use
    BY <2>1, UpdateKeeps
  <2>3. Typed(g) /\ Same(t, g) /\ SameDevice(t, g)
    <3>1. Typed(g)
      BY ZenonT(40), <2>1, <2>2 DEF Typed, Fields, EngineStates
    <3>2. Same(t, g) /\ SameDevice(t, g)
      BY <2>1, <2>2 DEF Typed, Fields, Same, SameConfig, SameStages, SameDevice
    <3>. QED  BY <3>1, <3>2
  <2>4. Typed(a) /\ Same(g, a) /\ SameDevice(g, a)
    BY <2>1, <2>3, OkBadKeep
  <2>5. /\ Typed(l) /\ SameConfig(a, l) /\ SameDevice(a, l) /\ l.cur = "loaded"
        /\ l.smCfg = a.smCfg
    <3>1. l = To(a, "loaded") /\ "loaded" \in StNames
      BY <2>1 DEF StNames
    <3>. QED  BY <2>4, <3>1, ToKeeps
  <2>6. y = Bad(t) \/ y = StartRecognition(l, f, up) \/ y = l
    BY <1>5, <2>1 DEF StIdle
  <2>7. CASE y = Bad(t)
    <3>1. Typed(y) /\ Same(t, y) /\ SameDevice(t, y)
      BY <2>2, <2>7, OkBadKeep
    <3>2. SameStages(x, y) /\ y.cur \notin Running
      BY <2>2, <3>1 DEF Same, SameConfig, SameStages, Running
    <3>3. Tied(x) => DevClosed(y) /\ y.smCfg
      BY <1>0, <1>5, <2>2, <3>1 DEF Same, SameDevice, DevClosed
    <3>. QED  BY <3>1, <3>2, <3>3, KeepsClosed
  <2>8. Keeps(x, f, l) /\ l.second = x.second
    <3>1. SameStages(x, l) /\ l.cur \notin Running
      BY <2>2, <2>3, <2>4, <2>5 DEF Same, SameConfig, SameStages, Running
    <3>2. Tied(x) => DevClosed(l) /\ l.smCfg
      BY <1>0, <1>5, <2>2, <2>3, <2>4, <2>5 DEF Same, SameDevice, DevClosed
    <3>. QED  BY <2>5, <3>1, <3>2, KeepsClosed DEF SameStages
  <2>9. CASE y = StartRecognition(l, f, up)
    <3>1. Keeps(l, f, y)
      BY <2>5, <2>9, StartRecognitionStep DEF Running
    <3>. QED  BY <2>8, <3>1, KeepsTrans
  <2>. QED  BY <2>6, <2>7, <2>8, <2>9
<1>6. CASE /\ ev \notin {"load", "pause", "ipause", "resume", "iresume", "disconnect", "connect"}
           /\ ~(ev = "on" /\ x.model)
  <2>1. y = Ok(x)
    BY <1>6 DEF StIdle
  <2>. QED  BY <2>1, OkBadKeep, KeepsSame
<1>. QED  BY <1>1, <1>2, <1>3, <1>4, <1>5, <1>6

\* LOADED.
LEMMA StLoadedStep ==
  ASSUME NEW x, Typed(x), x.cur = "loaded", NEW ev, NEW f, NEW lpi \in BOOLEAN, NEW up,
         NEW y, y = StLoaded(x, ev, f, lpi, up)
  PROVE  Keeps(x, f, y)
<1>1. CASE ev = "config"
  <2>1. y = SendRecognitionConfig(x, f)
    BY <1>1 DEF StLoaded
  <2>. QED  BY <2>1, SendConfigKeeps, KeepsSame
<1>2. CASE ev = "start"
  <2>1. y = StartRecognition(x, f, up)
    BY <1>2 DEF StLoaded
  <2>. QED  BY <2>1, StartRecognitionStep DEF Running
<1>3. CASE ev \in {"pause", "ipause", "resume"}
  <2>1. PICK b \in BOOLEAN : y = Ok([x EXCEPT !.paused = b])
    <3>1. CASE ev \in {"pause", "ipause"}
      <4>1. y = Ok([x EXCEPT !.paused = TRUE])
        BY <3>1 DEF StLoaded
      <4>. QED  BY <4>1
    <3>2. CASE ev = "resume"
      <4>1. y = Ok([x EXCEPT !.paused = FALSE])
        BY <3>2 DEF StLoaded
      <4>. QED  BY <4>1
    <3>. QED  BY <1>3, <3>1, <3>2
  <2>a. PICK a : a = [x EXCEPT !.paused = b]
    OBVIOUS
  <2>2. Keeps(x, f, a) /\ Typed(a)
    BY <2>a, PausedStep DEF Running, Keeps
  <2>3. Typed(y) /\ Same(a, y) /\ SameDevice(a, y)
    BY <2>1, <2>a, <2>2, OkBadKeep
  <2>. QED  BY <2>2, <2>3, KeepsThen
<1>4. CASE ev = "iresume"
  <2>1. y = ResumeInternally(x, f, up)
    BY <1>4 DEF StLoaded
  <2>. QED  BY <2>1, ResumeInternallyStep
<1>5. CASE ev = "disconnect"
  <2>1. y = DisconnectLoaded(x)
    BY <1>5 DEF StLoaded
  <2>. QED  BY <2>1, DisconnectStep DEF Running
<1>6. CASE ev = "connect"
  <2>1. y = ConnectLoaded(x, f, lpi, up)
    BY <1>6 DEF StLoaded
  <2>. QED  BY <2>1, ConnectLoadedStep
<1>7. CASE ev = "off"
  <2>1. /\ Typed(y) /\ SameConfig(x, y) /\ y.cur = "idle" /\ y.smCfg = x.smCfg
        /\ DevOpen(x) \/ DevClosed(x) => DevClosed(y)
    BY <1>7, OffKeeps DEF StLoaded
  <2>2. Tied(x) => DevClosed(y) /\ y.smCfg
    BY <2>1 DEF Tied, Unset, Dev, Running, Resting
  <2>. QED  BY <2>1, <2>2, KeepsClosed DEF SameConfig, Running
<1>8. CASE ev = "on"
  <2>1. y = Bad(x)
    BY <1>8 DEF StLoaded
  <2>. QED  BY <2>1, OkBadKeep, KeepsSame
<1>9. CASE ev = "detected"
  <2>1. PICK a : a = StopEngines(x) /\ y = Ok(a)
    BY <1>9 DEF StLoaded
  <2>2. Typed(a) /\ Same(x, a) /\ SameDevice(x, a)
    BY <2>1, EnginesKeep
  <2>3. Typed(y) /\ Same(a, y) /\ SameDevice(a, y)
    BY <2>1, <2>2, OkBadKeep
  <2>. QED  BY <2>2, <2>3, KeepsSame, KeepsThen
<1>10. CASE ev \notin {"config", "start", "pause", "ipause", "resume", "iresume",
                       "disconnect", "connect", "off", "on", "detected"}
  <2>1. y = Ok(x)
    BY <1>10 DEF StLoaded
  <2>. QED  BY <2>1, OkBadKeep, KeepsSame
<1>. QED  BY <1>1, <1>2, <1>3, <1>4, <1>5, <1>6, <1>7, <1>8, <1>9, <1>10

\* ACTIVE.
LEMMA StActiveStep ==
  ASSUME NEW x, Typed(x), x.cur = "active", NEW ev, NEW f, NEW lpi \in BOOLEAN, NEW up,
         NEW y, y = StActive(x, ev, f, lpi, up)
  PROVE  Keeps(x, f, y)
<1>1. PICK st : st = StopAll(x)
  OBVIOUS
<1>2. /\ Typed(st) /\ SameConfig(x, st) /\ st.cur = "loaded" /\ st.smCfg = x.smCfg
      /\ Dev(x) => DevClosed(st)
  BY <1>1, StopAllKeeps
<1>3. Tied(x) => Dev(x) /\ x.smCfg
  BY DEF Tied, Unset, Resting
<1>4. CASE ev \in StopEvents
  <2>1. y = AfterStop(st, ev, f)
    BY <1>1, <1>4 DEF StActive, StopEvents
  <2>. QED  BY <1>2, <1>3, <1>4, <2>1, AfterStopStep DEF Resting
<1>5. CASE ev = "detected"
  <2>1. PICK sec, nt : sec = (IF Single(x) THEN x.second ELSE TRUE)
                       /\ nt = (IF Single(x) THEN "detection" ELSE "none")
    OBVIOUS
  <2>2. PICK n : n = [x EXCEPT !.second = sec, !.note = nt]
    OBVIOUS
  <2>3. Typed(n)
    BY <2>2 DEF Typed, Fields
  <2>4. /\ SameDevice(x, n) /\ n.cur = x.cur /\ n.paused = x.paused /\ n.smCfg = x.smCfg
        /\ n.stages = x.stages /\ n.notify = x.notify
    BY <2>2 DEF Typed, Fields, SameDevice
  <2>5. PICK m, st1 : /\ st1 \in {"detected", "buffering"} /\ y = Ok(To(m, st1))
                      /\ m = n \/ m = [n EXCEPT !.run = x.stages]
    <3>1. CASE ~x.capture /\ Single(x)
      <4>1. y = Ok(To(n, "detected"))
        BY <1>5, <2>1, <2>2, <3>1 DEF StActive, StopEvents
      <4>. QED  BY <4>1
    <3>2. CASE ~(~x.capture /\ Single(x))
      <4>1. y = Ok(To([n EXCEPT !.run = x.stages], "buffering"))
        BY <1>5, <2>1, <2>2, <3>2 DEF StActive, StopEvents
      <4>. QED  BY <4>1
    <3>. QED  BY <3>1, <3>2
  <2>6. /\ Typed(m) /\ SameDevice(n, m) /\ m.paused = n.paused /\ m.smCfg = n.smCfg
        /\ m.stages = n.stages /\ m.notify = n.notify
    <3>1. CASE m = n
      BY <2>3, <3>1 DEF SameDevice
    <3>2. CASE m = [n EXCEPT !.run = x.stages]
      BY <2>3, <2>4, <3>2 DEF Typed, Fields, SameDevice
    <3>. QED  BY <2>5, <3>1, <3>2
  <2>7. PICK k : k = To(m, st1)
    OBVIOUS
  <2>8. /\ Typed(k) /\ SameConfig(m, k) /\ SameDevice(m, k) /\ k.cur = st1
        /\ k.paused = m.paused /\ k.smCfg = m.smCfg
    <3>1. st1 \in StNames
      BY <2>5 DEF StNames
    <3>. QED  BY <2>6, <2>7, <3>1, ToKeeps
  <2>9. Typed(y) /\ Same(k, y) /\ SameDevice(k, y)
    BY <2>5, <2>7, <2>8, OkBadKeep
  <2>10. /\ SameDevice(x, y) /\ y.cur \in {"detected", "buffering"} /\ y.paused = x.paused
         /\ y.smCfg = x.smCfg /\ y.stages = x.stages /\ y.notify = x.notify
    BY <2>4, <2>5, <2>6, <2>8, <2>9 DEF SameDevice, Same, SameConfig, SameStages
  <2>. QED  BY <2>9, <2>10 DEF Keeps, SameDevice, Quiet, Tied, Unset, Follows, Dev, DevClosed,
                               DevOpen, DevRuns, Running, Resting
<1>6. CASE ev = "disconnect"
  <2>1. y = DisconnectActive(x)
    BY <1>6 DEF StActive, StopEvents
  <2>. QED  BY <2>1, DisconnectStep
<1>7. CASE ev = "connect"
  <2>1. y = Connected(x, f, lpi, TRUE)
    BY <1>7 DEF StActive, StopEvents
  <2>. QED  BY <2>1, ConnectedStep DEF Running
<1>8. CASE ev = "off"
  <2>1. y = Off(st)
    BY <1>1, <1>8 DEF StActive, StopEvents
  <2>2. /\ Typed(y) /\ SameConfig(st, y) /\ y.cur = "idle" /\ y.smCfg = st.smCfg
        /\ DevOpen(st) \/ DevClosed(st) => DevClosed(y)
    BY <1>2, <2>1, OffKeeps
  <2>3. SameStages(x, y) /\ y.cur \notin Running
    BY <1>2, <2>2 DEF SameConfig, SameStages, Running
  <2>. QED  BY <1>2, <1>3, <2>2, <2>3, KeepsClosed
<1>9. CASE ev = "on"
  <2>1. y = Bad(x)
    BY <1>9 DEF StActive, StopEvents
  <2>. QED  BY <2>1, OkBadKeep, KeepsSame
<1>10. CASE ev \notin StopEvents \cup {"detected", "disconnect", "connect", "off", "on"}
  <2>1. y = Ok(x)
    BY <1>10 DEF StActive, StopEvents
  <2>. QED  BY <2>1, OkBadKeep, KeepsSame
<1>. QED  BY <1>4, <1>5, <1>6, <1>7, <1>8, <1>9, <1>10

\* DETECTED.
LEMMA StDetectedStep ==
  ASSUME NEW x, Typed(x), x.cur = "detected", NEW ev, NEW f, NEW lpi \in BOOLEAN, NEW up,
         NEW y, y = StDetected(x, ev, f, lpi, up)
  PROVE  Keeps(x, f, y)
<1>1. CASE ev \in {"resume", "iresume"}
  <2>1. PICK a : a = [x EXCEPT !.paused = FALSE] /\ y = Ok(a)
    BY <1>1 DEF StDetected
  <2>2. Keeps(x, f, a) /\ Typed(a)
    BY <2>1, PausedStep DEF Keeps
  <2>3. Typed(y) /\ Same(a, y) /\ SameDevice(a, y)
    BY <2>1, <2>2, OkBadKeep
  <2>. QED  BY <2>2, <2>3, KeepsThen
<1>2. CASE ev = "connect"
  <2>1. y = ConnectEvent(x, f, lpi, up)
    BY <1>2 DEF StDetected
  <2>. QED  BY <2>1, ConnectEventStep DEF Running
<1>3. CASE ev \notin {"resume", "iresume", "connect"}
  <2>1. y = AfterDetection(x, ev, f, lpi, up)
    BY <1>3 DEF StDetected
  <2>. QED  BY <2>1, AfterDetectionStep DEF Running
<1>. QED  BY <1>1, <1>2, <1>3

\* BUFFERING.
LEMMA StBufferingStep ==
  ASSUME NEW x, Typed(x), x.cur = "buffering", NEW ev, NEW f, NEW lpi \in BOOLEAN, NEW up,
         NEW y, y = StBuffering(x, ev, f, lpi, up)
  PROVE  Keeps(x, f, y)
<1>1. CASE ev = "stopBuffering"
  <2>1. PICK a, b, c : /\ a = [x EXCEPT !.reader = FALSE] /\ b = Unvoted(a)
                       /\ c = PostDelayedStop(b) /\ y = Ok(c)
    BY <1>1 DEF StBuffering
  <2>2. Typed(a) /\ Same(x, a) /\ SameDevice(x, a)
    BY <2>1, ReaderKeeps
  <2>3. Typed(b) /\ Same(a, b) /\ SameDevice(a, b)
    <3>1. Typed(b)
      BY ZenonT(40), <2>1, <2>2 DEF Unvoted, Typed, Fields
    <3>. QED  BY ZenonT(40), <2>1, <2>2, <3>1
                 DEF Unvoted, Typed, Fields, Same, SameConfig, SameStages,
                                      SameDevice
  <2>4. Typed(c) /\ Same(b, c) /\ SameDevice(b, c)
    BY <2>1, <2>3, PostKeeps
  <2>5. Typed(y) /\ Same(c, y) /\ SameDevice(c, y)
    BY <2>1, <2>4, OkBadKeep
  <2>6. Same(x, y) /\ SameDevice(x, y)
    BY <2>2, <2>3, <2>4, <2>5 DEF Same, SameConfig, SameStages, SameDevice
  <2>. QED  BY <2>5, <2>6, KeepsSame
<1>2. CASE ev = "connect"
  <2>1. y = ConnectEvent(x, f, lpi, up)
    BY <1>2 DEF StBuffering
  <2>. QED  BY <2>1, ConnectEventStep DEF Running
<1>3. CASE ev \notin {"stopBuffering", "connect"}
  <2>1. y = AfterDetection(x, ev, f, lpi, up)
    BY <1>3 DEF StBuffering
  <2>. QED  BY <2>1, AfterDetectionStep DEF Running
<1>. QED  BY <1>1, <1>2, <1>3

\* An unload is made in one go while the card is down: see SsrUnloadStep.
LEMMA StSSRStep ==
  ASSUME NEW x, Typed(x), x.cur = "ssr", NEW ev, ev # "unload", NEW f, NEW y, y = StSSR(x, ev)
  PROVE  Keeps(x, f, y)
<1>1. CASE y \in {Ok(x), Bad(x)}
  BY <1>1, OkBadKeep, KeepsSame
<1>2. ASSUME NEW a, Typed(a), SameStages(x, a), SameDevice(x, a), a.cur = "ssr",
             a.smCfg = x.smCfg,
             a.model => (x.model /\ a.restore = x.restore) \/ a.restore \in {"loaded", "active"},
             y = Ok(a)
      PROVE  Keeps(x, f, y)
  <2>1. Typed(y) /\ Same(a, y) /\ SameDevice(a, y)
    BY <1>2, OkBadKeep
  <2>2. SameStages(x, y) /\ y.cur \notin Running
    BY <1>2, <2>1 DEF Same, SameConfig, SameStages, Running
  <2>3. Tied(x) => DevClosed(y)
    BY <1>2, <2>1 DEF Tied, Resting, SameDevice, DevClosed
  <2>4. Tied(x) => y.smCfg \/ Unset(y)
    BY <1>2, <2>1 DEF Tied, Unset, Same, SameConfig, SameStages, Resting
  <2>. QED  BY <2>1, <2>2, <2>3, <2>4, KeepsClosed
<1>3. CASE ev \in {"start", "stop", "config"} /\ y # Bad(x)
  <2>0. PICK g : g = (x.cfg \/ ev = "config")
    OBVIOUS
  <2>1. PICK r \in {"loaded", "active"} : y = Ok([x EXCEPT !.restore = r, !.cfg = g])
    <3>1. CASE ev = "start"
      <4>1. y = Ok([x EXCEPT !.restore = "active", !.cfg = g])
        BY <1>3, <2>0, <3>1 DEF StSSR
      <4>. QED  BY <4>1
    <3>2. CASE ev = "stop" \/ ev = "config"
      <4>1. y = Ok([x EXCEPT !.restore = "loaded", !.cfg = g])
        BY <1>3, <2>0, <3>2 DEF StSSR
      <4>. QED  BY <4>1
    <3>. QED  BY <1>3, <3>1, <3>2
  <2>2. PICK a : a = [x EXCEPT !.restore = r, !.cfg = g]
    OBVIOUS
  <2>3. Typed(a)
    BY ZenonT(40), <2>1, <2>2 DEF Typed, Fields
  <2>4. SameStages(x, a) /\ SameDevice(x, a) /\ a.cur = "ssr" /\ a.smCfg = x.smCfg
        /\ a.restore = r
    BY <2>2 DEF Typed, Fields, SameStages, SameDevice
  <2>. QED  BY <1>2, <2>1, <2>2, <2>3, <2>4
<1>4. CASE ev = "load" /\ y # Bad(x)
  <2>1. PICK a : a = [x EXCEPT !.restore = "loaded", !.model = TRUE]
    OBVIOUS
  <2>2. Typed(a)
    BY ZenonT(40), <2>1 DEF Typed, Fields
  <2>3. SameStages(x, a) /\ SameDevice(x, a) /\ a.cur = "ssr" /\ a.smCfg = x.smCfg
        /\ a.restore = "loaded"
    BY <2>1 DEF Typed, Fields, SameStages, SameDevice
  <2>4. y = Ok(a)
    BY <1>4, <2>1 DEF StSSR
  <2>. QED  BY <1>2, <2>2, <2>3, <2>4
<1>5. CASE ev \in {"pause", "ipause"}
  <2>1. PICK n : y = Ok([x EXCEPT !.paused = TRUE, !.note = n])
                 \/ y = Ok([x EXCEPT !.paused = TRUE])
    BY <1>5 DEF StSSR
  <2>2. PICK a : /\ a = [x EXCEPT !.paused = TRUE, !.note = n] \/ a = [x EXCEPT !.paused = TRUE]
                 /\ y = Ok(a)
    BY <2>1
  <2>3. CASE a = [x EXCEPT !.paused = TRUE, !.note = n]
    <3>1. Typed(a)
      BY ZenonT(40), <2>3 DEF Typed, Fields
    <3>2. SameStages(x, a) /\ SameDevice(x, a) /\ a.cur = "ssr" /\ a.smCfg = x.smCfg
          /\ a.restore = x.restore /\ a.model = x.model
      BY <2>3 DEF Typed, Fields, SameStages, SameDevice
    <3>. QED  BY <1>2, <2>2, <3>1, <3>2
  <2>4. CASE a = [x EXCEPT !.paused = TRUE]
    <3>1. Typed(a)
      BY <2>4 DEF Typed, Fields
    <3>2. SameStages(x, a) /\ SameDevice(x, a) /\ a.cur = "ssr" /\ a.smCfg = x.smCfg
          /\ a.restore = x.restore /\ a.model = x.model
      BY <2>4 DEF Typed, Fields, SameStages, SameDevice
    <3>. QED  BY <1>2, <2>2, <3>1, <3>2
  <2>. QED  BY <2>2, <2>3, <2>4
<1>6. CASE ev \in {"resume", "iresume"} /\ x.paused
  <2>1. PICK r : r \in {x.restore, "active"} /\ y = Ok([x EXCEPT !.paused = FALSE, !.restore = r])
    <3>1. CASE x.currentState = "started"
      BY <1>6, <3>1 DEF StSSR
    <3>2. CASE x.currentState # "started"
      BY <1>6, <3>2 DEF StSSR
    <3>. QED  BY <3>1, <3>2
  <2>2. PICK a : a = [x EXCEPT !.paused = FALSE, !.restore = r]
    OBVIOUS
  <2>3. Typed(a)
    BY ZenonT(40), <2>1, <2>2 DEF Typed, Fields
  <2>4. SameStages(x, a) /\ SameDevice(x, a) /\ a.cur = "ssr" /\ a.smCfg = x.smCfg
        /\ a.restore = r /\ a.model = x.model
    BY <2>2 DEF Typed, Fields, SameStages, SameDevice
  <2>. QED  BY <1>2, <2>1, <2>2, <2>3, <2>4
<1>7. CASE /\ ev \notin {"start", "stop", "config", "load", "pause", "ipause"}
           /\ ~(ev \in {"resume", "iresume"} /\ x.paused)
  <2>1. y = Ok(x)
    BY <1>7 DEF StSSR
  <2>. QED  BY <1>1, <2>1
<1>. QED  BY <1>1, <1>3, <1>4, <1>5, <1>6, <1>7

\* Every state, every event but an unload.
LEMMA ProcessStep ==
  ASSUME NEW x, Typed(x), NEW ev, ev # "unload", NEW f, NEW lpi \in BOOLEAN, NEW up,
         NEW y, y = Process(x, ev, f, lpi, up)
  PROVE  Keeps(x, f, y)
<1>1. CASE x.cur = "idle"
  BY <1>1, StIdleStep DEF Process
<1>2. CASE x.cur = "loaded"
  BY <1>2, StLoadedStep DEF Process
<1>3. CASE x.cur = "active"
  BY <1>3, StActiveStep DEF Process
<1>4. CASE x.cur = "detected"
  BY <1>4, StDetectedStep DEF Process
<1>5. CASE x.cur = "buffering"
  BY <1>5, StBufferingStep DEF Process
<1>6. CASE x.cur = "ssr"
  BY <1>6, StSSRStep DEF Process
<1>. QED  BY <1>1, <1>2, <1>3, <1>4, <1>5, <1>6 DEF Typed, StNames

-----------------------------------------------------------------------------
(* Second stages, unload, the loss of the card.                            *)

\* What the verdict of a second stage keeps: no device is looked at.
LEMMA VerdictStep ==
  ASSUME NEW x, Typed(x), x.cur = "buffering", NEW w, NEW up, NEW y,
         y = Accepted(x, w) \/ y = Rejected(x, w, None, up)
  PROVE  Typed(y) /\ y.stages = x.stages /\ y.notify = x.notify /\ (Quiet(x) => Quiet(y))
<1>1. CASE y = Ok(x)
  <2>1. Keeps(x, None, y)
    BY <1>1, OkBadKeep, KeepsSame
  <2>. QED  BY <2>1 DEF Keeps
<1>2. ASSUME NEW a, Typed(a), a.stages = x.stages, a.notify = x.notify, a.paused = x.paused,
             a.cur \in {"buffering", "detected", "active", "loaded"}, y = Ok(a)
      PROVE  Typed(y) /\ y.stages = x.stages /\ y.notify = x.notify /\ (Quiet(x) => Quiet(y))
  <2>1. Typed(y) /\ Same(a, y)
    BY <1>2, OkBadKeep
  <2>. QED  BY <1>2, <2>1 DEF Same, SameConfig, SameStages, Quiet, Running
<1>3. CASE y = Accepted(x, w) /\ y # Ok(x)
  <2>1. PICK d : d = x.detection \cup {w}
    OBVIOUS
  <2>2. PICK a, b, t : /\ a = [x EXCEPT !.detection = d]
                       /\ t = [x EXCEPT !.second = FALSE, !.detection = {},
                                        !.note = "detection"]
                       /\ b = [t EXCEPT !.reader = FALSE]
    OBVIOUS
  <2>3. /\ Typed(a) /\ Typed(t)
        /\ a.stages = x.stages /\ a.notify = x.notify /\ a.paused = x.paused /\ a.cur = x.cur
        /\ t.stages = x.stages /\ t.notify = x.notify /\ t.paused = x.paused /\ t.cur = x.cur
    BY ZenonT(40), <2>2 DEF Typed, Fields
  <2>4. Typed(b) /\ Same(t, b)
    BY <2>2, <2>3, ReaderKeeps
  <2>5. PICK c : c = To(b, "detected")
    OBVIOUS
  <2>6. Typed(c) /\ SameConfig(b, c) /\ c.cur = "detected" /\ c.paused = b.paused
    <3>1. c = To(b, "detected") /\ "detected" \in StNames
      BY <2>5 DEF StNames
    <3>. QED  BY <2>4, <3>1, ToKeeps
  <2>7. y = Ok(a) \/ y = Ok(t) \/ y = Ok(c)
    BY <1>3, <2>1, <2>2, <2>5 DEF Accepted
  <2>8. CASE y = Ok(a)
    BY <1>2, <2>3, <2>8
  <2>9. CASE y = Ok(t)
    BY <1>2, <2>3, <2>9
  <2>10. CASE y = Ok(c)
    BY <1>2, <2>3, <2>4, <2>6, <2>10 DEF Same, SameConfig, SameStages
  <2>. QED  BY <2>7, <2>8, <2>9, <2>10
<1>4. CASE y = Rejected(x, w, None, up) /\ y # Ok(x)
  <2>1. PICK t : t = [x EXCEPT !.run = @ \cap {w}, !.second = FALSE, !.detection = {},
                               !.reader = FALSE]
    OBVIOUS
  <2>2. /\ Typed(t) /\ t.stages = x.stages /\ t.notify = x.notify /\ t.paused = x.paused
        /\ t.cur = x.cur
    BY ZenonT(40), <2>1 DEF Typed, Fields
  <2>3. CASE x.notify
    <3>1. PICK a : a = [t EXCEPT !.rejected = TRUE, !.note = "rejection"]
      OBVIOUS
    <3>2. /\ Typed(a) /\ a.stages = t.stages /\ a.notify = t.notify /\ a.paused = t.paused
          /\ a.cur = t.cur
      BY ZenonT(40), <2>2, <3>1 DEF Typed, Fields
    <3>3. y = Ok(a)
      BY <1>4, <2>1, <2>3, <3>1 DEF Rejected
    <3>. QED  BY <1>2, <2>2, <3>2, <3>3
  <2>4. CASE ~x.notify
    <3>1. PICK r, e, o, a, b, l : /\ r = RestartActive(t) /\ e = [r EXCEPT !.run = {}]
                               /\ o = Ok(e) /\ a = To(o, "active")
                               /\ b = Bad(t) /\ l = To(b, "loaded")
      OBVIOUS
    <3>2. Typed(r) /\ Same(t, r)
      BY <2>2, <3>1, EnginesKeep
    <3>3. Typed(e) /\ Same(r, e)
      <4>1. Typed(e)
        BY <3>1, <3>2 DEF Typed, Fields
      <4>. QED  BY <3>1, <3>2, <4>1 DEF Typed, Fields, Same, SameConfig, SameStages
    <3>4. Typed(o) /\ Same(e, o) /\ Typed(b) /\ Same(t, b)
      BY <2>2, <3>1, <3>3, OkBadKeep
    <3>5. Typed(a) /\ SameConfig(o, a) /\ a.paused = o.paused /\ a.cur = "active"
      <4>1. a = To(o, "active") /\ "active" \in StNames
        BY <3>1 DEF StNames
      <4>. QED  BY <3>4, <4>1, ToKeeps
    <3>6. Typed(l) /\ SameConfig(b, l) /\ l.paused = b.paused /\ l.cur = "loaded"
      <4>1. l = To(b, "loaded") /\ "loaded" \in StNames
        BY <3>1 DEF StNames
      <4>. QED  BY <3>4, <4>1, ToKeeps
    <3>7. y = Released(a) \/ y = Released(l)
      BY <1>4, <2>1, <2>4, <3>1 DEF Rejected
    <3>8. CASE y = Released(a)
      <4>1. Typed(y) /\ Same(a, y)
        BY <3>5, <3>8, ReleasedKeeps
      <4>. QED  BY <2>2, <3>2, <3>3, <3>4, <3>5, <4>1
                DEF Same, SameConfig, SameStages, Quiet, Running
    <3>9. CASE y = Released(l)
      <4>1. Typed(y) /\ Same(l, y)
        BY <3>6, <3>9, ReleasedKeeps
      <4>. QED  BY <2>2, <3>4, <3>6, <4>1 DEF Same, SameConfig, SameStages, Quiet, Running
    <3>. QED  BY <3>7, <3>8, <3>9
  <2>. QED  BY <2>2, <2>3, <2>4 DEF Typed
<1>. QED  BY <1>1, <1>3, <1>4

\* Before an unload the recognition is stopped.
LEMMA BeforeUnloadStep ==
  ASSUME NEW x, Typed(x), NEW f, NEW y, y = BeforeUnload(x)
  PROVE  Keeps(x, f, y) /\ y.cur \notin Running /\ (x.cur \notin Resting => y.cur = "loaded")
<1>1. CASE x.cur = "active"
  <2>1. y = StopAll(x)
    BY <1>1 DEF BeforeUnload
  <2>. QED  BY <1>1, <2>1, StopAllStep, StopAllKeeps DEF Running, Resting
<1>2. CASE x.cur \in {"detected", "buffering"}
  <2>1. PICK a, u : /\ a = [x EXCEPT !.reader = FALSE] /\ u = CancelDelayedStop(Unvoted(a))
                    /\ y = StopAll(u)
    BY <1>2 DEF BeforeUnload
  <2>2. Typed(a) /\ Same(x, a) /\ SameDevice(x, a)
    BY <2>1, ReaderKeeps
  <2>3. Typed(u) /\ Same(a, u) /\ SameDevice(a, u)
    BY <2>1, <2>2, UnvotedKeeps
  <2>4. Same(x, u) /\ SameDevice(x, u)
    BY <2>2, <2>3 DEF Same, SameConfig, SameStages, SameDevice
  <2>5. Keeps(u, f, y) /\ y.cur = "loaded"
    <3>1. u.cur \notin Resting
      BY <1>2, <2>4 DEF Same, Resting
    <3>. QED  BY <2>1, <2>3, <3>1, StopAllStep, StopAllKeeps
  <2>. QED  BY <2>4, <2>5, KeepsAfter DEF Running
<1>3. CASE x.cur \notin Running
  <2>1. y = x
    BY <1>3 DEF BeforeUnload, Running
  <2>. QED  BY <1>3, <2>1, KeepsSame
            DEF Typed, StNames, Running, Resting, Same, SameConfig, SameStages, SameDevice
<1>. QED  BY <1>1, <1>2, <1>3 DEF Running

\* After it the device is closed.
LEMMA AfterUnloadKeeps ==
  ASSUME NEW x, Typed(x), NEW from, NEW y, y = AfterUnload(x, from)
  PROVE  /\ Typed(y) /\ SameConfig(x, y) /\ y.cur = "idle" /\ y.smCfg = x.smCfg
         /\ DevOpen(x) \/ DevClosed(x) => DevClosed(y)
<1>1. PICK a, b, c, u : /\ a = CloseOpenDev(x) /\ b = [a EXCEPT !.hasDev = FALSE]
                        /\ c = [b EXCEPT !.engines = 0, !.gsl = "none", !.run = {},
                                         !.reader = FALSE, !.ok = TRUE]
                        /\ u = To(c, "idle")
  OBVIOUS
<1>2. Typed(a) /\ Same(x, a) /\ (DevOpen(x) \/ DevClosed(x) => DevClosed(a))
  BY <1>1, CloseOpenStep
<1>3. /\ Typed(b) /\ Same(a, b)
      /\ b.opened = a.opened /\ b.registered = a.registered /\ b.use = a.use
  BY <1>1, <1>2, HasDevKeeps
<1>4. Typed(c) /\ Same(b, c) /\ SameDevice(b, c)
  <2>1. PICK d, e : /\ d = [b EXCEPT !.engines = 0, !.gsl = "none", !.run = {}]
                    /\ e = [d EXCEPT !.reader = FALSE] /\ c = Ok(e)
    BY <1>1 DEF Ok
  <2>2. Typed(d)
    BY ZenonT(40), <1>3, <2>1 DEF Typed, Fields, EngineStates
  <2>3. Same(b, d) /\ SameDevice(b, d)
    BY <1>3, <2>1 DEF Typed, Fields, Same, SameConfig, SameStages, SameDevice
  <2>4. Typed(e) /\ Same(d, e) /\ SameDevice(d, e)
    BY <2>1, <2>2, ReaderKeeps
  <2>5. Typed(c) /\ Same(e, c) /\ SameDevice(e, c)
    BY <2>1, <2>4, OkBadKeep
  <2>. QED  BY <2>3, <2>4, <2>5 DEF Same, SameConfig, SameStages, SameDevice
<1>5. /\ Typed(u) /\ SameConfig(c, u) /\ SameDevice(c, u) /\ u.cur = "idle"
      /\ u.smCfg = c.smCfg
  <2>1. u = To(c, "idle") /\ "idle" \in StNames
    BY <1>1 DEF StNames
  <2>. QED  BY <1>4, <2>1, ToKeeps
<1>6. To(UnloadSoundModel(x), "idle") = u
  BY <1>1 DEF UnloadSoundModel
<1>7. y = u \/ y = Released(u)
  BY <1>6 DEF AfterUnload
<1>8. Typed(y) /\ Same(u, y) /\ SameDevice(u, y)
  BY <1>5, <1>7, ReleasedKeeps DEF Same, SameConfig, SameStages, SameDevice
<1>. QED  BY <1>2, <1>3, <1>4, <1>5, <1>8
          DEF Same, SameConfig, SameStages, SameDevice, DevClosed

\* An unload while the card is down.
LEMMA SsrUnloadStep ==
  ASSUME NEW x, Typed(x), x.cur = "ssr", NEW f, NEW lpi \in BOOLEAN, NEW up, NEW y,
         y = [Process(x, "unload", f, lpi, up) EXCEPT !.model = FALSE, !.currentState = "idle"]
  PROVE  Keeps(x, f, y)
<1>1. PICK a : a = x \/ a = [x EXCEPT !.restore = "idle"]
  OBVIOUS
<1>2. PICK b : b = StSSR(x, "unload")
  OBVIOUS
<1>3. /\ Typed(b) /\ SameStages(x, b) /\ SameDevice(x, b) /\ b.cur = "ssr"
  <2>1. b \in {Ok([x EXCEPT !.restore = "idle"]), Bad(x)}
    BY <1>2 DEF StSSR
  <2>2. CASE b = Bad(x)
    BY <2>2, OkBadKeep DEF Same, SameConfig
  <2>3. CASE b = Ok([x EXCEPT !.restore = "idle"])
    <3>1. PICK c : c = [x EXCEPT !.restore = "idle"]
      OBVIOUS
    <3>2. Typed(c)
      BY <3>1 DEF Typed, Fields
    <3>3. SameStages(x, c) /\ SameDevice(x, c) /\ c.cur = "ssr"
      BY <3>1 DEF Typed, Fields, SameStages, SameDevice
    <3>4. Typed(b) /\ Same(c, b) /\ SameDevice(c, b)
      BY <2>3, <3>1, <3>2, OkBadKeep
    <3>. QED  BY <3>3, <3>4 DEF Same, SameConfig, SameStages, SameDevice
  <2>. QED  BY <2>1, <2>2, <2>3
<1>4. y = [b EXCEPT !.model = FALSE, !.currentState = "idle"]
  BY <1>2 DEF Process
<1>5. Typed(y)
  BY ZenonT(40), <1>3, <1>4 DEF Typed, Fields
<1>6. SameStages(b, y) /\ SameDevice(b, y) /\ y.cur = "ssr" /\ ~y.model
  BY ZenonT(40), <1>3, <1>4 DEF Typed, Fields, SameStages, SameDevice
<1>7. SameStages(x, y) /\ y.cur \notin Running
  BY <1>3, <1>6 DEF SameStages, Running
<1>8. Tied(x) => DevClosed(y) /\ Unset(y)
  BY <1>3, <1>6 DEF SameDevice, Tied, DevClosed, Unset, Resting
<1>. QED  BY <1>5, <1>7, <1>8, KeepsClosed

\* Members that no property speaks of, in the same state and on the same device.
LEMMA MinorKeeps ==
  ASSUME NEW x, Typed(x), NEW v, NEW y,
         \/ y = [x EXCEPT !.currentState = v] /\ v \in {"idle", "opened", "started", "stopped"}
         \/ y = [x EXCEPT !.timer = v] \/ y = [x EXCEPT !.nlpi = v]
         \/ y = [x EXCEPT !.note = v] \/ y = [x EXCEPT !.rejected = v]
         \/ y = [x EXCEPT !.wake = v] /\ v \in Nat
         \/ y = [x EXCEPT !.gsl = v] /\ v \in EngineStates
         \/ y = [x EXCEPT !.run = v] /\ v \subseteq x.stages
         \/ y = CancelDelayedStop(x)
  PROVE  Typed(y) /\ Same(x, y) /\ SameDevice(x, y)
<1>1. CASE y = [x EXCEPT !.currentState = v] /\ v \in {"idle", "opened", "started", "stopped"}
  BY <1>1 DEF Typed, Fields, Same, SameConfig, SameStages, SameDevice
<1>2. CASE y = [x EXCEPT !.timer = v]
  BY <1>2 DEF Typed, Fields, Same, SameConfig, SameStages, SameDevice
<1>3. CASE y = [x EXCEPT !.nlpi = v]
  BY <1>3 DEF Typed, Fields, Same, SameConfig, SameStages, SameDevice
<1>4. CASE y = [x EXCEPT !.note = v]
  BY <1>4 DEF Typed, Fields, Same, SameConfig, SameStages, SameDevice
<1>5. CASE y = [x EXCEPT !.rejected = v]
  BY <1>5 DEF Typed, Fields, Same, SameConfig, SameStages, SameDevice
<1>6. CASE y = [x EXCEPT !.wake = v] /\ v \in Nat
  BY SMTT(20), <1>6 DEF Typed, Fields, Same, SameConfig, SameStages, SameDevice
<1>7. CASE y = [x EXCEPT !.gsl = v] /\ v \in EngineStates
  BY SMTT(20), <1>7 DEF Typed, Fields, Same, SameConfig, SameStages, SameDevice
<1>8. CASE y = [x EXCEPT !.run = v] /\ v \subseteq x.stages
  BY <1>8 DEF Typed, Fields, Same, SameConfig, SameStages, SameDevice
<1>9. CASE y = CancelDelayedStop(x)
  BY ZenonT(40), <1>9
     DEF CancelDelayedStop, Typed, Fields, Same, SameConfig, SameStages, SameDevice
<1>. QED  BY <1>1, <1>2, <1>3, <1>4, <1>5, <1>6, <1>7, <1>8, <1>9

\* What is to be restored may be noted, or forgotten once the card is back.
LEMMA RestoreStep ==
  ASSUME NEW x, Typed(x), NEW f, NEW r \in {"none", "idle", "loaded", "active"},
         x.cur # "ssr", NEW y, y = [x EXCEPT !.restore = r]
  PROVE  /\ Keeps(x, f, y) /\ SameStages(x, y) /\ SameDevice(x, y) /\ y.cur = x.cur
         /\ y.paused = x.paused /\ y.smCfg = x.smCfg /\ y.model = x.model
<1>1. Typed(y)
  BY DEF Typed, Fields
<1>2. /\ SameStages(x, y) /\ SameDevice(x, y) /\ y.cur = x.cur /\ y.paused = x.paused
      /\ y.smCfg = x.smCfg /\ y.model = x.model
  BY DEF Typed, Fields, SameStages, SameDevice
<1>. QED  BY <1>1, <1>2 DEF Keeps, SameStages, SameDevice, Quiet, Tied, Unset,
                            Follows, Dev, DevClosed, DevOpen, DevRuns

\* The stream is taken down without a model.
LEMMA SsrStep ==
  ASSUME NEW x, Typed(x), x.cur = "idle", NEW f, NEW y, y = To(x, "ssr")
  PROVE  Keeps(x, f, y)
<1>1. /\ Typed(y) /\ SameConfig(x, y) /\ SameDevice(x, y) /\ y.cur = "ssr"
      /\ y.smCfg = x.smCfg
  <2>1. "ssr" \in StNames
    BY DEF StNames
  <2>. QED  BY <2>1, ToKeeps
<1>2. Tied(x) => DevClosed(y) /\ (y.smCfg \/ Unset(y))
  BY <1>1 DEF SameConfig, SameDevice, Tied, DevClosed, Unset, Resting
<1>. QED  BY <1>1, <1>2, KeepsClosed DEF SameConfig, Running

\* ST_EV_SSR_ONLINE.
LEMMA OnlineStep ==
  ASSUME NEW x, Typed(x), x.cur = "ssr", NEW f, NEW lpi \in BOOLEAN, NEW up, NEW y,
         y = Online(x, f, lpi, up)
  PROVE  Keeps(x, f, y)
<1>0. Tied(x) => DevClosed(x) /\ (x.smCfg \/ Unset(x))
  BY DEF Tied, Resting
<1>1. CASE ~x.model
  <2>1. PICK a : a = To(x, "idle") /\ y = Ok(a)
    BY <1>1 DEF Online
  <2>2. /\ Typed(a) /\ SameConfig(x, a) /\ SameDevice(x, a) /\ a.cur = "idle"
        /\ a.smCfg = x.smCfg
    <3>1. "idle" \in StNames
      BY DEF StNames
    <3>. QED  BY <2>1, <3>1, ToKeeps
  <2>3. Typed(y) /\ Same(a, y) /\ SameDevice(a, y)
    BY <2>1, <2>2, OkBadKeep
  <2>4. SameStages(x, y) /\ y.cur \notin Running
    BY <2>2, <2>3 DEF Same, SameConfig, SameStages, Running
  <2>5. Tied(x) => DevClosed(y) /\ (y.smCfg \/ Unset(y))
    BY <1>0, <1>1, <2>2, <2>3 DEF Same, SameConfig, SameDevice, DevClosed, Unset, Resting
  <2>. QED  BY <2>3, <2>4, <2>5, KeepsClosed
<1>2. CASE x.model
  <2>1. PICK r : r = IF x.restore # "idle" THEN x.restore
                     ELSE CASE x.currentState = "started" -> "active"
                            [] x.currentState \in {"opened", "stopped"} -> "loaded"
                            [] OTHER -> "idle"
    OBVIOUS
  <2>2. /\ r \in {"none", "idle", "loaded", "active"}
        /\ x.restore \in {"loaded", "active"} => r = x.restore
    BY <2>1 DEF Typed
  <2>3. PICK i0, i, l, c, a :
          /\ i0 = [x EXCEPT !.restore = r] /\ i = To(i0, "idle")
          /\ l = LoadSoundModel(i, f, lpi, up)
          /\ c = (IF l.cfg THEN SendRecognitionConfig(l, f) ELSE l)
          /\ a = StartRecognition(c, f, up)
    OBVIOUS
  <2>4. PICK end : /\ y = IF end.ok THEN [end EXCEPT !.restore = "none"] ELSE end
                   /\ \/ end = Ok(i) /\ r \notin {"loaded", "active"}
                      \/ end = l /\ ~l.ok
                      \/ end = c /\ l.ok
                      \/ end = a /\ l.ok
    <3>1. PICK e : e = IF r \notin {"loaded", "active"} THEN Ok(i)
                       ELSE IF ~l.ok THEN l ELSE IF ~c.ok THEN c
                       ELSE IF r = "active" THEN a ELSE c
      OBVIOUS
    <3>2. y = IF e.ok THEN [e EXCEPT !.restore = "none"] ELSE e
      <4>1. i = To([x EXCEPT !.restore = r], "idle")
        BY <2>3
      <4>. QED  BY <1>2, <2>1, <2>3, <3>1, <4>1, Zenon DEF Online
    <3>. QED  BY <3>1, <3>2
  <2>5. /\ Typed(i0) /\ SameStages(x, i0) /\ SameDevice(x, i0) /\ i0.smCfg = x.smCfg
    <3>1. Typed(i0)
      BY <2>2, <2>3 DEF Typed, Fields
    <3>. QED  BY <2>3, <3>1 DEF Typed, Fields, SameStages, SameDevice
  <2>6. /\ Typed(i) /\ SameStages(x, i) /\ SameDevice(x, i) /\ i.cur = "idle"
        /\ i.smCfg = x.smCfg
    <3>1. "idle" \in StNames
      BY DEF StNames
    <3>2. /\ Typed(i) /\ SameConfig(i0, i) /\ SameDevice(i0, i) /\ i.cur = "idle"
          /\ i.smCfg = i0.smCfg
      <4>1. i = To(i0, "idle")
        BY <2>3
      <4>. QED  BY <2>5, <3>1, <4>1, ToKeeps
    <3>. QED  BY <2>5, <3>2 DEF SameConfig, SameStages, SameDevice
  <2>7. /\ Typed(l) /\ SameStages(i, l) /\ l.cur \in {"idle", "loaded"} /\ l.smCfg
        /\ (l.ok => l.cur = "loaded") /\ (DevClosed(i) => DevClosed(l))
    BY <2>3, <2>6, LoadKeeps
  <2>8. Keeps(x, f, l) /\ l.second = x.second
    <3>1. SameStages(x, l) /\ l.cur \notin Running
      BY <2>6, <2>7 DEF SameStages, Running
    <3>2. Tied(x) => DevClosed(l)
      BY <1>0, <2>6, <2>7 DEF SameDevice, DevClosed
    <3>. QED  BY <2>7, <3>1, <3>2, KeepsClosed DEF SameStages
  <2>9. Typed(c) /\ Same(l, c) /\ SameDevice(l, c)
    <3>1. CASE l.cfg
      BY <2>3, <2>7, <3>1, SendConfigKeeps
    <3>2. CASE ~l.cfg
      BY <2>3, <2>7, <3>2 DEF Same, SameConfig, SameStages, SameDevice
    <3>. QED  BY <3>1, <3>2
  <2>10. Keeps(x, f, c) /\ c.second = x.second
    BY <2>8, <2>9, KeepsThen DEF Same, SameConfig, SameStages
  <2>11. l.ok => Keeps(x, f, a) /\ a.cur \in {"loaded", "active"} /\ a.second = x.second
    <3>1. SUFFICES ASSUME l.ok
          PROVE  Keeps(x, f, a) /\ a.cur \in {"loaded", "active"} /\ a.second = x.second
      OBVIOUS
    <3>2. c.cur = "loaded"
      BY <2>7, <2>9, <3>1 DEF Same
    <3>3. (a.cur = c.cur \/ a.cur = "active") /\ a.second = c.second
      BY <2>3, <2>9, StartRecognitionKeeps DEF SameConfig, SameStages
    <3>4. Keeps(c, f, a)
      BY <2>3, <2>9, <3>2, StartRecognitionStep DEF Running
    <3>. QED  BY <2>10, <3>2, <3>3, <3>4, KeepsTrans
  <2>12. Keeps(x, f, end) /\ end.cur # "ssr" /\ end.second = x.second
    <3>1. CASE end = Ok(i) /\ r \notin {"loaded", "active"}
      <4>1. Typed(end) /\ Same(i, end) /\ SameDevice(i, end)
        BY <2>6, <3>1, OkBadKeep
      <4>2. SameStages(x, end) /\ end.cur = "idle"
        BY <2>6, <4>1 DEF Same, SameConfig, SameStages
      <4>3. Tied(x) => DevClosed(end) /\ end.smCfg
        BY <1>0, <1>2, <2>2, <2>6, <3>1, <4>1 DEF Same, SameDevice, DevClosed, Unset
      <4>. QED  BY <4>1, <4>2, <4>3, KeepsClosed DEF Running, SameStages
    <3>2. CASE end = l
      BY <2>7, <2>8, <3>2
    <3>3. CASE end = c
      BY <2>7, <2>9, <2>10, <3>3 DEF Same
    <3>4. CASE end = a /\ l.ok
      BY <2>11, <3>4
    <3>. QED  BY <2>4, <3>1, <3>2, <3>3, <3>4
  <2>13. CASE end.ok
    <3>1. Typed(end) /\ y = [end EXCEPT !.restore = "none"]
      BY <2>4, <2>12, <2>13 DEF Keeps
    <3>2. Keeps(end, f, y)
      BY <2>12, <3>1, RestoreStep
    <3>. QED  BY <2>12, <3>2, KeepsTrans
  <2>14. CASE ~end.ok
    BY <2>4, <2>12, <2>14
  <2>. QED  BY <2>13, <2>14
<1>. QED  BY <1>1, <1>2

-----------------------------------------------------------------------------
(* The actions.                                                            *)

\* A second stage that reports has come to a verdict, the first stage to a detection.
ArgOK ==
  /\ pc = [t \in Threads |-> pc[t]] /\ arg = [t \in Threads |-> arg[t]]
  /\ pc["gsl"] \in {"try", "check"} => arg["gsl"] = "gmm"
  /\ \A w \in SecondStages : pc[w] \in {"try", "check"} => arg[w] \in {"accept", "reject"}

\* What a step does to the stream: it is an event with a step that may fail, the verdict of
\* a second stage, or the unload a thread waited with.
ByEvent == \E f \in Fault : Keeps(s, f, s')
ByVerdict ==
  /\ \E w \in SecondStages : pc[w] \in {"try", "check"}
  /\ Typed(s') /\ s'.stages = s.stages /\ s'.notify = s.notify /\ (Quiet(s) => Quiet(s'))
ByJoin ==
  /\ \E t \in {"ctl", "rm"} : \/ pc[t] = "join" /\ pc' = [pc EXCEPT ![t] = "closed"]
                              \/ pc[t] = "join" /\ pc' = [pc EXCEPT ![t] = "idle"]
  /\ Typed(s') /\ s'.stages = s.stages /\ s'.notify = s.notify /\ s'.cur \notin Running
  /\ Tied(s) /\ s.cur \notin Running => Tied(s')
Moves == ByEvent \/ ByVerdict \/ ByJoin

\* An event on the stream, or on one that differs in what no property speaks of.
LEMMA EventMoves ==
  ASSUME NEW x, Typed(x), Same(s, x), SameDevice(s, x), use_lpi_ \in BOOLEAN, NEW f \in Fault,
         NEW ev, ev # "unload", NEW y, y = Event(x, ev, f)
  PROVE  Keeps(s, f, y) /\ Typed(y)
<1>1. Keeps(x, f, y)
  BY ProcessStep DEF Event
<1>. QED  BY <1>1, KeepsAfter DEF Keeps

\* A stream that is left alone.
LEMMA SelfSame == ASSUME NEW x PROVE Same(x, x) /\ SameDevice(x, x)
BY DEF Same, SameConfig, SameStages, SameDevice

\* Both halves of a switch.
LEMMA SwitchMoves ==
  ASSUME Typed(s), use_lpi_ \in BOOLEAN, NEW t, SwitchOff(t) \/ SwitchOn(t) \/ Defer(t)
  PROVE  ByEvent
<1>0. None \in Fault /\ Same(s, s) /\ SameDevice(s, s)
  BY SelfSame DEF Fault
<1>1. CASE s' = s
  <2>1. Keeps(s, None, s')
    BY <1>0, <1>1, KeepsSame
  <2>. QED  BY <1>0, <2>1 DEF ByEvent
<1>2. CASE \E f \in Fault : s' = Event(s, "off", f) \/ s' = Event(s, "on", f)
  BY <1>0, <1>2, EventMoves DEF ByEvent
<1>. QED  BY <1>0, <1>1, <1>2 DEF SwitchOff, SwitchOn, Defer

\* Both halves of close.
LEMMA CloseMoves ==
  ASSUME Typed(s), use_lpi_ \in BOOLEAN, ArgOK, CloseBegin \/ CloseJoin
  PROVE  Moves
<1>0. None \in Fault
  BY DEF Fault
<1>1. CASE CloseBegin
  <2>1. CASE s.cur = "ssr"
    <3>1. s' = [Process(s, "unload", None, use_lpi_, Up)
                  EXCEPT !.model = FALSE, !.currentState = "idle"]
      BY <1>1, <2>1 DEF CloseBegin, Event
    <3>2. Keeps(s, None, s')
      BY <2>1, <3>1, SsrUnloadStep
    <3>. QED  BY <1>0, <3>2 DEF Moves, ByEvent
  <2>2. CASE s.cur # "ssr"
    <3>1. s' = BeforeUnload(s)
      BY <1>1, <2>2 DEF CloseBegin
    <3>. QED  BY <1>0, <3>1, BeforeUnloadStep DEF Moves, ByEvent
  <2>. QED  BY <2>1, <2>2
<1>2. CASE CloseJoin
  <2>1. PICK a, b, from : /\ a = AfterUnload(s, from) /\ b = Released(a)
                          /\ s' = [b EXCEPT !.model = FALSE, !.currentState = "idle"]
    BY <1>2 DEF CloseJoin
  <2>2. /\ Typed(a) /\ SameConfig(s, a) /\ a.cur = "idle"
        /\ DevOpen(s) \/ DevClosed(s) => DevClosed(a)
    BY <2>1, AfterUnloadKeeps
  <2>3. Typed(b) /\ Same(a, b) /\ SameDevice(a, b)
    BY <2>1, <2>2, ReleasedKeeps
  <2>4. Typed(s')
    BY ZenonT(40), <2>1, <2>3 DEF Typed, Fields
  <2>5. SameStages(b, s') /\ SameDevice(b, s') /\ s'.cur = b.cur /\ ~s'.model
    BY <2>1, <2>3 DEF Typed, Fields, SameStages, SameDevice
  <2>6. s'.stages = s.stages /\ s'.notify = s.notify /\ s'.cur = "idle"
    BY <2>2, <2>3, <2>5 DEF Same, SameConfig, SameStages
  <2>7. Tied(s) /\ s.cur \notin Running => DevClosed(s')
    BY <2>2, <2>3, <2>5 DEF Tied, Dev, SameDevice, DevClosed
  <2>8. DevClosed(s') => Tied(s')
    BY <2>5, <2>6 DEF Tied, Dev, DevClosed, DevRuns, Unset, Running, Resting
  <2>9. pc["ctl"] = "join" /\ pc' = [pc EXCEPT !["ctl"] = "closed"]
    BY <1>2 DEF CloseJoin, Goto
  <2>10. s'.cur \notin Running
    BY <2>6 DEF Running
  <2>11. \E t \in {"ctl", "rm"} : \/ pc[t] = "join" /\ pc' = [pc EXCEPT ![t] = "closed"]
                                  \/ pc[t] = "join" /\ pc' = [pc EXCEPT ![t] = "idle"]
    BY <2>9
  <2>. QED  BY <2>4, <2>6, <2>7, <2>8, <2>10, <2>11 DEF Moves, ByJoin
<1>. QED  BY <1>1, <1>2

\* The client.
LEMMA ClientMoves ==
  ASSUME Typed(s), use_lpi_ \in BOOLEAN, ArgOK, Client
  PROVE  Moves
<1>0. None \in Fault /\ Same(s, s) /\ SameDevice(s, s)
  BY SelfSame DEF Fault
<1>1. ASSUME NEW y, Typed(y), Same(s, y), SameDevice(s, y), s' = y
      PROVE  Moves
  BY <1>0, <1>1, KeepsSame DEF Moves, ByEvent
<1>2. ASSUME NEW f \in Fault, NEW y, NEW c \in {"idle", "opened", "started", "stopped"},
             Keeps(s, f, y), s' = y \/ s' = [y EXCEPT !.currentState = c]
      PROVE  Moves
  <2>1. Typed(y)
    BY <1>2 DEF Keeps
  <2>2. Typed(s') /\ Same(y, s') /\ SameDevice(y, s')
    <3>1. CASE s' = y
      BY <2>1, <3>1, SelfSame
    <3>2. CASE s' = [y EXCEPT !.currentState = c]
      BY <2>1, <3>2, MinorKeeps
    <3>. QED  BY <1>2, <3>1, <3>2
  <2>3. Keeps(s, f, s')
    BY <1>2, <2>2, KeepsThen
  <2>. QED  BY <2>3 DEF Moves, ByEvent
<1>3. CASE UNCHANGED s
  BY <1>0, <1>1, <1>3
<1>4. CASE Load
  <2>1. PICK f \in Fault : \E n \in {Event(s, "load", f)} :
           s' = IF n.ok THEN [n EXCEPT !.currentState = "opened"] ELSE n
    BY <1>4 DEF Load
  <2>2. PICK n : n = Event(s, "load", f)
    OBVIOUS
  <2>3. Keeps(s, f, n)
    BY <1>0, <2>2, EventMoves
  <2>. QED  BY <1>2, <2>1, <2>2, <2>3
<1>5. CASE Config
  <2>1. PICK f \in Fault : s' = Event(s, "config", f)
    BY <1>5 DEF Config
  <2>. QED  BY <1>0, <2>1, EventMoves DEF Moves, ByEvent
<1>6. CASE Read
  <2>1. PICK a : a = CancelDelayedStop(s) /\ s' = [a EXCEPT !.nlpi = TRUE]
    BY <1>6 DEF Read
  <2>2. Typed(a) /\ Same(s, a) /\ SameDevice(s, a)
    BY <2>1, MinorKeeps
  <2>3. Typed(s') /\ Same(a, s') /\ SameDevice(a, s')
    BY <2>1, <2>2, MinorKeeps
  <2>4. Same(s, s') /\ SameDevice(s, s')
    BY <2>2, <2>3 DEF Same, SameConfig, SameStages, SameDevice
  <2>. QED  BY <1>1, <2>3, <2>4
<1>7. CASE StopBuffering
  <2>1. s' = Event(s, "stopBuffering", None)
    BY <1>7 DEF StopBuffering
  <2>. QED  BY <1>0, <2>1, EventMoves DEF Moves, ByEvent
<1>8. CASE Start
  <2>1. PICK a, b : a = [s EXCEPT !.currentState = "started"] /\ b = [a EXCEPT !.rejected = FALSE]
    OBVIOUS
  <2>2. Typed(a) /\ Same(s, a) /\ SameDevice(s, a)
    BY <2>1, MinorKeeps
  <2>3. Typed(b) /\ Same(a, b) /\ SameDevice(a, b)
    BY <2>1, <2>2, MinorKeeps
  <2>4. Same(s, b) /\ SameDevice(s, b)
    BY <2>2, <2>3 DEF Same, SameConfig, SameStages, SameDevice
  <2>5. PICK f \in Fault : \E n \in {Event(b, "start", f)} :
          s' = IF n.ok THEN n ELSE [n EXCEPT !.currentState = s.currentState]
    BY <1>8, <2>1 DEF Start
  <2>6. PICK n : n = Event(b, "start", f)
    OBVIOUS
  <2>7. Keeps(s, f, n)
    BY <2>3, <2>4, <2>6, EventMoves
  <2>8. s.currentState \in {"idle", "opened", "started", "stopped"}
    BY DEF Typed
  <2>. QED  BY <1>2, <2>5, <2>6, <2>7, <2>8
<1>9. CASE Stop
  <2>1. PICK a : a = [s EXCEPT !.currentState = "stopped"] /\ s' = Event(a, "stop", None)
    BY <1>9 DEF Stop
  <2>2. Typed(a) /\ Same(s, a) /\ SameDevice(s, a)
    BY <2>1, MinorKeeps
  <2>. QED  BY <1>0, <2>1, <2>2, EventMoves DEF Moves, ByEvent
<1>10. CASE CloseBegin \/ CloseJoin
  BY <1>10, CloseMoves
<1>11. CASE Deleted
  <2>1. s' = [s EXCEPT !.timer = "exited"]
    BY <1>11 DEF Deleted
  <2>. QED  BY <1>1, <2>1, MinorKeeps
<1>12. CASE Switch("ctl")
  BY <1>12, SwitchMoves DEF Switch, Moves
<1>13. CASE CallStart \/ CallStop \/ LockActive \/ Delete
  BY <1>3, <1>13 DEF CallStart, CallStop, LockActive, Delete
<1>. QED  BY <1>4, <1>5, <1>6, <1>7, <1>8, <1>9, <1>10, <1>11, <1>12, <1>13
          DEF Client, Control

\* The timer of the delayed stop.
LEMMA TimerMoves ==
  ASSUME Typed(s), use_lpi_ \in BOOLEAN, Timer
  PROVE  ByEvent
<1>0. None \in Fault /\ Same(s, s) /\ SameDevice(s, s)
  BY SelfSame DEF Fault
<1>1. ASSUME NEW y, Keeps(s, None, y), Typed(y), NEW v, s' = [y EXCEPT !.timer = v]
      PROVE  ByEvent
  <2>1. Typed(s') /\ Same(y, s') /\ SameDevice(y, s')
    BY <1>1, MinorKeeps
  <2>2. Keeps(s, None, s')
    BY <1>1, <2>1, KeepsThen
  <2>. QED  BY <1>0, <2>2 DEF ByEvent
<1>2. Keeps(s, None, s)
  BY <1>0, KeepsSame
<1>3. CASE TimerEnds
  <2>1. PICK v : s' = [s EXCEPT !.timer = v]
    BY <1>3 DEF TimerEnds
  <2>. QED  BY <1>1, <1>2, <2>1
<1>4. CASE TimerFires
  <2>1. PICK y : y = IF s.pending THEN Event(s, "stop", None) ELSE s
    OBVIOUS
  <2>2. s' = [y EXCEPT !.timer = "fired"]
    BY <1>4, <2>1 DEF TimerFires
  <2>3. CASE y = s
    BY <1>1, <1>2, <2>2, <2>3
  <2>4. CASE y = Event(s, "stop", None)
    <3>1. Keeps(s, None, y) /\ Typed(y)
      BY <1>0, <2>4, EventMoves
    <3>. QED  BY <1>1, <2>2, <3>1
  <2>. QED  BY <2>1, <2>3, <2>4
<1>5. CASE TimerBack
  <2>1. s' = [s EXCEPT !.timer = "start"]
    BY <1>5 DEF TimerBack
  <2>. QED  BY <1>1, <1>2, <2>1
<1>. QED  BY <1>3, <1>4, <1>5 DEF Timer

\* A report, in the state that takes it.
LEMMA ReportMoves ==
  ASSUME Typed(s), use_lpi_ \in BOOLEAN, ArgOK, NEW t \in {"gsl"} \cup SecondStages, TryLock(t)
  PROVE  ByEvent \/ ByVerdict
<1>0. None \in Fault /\ Same(s, s) /\ SameDevice(s, s)
  BY SelfSame DEF Fault
<1>1. CASE ~Proper(t)
  <2>1. s' = s
    BY <1>1 DEF TryLock, Refuse
  <2>2. Keeps(s, None, s')
    BY <1>0, <2>1, KeepsSame
  <2>. QED  BY <1>0, <2>2 DEF ByEvent
<1>2. CASE Proper(t)
  <2>1. pc[t] \in {"try", "check"} /\ \E owner : Report(t, owner)
    BY <1>2 DEF TryLock
  <2>2. PICK n : /\ n = Reported(t)
                 /\ \/ s' = n
                    \/ s' = [PostDelayedStop(n) EXCEPT !.note = "none",
                               !.currentState = "stopped", !.reader = TRUE]
    BY <2>1 DEF Report
  <2>3. ASSUME Typed(n)  PROVE Typed(s') /\ Same(n, s') /\ SameDevice(n, s')
    <3>1. CASE s' = n
      BY <2>3, <3>1, SelfSame
    <3>2. CASE s' = [PostDelayedStop(n) EXCEPT !.note = "none",
                               !.currentState = "stopped", !.reader = TRUE]
      <4>1. PICK a, b, c : /\ a = PostDelayedStop(n) /\ b = [a EXCEPT !.note = "none"]
                           /\ c = [b EXCEPT !.currentState = "stopped"]
                           /\ s' = [c EXCEPT !.reader = TRUE]
        BY <3>2
      <4>2. Typed(a) /\ Same(n, a) /\ SameDevice(n, a)
        BY <2>3, <4>1, PostKeeps
      <4>3. Typed(b) /\ Same(a, b) /\ SameDevice(a, b)
        BY <4>1, <4>2, MinorKeeps
      <4>4. Typed(c) /\ Same(b, c) /\ SameDevice(b, c)
        BY <4>1, <4>3, MinorKeeps
      <4>5. Typed(s') /\ Same(c, s') /\ SameDevice(c, s')
        BY <4>1, <4>4, ReaderKeeps
      <4>. QED  BY <4>2, <4>3, <4>4, <4>5 DEF Same, SameConfig, SameStages, SameDevice
    <3>. QED  BY <2>2, <3>1, <3>2
  <2>4. CASE t = "gsl"
    <3>1. arg[t] = "gmm"
      BY <2>1, <2>4 DEF ArgOK
    <3>2. PICK a : a = [s EXCEPT !.wake = s.wake + 1]
      OBVIOUS
    <3>3. n = Event(a, "detected", None)
      BY <2>2, <3>1, <3>2 DEF Reported
    <3>4. Typed(a) /\ Same(s, a) /\ SameDevice(s, a)
      <4>1. s.wake + 1 \in Nat
        BY DEF Typed
      <4>. QED  BY <3>2, <4>1, MinorKeeps
    <3>5. Keeps(s, None, n) /\ Typed(n)
      BY <1>0, <3>3, <3>4, EventMoves
    <3>6. Keeps(s, None, s')
      BY <2>3, <3>5, KeepsThen
    <3>. QED  BY <1>0, <3>6 DEF ByEvent
  <2>5. CASE t \in SecondStages
    <3>1. arg[t] \in {"accept", "reject"} /\ s.cur = "buffering" /\ t # "gsl"
      BY <1>2, <2>1, <2>5, TriggerAssumption DEF ArgOK, Proper
    <3>2. n = Accepted(s, t) \/ n = Rejected(s, t, None, Up)
      BY <2>2, <3>1 DEF Reported
    <3>3. /\ Typed(n) /\ n.stages = s.stages /\ n.notify = s.notify
          /\ Quiet(s) => Quiet(n)
      BY <3>1, <3>2, VerdictStep
    <3>4. Typed(s') /\ Same(n, s')
      BY <2>3, <3>3
    <3>. QED  BY <2>1, <2>5, <3>3, <3>4 DEF ByVerdict, Same, SameConfig, SameStages, Quiet
  <2>. QED  BY <2>4, <2>5
<1>. QED  BY <1>1, <1>2

\* SetEngineDetectionState.
LEMMA SetStateMoves ==
  ASSUME Typed(s), use_lpi_ \in BOOLEAN, ArgOK, NEW t \in {"gsl"} \cup SecondStages,
         SetEngineDetectionState(t)
  PROVE  ByEvent \/ ByVerdict
<1>0. None \in Fault /\ Same(s, s) /\ SameDevice(s, s)
  BY SelfSame DEF Fault
<1>1. CASE TryLock(t)
  BY <1>1, ReportMoves
<1>2. CASE TryGivesUp(t) \/ Relock(t) \/ Tail(t)
  <2>1. s' = s \/ s' = Released(s)
    BY <1>2 DEF TryGivesUp, Refuse, Relock, Tail
  <2>2. Typed(s') /\ Same(s, s') /\ SameDevice(s, s')
    BY <1>0, <2>1, ReleasedKeeps
  <2>3. Keeps(s, None, s')
    BY <2>2, KeepsSame
  <2>. QED  BY <1>0, <2>3 DEF ByEvent
<1>. QED  BY <1>1, <1>2 DEF SetEngineDetectionState

\* The engines.
LEMMA EngineMoves ==
  ASSUME Typed(s), use_lpi_ \in BOOLEAN, ArgOK,
         Detect \/ Gsl \/ \E w \in SecondStages : SecondStage(w)
  PROVE  Moves
<1>0. None \in Fault /\ Same(s, s) /\ SameDevice(s, s)
  BY SelfSame DEF Fault
<1>1. ASSUME NEW y, Typed(y), Same(s, y), SameDevice(s, y), s' = y \/ s' = Released(y)
      PROVE  Moves
  <2>1. Typed(s') /\ Same(y, s') /\ SameDevice(y, s')
    BY <1>1, ReleasedKeeps, SelfSame
  <2>2. Same(s, s') /\ SameDevice(s, s')
    BY <1>1, <2>1 DEF Same, SameConfig, SameStages, SameDevice
  <2>3. Keeps(s, None, s')
    BY <2>1, <2>2, KeepsSame
  <2>. QED  BY <1>0, <2>3 DEF Moves, ByEvent
<1>2. CASE Detect
  <2>1. PICK a : a = [s EXCEPT !.gsl = "detected"] /\ s' = [a EXCEPT !.wake = a.wake + 1]
    BY <1>2 DEF Detect
  <2>2. Typed(a) /\ Same(s, a) /\ SameDevice(s, a)
    BY <2>1, MinorKeeps DEF EngineStates
  <2>3. a.wake + 1 \in Nat
    BY <2>2 DEF Typed
  <2>4. Typed(s') /\ Same(a, s') /\ SameDevice(a, s')
    BY <2>1, <2>2, <2>3, MinorKeeps
  <2>5. Same(s, s') /\ SameDevice(s, s')
    BY <2>2, <2>4 DEF Same, SameConfig, SameStages, SameDevice
  <2>. QED  BY <1>1, <2>4, <2>5
<1>3. CASE GslTake
  <2>1. s' = Released(s) \/ s' = [s EXCEPT !.gsl = IF Captured THEN "buffering" ELSE s.gsl]
    BY <1>3 DEF GslTake
  <2>2. CASE s' = Released(s)
    BY <1>0, <1>1, <2>2
  <2>3. CASE s' = [s EXCEPT !.gsl = IF Captured THEN "buffering" ELSE s.gsl]
    <3>1. (IF Captured THEN "buffering" ELSE s.gsl) \in EngineStates
      BY DEF Typed, EngineStates
    <3>2. Typed(s') /\ Same(s, s') /\ SameDevice(s, s')
      BY <2>3, <3>1, MinorKeeps
    <3>. QED  BY <1>1, <3>2
  <2>. QED  BY <2>1, <2>2, <2>3
<1>4. CASE GslCut \/ GslReported \/ GslBuffer
  <2>1. PICK a : a = RestartActive(s)
    OBVIOUS
  <2>2. Typed(a) /\ Same(s, a) /\ SameDevice(s, a)
    BY <2>1, EnginesKeep
  <2>3. s' = s \/ s' = Released(s) \/ s' = Released(a)
    BY <1>4, <2>1 DEF GslCut, GslReported, GslBuffer
  <2>. QED  BY <1>0, <1>1, <2>2, <2>3
<1>5. CASE SetEngineDetectionState("gsl")
  BY <1>5, SetStateMoves DEF Moves
<1>6. ASSUME NEW w \in SecondStages, SecondStage(w)
      PROVE  Moves
  <2>1. CASE Verdict(w)
    <3>1. s' = s
      BY <2>1 DEF Verdict
    <3>. QED  BY <1>0, <1>1, <3>1
  <2>2. CASE Rest(w)
    <3>1. PICK r : r = s.run \ {w} /\ s' = [s EXCEPT !.run = r]
      BY <2>2 DEF Rest
    <3>2. r \subseteq s.stages
      BY <3>1 DEF Typed
    <3>3. Typed(s') /\ Same(s, s') /\ SameDevice(s, s')
      BY <3>1, <3>2, MinorKeeps
    <3>. QED  BY <1>1, <3>3
  <2>3. CASE SetEngineDetectionState(w)
    BY <2>3, SetStateMoves DEF Moves
  <2>4. CASE Switch(w)
    BY <2>4, SwitchMoves DEF Switch, Moves
  <2>. QED  BY <1>6, <2>1, <2>2, <2>3, <2>4 DEF SecondStage
<1>. QED  BY <1>2, <1>3, <1>4, <1>5, <1>6 DEF Gsl

\* The manager.
LEMMA ManagerMoves ==
  ASSUME Typed(s), use_lpi_ \in BOOLEAN, ArgOK, Manager
  PROVE  Moves
<1>0. None \in Fault /\ Same(s, s) /\ SameDevice(s, s)
  BY SelfSame DEF Fault
<1>1. ASSUME NEW y, Typed(y), Same(s, y), SameDevice(s, y), s' = y
      PROVE  Moves
  BY <1>0, <1>1, KeepsSame DEF Moves, ByEvent
<1>2. ASSUME NEW f \in Fault, NEW ev, ev # "unload", s' = Event(s, ev, f)
      PROVE  Moves
  BY <1>0, <1>2, EventMoves DEF Moves, ByEvent
<1>3. CASE \/ BeginPause \/ BeginResume \/ BeginOthers \/ BeginDevice \/ Concurrency \/ LoseCard
           \/ CardBack \/ Aborted
  <2>1. s' = s
    BY <1>3 DEF BeginPause, BeginResume, BeginOthers, BeginDevice, Concurrency, LoseCard,
                CardBack, Aborted, noBegin
  <2>. QED  BY <1>0, <1>1, <2>1
<1>4. CASE SwitchOff("rm") \/ SwitchOn("rm")
  BY <1>4, SwitchMoves DEF Moves
<1>5. CASE Pause
  <2>1. PICK n : /\ n = Event(s, "pause", None)
                 /\ s' = n \/ s' = [n EXCEPT !.note = "none", !.currentState = "stopped"]
    BY <1>5 DEF Pause
  <2>2. Keeps(s, None, n) /\ Typed(n)
    BY <1>0, <2>1, EventMoves
  <2>3. PICK a : a = [n EXCEPT !.note = "none"]
    OBVIOUS
  <2>4. Typed(a) /\ Same(n, a) /\ SameDevice(n, a)
    BY <2>2, <2>3, MinorKeeps
  <2>5. CASE s' = n
    BY <1>0, <2>2, <2>5 DEF Moves, ByEvent
  <2>6. CASE s' = [n EXCEPT !.note = "none", !.currentState = "stopped"]
    <3>1. s' = [a EXCEPT !.currentState = "stopped"]
      BY <2>3, <2>6
    <3>2. Typed(s') /\ Same(a, s') /\ SameDevice(a, s')
      BY <2>4, <3>1, MinorKeeps
    <3>3. Keeps(s, None, s')
      BY <2>2, <2>4, <3>2, KeepsThen
    <3>. QED  BY <1>0, <3>3 DEF Moves, ByEvent
  <2>. QED  BY <2>1, <2>5, <2>6
<1>6. CASE AbortEnds
  <2>1. s' = s \/ s' = Released(s)
    BY <1>6 DEF AbortEnds
  <2>2. Typed(s') /\ Same(s, s') /\ SameDevice(s, s')
    BY <1>0, <2>1, ReleasedKeeps
  <2>. QED  BY <1>1, <2>2
<1>7. CASE Resume
  BY <1>0, <1>2, <1>7 DEF Resume
<1>8. CASE StopOthers
  BY <1>0, <1>2, <1>8 DEF StopOthers
<1>9. CASE StartOthers
  BY <1>0, <1>2, <1>9 DEF StartOthers
<1>10. CASE Disconnect
  BY <1>0, <1>2, <1>10 DEF Disconnect
<1>11. CASE Connect
  BY <1>0, <1>2, <1>11 DEF Connect
<1>12. CASE SsrDown
  <2>1. PICK n, r : r = ToRestore(s) /\ n = [s EXCEPT !.restore = r]
    OBVIOUS
  <2>2. CASE s.cur = "ssr"
    BY <1>0, <1>1, <1>12, <2>2 DEF SsrDown
  <2>3. CASE s.cur # "ssr"
    <3>1. r \in {"none", "idle", "loaded", "active"}
      BY <2>1 DEF ToRestore, Typed
    <3>2. /\ Keeps(s, None, n) /\ SameStages(s, n) /\ Typed(n) /\ n.cur = s.cur
      BY <2>1, <2>3, <3>1, RestoreStep DEF Keeps
    <3>3. (s' = To(n, "ssr") /\ n.cur = "idle") \/ s' = BeforeUnload(n)
      BY <1>12, <2>1, <2>3, <3>2 DEF SsrDown
    <3>4. Keeps(n, None, s')
      BY <3>2, <3>3, SsrStep, BeforeUnloadStep
    <3>5. Keeps(s, None, s')
      BY <3>2, <3>4, KeepsTrans DEF SameStages
    <3>. QED  BY <1>0, <3>5 DEF Moves, ByEvent
  <2>. QED  BY <2>2, <2>3
<1>13. CASE SsrJoin
  <2>1. PICK a, b, from : /\ a = AfterUnload(s, from) /\ b = Released(a)
                          /\ s' = To(b, "ssr")
    BY <1>13 DEF SsrJoin
  <2>2. /\ Typed(a) /\ SameConfig(s, a) /\ a.cur = "idle" /\ a.smCfg = s.smCfg
        /\ DevOpen(s) \/ DevClosed(s) => DevClosed(a)
    BY <2>1, AfterUnloadKeeps
  <2>3. Typed(b) /\ Same(a, b) /\ SameDevice(a, b)
    BY <2>1, <2>2, ReleasedKeeps
  <2>4. /\ Typed(s') /\ SameConfig(b, s') /\ SameDevice(b, s') /\ s'.cur = "ssr"
        /\ s'.smCfg = b.smCfg
    <3>1. "ssr" \in StNames
      BY DEF StNames
    <3>. QED  BY <2>1, <2>3, <3>1, ToKeeps
  <2>5. /\ s'.stages = s.stages /\ s'.notify = s.notify /\ s'.cur \notin Running
        /\ s'.smCfg = s.smCfg /\ s'.model = s.model /\ s'.restore = s.restore
    BY <2>2, <2>3, <2>4 DEF Same, SameConfig, SameStages, Running
  <2>6. Tied(s) /\ s.cur \notin Running => DevClosed(s')
    BY <2>2, <2>3, <2>4 DEF Tied, Dev, SameDevice, DevClosed
  <2>7. Tied(s) /\ s.cur \notin Running => Tied(s')
    BY <2>4, <2>5, <2>6 DEF Tied, Dev, DevClosed, DevRuns, Unset, Running, Resting
  <2>8. pc["rm"] = "join" /\ pc' = [pc EXCEPT !["rm"] = "idle"]
    BY <1>13 DEF SsrJoin, Finish, Goto
  <2>9. \E t \in {"ctl", "rm"} : \/ pc[t] = "join" /\ pc' = [pc EXCEPT ![t] = "closed"]
                                 \/ pc[t] = "join" /\ pc' = [pc EXCEPT ![t] = "idle"]
    BY <2>8
  <2>. QED  BY <2>4, <2>5, <2>7, <2>9 DEF Moves, ByJoin
<1>14. CASE SsrUp
  <2>1. PICK f \in Fault : s' = IF s.cur = "ssr" THEN Online(s, f, use_lpi_, Up) ELSE s
    BY <1>14 DEF SsrUp
  <2>2. CASE s.cur = "ssr"
    BY <2>1, <2>2, OnlineStep DEF Moves, ByEvent
  <2>3. CASE s.cur # "ssr"
    BY <1>0, <1>1, <2>1, <2>3
  <2>. QED  BY <2>2, <2>3
<1>. QED  BY <1>3, <1>4, <1>5, <1>6, <1>7, <1>8, <1>9, <1>10, <1>11, <1>12, <1>13, <1>14
          DEF Manager, ManagerStep

\* The rest of the state: who owns the mutexes, what waits, what a behaviour is about.
RestOK ==
  /\ queued \in {0, 1} /\ scenario \in Scenarios /\ use_lpi_ \in BOOLEAN
  /\ mStreamMutex \in Threads \cup {None} /\ mActiveStreamMutex \in Threads \cup {None}

\* A thread goes on.
LEMMA GotoKeeps ==
  ASSUME ArgOK, NEW t \in Threads, NEW l, NEW a, Goto(t, l, a),
         l \in {"try", "check"} => /\ t = "gsl" => a = "gmm"
                                   /\ t \in SecondStages => a \in {"accept", "reject"}
  PROVE  ArgOK'
<1>1. "gsl" \in Threads /\ "gsl" \notin SecondStages /\ SecondStages \subseteq Threads
  BY TriggerAssumption DEF Threads
<1>2. pc' = [u \in Threads |-> IF u = t THEN l ELSE pc[u]]
  BY DEF ArgOK, Goto
<1>3. arg' = [u \in Threads |-> IF u = t THEN a ELSE arg[u]]
  BY DEF ArgOK, Goto
<1>4. pc' = [u \in Threads |-> pc'[u]] /\ arg' = [u \in Threads |-> arg'[u]]
  BY <1>2, <1>3
<1>5. pc'["gsl"] \in {"try", "check"} => arg'["gsl"] = "gmm"
  BY <1>1, <1>2, <1>3 DEF ArgOK
<1>6. ASSUME NEW w \in SecondStages, pc'[w] \in {"try", "check"}
      PROVE  arg'[w] \in {"accept", "reject"}
  BY <1>1, <1>2, <1>3, <1>6 DEF ArgOK
<1>. QED  BY <1>4, <1>5, <1>6 DEF ArgOK

\* No thread goes on.
LEMMA ArgSame ==
  ASSUME ArgOK, UNCHANGED <<pc, arg>>  PROVE ArgOK'
<1>1. pc' = pc /\ arg' = arg
  OBVIOUS
<1>. QED  BY <1>1 DEF ArgOK

\* The client and the manager are neither engine.
LEMMA GotoOther ==
  ASSUME ArgOK, NEW t \in {"ctl", "rm"}, NEW l, NEW a, Goto(t, l, a)
  PROVE  ArgOK'
<1>1. t \in Threads /\ t # "gsl" /\ t \notin SecondStages
  BY TriggerAssumption DEF Threads
<1>. QED  BY <1>1, GotoKeeps

\* Threads and mutexes over a switch; the next lemmas are the same for the other steps.
LEMMA SwitchArgs ==
  ASSUME ArgOK, RestOK, NEW t \in {"ctl", "rm"} \cup SecondStages,
         Defer(t) \/ SwitchOff(t) \/ SwitchOn(t)
  PROVE  ArgOK' /\ RestOK'
<1>1. ArgOK'
  <2>1. PICK l, a : Goto(t, l, a) /\ (l \in {"off", "on"} \/ l = AfterSwitch(t))
    BY DEF Defer, SwitchOff, SwitchOn, GoOn, Stay
  <2>2. CASE t \in {"ctl", "rm"}
    BY <2>1, <2>2, GotoOther
  <2>3. CASE t \in SecondStages
    <3>1. AfterSwitch(t) = "rest" /\ t \in Threads /\ t # "gsl"
      BY <2>3, TriggerAssumption DEF AfterSwitch, Threads
    <3>. QED  BY <2>1, <3>1, GotoKeeps
  <2>. QED  BY <2>2, <2>3
<1>2. t \in Threads
  BY DEF Threads
<1>3. RestOK'
  BY <1>2 DEF RestOK, Defer, SwitchOff, SwitchOn, manager, bounds, Threads
<1>. QED  BY <1>1, <1>3

\* The client.
LEMMA ClientArgs ==
  ASSUME ArgOK, RestOK, Client
  PROVE  ArgOK' /\ RestOK'
<1>1. "ctl" \in Threads
  BY DEF Threads
<1>2. UNCHANGED <<pc, arg>> => ArgOK'
  BY ArgSame
<1>3. CASE Load \/ Config \/ Read
  <2>1. RestOK'
    BY <1>3 DEF Load, Config, Read, RestOK, Threads, noSection, mutexes, manager, bounds
  <2>. QED  BY <1>2, <1>3, <2>1 DEF Load, Config, Read
<1>4. CASE StopBuffering \/ CallStart \/ CallStop
  <2>1. RestOK'
    BY <1>4 DEF StopBuffering, CallStart, CallStop, RestOK, Threads, noSection, mutexes,
                manager, bounds
  <2>2. \E l, a : Goto("ctl", l, a)
    BY <1>4 DEF StopBuffering, CallStart, CallStop
  <2>. QED  BY <2>1, <2>2, GotoOther
<1>5. CASE LockActive \/ Start \/ Stop
  <2>1. RestOK'
    BY <1>1, <1>5 DEF LockActive, Start, Stop, RestOK, Threads, Finish, afterFinish, manager,
                      bounds
  <2>2. \E l, a : Goto("ctl", l, a)
    BY <1>5 DEF LockActive, Start, Stop, Finish, Stay
  <2>. QED  BY <2>1, <2>2, GotoOther
<1>6. CASE CloseBegin \/ CloseJoin \/ Delete \/ Deleted
  <2>1. RestOK'
    BY <1>1, <1>6 DEF CloseBegin, CloseJoin, Delete, Deleted, RestOK, Threads, manager, bounds
  <2>2. \E l, a : Goto("ctl", l, a)
    BY <1>6 DEF CloseBegin, CloseJoin, Delete, Deleted
  <2>. QED  BY <2>1, <2>2, GotoOther
<1>7. CASE Switch("ctl")
  BY <1>7, SwitchArgs DEF Switch
<1>. QED  BY <1>3, <1>4, <1>5, <1>6, <1>7 DEF Client, Control

\* SetEngineDetectionState.
LEMMA SetStateArgs ==
  ASSUME ArgOK, RestOK, NEW t \in {"gsl"} \cup SecondStages, SetEngineDetectionState(t)
  PROVE  ArgOK' /\ RestOK'
<1>1. t \in Threads
  BY DEF Threads
<1>2. CASE TryLock(t)
  <2>1. /\ pc[t] \in {"try", "check"}
        /\ (\E l : Goto(t, l, arg[t])) \/ Goto(t, "rest", "failed")
    <3>1. CASE Proper(t)
      BY <1>2, <3>1 DEF TryLock, Report, Stay
    <3>2. CASE ~Proper(t)
      BY <1>2, <3>2 DEF TryLock, Refuse
    <3>. QED  BY <3>1, <3>2
  <2>2. ArgOK'
    <3>1. CASE Goto(t, "rest", "failed")
      BY <1>1, <3>1, GotoKeeps
    <3>2. ASSUME NEW l, Goto(t, l, arg[t])  PROVE ArgOK'
      <4>1. /\ t = "gsl" => arg[t] = "gmm"
            /\ t \in SecondStages => arg[t] \in {"accept", "reject"}
        BY <2>1 DEF ArgOK
      <4>. QED  BY <1>1, <3>2, <4>1, GotoKeeps
    <3>. QED  BY <2>1, <3>1, <3>2
  <2>4. mStreamMutex' \in Threads \cup {None}
    BY <1>1, <1>2 DEF TryLock, Report, Refuse, RestOK
  <2>. QED  BY <1>2, <2>2, <2>4 DEF TryLock, RestOK, Threads, manager, bounds
<1>3. CASE TryGivesUp(t)
  <2>1. \/ Goto(t, "rest", "failed")
        \/ Goto(t, "check", arg[t]) /\ pc[t] = "try"
    BY <1>3 DEF TryGivesUp, Refuse, Stay
  <2>2. ArgOK'
    <3>1. CASE Goto(t, "rest", "failed")
      BY <1>1, <3>1, GotoKeeps
    <3>2. CASE Goto(t, "check", arg[t]) /\ pc[t] = "try"
      BY <1>1, <3>2, GotoKeeps DEF ArgOK
    <3>. QED  BY <2>1, <3>1, <3>2
  <2>3. mStreamMutex' = mStreamMutex
    BY <1>3 DEF TryGivesUp, Refuse
  <2>. QED  BY <1>3, <2>2, <2>3 DEF TryGivesUp, RestOK, Threads, manager, bounds
<1>4. CASE Relock(t) \/ Tail(t)
  <2>1. \E l : Goto(t, l, arg[t]) /\ l \notin {"try", "check"}
    BY <1>4 DEF Relock, Tail, Stay
  <2>2. ArgOK'
    BY <1>1, <2>1, GotoKeeps
  <2>. QED  BY <1>1, <1>4, <2>2 DEF Relock, Tail, RestOK, Threads, manager, bounds
<1>. QED  BY <1>2, <1>3, <1>4 DEF SetEngineDetectionState

\* Timer and engines.
LEMMA EngineArgs ==
  ASSUME ArgOK, RestOK, Timer \/ Detect \/ Gsl \/ \E w \in SecondStages : SecondStage(w)
  PROVE  ArgOK' /\ RestOK'
<1>1. "gsl" \in Threads /\ "gsl" \notin SecondStages /\ SecondStages \subseteq Threads
  BY TriggerAssumption DEF Threads
<1>2. UNCHANGED <<pc, arg>> => ArgOK'
  BY ArgSame
<1>3. CASE Timer
  <2>1. RestOK'
    BY <1>3 DEF Timer, TimerEnds, TimerFires, TimerBack, RestOK, Threads, noSection, mutexes,
                manager, bounds
  <2>. QED  BY <1>2, <1>3, <2>1 DEF Timer, TimerEnds, TimerFires, TimerBack
<1>4. CASE Detect
  <2>1. RestOK'
    BY <1>4 DEF Detect, RestOK, Threads, mutexes, manager
  <2>. QED  BY <1>2, <1>4, <2>1 DEF Detect
<1>5. CASE GslTake
  <2>1. RestOK'
    BY <1>5 DEF GslTake, RestOK, Threads, mutexes, manager, bounds
  <2>2. Goto("gsl", "try", "gmm") \/ UNCHANGED <<pc, arg>>
    BY <1>5 DEF GslTake
  <2>. QED  BY <1>1, <1>2, <2>1, <2>2, GotoKeeps
<1>6. CASE GslCut \/ GslReported \/ GslBuffer
  <2>1. RestOK'
    BY <1>6 DEF GslCut, GslReported, GslBuffer, RestOK, Threads, noSection, mutexes, manager,
                bounds
  <2>2. \E l \in {"idle", "buffer"} : Goto("gsl", l, None)
    BY <1>6 DEF GslCut, GslReported, GslBuffer
  <2>. QED  BY <1>1, <2>1, <2>2, GotoKeeps
<1>7. CASE SetEngineDetectionState("gsl")
  BY <1>7, SetStateArgs
<1>8. ASSUME NEW w \in SecondStages, SecondStage(w)
      PROVE  ArgOK' /\ RestOK'
  <2>1. CASE Verdict(w)
    <3>1. RestOK'
      BY <2>1 DEF Verdict, RestOK, Threads, noSection, mutexes, manager, bounds
    <3>2. \E v \in {"accept", "reject"} : Goto(w, "try", v)
      BY <2>1 DEF Verdict
    <3>. QED  BY <1>1, <3>1, <3>2, GotoKeeps
  <2>2. CASE Rest(w)
    <3>1. RestOK'
      BY <2>2 DEF Rest, RestOK, Threads, noSection, mutexes, manager, bounds
    <3>2. Goto(w, "idle", None)
      BY <2>2 DEF Rest
    <3>. QED  BY <1>1, <3>1, <3>2, GotoKeeps
  <2>3. CASE SetEngineDetectionState(w)
    BY <2>3, SetStateArgs
  <2>4. CASE Switch(w)
    BY <2>4, SwitchArgs DEF Switch
  <2>. QED  BY <1>8, <2>1, <2>2, <2>3, <2>4 DEF SecondStage
<1>. QED  BY <1>3, <1>4, <1>5, <1>6, <1>7, <1>8 DEF Gsl

\* The manager.
LEMMA ManagerArgs ==
  ASSUME ArgOK, RestOK, Manager
  PROVE  ArgOK' /\ RestOK'
<1>1. "rm" \in Threads
  BY DEF Threads
<1>2. UNCHANGED <<pc, arg>> => ArgOK'
  BY ArgSame
<1>3. CASE BeginPause \/ BeginResume \/ BeginOthers \/ BeginDevice \/ Concurrency
  <2>1. RestOK'
    BY <1>1, <1>3 DEF BeginPause, BeginResume, BeginOthers, BeginDevice, Concurrency, Begin,
                      noBegin, RestOK, Threads, manager, bounds
  <2>2. (\E l, a : Goto("rm", l, a)) \/ UNCHANGED <<pc, arg>>
    BY <1>3 DEF BeginPause, BeginResume, BeginOthers, BeginDevice, Concurrency, Begin
  <2>. QED  BY <1>2, <2>1, <2>2, GotoOther
<1>4. CASE LoseCard \/ CardBack
  <2>1. RestOK'
    BY <1>1, <1>4 DEF LoseCard, CardBack, Begin, RestOK, Threads, manager, bounds
  <2>2. \E l, a : Goto("rm", l, a)
    BY <1>4 DEF LoseCard, CardBack, Begin
  <2>. QED  BY <2>1, <2>2, GotoOther
<1>5. CASE SwitchOff("rm") \/ SwitchOn("rm")
  BY <1>5, SwitchArgs
<1>6. CASE \/ Pause \/ Aborted \/ AbortEnds \/ Resume \/ StopOthers \/ StartOthers
           \/ Disconnect \/ Connect \/ SsrDown \/ SsrJoin \/ SsrUp
  <2>1. mStreamMutex' \in Threads \cup {None} /\ mActiveStreamMutex' \in Threads \cup {None}
    BY <1>1, <1>6 DEF Pause, Aborted, AbortEnds, Resume, StopOthers, StartOthers, Disconnect,
                      Connect, SsrDown, SsrJoin, SsrUp, Finish, RmStep, mutexes, RestOK
  <2>2. UNCHANGED rmOnly
    BY <1>6 DEF Pause, Aborted, AbortEnds, Resume, StopOthers, StartOthers, Disconnect,
                Connect, SsrDown, SsrJoin, SsrUp
  <2>3. \E l, a : Goto("rm", l, a)
    BY <1>6 DEF Pause, Aborted, AbortEnds, Resume, StopOthers, StartOthers, Disconnect,
                Connect, SsrDown, SsrJoin, SsrUp, Finish, RmStep, Stay
  <2>4. RestOK'
    BY <2>1, <2>2 DEF RestOK, rmOnly, manager, bounds, Threads
  <2>. QED  BY <2>3, <2>4, GotoOther
<1>. QED  BY <1>3, <1>4, <1>5, <1>6 DEF Manager, ManagerStep

-----------------------------------------------------------------------------
(* A paused stream does not listen.                                        *)

QuietInv == Typed(s) /\ Quiet(s) /\ ArgOK /\ RestOK /\ s.stages = scenario.stages

\* Every step, in the terms above.
LEMMA StepMoves ==
  ASSUME QuietInv, [Next]_vars
  PROVE  /\ Moves /\ ArgOK' /\ RestOK' /\ UNCHANGED scenario
<1>1. Typed(s) /\ ArgOK /\ RestOK /\ use_lpi_ \in BOOLEAN
  BY DEF QuietInv, RestOK
<1>2. CASE Client
  <2>1. UNCHANGED scenario
    BY <1>2 DEF Client, Control, Load, Config, Read, StopBuffering, CallStart, CallStop,
       CloseBegin, Switch, Defer, SwitchOff, SwitchOn, LockActive, Start, Stop, CloseJoin,
       Delete, Deleted, noSection, afterFinish, bounds
  <2>. QED  BY <1>1, <1>2, <2>1, ClientMoves, ClientArgs
<1>3. CASE Timer \/ Detect \/ Gsl \/ \E w \in SecondStages : SecondStage(w)
  <2>1. UNCHANGED scenario
    BY <1>3 DEF Timer, TimerEnds, TimerFires, TimerBack, Detect, Gsl, GslTake, GslCut,
       GslReported, GslBuffer, SecondStage, Verdict, Rest, Switch, Defer, SwitchOff, SwitchOn,
       SetEngineDetectionState, TryLock, TryGivesUp, Relock, Tail, noSection, bounds
  <2>2. Moves
    <3>1. CASE Timer
      BY <1>1, <3>1, TimerMoves DEF Moves
    <3>2. CASE Detect \/ Gsl \/ \E w \in SecondStages : SecondStage(w)
      BY <1>1, <3>2, EngineMoves
    <3>. QED  BY <1>3, <3>1, <3>2
  <2>. QED  BY <1>1, <1>3, <2>1, <2>2, EngineArgs
<1>4. CASE Manager
  <2>1. UNCHANGED scenario
    BY <1>4 DEF Manager, ManagerStep, BeginPause, BeginResume, BeginOthers, BeginDevice,
       Concurrency, LoseCard, CardBack, SwitchOff, SwitchOn, Pause, Aborted, AbortEnds, Resume,
       StopOthers, StartOthers, Disconnect, Connect, SsrDown, SsrJoin, SsrUp, RmStep, noBegin,
       rmOnly, bounds
  <2>. QED  BY <1>1, <1>4, <2>1, ManagerMoves, ManagerArgs
<1>5. CASE UNCHANGED vars
  <2>1. s' = s /\ UNCHANGED scenario
    BY <1>5 DEF vars, bounds
  <2>2. Moves
    BY <1>1, <2>1, KeepsSame, SelfSame DEF Moves, ByEvent, Fault
  <2>3. ArgOK'
    BY <1>1, <1>5, ArgSame DEF vars
  <2>4. RestOK'
    BY <1>1, <1>5 DEF RestOK, vars, mutexes, manager, bounds, Threads
  <2>. QED  BY <2>1, <2>2, <2>3, <2>4
<1>. QED  BY <1>2, <1>3, <1>4, <1>5 DEF Next

\* The invariant holds at first.
LEMMA InitQuiet == Init => QuietInv
<1>1. SUFFICES ASSUME Init PROVE QuietInv
  OBVIOUS
<1>2. PICK c, n \in BOOLEAN : s = NewStream(c, n, scenario.stages)
  BY <1>1, TriggerAssumption DEF Init, ScenarioOK
<1>3. scenario \in Scenarios
  BY <1>1 DEF Init
<1>4. NoUse \in UseType
  BY NoUseTyped
<1>5. Typed(s) /\ Quiet(s) /\ s.stages = scenario.stages
  BY <1>2, <1>4 DEF NewStream, Typed, Fields, StNames, EngineStates, Quiet
<1>6. ArgOK
  BY <1>1, TriggerAssumption DEF Init, ArgOK, Threads
<1>7. RestOK
  BY <1>1, <1>3 DEF Init, RestOK
<1>. QED  BY <1>5, <1>6, <1>7 DEF QuietInv

\* Every step keeps it.
LEMMA StepQuiet == QuietInv /\ [Next]_vars => QuietInv'
<1>1. SUFFICES ASSUME QuietInv, [Next]_vars  PROVE QuietInv'
  OBVIOUS
<1>2. Moves /\ ArgOK' /\ RestOK' /\ UNCHANGED scenario
  BY <1>1, StepMoves
<1>3. Typed(s') /\ Quiet(s') /\ s'.stages = s.stages
  BY <1>1, <1>2 DEF QuietInv, Moves, ByEvent, ByVerdict, ByJoin, Keeps, Quiet
<1>. QED  BY <1>1, <1>2, <1>3 DEF QuietInv, Typed, Quiet

\* A paused stream does not listen (StActive, StDetected and StBuffering stop the
\* recognition before they mark the stream paused, and no other state starts one while it
\* is), whatever step fails, whoever calls and whatever the second stages find.
THEOREM PausedStaysQuiet == Spec => []PausedMeansQuiet
<1>1. QuietInv => PausedMeansQuiet
  BY DEF QuietInv, Quiet, PausedMeansQuiet, Listening, Running
<1>. QED  BY <1>1, InitQuiet, StepQuiet, PTL DEF Spec

\* What the invariant says of types.
LEMMA QuietTypes == QuietInv => TypeOK
<1>1. SUFFICES ASSUME QuietInv  PROVE TypeOK
  OBVIOUS
<1>2. s.run \subseteq SecondStages
  BY <1>1, TriggerAssumption DEF QuietInv, Typed, RestOK, ScenarioOK
<1>3. \A d \in Devices : s.use[d].count \in Nat /\ s.use[d].startStop \in Nat
  BY <1>1 DEF QuietInv, Typed, UseType, Counters
<1>. QED  BY <1>1, <1>2, <1>3 DEF QuietInv, Typed, RestOK, TypeOK

\* Every member and every mutex keeps its type.
THEOREM TriggerTypes == Spec => []TypeOK
BY QuietTypes, InitQuiet, StepQuiet, PTL DEF Spec

-----------------------------------------------------------------------------
(* Who owns the mutex of the stream between two steps, when the first stage *)
(* alone reports.                                                          *)

Steady == scenario.stages = {} /\ "lateCheck" \notin scenario.Events

Keeping == {"on", "device_connect", "join", "join_timer"}
Holds(t) == pc[t] \in Keeping \/ (pc[t] = "tail" /\ ~mutex_unlocked_after_cb_)

\* What a thread goes on with is what it came for.
Ordered ==
  /\ \A w \in SecondStages : pc[w] = "idle"
  /\ pc["gsl"] \notin {"check", "callback_rejection"}
  /\ pc["gsl"] \in {"callback", "tail"} => arg["gsl"] = "gmm"
  /\ pc["ctl"] = "start_lock" => arg["ctl"] = "start"
  /\ pc["ctl"] = "stop_lock" => arg["ctl"] = "stop"
  /\ pc["rm"] \in {"off", "on"} => arg["rm"] = None
  /\ pc["ctl"] # "tail" /\ pc["rm"] # "tail"
  /\ mutex_unlocked_after_cb_ => pc["gsl"] = "tail"
Held == \A t \in {"ctl", "rm", "gsl"} : Holds(t) => mStreamMutex = t
\* A thread that waits for the engines has stopped the recognition.
Joined == \A t \in {"ctl", "rm"} : pc[t] = "join" => s.cur \notin Running
Owners == Ordered /\ Held /\ Joined

\* A step of one thread that hands the mutex on as it should.
LEMMA GotoOwners ==
  ASSUME ArgOK, RestOK, Owners, NEW t \in {"ctl", "rm", "gsl"}, NEW l, NEW a, Goto(t, l, a),
         UNCHANGED mutex_unlocked_after_cb_, pc[t] # "tail",
         \/ mStreamMutex' = mStreamMutex /\ l \notin Keeping \cup {"tail"}
         \/ StreamFree /\ mStreamMutex' = t
         \/ (StreamFree \/ pc[t] \in Keeping) /\ mStreamMutex' = None
            /\ l \notin Keeping \cup {"tail"},
         StreamFree \/ s'.cur = s.cur \/ pc[t] \in Keeping,
         l = "join" => s'.cur \notin Running,
         t = "gsl" => /\ l \notin {"check", "callback_rejection"}
                      /\ l \in {"callback", "tail"} => a = "gmm",
         t = "ctl" => /\ l # "tail" /\ (l = "start_lock" => a = "start")
                      /\ l = "stop_lock" => a = "stop",
         t = "rm" => l # "tail" /\ (l \in {"off", "on"} => a = None)
  PROVE  Owners'
<1>1. /\ {"ctl", "rm", "gsl"} \subseteq Threads /\ SecondStages \subseteq Threads
      /\ t \notin SecondStages /\ None \notin {"ctl", "rm", "gsl"}
  BY TriggerAssumption DEF Threads
<1>2. pc' = [u \in Threads |-> IF u = t THEN l ELSE pc[u]]
  BY DEF ArgOK, Goto
<1>3. arg' = [u \in Threads |-> IF u = t THEN a ELSE arg[u]]
  BY DEF ArgOK, Goto
<1>4. ~mutex_unlocked_after_cb_ \/ t # "gsl"
  BY DEF Owners, Ordered
<1>5. Ordered'
  BY <1>1, <1>2, <1>3, <1>4 DEF Owners, Ordered
<1>6. ASSUME NEW u \in {"ctl", "rm", "gsl"}, Holds(u)'  PROVE mStreamMutex' = u
  BY <1>1, <1>2, <1>6 DEF Owners, Held, Holds, StreamFree, Keeping
<1>7. ASSUME NEW u \in {"ctl", "rm"}, pc'[u] = "join"  PROVE s'.cur \notin Running
  BY <1>1, <1>2, <1>7 DEF Owners, Held, Joined, Holds, StreamFree, Keeping
<1>. QED  BY <1>5, <1>6, <1>7 DEF Owners, Held, Joined

\* A step that moves no thread.
LEMMA SameOwners ==
  ASSUME Owners, UNCHANGED <<pc, arg, mutex_unlocked_after_cb_, mStreamMutex>>,
         StreamFree \/ s'.cur = s.cur
  PROVE  Owners'
<1>1. None \notin {"ctl", "rm", "gsl"}
  BY TriggerAssumption DEF Threads
<1>. QED  BY <1>1 DEF Owners, Ordered, Held, Joined, Holds, StreamFree, Keeping

\* A switch keeps the mutex of the stream between its halves.
LEMMA SwitchOwners ==
  ASSUME Typed(s), ArgOK, RestOK, Owners, NEW t \in {"ctl", "rm"},
         (Defer(t) /\ t = "ctl") \/ SwitchOff(t) \/ SwitchOn(t)
  PROVE  Owners'
<1>1. /\ t = "ctl" => AfterSwitch(t) = IF arg[t] = "start" THEN "start_lock" ELSE "idle"
      /\ arg[t] # "start" => AfterSwitch(t) = "idle"
  BY TriggerAssumption DEF AfterSwitch
<1>2. None # "start" /\ (t = "rm" /\ pc[t] \in {"off", "on"} => arg[t] = None)
  BY TriggerAssumption DEF Owners, Ordered, Stages
<1>3. ASSUME GoOn(t), t = "ctl" \/ pc[t] = "on"
      PROVE  \E l, a : /\ Goto(t, l, a) /\ l \in {"idle", "start_lock"}
                       /\ l = "start_lock" => t = "ctl" /\ a = "start"
  BY <1>1, <1>2, <1>3 DEF GoOn
<1>4. CASE Defer(t) /\ t = "ctl"
  <2>1. PICK l, a : /\ Goto(t, l, a) /\ l \in {"idle", "start_lock", "off"}
                    /\ l = "start_lock" => t = "ctl" /\ a = "start"
    BY <1>3, <1>4 DEF Defer, Stay
  <2>2. /\ UNCHANGED mutex_unlocked_after_cb_ /\ pc[t] # "tail" /\ mStreamMutex' = mStreamMutex
        /\ s' = s
    BY <1>4 DEF Defer, flags
  <2>. QED  BY <1>4, <2>1, <2>2, GotoOwners DEF Keeping
<1>5. CASE SwitchOff(t)
  <2>1. Goto(t, "on", arg[t])
    BY <1>5 DEF SwitchOff, Stay
  <2>2. /\ UNCHANGED mutex_unlocked_after_cb_ /\ pc[t] = "off" /\ StreamFree
        /\ mStreamMutex' = t
    BY <1>5 DEF SwitchOff, flags
  <2>. QED  BY <1>2, <2>1, <2>2, GotoOwners
<1>6. CASE SwitchOn(t)
  <2>1. PICK l, a : /\ Goto(t, l, a) /\ l \in {"idle", "start_lock"}
                    /\ l = "start_lock" => t = "ctl" /\ a = "start"
    BY <1>3, <1>6 DEF SwitchOn
  <2>2. /\ UNCHANGED mutex_unlocked_after_cb_ /\ pc[t] = "on" /\ mStreamMutex' = None
    BY <1>6 DEF SwitchOn, flags
  <2>. QED  BY <2>1, <2>2, GotoOwners DEF Keeping
<1>. QED  BY <1>4, <1>5, <1>6

\* What is stopped before an unload no longer listens.
LEMMA BeforeUnloadRests ==
  ASSUME NEW x, Typed(x), NEW y, y = BeforeUnload(x)
  PROVE  y.cur \notin Running
<1>1. CASE x.cur = "active"
  <2>1. y = StopAll(x)
    BY <1>1 DEF BeforeUnload
  <2>. QED  BY <2>1, StopAllKeeps DEF Running
<1>2. CASE x.cur \in {"detected", "buffering"}
  <2>1. PICK a, b, c : /\ a = [x EXCEPT !.reader = FALSE] /\ b = [a EXCEPT !.nlpi = FALSE]
                       /\ c = CancelDelayedStop(b)
    OBVIOUS
  <2>2. Typed(a)
    BY <2>1, ReaderKeeps
  <2>3. Typed(c)
    BY <2>1, <2>2, MinorKeeps
  <2>4. y = StopAll(c)
    BY <1>2, <2>1 DEF BeforeUnload, Unvoted
  <2>. QED  BY <2>3, <2>4, StopAllKeeps DEF Running
<1>3. CASE x.cur \notin Running
  BY <1>3 DEF BeforeUnload, Running
<1>. QED  BY <1>1, <1>2, <1>3 DEF Running

\* close and the destructor keep it while they wait.
LEMMA ClientOwners ==
  ASSUME Typed(s), ArgOK, RestOK, Owners, Client
  PROVE  Owners'
<1>1. CASE Load \/ Config \/ Read
  <2>1. /\ UNCHANGED <<pc, arg, mutex_unlocked_after_cb_, mStreamMutex>> /\ StreamFree
    BY <1>1 DEF Load, Config, Read, noSection, flags, mutexes
  <2>. QED  BY <2>1, SameOwners
<1>2. CASE StopBuffering
  <2>1. /\ UNCHANGED <<mutex_unlocked_after_cb_, mStreamMutex>> /\ StreamFree
        /\ pc["ctl"] = "idle" /\ Goto("ctl", "defer", "stopBuffering")
    BY <1>2 DEF StopBuffering, noSection, flags, mutexes, May
  <2>. QED  BY <2>1, GotoOwners DEF Keeping
<1>3. CASE CallStart \/ CallStop
  <2>1. PICK l, a : /\ <<l, a>> \in {<<"defer", "start">>, <<"stop_lock", "stop">>}
                    /\ Goto("ctl", l, a)
    BY <1>3 DEF CallStart, CallStop
  <2>2. /\ UNCHANGED <<mutex_unlocked_after_cb_, mStreamMutex>> /\ s' = s
        /\ pc["ctl"] = "idle"
    BY <1>3 DEF CallStart, CallStop, noSection, flags, mutexes, May
  <2>. QED  BY <2>1, <2>2, GotoOwners DEF Keeping
<1>4. CASE LockActive
  <2>1. Goto("ctl", arg["ctl"], arg["ctl"]) /\ arg["ctl"] \in {"start", "stop"}
    BY <1>4 DEF LockActive, Stay, Owners, Ordered
  <2>2. /\ UNCHANGED <<mutex_unlocked_after_cb_, mStreamMutex>> /\ s' = s
        /\ pc["ctl"] # "tail"
    BY <1>4 DEF LockActive, flags
  <2>. QED  BY <2>1, <2>2, GotoOwners DEF Keeping
<1>5. CASE Start \/ Stop
  <2>1. Goto("ctl", "idle", None) /\ StreamFree
    BY <1>5 DEF Start, Stop, Finish
  <2>2. UNCHANGED <<mutex_unlocked_after_cb_, mStreamMutex>> /\ pc["ctl"] # "tail"
    BY <1>5 DEF Start, Stop, afterFinish, flags
  <2>. QED  BY <2>1, <2>2, GotoOwners DEF Keeping
<1>6. CASE CloseBegin
  <2>1. UNCHANGED mutex_unlocked_after_cb_ /\ pc["ctl"] # "tail" /\ StreamFree
    BY <1>6 DEF CloseBegin, May, flags
  <2>2. CASE s.cur = "ssr"
    <3>1. Goto("ctl", "closed", None) /\ mStreamMutex' = mStreamMutex
      BY <1>6, <2>2 DEF CloseBegin
    <3>. QED  BY <2>1, <3>1, GotoOwners DEF Keeping
  <2>3. CASE s.cur # "ssr"
    <3>1. Goto("ctl", "join", s.cur) /\ mStreamMutex' = "ctl" /\ s' = BeforeUnload(s)
      BY <1>6, <2>3 DEF CloseBegin
    <3>2. s'.cur \notin Running
      BY <3>1, BeforeUnloadRests
    <3>. QED  BY <2>1, <3>1, <3>2, GotoOwners
  <2>. QED  BY <2>2, <2>3
<1>7. CASE CloseJoin \/ Deleted
  <2>1. PICK l \in {"closed", "deleted"} : Goto("ctl", l, None)
    BY <1>7 DEF CloseJoin, Deleted
  <2>2. /\ UNCHANGED mutex_unlocked_after_cb_ /\ pc["ctl"] \in {"join", "join_timer"}
        /\ mStreamMutex' = None
    BY <1>7 DEF CloseJoin, Deleted, flags
  <2>. QED  BY <2>1, <2>2, GotoOwners DEF Keeping
<1>8. CASE Delete
  <2>1. /\ Goto("ctl", "join_timer", None) /\ UNCHANGED mutex_unlocked_after_cb_
        /\ pc["ctl"] # "tail" /\ StreamFree /\ mStreamMutex' = "ctl"
    BY <1>8 DEF Delete, flags
  <2>. QED  BY <2>1, GotoOwners
<1>9. CASE Switch("ctl")
  BY <1>9, SwitchOwners DEF Switch
<1>. QED  BY <1>1, <1>2, <1>3, <1>4, <1>5, <1>6, <1>7, <1>8, <1>9 DEF Client, Control

\* The first stage reports a detection with a note that tells where to go on.
LEMMA DetectedNote ==
  ASSUME NEW x, Typed(x), x.cur = "active", NEW f, NEW lpi, NEW up, NEW y,
         y = Process(x, "detected", f, lpi, up)
  PROVE  y.note \in {"detection", "none"}
<1>1. PICK v : v = IF Single(x) THEN "detection" ELSE "none"
  OBVIOUS
<1>2. PICK t, n, b : /\ t = [x EXCEPT !.second = IF Single(x) THEN @ ELSE TRUE]
                     /\ n = [t EXCEPT !.note = v] /\ b = [n EXCEPT !.run = x.stages]
  OBVIOUS
<1>3. y = Ok(To(n, "detected")) \/ y = Ok(To(b, "buffering"))
  BY <1>1, <1>2, Zenon DEF Process, StActive, StopEvents
<1>4. n.note = v
  BY <1>2 DEF Typed, Fields
<1>5. b.note = v /\ "note" \in DOMAIN n /\ "note" \in DOMAIN b
  BY <1>2, <1>4 DEF Typed, Fields
<1>6. To(n, "detected").note = v /\ To(b, "buffering").note = v
  BY <1>4, <1>5 DEF To
<1>. QED  BY <1>1, <1>3, <1>4, <1>5, <1>6 DEF Ok, To

\* A report keeps it but for the call of the client.
LEMMA EngineOwners ==
  ASSUME Typed(s), s.stages = {}, Steady, ArgOK, RestOK, Owners,
         Timer \/ Detect \/ Gsl \/ \E w \in SecondStages : SecondStage(w)
  PROVE  Owners'
<1>0. Same(s, s)
  BY SelfSame
<1>1. Released(s).cur = s.cur /\ Released(RestartActive(s)).cur = s.cur
  BY ReleasedKeeps, EnginesKeep DEF Same
<1>2. CASE Timer
  <2>1. CASE TimerFires
    <3>1. UNCHANGED <<pc, arg, mutex_unlocked_after_cb_, mStreamMutex>> /\ StreamFree
      BY <2>1 DEF TimerFires, noSection, flags, mutexes
    <3>. QED  BY <3>1, SameOwners
  <2>2. CASE TimerEnds \/ TimerBack
    <3>1. UNCHANGED <<pc, arg, mutex_unlocked_after_cb_, mStreamMutex>> /\ s'.cur = s.cur
      BY <2>2 DEF TimerEnds, TimerBack, noSection, flags, mutexes, Typed, Fields
    <3>. QED  BY <3>1, SameOwners
  <2>. QED  BY <1>2, <2>1, <2>2 DEF Timer
<1>3. CASE Detect
  <2>1. UNCHANGED <<pc, arg, mutex_unlocked_after_cb_, mStreamMutex>> /\ s'.cur = s.cur
    BY <1>3 DEF Detect, flags, mutexes, Typed, Fields
  <2>. QED  BY <2>1, SameOwners
<1>4. CASE GslTake \/ GslCut \/ GslReported \/ GslBuffer
  <2>1. UNCHANGED <<mutex_unlocked_after_cb_, mStreamMutex>> /\ pc["gsl"] # "tail"
    BY <1>4 DEF GslTake, GslCut, GslReported, GslBuffer, flags, noSection, mutexes
  <2>2. s'.cur = s.cur
    <3>1. CASE s' = [s EXCEPT !.gsl = IF Captured THEN "buffering" ELSE @]
      BY <3>1 DEF Typed, Fields
    <3>2. CASE s' = s \/ s' = Released(s) \/ s' = Released(RestartActive(s))
      BY <1>1, <3>2
    <3>. QED  BY <1>4, <3>1, <3>2 DEF GslTake, GslCut, GslReported, GslBuffer
  <2>3. CASE UNCHANGED <<pc, arg>>
    BY <2>1, <2>2, <2>3, SameOwners
  <2>4. CASE \E l \in {"try", "idle", "buffer"} : \E a : Goto("gsl", l, a)
    BY <2>1, <2>2, <2>4, GotoOwners DEF Keeping
  <2>. QED  BY <1>4, <2>3, <2>4 DEF GslTake, GslCut, GslReported, GslBuffer
<1>5. CASE TryLock("gsl")
  <2>1. pc["gsl"] = "try" /\ StreamFree /\ arg["gsl"] = "gmm"
    BY <1>5 DEF TryLock, Owners, Ordered, ArgOK
  <2>2. UNCHANGED mutex_unlocked_after_cb_
    BY <1>5 DEF TryLock, flags
  <2>3. CASE ~Proper("gsl")
    <3>1. Goto("gsl", "rest", "failed") /\ mStreamMutex' = mStreamMutex /\ s' = s
      BY <1>5, <2>3 DEF TryLock, Refuse
    <3>. QED  BY <2>1, <2>2, <3>1, GotoOwners DEF Keeping
  <2>4. CASE Proper("gsl")
    <3>1. s.cur = "active" /\ Report("gsl", "gsl")
      BY <1>5, <2>1, <2>4 DEF TryLock, Proper
    <3>2. PICK x : x = [s EXCEPT !.wake = s.wake + 1]
      OBVIOUS
    <3>3. Typed(x) /\ x.cur = "active"
      <4>1. s.wake + 1 \in Nat
        BY DEF Typed
      <4>. QED  BY <3>1, <3>2, <4>1, MinorKeeps DEF Same
    <3>4. PICK n : n = Event(x, "detected", None)
      OBVIOUS
    <3>5. n.note \in {"detection", "none"}
      BY <3>3, <3>4, DetectedNote DEF Event
    <3>6. Reported("gsl") = n
      BY <2>1, <3>2, <3>4 DEF Reported
    <3>7. CASE n.note = "detection"
      <4>1. Goto("gsl", "callback", arg["gsl"]) /\ mStreamMutex' = None
        BY <3>1, <3>6, <3>7 DEF Report, Stay
      <4>. QED  BY <2>1, <2>2, <4>1, GotoOwners DEF Keeping
    <3>8. CASE n.note = "none"
      <4>1. Goto("gsl", "tail", arg["gsl"]) /\ mStreamMutex' = "gsl"
        BY <3>1, <3>6, <3>8 DEF Report, Stay
      <4>. QED  BY <2>1, <2>2, <4>1, GotoOwners
    <3>. QED  BY <3>5, <3>7, <3>8
  <2>. QED  BY <2>3, <2>4
<1>6. CASE TryGivesUp("gsl")
  <2>1. /\ Goto("gsl", "rest", "failed") /\ mStreamMutex' = mStreamMutex /\ s' = s
        /\ pc["gsl"] = "try" /\ UNCHANGED mutex_unlocked_after_cb_
    BY <1>6 DEF TryGivesUp, Refuse, Steady, flags
  <2>. QED  BY <2>1, GotoOwners DEF Keeping
<1>7. CASE Relock("gsl") \/ Tail("gsl")
  <2>1. PICK l \in {"tail", "rest"} :
          /\ Goto("gsl", l, "gmm") /\ s'.cur = s.cur
          /\ \/ l = "tail" /\ StreamFree /\ mStreamMutex' = "gsl"
                /\ UNCHANGED mutex_unlocked_after_cb_
             \/ l = "tail" /\ mutex_unlocked_after_cb_' /\ UNCHANGED mStreamMutex
             \/ /\ l = "rest" /\ ~mutex_unlocked_after_cb_'
                /\ mutex_unlocked_after_cb_ /\ UNCHANGED mStreamMutex
             \/ /\ l = "rest" /\ ~mutex_unlocked_after_cb_'
                /\ pc["gsl"] = "tail" /\ ~mutex_unlocked_after_cb_ /\ mStreamMutex' = None
    BY <1>1, <1>7 DEF Relock, Tail, Stay, Owners, Ordered
  <2>2. "gsl" \in Threads /\ SecondStages \subseteq Threads /\ "gsl" \notin SecondStages
        /\ {"ctl", "rm"} \subseteq Threads /\ None \notin Threads
    BY TriggerAssumption DEF Threads
  <2>3. pc' = [u \in Threads |-> IF u = "gsl" THEN l ELSE pc[u]]
    BY <2>1 DEF ArgOK, Goto
  <2>4. arg' = [u \in Threads |-> IF u = "gsl" THEN "gmm" ELSE arg[u]]
    BY <2>1 DEF ArgOK, Goto
  <2>5. Ordered'
    BY <2>1, <2>2, <2>3, <2>4 DEF Owners, Ordered
  <2>6. ASSUME NEW u \in {"ctl", "rm", "gsl"}, Holds(u)'  PROVE mStreamMutex' = u
    BY <2>1, <2>2, <2>3, <2>6 DEF Owners, Ordered, Held, Holds, StreamFree, Keeping
  <2>7. Joined'
    BY <2>1, <2>2, <2>3 DEF Owners, Joined
  <2>. QED  BY <2>5, <2>6, <2>7 DEF Owners, Held
<1>8. ASSUME NEW w \in SecondStages, SecondStage(w)  PROVE FALSE
  <2>1. pc[w] = "idle" /\ s.run = {}
    BY DEF Owners, Ordered, Typed
  <2>. QED  BY <1>8, <2>1 DEF SecondStage, Verdict, Rest, SetEngineDetectionState, TryLock,
            TryGivesUp, Relock, Tail, Switch, Defer, SwitchOff, SwitchOn
<1>. QED  BY <1>2, <1>3, <1>4, <1>5, <1>6, <1>7, <1>8 DEF Gsl, SetEngineDetectionState

\* A device switch and the loss of the card keep it.
LEMMA ManagerOwners ==
  ASSUME Typed(s), ArgOK, RestOK, Owners, Manager
  PROVE  Owners'
<1>1. CASE \/ BeginPause \/ BeginResume \/ BeginOthers \/ BeginDevice \/ Concurrency
           \/ LoseCard \/ CardBack
  <2>1. /\ UNCHANGED <<s, mutex_unlocked_after_cb_, mStreamMutex>> /\ pc["rm"] = "idle"
    BY <1>1 DEF BeginPause, BeginResume, BeginOthers, BeginDevice, Concurrency, LoseCard,
                CardBack, MayRm, noBegin, flags
  <2>2. \/ UNCHANGED <<pc, arg>>
        \/ \E l \in {"pause", "resume", "others", "device", "off", "down", "up"} :
             Goto("rm", l, None)
    BY <1>1 DEF BeginPause, BeginResume, BeginOthers, BeginDevice, Concurrency, LoseCard,
                CardBack, Begin
  <2>3. CASE UNCHANGED <<pc, arg>>
    BY <2>1, <2>3, SameOwners
  <2>4. CASE \E l \in {"pause", "resume", "others", "device", "off", "down", "up"} :
               Goto("rm", l, None)
    BY <2>1, <2>4, GotoOwners DEF Keeping
  <2>. QED  BY <2>2, <2>3, <2>4
<1>2. CASE SwitchOff("rm") \/ SwitchOn("rm")
  BY <1>2, SwitchOwners
<1>3. CASE \/ Pause \/ AbortEnds \/ Resume \/ StopOthers \/ StartOthers \/ SsrUp
  <2>1. /\ UNCHANGED <<mutex_unlocked_after_cb_, mStreamMutex>> /\ StreamFree
        /\ pc["rm"] # "tail"
    BY <1>3 DEF Pause, AbortEnds, Resume, StopOthers, StartOthers, SsrUp, RmStep, flags,
                mutexes
  <2>2. \E l \in {"idle", "abort", "others_start"} : \E a : Goto("rm", l, a)
    BY <1>3 DEF Pause, AbortEnds, Resume, StopOthers, StartOthers, SsrUp, RmStep, Finish
  <2>. QED  BY <2>1, <2>2, GotoOwners DEF Keeping
<1>4. CASE Aborted
  <2>1. /\ UNCHANGED <<s, mutex_unlocked_after_cb_, mStreamMutex>> /\ pc["rm"] = "abort"
        /\ Goto("rm", "aborted", arg["rm"])
    BY <1>4 DEF Aborted, flags, Stay
  <2>. QED  BY <2>1, GotoOwners DEF Keeping
<1>5. CASE Disconnect
  <2>1. /\ UNCHANGED mutex_unlocked_after_cb_ /\ StreamFree /\ mStreamMutex' = "rm"
        /\ pc["rm"] = "device" /\ Goto("rm", "device_connect", None)
    BY <1>5 DEF Disconnect, RmStep, flags
  <2>. QED  BY <2>1, GotoOwners
<1>6. CASE Connect \/ SsrJoin
  <2>1. /\ UNCHANGED mutex_unlocked_after_cb_ /\ pc["rm"] \in {"device_connect", "join"}
        /\ mStreamMutex' = None /\ Goto("rm", "idle", None)
    BY <1>6 DEF Connect, SsrJoin, Finish, flags
  <2>. QED  BY <2>1, GotoOwners DEF Keeping
<1>7. CASE SsrDown
  <2>1. /\ UNCHANGED mutex_unlocked_after_cb_ /\ StreamFree /\ pc["rm"] = "down"
    BY <1>7 DEF SsrDown, flags
  <2>2. CASE s.cur \in {"ssr", "idle"}
    <3>1. mStreamMutex' = mStreamMutex /\ Goto("rm", "idle", None)
      BY <1>7, <2>2 DEF SsrDown, Finish
    <3>. QED  BY <2>1, <3>1, GotoOwners DEF Keeping
  <2>3. CASE s.cur \notin {"ssr", "idle"}
    <3>1. PICK n, r : r = ToRestore(s) /\ n = [s EXCEPT !.restore = r]
      OBVIOUS
    <3>2. r \in {"none", "idle", "loaded", "active"}
      BY <3>1 DEF ToRestore, Typed
    <3>3. Typed(n)
      BY <2>3, <3>1, <3>2, RestoreStep DEF Keeps
    <3>4. /\ mStreamMutex' = "rm" /\ Goto("rm", "join", s.cur) /\ s' = BeforeUnload(n)
      BY <1>7, <2>3, <3>1 DEF SsrDown
    <3>5. s'.cur \notin Running
      BY <3>3, <3>4, BeforeUnloadRests
    <3>. QED  BY <2>1, <3>4, <3>5, GotoOwners
  <2>. QED  BY <2>2, <2>3
<1>. QED  BY <1>1, <1>2, <1>3, <1>4, <1>5, <1>6, <1>7 DEF Manager, ManagerStep

-----------------------------------------------------------------------------
(* The device follows the state.                                           *)

\* The steps whose failure leaves the device behind: a restart that leaves it started in
\* LOADED, and those after which a stream listens on a device that is not started.
Follow == fault \notin {"restart", "open", "start", "engine"}

DeviceInv ==
  /\ QuietInv
  /\ Steady => Owners
  /\ Steady /\ fault # "restart" => Tied(s)
  /\ Steady /\ Follow => Follows(s)

\* The invariant holds at first.
LEMMA InitDevice == Init => DeviceInv
<1>1. SUFFICES ASSUME Init PROVE DeviceInv
  OBVIOUS
<1>2. PICK c, n \in BOOLEAN : s = NewStream(c, n, scenario.stages)
  BY <1>1, TriggerAssumption DEF Init, ScenarioOK
<1>3. Tied(s) /\ Follows(s)
  BY <1>2, UseOfSteps DEF NewStream, Tied, Follows, Dev, DevClosed, DevOpen, DevRuns, Unset,
                          Running, Resting
<1>4. /\ {"ctl", "rm", "gsl"} \subseteq Threads /\ SecondStages \subseteq Threads
      /\ pc = [t \in Threads |-> "idle"] /\ ~mutex_unlocked_after_cb_
  BY <1>1 DEF Init, Threads
<1>5. Owners
  BY <1>4 DEF Owners, Ordered, Held, Holds, Joined, Keeping
<1>. QED  BY <1>1, <1>3, <1>5, InitQuiet DEF DeviceInv

\* Every step keeps it.
LEMMA StepDevice == DeviceInv /\ [Next]_vars => DeviceInv'
<1>1. SUFFICES ASSUME DeviceInv, [Next]_vars  PROVE DeviceInv'
  OBVIOUS
<1>2. QuietInv' /\ Moves /\ UNCHANGED <<scenario, fault>>
  <2>1. QuietInv
    BY <1>1 DEF DeviceInv
  <2>2. UNCHANGED fault
    BY <1>1 DEF Next, vars, Client, Control, Load, Config, Read, StopBuffering, CallStart,
       CallStop, CloseBegin, Switch, Defer, SwitchOff, SwitchOn, LockActive, Start, Stop,
       CloseJoin, Delete, Deleted, noSection, afterFinish, bounds, Timer, TimerEnds,
       TimerFires, TimerBack, Detect, Gsl, GslTake, GslCut, GslReported, GslBuffer,
       SecondStage, Verdict, Rest, SetEngineDetectionState, TryLock, TryGivesUp, Relock, Tail,
       Manager, ManagerStep, BeginPause, BeginResume, BeginOthers, BeginDevice, Concurrency,
       LoseCard, CardBack, Pause, Aborted, AbortEnds, Resume, StopOthers, StartOthers,
       Disconnect, Connect, SsrDown, SsrJoin, SsrUp, RmStep, noBegin, rmOnly
  <2>. QED  BY <1>1, <2>1, <2>2, StepMoves, StepQuiet
<1>3. SUFFICES ASSUME Steady
      PROVE  /\ Owners' /\ (fault # "restart" => Tied(s'))
             /\ Follow => Follows(s')
  BY <1>2 DEF DeviceInv, Steady, Follow
<1>4. /\ Typed(s) /\ s.stages = {} /\ ArgOK /\ RestOK /\ Owners
      /\ fault # "restart" => Tied(s)
      /\ Follow => Tied(s) /\ Follows(s)
  BY <1>1, <1>3 DEF DeviceInv, QuietInv, Steady, Follow
<1>5. Owners'
  <2>1. CASE Client
    BY <1>4, <2>1, ClientOwners
  <2>2. CASE Timer \/ Detect \/ Gsl \/ \E w \in SecondStages : SecondStage(w)
    BY <1>3, <1>4, <2>2, EngineOwners
  <2>3. CASE Manager
    BY <1>4, <2>3, ManagerOwners
  <2>4. CASE UNCHANGED vars
    BY <1>4, <2>4, SameOwners DEF vars, flags, mutexes
  <2>. QED  BY <1>1, <2>1, <2>2, <2>3, <2>4 DEF Next
<1>6. CASE ByEvent
  <2>1. PICK f \in Fault : Keeps(s, f, s')
    BY <1>6 DEF ByEvent
  <2>2. /\ fault # "restart" => f # "restart"
        /\ Follow => ~Lossy(s, f)
    BY TriggerAssumption DEF Fault, Follow, Lossy, Stages
  <2>. QED  BY <1>4, <1>5, <2>1, <2>2 DEF Keeps
<1>7. CASE ByVerdict
  BY <1>4, <1>7 DEF ByVerdict, Owners, Ordered
<1>8. CASE ByJoin
  <2>1. s.cur \notin Running
    BY <1>4, <1>8 DEF ByJoin, Owners, Joined
  <2>. QED  BY <1>4, <1>5, <1>8, <2>1 DEF ByJoin, Follows
<1>. QED  BY <1>2, <1>6, <1>7, <1>8 DEF Moves

\* A device whose user has none open or started has count 0, and so on.
LEMMA UseOfAt ==
  ASSUME NEW n, NEW m, NEW d \in Devices
  PROVE  UseOf(n, m)[d].count = n /\ UseOf(n, m)[d].startStop = m
BY DEF UseOf

\* With one stage, whatever step fails but one that leaves the device behind, and whoever
\* calls: a stream that listens on a device has opened, started and registered it once, and
\* any other has it neither started nor registered (the paths of StActive, StDetected,
\* StBuffering and StLoaded that stop, close, switch or fail).
THEOREM DeviceFollows == Spec => [](Steady /\ Follow => DeviceFollowsState)
<1>1. DeviceInv => (Steady /\ Follow => DeviceFollowsState)
  <2>1. SUFFICES ASSUME DeviceInv, Steady, Follow  PROVE DeviceFollowsState
    OBVIOUS
  <2>2. TypeOK
    BY <2>1, QuietTypes DEF DeviceInv
  <2>3. Tied(s) /\ Follows(s)
    BY <2>1 DEF DeviceInv, Follow
  <2>4. Listening <=> s.cur \in Running
    BY DEF Listening, Running
  <2>5. /\ s.registered <=> Listening /\ s.hasDev
        /\ s.use = UseOf(IF s.opened THEN 1 ELSE 0, IF Listening /\ s.hasDev THEN 1 ELSE 0)
    BY <2>1, <2>3, <2>4 DEF Tied, Follows, Dev, DevClosed, DevOpen, DevRuns, DeviceInv,
                            QuietInv, Typed
  <2>. QED  BY <2>2, <2>5, UseOfAt DEF DeviceFollowsState
<1>. QED  BY <1>1, InitDevice, StepDevice, PTL DEF Spec

\* The device of a stream that does not listen rests.
DeviceRests ==
  /\ ~Listening => ~s.registered /\ \A d \in Devices : s.use[d].startStop = 0
  /\ s.cur \in {"idle", "ssr"} => ~s.opened /\ \A d \in Devices : s.use[d].count = 0

\* With one stage, whatever step but a restart fails: a stream that does not listen has its
\* device neither started nor registered, in the middle of a call too, and one that was
\* never loaded or has lost the card has it closed.
THEOREM DeviceLeftAlone == Spec => [](Steady /\ fault # "restart" => DeviceRests)
<1>1. DeviceInv => (Steady /\ fault # "restart" => DeviceRests)
  <2>1. SUFFICES ASSUME DeviceInv, Steady, fault # "restart"  PROVE DeviceRests
    OBVIOUS
  <2>2. Tied(s) /\ (Listening <=> s.cur \in Running)
    BY <2>1 DEF DeviceInv, Listening, Running
  <2>. QED  BY <2>2, UseOfAt DEF DeviceRests, Tied, Dev, DevClosed, DevOpen, DevRuns, Resting
<1>. QED  BY <1>1, InitDevice, StepDevice, PTL DEF Spec

-----------------------------------------------------------------------------
(* What the events do to the wake lock and to the vote against low power.   *)

\* The members the wake lock and the vote are about.
Counted(x) == {"cur", "wake", "nlpi", "note"} \subseteq DOMAIN x

\* What y keeps of x, the state apart or not.
SameWake(x, y) ==
  /\ DOMAIN y = DOMAIN x /\ y.wake = x.wake /\ y.nlpi = x.nlpi
  /\ y.note = "abortDetection" => x.note = "abortDetection"
SameAwake(x, y) == SameWake(x, y) /\ y.cur = x.cur

\* A stream has the members.
LEMMA TypedCounted == ASSUME NEW x, Typed(x) PROVE Counted(x)
BY DEF Typed, Fields, Counted

\* The handlers and helpers of StStates leave the lock and the vote alone, but those that
\* give them up: status, state, engines, device, timer and configuration.
LEMMA OkBadAwake ==
  ASSUME NEW x, Counted(x), NEW y, y \in {Ok(x), Bad(x)}
  PROVE  SameAwake(x, y)
BY DEF Ok, Bad, Counted, SameAwake, SameWake

\* The same for a new state.
LEMMA ToAwake ==
  ASSUME NEW x, Counted(x), NEW state, NEW y, y = To(x, state)
  PROVE  SameWake(x, y) /\ y.cur = state
BY DEF To, Counted, SameWake

\* The same for the engines.
LEMMA EnginesAwake ==
  ASSUME NEW x, Counted(x), NEW up, NEW y,
         y \in {StopEngines(x), StartEngines(x, up), RestartActive(x)}
  PROVE  SameAwake(x, y)
BY DEF StopEngines, StartEngines, RestartActive, Counted, SameAwake, SameWake

\* The same for the device.
LEMMA DeviceAwake ==
  ASSUME NEW x, Counted(x), NEW on, NEW lpi, NEW y,
         y \in {Registered(x, on), OpenDev(x), StartDev(x), CloseDev(x), StopCloseDev(x),
                CloseOpenDev(x), UpdateDeviceConfig(x, lpi)}
  PROVE  SameAwake(x, y)
BY DEF Registered, OpenDev, StartDev, CloseDev, StopCloseDev, CloseOpenDev,
       UpdateDeviceConfig, Counted, SameAwake, SameWake

\* The same for the delayed stop.
LEMMA TimerAwake ==
  ASSUME NEW x, Counted(x), NEW y, y \in {CancelDelayedStop(x), PostDelayedStop(x)}
  PROVE  SameAwake(x, y)
BY DEF CancelDelayedStop, PostDelayedStop, Counted, SameAwake, SameWake

\* The same for a configuration.
LEMMA ConfigAwake ==
  ASSUME NEW x, Counted(x), NEW f, NEW y, y = SendRecognitionConfig(x, f)
  PROVE  SameAwake(x, y)
BY DEF SendRecognitionConfig, Ok, Bad, Counted, SameAwake, SameWake

\* What two steps leave alone both do.
LEMMA AwakeTrans ==
  ASSUME NEW x, NEW y, NEW z, Counted(x)
  PROVE  /\ SameAwake(x, y) => Counted(y)
         /\ SameWake(x, y) => Counted(y)
         /\ SameAwake(x, y) /\ SameAwake(y, z) => SameAwake(x, z)
         /\ SameWake(x, y) /\ SameWake(y, z) => SameWake(x, z)
BY DEF SameAwake, SameWake, Counted

\* A stop.
LEMMA StopAllAwake ==
  ASSUME NEW x, Counted(x), NEW y, y = StopAll(x)
  PROVE  SameWake(x, y) /\ y.cur = "loaded"
BY DEF StopAll, To, StopCloseDev, StopEngines, Registered, Counted, SameWake

\* The clean-up after a start.
LEMMA StartFailedAwake ==
  ASSUME NEW x, Counted(x), NEW y, y = StartFailed(x)
  PROVE  SameAwake(x, y)
BY DEF StartFailed, Bad, StopCloseDev, StopEngines, Registered, Counted, SameAwake, SameWake

\* The first half of a switch of the low power mode.
LEMMA OffAwake ==
  ASSUME NEW x, Counted(x), NEW y, y = Off(x)
  PROVE  SameWake(x, y) /\ y.cur = "idle"
BY DEF Off, To, CloseOpenDev, CloseDev, Counted, SameWake

\* A load.
LEMMA LoadAwake ==
  ASSUME NEW x, Counted(x), NEW f, NEW lpi, NEW up, NEW y, y = LoadSoundModel(x, f, lpi, up)
  PROVE  SameWake(x, y) /\ y.cur \in {x.cur, "loaded"}
BY DEF LoadSoundModel, Ok, Bad, To, UpdateDeviceConfig, Counted, SameWake

\* A start.
LEMMA StartRecognitionAwake ==
  ASSUME NEW x, Counted(x), NEW f, NEW up, NEW y, y = StartRecognition(x, f, up)
  PROVE  SameWake(x, y) /\ y.cur \in {x.cur, "active"}
<1> DEFINE o == IF x.hasDev /\ ~x.opened THEN OpenDev(x) ELSE x
           r == Registered(IF x.hasDev THEN StartDev(o) ELSE x, TRUE)
<1>1. \/ y = Bad(x)
      \/ y = Bad(CloseDev(o))
      \/ y = StartFailed(r)
      \/ y = To(Ok([StartEngines(r, up) EXCEPT !.reader = FALSE]), "active")
  BY DEF StartRecognition
<1>2. SameAwake(x, o)
  BY DEF OpenDev, SameAwake, SameWake, Counted
<1>3. SameAwake(x, r)
  BY DEF OpenDev, StartDev, Registered, SameAwake, SameWake, Counted
<1>. HIDE DEF o, r
<1>4. Counted(o) /\ Counted(r)
  BY <1>2, <1>3, AwakeTrans
<1>5. SameAwake(o, Bad(CloseDev(o)))
  BY <1>4 DEF CloseDev, Bad, SameAwake, SameWake, Counted
<1>6. SameAwake(r, StartFailed(r))
  BY <1>4, StartFailedAwake
<1>7. PICK z : z = To(Ok([StartEngines(r, up) EXCEPT !.reader = FALSE]), "active")
  OBVIOUS
<1>8. SameWake(r, z) /\ z.cur = "active"
  BY <1>4, <1>7 DEF To, Ok, StartEngines, SameWake, Counted
<1>. QED  BY <1>1, <1>2, <1>3, <1>5, <1>6, <1>7, <1>8, OkBadAwake, AwakeTrans
          DEF SameAwake, SameWake

\* A resume by the manager.
LEMMA ResumeAwake ==
  ASSUME NEW x, Counted(x), NEW f, NEW up, NEW y, y = ResumeInternally(x, f, up)
  PROVE  SameWake(x, y) /\ y.cur \in {x.cur, "active"}
<1>1. PICK t, c : t = [x EXCEPT !.paused = FALSE] /\ c = SendRecognitionConfig(t, f)
  OBVIOUS
<1>2. SameAwake(x, t) /\ Counted(t)
  BY <1>1 DEF SameAwake, SameWake, Counted
<1>3. SameAwake(t, c) /\ Counted(c)
  BY <1>1, <1>2, ConfigAwake, AwakeTrans
<1>4. y \in {Ok(t), c, StartRecognition(c, f, up), StartRecognition(t, f, up)}
  BY <1>1 DEF ResumeInternally
<1>. QED  BY <1>2, <1>3, <1>4, OkBadAwake, StartRecognitionAwake DEF SameAwake, SameWake

\* A device is taken away.
LEMMA DisconnectAwake ==
  ASSUME NEW x, Counted(x), NEW switch, NEW y,
         y \in {DisconnectActive(x), DisconnectLoaded(x), DisconnectEvent(x, switch)}
  PROVE  SameAwake(x, y)
<1>1. CASE y = DisconnectActive(x)
  BY <1>1 DEF DisconnectActive, Ok, StopCloseDev, Registered, Counted, SameAwake, SameWake
<1>2. CASE y = DisconnectLoaded(x)
  BY <1>2 DEF DisconnectLoaded, Ok, CloseOpenDev, CloseDev, Counted, SameAwake, SameWake
<1>3. CASE y = DisconnectEvent(x, switch)
  BY <1>3 DEF DisconnectEvent, Ok, StopCloseDev, Registered, StopEngines, CancelDelayedStop,
              Counted, SameAwake, SameWake
<1>. QED  BY <1>1, <1>2, <1>3

\* A device is set up.
LEMMA ConnectedAwake ==
  ASSUME NEW x, Counted(x), NEW f, NEW lpi, NEW run, NEW y, y = Connected(x, f, lpi, run)
  PROVE  SameAwake(x, y)
<1> DEFINE c == UpdateDeviceConfig(x, lpi)
           u == [c EXCEPT !.switching = IF @ > 0 THEN @ - 1 ELSE 0]
           o == IF u.opened THEN u ELSE OpenDev(u)
           r == IF run THEN StartDev(o) ELSE o
<1>1. \/ y = Bad(x)
      \/ y = Bad([u EXCEPT !.hasDev = FALSE])
      \/ y = Bad(u)
      \/ y = Bad(CloseDev(o))
      \/ y = Bad([CloseDev(r) EXCEPT !.hasDev = FALSE])
      \/ y = Ok(IF run THEN Registered(r, TRUE) ELSE r)
  BY DEF Connected
<1>2. SameAwake(x, u)
  BY DEF UpdateDeviceConfig, SameAwake, SameWake, Counted
<1>. HIDE DEF c, u
<1>3. Counted(u)
  BY <1>2, AwakeTrans
<1>4. SameAwake(u, o) /\ SameAwake(u, r)
  BY <1>3 DEF OpenDev, StartDev, SameAwake, SameWake, Counted
<1>. HIDE DEF o, r
<1>5. Counted(o) /\ Counted(r)
  BY <1>3, <1>4, AwakeTrans
<1>6. /\ SameAwake(u, Bad([u EXCEPT !.hasDev = FALSE])) /\ SameAwake(u, Bad(u))
      /\ SameAwake(o, Bad(CloseDev(o))) /\ SameAwake(r, Bad([CloseDev(r) EXCEPT !.hasDev = FALSE]))
      /\ SameAwake(r, Ok(IF run THEN Registered(r, TRUE) ELSE r))
  BY <1>3, <1>5 DEF Bad, Ok, CloseDev, Registered, SameAwake, SameWake, Counted
<1>. QED  BY <1>1, <1>2, <1>4, <1>6, OkBadAwake DEF SameAwake, SameWake

\* A device is set up in LOADED.
LEMMA ConnectLoadedAwake ==
  ASSUME NEW x, Counted(x), NEW f, NEW lpi, NEW up, NEW y, y = ConnectLoaded(x, f, lpi, up)
  PROVE  SameWake(x, y) /\ y.cur \in {x.cur, "active"}
<1>1. PICK run, c : c = Connected(x, f, lpi, run) /\ y = AfterConnectLoaded(c, f, up, run)
  BY DEF ConnectLoaded
<1>2. SameAwake(x, c) /\ Counted(c)
  BY <1>1, ConnectedAwake, AwakeTrans
<1>3. PICK e : e = StartEngines(c, up) \/ e = c
  OBVIOUS
<1>4. \/ y = c \/ y = StartFailed(c)
      \/ \E d \in {StartEngines(c, up), c} :
           y = [d EXCEPT !.reader = FALSE, !.second = FALSE,
                         !.cur = IF run THEN "active" ELSE @]
  BY <1>1 DEF AfterConnectLoaded
<1>5. ASSUME NEW d \in {StartEngines(c, up), c},
             y = [d EXCEPT !.reader = FALSE, !.second = FALSE,
                           !.cur = IF run THEN "active" ELSE @]
      PROVE  SameWake(c, y) /\ y.cur \in {c.cur, "active"}
  BY <1>2, <1>5 DEF StartEngines, SameWake, Counted
<1>. QED  BY <1>2, <1>4, <1>5, StartFailedAwake DEF SameAwake, SameWake

\* A device is set up in DETECTED and BUFFERING.
LEMMA ConnectEventAwake ==
  ASSUME NEW x, Counted(x), NEW f, NEW lpi, NEW up, NEW y, y = ConnectEvent(x, f, lpi, up)
  PROVE  SameWake(x, y) /\ y.cur \in {x.cur, "active"}
<1>1. PICK c : c = Connected(x, f, lpi, TRUE) /\ y = AfterConnect(c, f, up)
  BY DEF ConnectEvent
<1>2. SameAwake(x, c) /\ Counted(c)
  BY <1>1, ConnectedAwake, AwakeTrans
<1>3. \/ y = c \/ y = StartFailed(c)
      \/ y = To([StartEngines(c, up) EXCEPT !.reader = FALSE, !.second = FALSE], "active")
      \/ y = [c EXCEPT !.reader = FALSE, !.second = @ /\ c.cur = "buffering"]
  BY <1>1 DEF AfterConnect
<1>4. PICK a : a = To([StartEngines(c, up) EXCEPT !.reader = FALSE, !.second = FALSE], "active")
  OBVIOUS
<1>5. SameWake(c, a) /\ a.cur = "active"
  BY <1>2, <1>4 DEF To, StartEngines, SameWake, Counted
<1>6. PICK b : b = [c EXCEPT !.reader = FALSE, !.second = @ /\ c.cur = "buffering"]
  OBVIOUS
<1>7. SameAwake(c, b)
  BY <1>2, <1>6 DEF SameAwake, SameWake, Counted
<1>. QED  BY <1>2, <1>3, <1>4, <1>5, <1>6, <1>7, StartFailedAwake DEF SameAwake, SameWake

\* A detection is handled: the stream holds the wake lock.
Handled == {"detected", "buffering"}
Drop(n) == IF n > 0 THEN n - 1 ELSE 0

\* No detection is handled, before or after.
Rested(x, y) == SameWake(x, y) /\ y.cur \notin Handled

\* What is left to do after a stop.
LEMMA AfterStopAwake ==
  ASSUME NEW x, Counted(x), NEW ev \in StopEvents, NEW f, NEW y, y = AfterStop(x, ev, f)
  PROVE  SameAwake(x, y)
<1>1. CASE ev = "config"
  BY <1>1, ConfigAwake DEF AfterStop
<1>2. CASE ev # "config"
  BY <1>2 DEF AfterStop, StopEvents, Ok, Counted, SameAwake, SameWake
<1>. QED  BY <1>1, <1>2

\* Every event in IDLE.
LEMMA IdleAwake ==
  ASSUME NEW x, Counted(x), x.cur = "idle", NEW ev, NEW f, NEW lpi, NEW up, NEW y,
         y = StIdle(x, ev, f, lpi, up)
  PROVE  Rested(x, y)
<1>1. CASE ev = "load"
  BY <1>1, LoadAwake DEF StIdle, Rested, Handled
<1>2. CASE ev # "load" /\ ~(ev = "on" /\ x.model)
  BY <1>2 DEF StIdle, Ok, Bad, UpdateDeviceConfig, Counted, Rested, SameWake, Handled
<1>3. CASE ev = "on" /\ x.model
  <2>1. PICK t, l : /\ t = UpdateDeviceConfig(x, lpi)
                    /\ l = To(Ok([t EXCEPT !.gsl = IF up THEN "loaded" ELSE @]), "loaded")
    OBVIOUS
  <2>2. SameAwake(x, t) /\ Counted(t)
    BY <2>1, DeviceAwake, AwakeTrans
  <2>3. SameWake(t, l) /\ l.cur = "loaded"
    BY <2>1, <2>2 DEF To, Ok, Counted, SameWake
  <2>4. Counted(l)
    BY <2>2, <2>3, AwakeTrans
  <2>5. y \in {Bad(t), StartRecognition(l, f, up), l}
    BY <1>3, <2>1 DEF StIdle
  <2>. QED  BY <1>3, <2>2, <2>3, <2>4, <2>5, OkBadAwake, StartRecognitionAwake
            DEF SameAwake, SameWake, Rested, Handled
<1>. QED  BY <1>1, <1>2, <1>3

\* Every event in LOADED.
LEMMA LoadedAwake ==
  ASSUME NEW x, Counted(x), x.cur = "loaded", NEW ev, NEW f, NEW lpi, NEW up, NEW y,
         y = StLoaded(x, ev, f, lpi, up)
  PROVE  Rested(x, y)
<1>1. \/ y \in {SendRecognitionConfig(x, f), StartRecognition(x, f, up),
                ResumeInternally(x, f, up), DisconnectLoaded(x), ConnectLoaded(x, f, lpi, up),
                Off(x), Ok(x), Bad(x)}
      \/ \E p : y = Ok([x EXCEPT !.paused = p])
      \/ y = Ok(StopEngines(x))
  BY DEF StLoaded
<1>2. ASSUME NEW p, y = Ok([x EXCEPT !.paused = p])  PROVE SameAwake(x, y)
  BY <1>2 DEF Ok, Counted, SameAwake, SameWake
<1>3. CASE y = Ok(StopEngines(x))
  BY <1>3 DEF Ok, StopEngines, Counted, SameWake, Rested, Handled
<1>4. CASE y \in {SendRecognitionConfig(x, f), DisconnectLoaded(x), Ok(x), Bad(x)}
  <2>1. SameAwake(x, y)
    BY <1>4, ConfigAwake, OkBadAwake, DisconnectAwake
  <2>. QED  BY <2>1 DEF SameAwake, Rested, Handled
<1>5. CASE y \in {StartRecognition(x, f, up), ResumeInternally(x, f, up),
                 ConnectLoaded(x, f, lpi, up), Off(x)}
  <2>1. SameWake(x, y) /\ y.cur \in {x.cur, "active", "idle"}
    BY <1>5, StartRecognitionAwake, ResumeAwake, ConnectLoadedAwake, OffAwake
  <2>. QED  BY <2>1 DEF Rested, Handled
<1>. QED  BY <1>1, <1>2, <1>3, <1>4, <1>5 DEF SameAwake, Rested, Handled

\* Every event in ACTIVE: a detection alone is to be handled.
LEMMA ActiveAwake ==
  ASSUME NEW x, Counted(x), x.cur = "active", NEW ev, NEW f, NEW lpi, NEW up, NEW y,
         y = StActive(x, ev, f, lpi, up)
  PROVE  IF ev = "detected" THEN SameWake(x, y) /\ y.cur \in Handled ELSE Rested(x, y)
<1>1. CASE ev \in StopEvents
  <2>1. PICK a : a = StopAll(x)
    OBVIOUS
  <2>2. SameWake(x, a) /\ a.cur = "loaded" /\ Counted(a)
    BY <2>1, StopAllAwake, AwakeTrans
  <2>3. SameAwake(a, y)
    <3>1. y = AfterStop(a, ev, f)
      BY <1>1, <2>1 DEF StActive, StopEvents
    <3>. QED  BY <1>1, <2>2, <3>1, AfterStopAwake
  <2>. QED  BY <1>1, <2>2, <2>3 DEF StopEvents, SameAwake, SameWake, Rested, Handled
<1>2. CASE ev = "detected"
  <2>1. PICK n : n = [[x EXCEPT !.second = IF Single(x) THEN @ ELSE TRUE]
                        EXCEPT !.note = IF Single(x) THEN "detection" ELSE "none"]
    OBVIOUS
  <2>3. SameAwake(x, n) /\ Counted(n)
    BY <2>1 DEF SameAwake, SameWake, Counted
  <2>4. y \in {Ok(To(n, "detected")), Ok(To([n EXCEPT !.run = x.stages], "buffering"))}
    BY <1>2, <2>1 DEF StActive, StopEvents
  <2>5. CASE y = Ok(To(n, "detected"))
    BY <1>2, <2>3, <2>5 DEF Ok, To, Counted, SameAwake, SameWake, Handled
  <2>6. CASE y = Ok(To([n EXCEPT !.run = x.stages], "buffering"))
    BY <1>2, <2>3, <2>6 DEF Ok, To, Counted, SameAwake, SameWake, Handled
  <2>. QED  BY <1>2, <2>4, <2>5, <2>6
<1>3. CASE ev = "off"
  <2>1. PICK a : a = StopAll(x)
    OBVIOUS
  <2>2. SameWake(x, a) /\ Counted(a)
    BY <2>1, StopAllAwake, AwakeTrans
  <2>3. SameWake(a, y) /\ y.cur = "idle"
    BY <1>3, <2>1, <2>2, OffAwake DEF StActive, StopEvents
  <2>. QED  BY <1>3, <2>2, <2>3 DEF SameWake, Rested, Handled
<1>4. CASE ev \notin StopEvents \cup {"detected", "off"}
  <2>1. y \in {DisconnectActive(x), Connected(x, f, lpi, TRUE), Bad(x), Ok(x)}
    BY <1>4 DEF StActive
  <2>2. SameAwake(x, y)
    BY <2>1, DisconnectAwake, ConnectedAwake, OkBadAwake
  <2>. QED  BY <1>4, <2>2 DEF SameAwake, Rested, Handled
<1>. QED  BY <1>1, <1>2, <1>3, <1>4 DEF StopEvents

\* Every event while the card is lost.
LEMMA SsrAwake ==
  ASSUME NEW x, Counted(x), x.cur = "ssr", NEW ev, NEW y, y = StSSR(x, ev)
  PROVE  Rested(x, y)
BY DEF StSSR, Ok, Bad, Counted, Rested, SameWake, Handled

\* What a stream that handles a detection does with an event: it gives the lock back, lets
\* the manager do it, or goes on handling.
HandledStep(x, ev, y) ==
  /\ DOMAIN y = DOMAIN x
  /\ y.nlpi => x.nlpi
  /\ y.note = "abortDetection" => x.note = "abortDetection" \/ ev = "pause"
  /\ CASE ev \in {"start", "stop", "config", "ipause", "off", "on"} ->
            y.wake = Drop(x.wake) /\ y.cur \notin Handled /\ ~y.nlpi
       [] ev = "pause" ->
            /\ y.wake = x.wake /\ y.cur \notin Handled /\ ~y.nlpi
            /\ y.note = "abortDetection"
       [] ev = "disconnect" -> y.wake = Drop(x.wake) /\ y.cur = x.cur /\ ~y.nlpi
       [] ev = "connect" -> y.wake = x.wake /\ (y.cur = x.cur \/ y.cur \notin Handled)
       [] OTHER -> y.wake = x.wake /\ y.cur = x.cur

\* The wake lock given back.
LEMMA ReleasedAwake ==
  ASSUME NEW x, Counted(x), NEW y, y = Released(x)
  PROVE  /\ DOMAIN y = DOMAIN x /\ y.wake = Drop(x.wake) /\ y.cur = x.cur /\ y.nlpi = x.nlpi
         /\ y.note = x.note
BY DEF Released, Drop, Counted

\* A start of a stream that handles a detection.
LEMMA RestartAwake ==
  ASSUME NEW x, Counted(x), x.cur \in Handled, NEW f, NEW up, NEW y, y = Restart(x, f, up)
  PROVE  HandledStep(x, "start", y)
<1>1. PICK c, e, r, b :
        /\ c = CancelDelayedStop(Unvoted(x)) /\ e = RestartEngines(c, up)
        /\ r = To(Ok([e EXCEPT !.reader = FALSE]), "active")
        /\ b = To(Bad([c EXCEPT !.reader = FALSE]), "loaded")
  OBVIOUS
<1>2. DOMAIN c = DOMAIN x /\ Counted(c) /\ c.wake = x.wake /\ c.cur = x.cur /\ c.nlpi = FALSE
      /\ c.note = x.note
  BY <1>1 DEF CancelDelayedStop, Unvoted, Counted
<1>3. SameAwake(c, e) /\ Counted(e)
  BY <1>1, <1>2 DEF RestartEngines, RestartActive, StartEngines, Counted, SameAwake, SameWake
<1>4. SameWake(e, r) /\ r.cur = "active" /\ SameWake(c, b) /\ b.cur = "loaded"
  BY <1>1, <1>2, <1>3 DEF To, Ok, Bad, Counted, SameWake
<1>5. Counted(r) /\ Counted(b)
  BY <1>2, <1>3, <1>4, AwakeTrans
<1>6. y = Released(b) \/ y = Released(r)
  BY <1>1 DEF Restart
<1>. QED  BY <1>2, <1>3, <1>4, <1>5, <1>6, ReleasedAwake
          DEF HandledStep, SameAwake, SameWake, Handled

\* Every event in DETECTED and BUFFERING, but that a device is there again.
LEMMA HandledAwake ==
  ASSUME NEW x, Counted(x), x.cur \in Handled, NEW ev, NEW f, NEW lpi,
         NEW up, NEW y, y = AfterDetection(x, ev, f, lpi, up), ev # "connect"
  PROVE  HandledStep(x, ev, y)
<1>1. PICK c, v, l : /\ c = [x EXCEPT !.reader = FALSE] /\ v = CancelDelayedStop(Unvoted(c))
                     /\ l = StopAll(v)
  OBVIOUS
<1>2. /\ DOMAIN v = DOMAIN x /\ Counted(v) /\ v.wake = x.wake /\ v.cur = x.cur
      /\ v.nlpi = FALSE /\ v.note = x.note
  BY <1>1 DEF CancelDelayedStop, Unvoted, Counted
<1>3. SameWake(v, l) /\ l.cur = "loaded" /\ Counted(l)
  BY <1>1, <1>2, StopAllAwake, AwakeTrans
<1>4. CASE ev = "start"
  BY <1>4, RestartAwake DEF AfterDetection, StopEvents
<1>5. CASE ev \in StopEvents
  <2>1. PICK a : a = AfterStop(l, ev, f)
    OBVIOUS
  <2>2. SameAwake(l, a) /\ Counted(a)
    BY <1>3, <1>5, <2>1, AfterStopAwake, AwakeTrans
  <2>3. CASE ev = "pause"
    <3>1. y = [a EXCEPT !.note = "abortDetection"]
      BY <1>1, <2>1, <2>3 DEF AfterDetection
    <3>2. /\ DOMAIN y = DOMAIN a /\ y.wake = a.wake /\ y.cur = a.cur /\ y.nlpi = a.nlpi
          /\ y.note = "abortDetection"
      BY <2>2, <3>1 DEF Counted
    <3>. QED  BY <1>2, <1>3, <2>2, <2>3, <3>2 DEF HandledStep, SameAwake, SameWake, Handled
  <2>4. CASE ev # "pause"
    <3>1. y = Released(a)
      BY <1>1, <1>5, <2>1, <2>4 DEF AfterDetection, StopEvents
    <3>2. DOMAIN y = DOMAIN a /\ y.wake = Drop(a.wake) /\ y.cur = a.cur /\ y.nlpi = a.nlpi
          /\ y.note = a.note
      BY <2>2, <3>1, ReleasedAwake
    <3>. QED  BY <1>2, <1>3, <1>5, <2>2, <2>4, <3>2
              DEF HandledStep, SameAwake, SameWake, Handled, StopEvents
  <2>. QED  BY <2>3, <2>4
<1>6. CASE ev \in {"disconnect", "off", "on"}
  <2>1. PICK u, d, g : /\ u = Unvoted(c) /\ d = DisconnectEvent(u, g)
                       /\ \/ ev = "disconnect" /\ y = Released(d)
                          \/ ev = "off" /\ y = Released(Off(To(d, "loaded")))
                          \/ ev = "on" /\ y = Released(Bad(To(d, "loaded")))
    BY <1>1, <1>6 DEF AfterDetection, StopEvents
  <2>2. DOMAIN u = DOMAIN x /\ Counted(u) /\ u.wake = x.wake /\ u.cur = x.cur /\ u.nlpi = FALSE
        /\ u.note = x.note
    BY <1>1, <2>1 DEF Unvoted, Counted
  <2>3. SameAwake(u, d) /\ Counted(d)
    BY <2>1, <2>2, DisconnectAwake, AwakeTrans
  <2>4. PICK o, b : o = Off(To(d, "loaded")) /\ b = Bad(To(d, "loaded"))
    OBVIOUS
  <2>5. SameWake(d, To(d, "loaded")) /\ To(d, "loaded").cur = "loaded"
    BY <2>3 DEF To, Counted, SameWake
  <2>6. SameWake(d, o) /\ o.cur = "idle" /\ SameWake(d, b) /\ b.cur = "loaded"
    BY <2>3, <2>4, <2>5, OffAwake, OkBadAwake, AwakeTrans DEF SameAwake, SameWake
  <2>7. Counted(o) /\ Counted(b)
    BY <2>3, <2>6, AwakeTrans
  <2>. QED  BY <2>1, <2>2, <2>3, <2>4, <2>6, <2>7, ReleasedAwake
            DEF HandledStep, SameAwake, SameWake, Handled
<1>7. CASE ev \notin StopEvents \cup {"start", "disconnect", "off", "on"}
  <2>1. y = Ok(x)
    BY <1>7 DEF AfterDetection, StopEvents
  <2>. QED  BY <1>7, <2>1, OkBadAwake DEF HandledStep, SameAwake, SameWake, StopEvents
<1>. QED  BY <1>4, <1>5, <1>6, <1>7

\* Every event of a stream.
LEMMA ProcessAwake ==
  ASSUME NEW x, Typed(x), NEW ev, NEW f, NEW lpi, NEW up, NEW y, y = Process(x, ev, f, lpi, up)
  PROVE  /\ x.cur \in Handled => HandledStep(x, ev, y)
         /\ x.cur \notin Handled /\ ~(x.cur = "active" /\ ev = "detected") => Rested(x, y)
         /\ x.cur = "active" /\ ev = "detected" => SameWake(x, y) /\ y.cur \in Handled
<1>1. Counted(x)
  BY DEF Typed, Fields, Counted
<1>2. CASE x.cur \in {"idle", "loaded", "active", "ssr"}
  BY <1>1, <1>2, IdleAwake, LoadedAwake, ActiveAwake, SsrAwake DEF Process, Handled
<1>3. CASE x.cur = "detected"
  <2>1. CASE ev \in {"resume", "iresume"}
    <3>1. y = Ok([x EXCEPT !.paused = FALSE])
      BY <1>3, <2>1 DEF Process, StDetected
    <3>. QED  BY <1>1, <1>3, <2>1, <3>1 DEF Ok, HandledStep, Counted, Handled
  <2>2. CASE ev = "connect"
    <3>1. y = ConnectEvent(x, f, lpi, up)
      BY <1>3, <2>2 DEF Process, StDetected
    <3>. QED  BY <1>1, <1>3, <2>2, <3>1, ConnectEventAwake DEF HandledStep, SameWake, Handled
  <2>3. CASE ev \notin {"resume", "iresume", "connect"}
    <3>1. y = AfterDetection(x, ev, f, lpi, up)
      BY <1>3, <2>3 DEF Process, StDetected
    <3>. QED  BY <1>1, <1>3, <2>3, <3>1, HandledAwake DEF Handled
  <2>. QED  BY <2>1, <2>2, <2>3
<1>4. CASE x.cur = "buffering"
  <2>1. CASE ev = "stopBuffering"
    <3>1. y = Ok(PostDelayedStop(Unvoted([x EXCEPT !.reader = FALSE])))
      BY <1>4, <2>1 DEF Process, StBuffering
    <3>. QED  BY <1>1, <1>4, <2>1, <3>1
              DEF Ok, PostDelayedStop, Unvoted, HandledStep, Counted, Handled
  <2>2. CASE ev = "connect"
    <3>1. y = ConnectEvent(x, f, lpi, up)
      BY <1>4, <2>2 DEF Process, StBuffering
    <3>. QED  BY <1>1, <1>4, <2>2, <3>1, ConnectEventAwake DEF HandledStep, SameWake, Handled
  <2>3. CASE ev \notin {"stopBuffering", "connect"}
    <3>1. y = AfterDetection(x, ev, f, lpi, up)
      BY <1>4, <2>3 DEF Process, StBuffering
    <3>. QED  BY <1>1, <1>4, <2>3, <3>1, HandledAwake DEF Handled
  <2>. QED  BY <2>1, <2>2, <2>3
<1>. QED  BY <1>2, <1>3, <1>4 DEF Typed, StNames, Handled

\* Before an unload the vote is given up, the lock is not.
LEMMA BeforeUnloadAwake ==
  ASSUME NEW x, Counted(x), x.cur \notin Handled => ~x.nlpi, NEW y, y = BeforeUnload(x)
  PROVE  /\ Counted(y) /\ y.wake = x.wake /\ y.cur \notin Handled /\ ~y.nlpi
         /\ y.note = "abortDetection" => x.note = "abortDetection"
<1>1. CASE x.cur = "active"
  <2>1. y = StopAll(x)
    BY <1>1 DEF BeforeUnload
  <2>. QED  BY <1>1, <2>1, StopAllAwake, AwakeTrans DEF SameWake, Handled
<1>2. CASE x.cur \in Handled
  <2>1. PICK v : v = CancelDelayedStop(Unvoted([x EXCEPT !.reader = FALSE])) /\ y = StopAll(v)
    BY <1>2 DEF BeforeUnload, Handled
  <2>2. Counted(v) /\ v.wake = x.wake /\ v.nlpi = FALSE /\ v.note = x.note
    BY <2>1 DEF CancelDelayedStop, Unvoted, Counted
  <2>. QED  BY <2>1, <2>2, StopAllAwake, AwakeTrans DEF SameWake, Handled
<1>3. CASE x.cur \notin Handled \cup {"active"}
  BY <1>3 DEF BeforeUnload, Handled
<1>. QED  BY <1>1, <1>2, <1>3

\* After it DETECTED and BUFFERING have given the lock back.
LEMMA AfterUnloadAwake ==
  ASSUME NEW x, Counted(x), NEW from, NEW y, y = AfterUnload(x, from)
  PROVE  /\ Counted(y) /\ y.cur = "idle" /\ y.nlpi = x.nlpi /\ y.note = x.note
         /\ y.wake = IF from \in Handled THEN Drop(x.wake) ELSE x.wake
<1>1. PICK u : u = To(UnloadSoundModel(x), "idle")
  OBVIOUS
<1>2. Counted(u) /\ u.cur = "idle" /\ u.wake = x.wake /\ u.nlpi = x.nlpi /\ u.note = x.note
  BY <1>1 DEF To, UnloadSoundModel, CloseOpenDev, CloseDev, Counted
<1>3. y = IF from \in Handled THEN Released(u) ELSE u
  BY <1>1 DEF AfterUnload, Handled
<1>. QED  BY <1>2, <1>3, ReleasedAwake DEF Counted

\* The card is back.
LEMMA OnlineAwake ==
  ASSUME NEW x, Counted(x), x.cur = "ssr", NEW f, NEW lpi, NEW up, NEW y,
         y = Online(x, f, lpi, up)
  PROVE  Rested(x, y)
<1>1. CASE ~x.model
  <2>1. y = Ok(To(x, "idle"))
    BY <1>1 DEF Online
  <2>. QED  BY <2>1 DEF Ok, To, Counted, Rested, SameWake, Handled
<1>2. CASE x.model
  <2>1. PICK r : r = IF x.restore # "idle" THEN x.restore
                     ELSE CASE x.currentState = "started" -> "active"
                            [] x.currentState \in {"opened", "stopped"} -> "loaded"
                            [] OTHER -> "idle"
    OBVIOUS
  <2>2. PICK i, l, c, a :
          /\ i = To([x EXCEPT !.restore = r], "idle")
          /\ l = LoadSoundModel(i, f, lpi, up)
          /\ c = (IF l.cfg THEN SendRecognitionConfig(l, f) ELSE l)
          /\ a = StartRecognition(c, f, up)
    OBVIOUS
  <2>3. PICK end : /\ y = IF end.ok THEN [end EXCEPT !.restore = "none"] ELSE end
                   /\ end = IF r \notin {"loaded", "active"} THEN Ok(i)
                       ELSE IF ~l.ok THEN l ELSE IF ~c.ok THEN c
                       ELSE IF r = "active" THEN a ELSE c
    BY <1>2, <2>1, <2>2, Zenon DEF Online
  <2>4. SameWake(x, i) /\ i.cur = "idle" /\ Counted(i)
    BY <2>2 DEF To, Counted, SameWake
  <2>5. SameWake(i, l) /\ l.cur \in {"idle", "loaded"} /\ Counted(l)
    BY <2>2, <2>4, LoadAwake, AwakeTrans
  <2>6. SameAwake(l, c) /\ Counted(c)
    BY <2>2, <2>5, ConfigAwake, AwakeTrans DEF SameAwake, SameWake
  <2>7. SameWake(c, a) /\ a.cur \in {"idle", "loaded", "active"}
    BY <2>2, <2>5, <2>6, StartRecognitionAwake DEF SameAwake
  <2>8. end \in {Ok(i), l, c, a}
    BY <2>3
  <2>9. SameWake(x, end) /\ end.cur \in {"idle", "loaded", "active"}
    BY <2>4, <2>5, <2>6, <2>7, <2>8, OkBadAwake DEF SameAwake, SameWake
  <2>10. SameAwake(end, y)
    <3>1. Counted(end)
      BY <2>9, AwakeTrans
    <3>. QED  BY <2>3, <3>1 DEF Counted, SameAwake, SameWake
  <2>. QED  BY <2>9, <2>10 DEF SameAwake, SameWake, Rested, Handled
<1>. QED  BY <1>1, <1>2

-----------------------------------------------------------------------------
(* Who holds the wake lock for what.                                       *)

One(c) == IF c THEN 1 ELSE 0

\* What a thread holds the wake lock for: the first stage for the detection it took from
\* the queue, the manager for the one it aborts, a thread that unloads for the one it cut.
Lock(t, l, a) ==
  IF t = "gsl" THEN l # "idle"
  ELSE \/ t = "rm" /\ l \in {"abort", "aborted"} /\ a = "abortDetection"
       \/ l = "join" /\ a \in Handled
\* The stream itself holds it for the detection it handles, until the device is switched.
StreamLock == s.cur \in Handled /\ pc["rm"] # "device_connect"
LockOf(t) == Lock(t, pc[t], arg[t])
Due == queued + One(StreamLock) + One(LockOf("gsl")) + One(LockOf("rm")) + One(LockOf("ctl"))

WakeBounds ==
  /\ "overtake" \notin scenario.Events => s.wake <= Due
  /\ "device" \notin scenario.Events => s.wake >= Due
Voted == s.nlpi => s.cur = "buffering" /\ pc["rm"] # "device_connect"
\* The client cannot close while it is told of an abort.
Aborting == pc["rm"] \in {"abort", "aborted"} => is_abort_event_notifying_ /\ pc["ctl"] # "join"
Switching == pc["rm"] \in {"device", "device_connect"} => "device" \in scenario.Events
WakeOK == WakeBounds /\ Voted /\ Aborting /\ Switching /\ s.note # "abortDetection"

\* The lock of one thread apart.
LEMMA GotoDue ==
  ASSUME ArgOK, NEW t \in {"ctl", "rm", "gsl"}, NEW l, NEW a, Goto(t, l, a), queued \in Nat,
         queued' \in Nat
  PROVE  /\ pc'["rm"] = IF t = "rm" THEN l ELSE pc["rm"]
         /\ \E r \in Nat : /\ Due = queued + One(StreamLock) + One(LockOf(t)) + r
                           /\ Due' = queued' + One(StreamLock') + One(Lock(t, l, a)) + r
<1>1. /\ {"ctl", "rm", "gsl"} \subseteq Threads
  BY DEF Threads
<1>2. /\ pc' = [u \in Threads |-> IF u = t THEN l ELSE pc[u]]
      /\ arg' = [u \in Threads |-> IF u = t THEN a ELSE arg[u]]
  BY DEF ArgOK, Goto
<1>3. \A u \in {"ctl", "rm", "gsl"} :
        LockOf(u)' = IF u = t THEN Lock(t, l, a) ELSE LockOf(u)
  BY <1>1, <1>2 DEF LockOf
<1>4. \A c \in BOOLEAN : One(c) \in {0, 1}
  BY DEF One
<1>5. \A u \in {"ctl", "rm", "gsl"} : One(LockOf(u)) \in {0, 1}
  BY DEF One
<1>6. One(StreamLock) \in {0, 1} /\ One(StreamLock') \in {0, 1} /\ One(Lock(t, l, a)) \in {0, 1}
  BY DEF One
<1>7. Due' = queued' + One(StreamLock') + One(LockOf("gsl")') + One(LockOf("rm")')
             + One(LockOf("ctl")')
  BY DEF Due, One
<1>8. pc'["rm"] = IF t = "rm" THEN l ELSE pc["rm"]
  BY <1>1, <1>2
<1>9. CASE t = "gsl"
  <2>1. PICK r : r = One(LockOf("rm")) + One(LockOf("ctl"))
    OBVIOUS
  <2>. QED  BY <1>3, <1>5, <1>6, <1>7, <1>8, <1>9, <2>1 DEF Due
<1>10. CASE t = "rm"
  <2>1. PICK r : r = One(LockOf("gsl")) + One(LockOf("ctl"))
    OBVIOUS
  <2>. QED  BY <1>3, <1>5, <1>6, <1>7, <1>8, <1>10, <2>1 DEF Due
<1>11. CASE t = "ctl"
  <2>1. PICK r : r = One(LockOf("gsl")) + One(LockOf("rm"))
    OBVIOUS
  <2>. QED  BY <1>3, <1>5, <1>6, <1>7, <1>8, <1>11, <2>1 DEF Due
<1>. QED  BY <1>9, <1>10, <1>11

\* The ways a step keeps the balance: nothing is taken or given back; a lock is; the lock
\* of the stream is dropped.
LEMMA BoundsKept ==
  ASSUME WakeBounds, s.wake \in Nat, Due \in Nat, Due' \in Nat, UNCHANGED scenario,
         \/ s'.wake = s.wake /\ Due' = Due
         \/ s'.wake = s.wake + 1 /\ Due' = Due + 1
         \/ s'.wake = Drop(s.wake) /\ Due = Due' + 1
  PROVE  WakeBounds'
<1>1. ASSUME NEW w \in Nat, NEW d \in Nat, NEW v, NEW e \in Nat,
             (v = w /\ e = d) \/ (v = w + 1 /\ e = d + 1) \/ (v = Drop(w) /\ d = e + 1)
      PROVE  (w <= d => v <= e) /\ (w >= d => v >= e)
  BY <1>1 DEF Drop
<1>2. (s.wake <= Due => s'.wake <= Due') /\ (s.wake >= Due => s'.wake >= Due')
  <2>1. PICK w, d, v, e : w = s.wake /\ d = Due /\ v = s'.wake /\ e = Due'
    OBVIOUS
  <2>2. w \in Nat /\ d \in Nat /\ e \in Nat
    BY <2>1
  <2>3. (v = w /\ e = d) \/ (v = w + 1 /\ e = d + 1) \/ (v = Drop(w) /\ d = e + 1)
    BY <2>1
  <2>4. (w <= d => v <= e) /\ (w >= d => v >= e)
    BY <1>1, <2>2, <2>3
  <2>. QED  BY <2>1, <2>4
<1>3. scenario' = scenario
  OBVIOUS
<1>. QED  BY <1>2, <1>3 DEF WakeBounds

\* An event, on a stream that holds as many locks and handles what it did.
LEMMA EventLocks ==
  ASSUME NEW x, Typed(x), x.cur = s.cur, x.wake = s.wake, x.nlpi = s.nlpi, x.note = s.note,
         Voted, s.note # "abortDetection",
         NEW ev, ev \notin {"detected", "disconnect", "connect"}, NEW f, NEW y,
         y = Event(x, ev, f)
  PROVE  /\ y.nlpi => y.cur = "buffering"
         /\ y.note = "abortDetection" <=> ev = "pause" /\ s.cur \in Handled
         /\ \/ y.wake = s.wake /\ (y.cur \in Handled <=> s.cur \in Handled)
            \/ y.wake = Drop(s.wake) /\ s.cur \in Handled /\ y.cur \notin Handled /\ ev # "pause"
            \/ y.wake = s.wake /\ s.cur \in Handled /\ y.cur \notin Handled /\ ev = "pause"
<1>1. CASE s.cur \in Handled
  <2>1. HandledStep(x, ev, y)
    BY <1>1, ProcessAwake DEF Event
  <2>2. CASE ev = "pause"
    BY <1>1, <2>1, <2>2 DEF HandledStep
  <2>3. CASE ev \in {"start", "stop", "config", "ipause", "off", "on"}
    BY <1>1, <2>1, <2>3 DEF HandledStep
  <2>4. CASE ev \notin {"start", "stop", "config", "ipause", "off", "on", "pause"}
    BY <1>1, <2>1, <2>4 DEF HandledStep, Voted
  <2>. QED  BY <2>2, <2>3, <2>4
<1>2. CASE s.cur \notin Handled
  <2>1. Rested(x, y)
    BY <1>2, ProcessAwake DEF Event
  <2>. QED  BY <1>2, <2>1 DEF Rested, SameWake, Voted, Handled
<1>. QED  BY <1>1, <1>2

Ready == Typed(s) /\ s.stages = {} /\ ArgOK /\ RestOK /\ Owners /\ Steady /\ WakeOK
Lasts == RestOK' /\ UNCHANGED scenario

\* Who holds the mutex of the stream is not in the middle of a device switch of the manager.
LEMMA NotConnecting ==
  ASSUME Owners, StreamFree \/ \E t \in {"ctl", "gsl"} : Holds(t)
  PROVE  pc["rm"] # "device_connect"
<1>1. None \notin {"ctl", "rm", "gsl"}
  BY TriggerAssumption DEF Threads
<1>. QED  BY <1>1 DEF Owners, Held, Holds, Keeping, StreamFree

\* A thread goes on: the locks of the stream and of this thread alone change.
LEMMA MoveBounds ==
  ASSUME Ready, Lasts, NEW t \in {"ctl", "rm", "gsl"}, NEW l, NEW a, Goto(t, l, a),
         \/ /\ s'.wake = s.wake
            /\ queued' + One(StreamLock') + One(Lock(t, l, a))
                 = queued + One(StreamLock) + One(LockOf(t))
         \/ /\ s'.wake = s.wake + 1
            /\ queued' + One(StreamLock') + One(Lock(t, l, a))
                 = queued + One(StreamLock) + One(LockOf(t)) + 1
         \/ /\ s'.wake = Drop(s.wake)
            /\ queued' + One(StreamLock') + One(Lock(t, l, a)) + 1
                 = queued + One(StreamLock) + One(LockOf(t))
  PROVE  WakeBounds'
<1>1. queued \in Nat /\ queued' \in Nat /\ s.wake \in Nat
  BY DEF Ready, Lasts, RestOK, Typed
<1>2. PICK r \in Nat : /\ Due = queued + One(StreamLock) + One(LockOf(t)) + r
                       /\ Due' = queued' + One(StreamLock') + One(Lock(t, l, a)) + r
  BY <1>1, GotoDue DEF Ready
<1>3. /\ One(StreamLock) \in {0, 1} /\ One(StreamLock') \in {0, 1} /\ One(LockOf(t)) \in {0, 1}
      /\ One(Lock(t, l, a)) \in {0, 1}
  BY DEF One
<1>4. PICK p, q : /\ p = queued + One(StreamLock) + One(LockOf(t))
                  /\ q = queued' + One(StreamLock') + One(Lock(t, l, a))
  OBVIOUS
<1>5. p \in Nat /\ q \in Nat /\ Due = p + r /\ Due' = q + r
  BY <1>1, <1>2, <1>3, <1>4
<1>6. \/ s'.wake = s.wake /\ q = p
      \/ s'.wake = s.wake + 1 /\ q = p + 1
      \/ s'.wake = Drop(s.wake) /\ q + 1 = p
  BY <1>4
<1>7. \/ s'.wake = s.wake /\ Due' = Due
      \/ s'.wake = s.wake + 1 /\ Due' = Due + 1
      \/ s'.wake = Drop(s.wake) /\ Due = Due' + 1
  BY <1>5, <1>6
<1>. QED  BY <1>1, <1>5, <1>7, BoundsKept DEF Ready, WakeOK, Lasts

\* The same when no thread goes on.
LEMMA StillBounds ==
  ASSUME Ready, Lasts, UNCHANGED <<pc, arg>>,
         \/ /\ s'.wake = s.wake
            /\ queued' + One(StreamLock') = queued + One(StreamLock)
         \/ /\ s'.wake = s.wake + 1
            /\ queued' + One(StreamLock') = queued + One(StreamLock) + 1
         \/ /\ s'.wake = Drop(s.wake)
            /\ queued' + One(StreamLock') + 1 = queued + One(StreamLock)
  PROVE  WakeBounds'
<1>1. /\ Goto("ctl", pc["ctl"], arg["ctl"])
  BY DEF Goto, Ready, ArgOK, Threads
<1>2. One(LockOf("ctl")) \in {0, 1} /\ One(StreamLock) \in {0, 1} /\ One(StreamLock') \in {0, 1}
  BY DEF One
<1>3. queued \in Nat /\ queued' \in Nat
  BY DEF Ready, Lasts, RestOK
<1>4. LockOf("ctl") = Lock("ctl", pc["ctl"], arg["ctl"])
  BY DEF LockOf
<1>5. PICK p, q, k : /\ p = queued + One(StreamLock) /\ q = queued' + One(StreamLock')
                     /\ k = One(LockOf("ctl"))
  OBVIOUS
<1>6. p \in Nat /\ q \in Nat /\ k \in Nat
  BY <1>2, <1>3, <1>5
<1>7. \/ s'.wake = s.wake /\ q + k = p + k
      \/ s'.wake = s.wake + 1 /\ q + k = p + k + 1
      \/ s'.wake = Drop(s.wake) /\ q + k + 1 = p + k
  BY <1>5, <1>6
<1>. QED  BY <1>1, <1>4, <1>5, <1>7, MoveBounds
\* The rest of the invariant, over a step that begins neither an abort, nor a device switch,
\* nor an unload of the client.
LEMMA RestKept ==
  ASSUME Ready, Lasts, s'.note # "abortDetection", s'.nlpi => s'.cur = "buffering",
         UNCHANGED is_abort_event_notifying_ \/ pc'["rm"] = "idle",
         NEW t \in {"ctl", "gsl", "rm"}, NEW l, pc' = [pc EXCEPT ![t] = l],
         t = "ctl" => l # "join" \/ l = pc["ctl"],
         t = "rm" => l \notin {"abort", "aborted", "device", "device_connect"},
         pc["rm"] # "device_connect" \/ s'.nlpi = s.nlpi
  PROVE  Voted' /\ Aborting' /\ Switching'
<1>1. {"ctl", "rm", "gsl"} \subseteq Threads
  BY DEF Threads
<1>2. pc' = [u \in Threads |-> IF u = t THEN l ELSE pc[u]]
  BY DEF Ready, ArgOK
<1>3. /\ pc'["rm"] = IF t = "rm" THEN l ELSE pc["rm"]
      /\ pc'["ctl"] = IF t = "ctl" THEN l ELSE pc["ctl"]
  BY <1>1, <1>2
<1>. QED  BY <1>3 DEF Ready, WakeOK, Voted, Aborting, Switching, Lasts

\* A thread goes on after an event that no device switch and no pause is.
LEMMA EventMoveKept ==
  ASSUME Ready, Lasts, queued' = queued, pc["rm"] # "device_connect",
         UNCHANGED is_abort_event_notifying_,
         NEW x, Typed(x), x.cur = s.cur, x.wake = s.wake, x.nlpi = s.nlpi, x.note = s.note,
         NEW ev, ev \notin {"detected", "disconnect", "connect", "pause"}, NEW f, NEW y,
         y = Event(x, ev, f) \/ y = s,
         s'.cur = y.cur, s'.wake = y.wake, s'.nlpi = y.nlpi, s'.note = y.note,
         NEW t \in {"ctl", "rm"}, NEW l, NEW a, Goto(t, l, a),
         pc[t] \notin {"abort", "aborted", "join"},
         l \notin {"abort", "aborted", "join", "device", "device_connect"}
  PROVE  WakeOK'
<1>1. /\ y.nlpi => y.cur = "buffering"
      /\ y.note # "abortDetection"
      /\ \/ y.wake = s.wake /\ (y.cur \in Handled <=> s.cur \in Handled)
         \/ y.wake = Drop(s.wake) /\ s.cur \in Handled /\ y.cur \notin Handled
  <2>1. CASE y = s
    BY <2>1 DEF Ready, WakeOK, Voted
  <2>2. CASE y = Event(x, ev, f)
    BY <2>2, EventLocks DEF Ready, WakeOK
  <2>. QED  BY <2>1, <2>2
<1>2. ~LockOf(t) /\ ~Lock(t, l, a)
  BY DEF LockOf, Lock
<1>3. pc'["rm"] # "device_connect"
  BY DEF Goto, Ready, ArgOK, Threads
<1>4. One(LockOf(t)) = 0 /\ One(Lock(t, l, a)) = 0
  BY <1>2 DEF One
<1>5. (StreamLock <=> s.cur \in Handled) /\ (StreamLock' <=> y.cur \in Handled)
  BY <1>3 DEF StreamLock
<1>6. PICK h, k : h = One(StreamLock) /\ k = One(StreamLock')
  OBVIOUS
<1>7. queued \in Nat /\ h \in {0, 1} /\ k \in {0, 1}
  BY <1>6 DEF Ready, RestOK, One
<1>8. \/ s'.wake = s.wake /\ h = k
      \/ s'.wake = Drop(s.wake) /\ h = 1 /\ k = 0
  BY <1>1, <1>5, <1>6 DEF One
<1>9. WakeBounds'
  BY <1>4, <1>6, <1>7, <1>8, MoveBounds
<1>10. Voted' /\ Aborting' /\ Switching'
  <2>1. pc' = [pc EXCEPT ![t] = l]
    BY DEF Goto
  <2>. QED  BY <1>1, <2>1, RestKept
<1>. QED  BY <1>1, <1>9, <1>10 DEF WakeOK

\* The same when no thread goes on.
LEMMA EventStillKept ==
  ASSUME Ready, Lasts, queued' = queued, pc["rm"] # "device_connect",
         UNCHANGED <<is_abort_event_notifying_, pc, arg>>,
         NEW x, Typed(x), x.cur = s.cur, x.wake = s.wake, x.nlpi = s.nlpi, x.note = s.note,
         NEW ev, ev \notin {"detected", "disconnect", "connect", "pause"}, NEW f, NEW y,
         y = Event(x, ev, f) \/ y = s,
         s'.cur = y.cur, s'.wake = y.wake, s'.nlpi = y.nlpi, s'.note = y.note
  PROVE  WakeOK'
<1>1. /\ y.nlpi => y.cur = "buffering"
      /\ y.note # "abortDetection"
      /\ \/ y.wake = s.wake /\ (y.cur \in Handled <=> s.cur \in Handled)
         \/ y.wake = Drop(s.wake) /\ s.cur \in Handled /\ y.cur \notin Handled
  <2>1. CASE y = s
    BY <2>1 DEF Ready, WakeOK, Voted
  <2>2. CASE y = Event(x, ev, f)
    BY <2>2, EventLocks DEF Ready, WakeOK
  <2>. QED  BY <2>1, <2>2
<1>2. (StreamLock <=> s.cur \in Handled) /\ (StreamLock' <=> y.cur \in Handled)
  BY DEF StreamLock
<1>3. PICK h, k : h = One(StreamLock) /\ k = One(StreamLock')
  OBVIOUS
<1>4. queued \in Nat /\ h \in {0, 1} /\ k \in {0, 1}
  BY <1>3 DEF Ready, RestOK, One
<1>5. \/ s'.wake = s.wake /\ h = k
      \/ s'.wake = Drop(s.wake) /\ h = 1 /\ k = 0
  BY <1>1, <1>2, <1>3 DEF One
<1>6. WakeBounds'
  BY <1>3, <1>4, <1>5, StillBounds
<1>7. Voted' /\ Aborting' /\ Switching'
  BY <1>1 DEF Ready, WakeOK, Voted, Aborting, Switching, Lasts
<1>. QED  BY <1>1, <1>6, <1>7 DEF WakeOK

\* A thread goes on and leaves what counts of the stream alone.
LEMMA PlainMoveKept ==
  ASSUME Ready, Lasts, queued' = queued, UNCHANGED is_abort_event_notifying_,
         s'.wake = s.wake, s'.cur = s.cur, s'.nlpi = s.nlpi, s'.note = s.note,
         NEW t \in {"ctl", "gsl", "rm"}, NEW l, NEW a, Goto(t, l, a),
         t = "ctl" => l # "join",
         t = "rm" => /\ l \notin {"abort", "aborted", "device", "device_connect"}
                     /\ pc["rm"] # "device_connect",
         Lock(t, l, a) <=> LockOf(t)
  PROVE  WakeOK'
<1>1. pc' = [pc EXCEPT ![t] = l]
  BY DEF Goto
<1>2. StreamLock' <=> StreamLock
  BY <1>1 DEF StreamLock, Ready, ArgOK, Threads
<1>3. One(Lock(t, l, a)) = One(LockOf(t)) /\ One(StreamLock') = One(StreamLock)
  BY <1>2 DEF One
<1>4. WakeBounds'
  BY <1>3, MoveBounds
<1>5. Voted' /\ Aborting' /\ Switching'
  BY <1>1, RestKept DEF Ready, WakeOK, Voted
<1>. QED  BY <1>4, <1>5 DEF WakeOK, Ready

\* Both halves of a switch.
LEMMA SwitchAwake ==
  ASSUME Ready, Lasts, NEW t \in {"ctl", "rm"},
         (Defer(t) /\ t = "ctl") \/ SwitchOff(t) \/ SwitchOn(t)
  PROVE  WakeOK'
<1>1. /\ t = "ctl" => AfterSwitch(t) = IF arg[t] = "start" THEN "start_lock" ELSE "idle"
      /\ arg[t] # "start" => AfterSwitch(t) = "idle"
  BY TriggerAssumption DEF AfterSwitch
<1>2. None # "start" /\ (t = "rm" /\ pc[t] \in {"off", "on"} => arg[t] = None)
  BY TriggerAssumption DEF Ready, Owners, Ordered, Stages
<1>3. ASSUME GoOn(t), t = "ctl" \/ pc[t] = "on"
      PROVE  \E l, a : l \in {"idle", "start_lock"} /\ Goto(t, l, a)
  BY <1>1, <1>2, <1>3 DEF GoOn
<1>4. /\ UNCHANGED <<queued, is_abort_event_notifying_>> /\ Typed(s)
  BY DEF Defer, SwitchOff, SwitchOn, flags, Ready
<1>5. CASE Defer(t) /\ t = "ctl"
  <2>1. PICK l, a : l \in {"idle", "start_lock", "off"} /\ Goto(t, l, a)
    BY <1>3, <1>5 DEF Defer, Stay
  <2>2. s' = s /\ pc[t] = "defer"
    BY <1>5 DEF Defer
  <2>3. ~Lock(t, l, a) /\ ~LockOf(t)
    BY <2>1, <2>2 DEF Lock, LockOf
  <2>. QED  BY <1>4, <1>5, <2>1, <2>2, <2>3, PlainMoveKept
<1>6. CASE SwitchOff(t)
  <2>1. Goto(t, "on", arg[t])
    BY <1>6 DEF SwitchOff, Stay
  <2>2. pc[t] = "off" /\ pc["rm"] # "device_connect"
    BY <1>6, NotConnecting DEF SwitchOff, Ready
  <2>3. s' = Event(s, "off", None) \/ s' = s
    BY <1>6 DEF SwitchOff
  <2>. QED  BY <1>4, <2>1, <2>2, <2>3, EventMoveKept
<1>7. CASE SwitchOn(t)
  <2>1. PICK l, a : l \in {"idle", "start_lock"} /\ Goto(t, l, a)
    BY <1>3, <1>7 DEF SwitchOn
  <2>2. pc[t] = "on" /\ pc["rm"] # "device_connect"
    BY <1>7, NotConnecting DEF SwitchOn, Ready, Holds, Keeping
  <2>3. PICK f \in Fault : s' = Event(s, "on", f) \/ s' = s
    BY <1>7 DEF SwitchOn
  <2>. QED  BY <1>4, <2>1, <2>2, <2>3, EventMoveKept
<1>. QED  BY <1>5, <1>6, <1>7

\* The calls that stay in one section, or begin with none.
LEMMA CallsAwake ==
  ASSUME Ready, Lasts,
         Load \/ Config \/ Read \/ StopBuffering \/ CallStart \/ CallStop \/ LockActive
         \/ Start \/ Stop
  PROVE  WakeOK'
<1>1. /\ UNCHANGED <<queued, is_abort_event_notifying_>> /\ Typed(s) /\ ArgOK
  BY DEF Load, Config, Read, StopBuffering, CallStart, CallStop, LockActive, Start, Stop,
         noSection, afterFinish, flags, Ready
<1>2. ASSUME StreamFree  PROVE pc["rm"] # "device_connect"
  BY <1>2, NotConnecting DEF Ready
<1>3. ASSUME NEW x, Typed(x), NEW v, NEW y, y = x \/ y = [x EXCEPT !.currentState = v]
      PROVE  y.cur = x.cur /\ y.wake = x.wake /\ y.nlpi = x.nlpi /\ y.note = x.note
  BY <1>3 DEF Typed, Fields
<1>4. CASE Load
  <2>1. PICK f, n : /\ f \in Fault /\ n = Event(s, "load", f)
                    /\ s' = n \/ s' = [n EXCEPT !.currentState = "opened"]
    BY <1>4 DEF Load
  <2>2. Typed(n)
    BY <2>1, EventMoves, SelfSame DEF Ready, RestOK
  <2>3. s'.cur = n.cur /\ s'.wake = n.wake /\ s'.nlpi = n.nlpi /\ s'.note = n.note
    BY <1>3, <2>1, <2>2
  <2>4. StreamFree /\ UNCHANGED <<pc, arg>>
    BY <1>4 DEF Load
  <2>. QED  BY <1>1, <1>2, <2>1, <2>3, <2>4, EventStillKept
<1>5. CASE Config
  <2>1. /\ \E f \in Fault : s' = Event(s, "config", f)
        /\ StreamFree /\ UNCHANGED <<pc, arg>>
    BY <1>5 DEF Config
  <2>. QED  BY <1>1, <1>2, <2>1, EventStillKept
<1>6. CASE Read
  <2>1. PICK c : c = CancelDelayedStop(s) /\ s' = [c EXCEPT !.nlpi = TRUE]
    BY <1>6 DEF Read
  <2>2. SameAwake(s, c)
    BY <1>1, <2>1, TypedCounted, TimerAwake
  <2>3. /\ s'.cur = s.cur /\ s'.wake = s.wake /\ s'.note # "abortDetection"
        /\ s.cur = "buffering"
    BY <1>1, <1>6, <2>1, <2>2, TypedCounted DEF SameAwake, SameWake, Counted, Read, Ready, WakeOK
  <2>4. StreamFree /\ UNCHANGED <<pc, arg>>
    BY <1>6 DEF Read
  <2>5. StreamLock' <=> StreamLock
    BY <2>3, <2>4 DEF StreamLock
  <2>6. WakeBounds'
    BY <1>1, <2>3, <2>4, <2>5, StillBounds DEF One
  <2>7. Voted' /\ Aborting' /\ Switching'
    BY <1>1, <1>2, <2>3, <2>4 DEF Ready, WakeOK, Voted, Aborting, Switching, Lasts
  <2>. QED  BY <2>3, <2>6, <2>7 DEF WakeOK
<1>7. CASE StopBuffering
  <2>1. /\ s' = Event(s, "stopBuffering", None) /\ Goto("ctl", "defer", "stopBuffering")
        /\ StreamFree /\ pc["ctl"] = "idle"
    BY <1>7 DEF StopBuffering, May
  <2>. QED  BY <1>1, <1>2, <2>1, EventMoveKept
<1>8. CASE CallStart \/ CallStop \/ LockActive
  <2>1. PICK l, a : l \in {"defer", "stop_lock", "start", "stop"} /\ Goto("ctl", l, a)
    BY <1>8 DEF CallStart, CallStop, LockActive, Stay, Ready, Owners, Ordered
  <2>2. s' = s /\ pc["ctl"] \in {"idle", "start_lock", "stop_lock"}
    BY <1>8 DEF CallStart, CallStop, LockActive, May
  <2>3. ~Lock("ctl", l, a) /\ ~LockOf("ctl")
    BY <2>1, <2>2 DEF Lock, LockOf
  <2>. QED  BY <1>1, <2>1, <2>2, <2>3, PlainMoveKept
<1>9. CASE Start
  <2>1. PICK f, x0, x, n :
          /\ f \in Fault
          /\ x0 = [s EXCEPT !.currentState = "started"] /\ x = [x0 EXCEPT !.rejected = FALSE]
          /\ n = Event(x, "start", f)
          /\ s' = n \/ s' = [n EXCEPT !.currentState = s.currentState]
    BY <1>9 DEF Start
  <2>2. Typed(x0) /\ Same(s, x0) /\ SameDevice(s, x0)
    BY <1>1, <2>1, MinorKeeps
  <2>3. Typed(x) /\ Same(x0, x) /\ SameDevice(x0, x)
    BY <2>1, <2>2, MinorKeeps
  <2>4. Same(s, x) /\ SameDevice(s, x)
    BY <2>2, <2>3 DEF Same, SameConfig, SameStages, SameDevice
  <2>5. x.cur = s.cur /\ x.wake = s.wake /\ x.nlpi = s.nlpi /\ x.note = s.note
    BY <1>1, <2>1 DEF Typed, Fields
  <2>6. Typed(n)
    BY <2>1, <2>3, <2>4, EventMoves DEF Ready, RestOK
  <2>7. s'.cur = n.cur /\ s'.wake = n.wake /\ s'.nlpi = n.nlpi /\ s'.note = n.note
    BY <1>3, <2>1, <2>6
  <2>8. StreamFree /\ pc["ctl"] = "start" /\ Goto("ctl", "idle", None)
    BY <1>9 DEF Start, Finish
  <2>9. n = Event(x, "start", f) \/ n = s
    BY <2>1
  <2>. QED  BY <1>1, <1>2, <2>3, <2>5, <2>7, <2>8, <2>9, EventMoveKept
<1>10. CASE Stop
  <2>1. PICK x : x = [s EXCEPT !.currentState = "stopped"] /\ s' = Event(x, "stop", None)
    BY <1>10 DEF Stop
  <2>2. Typed(x)
    BY <1>1, <2>1, MinorKeeps
  <2>3. x.cur = s.cur /\ x.wake = s.wake /\ x.nlpi = s.nlpi /\ x.note = s.note
    BY <1>1, <2>1 DEF Typed, Fields
  <2>4. StreamFree /\ pc["ctl"] = "stop" /\ Goto("ctl", "idle", None)
    BY <1>10 DEF Stop, Finish
  <2>. QED  BY <1>1, <1>2, <2>1, <2>2, <2>3, <2>4, EventMoveKept
<1>. QED  BY <1>4, <1>5, <1>6, <1>7, <1>8, <1>9, <1>10

\* The engines have ended: no lock is left but the one the unload gives back.
LEMMA JoinBounds ==
  ASSUME Ready, Lasts, NEW t \in {"ctl", "rm"}, pc[t] = "join", EnginesQuiet, queued' = queued,
         NEW l \in {"closed", "idle"}, Goto(t, l, None), s'.cur \notin Handled,
         s'.wake = Drop(IF arg[t] \in Handled THEN Drop(s.wake) ELSE s.wake)
  PROVE  WakeBounds'
<1>1. PICK u \in {"ctl", "rm"} : u # t
  OBVIOUS
<1>2. {"ctl", "rm", "gsl"} \subseteq Threads
  BY DEF Threads
<1>3. /\ pc' = [v \in Threads |-> IF v = t THEN l ELSE pc[v]]
      /\ arg' = [v \in Threads |-> IF v = t THEN None ELSE arg[v]]
  BY DEF Goto, Ready, ArgOK
<1>4. pc[u] # "join"
  BY <1>1 DEF Ready, Owners, Held, Holds, Keeping
<1>5. u = "rm" => pc[u] \notin {"abort", "aborted"}
  BY <1>1 DEF Ready, WakeOK, Aborting
<1>6. t = "rm" => pc[t] \notin {"abort", "aborted"}
  OBVIOUS
<1>7. ~LockOf(u) /\ ~LockOf(u)' /\ ~LockOf(t)'
  BY <1>1, <1>2, <1>3, <1>4, <1>5 DEF LockOf, Lock
<1>8. ~LockOf("gsl") /\ ~LockOf("gsl")' /\ queued = 0
  BY <1>2, <1>3 DEF LockOf, Lock, EnginesQuiet
<1>9. ~StreamLock /\ ~StreamLock'
  BY DEF StreamLock, Ready, Owners, Joined, Running, Handled
<1>10. LockOf(t) <=> arg[t] \in Handled
  BY DEF LockOf, Lock
<1>11. Due = (IF arg[t] \in Handled THEN 1 ELSE 0) /\ Due' = 0
  BY <1>1, <1>7, <1>8, <1>9, <1>10 DEF Due, One
<1>12. s.wake \in Nat
  BY DEF Ready, Typed
<1>13. scenario' = scenario
  BY DEF Lasts
<1>14. "overtake" \notin scenario.Events => s'.wake = 0
  BY <1>11, <1>12 DEF Ready, WakeOK, WakeBounds, Drop
<1>15. s'.wake >= 0
  BY <1>12 DEF Drop
<1>. QED  BY <1>11, <1>13, <1>14, <1>15 DEF WakeBounds

\* close and the destructor.
LEMMA CloseAwake ==
  ASSUME Ready, Lasts, CloseBegin \/ CloseJoin \/ Delete \/ Deleted
  PROVE  WakeOK'
<1>1. /\ UNCHANGED <<queued, is_abort_event_notifying_>> /\ Typed(s) /\ Counted(s)
  BY TypedCounted DEF CloseBegin, CloseJoin, Delete, Deleted, flags, Ready
<1>2. s.cur \notin Handled => ~s.nlpi
  BY DEF Ready, WakeOK, Voted, Handled
<1>3. CASE CloseBegin /\ s.cur = "ssr"
  <2>1. PICK y : /\ y = Event(s, "unload", None)
                 /\ s' = [y EXCEPT !.model = FALSE, !.currentState = "idle"]
    BY <1>3 DEF CloseBegin
  <2>2. Counted(y)
    BY <1>1, <1>3, <2>1, ProcessAwake, AwakeTrans DEF Event, Rested, Handled
  <2>3. s'.cur = y.cur /\ s'.wake = y.wake /\ s'.nlpi = y.nlpi /\ s'.note = y.note
    BY <2>1, <2>2 DEF Counted
  <2>4. StreamFree /\ pc["ctl"] = "idle" /\ Goto("ctl", "closed", None)
    BY <1>3 DEF CloseBegin, May
  <2>5. pc["rm"] # "device_connect"
    BY <2>4, NotConnecting DEF Ready
  <2>6. y = Event(s, "unload", None) \/ y = s
    BY <2>1
  <2>. QED  BY <1>1, <2>3, <2>4, <2>5, <2>6, EventMoveKept
<1>4. CASE CloseBegin /\ s.cur # "ssr"
  <2>1. /\ s' = BeforeUnload(s) /\ Goto("ctl", "join", s.cur) /\ pc["ctl"] = "idle"
        /\ StreamFree /\ ~is_abort_event_notifying_
    BY <1>4 DEF CloseBegin, May
  <2>2. /\ s'.wake = s.wake /\ s'.cur \notin Handled /\ ~s'.nlpi /\ s'.note # "abortDetection"
    BY <1>1, <1>2, <2>1, BeforeUnloadAwake DEF Ready, WakeOK
  <2>3. pc["rm"] # "device_connect"
    BY <2>1, NotConnecting DEF Ready
  <2>4. (StreamLock <=> s.cur \in Handled) /\ ~StreamLock'
    BY <2>2, <2>3 DEF StreamLock
  <2>5. ~LockOf("ctl") /\ (Lock("ctl", "join", s.cur) <=> s.cur \in Handled)
    BY <2>1 DEF LockOf, Lock
  <2>6. queued' + One(StreamLock') + One(Lock("ctl", "join", s.cur))
          = queued + One(StreamLock) + One(LockOf("ctl"))
    BY <1>1, <2>4, <2>5 DEF One, Ready, RestOK
  <2>7. WakeBounds'
    BY <2>1, <2>2, <2>6, MoveBounds
  <2>8. pc'["rm"] = pc["rm"]
    BY <2>1 DEF Goto, Ready, ArgOK, Threads
  <2>9. Voted' /\ Aborting' /\ Switching'
    BY <2>1, <2>2, <2>8 DEF Ready, WakeOK, Voted, Aborting, Switching, Lasts
  <2>. QED  BY <2>2, <2>7, <2>9 DEF WakeOK
<1>5. CASE CloseJoin
  <2>1. PICK a, b : /\ a = AfterUnload(s, arg["ctl"]) /\ b = Released(a)
                    /\ s' = [b EXCEPT !.model = FALSE, !.currentState = "idle"]
    BY <1>5 DEF CloseJoin
  <2>2. /\ Counted(a) /\ a.cur = "idle" /\ a.nlpi = s.nlpi /\ a.note = s.note
        /\ a.wake = IF arg["ctl"] \in Handled THEN Drop(s.wake) ELSE s.wake
    BY <1>1, <2>1, AfterUnloadAwake
  <2>3. /\ Counted(b) /\ b.cur = "idle" /\ b.nlpi = s.nlpi /\ b.note = s.note
        /\ b.wake = Drop(a.wake)
    BY <2>1, <2>2, ReleasedAwake DEF Counted
  <2>4. s'.cur = b.cur /\ s'.wake = b.wake /\ s'.nlpi = b.nlpi /\ s'.note = b.note
    BY <2>1, <2>3 DEF Counted
  <2>5. /\ pc["ctl"] = "join" /\ EnginesQuiet /\ Goto("ctl", "closed", None)
    BY <1>5 DEF CloseJoin
  <2>6. s'.cur \notin Handled
    BY <2>3, <2>4 DEF Handled
  <2>7. WakeBounds'
    BY <1>1, <2>2, <2>3, <2>4, <2>5, <2>6, JoinBounds
  <2>8. ~s.nlpi
    BY <1>2, <2>5 DEF Ready, Owners, Joined, Running, Handled
  <2>9. pc' = [pc EXCEPT !["ctl"] = "closed"]
    BY <2>5 DEF Goto
  <2>10. Voted' /\ Aborting' /\ Switching'
    BY <1>1, <2>3, <2>4, <2>8, <2>9, RestKept DEF Ready, WakeOK
  <2>. QED  BY <2>3, <2>4, <2>7, <2>10 DEF Ready, WakeOK
<1>6. CASE Delete \/ Deleted
  <2>1. PICK l \in {"join_timer", "deleted"} : Goto("ctl", l, None)
    BY <1>6 DEF Delete, Deleted
  <2>2. pc["ctl"] \in {"closed", "join_timer"}
    BY <1>6 DEF Delete, Deleted
  <2>3. s'.cur = s.cur /\ s'.wake = s.wake /\ s'.nlpi = s.nlpi /\ s'.note = s.note
    BY <1>1, <1>6 DEF Delete, Deleted, Counted
  <2>4. ~Lock("ctl", l, None) /\ ~LockOf("ctl")
    BY <2>1, <2>2 DEF Lock, LockOf
  <2>. QED  BY <1>1, <2>1, <2>3, <2>4, PlainMoveKept
<1>. QED  BY <1>3, <1>4, <1>5, <1>6

\* The client.
LEMMA ClientAwake ==
  ASSUME Ready, Lasts, Client
  PROVE  WakeOK'
<1>1. CASE \/ Load \/ Config \/ Read \/ StopBuffering \/ CallStart \/ CallStop \/ LockActive
           \/ Start \/ Stop
  BY <1>1, CallsAwake
<1>2. CASE CloseBegin \/ CloseJoin \/ Delete \/ Deleted
  BY <1>2, CloseAwake
<1>3. CASE Switch("ctl")
  BY <1>3, SwitchAwake DEF Switch
<1>. QED  BY <1>1, <1>2, <1>3 DEF Client, Control

\* No thread goes on and what counts of the stream is left alone.
LEMMA PlainStillKept ==
  ASSUME Ready, Lasts, queued' = queued, UNCHANGED <<is_abort_event_notifying_, pc, arg>>,
         s'.wake = s.wake, s'.cur = s.cur, s'.nlpi = s.nlpi, s'.note = s.note
  PROVE  WakeOK'
<1>1. StreamLock' <=> StreamLock
  BY DEF StreamLock
<1>2. WakeBounds'
  BY <1>1, StillBounds DEF One
<1>3. Voted' /\ Aborting' /\ Switching'
  BY DEF Ready, WakeOK, Voted, Aborting, Switching, Lasts
<1>. QED  BY <1>2, <1>3 DEF WakeOK, Ready

\* The timer.
LEMMA TimerStepAwake ==
  ASSUME Ready, Lasts, Timer
  PROVE  WakeOK'
<1>1. /\ UNCHANGED <<queued, is_abort_event_notifying_, pc, arg>> /\ Typed(s) /\ Counted(s)
  BY TypedCounted DEF Timer, TimerEnds, TimerFires, TimerBack, noSection, flags, Ready
<1>2. CASE TimerEnds \/ TimerBack
  <2>1. s'.wake = s.wake /\ s'.cur = s.cur /\ s'.nlpi = s.nlpi /\ s'.note = s.note
    BY <1>1, <1>2 DEF TimerEnds, TimerBack, Counted
  <2>. QED  BY <1>1, <2>1, PlainStillKept
<1>3. CASE TimerFires
  <2>1. PICK y : /\ y = Event(s, "stop", None) \/ y = s
                 /\ s' = [y EXCEPT !.timer = "fired"]
    BY <1>3 DEF TimerFires
  <2>2. Typed(y)
    BY <1>1, <2>1, EventMoves, SelfSame DEF Ready, RestOK, Fault
  <2>3. s'.cur = y.cur /\ s'.wake = y.wake /\ s'.nlpi = y.nlpi /\ s'.note = y.note
    BY <2>1, <2>2, TypedCounted DEF Counted
  <2>4. pc["rm"] # "device_connect"
    BY <1>3, NotConnecting DEF TimerFires, Ready
  <2>. QED  BY <1>1, <2>1, <2>3, <2>4, EventStillKept
<1>. QED  BY <1>2, <1>3 DEF Timer

\* A detection takes the lock.
LEMMA DetectAwake ==
  ASSUME Ready, Lasts, Detect
  PROVE  WakeOK'
<1>1. /\ UNCHANGED <<is_abort_event_notifying_, pc, arg>> /\ queued' = 1
      /\ queued = 0 \/ "overtake" \in scenario.Events
      /\ queued \in {0, 1}
  BY DEF Detect, flags, Ready, RestOK
<1>2. /\ s'.wake = s.wake + 1 /\ s'.cur = s.cur /\ s'.nlpi = s.nlpi /\ s'.note = s.note
  BY TypedCounted DEF Detect, Counted, Ready
<1>3. StreamLock' <=> StreamLock
  BY <1>1, <1>2 DEF StreamLock
<1>4. CASE queued = 0
  BY <1>1, <1>2, <1>3, <1>4, StillBounds DEF One, Ready, WakeOK, Voted, Aborting, Switching, Lasts
<1>5. CASE queued = 1
  <2>1. PICK r : r = One(StreamLock) + One(LockOf("gsl")) + One(LockOf("rm")) + One(LockOf("ctl"))
    OBVIOUS
  <2>2. r \in Nat /\ s.wake \in Nat
    BY <2>1 DEF One, Ready, Typed
  <2>3. Due = queued + r
    BY <2>1, <1>1 DEF Due, One
  <2>4. Due' = queued' + r
    BY <2>1, <1>1, <1>3 DEF Due, One, LockOf
  <2>5. WakeBounds'
    BY <1>1, <1>2, <1>5, <2>2, <2>3, <2>4 DEF WakeBounds, Ready, WakeOK, Lasts
  <2>. QED  BY <1>1, <1>2, <2>5 DEF Ready, WakeOK, Voted, Aborting, Switching, Lasts
<1>. QED  BY <1>1, <1>4, <1>5

\* The first stage ends with its detection and gives the lock back.
LEMMA GslEndsAwake ==
  ASSUME Ready, Lasts, UNCHANGED <<queued, is_abort_event_notifying_>>, pc["gsl"] # "idle",
         Goto("gsl", "idle", None), NEW x \in {s, RestartActive(s)}, s' = Released(x)
  PROVE  WakeOK'
<1>1. Counted(s)
  BY TypedCounted DEF Ready
<1>2. SameAwake(s, x) /\ Counted(x)
  <2>1. CASE x = s
    BY <1>1, <2>1 DEF SameAwake, SameWake
  <2>2. CASE x = RestartActive(s)
    BY <1>1, <2>2, EnginesAwake, AwakeTrans
  <2>. QED  BY <2>1, <2>2
<1>3. /\ s'.wake = Drop(s.wake) /\ s'.cur = s.cur /\ s'.nlpi = s.nlpi
      /\ s'.note # "abortDetection"
  BY <1>2, ReleasedAwake DEF SameAwake, SameWake, Ready, WakeOK
<1>4. pc' = [pc EXCEPT !["gsl"] = "idle"]
  BY DEF Goto
<1>5. StreamLock' <=> StreamLock
  BY <1>3, <1>4 DEF StreamLock, Ready, ArgOK, Threads
<1>6. LockOf("gsl") /\ ~Lock("gsl", "idle", None)
  BY DEF LockOf, Lock
<1>7. queued' + One(StreamLock') + One(Lock("gsl", "idle", None)) + 1
         = queued + One(StreamLock) + One(LockOf("gsl"))
  BY <1>5, <1>6 DEF One, Ready, RestOK
<1>8. WakeBounds'
  BY <1>3, <1>7, MoveBounds
<1>9. Voted' /\ Aborting' /\ Switching'
  BY <1>3, <1>4, RestKept DEF Ready, WakeOK, Voted
<1>. QED  BY <1>3, <1>8, <1>9 DEF WakeOK

\* The thread of the first stage.
LEMMA GslAwake ==
  ASSUME Ready, Lasts, GslTake \/ GslCut \/ GslReported \/ GslBuffer
  PROVE  WakeOK'
<1>1. Counted(s) /\ UNCHANGED is_abort_event_notifying_
  BY TypedCounted DEF Ready, GslTake, GslCut, GslReported, GslBuffer, noSection, flags
<1>2. CASE GslTake
  <2>1. pc["gsl"] = "idle" /\ queued = 1 /\ queued' = 0
    BY <1>2 DEF GslTake, Ready, RestOK
  <2>2. CASE /\ s' = [s EXCEPT !.gsl = IF Captured THEN "buffering" ELSE @]
             /\ Goto("gsl", "try", "gmm")
    <3>1. s'.wake = s.wake /\ s'.cur = s.cur /\ s'.nlpi = s.nlpi /\ s'.note = s.note
      BY <1>1, <2>2 DEF Counted
    <3>2. pc' = [pc EXCEPT !["gsl"] = "try"]
      BY <2>2 DEF Goto
    <3>3. StreamLock' <=> StreamLock
      BY <3>1, <3>2 DEF StreamLock, Ready, ArgOK, Threads
    <3>4. ~LockOf("gsl") /\ Lock("gsl", "try", "gmm")
      BY <2>1 DEF LockOf, Lock
    <3>5. queued' + One(StreamLock') + One(Lock("gsl", "try", "gmm"))
             = queued + One(StreamLock) + One(LockOf("gsl"))
      BY <2>1, <3>3, <3>4 DEF One
    <3>6. WakeBounds'
      BY <2>2, <3>1, <3>5, MoveBounds
    <3>7. Voted' /\ Aborting' /\ Switching'
      BY <1>1, <3>1, <3>2, RestKept DEF Ready, WakeOK, Voted
    <3>. QED  BY <3>1, <3>6, <3>7 DEF WakeOK, Ready
  <2>3. CASE s' = Released(s) /\ UNCHANGED <<pc, arg>>
    <3>1. /\ s'.wake = Drop(s.wake) /\ s'.cur = s.cur /\ s'.nlpi = s.nlpi /\ s'.note = s.note
      BY <1>1, <2>3, ReleasedAwake
    <3>2. StreamLock' <=> StreamLock
      BY <2>3, <3>1 DEF StreamLock
    <3>3. queued' + One(StreamLock') + 1 = queued + One(StreamLock)
      BY <2>1, <3>2 DEF One
    <3>4. WakeBounds'
      BY <2>3, <3>1, <3>3, StillBounds
    <3>5. Voted' /\ Aborting' /\ Switching'
      BY <1>1, <2>3, <3>1 DEF Ready, WakeOK, Voted, Aborting, Switching, Lasts
    <3>. QED  BY <3>1, <3>4, <3>5 DEF WakeOK, Ready
  <2>. QED  BY <1>2, <2>2, <2>3 DEF GslTake
<1>3. CASE GslCut \/ GslReported \/ GslBuffer
  <2>1. queued' = queued /\ pc["gsl"] \in {"try", "rest", "buffer"}
    BY <1>3 DEF GslCut, GslReported, GslBuffer, noSection
  <2>2. CASE Goto("gsl", "idle", None) /\ \E x \in {s, RestartActive(s)} : s' = Released(x)
    BY <1>1, <2>1, <2>2, GslEndsAwake
  <2>3. CASE Goto("gsl", "buffer", None) /\ s' = s
    <3>1. Lock("gsl", "buffer", None) /\ LockOf("gsl")
      BY <2>1 DEF Lock, LockOf
    <3>. QED  BY <1>1, <2>1, <2>3, <3>1, PlainMoveKept
  <2>. QED  BY <1>3, <2>2, <2>3 DEF GslCut, GslReported, GslBuffer
<1>. QED  BY <1>2, <1>3

\* A report: a detection the stream takes becomes its own, with a lock of its own.
LEMMA ReportAwake ==
  ASSUME Ready, Lasts, TryLock("gsl"), Proper("gsl")
  PROVE  WakeOK'
<1>1. /\ pc["gsl"] = "try" /\ StreamFree /\ arg["gsl"] = "gmm"
      /\ UNCHANGED <<queued, is_abort_event_notifying_>> /\ Typed(s)
  BY DEF TryLock, Ready, Owners, Ordered, ArgOK, flags
<1>2. s.cur = "active" /\ Report("gsl", "gsl") /\ ~s.nlpi
  BY <1>1 DEF TryLock, Proper, Ready, WakeOK, Voted
<1>3. PICK x : x = [s EXCEPT !.wake = s.wake + 1]
  OBVIOUS
<1>4. Typed(x) /\ x.cur = "active"
  <2>1. s.wake + 1 \in Nat
    BY <1>1 DEF Typed
  <2>. QED  BY <1>1, <1>2, <1>3, <2>1, MinorKeeps DEF Same
<1>5. x.wake = s.wake + 1 /\ x.nlpi = s.nlpi /\ x.note = s.note
  BY <1>1, <1>3 DEF Typed, Fields
<1>6. PICK n : n = Event(x, "detected", None)
  OBVIOUS
<1>7. n.note \in {"detection", "none"}
  BY <1>4, <1>6, DetectedNote DEF Event
<1>8. /\ Counted(n) /\ n.cur \in Handled /\ n.wake = s.wake + 1 /\ ~n.nlpi
  <2>1. SameWake(x, n) /\ n.cur \in Handled
    BY <1>4, <1>6, ProcessAwake DEF Event
  <2>. QED  BY <1>2, <1>4, <1>5, <2>1, TypedCounted, AwakeTrans DEF SameWake
<1>9. Reported("gsl") = n
  BY <1>1, <1>3, <1>6 DEF Reported
<1>10. PICK l \in {"callback", "tail"} : Goto("gsl", l, "gmm")
  BY <1>1, <1>2, <1>7, <1>9 DEF Report, Stay
<1>11. s'.cur \in Handled /\ s'.wake = s.wake + 1 /\ ~s'.nlpi /\ s'.note # "abortDetection"
  <2>1. CASE n.note = "none"
    <3>1. s' = n
      BY <1>2, <1>9, <2>1 DEF Report
    <3>. QED  BY <1>8, <2>1, <3>1
  <2>2. CASE n.note # "none"
    <3>1. PICK p : /\ p = PostDelayedStop(n)
                   /\ s' = [p EXCEPT !.note = "none", !.currentState = "stopped", !.reader = TRUE]
      BY <1>2, <1>9, <2>2 DEF Report
    <3>2. SameAwake(n, p) /\ Counted(p)
      BY <1>8, <3>1, TimerAwake, AwakeTrans
    <3>. QED  BY <1>8, <3>1, <3>2 DEF SameAwake, SameWake, Counted
  <2>. QED  BY <2>1, <2>2
<1>12. pc' = [pc EXCEPT !["gsl"] = l]
  BY <1>10 DEF Goto
<1>13. pc["rm"] # "device_connect"
  BY <1>1, NotConnecting DEF Ready
<1>14. StreamLock' /\ ~StreamLock
  BY <1>2, <1>11, <1>12, <1>13 DEF StreamLock, Handled, Ready, ArgOK, Threads
<1>15. Lock("gsl", l, "gmm") /\ LockOf("gsl")
  BY <1>1 DEF Lock, LockOf
<1>16. queued' + One(StreamLock') + One(Lock("gsl", l, "gmm"))
          = queued + One(StreamLock) + One(LockOf("gsl")) + 1
  BY <1>1, <1>14, <1>15 DEF One, Ready, RestOK
<1>17. WakeBounds'
  BY <1>10, <1>11, <1>16, MoveBounds
<1>18. Voted' /\ Aborting' /\ Switching'
  BY <1>1, <1>11, <1>12, <1>13, RestKept
<1>. QED  BY <1>11, <1>17, <1>18 DEF WakeOK

\* The rest of a report leaves the lock alone.
LEMMA SetStateAwake ==
  ASSUME Ready, Lasts, SetEngineDetectionState("gsl")
  PROVE  WakeOK'
<1>1. CASE TryLock("gsl") /\ Proper("gsl")
  BY <1>1, ReportAwake
<1>2. CASE ~(TryLock("gsl") /\ Proper("gsl"))
  <2>1. UNCHANGED <<queued, is_abort_event_notifying_>> /\ s' = s
    BY <1>2 DEF SetEngineDetectionState, TryLock, TryGivesUp, Refuse, Relock, Tail, flags,
                Ready, Owners, Ordered, Steady
  <2>2. pc["gsl"] \in {"try", "callback", "tail"}
    BY <1>2 DEF SetEngineDetectionState, TryLock, TryGivesUp, Refuse, Relock, Tail, flags,
                Ready, Owners, Ordered, Steady
  <2>3. PICK l, a : l \in {"rest", "tail", "defer"} /\ Goto("gsl", l, a)
    BY <1>2 DEF SetEngineDetectionState, TryLock, TryGivesUp, Refuse, Relock, Tail, Stay,
                Ready, Owners, Ordered, Steady
  <2>4. Lock("gsl", l, a) /\ LockOf("gsl")
    BY <2>2, <2>3 DEF Lock, LockOf
  <2>. QED  BY <2>1, <2>3, <2>4, PlainMoveKept
<1>. QED  BY <1>1, <1>2

\* Timer and engines.
LEMMA EngineAwake ==
  ASSUME Ready, Lasts, Timer \/ Detect \/ Gsl \/ \E w \in SecondStages : SecondStage(w)
  PROVE  WakeOK'
<1>1. ASSUME NEW w \in SecondStages, SecondStage(w)  PROVE FALSE
  <2>1. pc[w] = "idle" /\ s.run = {}
    BY DEF Ready, Owners, Ordered, Typed
  <2>. QED  BY <1>1, <2>1 DEF SecondStage, Verdict, Rest, SetEngineDetectionState, TryLock,
            TryGivesUp, Relock, Tail, Switch, Defer, SwitchOff, SwitchOn
<1>2. CASE Gsl
  BY <1>2, GslAwake, SetStateAwake DEF Gsl
<1>. QED  BY <1>1, <1>2, TimerStepAwake, DetectAwake

\* The manager begins.
LEMMA BeginAwake ==
  ASSUME Ready, Lasts,
         BeginPause \/ BeginResume \/ BeginOthers \/ BeginDevice \/ Concurrency \/ LoseCard
         \/ CardBack
  PROVE  WakeOK'
<1>1. /\ UNCHANGED <<queued, is_abort_event_notifying_>> /\ s' = s /\ pc["rm"] = "idle"
  BY DEF BeginPause, BeginResume, BeginOthers, BeginDevice, Concurrency, LoseCard, CardBack,
         MayRm, noBegin, flags
<1>2. CASE UNCHANGED <<pc, arg>>
  BY <1>1, <1>2, PlainStillKept
<1>3. CASE \E l \in {"pause", "resume", "others", "off", "down", "up"} : Goto("rm", l, None)
  <2>1. PICK l \in {"pause", "resume", "others", "off", "down", "up"} : Goto("rm", l, None)
    BY <1>3
  <2>2. ~Lock("rm", l, None) /\ ~LockOf("rm")
    BY <1>1 DEF Lock, LockOf
  <2>. QED  BY <1>1, <2>1, <2>2, PlainMoveKept
<1>4. CASE Goto("rm", "device", None) /\ "device" \in scenario.Events
  <2>1. ~Lock("rm", "device", None) /\ ~LockOf("rm")
    BY <1>1 DEF Lock, LockOf
  <2>2. pc'["rm"] = "device"
    BY <1>4 DEF Goto, Ready, ArgOK, Threads
  <2>3. StreamLock' <=> StreamLock
    BY <1>1, <2>2 DEF StreamLock
  <2>4. WakeBounds'
    BY <1>1, <1>4, <2>1, <2>3, MoveBounds DEF One
  <2>. QED  BY <1>1, <1>4, <2>2, <2>4 DEF Ready, WakeOK, Voted, Aborting, Switching, Lasts
<1>. QED  BY <1>2, <1>3, <1>4 DEF BeginPause, BeginResume, BeginOthers, BeginDevice,
          Concurrency, LoseCard, CardBack, Begin, MayRm

\* A pause: the lock of a detection goes to the manager, who gives it back once the client
\* was told.
LEMMA PauseAwake ==
  ASSUME Ready, Lasts, Pause
  PROVE  WakeOK'
<1>1. /\ pc["rm"] = "pause" /\ StreamFree /\ Typed(s) /\ queued' = queued
  BY DEF Pause, rmOnly, Ready
<1>2. PICK n : /\ n = Event(s, "pause", None)
               /\ IF n.note = "none"
                    THEN s' = n /\ Finish("rm") /\ UNCHANGED flags
                    ELSE /\ s' = [n EXCEPT !.note = "none", !.currentState = "stopped"]
                         /\ is_abort_event_notifying_' = TRUE /\ Goto("rm", "abort", n.note)
  BY DEF Pause
<1>3. Typed(n)
  BY <1>1, <1>2, EventMoves, SelfSame DEF Ready, RestOK, Fault
<1>4. /\ n.nlpi => n.cur = "buffering"
      /\ n.note = "abortDetection" <=> s.cur \in Handled
      /\ n.wake = s.wake /\ n.cur \notin Handled
  <2>1. /\ n.nlpi => n.cur = "buffering"
        /\ n.note = "abortDetection" <=> s.cur \in Handled
        /\ n.wake = s.wake
        /\ s.cur \notin Handled => n.cur \notin Handled
        /\ s.cur \in Handled => n.wake = s.wake
    BY <1>1, <1>2, EventLocks DEF Ready, WakeOK
  <2>2. s.cur \in Handled => n.cur \notin Handled
    BY <1>1, <1>2, ProcessAwake DEF Event, HandledStep
  <2>. QED  BY <2>1, <2>2
<1>5. /\ s'.cur = n.cur /\ s'.wake = n.wake /\ s'.nlpi = n.nlpi
      /\ s'.note # "abortDetection"
  BY <1>2, <1>3, TypedCounted DEF Counted
<1>6. pc["ctl"] # "join"
  BY <1>1, TriggerAssumption DEF Ready, Owners, Held, Holds, Keeping, StreamFree, Threads
<1>7. PICK l, a :
        /\ l \in {"idle", "abort"} /\ Goto("rm", l, a) /\ (l = "idle" => n.note # "abortDetection")
        /\ l = "idle" => UNCHANGED is_abort_event_notifying_
        /\ l = "abort" => a = n.note /\ is_abort_event_notifying_'
  BY <1>2 DEF Finish, flags
<1>8. /\ pc' = [pc EXCEPT !["rm"] = l] /\ pc'["rm"] = l /\ pc'["ctl"] = pc["ctl"]
  BY <1>7 DEF Goto, Ready, ArgOK, Threads
<1>9. (StreamLock <=> s.cur \in Handled) /\ ~StreamLock'
  BY <1>1, <1>4, <1>5, <1>8 DEF StreamLock
<1>10. ~LockOf("rm") /\ (Lock("rm", l, a) <=> s.cur \in Handled)
  BY <1>1, <1>4, <1>7 DEF Lock, LockOf
<1>11. queued' + One(StreamLock') + One(Lock("rm", l, a))
          = queued + One(StreamLock) + One(LockOf("rm"))
  BY <1>1, <1>9, <1>10 DEF One, Ready, RestOK
<1>12. WakeBounds'
  BY <1>4, <1>5, <1>7, <1>11, MoveBounds
<1>13. Voted' /\ Aborting' /\ Switching'
  BY <1>4, <1>5, <1>6, <1>7, <1>8 DEF Voted, Aborting, Switching
<1>. QED  BY <1>5, <1>12, <1>13 DEF WakeOK

\* The client has been told of the abort.
LEMMA AbortAwake ==
  ASSUME Ready, Lasts, Aborted \/ AbortEnds
  PROVE  WakeOK'
<1>1. queued' = queued /\ Counted(s)
  BY TypedCounted DEF Aborted, AbortEnds, rmOnly, Ready
<1>2. CASE Aborted
  <2>1. /\ pc["rm"] = "abort" /\ s' = s /\ Goto("rm", "aborted", arg["rm"])
        /\ UNCHANGED is_abort_event_notifying_
    BY <1>2 DEF Aborted, Stay, flags
  <2>2. pc'["rm"] = "aborted" /\ pc'["ctl"] = pc["ctl"]
    BY <2>1 DEF Goto, Ready, ArgOK, Threads
  <2>3. StreamLock' <=> StreamLock
    BY <2>1, <2>2 DEF StreamLock
  <2>4. Lock("rm", "aborted", arg["rm"]) <=> LockOf("rm")
    BY <2>1 DEF Lock, LockOf
  <2>5. WakeBounds'
    BY <1>1, <2>1, <2>3, <2>4, MoveBounds DEF One
  <2>. QED  BY <2>1, <2>2, <2>5 DEF Ready, WakeOK, Voted, Aborting, Switching, Lasts
<1>3. CASE AbortEnds
  <2>1. /\ pc["rm"] = "aborted" /\ StreamFree /\ Goto("rm", "idle", None)
        /\ s' = IF arg["rm"] = "abortDetection" THEN Released(s) ELSE s
    BY <1>3 DEF AbortEnds, Finish
  <2>2. /\ s'.wake = IF arg["rm"] = "abortDetection" THEN Drop(s.wake) ELSE s.wake
        /\ s'.cur = s.cur /\ s'.nlpi = s.nlpi /\ s'.note = s.note
    BY <1>1, <2>1, ReleasedAwake
  <2>3. pc' = [pc EXCEPT !["rm"] = "idle"] /\ pc'["rm"] = "idle"
    BY <2>1 DEF Goto, Ready, ArgOK, Threads
  <2>4. StreamLock' <=> StreamLock
    BY <2>1, <2>2, <2>3 DEF StreamLock
  <2>5. ~Lock("rm", "idle", None) /\ (LockOf("rm") <=> arg["rm"] = "abortDetection")
    BY <2>1 DEF Lock, LockOf
  <2>6. PICK h, k : h = One(StreamLock) /\ k = One(StreamLock')
    OBVIOUS
  <2>7. h = k /\ h \in {0, 1} /\ queued \in Nat
    BY <2>4, <2>6 DEF One, Ready, RestOK
  <2>8. One(Lock("rm", "idle", None)) = 0
        /\ One(LockOf("rm")) = IF arg["rm"] = "abortDetection" THEN 1 ELSE 0
    BY <2>5 DEF One
  <2>9. WakeBounds'
    BY <1>1, <2>1, <2>2, <2>6, <2>7, <2>8, MoveBounds
  <2>10. Voted' /\ Aborting' /\ Switching'
    BY <2>2, <2>3, RestKept DEF Ready, WakeOK, Voted
  <2>. QED  BY <2>2, <2>9, <2>10 DEF Ready, WakeOK
<1>. QED  BY <1>2, <1>3

\* Events of the manager that stay in one section.
LEMMA SectionsAwake ==
  ASSUME Ready, Lasts, Resume \/ StopOthers \/ StartOthers \/ SsrUp
  PROVE  WakeOK'
<1>1. /\ StreamFree /\ pc["rm"] \in {"resume", "others", "others_start", "up"} /\ Typed(s)
      /\ UNCHANGED <<queued, is_abort_event_notifying_>>
  BY DEF Resume, StopOthers, StartOthers, SsrUp, RmStep, rmOnly, flags, Ready
<1>2. PICK l \in {"idle", "others_start"} : Goto("rm", l, None)
  BY DEF Resume, StopOthers, StartOthers, SsrUp, RmStep, Finish
<1>3. CASE Resume \/ StopOthers \/ StartOthers
  <2>1. \E ev, f : ev \in {"resume", "ipause", "iresume"} /\ s' = Event(s, ev, f)
    BY <1>3 DEF Resume, StopOthers, StartOthers
  <2>2. PICK ev, f, y :
            ev \in {"resume", "ipause", "iresume"} /\ y = Event(s, ev, f) /\ s' = y
    BY <2>1
  <2>. QED  BY <1>1, <1>2, <2>2, EventMoveKept
<1>4. CASE SsrUp
  <2>1. PICK f : s' = IF s.cur = "ssr" THEN Online(s, f, use_lpi_, Up) ELSE s
    BY <1>4 DEF SsrUp
  <2>2. CASE s.cur # "ssr"
    <3>1. ~Lock("rm", l, None) /\ ~LockOf("rm")
      BY <1>1 DEF Lock, LockOf
    <3>. QED  BY <1>1, <1>2, <2>1, <2>2, <3>1, PlainMoveKept
  <2>3. CASE s.cur = "ssr"
    <3>1. Rested(s, s')
      BY <1>1, <2>1, <2>3, TypedCounted, OnlineAwake
    <3>2. ~Lock("rm", l, None) /\ ~LockOf("rm")
      BY <1>1 DEF Lock, LockOf
    <3>3. ~StreamLock /\ ~StreamLock'
      BY <2>3, <3>1 DEF StreamLock, Rested, Handled
    <3>4. WakeBounds'
      BY <1>1, <1>2, <3>1, <3>2, <3>3, MoveBounds DEF One, Rested, SameWake
    <3>5. s'.note # "abortDetection" /\ ~s'.nlpi
      BY <2>3, <3>1 DEF Ready, WakeOK, Voted, Rested, SameWake
    <3>6. pc' = [pc EXCEPT !["rm"] = l]
      BY <1>2 DEF Goto
    <3>7. Voted' /\ Aborting' /\ Switching'
      BY <1>1, <3>5, <3>6, RestKept
    <3>. QED  BY <3>4, <3>5, <3>7 DEF WakeOK
  <2>. QED  BY <2>2, <2>3
<1>. QED  BY <1>3, <1>4

\* A device switch drops the lock of a detection at its first half, and its second half does
\* not take it again.
LEMMA DeviceSwitchAwake ==
  ASSUME Ready, Lasts, Disconnect \/ Connect
  PROVE  WakeOK'
<1>1. /\ UNCHANGED <<queued, is_abort_event_notifying_>> /\ Typed(s) /\ queued \in Nat
      /\ s.wake \in Nat
  BY DEF Disconnect, Connect, RmStep, rmOnly, flags, Ready, RestOK, Typed
<1>2. CASE Disconnect
  <2>1. /\ pc["rm"] = "device" /\ Goto("rm", "device_connect", None) /\ StreamFree
        /\ s' = Event(s, "disconnect", None)
    BY <1>2 DEF Disconnect, RmStep
  <2>2. /\ ~s'.nlpi /\ s'.note # "abortDetection"
        /\ s'.wake = IF s.cur \in Handled THEN Drop(s.wake) ELSE s.wake
    <3>1. CASE s.cur \in Handled
      BY <1>1, <2>1, <3>1, ProcessAwake DEF Event, HandledStep, Ready, WakeOK
    <3>2. CASE s.cur \notin Handled
      BY <1>1, <2>1, <3>2, ProcessAwake DEF Event, Rested, SameWake, Ready, WakeOK, Voted, Handled
    <3>. QED  BY <3>1, <3>2
  <2>3. pc'["rm"] = "device_connect"
    BY <2>1 DEF Goto, Ready, ArgOK, Threads
  <2>4. (StreamLock <=> s.cur \in Handled) /\ ~StreamLock'
    BY <2>1, <2>3 DEF StreamLock
  <2>5. ~Lock("rm", "device_connect", None) /\ ~LockOf("rm")
    BY <2>1 DEF Lock, LockOf
  <2>6. WakeBounds'
    <3>1. /\ One(Lock("rm", "device_connect", None)) = 0 /\ One(LockOf("rm")) = 0
          /\ One(StreamLock') = 0 /\ One(StreamLock) = IF s.cur \in Handled THEN 1 ELSE 0
      BY <2>4, <2>5 DEF One
    <3>. QED  BY <1>1, <2>1, <2>2, <3>1, MoveBounds
  <2>7. Voted' /\ Aborting' /\ Switching'
    BY <2>1, <2>2, <2>3 DEF Ready, WakeOK, Voted, Aborting, Switching, Lasts
  <2>. QED  BY <2>2, <2>6, <2>7 DEF WakeOK
<1>3. CASE Connect
  <2>1. /\ pc["rm"] = "device_connect" /\ Goto("rm", "idle", None)
    BY <1>3 DEF Connect, Finish
  <2>2. ~s.nlpi /\ "device" \in scenario.Events
    BY <2>1 DEF Ready, WakeOK, Voted, Switching
  <2>3. PICK f : s' = Event(s, "connect", f)
    BY <1>3 DEF Connect
  <2>4. s'.wake = s.wake /\ ~s'.nlpi /\ s'.note # "abortDetection"
    <3>1. CASE s.cur \in Handled
      BY <1>1, <2>2, <2>3, <3>1, ProcessAwake DEF Event, HandledStep, Ready, WakeOK
    <3>2. CASE s.cur \notin Handled
      BY <1>1, <2>2, <2>3, <3>2, ProcessAwake DEF Event, Rested, SameWake, Ready, WakeOK
    <3>. QED  BY <3>1, <3>2
  <2>5. pc' = [pc EXCEPT !["rm"] = "idle"] /\ pc'["rm"] = "idle"
    BY <2>1 DEF Goto, Ready, ArgOK, Threads
  <2>6. ~Lock("rm", "idle", None) /\ ~LockOf("rm") /\ ~StreamLock
    BY <2>1 DEF Lock, LockOf, StreamLock
  <2>7. PICK r \in Nat : /\ Due = queued + One(StreamLock) + One(LockOf("rm")) + r
                         /\ Due' = queued' + One(StreamLock') + One(Lock("rm", "idle", None)) + r
    BY <1>1, <2>1, GotoDue DEF Ready
  <2>8. Due <= Due'
    BY <1>1, <2>6, <2>7 DEF One
  <2>9. Due \in Nat /\ Due' \in Nat
    BY <1>1, <2>7 DEF One
  <2>10. WakeBounds'
    BY <1>1, <2>2, <2>4, <2>8, <2>9 DEF WakeBounds, Ready, WakeOK, Lasts
  <2>11. Voted' /\ Aborting' /\ Switching'
    BY <1>1, <2>4, <2>5 DEF Voted, Aborting, Switching
  <2>. QED  BY <2>4, <2>10, <2>11 DEF WakeOK
<1>. QED  BY <1>2, <1>3

\* The card is lost.
LEMMA SsrDownAwake ==
  ASSUME Ready, Lasts, SsrDown
  PROVE  WakeOK'
<1>1. /\ UNCHANGED <<queued, is_abort_event_notifying_>> /\ Counted(s) /\ queued \in Nat
      /\ pc["rm"] = "down" /\ StreamFree /\ pc["rm"] # "device_connect"
  BY TypedCounted DEF SsrDown, rmOnly, flags, Ready, RestOK
<1>2. PICK r, n : r = ToRestore(s) /\ n = [s EXCEPT !.restore = r]
  OBVIOUS
<1>3. /\ Counted(n) /\ n.cur = s.cur /\ n.wake = s.wake /\ n.nlpi = s.nlpi /\ n.note = s.note
  BY <1>1, <1>2 DEF Counted
<1>4. ~LockOf("rm")
  BY <1>1 DEF LockOf, Lock
<1>5. s.cur \notin Handled => ~s.nlpi
  BY DEF Ready, WakeOK, Voted, Handled
<1>6. CASE s.cur \in {"ssr", "idle"}
  <2>1. Goto("rm", "idle", None) /\ (s' = s \/ s' = To(n, "ssr"))
    BY <1>2, <1>6 DEF SsrDown, Finish
  <2>2. s'.cur \in {"ssr", "idle"} /\ s'.wake = s.wake /\ s'.nlpi = s.nlpi /\ s'.note = s.note
    BY <1>3, <1>6, <2>1 DEF To, Counted
  <2>3. ~StreamLock /\ ~StreamLock' /\ ~Lock("rm", "idle", None)
    BY <1>6, <2>2 DEF StreamLock, Handled, Lock
  <2>4. WakeBounds'
    BY <1>1, <1>4, <2>1, <2>2, <2>3, MoveBounds DEF One
  <2>5. pc' = [pc EXCEPT !["rm"] = "idle"] /\ ~s'.nlpi
    BY <1>5, <1>6, <2>1, <2>2 DEF Goto, Handled
  <2>6. Voted' /\ Aborting' /\ Switching'
    BY <1>1, <2>2, <2>5, RestKept DEF Ready, WakeOK
  <2>. QED  BY <2>2, <2>4, <2>6 DEF Ready, WakeOK
<1>7. CASE s.cur \notin {"ssr", "idle"}
  <2>1. s' = BeforeUnload(n) /\ Goto("rm", "join", s.cur)
    BY <1>2, <1>7 DEF SsrDown
  <2>2. s'.wake = s.wake /\ s'.cur \notin Handled /\ ~s'.nlpi /\ s'.note # "abortDetection"
    BY <1>3, <1>5, <2>1, BeforeUnloadAwake DEF Ready, WakeOK
  <2>3. (StreamLock <=> s.cur \in Handled) /\ ~StreamLock'
    BY <1>1, <2>2 DEF StreamLock
  <2>4. Lock("rm", "join", s.cur) <=> s.cur \in Handled
    BY DEF Lock
  <2>5. queued' + One(StreamLock') + One(Lock("rm", "join", s.cur))
          = queued + One(StreamLock) + One(LockOf("rm"))
    BY <1>1, <1>4, <2>3, <2>4 DEF One
  <2>6. WakeBounds'
    BY <2>1, <2>2, <2>5, MoveBounds
  <2>7. pc' = [pc EXCEPT !["rm"] = "join"]
    BY <2>1 DEF Goto
  <2>8. Voted' /\ Aborting' /\ Switching'
    BY <1>1, <2>2, <2>7, RestKept
  <2>. QED  BY <2>2, <2>6, <2>8 DEF WakeOK
<1>. QED  BY <1>6, <1>7

\* The engines of the lost card have ended.
LEMMA SsrJoinAwake ==
  ASSUME Ready, Lasts, SsrJoin
  PROVE  WakeOK'
<1>1. /\ UNCHANGED <<queued, is_abort_event_notifying_>> /\ Counted(s)
      /\ pc["rm"] = "join" /\ EnginesQuiet /\ Goto("rm", "idle", None)
  BY TypedCounted DEF SsrJoin, Finish, rmOnly, flags, Ready
<1>2. PICK a, b : /\ a = AfterUnload(s, arg["rm"]) /\ b = Released(a) /\ s' = To(b, "ssr")
  BY DEF SsrJoin
<1>3. /\ Counted(a) /\ a.nlpi = s.nlpi /\ a.note = s.note
      /\ a.wake = IF arg["rm"] \in Handled THEN Drop(s.wake) ELSE s.wake
  BY <1>1, <1>2, AfterUnloadAwake
<1>4. /\ Counted(b) /\ b.nlpi = s.nlpi /\ b.note = s.note /\ b.wake = Drop(a.wake)
  BY <1>2, <1>3, ReleasedAwake DEF Counted
<1>5. s'.cur = "ssr" /\ s'.wake = b.wake /\ s'.nlpi = b.nlpi /\ s'.note = b.note
  BY <1>2, <1>4 DEF To, Counted
<1>6. s'.cur \notin Handled
  BY <1>5 DEF Handled
<1>7. WakeBounds'
  BY <1>1, <1>3, <1>4, <1>5, <1>6, JoinBounds
<1>8. ~s.nlpi
  BY <1>1 DEF Ready, Owners, Joined, Running, WakeOK, Voted
<1>9. pc' = [pc EXCEPT !["rm"] = "idle"]
  BY <1>1 DEF Goto
<1>10. Voted' /\ Aborting' /\ Switching'
  BY <1>1, <1>4, <1>5, <1>8, <1>9, RestKept DEF Ready, WakeOK
<1>. QED  BY <1>4, <1>5, <1>7, <1>10 DEF Ready, WakeOK

\* The manager.
LEMMA ManagerAwake ==
  ASSUME Ready, Lasts, Manager
  PROVE  WakeOK'
<1>1. CASE SwitchOff("rm") \/ SwitchOn("rm")
  BY <1>1, SwitchAwake
<1>2. CASE ~(SwitchOff("rm") \/ SwitchOn("rm"))
  BY <1>2, BeginAwake, PauseAwake, AbortAwake, SectionsAwake, DeviceSwitchAwake, SsrDownAwake,
     SsrJoinAwake DEF Manager, ManagerStep
<1>. QED  BY <1>1, <1>2

-----------------------------------------------------------------------------
(* The wake lock.                                                          *)

WakeInv == DeviceInv /\ (Steady => WakeOK)

\* The invariant holds at first.
LEMMA InitWake == Init => WakeInv
<1>1. SUFFICES ASSUME Init  PROVE WakeInv
  OBVIOUS
<1>2. PICK c, n : s = NewStream(c, n, scenario.stages)
  BY <1>1 DEF Init
<1>3. s.wake = 0 /\ s.nlpi = FALSE /\ s.cur = "idle" /\ s.note = "none" /\ queued = 0
  BY <1>1, <1>2 DEF NewStream, Init
<1>4. {"ctl", "rm", "gsl"} \subseteq Threads /\ pc = [t \in Threads |-> "idle"]
  BY <1>1 DEF Threads, Init
<1>5. \A t \in {"ctl", "rm", "gsl"} : pc[t] = "idle"
  BY <1>4
<1>6. /\ ~LockOf("ctl") /\ ~LockOf("rm") /\ ~LockOf("gsl") /\ ~StreamLock
  BY <1>3, <1>5 DEF LockOf, Lock, StreamLock, Handled
<1>7. Due = 0
  BY <1>3, <1>6 DEF Due, One
<1>8. WakeOK
  BY <1>3, <1>5, <1>7 DEF WakeOK, WakeBounds, Voted, Aborting, Switching
<1>. QED  BY <1>1, <1>8, InitDevice DEF WakeInv

\* Every step keeps it.
LEMMA StepWake == WakeInv /\ [Next]_vars => WakeInv'
<1>1. SUFFICES ASSUME WakeInv, [Next]_vars  PROVE WakeInv'
  OBVIOUS
<1>2. DeviceInv' /\ Lasts
  BY <1>1, StepDevice, StepMoves DEF WakeInv, DeviceInv, Lasts
<1>3. SUFFICES ASSUME Steady  PROVE WakeOK'
  BY <1>2 DEF WakeInv, Lasts, Steady
<1>4. Ready
  BY <1>1, <1>3 DEF WakeInv, DeviceInv, QuietInv, Ready, Steady
<1>5. CASE UNCHANGED vars
  BY <1>2, <1>4, <1>5, PlainStillKept DEF vars, flags
<1>. QED  BY <1>1, <1>2, <1>4, <1>5, ClientAwake, EngineAwake, ManagerAwake DEF Next

\* With one stage, whatever step fails, whoever calls and whatever the manager does: the vote
\* against low power lasts no longer than the buffering, the system is awake from a detection
\* to the end of its handling unless the device may be switched, and when all is handled no
\* wake lock is left, though StDetected and StBuffering end a detection in many ways and the
\* engine, the manager and an unload each release the lock for another.  The last fails when
\* the DSP detects again before the engine took the detection: the lock of the one that is
\* dropped is kept (SoundTriggerEngineGsl::HandleSessionEvent).
THEOREM StaysAwakeAsNeeded ==
  Spec => [](Steady => /\ NlpiVote /\ AwakeWhileDetected
                       /\ "overtake" \notin scenario.Events => AwakeAsNeeded)
<1>1. WakeInv => (Steady => /\ NlpiVote /\ AwakeWhileDetected
                            /\ "overtake" \notin scenario.Events => AwakeAsNeeded)
  <2>1. SUFFICES ASSUME WakeInv, Steady
        PROVE  /\ NlpiVote /\ AwakeWhileDetected
               /\ "overtake" \notin scenario.Events => SleepsAgain
    BY DEF AwakeAsNeeded
  <2>2. /\ WakeOK /\ queued \in Nat /\ s.wake \in Nat /\ Owners
    BY <2>1 DEF WakeInv, DeviceInv, QuietInv, RestOK, Typed
  <2>3. NlpiVote
    BY <2>2 DEF WakeOK, Voted, NlpiVote
  <2>4. AwakeWhileDetected
    <3>1. SUFFICES ASSUME "device" \notin scenario.Events, s.cur \in {"detected", "buffering"}
          PROVE  s.wake >= 1
      BY DEF AwakeWhileDetected
    <3>2. One(StreamLock) = 1
      BY <2>2, <3>1 DEF WakeOK, Switching, StreamLock, Handled, One
    <3>3. s.wake >= Due
      BY <2>2, <3>1 DEF WakeOK, WakeBounds
    <3>4. /\ One(LockOf("gsl")) \in {0, 1} /\ One(LockOf("rm")) \in {0, 1}
          /\ One(LockOf("ctl")) \in {0, 1}
      BY DEF One
    <3>5. Due \in Nat /\ Due >= 1
      BY <2>2, <3>2, <3>4 DEF Due
    <3>. QED  BY <2>2, <3>3, <3>5
  <2>5. ASSUME "overtake" \notin scenario.Events, AllIdle, queued = 0,
               s.cur \in {"idle", "loaded"}
        PROVE  s.wake = 0
    <3>1. \A t \in {"ctl", "rm", "gsl"} : pc[t] = "idle"
      BY <2>5 DEF AllIdle, Threads
    <3>2. /\ ~LockOf("ctl") /\ ~LockOf("rm") /\ ~LockOf("gsl") /\ ~StreamLock
      BY <2>5, <3>1 DEF LockOf, Lock, StreamLock, Handled
    <3>3. Due = 0
      BY <2>5, <3>2 DEF Due, One
    <3>. QED  BY <2>2, <2>5, <3>3 DEF WakeOK, WakeBounds
  <2>. QED  BY <2>3, <2>4, <2>5 DEF SleepsAgain
<1>. QED  BY <1>1, InitWake, StepWake, PTL DEF Spec
=============================================================================

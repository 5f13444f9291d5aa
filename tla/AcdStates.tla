-------------------------------- MODULE AcdStates --------------------------------
(***************************************************************************)
(* Audio context detection: what ACDIdle, ACDLoaded, ACDActive,            *)
(* ACDDetected and ACDSSR do with each event, and the one ACDEngine all    *)
(* streams share, which counts who needs which model and asks the DSP for  *)
(* the lowest threshold of each context.                                   *)
(*                                                                         *)
(* A handler maps the world w - streams st, engine e, device use - to the  *)
(* world after it, with the status ok and, in at, where the handler goes   *)
(* on: "done", or the second half of the engine's work: "load" (a change   *)
(* for streams that stay attached) or "join" (the end of the event thread).*)
(* Step sizes and confidence scores are left out, so that a removal never  *)
(* skips a context of which neither threshold nor step size is the lowest. *)
(***************************************************************************)
EXTENDS Integers, FiniteSets, TLC, Device

CONSTANTS
  Streams, Contexts,
  ModelOf         \* the sound model of each context

AcdNames == {"ssr", "idle", "loaded", "active", "detected"}
Models == {ModelOf[c] : c \in Contexts}
NoConfig == <<>>

\* Names are those of the members, but for cur (cur_state_), restore
\* (state_for_restore_), rec and ctx (rec_config_ as a function of contexts to
\* thresholds, and context_config_), prof (cap_prof_ is that of low power), cached
\* (cached_event_data_: how many events), notifier (the notification thread: it
\* waits, was woken, or is in the callback).
NewStream(paused) ==
  [cur |-> "idle", restore |-> "none", currentState |-> "idle", paused |-> paused,
   rec |-> NoConfig, ctx |-> {}, hasDev |-> FALSE, opened |-> FALSE, registered |-> FALSE,
   prof |-> TRUE, cached |-> 0, inProgress |-> FALSE, deferred |-> FALSE,
   notifier |-> "wait"]

\* per and known are contextinfo_stream_map_ (entries of a stream; keys), cum is
\* cumulative_contextinfo_map_, models and asked are what the DSP was given, exiting
\* is exit_thread_, disconnects is dev_disconnect_count_.
NewEngine ==
  [state |-> "idle", streams |-> {}, count |-> [m \in Models |-> 0], load |-> {},
   unload |-> {}, updated |-> FALSE, per |-> [s \in Streams |-> NoConfig], known |-> {},
   cum |-> NoConfig, asked |-> NoConfig, models |-> {}, session |-> "closed",
   linked |-> FALSE, disconnects |-> 0, exiting |-> FALSE]

World(st, e, use) ==
  [st |-> st, e |-> e, use |-> use, ok |-> TRUE, at |-> "done", work |-> "none", back |-> "none"]

Ok(w) == [w EXCEPT !.ok = TRUE]
Bad(w) == [w EXCEPT !.ok = FALSE]
To(w, s, state) == [w EXCEPT !.st[s].cur = state]
Later(w, at, work) == [w EXCEPT !.at = at, !.work = work]

-----------------------------------------------------------------------------
(* The session and the models of the engine.                               *)

EngineActive(w) == w.e.state = "active"
Others(w, s) == w.e.streams \ {s}
Closed_(e) == [e EXCEPT !.session = "closed", !.models = {}, !.asked = NoConfig,
                        !.linked = FALSE]

ProcessStartEngine(w, fails) ==
  IF fails THEN Bad(w)
           ELSE Ok([w EXCEPT !.e.state = "active", !.e.session = "started"])
ProcessStopEngine(w) == Ok([w EXCEPT !.e.state = "loaded", !.e.session = "open"])

StartEngine(w, fails) == IF EngineActive(w) THEN Ok(w) ELSE ProcessStartEngine(w, fails)

StopEngine(w, s) == IF Others(w, s) # {} THEN Ok(w) ELSE ProcessStopEngine(w)

\* A model is needed when its first user comes, and no more when its last one goes.
UpdateModelCount(e, ctx, enable) ==
  LET ms == {ModelOf[c] : c \in ctx}
      n == [m \in Models |-> e.count[m] + (IF m \notin ms THEN 0 ELSE IF enable THEN 1 ELSE -1)]
  IN [e EXCEPT !.count = n,
               !.load = IF enable THEN @ \cup {m \in ms : n[m] = 1} ELSE @,
               !.unload = IF enable THEN @ ELSE @ \cup {m \in ms : n[m] = 0}]

ResetModelLoadUnloadFlags(e) == [e EXCEPT !.load = {}, !.unload = {}, !.updated = FALSE]

Lowest(S) == CHOOSE x \in S : \A y \in S : x <= y
Without(f, D) == [c \in DOMAIN f \ D |-> f[c]]
WantedBy(e, c) == {s \in Streams : c \in DOMAIN e.per[s]}

\* The lowest threshold of a context in the configurations of its streams, and of
\* what was asked before.
Lowered(e) ==
  [c \in DOMAIN e.cum |-> Lowest({e.cum[c]} \cup {e.per[s][c] : s \in WantedBy(e, c)})]

\* The first entry of a stream for a context stays.
AddEventInfoForStream(e, s, rec) ==
  LET entered == [e EXCEPT !.per[s] = @ @@ rec, !.known = @ \cup DOMAIN rec]
      cum == [c \in DOMAIN e.cum \cup DOMAIN rec |->
                Lowest({rec[d] : d \in {c} \cap DOMAIN rec}
                       \cup {e.cum[d] : d \in {c} \cap DOMAIN e.cum})]
  IN [entered EXCEPT !.cum = cum, !.updated = @ \/ cum # e.cum]

\* Mutant of RemoveEventInfoForStream: the thresholds of the others are forgotten.
RemoveEventInfoForAll(e, s) ==
  [e EXCEPT !.per[s] = NoConfig, !.cum = Without(@, DOMAIN e.per[s]), !.updated = TRUE]

RemoveEventInfoForStream(e, s) ==
  LET mine == DOMAIN e.per[s]
      left == [e EXCEPT !.per[s] = NoConfig]
      gone == {c \in mine : WantedBy(left, c) = {}}
  IN [left EXCEPT
        !.cum = [c \in DOMAIN e.cum \ gone |->
                   IF c \in mine THEN Lowest({e.per[t][c] : t \in WantedBy(left, c)})
                                 ELSE e.cum[c]],
        !.updated = @ \/ mine \cap DOMAIN e.cum # {}]

\* The threshold of a context nobody had is read from behind the configuration.
UpdateEventInfoForStream(e, s, rec, garbage) ==
  LET known == {c \in e.known \cup DOMAIN rec : WantedBy(e, c) \ {s} # {} \/ c \in DOMAIN rec}
      entered == [e EXCEPT !.per[s] = rec, !.known = known]
      kept == [entered EXCEPT !.cum = Without(@, DOMAIN e.cum \ known)]
      new == known \ DOMAIN e.cum
      cum == Lowered(kept) @@ [c \in new |-> garbage]
  IN [kept EXCEPT !.cum = cum, !.updated = @ \/ cum # e.cum]

Asked(e) == [e EXCEPT !.asked = IF e.cum = NoConfig THEN @ ELSE e.cum]
UnloadSoundModel(e) == [e EXCEPT !.models = @ \ (e.unload \ e.load)]
LoadSoundModel(e) == [e EXCEPT !.models = @ \cup (e.load \ e.unload)]

\* The second half, under the mutex of the engine again: flags that another stream
\* has reset meanwhile are lost.
HandleMultiStreamLoadUnload(w, up) ==
  LET stopped == IF EngineActive(w) THEN ProcessStopEngine(w) ELSE w
      given == [stopped EXCEPT !.e = LoadSoundModel(Asked(UnloadSoundModel(@)))]
      changed == w.e.load # w.e.unload
  IN IF ~up /\ changed THEN Bad([stopped EXCEPT !.e = Closed_(@)])
     ELSE IF EngineActive(w) THEN ProcessStartEngine([given EXCEPT !.e.state = "loaded"], ~up)
     ELSE Ok([given EXCEPT !.e.state = "loaded"])

-----------------------------------------------------------------------------
(* Attaching a stream to the engine, and detaching it.                      *)

Attach(w, s) == To([w EXCEPT !.e.streams = @ \cup {s}], s, "loaded")
Detach(w, s) == To([w EXCEPT !.e.streams = @ \ {s}], s, "idle")

OpenFirst(w, s, up) ==
  IF ~up THEN Bad(w)
  ELSE Ok(Attach([w EXCEPT !.e = [LoadSoundModel(Asked(@)) EXCEPT
                    !.exiting = FALSE, !.state = "loaded", !.session = "open",
                    !.linked = TRUE]], s))

\* SetupDetectionEngine and the first half of SetupEngine.
SetupEngine(w, s, lpi, up) ==
  LET x == w.st[s]
      counted == UpdateModelCount(ResetModelLoadUnloadFlags(w.e), x.ctx, TRUE)
      e == IF x.rec = NoConfig THEN counted ELSE AddEventInfoForStream(counted, s, x.rec)
      n == [w EXCEPT !.e = e, !.st[s].hasDev = TRUE, !.st[s].prof = lpi]
  IN IF Others(w, s) = {} THEN OpenFirst(n, s, up)
     ELSE IF e.load # {} \/ e.updated THEN Later(n, "load", "setup")
     ELSE Ok(Attach(n, s))

ReconfigureEngine(w, s, old, garbage) ==
  LET x == w.st[s]
      counted == UpdateModelCount(UpdateModelCount(ResetModelLoadUnloadFlags(w.e), old, FALSE),
                                  x.ctx, TRUE)
      e == IF x.rec = NoConfig THEN counted
                               ELSE UpdateEventInfoForStream(counted, s, x.rec, garbage)
      n == [w EXCEPT !.e = e]
  IN IF e.load # e.unload \/ e.updated THEN Later(n, "load", "reconfig") ELSE Ok(n)

\* The last stream ends the event thread and closes the session.
TeardownEngine(w, s) ==
  LET x == w.st[s]
      counted == UpdateModelCount(ResetModelLoadUnloadFlags(w.e), x.ctx, FALSE)
      e == IF x.rec = NoConfig THEN counted ELSE RemoveEventInfoForStream(counted, s)
      n == [w EXCEPT !.e = e]
  IN IF Others(w, s) = {} THEN Later([n EXCEPT !.e.exiting = TRUE], "join", "teardown")
     ELSE IF e.unload # {} \/ e.updated THEN Later(n, "load", "teardown")
     ELSE Ok(Detach(n, s))

CloseLast(w, s) == Detach(Ok([w EXCEPT !.e = [Closed_(@) EXCEPT !.state = "idle"]]), s)

-----------------------------------------------------------------------------
(* The device and the notification of the client.                          *)

OpenDev(w, s) ==
  IF w.st[s].opened THEN w
  ELSE [w EXCEPT !.use = Opened(@, Devices), !.st[s].opened = TRUE]
StartDev(w) == [w EXCEPT !.use = Started(@, Devices)]
StopDev(w) == [w EXCEPT !.use = Stopped(@, Devices)]
CloseDev(w, s) == [w EXCEPT !.use = Closed(@, Devices), !.st[s].opened = FALSE]
Registered(w, s, on) == [w EXCEPT !.st[s].registered = on]

\* A wake-up finds nobody unless the thread waits.
Notify(w, s) == [w EXCEPT !.st[s].notifier = IF @ = "wait" THEN "woken" ELSE @]
NotifyOrDefer(w, s) ==
  IF w.st[s].inProgress THEN [w EXCEPT !.st[s].deferred = TRUE] ELSE Notify(w, s)
CacheEventData(w, s) == [w EXCEPT !.st[s].cached = @ + 1]

-----------------------------------------------------------------------------
(* The states.  v holds what a handler meets: the step that fails, low      *)
(* power, whether the card is up, and a value from uninitialized memory.    *)

Failing(v, step) == v.fails = step

\* A configuration of the client: thresholds (rec), or contexts alone.
NewContexts(w, s, cfg) ==
  IF cfg.rec = NoConfig THEN [w EXCEPT !.st[s].ctx = cfg.ctx]
                        ELSE [w EXCEPT !.st[s].rec = cfg.rec, !.st[s].ctx = DOMAIN cfg.rec]

\* SendRecognitionConfig and SendContextConfig.
Configure(w, s, cfg, v) ==
  LET n == NewContexts(w, s, cfg) IN
  IF w.st[s].cur = "idle" THEN SetupEngine(n, s, v.lpi, v.up)
                          ELSE ReconfigureEngine(n, s, w.st[s].ctx, v.garbage)

\* Mutant of StartRecognition: a paused stream starts.
StartPaused(w, s, v) ==
  To(StartEngine(Registered(StartDev(OpenDev(w, s)), s, TRUE), ~v.up), s, "active")

\* ACTIVE, then DETECTED when the stream was, or when an event waits.
Started_(w, s) ==
  IF w.st[s].restore = "detected" THEN To([w EXCEPT !.st[s].restore = "none"], s, "detected")
  ELSE IF w.st[s].cached > 0 THEN To(Notify(w, s), s, "detected")
  ELSE To(w, s, "active")

\* START in LOADED.  A device that was opened stays so when a later step fails.
StartRecognition(w, s, v) ==
  LET opened == OpenDev(w, s)
      running == StartEngine(Registered(StartDev(opened), s, TRUE), Failing(v, "engine") \/ ~v.up)
  IN IF w.st[s].paused THEN Ok(w)
     ELSE IF ~w.st[s].opened /\ Failing(v, "open") THEN Bad(w)
     ELSE IF Failing(v, "start") THEN Bad(opened)
     ELSE IF ~running.ok THEN StopDev(Registered(running, s, FALSE))
     ELSE Started_(running, s)

\* STOP in ACTIVE, and the first part of PAUSE and UNLOAD there.
StopRecognition(w, s) ==
  To(Ok(CloseDev(Registered(StopDev(StopEngine(w, s)), s, FALSE), s)), s, "loaded")

ResumeLoaded(w, s, v) ==
  LET n == [w EXCEPT !.st[s].paused = FALSE] IN
  IF n.st[s].currentState = "started" THEN StartRecognition(n, s, v) ELSE Ok(n)

\* The session lets go of the device with its last stream and takes it again with
\* the last one that comes back.
DisconnectSession(w) ==
  LET n == w.e.disconnects + 1 IN
  [w EXCEPT !.e.disconnects = n, !.e.linked = @ /\ n # Cardinality(w.e.streams)]
ConnectSession(w) ==
  LET n == IF w.e.disconnects > 0 THEN w.e.disconnects - 1 ELSE 0 IN
  [w EXCEPT !.e.disconnects = n, !.e.linked = @ \/ n = 0]

\* The device is closed, opened or not; in ACTIVE it is stopped too.
Disconnect(w, s) ==
  LET x == w.st[s]
      stopped == IF x.cur = "loaded" THEN w ELSE StopDev(Registered(w, s, FALSE))
      n == CloseDev(DisconnectSession(stopped), s)
  IN CASE ~x.hasDev -> Ok(w)
       [] x.hasDev /\ x.cur = "idle" -> Ok([w EXCEPT !.st[s].hasDev = FALSE])
       [] OTHER -> Ok([n EXCEPT !.st[s].hasDev = FALSE])

\* In LOADED a stream that was asked to start starts its device, paused or not.
Connect(w, s, v) ==
  LET x == w.st[s]
      found == [w EXCEPT !.st[s].hasDev = TRUE]
      opened == ConnectSession(OpenDev([found EXCEPT !.st[s].prof = v.lpi], s))
      runs == x.cur # "loaded" \/ x.currentState = "started"
  IN CASE x.cur = "idle" -> Ok(found)
       [] x.cur # "idle" /\ runs -> Ok(Registered(StartDev(opened), s, TRUE))
       [] OTHER -> Ok(opened)

\* HandleConcurrentStream: the profile has changed with low power.
Concurrent(w, s, ev, v) ==
  IF w.st[s].cur = "idle" \/ w.st[s].prof = v.lpi THEN Ok(w)
  ELSE IF ev = "off" THEN Disconnect(w, s) ELSE Connect(w, s, v)

\* SSR_OFFLINE, but in DETECTED, which keeps that for later.
Remembered(w, s, state) ==
  [w EXCEPT !.st[s].restore = IF @ = "none" THEN state ELSE @]
Unloading(w, s) ==
  TeardownEngine(IF w.st[s].cur = "loaded" THEN w ELSE StopRecognition(w, s), s)
Back(w, s, back) ==
  CASE w.at # "done" -> [w EXCEPT !.back = back]
    [] w.at = "done" /\ back = "none" -> w
    [] w.at = "done" /\ back = "ssr" -> To(w, s, "ssr")
    [] OTHER -> To([w EXCEPT !.st[s].restore = "detected"], s, "ssr")

Idle(w, s, c, v) ==
  CASE c.ev = "config" -> Configure(w, s, c.cfg, v)
    [] c.ev = "pause" -> Ok([w EXCEPT !.st[s].paused = TRUE])
    [] c.ev = "resume" -> Ok([w EXCEPT !.st[s].paused = FALSE])
    [] c.ev = "disconnect" -> Disconnect(w, s)
    [] c.ev = "connect" -> Connect(w, s, v)
    [] c.ev = "offline" -> Ok(To(Remembered(w, s, "idle"), s, "ssr"))
    [] OTHER -> Ok(w)

Loaded(w, s, c, v) ==
  CASE c.ev = "config" -> Configure(w, s, c.cfg, v)
    [] c.ev = "unload" -> TeardownEngine(w, s)
    [] c.ev = "start" -> StartRecognition(w, s, v)
    [] c.ev = "resume" -> ResumeLoaded(w, s, v)
    [] c.ev = "pause" -> Ok([w EXCEPT !.st[s].paused = TRUE])
    [] c.ev = "disconnect" -> Disconnect(w, s)
    [] c.ev = "connect" -> Connect(w, s, v)
    [] c.ev \in {"off", "on"} -> Concurrent(w, s, c.ev, v)
    [] c.ev = "offline" -> Back(Unloading(Remembered(w, s, "loaded"), s), s, "ssr")
    [] OTHER -> Ok(w)

ActiveEvent(w, s, c, v) ==
  CASE c.ev = "config" -> Configure(w, s, c.cfg, v)
    [] c.ev = "unload" -> Unloading(w, s)
    [] c.ev = "stop" -> StopRecognition(w, s)
    [] c.ev = "pause" -> StopRecognition([w EXCEPT !.st[s].paused = TRUE], s)
    [] c.ev = "resume" -> IF EngineActive(w) THEN Ok([w EXCEPT !.st[s].paused = FALSE])
                                             ELSE ResumeLoaded(To(w, s, "loaded"), s, v)
    [] c.ev = "disconnect" -> Disconnect(w, s)
    [] c.ev = "connect" -> Connect(w, s, v)
    [] c.ev \in {"off", "on"} -> Concurrent(w, s, c.ev, v)
    [] c.ev = "offline" -> Back(Unloading(Remembered(w, s, "active"), s), s, "ssr")
    [] OTHER -> Ok(w)

\* ACTIVE goes back to DETECTED when that is to be restored.
Active(w, s) ==
  IF w.at = "done" /\ w.st[s].restore = "detected"
    THEN To([w EXCEPT !.st[s].restore = "none"], s, "detected") ELSE w

\* Mutant of StartDetected: a callback that is in progress is not waited for.
StartDetectedLost(w, s) ==
  Ok(IF w.st[s].cached > 0 THEN Notify(w, s) ELSE To(w, s, "active"))

\* The client, told of an event, asks for the next one.
StartDetected(w, s) ==
  Ok(IF w.st[s].cached > 0 THEN NotifyOrDefer(w, s) ELSE To(w, s, "active"))

\* Whatever ACTIVE does next, the stream is in DETECTED afterwards, the first half of
\* a configuration included.
InDetected(w, s) == To([w EXCEPT !.st[s].restore = "none"], s, "detected")

Detected(w, s, c, v) ==
  LET keep == [w EXCEPT !.st[s].restore = "detected"]
      where == IF w.st[s].paused THEN "loaded" ELSE "active"
  IN
  CASE c.ev = "start" -> StartDetected(w, s)
    [] c.ev = "resume" -> ResumeLoaded(To(keep, s, "loaded"), s, v)
    [] c.ev = "unload" -> Unloading(To(w, s, where), s)
    [] c.ev = "stop" -> IF w.st[s].paused THEN Ok(To(w, s, where)) ELSE StopRecognition(w, s)
    [] c.ev = "online" -> Ok(To(w, s, "active"))
    [] c.ev = "offline" ->
         Back(Unloading(To(Remembered(w, s, "active"), s, "active"), s), s, "ssrDetected")
    [] OTHER -> InDetected(ActiveEvent(keep, s, c, v), s)

\* DETECTED, the event of the engine: kept for the client in LOADED and DETECTED, and
\* told from ACTIVE.
TakeEvent(w, s) ==
  CASE w.st[s].cur = "active" -> To(NotifyOrDefer(CacheEventData(w, s), s), s, "detected")
    [] w.st[s].cur \in {"loaded", "detected"} -> CacheEventData(w, s)
    [] OTHER -> w

\* Mutant of StartAgain: the recognition is not started again.
StartAgainNot(w, s, v) == Ok([w EXCEPT !.st[s].restore = "none"])

\* After the set-up of SSR_ONLINE; a failure leaves the rest for another time.
Forgotten(w, s) ==
  IF ~w.ok THEN w
  ELSE [w EXCEPT !.st[s].restore = "none",
                 !.st[s].cur = IF w.st[s].restore = "detected" THEN "detected" ELSE @]
StartAgain(w, s, v) ==
  IF ~w.ok THEN w
  ELSE Forgotten(IF w.st[s].restore \in {"active", "detected"} /\ w.st[s].cur # "idle"
                   THEN StartRecognition(w, s, v) ELSE w, s)

\* What follows a set-up, at once or after its second half.
Then(w, s, v) ==
  IF w.at = "done" THEN StartAgain(w, s, v) ELSE [w EXCEPT !.back = "online"]
Online(w, s, v) ==
  Then(IF w.st[s].restore \in {"loaded", "active", "detected"} /\ w.st[s].ctx # {}
         THEN SetupEngine(To(w, s, "idle"), s, v.lpi, v.up) ELSE Ok(To(w, s, "idle")), s, v)

Ssr(w, s, c, v) ==
  LET x == w.st[s] IN
  CASE c.ev = "online" -> Online(w, s, v)
    [] c.ev = "unload" -> IF x.restore \in {"none", "idle"} THEN Bad(w)
                          ELSE Ok([w EXCEPT !.st[s].restore = "idle"])
    [] c.ev = "config" -> Ok(NewContexts(w, s, c.cfg))
    [] c.ev = "start" ->
         IF x.restore \notin {"loaded", "detected"} \/ x.rec = NoConfig THEN Bad(w)
         ELSE IF x.restore = "detected" /\ x.cached > 0 THEN Ok(Notify(w, s))
         ELSE Ok([w EXCEPT !.st[s].restore = "active"])
    [] c.ev = "stop" -> Bad(w)
    [] OTHER -> Ok(w)

\* ProcessEvent
Process(w, c, v) ==
  LET s == c.s
      x == w.st[s].cur
  IN CASE x = "idle" -> Idle(w, s, c, v)
       [] x = "loaded" -> Loaded(w, s, c, v)
       [] x = "active" -> Active(ActiveEvent(w, s, c, v), s)
       [] x = "detected" -> Detected(w, s, c, v)
       [] x = "ssr" -> Ssr(w, s, c, v)

\* The second half of a handler: the engine's, then the stream's.
Resume(w, c, v) ==
  LET s == c.s
      done == [w EXCEPT !.at = "done", !.work = "none", !.back = "none"]
      n == CASE w.at = "join" -> CloseLast(done, s)
             [] w.at = "load" -> HandleMultiStreamLoadUnload(done, v.up)
      moved == CASE w.at = "join" -> n
                 [] w.at = "load" /\ w.work = "reconfig" -> n
                 [] w.at = "load" /\ w.work = "setup" -> IF n.ok THEN Attach(n, s) ELSE n
                 [] w.at = "load" /\ w.work = "teardown" -> Detach(n, s)
  IN IF w.back = "online" THEN StartAgain(moved, s, v) ELSE Back(moved, s, w.back)
=============================================================================

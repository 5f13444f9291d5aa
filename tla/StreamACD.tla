-------------------------------- MODULE StreamACD --------------------------------
(***************************************************************************)
(* Audio context detection streams among the threads that use them: a      *)
(* client, the resource manager (pause and resume, low power, device       *)
(* switch, recovery of the sound card), the event thread of the engine and *)
(* the notification thread of each stream.                                 *)
(*                                                                         *)
(* A section of mStreamMutex is one step, but where the code keeps the     *)
(* mutex between two calls, gives up the mutex of the engine or waits for  *)
(* its thread.  The client makes one call at a time.  Not modelled: a      *)
(* stream deleted while the event thread is about to tell it, a switch     *)
(* that fails half-way, and other classes of streams but for what they     *)
(* make the manager do.                                                    *)
(***************************************************************************)
EXTENDS AcdStates, SequencesExt

CONSTANTS
  Thresholds,      \* values of a threshold
  Scenarios,       \* what a behaviour is about: see ScenarioOK
  None

ScenarioOK(sc) ==
  /\ sc.streams \subseteq Streams              \* the streams the client opens
  /\ sc.Ops \subseteq {"config", "start", "stop", "close"}
  /\ sc.Rounds \subseteq {"pause", "others", "device", "lowPower"}
  /\ sc.Faults \subseteq {"open", "start", "engine"}
  /\ \A cfg \in sc.Configs : cfg.ctx \subseteq Contexts
  /\ sc.newContexts \in BOOLEAN                \* a stream may reconfigure to contexts
                                               \* that no stream had
  /\ sc.MaxDetections \in Nat /\ sc.MaxDown \in Nat /\ sc.MaxRounds \in Nat

ASSUME AcdAssumption == Thresholds \subseteq Nat /\ \A sc \in Scenarios : ScenarioOK(sc)

VARIABLES
  st, e, use,                       \* streams, engine and device of AcdStates
  mStreamMutex, mActiveStreamMutex,
  todo,                             \* the events a thread has to bring to streams
  half,                             \* the handler a thread is half-way through
  eventQ, targets,                  \* contexts of waiting events; streams to be told
  use_lpi_, disabled, card,
  open,                             \* the streams there are
  want, asked, told, failed,        \* ghosts: what the client asked for; it asked for
                                    \* an event; how often it was told; a configuration
                                    \* has failed or met another one half-way
  crashed,                          \* the process has ended in a null pointer
  detections, downs, rounds, fault, scenario

streams == <<st, e, use, todo, half, mStreamMutex>>
events == <<eventQ, targets, detections, told, crashed>>
manager == <<use_lpi_, disabled, card, mActiveStreamMutex, downs, rounds>>
ghosts == <<want, asked, failed, open>>
setting == <<fault, scenario>>
vars == <<streams, events, manager, ghosts, setting>>

Threads == {"ctl", "rm"}
Up == card = "online"
NoHalf == [at |-> "done", work |-> "none", back |-> "none"]
Here == World(st, e, use)
Call(s, ev, cfg) == [s |-> s, ev |-> ev, cfg |-> cfg]
NoCfg == [rec |-> NoConfig, ctx |-> {}]
Plain(s, ev) == Call(s, ev, NoCfg)
Meets == {[fails |-> f, lpi |-> use_lpi_, up |-> Up, garbage |-> g]
            : f \in {None, fault}, g \in IF scenario.newContexts THEN Thresholds
                                         ELSE {Lowest(Thresholds)}}

Init ==
  /\ scenario \in Scenarios /\ fault \in scenario.Faults \cup {None}
  /\ st = [s \in Streams |-> NewStream(FALSE)] /\ e = NewEngine /\ use = NoUse
  /\ mStreamMutex = [s \in Streams |-> None] /\ mActiveStreamMutex = None
  /\ todo = [t \in Threads |-> <<>>] /\ half = [t \in Threads |-> NoHalf]
  /\ eventQ = {} /\ targets = {} /\ use_lpi_ = TRUE /\ disabled = FALSE /\ card = "online"
  /\ open = scenario.streams /\ want = [s \in Streams |-> "none"]
  /\ asked = [s \in Streams |-> FALSE] /\ told = [s \in Streams |-> 0] /\ crashed = FALSE
  /\ failed = FALSE
  /\ detections = 0 /\ downs = 0 /\ rounds = 0

-----------------------------------------------------------------------------
(* A thread brings an event to a stream.                                   *)

\* start and stop of the stream note their success, close the last.
Noted(w, c) ==
  LET s == c.s IN
  CASE c.ev = "start" /\ w.ok -> [w EXCEPT !.st[s].currentState = "started"]
    [] c.ev = "stop" /\ w.ok -> [w EXCEPT !.st[s].currentState = "stopped"]
    [] c.ev = "unload" -> [w EXCEPT !.st[s].rec = NoConfig, !.st[s].ctx = {},
                                    !.st[s].cached = 0]
    [] OTHER -> w

\* What SSR is told of a stream that was idle is accepted and forgotten.
Wanted(c, ok) ==
  CASE c.ev = "unload" -> "closed"
    [] c.ev = "config" /\ ok /\ want[c.s] = "none" ->
         IF st[c.s].cur = "ssr" THEN "none" ELSE "loaded"
    [] c.ev = "start" /\ ok -> "started"
    [] c.ev = "stop" /\ ok -> "loaded"
    [] OTHER -> want[c.s]

\* Mutant of Keeps: ConnectDevice forgets to release it.
KeepsOn(ev) == ev \in {"off", "disconnect", "connect"}

\* DisconnectDevice and the first half of a switch keep the mutex of the stream.
Keeps(ev) == ev \in {"off", "disconnect"}
Kept(ev) == ev \in {"on", "connect"}

\* A configuration, a set-up or a teardown fails.  The teardowns of a loss fail while
\* other streams are attached, which matters only if one is still when all have ended.
WentWrong(t, c, w) ==
  IF c.ev = "offline" THEN Len(todo[t]) = 1 /\ w.e.streams # {} ELSE ~w.ok

Settle(t, c, w) ==
  LET done == w.at = "done"
      n == IF done THEN Noted(w, c) ELSE w
  IN /\ st' = n.st /\ e' = n.e /\ use' = n.use
     /\ half' = [half EXCEPT ![t] = [at |-> w.at, work |-> w.work, back |-> w.back]]
     /\ todo' = IF done THEN [todo EXCEPT ![t] = Tail(@)] ELSE todo
     /\ mStreamMutex' = [mStreamMutex EXCEPT ![c.s] = IF done /\ ~Keeps(c.ev) THEN None ELSE t]
     /\ want' = IF done THEN [want EXCEPT ![c.s] = Wanted(c, w.ok)] ELSE want
     /\ asked' = IF done /\ c.ev = "start" /\ w.ok THEN [asked EXCEPT ![c.s] = TRUE] ELSE asked
     /\ failed' = (failed \/ (c.ev \in {"config", "online", "unload", "offline"} /\
                              ((done /\ WentWrong(t, c, w)) \/ \E u \in Threads \ {t} : half[u] # NoHalf)))
     /\ mActiveStreamMutex' = IF t = "rm" /\ done /\ Len(todo[t]) = 1 THEN None
                                                                    ELSE mActiveStreamMutex
  /\ UNCHANGED <<events, use_lpi_, disabled, card, downs, rounds, open, setting>>

MayBring(t) ==
  /\ todo[t] # <<>> /\ half[t] = NoHalf
  /\ LET c == Head(todo[t])
     IN c.ev # "delete" /\ mStreamMutex[c.s] = IF Kept(c.ev) THEN t ELSE None

Bring(t) ==
  /\ MayBring(t)
  /\ LET c == Head(todo[t]) IN
     /\ \E v \in Meets : \E w \in {Process(Here, c, v)} : Settle(t, c, w)

\* The thread of the engine ends when it has told the streams it has to tell.
MayGoOn(t) == half[t] # NoHalf /\ (half[t].at = "join" => targets = {})

GoOn(t) ==
  /\ MayGoOn(t)
  /\ \E v \in Meets :
     \E w \in {Resume([Here EXCEPT !.at = half[t].at, !.work = half[t].work,
                                   !.back = half[t].back], Head(todo[t]), v)} :
       Settle(t, Head(todo[t]), w)

-----------------------------------------------------------------------------
(* The client.                                                             *)

\* pal_stream_*: the stream is looked up under mActiveStreamMutex.
Ask(s, op, calls) ==
  /\ op \in scenario.Ops /\ s \in open /\ todo["ctl"] = <<>> /\ mActiveStreamMutex = None
  /\ todo' = [todo EXCEPT !["ctl"] = calls]
  /\ UNCHANGED <<st, e, use, half, mStreamMutex, events, manager, ghosts, setting>>

\* A context that no stream had is configured only where that is looked at, and nothing
\* once a configuration went wrong: a failed one leaves its models counted.
Config(s) ==
  ~failed /\ \E cfg \in scenario.Configs :
    /\ st[s].cur # "idle" /\ cfg.rec # NoConfig /\ ~scenario.newContexts
         => DOMAIN cfg.rec \subseteq DOMAIN e.cum
    /\ Ask(s, "config", <<Call(s, "config", cfg)>>)
Start(s) == want[s] # "none" /\ Ask(s, "start", <<Plain(s, "start")>>)
Stop(s) == want[s] = "started" /\ Ask(s, "stop", <<Plain(s, "stop")>>)
Close(s) == Ask(s, "close", <<Plain(s, "unload"), Plain(s, "delete")>>)

\* The destructor waits for the notification thread; the client opens the stream anew.
Delete ==
  /\ todo["ctl"] # <<>> /\ Head(todo["ctl"]).ev = "delete" /\ mActiveStreamMutex = None
  /\ LET s == Head(todo["ctl"]).s IN
     /\ s \notin targets /\ st[s].notifier # "call"
     /\ st' = [st EXCEPT ![s] = NewStream(disabled)]
     /\ want' = [want EXCEPT ![s] = "none"] /\ asked' = [asked EXCEPT ![s] = FALSE]
     /\ mStreamMutex' = [mStreamMutex EXCEPT ![s] = None]
  /\ todo' = [todo EXCEPT !["ctl"] = <<>>]
  /\ UNCHANGED <<e, use, half, events, manager, failed, open, setting>>

Client == \E s \in open : Config(s) \/ Start(s) \/ Stop(s) \/ Close(s)

-----------------------------------------------------------------------------
(* The engine and the notification threads.                                *)

\* HandleSessionCallBack: the DSP has detected a context it was asked for.
Detect(c) ==
  /\ Up /\ EngineActive(Here) /\ e.linked /\ c \in DOMAIN e.asked /\ c \notin eventQ
  /\ detections < scenario.MaxDetections
  /\ eventQ' = eventQ \cup {c} /\ detections' = detections + 1
  /\ UNCHANGED <<streams, targets, told, crashed, manager, ghosts, setting>>

\* ParseEventAndNotifyClient, with the mutex of the engine: whom the events concern
\* depends on the confidence and on what each stream was told before.
Parse ==
  /\ targets = {} /\ eventQ # {} /\ e.state # "idle" /\ ~e.exiting /\ eventQ' = {}
  /\ targets' \in SUBSET UNION {WantedBy(e, c) : c \in eventQ}
  /\ UNCHANGED <<streams, detections, told, crashed, manager, ghosts, setting>>

\* SetEngineDetectionData
Tell(s) ==
  /\ s \in targets /\ mStreamMutex[s] = None /\ targets' = targets \ {s}
  /\ st' = TakeEvent(Here, s).st
  /\ UNCHANGED <<e, use, todo, half, mStreamMutex, eventQ, detections, told, crashed,
                 manager, ghosts, setting>>

Telling(s) ==
  /\ st' = [st EXCEPT ![s].cached = 0, ![s].inProgress = TRUE, ![s].notifier = "call"]
  /\ told' = [told EXCEPT ![s] = @ + 1] /\ asked' = [asked EXCEPT ![s] = FALSE]

\* SendCachedEventData takes it for granted that there is an event.
Send(s) ==
  /\ st[s].notifier = "woken"
  /\ IF st[s].cached > 0 THEN Telling(s) /\ UNCHANGED crashed
                         ELSE crashed' = TRUE /\ UNCHANGED <<st, told, asked>>
  /\ UNCHANGED <<e, use, todo, half, mStreamMutex, eventQ, targets, detections, manager,
                 want, failed, open, setting>>

\* Mutant of SendAgain: what was deferred is not forgotten.
SendAgainAlways(s) == st[s].cached > 0

\* Whether an event was deferred while the client was called.
SendAgain(s) == st[s].deferred /\ st[s].cached > 0

\* The callback returns.
Returned(s) ==
  /\ st[s].notifier = "call"
  /\ IF SendAgain(s)
       THEN /\ st' = [st EXCEPT ![s].cached = 0, ![s].deferred = FALSE]
            /\ told' = [told EXCEPT ![s] = @ + 1] /\ asked' = [asked EXCEPT ![s] = FALSE]
       ELSE /\ st' = [st EXCEPT ![s].inProgress = FALSE, ![s].notifier = "wait"]
            /\ UNCHANGED <<told, asked>>
  /\ UNCHANGED <<e, use, todo, half, mStreamMutex, eventQ, targets, detections, crashed,
                 manager, want, failed, open, setting>>

EventThread == Parse \/ \E s \in Streams : Tell(s)
Notifier(s) == Send(s) \/ Returned(s)

-----------------------------------------------------------------------------
(* The resource manager.  A round visits the streams there are.            *)

Each(ev) == LET order == SetToSeq(open) IN [i \in DOMAIN order |-> Plain(order[i], ev)]

Round(name, calls) ==
  /\ name \in scenario.Rounds /\ rounds < scenario.MaxRounds /\ rounds' = rounds + 1
  /\ todo["rm"] = <<>> /\ mActiveStreamMutex = None /\ Up
  /\ todo' = [todo EXCEPT !["rm"] = calls]
  /\ mActiveStreamMutex' = IF calls = <<>> THEN None ELSE "rm"
  /\ UNCHANGED <<st, e, use, half, mStreamMutex, events, card, downs, ghosts, setting>>

\* HandleStreamPauseResume: a concurrency that excludes detection comes or goes.
PauseRound ==
  /\ disabled' = ~disabled /\ UNCHANGED use_lpi_
  /\ Round("pause", Each(IF disabled THEN "resume" ELSE "pause"))

\* StopOtherDetectionStreams and StartOtherDetectionStreams of a stream that changes
\* the capture profile.  The code calls them inside the start of that stream, with its
\* mutex held; here they are a round of their own, at any time.
OthersRound ==
  /\ UNCHANGED <<use_lpi_, disabled>> /\ Round("others", Each("pause") \o Each("resume"))

\* SwitchSoundTriggerDevices
DeviceRound ==
  /\ UNCHANGED <<use_lpi_, disabled>>
  /\ Round("device", Each("disconnect") \o Each("connect"))

\* handleConcurrentStreamSwitch
LowPowerRound ==
  /\ use_lpi_' = ~use_lpi_ /\ UNCHANGED disabled
  /\ Round("lowPower", Each("off") \o Each("on"))

\* ssrHandlingLoop holds mActiveStreamMutex only between its calls.  A change of the
\* card that waits for the end of a walk is the same for a stream as one after it.
Recovery(status, ev) ==
  /\ todo["rm"] = <<>> /\ mActiveStreamMutex = None /\ card # status /\ card' = status
  /\ todo' = [todo EXCEPT !["rm"] = Each(ev)]
  /\ UNCHANGED <<st, e, use, half, mStreamMutex, events, use_lpi_, disabled,
                 mActiveStreamMutex, rounds, ghosts, setting>>
LoseCard == downs < scenario.MaxDown /\ downs' = downs + 1 /\ Recovery("offline", "offline")
CardBack == UNCHANGED downs /\ Recovery("online", "online")

Manager == PauseRound \/ OthersRound \/ DeviceRound \/ LowPowerRound \/ LoseCard

Next ==
  /\ ~crashed
  /\ \/ Client \/ Delete \/ Manager \/ CardBack \/ EventThread
     \/ \E t \in Threads : Bring(t) \/ GoOn(t)
     \/ \E c \in Contexts : Detect(c)
     \/ \E s \in Streams : Notifier(s)

Spec == Init /\ [][Next]_vars

\* A step of Bring(t) or GoOn(t).
Steps(t) == Len(todo'[t]) < Len(todo[t]) \/ half'[t] # half[t]

\* A thread runs when it can and obtains a mutex that is free again and again, the
\* callback of the client returns and the card comes back.  Nothing makes the client
\* call, the DSP detect or the manager begin a round.
FairSpec ==
  /\ Spec /\ \A t \in Threads : []<>(~crashed /\ (MayBring(t) \/ MayGoOn(t))) => []<><<Steps(t)>>_vars
  /\ SF_vars(~crashed /\ (Delete \/ CardBack)) /\ SF_vars(~crashed /\ EventThread)
  /\ \A s \in Streams : WF_vars(~crashed /\ Notifier(s))

-----------------------------------------------------------------------------
(* Properties.                                                             *)

TypeOK ==
  /\ \A s \in Streams :
       /\ st[s].cur \in AcdNames /\ st[s].restore \in (AcdNames \cup {"none"}) \ {"ssr"}
       /\ st[s].notifier \in {"wait", "woken", "call"} /\ st[s].cached \in Nat
       /\ mStreamMutex[s] \in Threads \cup {None}
  /\ e.state \in {"idle", "loaded", "active"} /\ e.streams \subseteq Streams
  /\ e.disconnects \in Nat /\ \A m \in Models : e.count[m] \in Int
  /\ \A d \in Devices : use[d].count \in Nat /\ use[d].startStop \in Nat

Free(s) == mStreamMutex[s] = None
AllFree == \A s \in Streams : Free(s)
Listening(s) == st[s].cur \in {"active", "detected"} /\ ~st[s].paused
Rest == AllFree /\ \A t \in Threads : todo[t] = <<>>

\* Whatever step of a start, a resume or a recovery failed, the streams that listen have each started the device they
\* share once and are registered, and no other has.
DeviceFollowsState ==
  /\ TypeOK
  /\ AllFree =>
       /\ \A s \in Streams : st[s].registered <=> Listening(s)
       /\ \A d \in Devices :
            /\ use[d].startStop = Cardinality({s \in Streams : Listening(s)})
            /\ (\E s \in Streams : Listening(s)) => use[d].count > 0

\* The engine serves whoever listens: it runs, is linked to the device, has the models
\* of all contexts of its streams and reports each context from the lowest threshold on
\* that a stream asked for.  After a loss of the card too, unless a stream attached
\* while the others were taken down.
EngineServes ==
  Rest /\ Up /\ ~failed =>
    /\ (\E s \in Streams : Listening(s)) => e.state = "active" /\ e.linked
    /\ e.streams = {s \in Streams : st[s].cur \in {"loaded", "active", "detected"}}
    /\ \A s \in e.streams :
         /\ \A c \in st[s].ctx : ModelOf[c] \in e.models
         /\ \A c \in DOMAIN st[s].rec :
              c \in DOMAIN e.asked /\ (scenario.newContexts \/ e.asked[c] <= st[s].rec[c])

\* At rest a stream is where the client left it; one that is paused does not listen.
WhereLeft ==
  Rest /\ Up /\ fault = None =>
    \A s \in open : /\ want[s] = "started" /\ ~disabled => Listening(s)
                    /\ want[s] = "loaded" \/ disabled => ~Listening(s)
                    /\ want[s] = "loaded" => st[s].cur # "idle"

\* At rest a stream is where the client left it and the engine serves it, though the
\* card was lost, or a switch or other streams interfered meanwhile.
AsAsked == WhereLeft /\ EngineServes

\* Between two events a client is told of, it has asked for the second one with
\* pal_stream_start, whichever thread tells it.  (A stop lets an event of before it
\* reach the client.)
OneCallPerStart ==
  [][\A s \in Streams : told'[s] > told[s] /\ "stop" \notin scenario.Ops => asked[s]]_vars

\* An event that waits for a client that asks for one reaches it, though it may come
\* while the client is told of another.
EventsReachClient ==
  scenario.Ops = {"config", "start"} /\ scenario.Rounds = {} /\ scenario.MaxDown = 0 =>
    \A s \in Streams : [](st[s].cached > 0 /\ asked[s] => <>(st[s].cached = 0 \/ ~asked[s]))

\* The calls of the client and the rounds of the manager end, where no event is under
\* way when the last stream goes.
CallsReturn ==
  scenario.MaxDetections = 0 => \A t \in Threads : (todo[t] # <<>>) ~> (todo[t] = <<>>)
=============================================================================

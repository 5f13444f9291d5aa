------------------------------ MODULE OtherStreams ------------------------------
(***************************************************************************)
(* The stream classes beside StreamPCM, StreamCompress and the detection   *)
(* streams: StreamCommon, StreamHaptics, StreamInCall, StreamNonTunnel     *)
(* with SessionAgm, and StreamSensorPCMData.  A client calls one stream of *)
(* one class; recovery takes it down and up when the sound card is lost;   *)
(* the resource manager pauses a sensor stream and moves its device.  A    *)
(* section of mStreamMutex is one step; the mutex is kept across steps     *)
(* only where the code keeps it.  Not modelled: a session that reports a   *)
(* loss of the card to start, and streams spared while in standby.         *)
(***************************************************************************)
EXTENDS Naturals, Sequences, FiniteSets, Device

CONSTANTS
  Scenarios,   \* what a run may meet: one record of [class, Ops, ManagerOps,
               \* Faults, MaxDown] is chosen in Init
  None

ASSUME ScenariosAssumption ==
  \A sc \in Scenarios :
    /\ sc.class \in {"common", "haptics", "incall", "nontunnel", "sensor"}
    /\ sc.MaxDown \in Nat

VARIABLES
  scenario,
  handle,              \* what the client has: "none", "opening", "open" or "closing"
  w,                   \* the stream, its session and its registration
  dev,                 \* the counters of the devices
  votes,               \* nlpi_counter_, as far as this stream changes it
  cardState, msgQ,     \* the card as the manager knows it, and what recovery has yet to hear
  downs,               \* losses so far
  disableCount,        \* SNSPCMDataConcurrencyDisableCount: uses that hold sensors back
  mStreamMutex, mActiveStreamMutex,
  pc, ret,             \* where a thread is and where its call returns to
  asked                \* ghost: what the client last asked for with success

locks == <<mStreamMutex, mActiveStreamMutex>>
card == <<cardState, msgQ, downs>>
vars == <<scenario, handle, w, dev, votes, card, disableCount, locks, pc, ret, asked>>

Threads == {"client", "ssr", "mgr"}
\* No thread holds a free mutex.
ASSUME NoneAssumption == None \notin Threads
State == {"IDLE", "INIT", "STARTED", "PAUSED", "STOPPED", "SUSPENDED"}
class == scenario.class
HasDevices == class \in {"common", "haptics"}
May(f) == f = "none" \/ f \in scenario.Faults

NewCommon ==
  [currentState |-> "IDLE", cachedState |-> "IDLE", session |-> "none", ssrInNTMode |-> FALSE,
   mDevices |-> Devices, registered |-> {}, paused_ |-> FALSE]
\* Neither an in-call stream nor a non-tunnel stream has devices of its own.
NewInCall == [NewCommon EXCEPT !.mDevices = {}]
NewNonTunnel == [NewCommon EXCEPT !.mDevices = {}]
\* A sensor stream made while its kind is held back begins paused.
NewSensor == [NewCommon EXCEPT !.mDevices = {}, !.paused_ = disableCount > 0]

NewStream ==
  CASE HasDevices -> NewCommon
    [] class = "incall" -> NewInCall
    [] class = "nontunnel" -> NewNonTunnel
    [] class = "sensor" -> NewSensor

Init ==
  /\ scenario \in Scenarios /\ handle = "none" /\ disableCount = 0
  /\ w = NewStream /\ dev = NoUse /\ votes = 0 /\ cardState = "online"
  /\ msgQ = <<>> /\ downs = 0
  /\ mStreamMutex = None /\ mActiveStreamMutex = None
  /\ pc = [t \in Threads |-> "idle"] /\ ret = [t \in Threads |-> <<>>]
  /\ asked = "nothing"

-----------------------------------------------------------------------------
(* Threads and sections.                                                   *)

CardUp == cardState = "online"
StreamFree == mStreamMutex = None
ActiveFree == mActiveStreamMutex = None

Goto(t, label) == pc' = [pc EXCEPT ![t] = label] /\ UNCHANGED ret
Call(t, label, back) ==
  /\ pc' = [pc EXCEPT ![t] = label] /\ ret' = [ret EXCEPT ![t] = <<back>> \o @]

\* The client knows of its call what it returns.
Tell(t, said) == asked' = IF t = "client" /\ said # "" /\ ret[t] = <<>> THEN said ELSE asked
Return(t, said) ==
  /\ pc' = [pc EXCEPT ![t] = IF ret[t] = <<>> THEN "idle" ELSE Head(ret[t])]
  /\ ret' = [ret EXCEPT ![t] = IF @ = <<>> THEN @ ELSE Tail(@)]
  /\ Tell(t, said)

\* A handler of recovery and one of the manager end with the first call that fails.
Fail(t) ==
  IF t = "client" THEN Return(t, "")
  ELSE /\ pc' = [pc EXCEPT ![t] = IF t = "ssr" THEN "upFailed" ELSE "mgrEnd"]
       /\ ret' = [ret EXCEPT ![t] = <<>>] /\ UNCHANGED asked

Leaves(x, dv) == w' = x /\ dev' = dv
Same == UNCHANGED <<w, dev>>
outside == <<scenario, handle, card, disableCount, locks>>

-----------------------------------------------------------------------------
(* open.                                                                   *)

\* pal_stream_open counts the users of a stream from now on, or closes it.
Opens(t) == Return(t, "") /\ handle' = IF t = "client" THEN "open" ELSE handle
OpenFails(t) ==
  IF t = "client" THEN Goto(t, "close") /\ handle' = "closing" /\ UNCHANGED asked
                  ELSE Fail(t) /\ UNCHANGED handle

\* What a stream in IDLE may come to.
Outcome(ok, x, dv) == [ok |-> ok, w |-> x, dev |-> dv]
Inited == [w EXCEPT !.currentState = "INIT", !.session = "open"]

\* A stream that fails closes its devices, whose status it returns.
OpenCommon ==
  {Outcome(TRUE, Inited, Opened(dev, w.mDevices))}
    \cup IF May("sessionOpen") THEN {Outcome(TRUE, w, dev)} ELSE {}
OpenInCall ==
  {Outcome(TRUE, Inited, dev)}
    \cup IF May("sessionOpen") THEN {Outcome(FALSE, w, dev)} ELSE {}
AgmOpen == IF May("sessionOpen") THEN BOOLEAN ELSE {TRUE}
OpenNonTunnel ==
  IF w.ssrInNTMode THEN {Outcome(FALSE, w, dev)}
  ELSE {Outcome(ok, IF ok THEN Inited ELSE w, dev) : ok \in AgmOpen}
OpenSensor == {Outcome(TRUE, [w EXCEPT !.currentState = "INIT"], dev)}

OpenIdle ==
  CASE HasDevices -> OpenCommon
    [] class = "incall" -> OpenInCall
    [] class = "nontunnel" -> OpenNonTunnel
    [] class = "sensor" -> OpenSensor

Open(t) ==
  /\ pc[t] = "open" /\ StreamFree
  /\ \E o \in IF ~CardUp \/ w.currentState \notin {"IDLE", "INIT"} THEN {Outcome(FALSE, w, dev)}
              ELSE IF w.currentState = "INIT" THEN {Outcome(TRUE, w, dev)} ELSE OpenIdle :
       /\ Leaves(o.w, o.dev)
       /\ IF o.ok THEN Opens(t) ELSE OpenFails(t)
  /\ UNCHANGED <<scenario, votes, card, disableCount, locks>>

-----------------------------------------------------------------------------
(* start.                                                                  *)

\* A common stream whose last device fails returns with the others started.
StartCommon(t) ==
  \E bad \in IF May("deviceStart") THEN SUBSET w.mDevices ELSE {{}},
     f \in {"none", "lastDevice", "sessionStart"} :
    LET good == w.mDevices \ bad
        dv == Started(dev, good)
    IN /\ (f = "lastDevice") => bad # {}
       /\ f = "sessionStart" => May(f)
       /\ bad = w.mDevices /\ bad # {} => f = "lastDevice"
       /\ CASE f = "lastDevice" -> Fail(t) /\ Leaves(w, dv)
            [] f = "sessionStart" -> Fail(t) /\ Leaves(w, Stopped(dv, w.mDevices))
            [] OTHER ->
                 /\ Goto(t, "startRegister") /\ UNCHANGED asked
                 /\ Leaves([w EXCEPT !.session = "started", !.currentState = "STARTED"], dv)

\* Devices of a haptics stream that fail are closed and dropped; if all do, start fails.
StartHaptics(t) ==
  \E bad \in IF May("deviceStart") THEN SUBSET w.mDevices ELSE {{}},
     f \in {"none", "sessionStart"} :
    LET good == w.mDevices \ bad
        dv == Closed(Started(dev, good), bad)
        x == [w EXCEPT !.mDevices = good]
    IN /\ May(f) /\ (good = {} => f = "none")
       /\ IF good = {} THEN Fail(t) /\ Leaves(x, dv)
          ELSE IF f = "sessionStart"
            THEN Fail(t) /\ Leaves([x EXCEPT !.registered = @ \ good], Stopped(dv, good))
            ELSE /\ Return(t, "started")
                 /\ Leaves([x EXCEPT !.session = "started", !.currentState = "STARTED",
                                     !.registered = good], dv)

\* start of an in-call stream goes on to unlock mActiveStreamMutex in any case.
EndStart(t, ok) ==
  IF class = "incall" THEN Goto(t, IF ok THEN "startUnlock" ELSE "startFailed") /\ UNCHANGED asked
  ELSE IF ok THEN Return(t, "started") ELSE Fail(t)

Running == [w EXCEPT !.session = "started", !.currentState = "STARTED"]

StartInCall(t) ==
  \/ EndStart(t, TRUE) /\ Leaves(Running, dev)
  \/ May("sessionStart") /\ EndStart(t, FALSE) /\ Same

StartNonTunnel(t) ==
  \/ Return(t, "started") /\ Leaves(Running, dev)
  \/ May("sessionStart") /\ Fail(t) /\ Same

\* A sensor stream opens its device here, and its session unless it was paused.
StartSensor(t) ==
  \E f \in {"none", "deviceOpen", "sessionOpen", "deviceStart", "sessionStart"} :
    LET fresh == w.currentState # "PAUSED"
        x == IF fresh THEN [w EXCEPT !.mDevices = Devices] ELSE w
        y == IF fresh THEN [x EXCEPT !.session = "open"] ELSE x
    IN /\ May(f) /\ (f = "sessionOpen" => fresh)
       /\ CASE f = "deviceOpen" -> Fail(t) /\ Same
            [] f = "sessionOpen" -> Fail(t) /\ Leaves(x, Opened(dev, Devices))
            [] f \in {"deviceStart", "sessionStart"} -> Fail(t) /\ Leaves(y, dev)
            [] f = "none" ->
                 /\ Return(t, "started")
                 /\ Leaves([y EXCEPT !.session = "started", !.currentState = "STARTED",
                                     !.registered = Devices],
                           Started(Opened(dev, Devices), Devices))

Startable == {"INIT", "STOPPED"}
               \cup (IF class = "sensor" THEN {"PAUSED"} ELSE {})
               \cup (IF class = "nontunnel" THEN {"SUSPENDED"} ELSE {})

\* SessionAgm votes with its start.
AgmStarted(before, after) ==
  IF class = "nontunnel" /\ before # "started" /\ after = "started" THEN votes + 1 ELSE votes

\* With the card down start notes what recovery is to do; a non-tunnel stream refuses.
Start(t) ==
  /\ pc[t] = "start" /\ StreamFree
  /\ IF class = "nontunnel" /\ (~CardUp \/ w.ssrInNTMode) THEN Fail(t) /\ Same
     ELSE IF w.paused_ THEN Return(t, "started") /\ Same
     ELSE IF ~CardUp THEN EndStart(t, TRUE) /\ Leaves([w EXCEPT !.cachedState = "STARTED"], dev)
     ELSE IF w.currentState = "STARTED" THEN EndStart(t, TRUE) /\ Same
     ELSE IF w.currentState \notin Startable THEN EndStart(t, FALSE) /\ Same
     ELSE CASE class = "common" -> StartCommon(t)
            [] class = "haptics" -> StartHaptics(t)
            [] class = "sensor" -> StartSensor(t)
            [] class = "incall" -> StartInCall(t)
            [] class = "nontunnel" -> StartNonTunnel(t)
  /\ votes' = AgmStarted(w.session, w'.session)
  /\ UNCHANGED outside

\* A common stream registers with both mutexes, in the order of the manager.
StartRegister(t) ==
  /\ pc[t] = "startRegister" /\ ActiveFree /\ StreamFree
  /\ Return(t, "started") /\ Leaves([w EXCEPT !.registered = w.mDevices], dev)
  /\ UNCHANGED <<votes, outside>>

\* rm->unlockActiveStream() at the end of StreamInCall::start, whoever locked it.
StartUnlock(t) ==
  /\ pc[t] \in {"startUnlock", "startFailed"}
  /\ IF pc[t] = "startUnlock" THEN Return(t, "started") ELSE Fail(t)
  /\ mActiveStreamMutex' = None
  /\ UNCHANGED <<scenario, handle, w, dev, votes, card, disableCount, mStreamMutex>>

-----------------------------------------------------------------------------
(* stop, suspend, pause and resume.                                        *)

Stoppable == {"STARTED", "PAUSED"}

Ended == [w EXCEPT !.session = IF @ = "started" THEN "open" ELSE @, !.currentState = "STOPPED"]

\* A sensor stream leaves its devices altogether.
StopSensor(t) ==
  /\ Return(t, "stopped")
  /\ Leaves([Ended EXCEPT !.registered = @ \ w.mDevices],
            Closed(Stopped(dev, w.mDevices), w.mDevices))
StopInCall(t) == Return(t, "stopped") /\ Leaves(Ended, dev)
StopNonTunnel(t) == Return(t, "stopped") /\ Leaves(Ended, dev)

\* SessionAgm takes its vote back when it stops or is suspended.
AgmUnvoted == IF votes > 0 THEN votes - 1 ELSE 0

Stop(t) ==
  /\ pc[t] = "stop" /\ StreamFree
  /\ IF w.currentState \in Stoppable
       THEN CASE HasDevices -> Goto(t, "stopRun") /\ Same /\ UNCHANGED asked
              [] class = "sensor" -> StopSensor(t)
              [] class = "incall" -> StopInCall(t)
              [] class = "nontunnel" -> StopNonTunnel(t)
     ELSE Same /\ IF w.currentState \in {"STOPPED", "IDLE"} THEN Return(t, "stopped")
                  ELSE IF t = "ssr" THEN Return(t, "") ELSE Fail(t)
  /\ votes' = IF class = "nontunnel" /\ w.currentState \in Stoppable THEN AgmUnvoted ELSE votes
  /\ UNCHANGED outside

\* With both mutexes, whatever has become of the state.
StopRun(t) ==
  /\ pc[t] = "stopRun" /\ ActiveFree /\ StreamFree
  /\ Return(t, "stopped")
  /\ Leaves([Ended EXCEPT !.registered = @ \ w.mDevices], Stopped(dev, w.mDevices))
  /\ UNCHANGED <<votes, outside>>

\* Mutant of Suspend: the vote stays.
SuspendVotes(t) ==
  /\ pc[t] = "suspend" /\ StreamFree /\ Return(t, "suspended")
  /\ Leaves(IF w.currentState = "STARTED"
              THEN [w EXCEPT !.currentState = "SUSPENDED", !.session = "open"] ELSE w, dev)
  /\ UNCHANGED <<votes, outside>>

\* Only a non-tunnel stream is suspended.
Suspend(t) ==
  /\ pc[t] = "suspend" /\ StreamFree
  /\ IF ~CardUp \/ w.ssrInNTMode \/ w.currentState # "STARTED"
       THEN Return(t, IF w.currentState = "STARTED" THEN "" ELSE asked) /\ Same /\ UNCHANGED votes
       ELSE /\ Return(t, "suspended")
            /\ Leaves([w EXCEPT !.currentState = "SUSPENDED", !.session = "open"], dev)
            /\ votes' = AgmUnvoted
  /\ UNCHANGED outside

\* Mutant of PauseStream: the loss of the card is not looked at.
PauseStreamNow(t) ==
  /\ pc[t] = "pause" /\ StreamFree /\ Return(t, "paused")
  /\ Leaves([w EXCEPT !.currentState = "PAUSED"], dev)
  /\ UNCHANGED <<votes, outside>>

\* An in-call stream is paused in its session, in whatever state it is.
PauseStream(t) ==
  /\ pc[t] = "pause" /\ StreamFree /\ Return(t, "paused")
  /\ Leaves(IF CardUp THEN [w EXCEPT !.currentState = "PAUSED"]
                      ELSE [w EXCEPT !.cachedState = "PAUSED"], dev)
  /\ UNCHANGED <<votes, outside>>

ResumeStream(t) ==
  /\ pc[t] = "resume" /\ StreamFree /\ Return(t, "started")
  /\ Leaves(IF CardUp THEN [w EXCEPT !.currentState = "STARTED"]
                      ELSE [w EXCEPT !.cachedState = "STARTED"], dev)
  /\ UNCHANGED <<votes, outside>>

-----------------------------------------------------------------------------
(* close.                                                                  *)

\* The rest of close, and all of it for a stream that is not started.
CloseCommon(t) ==
  /\ Return(t, "")
  /\ Leaves([w EXCEPT !.session = "none", !.currentState = "IDLE"], Closed(dev, w.mDevices))
CloseInCall(t) ==
  Return(t, "") /\ Leaves([w EXCEPT !.session = "none", !.currentState = "IDLE"], dev)
\* A sensor stream has closed its devices when it stopped.
CloseSensor(t) ==
  Return(t, "") /\ Leaves([w EXCEPT !.session = "none", !.currentState = "IDLE"], dev)
IsClosed(t) ==
  CASE HasDevices -> CloseCommon(t)
    [] class \in {"incall", "nontunnel"} -> CloseInCall(t)
    [] class = "sensor" -> CloseSensor(t)

\* Mutant of CloseRun: the devices stay open.
CloseRunDevicesOpen(t) ==
  /\ pc[t] = "closeRun" /\ StreamFree /\ Return(t, "")
  /\ Leaves([w EXCEPT !.session = "none", !.currentState = "IDLE"], dev)
  /\ UNCHANGED <<votes, outside>>

CloseRun(t) == pc[t] = "closeRun" /\ StreamFree /\ IsClosed(t) /\ UNCHANGED <<votes, outside>>

\* A non-tunnel stream calls stop with the mutex held, which stop takes.
CloseNonTunnel(t) ==
  Call(t, "stop", "closeRun") /\ Same /\ mStreamMutex' = t /\ UNCHANGED asked

\* A started stream is stopped first, without the mutex.
Close(t) ==
  /\ pc[t] = "close" /\ StreamFree
  /\ CASE w.currentState = "IDLE" -> Return(t, "") /\ Same /\ UNCHANGED mStreamMutex
       [] w.currentState \in Stoppable /\ class = "nontunnel" -> CloseNonTunnel(t)
       [] \/ (w.currentState = "STARTED" /\ class # "nontunnel")
          \/ (w.currentState = "PAUSED" /\ class \notin {"nontunnel", "sensor"}) ->
            Call(t, "stop", "closeRun") /\ Same /\ UNCHANGED <<mStreamMutex, asked>>
       [] OTHER -> IsClosed(t) /\ UNCHANGED mStreamMutex
  /\ UNCHANGED <<scenario, handle, votes, card, disableCount, mActiveStreamMutex>>

-----------------------------------------------------------------------------
(* The client: pal_stream_open, pal_stream_close and the calls between.    *)

ClientFree == pc["client"] = "idle" /\ ret["client"] = <<>>
clientOnly == <<scenario, dev, votes, card, disableCount, locks>>

\* The constructor refuses while the card is down.  An open that fails deletes the
\* stream; what it may have left behind stays.
ClientOpen ==
  /\ ClientFree /\ handle = "none" /\ CardUp /\ \A d \in Devices : dev[d].count = 0
  /\ w' = NewStream /\ handle' = "opening" /\ asked' = "nothing"
  /\ Goto("client", "open") /\ UNCHANGED clientOnly

\* What a client may ask of a stream it has asked other things of before.
Allowed(op) ==
  CASE op = "start" -> asked # "paused"
    [] op = "stop" -> TRUE
    [] op = "suspend" -> asked = "started"
    [] op = "pause" -> asked = "started"
    [] op = "resume" -> asked = "paused"

\* pal_stream_stop notes the state for recovery before it calls stop.
ClientCall(op) ==
  /\ ClientFree /\ handle = "open" /\ op \in scenario.Ops /\ Allowed(op)
  /\ Goto("client", op)
  /\ w' = IF op = "stop" THEN [w EXCEPT !.cachedState = "STOPPED"] ELSE w
  /\ UNCHANGED <<handle, asked, clientOnly>>

\* pal_stream_close waits for counted users, recovery among them.  Bound: the manager,
\* who is not counted, is not at work (it can start the stream between its stop and the
\* rest of close).
ClientClose ==
  /\ ClientFree /\ handle = "open" /\ pc["ssr"] = "idle" /\ pc["mgr"] = "idle"
  /\ w' = [w EXCEPT !.cachedState = "IDLE"]
  /\ handle' = "closing" /\ asked' = "nothing"
  /\ Goto("client", "close") /\ UNCHANGED clientOnly

\* The destructor deregisters the stream.
ClientDelete ==
  /\ ClientFree /\ handle = "closing" /\ ActiveFree
  /\ handle' = "none" /\ w' = NewStream
  /\ UNCHANGED <<asked, pc, ret, clientOnly>>

-----------------------------------------------------------------------------
(* Recovery: ssrHandlingLoop, with the one stream there is.                *)

\* Bound: not during a recovery, which in the end forgets what a start notes meanwhile.
LoseCard ==
  /\ CardUp /\ msgQ = <<>> /\ pc["ssr"] = "idle" /\ downs < scenario.MaxDown
  /\ msgQ' = Append(msgQ, "offline") /\ downs' = downs + 1
  /\ UNCHANGED <<scenario, handle, w, dev, votes, cardState, disableCount, locks, pc, ret,
                 asked>>

CardBack ==
  /\ msgQ = <<"offline">> \/ (~CardUp /\ msgQ = <<>>)
  /\ msgQ' = Append(msgQ, "online")
  /\ UNCHANGED <<scenario, handle, w, dev, votes, cardState, downs, disableCount, locks, pc,
                 ret, asked>>

\* The walk holds mActiveStreamMutex; it passes over a stream whose users are not
\* counted.  Bound: not while start is about to register (it would do so afterwards).
SsrTake ==
  /\ pc["ssr"] = "idle" /\ msgQ # <<>> /\ ActiveFree /\ pc["client"] # "startRegister"
  /\ cardState' = Head(msgQ) /\ msgQ' = Tail(msgQ)
  /\ IF handle # "open" THEN UNCHANGED <<pc, ret, mActiveStreamMutex>>
     ELSE /\ Goto("ssr", IF Head(msgQ) = "offline" THEN "down" ELSE "up")
          /\ mActiveStreamMutex' = "ssr"
  /\ UNCHANGED <<scenario, handle, w, dev, votes, downs, disableCount, mStreamMutex, asked>>

\* What was noted before stays; a started stream is stopped, an open one closed.
NoteState == w' = [w EXCEPT !.cachedState = IF @ = "IDLE" THEN w.currentState ELSE @]
GoDown(label, back) == /\ pc' = [pc EXCEPT !["ssr"] = label]
                       /\ ret' = [ret EXCEPT !["ssr"] = back]

\* A common stream is stopped with mActiveStreamMutex released, which its stop takes.
SsrDownCommon ==
  /\ NoteState /\ UNCHANGED votes
  /\ CASE w.currentState \in Stoppable ->
            GoDown("stop", <<"relock", "close", "downEnd">>) /\ mActiveStreamMutex' = None
       [] w.currentState \in {"INIT", "STOPPED"} ->
            GoDown("close", <<"downEnd">>) /\ UNCHANGED mActiveStreamMutex
       [] OTHER -> GoDown("downEnd", <<>>) /\ UNCHANGED mActiveStreamMutex
SsrDownHaptics == SsrDownCommon

SsrDownInCall ==
  /\ NoteState /\ UNCHANGED <<votes, mActiveStreamMutex>>
  /\ CASE w.currentState \in Stoppable -> GoDown("stop", <<"close", "downEnd">>)
       [] w.currentState \in {"INIT", "STOPPED"} -> GoDown("close", <<"downEnd">>)
       [] OTHER -> GoDown("downEnd", <<>>)

\* The session of a non-tunnel stream is lost; the manager takes its vote back.
SsrDownNonTunnel ==
  /\ w' = [w EXCEPT !.ssrInNTMode = TRUE] /\ votes' = AgmUnvoted
  /\ Goto("ssr", "downEnd") /\ UNCHANGED mActiveStreamMutex

SsrDown ==
  /\ pc["ssr"] = "down" /\ StreamFree
  /\ CASE class \in {"common", "sensor"} -> SsrDownCommon
       [] class = "haptics" -> SsrDownHaptics
       [] class = "incall" -> SsrDownInCall
       [] class = "nontunnel" -> SsrDownNonTunnel
  /\ UNCHANGED <<scenario, handle, dev, card, disableCount, mStreamMutex, asked>>

SsrRelock ==
  /\ pc["ssr"] = "relock" /\ ActiveFree
  /\ mActiveStreamMutex' = "ssr" /\ Return("ssr", "")
  /\ UNCHANGED <<scenario, handle, w, dev, votes, card, disableCount, mStreamMutex>>

\* The state is set once more, without the mutex of the stream.
SsrDownEnd ==
  /\ pc["ssr"] = "downEnd"
  /\ w' = IF class = "nontunnel" THEN w ELSE [w EXCEPT !.currentState = "IDLE"]
  /\ mActiveStreamMutex' = None /\ Goto("ssr", "idle")
  /\ UNCHANGED <<scenario, handle, dev, votes, card, disableCount, mStreamMutex, asked>>

SsrUp ==
  /\ pc["ssr"] = "up" /\ StreamFree
  /\ IF w.cachedState = "INIT" THEN Call("ssr", "open", "upEnd")
     ELSE IF w.cachedState \in {"STARTED", "PAUSED"} /\ class # "nontunnel"
       THEN Call("ssr", "open", "upStart")
     ELSE Goto("ssr", IF class = "nontunnel" THEN "upKeep" ELSE "upEnd")
  /\ UNCHANGED <<scenario, handle, w, dev, votes, card, disableCount, locks, asked>>

\* Mutant of SsrUpStart: mActiveStreamMutex is kept over the start.
SsrUpStartLocked ==
  /\ pc["ssr"] = "upStart" /\ Call("ssr", "start", "upStarted")
  /\ UNCHANGED <<scenario, handle, w, dev, votes, card, disableCount, locks, asked>>

SsrUpStart ==
  /\ pc["ssr"] = "upStart" /\ mActiveStreamMutex' = None
  /\ Call("ssr", "start", "upStarted")
  /\ UNCHANGED <<scenario, handle, w, dev, votes, card, disableCount, mStreamMutex, asked>>

\* A start that found the card down again leaves what is to be done as it is noted.
SsrUpCommon == Goto("ssr", IF w.currentState = "STARTED" THEN "upEnd" ELSE "upKeep")
\* In-call and haptics streams forget it, though the comment says the same.
SsrUpHaptics == Goto("ssr", "upEnd")
SsrUpInCall ==
  IF w.currentState = "STARTED" /\ w.cachedState = "PAUSED" THEN Call("ssr", "pause", "upEnd")
                                                           ELSE Goto("ssr", "upEnd")

SsrUpStarted ==
  /\ pc["ssr"] = "upStarted" /\ ActiveFree /\ mActiveStreamMutex' = "ssr"
  /\ CASE class \in {"common", "sensor"} -> SsrUpCommon
       [] class = "haptics" -> SsrUpHaptics
       [] class = "incall" -> SsrUpInCall
  /\ UNCHANGED <<scenario, handle, w, dev, votes, card, disableCount, mStreamMutex, asked>>

\* A handler that fails is left where it is.
SsrUpEnd ==
  /\ pc["ssr"] \in {"upEnd", "upFailed", "upKeep"}
  /\ w' = IF pc["ssr"] = "upEnd" \/ (pc["ssr"] = "upFailed" /\ class \in {"incall", "haptics"})
            THEN [w EXCEPT !.cachedState = "IDLE"] ELSE w
  /\ mActiveStreamMutex' = None /\ Goto("ssr", "idle")
  /\ UNCHANGED <<scenario, handle, dev, votes, card, disableCount, mStreamMutex, asked>>

-----------------------------------------------------------------------------
(* The manager and a sensor stream.  It holds mActiveStreamMutex.          *)

\* Bound: the manager meets no stream that is IDLE or being closed.  (One it pauses then
\* is PAUSED, and started later with no session or while it is deleted.)
MgrMay(op) ==
  /\ pc["mgr"] = "idle" /\ ActiveFree /\ op \in scenario.ManagerOps
  /\ handle # "none" => w.currentState # "IDLE" /\ handle = "open"
mgrOnly == <<scenario, handle, dev, votes, card, mStreamMutex, asked>>

SensorPause == w' = [w EXCEPT !.paused_ = TRUE] /\ Call("mgr", "stop", "paused")
SensorResume == w' = [w EXCEPT !.paused_ = FALSE] /\ Call("mgr", "start", "mgrEnd")

\* The first use that cannot go with the sensor pauses it, the last one resumes it.
MgrPause ==
  /\ MgrMay("pause") /\ disableCount < 2 /\ disableCount' = disableCount + 1
  /\ IF disableCount > 0 \/ handle = "none"
       THEN UNCHANGED <<w, pc, ret, mActiveStreamMutex>>
       ELSE mActiveStreamMutex' = "mgr" /\ SensorPause
  /\ UNCHANGED mgrOnly

\* Pause goes on when stop has released the mutex of the stream.
MgrPaused ==
  /\ pc["mgr"] = "paused" /\ w' = [w EXCEPT !.currentState = "PAUSED"]
  /\ Goto("mgr", "mgrEnd") /\ UNCHANGED <<disableCount, mActiveStreamMutex, mgrOnly>>

\* Mutant of MgrResume: the first use that ends resumes.
MgrResumeFirst ==
  /\ MgrMay("pause") /\ disableCount > 0 /\ disableCount' = disableCount - 1
  /\ IF handle = "none"
       THEN UNCHANGED <<w, pc, ret, mActiveStreamMutex>>
       ELSE mActiveStreamMutex' = "mgr" /\ SensorResume
  /\ UNCHANGED mgrOnly

MgrResume ==
  /\ MgrMay("pause") /\ disableCount > 0 /\ disableCount' = disableCount - 1
  /\ IF disableCount > 1 \/ handle = "none"
       THEN UNCHANGED <<w, pc, ret, mActiveStreamMutex>>
       ELSE mActiveStreamMutex' = "mgr" /\ SensorResume
  /\ UNCHANGED mgrOnly

MgrEnd ==
  /\ pc["mgr"] = "mgrEnd" /\ mActiveStreamMutex' = None /\ Goto("mgr", "idle")
  /\ UNCHANGED <<w, disableCount, mgrOnly>>

\* The first half of a move leaves the stream locked; the device of a stream that listens
\* is stopped and closed.
SensorDisconnect ==
  /\ Goto("mgr", "connect")
  /\ Leaves([w EXCEPT !.registered = @ \ w.mDevices, !.mDevices = {}],
            Closed(Stopped(dev, w.mDevices), w.mDevices))

\* Another device.  Bound: only while the stream listens (else it is started on it).
MgrSwitch ==
  /\ MgrMay("switch") /\ handle # "none" /\ StreamFree /\ w.currentState = "STARTED"
  /\ mActiveStreamMutex' = "mgr" /\ mStreamMutex' = "mgr" /\ SensorDisconnect
  /\ UNCHANGED <<scenario, handle, votes, card, disableCount, asked>>

\* HandleConcurrentStream: the capture profile changes, or proves to be the same.
MgrProfile ==
  /\ MgrMay("profile") /\ handle # "none" /\ StreamFree
  /\ mActiveStreamMutex' = "mgr" /\ mStreamMutex' = "mgr"
  /\ \/ Goto("mgr", "connectSame") /\ Same
     \/ w.currentState = "STARTED" /\ SensorDisconnect
  /\ UNCHANGED <<scenario, handle, votes, card, disableCount, asked>>

\* A device that does not open is not the stream's; one that does not start is.
SensorConnect ==
  \/ Leaves([w EXCEPT !.registered = @ \cup Devices, !.mDevices = Devices],
            Started(Opened(dev, Devices), Devices))
  \/ May("deviceOpen") /\ Same
  \/ May("connect") /\ Leaves([w EXCEPT !.mDevices = Devices], dev)

MgrConnect ==
  /\ pc["mgr"] \in {"connect", "connectSame"}
  /\ mStreamMutex' = None /\ Goto("mgr", "mgrEnd")
  /\ IF pc["mgr"] = "connectSame" THEN Same ELSE SensorConnect
  /\ UNCHANGED <<scenario, handle, votes, card, disableCount, mActiveStreamMutex, asked>>

-----------------------------------------------------------------------------
(* Specification.                                                          *)

StreamStep(t) ==
  \/ Open(t) \/ Start(t) \/ StartRegister(t) \/ StartUnlock(t) \/ Stop(t) \/ StopRun(t)
  \/ Suspend(t) \/ PauseStream(t) \/ ResumeStream(t) \/ Close(t) \/ CloseRun(t)

ClientStep == \/ ClientOpen \/ ClientClose \/ ClientDelete
              \/ \E op \in scenario.Ops : ClientCall(op)
SsrStep == \/ SsrTake \/ SsrDown \/ SsrRelock \/ SsrDownEnd
           \/ SsrUp \/ SsrUpStart \/ SsrUpStarted \/ SsrUpEnd
MgrEnds == MgrPaused \/ MgrEnd \/ MgrConnect

Next ==
  \/ ClientStep \/ SsrStep \/ MgrEnds \/ LoseCard \/ CardBack
  \/ MgrPause \/ MgrResume \/ MgrSwitch \/ MgrProfile
  \/ \E t \in Threads : StreamStep(t)

Spec == Init /\ [][Next]_vars

\* Threads run, and the card comes back; nobody has to call.
FairSpec ==
  /\ Spec /\ WF_vars(CardBack) /\ SF_vars(SsrStep) /\ SF_vars(MgrEnds)
  /\ \A t \in Threads : SF_vars(StreamStep(t))

-----------------------------------------------------------------------------
(* Properties.                                                             *)

TypeOK ==
  /\ scenario \in Scenarios /\ handle \in {"none", "opening", "open", "closing"}
  /\ w.currentState \in State /\ w.cachedState \in State
  /\ w.session \in {"none", "open", "started"}
  /\ w.mDevices \subseteq Devices /\ w.registered \subseteq Devices
  /\ dev \in [Devices -> [count : 0..2, startStop : 0..2]] /\ votes \in 0..1
  /\ disableCount \in 0..2
  /\ mStreamMutex \in Threads \cup {None} /\ mActiveStreamMutex \in Threads \cup {None}

AtRest == (\A t \in Threads : pc[t] = "idle") /\ msgQ = <<>> /\ CardUp

\* At rest a device is open from open to close, or with a sensor stream while it
\* listens, and started and registered while the stream is started.
DevicesInStep ==
  LET opened == IF class = "sensor" THEN w.currentState = "STARTED" ELSE w.currentState # "IDLE"
      started == w.currentState = "STARTED"
      N(b) == IF b THEN 1 ELSE 0
  IN AtRest /\ class \in {"common", "haptics", "sensor"} =>
       /\ \A d \in Devices : dev[d] = [count |-> N(opened /\ d \in w.mDevices),
                                       startStop |-> N(started /\ d \in w.mDevices)]
       /\ w.registered = IF started THEN w.mDevices ELSE {}

\* A non-tunnel stream keeps the DSP from sleeping exactly while it is started.
VoteWhileStarted ==
  class = "nontunnel" /\ downs = 0 => votes = IF w.currentState = "STARTED" THEN 1 ELSE 0

\* Devices, registrations and the vote against sleep are in use as the state of the
\* stream says, whatever failed on the way to it; no count falls below 0.
DevicesFollow == TypeOK /\ DevicesInStep /\ VoteWhileStarted

\* At rest the stream is as the client asked, unless the manager holds it back; no one
\* tells the client of a sensor stream that fails to start when it is let go on.
AsAsked ==
  AtRest /\ handle = "open" /\ (class = "sensor" => scenario.Faults = {}) =>
    /\ asked = "started" => w.currentState = "STARTED" \/ w.paused_ \/ w.ssrInNTMode
    /\ asked = "paused" => w.currentState = "PAUSED"
    /\ asked \in {"nothing", "stopped"} /\ class # "sensor" => w.currentState # "STARTED"

\* A sensor stream does not listen while a use that cannot go with it is active.
PausedMeansQuiet == disableCount > 0 /\ pc["mgr"] = "idle" => w.currentState # "STARTED"

\* Every call of the client, walk of recovery and round of the manager ends, but for a
\* non-tunnel stream closed while it is started, which waits for its own mutex.
CallsReturn ==
  \A t \in Threads : (pc[t] # "idle" /\ class # "nontunnel") ~> (pc[t] = "idle")
=============================================================================

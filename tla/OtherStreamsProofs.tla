--------------------------- MODULE OtherStreamsProofs ---------------------------
(***************************************************************************)
(* The stream classes beside StreamPCM, StreamCompress and the detection   *)
(* streams: whatever the client, the recovery of the sound card and the    *)
(* resource manager do, a sensor stream that is held back does not listen, *)
(* devices, registrations and the vote against sleep follow the state of   *)
(* the stream, and at rest the stream is as its client asked.              *)
(***************************************************************************)
EXTENDS OtherStreams, DeviceProofs, SequenceTheorems

\* The operations each class has (StreamCommon.h and its siblings leave the others empty).
OpsOf(c) ==
  CASE c = "incall" -> {"start", "stop", "pause", "resume"}
    [] c = "nontunnel" -> {"start", "stop", "suspend"}
    [] OTHER -> {"start", "stop"}

\* The manager pauses and moves sensor streams only.
Ordinary == /\ scenario.Ops \subseteq OpsOf(class)
            /\ class # "sensor" => scenario.ManagerOps = {}

Pcs == {"idle", "open", "start", "startRegister", "startUnlock", "startFailed", "stop",
        "stopRun", "suspend", "pause", "resume", "close", "closeRun", "down", "relock",
        "downEnd", "up", "upStart", "upStarted", "upEnd", "upFailed", "upKeep", "paused",
        "mgrEnd", "connect", "connectSame"}
Backs == {<<>>, <<"closeRun">>, <<"relock", "close", "downEnd">>, <<"close", "downEnd">>,
          <<"downEnd">>, <<"upEnd">>, <<"upStart">>, <<"upStarted">>, <<"paused">>,
          <<"mgrEnd">>}
StreamType ==
  [currentState : State, cachedState : State, session : {"none", "open", "started"},
   ssrInNTMode : BOOLEAN, mDevices : SUBSET Devices, registered : SUBSET Devices,
   paused_ : BOOLEAN]
\* What recovery may have yet to hear.
Both == Append(<<"offline">>, "online")
Queues == {<<>>, <<"offline">>, Both, <<"online">>}

Typed ==
  /\ scenario \in Scenarios /\ handle \in {"none", "opening", "open", "closing"}
  /\ w \in StreamType /\ dev \in UseType /\ votes \in Nat
  /\ cardState \in {"online", "offline"} /\ msgQ \in Queues /\ downs \in Nat
  /\ disableCount \in 0..2
  /\ mStreamMutex \in Threads \cup {None} /\ mActiveStreamMutex \in Threads \cup {None}
  /\ pc \in [Threads -> Pcs] /\ ret \in [Threads -> Backs]

-----------------------------------------------------------------------------
(* Where the threads are.                                                  *)

\* What follows start of each class, and stop of a stream with devices.
AfterStart == CASE class = "common" -> {"startRegister"}
                [] class = "incall" -> {"startUnlock", "startFailed"}
                [] OTHER -> {}
AfterStop == IF HasDevices THEN {"stopRun"} ELSE {}

ClientPlace ==
  LET p == pc["client"]
      r == ret["client"]
  IN /\ handle = "none" => p = "idle" /\ r = <<>>
     /\ handle = "opening" => p = "open" /\ r = <<>>
     /\ handle = "open" =>
          /\ r = <<>>
          /\ \/ p = "idle" \/ p \in scenario.Ops
             \/ "start" \in scenario.Ops /\ p \in AfterStart
             \/ "stop" \in scenario.Ops /\ p \in AfterStop
     /\ handle = "closing" =>
          \/ p \in {"idle", "close", "closeRun"} /\ r = <<>>
          \/ p \in {"stop"} \cup AfterStop /\ r = <<"closeRun">>

\* The recovery on its way down and up.
Falling(p, r) ==
  \/ p \in {"down", "downEnd"} /\ r = <<>>
  \/ p \in {"stop"} \cup AfterStop /\
       r = IF class = "incall" THEN <<"close", "downEnd">> ELSE <<"relock", "close", "downEnd">>
  \/ p = "relock" /\ r = <<"close", "downEnd">> /\ class # "incall"
  \/ p = "close" /\ r = <<"downEnd">>
Rising(p, r) ==
  \/ p \in {"up", "upStart", "upStarted", "upEnd", "upFailed", "upKeep"} /\ r = <<>>
  \/ p = "open" /\ r \in {<<"upEnd">>, <<"upStart">>}
  \/ p \in {"start"} \cup AfterStart /\ r = <<"upStarted">>
  \/ p = "pause" /\ r = <<"upEnd">> /\ class = "incall"
SsrPlace ==
  LET p == pc["ssr"]
      r == ret["ssr"]
  IN \/ p = "idle" /\ r = <<>>
     \/ handle = "open" /\ downs > 0 /\ ~CardUp /\ Falling(p, r)
          /\ (class = "nontunnel" => p \in {"down", "downEnd"})
     \/ handle = "open" /\ downs > 0 /\ CardUp /\ Rising(p, r)
          /\ (class = "nontunnel" => p \in {"up", "upKeep"})

MgrPlace ==
  LET p == pc["mgr"]
      r == ret["mgr"]
  IN \/ p = "idle" /\ r = <<>>
     \/ /\ handle = "open" /\ class = "sensor"
        /\ \/ p = "stop" /\ r = <<"paused">>
           \/ p = "start" /\ r = <<"mgrEnd">>
           \/ p \in {"paused", "mgrEnd", "connect", "connectSame"} /\ r = <<>>

Places ==
  /\ ClientPlace /\ SsrPlace /\ MgrPlace
  /\ ~CardUp \/ msgQ # <<>> => downs > 0
  /\ downs > 0 => scenario.MaxDown > 0
  /\ msgQ = <<"online">> => ~CardUp
  /\ msgQ \in {<<"offline">>, Both} => CardUp
  /\ pc["client"] = "startRegister" => pc["ssr"] = "idle" \/ CardUp

-----------------------------------------------------------------------------
(* A sensor stream that is held back.                                      *)

\* The pause is set while a use that excludes it is active, and while it is set the
\* stream listens only until the manager has stopped it; nothing starts a stream that
\* recovery has stopped.
HeldBack ==
  /\ class # "sensor" => disableCount = 0
  /\ class = "nontunnel" => w.cachedState \in {"IDLE", "STOPPED"}
  /\ handle = "none" => w.currentState = "IDLE"
  /\ handle # "none" => (w.paused_ <=> disableCount > 0)
  /\ w.paused_ /\ w.currentState = "STARTED" => pc["mgr"] = "stop"
  /\ pc["mgr"] \in {"stop", "paused"} => w.paused_
  /\ pc["ssr"] \in {"relock", "close"} =>
       w.currentState # "STARTED" /\ (class # "sensor" => w.currentState # "PAUSED")

HeldInv == Ordinary => Typed /\ Places /\ HeldBack

-----------------------------------------------------------------------------
(* The devices, the registration and the vote.                             *)

\* The scenarios in which they are proved to follow the state: a common stream whose
\* device fails starts only in part, one that is stopped while the card goes may be
\* stopped twice, and a sensor stream that does not open its device keeps none.
Orderly ==
  /\ HasDevices => scenario.MaxDown = 0 \/ scenario.Ops \subseteq {"start"}
  /\ class = "common" => "deviceStart" \notin scenario.Faults
  /\ class = "sensor" =>
       \/ scenario.Faults = {}
       \/ /\ scenario.Faults \subseteq {"deviceOpen"} /\ scenario.MaxDown = 0
          /\ scenario.ManagerOps \subseteq {"pause"}

\* One stream that has opened and started the devices of D so many times.
UseBy(D, n, m) == [d \in Devices |-> [count |-> IF d \in D THEN n ELSE 0,
                                      startStop |-> IF d \in D THEN m ELSE 0]]
N(b) == IF b THEN 1 ELSE 0

Listens == w.currentState = "STARTED"

DeviceStream ==
  /\ w.currentState \in {"IDLE", "INIT", "STARTED", "STOPPED"} /\ votes = 0
  /\ dev = UseBy(w.mDevices, N(w.currentState # "IDLE"), N(Listens))
  /\ ~Listens => w.registered = {}
  /\ Listens => \/ w.registered = w.mDevices
                \/ w.registered = {} /\ \E t \in Threads : pc[t] = "startRegister"
  /\ \A t \in Threads : pc[t] \in {"startRegister", "stopRun"} => Listens
  /\ pc["ssr"] = "downEnd" => w.currentState = "IDLE"
  /\ handle = "closing" /\ pc["client"] = "idle" => w.currentState = "IDLE"
  /\ handle = "closing" /\ pc["client"] = "closeRun" => ~Listens
  /\ handle = "opening" => w.currentState = "IDLE"

InCallStream ==
  w.mDevices = {} /\ w.registered = {} /\ dev = NoUse /\ votes = 0

NonTunnelStream ==
  /\ w.currentState # "PAUSED" /\ w.mDevices = {} /\ w.registered = {} /\ dev = NoUse
  /\ w.session = "started" <=> Listens
  /\ votes \in {0, 1} /\ (votes = 1 => Listens)
  /\ downs = 0 => votes = N(Listens)
  /\ handle = "closing" /\ pc["client"] \in {"idle", "closeRun"} => ~Listens
  /\ handle = "opening" => ~Listens

\* Who holds mActiveStreamMutex and mStreamMutex.
SensorLocks ==
  /\ pc["mgr"] # "idle" => mActiveStreamMutex = "mgr"
  /\ pc["mgr"] \in {"connect", "connectSame"} => mStreamMutex = "mgr"
  /\ pc["ssr"] \in {"down", "close", "downEnd", "up", "open", "upStart", "upEnd", "upKeep"}
       => mActiveStreamMutex = "ssr"

\* A sensor stream opens and starts its devices together.
SensorShape ==
  /\ w.currentState # "SUSPENDED" /\ votes = 0
  /\ dev = UseBy(w.mDevices, N(Listens), N(Listens))
  /\ w.registered = IF Listens THEN w.mDevices ELSE {}

\* The manager has taken the devices of the stream it moves, and a stream it works on is
\* open.
SensorMgr ==
  /\ pc["mgr"] = "connect" => Listens /\ w.mDevices = {} /\ scenario.Faults = {}
  /\ pc["mgr"] # "idle" => w.currentState # "IDLE"
  /\ pc["mgr"] = "paused" => w.currentState = "STOPPED"
\* Recovery stops the stream before it closes it, and opens it before it starts it.
SensorSsr ==
  /\ pc["ssr"] = "stop" => w.currentState \in {"STARTED", "STOPPED", "PAUSED"}
  /\ pc["ssr"] \in {"relock", "close"} => w.currentState \in {"INIT", "STOPPED", "PAUSED"}
  /\ pc["ssr"] \in {"downEnd", "up", "open"} => w.currentState = "IDLE"
  /\ ~CardUp /\ handle = "open" /\ pc["ssr"] = "idle" => w.currentState = "IDLE"
  /\ pc["ssr"] \in {"upStart", "start", "upStarted"} => w.currentState # "IDLE"
  /\ pc["ssr"] # "upFailed"
SensorClient ==
  /\ handle = "opening" => w.currentState = "IDLE"
  /\ handle = "closing" /\ pc["client"] = "idle" => w.currentState = "IDLE"
  /\ handle = "closing" /\ pc["client"] = "closeRun" => ~Listens

SensorStream ==
  /\ SensorShape /\ SensorMgr /\ SensorSsr /\ SensorClient
  /\ w.currentState \in {"STARTED", "STOPPED", "PAUSED"} /\ pc["mgr"] # "connect"
       => w.mDevices = Devices

Follows ==
  /\ HasDevices => DeviceStream
  /\ class = "incall" => InCallStream
  /\ class = "nontunnel" => NonTunnelStream
  /\ class = "sensor" => SensorStream /\ SensorLocks

DeviceInv == HeldInv /\ (Ordinary /\ Orderly => Follows)

-----------------------------------------------------------------------------
(* Calls and returns.                                                      *)

\* What is left of the stack of a thread when a call returns.
LEMMA Popped ==
  /\ Head(<<"closeRun">>) = "closeRun" /\ Tail(<<"closeRun">>) = <<>> /\ <<"closeRun">> # <<>>
  /\ Head(<<"relock", "close", "downEnd">>) = "relock"
  /\ Tail(<<"relock", "close", "downEnd">>) = <<"close", "downEnd">>
  /\ <<"relock", "close", "downEnd">> # <<>>
  /\ Head(<<"close", "downEnd">>) = "close" /\ Tail(<<"close", "downEnd">>) = <<"downEnd">>
  /\ <<"close", "downEnd">> # <<>>
  /\ Head(<<"downEnd">>) = "downEnd" /\ Tail(<<"downEnd">>) = <<>> /\ <<"downEnd">> # <<>>
  /\ Head(<<"upEnd">>) = "upEnd" /\ Tail(<<"upEnd">>) = <<>> /\ <<"upEnd">> # <<>>
  /\ Head(<<"upStart">>) = "upStart" /\ Tail(<<"upStart">>) = <<>> /\ <<"upStart">> # <<>>
  /\ Head(<<"upStarted">>) = "upStarted" /\ Tail(<<"upStarted">>) = <<>>
  /\ <<"upStarted">> # <<>>
  /\ Head(<<"paused">>) = "paused" /\ Tail(<<"paused">>) = <<>> /\ <<"paused">> # <<>>
  /\ Head(<<"mgrEnd">>) = "mgrEnd" /\ Tail(<<"mgrEnd">>) = <<>> /\ <<"mgrEnd">> # <<>>
OBVIOUS

\* A call from a thread that is in none pushes one name.
LEMMA Pushed == \A l \in Pcs : <<l>> \o <<>> = <<l>>
OBVIOUS

Others(t) == \A u \in Threads \ {t} : pc'[u] = pc[u] /\ ret'[u] = ret[u]
TypedControl == pc \in [Threads -> Pcs] /\ ret \in [Threads -> Backs]

\* A thread that goes on in its handler moves alone.
LEMMA GoneTo ==
  ASSUME Typed, NEW t \in Threads, NEW l \in Pcs, Goto(t, l)
  PROVE  TypedControl' /\ pc'[t] = l /\ ret' = ret /\ Others(t)
BY DEF Typed, Goto, TypedControl, Others

\* A thread that calls a handler of the stream moves alone and remembers where to go back.
LEMMA CalledTo ==
  ASSUME Typed, NEW t \in Threads, NEW l \in Pcs, NEW b \in Pcs, Call(t, l, b),
         ret[t] = <<>>, <<b>> \in Backs
  PROVE  TypedControl' /\ pc'[t] = l /\ ret'[t] = <<b>> /\ Others(t)
<1>1. <<b>> \o <<>> = <<b>>
  BY Pushed
<1>2. ret' = [ret EXCEPT ![t] = <<b>>]
  BY <1>1 DEF Call, Typed
<1>. QED  BY <1>2 DEF Typed, Call, TypedControl, Others

\* A thread whose handler returns goes where its caller left off.
LEMMA ReturnedTo ==
  ASSUME Typed, NEW t \in Threads, NEW said, Return(t, said)
  PROVE  /\ TypedControl' /\ Others(t) /\ Tell(t, said)
         /\ ret[t] = <<>> => pc'[t] = "idle" /\ ret'[t] = <<>>
         /\ ret[t] = <<"closeRun">> => pc'[t] = "closeRun" /\ ret'[t] = <<>>
         /\ ret[t] = <<"relock", "close", "downEnd">>
              => pc'[t] = "relock" /\ ret'[t] = <<"close", "downEnd">>
         /\ ret[t] = <<"close", "downEnd">> => pc'[t] = "close" /\ ret'[t] = <<"downEnd">>
         /\ ret[t] = <<"downEnd">> => pc'[t] = "downEnd" /\ ret'[t] = <<>>
         /\ ret[t] = <<"upEnd">> => pc'[t] = "upEnd" /\ ret'[t] = <<>>
         /\ ret[t] = <<"upStart">> => pc'[t] = "upStart" /\ ret'[t] = <<>>
         /\ ret[t] = <<"upStarted">> => pc'[t] = "upStarted" /\ ret'[t] = <<>>
         /\ ret[t] = <<"paused">> => pc'[t] = "paused" /\ ret'[t] = <<>>
         /\ ret[t] = <<"mgrEnd">> => pc'[t] = "mgrEnd" /\ ret'[t] = <<>>
<1>. DEFINE p == IF ret[t] = <<>> THEN "idle" ELSE Head(ret[t])
            r == IF ret[t] = <<>> THEN ret[t] ELSE Tail(ret[t])
<1>1. p \in Pcs /\ r \in Backs
  BY Popped DEF Typed, Backs, Pcs
<1>2. /\ pc' = [pc EXCEPT ![t] = p] /\ ret' = [ret EXCEPT ![t] = r] /\ Tell(t, said)
  BY DEF Return
<1>3. TypedControl' /\ Others(t) /\ Tell(t, said) /\ pc'[t] = p /\ ret'[t] = r
  <2>. HIDE DEF p, r
  <2>. QED  BY <1>1, <1>2 DEF TypedControl, Others, Typed
<1>. QED  BY <1>3, Popped

\* A handler that fails ends there.
LEMMA FailedTo ==
  ASSUME Typed, NEW t \in {"ssr", "mgr"}, Fail(t)
  PROVE  /\ TypedControl' /\ Others(t) /\ ret'[t] = <<>> /\ asked' = asked
         /\ pc'[t] = IF t = "ssr" THEN "upFailed" ELSE "mgrEnd"
<1>. DEFINE p == IF t = "ssr" THEN "upFailed" ELSE "mgrEnd"
<1>1. t \in Threads /\ p \in Pcs /\ <<>> \in Backs /\ t # "client"
  BY DEF Threads, Pcs, Backs
<1>2. pc' = [pc EXCEPT ![t] = p] /\ ret' = [ret EXCEPT ![t] = <<>>] /\ asked' = asked
  BY <1>1 DEF Fail
<1>. HIDE DEF p
<1>3. TypedControl' /\ Others(t) /\ pc'[t] = p /\ ret'[t] = <<>> /\ asked' = asked
  BY <1>1, <1>2 DEF Typed, TypedControl, Others
<1>. QED  BY <1>3 DEF p

-----------------------------------------------------------------------------
(* Every thread is at a place of its own handlers.                         *)

Around == UNCHANGED <<scenario, card>>

\* A thread that goes to a place of its own leaves the others where they are.
LEMMA Moved ==
  ASSUME Typed, Places, Around, handle' = handle, NEW t \in Threads, Others(t), pc[t] # "idle",
         TypedControl', t = "client" => ClientPlace',
         t = "ssr" => SsrPlace',
         t = "mgr" => MgrPlace',
         t = "client" /\ pc'[t] = "startRegister" => CardUp
  PROVE  Places' /\ TypedControl' /\ Others(t)
<1>1. scenario' = scenario /\ cardState' = cardState /\ msgQ' = msgQ /\ downs' = downs
  BY DEF Around, card
<1>2. CASE t = "client"
  BY <1>1, <1>2 DEF Places, ClientPlace, SsrPlace, MgrPlace, CardUp, class, HasDevices, AfterStart,
     AfterStop, Falling, Rising, Others, Threads
<1>3. CASE t = "ssr"
  BY <1>1, <1>3 DEF Places, ClientPlace, SsrPlace, MgrPlace, CardUp, class, HasDevices, AfterStart,
     AfterStop, Falling, Rising, Others, Threads
<1>4. CASE t = "mgr"
  BY <1>1, <1>4 DEF Places, ClientPlace, SsrPlace, MgrPlace, CardUp, class, HasDevices, AfterStart,
     AfterStop, Falling, Rising, Others, Threads
<1>. QED  BY <1>2, <1>3, <1>4 DEF Threads

\* A return from any call but the open of the client.
LEMMA ReturnPlaces ==
  ASSUME Typed, Places, Around, handle' = handle, NEW t \in Threads, NEW said,
         Return(t, said), pc[t] # "idle", t = "client" => pc[t] # "open"
  PROVE  Places' /\ TypedControl' /\ Others(t)
<1>1. /\ TypedControl' /\ Others(t)
      /\ ret[t] = <<>> => pc'[t] = "idle" /\ ret'[t] = <<>>
      /\ ret[t] = <<"closeRun">> => pc'[t] = "closeRun" /\ ret'[t] = <<>>
      /\ ret[t] = <<"relock", "close", "downEnd">>
           => pc'[t] = "relock" /\ ret'[t] = <<"close", "downEnd">>
      /\ ret[t] = <<"close", "downEnd">> => pc'[t] = "close" /\ ret'[t] = <<"downEnd">>
      /\ ret[t] = <<"downEnd">> => pc'[t] = "downEnd" /\ ret'[t] = <<>>
      /\ ret[t] = <<"upEnd">> => pc'[t] = "upEnd" /\ ret'[t] = <<>>
      /\ ret[t] = <<"upStart">> => pc'[t] = "upStart" /\ ret'[t] = <<>>
      /\ ret[t] = <<"upStarted">> => pc'[t] = "upStarted" /\ ret'[t] = <<>>
      /\ ret[t] = <<"paused">> => pc'[t] = "paused" /\ ret'[t] = <<>>
      /\ ret[t] = <<"mgrEnd">> => pc'[t] = "mgrEnd" /\ ret'[t] = <<>>
  BY ReturnedTo
<1>2. CASE t = "client"
  <2>0. \/ ret[t] = <<>>
        \/ ret[t] = <<"closeRun">> /\ handle = "closing"
    <3>1. ClientPlace /\ handle \in {"none", "opening", "open", "closing"}
      BY DEF Places, Typed
    <3>. QED  BY <1>2, <3>1 DEF ClientPlace
  <2>1. ClientPlace' /\ pc'[t] # "startRegister"
    <3>1. CASE ret[t] = <<>>
      <4>1. pc'[t] = "idle" /\ ret'[t] = <<>> /\ handle \notin {"none", "opening"}
        BY <1>1, <1>2, <3>1 DEF Places, ClientPlace
      <4>. QED  BY <1>2, <4>1 DEF ClientPlace
    <3>2. CASE ret[t] = <<"closeRun">> /\ handle = "closing"
      <4>1. pc'[t] = "closeRun" /\ ret'[t] = <<>>
        BY <1>1, <3>2
      <4>. QED  BY <1>2, <3>2, <4>1 DEF ClientPlace
    <3>. QED  BY <2>0, <3>1, <3>2
  <2>. QED  BY <1>1, <1>2, <2>1, Moved
<1>3. CASE t = "ssr"
  <2>0. scenario' = scenario /\ cardState' = cardState /\ downs' = downs
    BY DEF Around, card
  <2>1. SsrPlace'
    <3>1. CASE ret[t] = <<>>
      <4>1. pc'[t] = "idle" /\ ret'[t] = <<>>
        BY <1>1, <3>1
      <4>. QED  BY <1>3, <4>1 DEF SsrPlace
    <3>2. CASE ret[t] # <<>> /\ ~CardUp /\ Falling(pc[t], ret[t])
      <4>1. handle = "open" /\ downs > 0 /\ class # "nontunnel"
        <5>1. SsrPlace
          BY DEF Places
        <5>. QED  BY <1>3, <3>2, <5>1 DEF SsrPlace, Falling, AfterStop, HasDevices
      <4>2. \/ ret[t] = <<"relock", "close", "downEnd">> /\ class # "incall"
            \/ ret[t] = <<"close", "downEnd">> \/ ret[t] = <<"downEnd">>
        BY <3>2 DEF Falling
      <4>3. Falling(pc'[t], ret'[t])
        BY <1>1, <4>2 DEF Falling
      <4>. QED  BY <1>3, <2>0, <3>2, <4>1, <4>3 DEF SsrPlace, CardUp, class, Falling, AfterStop,
                   HasDevices
    <3>3. CASE ret[t] # <<>> /\ CardUp /\ Rising(pc[t], ret[t])
      <4>1. handle = "open" /\ downs > 0 /\ class # "nontunnel"
        <5>1. SsrPlace
          BY DEF Places
        <5>. QED  BY <1>3, <3>3, <5>1 DEF SsrPlace, Rising, AfterStart
      <4>2. ret[t] \in {<<"upEnd">>, <<"upStart">>, <<"upStarted">>}
        BY <3>3 DEF Rising
      <4>3. Rising(pc'[t], ret'[t])
        BY <1>1, <4>2 DEF Rising
      <4>. QED  BY <1>3, <2>0, <3>3, <4>1, <4>3 DEF SsrPlace, CardUp, class, Rising, AfterStart
    <3>. QED  BY <1>3, <3>1, <3>2, <3>3 DEF Places, SsrPlace
  <2>. QED  BY <1>1, <1>3, <2>1, Moved
<1>4. CASE t = "mgr"
  <2>1. MgrPlace'
    BY <1>1, <1>4 DEF Places, MgrPlace,
       Around, card, class, CardUp, HasDevices
  <2>. QED  BY <1>1, <1>4, <2>1, Moved
<1>. QED  BY <1>2, <1>3, <1>4 DEF Threads

\* A call of recovery or of the manager that fails.
LEMMA FailPlaces ==
  ASSUME Typed, Places, Around, handle' = handle, NEW t \in Threads, Fail(t), pc[t] # "idle",
         t = "client" => pc[t] # "open",
         t = "ssr" => pc[t] \in {"open", "start", "startFailed"}
  PROVE  Places' /\ TypedControl' /\ Others(t)
<1>1. CASE t = "client"
  BY <1>1, ReturnPlaces DEF Fail
<1>2. CASE t = "ssr"
  <2>1. Others(t) /\ TypedControl' /\ ret'[t] = <<>> /\ pc'[t] = "upFailed"
    BY <1>2, FailedTo
  <2>2. SsrPlace'
    BY <1>2, <2>1 DEF Places, SsrPlace, Falling, Rising, AfterStart, AfterStop,
       Around, card, class, CardUp, HasDevices
  <2>. QED  BY <1>2, <2>1, <2>2, Moved
<1>3. CASE t = "mgr"
  <2>1. Others(t) /\ TypedControl' /\ ret'[t] = <<>> /\ pc'[t] = "mgrEnd"
    BY <1>3, FailedTo
  <2>2. MgrPlace'
    BY <1>3, <2>1 DEF Places, MgrPlace,
       Around, card, class, CardUp, HasDevices
  <2>. QED  BY <1>3, <2>1, <2>2, Moved
<1>. QED  BY <1>1, <1>2, <1>3 DEF Threads

\* The steps between two sections of one call.
LEMMA GotoPlaces ==
  ASSUME Typed, Places, Around, handle' = handle, NEW t \in Threads, NEW l, Goto(t, l),
         \/ pc[t] = "start" /\ l \in AfterStart /\ (l = "startRegister" => CardUp)
              /\ t # "mgr" /\ (t = "client" => "start" \in scenario.Ops /\ handle = "open")
         \/ pc[t] = "stop" /\ l \in AfterStop /\ t # "mgr"
  PROVE  Places' /\ TypedControl' /\ Others(t)
<1>1. l \in Pcs /\ pc[t] # "idle"
  BY DEF AfterStart, AfterStop, Pcs
<1>2. Others(t) /\ TypedControl' /\ pc'[t] = l /\ ret' = ret
  BY <1>1, GoneTo
<1>3. CASE t = "client"
  <2>1. ClientPlace' /\ (pc'[t] = "startRegister" => CardUp)
    BY <1>2, <1>3 DEF Places, ClientPlace, AfterStart, AfterStop,
       Around, card, class, CardUp, HasDevices
  <2>. QED  BY <1>1, <1>2, <1>3, <2>1, Moved
<1>4. CASE t = "ssr"
  <2>1. SsrPlace'
    BY <1>2, <1>4 DEF Places, SsrPlace, Falling, Rising, AfterStart, AfterStop,
       Around, card, class, CardUp, HasDevices
  <2>. QED  BY <1>1, <1>2, <1>4, <2>1, Moved
<1>. QED  BY <1>3, <1>4 DEF Threads

\* A step of a handler that keeps the handle leads a thread to a place of its own
\* (open of the client apart).
LEMMA StreamStepPlaces ==
  ASSUME Typed, Places, HeldBack, Ordinary, NEW t \in Threads, StreamStep(t), ~Open(t)
  PROVE  Places' /\ TypedControl' /\ Others(t)
<1>0. Typed /\ Places /\ class \in {"common", "haptics", "incall", "nontunnel", "sensor"}
  BY ScenariosAssumption DEF Typed, class
<1>1. CASE Start(t)
  <2>1. Around /\ handle' = handle /\ pc[t] = "start"
    BY <1>1 DEF Start, Around, outside
  <2>2. t = "client" => "start" \in scenario.Ops /\ handle = "open"
    BY <1>0, <2>1 DEF Places, ClientPlace, Typed, AfterStart, AfterStop
  <2>3. t = "mgr" => class = "sensor"
    BY <2>1 DEF Places, MgrPlace
  <2>4. \/ \E said \in {"started"} : Return(t, said)
        \/ Fail(t)
        \/ class = "common" /\ CardUp /\ Goto(t, "startRegister")
        \/ class = "incall" /\ Goto(t, "startUnlock")
        \/ class = "incall" /\ Goto(t, "startFailed")
    <3>1. CASE class = "common"
      BY <1>1, <3>1 DEF Start, EndStart, StartCommon
    <3>2. CASE class = "haptics"
      BY <1>1, <3>2 DEF Start, EndStart, StartHaptics
    <3>3. CASE class = "incall"
      BY <1>1, <3>3 DEF Start, EndStart, StartInCall
    <3>4. CASE class = "nontunnel"
      BY <1>1, <3>4 DEF Start, EndStart, StartNonTunnel
    <3>5. CASE class = "sensor"
      BY <1>1, <3>5 DEF Start, EndStart, StartSensor
    <3>. QED  BY <1>0, <3>1, <3>2, <3>3, <3>4, <3>5
  <2>5. ASSUME NEW l, Goto(t, l),
               \/ class = "common" /\ CardUp /\ l = "startRegister"
               \/ class = "incall" /\ l \in {"startUnlock", "startFailed"}
        PROVE  Places' /\ TypedControl' /\ Others(t)
    <3>1. l \in AfterStart /\ (l = "startRegister" => CardUp) /\ t # "mgr"
      BY <2>3, <2>5 DEF AfterStart
    <3>. QED  BY <2>1, <2>2, <2>5, <3>1, GotoPlaces
  <2>. QED  BY <2>1, <2>4, <2>5, ReturnPlaces, FailPlaces
<1>2. CASE StartRegister(t)
  <2>1. Around /\ handle' = handle /\ pc[t] = "startRegister" /\ Return(t, "started")
    BY <1>2 DEF StartRegister, Around, outside
  <2>. QED  BY <2>1, ReturnPlaces
<1>3. CASE StartUnlock(t)
  <2>1. Around /\ handle' = handle /\ pc[t] \in {"startUnlock", "startFailed"}
        /\ \/ pc[t] = "startUnlock" /\ Return(t, "started")
           \/ pc[t] = "startFailed" /\ Fail(t)
    BY <1>3 DEF StartUnlock, Around
  <2>. QED  BY <2>1, ReturnPlaces, FailPlaces
<1>4. CASE Stop(t)
  <2>1. Around /\ handle' = handle /\ pc[t] = "stop"
    BY <1>4 DEF Stop, Around, outside
  <2>2. \/ \E said \in {"stopped", ""} : Return(t, said)
        \/ Fail(t) /\ t # "ssr"
        \/ HasDevices /\ Goto(t, "stopRun")
    BY <1>0, <1>4 DEF Stop, StopSensor, StopInCall, StopNonTunnel, HasDevices
  <2>3. ASSUME HasDevices, Goto(t, "stopRun")
        PROVE  Places' /\ TypedControl' /\ Others(t)
    <3>1. t # "mgr" /\ "stopRun" \in AfterStop
      BY <2>1, <2>3 DEF Places, MgrPlace, HasDevices, AfterStop
    <3>. QED  BY <2>1, <2>3, <3>1, GotoPlaces
  <2>. QED  BY <2>1, <2>2, <2>3, ReturnPlaces, FailPlaces
<1>5. CASE StopRun(t)
  <2>1. Around /\ handle' = handle /\ pc[t] = "stopRun" /\ Return(t, "stopped")
    BY <1>5 DEF StopRun, Around, outside
  <2>. QED  BY <2>1, ReturnPlaces
<1>6. CASE Suspend(t)
  <2>1. Around /\ handle' = handle /\ pc[t] = "suspend"
        /\ \E said : Return(t, said)
    BY <1>6 DEF Suspend, Around, outside
  <2>. QED  BY <2>1, ReturnPlaces
<1>7. CASE PauseStream(t) \/ ResumeStream(t)
  <2>1. Around /\ handle' = handle /\ pc[t] \in {"pause", "resume"}
        /\ \E said : Return(t, said)
    BY <1>7 DEF PauseStream, ResumeStream, Around, outside
  <2>. QED  BY <2>1, ReturnPlaces
<1>8. CASE Close(t)
  <2>1. Around /\ handle' = handle /\ pc[t] = "close"
    BY <1>8 DEF Close, Around
  <2>2. Return(t, "") \/ Call(t, "stop", "closeRun")
    BY <1>0, <1>8 DEF Close, IsClosed, CloseCommon, CloseInCall, CloseSensor, CloseNonTunnel,
       HasDevices
  <2>3. ASSUME Call(t, "stop", "closeRun"), t = "client"
        PROVE  Places' /\ TypedControl' /\ Others(t)
    <3>1. handle = "closing" /\ ret[t] = <<>>
      BY <2>1, <2>3 DEF Places, ClientPlace, Typed, AfterStart, AfterStop, Ordinary, OpsOf
    <3>2. pc'[t] = "stop" /\ ret'[t] = <<"closeRun">> /\ Others(t) /\ TypedControl'
      BY <2>3, <3>1, CalledTo DEF Pcs, Backs
    <3>3. ClientPlace'
      BY <2>1, <2>3, <3>1, <3>2 DEF ClientPlace
    <3>. QED  BY <2>1, <2>3, <3>2, <3>3, Moved
  <2>4. t # "mgr"
    BY <2>1 DEF Places, MgrPlace
  <2>5. ASSUME Call(t, "stop", "closeRun"), t = "ssr"
        PROVE  Return(t, "")
    <3>1. w.currentState # "STARTED" /\ (class # "sensor" => w.currentState # "PAUSED")
      BY <2>1, <2>5 DEF HeldBack
    <3>2. class # "nontunnel"
      BY <2>1, <2>5 DEF Places, SsrPlace
    <3>. QED  BY <1>0, <1>8, <3>1, <3>2 DEF Close, IsClosed, CloseCommon, CloseInCall,
                 CloseSensor, Stoppable, HasDevices
  <2>. QED  BY <2>1, <2>2, <2>3, <2>4, <2>5, ReturnPlaces DEF Threads
<1>9. CASE CloseRun(t)
  <2>1. Around /\ handle' = handle /\ pc[t] = "closeRun" /\ Return(t, "")
    BY <1>0, <1>9 DEF CloseRun, Around, outside, IsClosed, CloseCommon, CloseInCall, CloseSensor,
       HasDevices
  <2>. QED  BY <2>1, ReturnPlaces
<1>. QED  BY <1>1, <1>2, <1>3, <1>4, <1>5, <1>6, <1>7, <1>8, <1>9 DEF StreamStep

\* While the client opens or closes its stream nobody else is at work with it.
LEMMA Alone ==
  ASSUME Typed, Places, handle # "open"
  PROVE  pc["ssr"] = "idle" /\ ret["ssr"] = <<>> /\ pc["mgr"] = "idle" /\ ret["mgr"] = <<>>
BY DEF Places, SsrPlace, MgrPlace

\* A step of the client that changes its handle, with the others at rest.
LEMMA ClientMoves ==
  ASSUME Typed, Places, Around, Others("client"), ClientPlace',
         TypedControl',
         pc["ssr"] = "idle", ret["ssr"] = <<>>, pc["mgr"] = "idle", ret["mgr"] = <<>>
  PROVE  Places' /\ TypedControl'
<1>1. cardState' = cardState /\ msgQ' = msgQ /\ downs' = downs /\ scenario' = scenario
  BY DEF Around, card
<1>2. pc'["ssr"] = "idle" /\ ret'["ssr"] = <<>> /\ pc'["mgr"] = "idle" /\ ret'["mgr"] = <<>>
  BY DEF Others, Threads
<1>. QED  BY <1>1, <1>2 DEF Places, SsrPlace, MgrPlace, CardUp

\* open: the stream is the client's to use, or to close.
LEMMA OpenPlaces ==
  ASSUME Typed, Places, Ordinary, NEW t \in Threads, Open(t)
  PROVE  Places' /\ TypedControl' /\ Others(t)
<1>1. Around /\ pc[t] = "open"
  BY DEF Open, Around
<1>2. t # "mgr"
  BY <1>1 DEF Places, MgrPlace
<1>3. \/ Return(t, "") /\ handle' = IF t = "client" THEN "open" ELSE handle
      \/ t = "client" /\ Goto(t, "close") /\ handle' = "closing"
      \/ t # "client" /\ Fail(t) /\ handle' = handle
  BY DEF Open, Opens, OpenFails
<1>4. CASE t = "client"
  <2>1. handle = "opening" \/ (handle = "open" /\ "open" \in scenario.Ops)
    BY <1>1, <1>4 DEF Places, ClientPlace, Typed, AfterStart, AfterStop
  <2>2. CASE handle = "opening"
    <3>1. ret[t] = <<>> /\ pc["ssr"] = "idle" /\ ret["ssr"] = <<>> /\ pc["mgr"] = "idle"
          /\ ret["mgr"] = <<>>
      BY <1>4, <2>2, Alone DEF Places, ClientPlace
    <3>2. CASE Return(t, "") /\ handle' = "open"
      <4>1. pc'[t] = "idle" /\ ret'[t] = <<>> /\ Others(t) /\ TypedControl'
        BY <3>1, <3>2, ReturnedTo
      <4>2. ClientPlace'
        BY <1>4, <3>2, <4>1 DEF ClientPlace
      <4>. QED  BY <1>1, <1>4, <3>1, <4>1, <4>2, ClientMoves
    <3>3. CASE Goto(t, "close") /\ handle' = "closing"
      <4>1. pc'[t] = "close" /\ ret'[t] = <<>> /\ Others(t) /\ TypedControl'
        BY <3>1, <3>3, GoneTo DEF Pcs
      <4>2. ClientPlace'
        BY <1>4, <3>3, <4>1 DEF ClientPlace
      <4>. QED  BY <1>1, <1>4, <3>1, <4>1, <4>2, ClientMoves
    <3>. QED  BY <1>3, <1>4, <3>2, <3>3
  <2>3. ~(handle = "open" /\ "open" \in scenario.Ops)
    BY DEF Ordinary, OpsOf
  <2>. QED  BY <2>1, <2>2, <2>3
<1>5. CASE t = "ssr"
  BY <1>1, <1>3, <1>5, ReturnPlaces, FailPlaces
<1>. QED  BY <1>2, <1>4, <1>5 DEF Threads

\* The calls of pal_stream_open, pal_stream_close and those between.
LEMMA ClientPlaces ==
  ASSUME Typed, Places, Ordinary, ClientStep
  PROVE  Places' /\ TypedControl'
<1>1. Around /\ ret["client"] = <<>> /\ pc["client"] = "idle"
  BY DEF ClientStep, ClientOpen, ClientClose, ClientDelete, ClientCall, clientOnly, ClientFree,
         Around
<1>2. CASE ClientOpen
  <2>1. Goto("client", "open") /\ handle = "none" /\ handle' = "opening"
    BY <1>2 DEF ClientOpen
  <2>2. pc'["client"] = "open" /\ ret'["client"] = <<>> /\ Others("client") /\ TypedControl'
    BY <1>1, <2>1, GoneTo DEF Pcs, Threads
  <2>3. ClientPlace'
    BY <2>1, <2>2 DEF ClientPlace
  <2>. QED  BY <1>1, <2>1, <2>2, <2>3, Alone, ClientMoves
<1>3. CASE ClientClose
  <2>1. Goto("client", "close") /\ handle = "open" /\ handle' = "closing"
        /\ pc["ssr"] = "idle" /\ pc["mgr"] = "idle"
    BY <1>3 DEF ClientClose
  <2>2. pc'["client"] = "close" /\ ret'["client"] = <<>> /\ Others("client") /\ TypedControl'
    BY <1>1, <2>1, GoneTo DEF Pcs, Threads
  <2>3. ClientPlace'
    BY <2>1, <2>2 DEF ClientPlace
  <2>4. ret["ssr"] = <<>> /\ ret["mgr"] = <<>>
    BY <2>1 DEF Places, SsrPlace, MgrPlace, Falling, Rising, AfterStop, AfterStart
  <2>. QED  BY <1>1, <2>1, <2>2, <2>3, <2>4, ClientMoves
<1>4. CASE ClientDelete
  <2>1. handle = "closing" /\ handle' = "none" /\ pc' = pc /\ ret' = ret
    BY <1>4 DEF ClientDelete
  <2>2. ClientPlace' /\ Others("client") /\ TypedControl'
    BY <1>1, <2>1 DEF ClientPlace, Others, Typed, TypedControl
  <2>. QED  BY <1>1, <2>1, <2>2, Alone, ClientMoves
<1>5. ASSUME NEW op \in scenario.Ops, ClientCall(op)
      PROVE  Places' /\ TypedControl'
  <2>1. Goto("client", op) /\ handle = "open" /\ handle' = "open" /\ scenario' = scenario
    BY <1>5 DEF ClientCall, clientOnly
  <2>2. op \in Pcs \ {"startRegister", "idle"}
    BY DEF Ordinary, OpsOf, Pcs
  <2>3. pc'["client"] = op /\ ret'["client"] = <<>> /\ Others("client") /\ TypedControl'
    BY <1>1, <2>1, <2>2, GoneTo DEF Threads
  <2>4. ClientPlace'
    BY <2>1, <2>3 DEF ClientPlace
  <2>5. SsrPlace' /\ MgrPlace'
    BY <1>1, <2>1, <2>3 DEF Places, SsrPlace, MgrPlace, Others, Threads, Around, card, class,
       CardUp, Falling, Rising, AfterStop, AfterStart, HasDevices
  <2>. QED  BY <1>1, <2>1, <2>2, <2>3, <2>4, <2>5 DEF Places, Around, card, CardUp
<1>. QED  BY <1>2, <1>3, <1>4, <1>5 DEF ClientStep

\* What the card's notices leave in the queue of recovery.
LEMMA Queued ==
  /\ Append(<<>>, "offline") = <<"offline">> /\ Append(<<>>, "online") = <<"online">>
  /\ Append(<<"offline">>, "online") = Both
  /\ Head(<<"offline">>) = "offline" /\ Tail(<<"offline">>) = <<>>
  /\ Head(<<"online">>) = "online" /\ Tail(<<"online">>) = <<>>
  /\ Head(Both) = "offline" /\ Tail(Both) = <<"online">>
  /\ <<"offline">> # <<>> /\ <<"online">> # <<>> /\ Both # <<>>
  /\ <<"offline">> # <<"online">> /\ Both # <<"online">> /\ Both # <<"offline">>
<1>1. Len(<<"offline">>) = 1 /\ Len(<<"online">>) = 1 /\ Len(Both) = 2 /\ Len(<<>>) = 0
  BY DEF Both
<1>2. <<"offline">>[1] = "offline" /\ <<"online">>[1] = "online"
  OBVIOUS
<1>3. /\ <<"offline">> # <<"online">> /\ Both # <<"online">> /\ Both # <<"offline">>
      /\ <<"offline">> # <<>> /\ <<"online">> # <<>> /\ Both # <<>>
  BY <1>1, <1>2
<1>4. Append(<<>>, "offline") = <<"offline">> /\ Append(<<>>, "online") = <<"online">>
  OBVIOUS
<1>5. /\ Head(<<"offline">>) = "offline" /\ Tail(<<"offline">>) = <<>>
      /\ Head(<<"online">>) = "online" /\ Tail(<<"online">>) = <<>>
  OBVIOUS
<1>6. Head(Both) = "offline" /\ Tail(Both) = <<"online">>
  <2>1. <<"offline">> \in Seq({"offline", "online"}) /\ Tail(<<"offline">>) = <<>>
        /\ <<"offline">> # <<>>
    BY <1>3, <1>5
  <2>2. Head(Both) = Head(<<"offline">>) /\ Tail(Both) = Append(Tail(<<"offline">>), "online")
    BY <2>1, HeadTailAppend DEF Both
  <2>. QED  BY <1>4, <1>5, <2>1, <2>2
<1>. QED  BY <1>3, <1>4, <1>5, <1>6 DEF Both

\* The card is lost and comes back; recovery has yet to hear of it.
LEMMA CardPlaces ==
  ASSUME Typed, Places, LoseCard \/ CardBack
  PROVE  Places' /\ TypedControl' /\ msgQ' \in Queues /\ downs' \in Nat
<1>1. UNCHANGED <<scenario, handle, cardState, pc, ret>> /\ downs' \in {downs, downs + 1}
  BY DEF LoseCard, CardBack
<1>4. TypedControl'
  BY <1>1 DEF Typed, TypedControl
<1>2. CASE LoseCard
  <2>1. msgQ' = <<"offline">> /\ CardUp /\ downs' = downs + 1 /\ downs < scenario.MaxDown
    BY <1>2, Queued DEF LoseCard
  <2>2. scenario.MaxDown > 0 /\ downs' > 0 /\ downs \in Nat
    BY <2>1, ScenariosAssumption DEF Typed
  <2>3. SsrPlace' /\ pc["ssr"] = "idle"
    BY <1>1, <1>2 DEF LoseCard, SsrPlace, Places, Falling, Rising, AfterStart, AfterStop
  <2>. QED  BY <1>1, <1>4, <2>1, <2>2, <2>3, Queued DEF Places, ClientPlace, MgrPlace, CardUp, class,
               HasDevices, AfterStart, AfterStop, Queues
<1>3. CASE CardBack
  <2>1. \/ msgQ' = Both /\ msgQ = <<"offline">>
        \/ msgQ' = <<"online">> /\ ~CardUp
    BY <1>3, Queued DEF CardBack
  <2>2. downs' = downs /\ downs > 0
    BY <1>3, Queued DEF CardBack, Places
  <2>3. SsrPlace'
    BY <1>1, <2>2 DEF Places, SsrPlace, Falling, Rising, AfterStart, AfterStop, HasDevices, class,
       CardUp
  <2>4. ClientPlace' /\ MgrPlace'
    BY <1>1 DEF Places, ClientPlace, MgrPlace, AfterStart, AfterStop, HasDevices, class
  <2>. QED  BY <1>1, <1>4, <2>1, <2>2, <2>3, <2>4, Queued DEF Places, CardUp, Queues, Typed
<1>. QED  BY <1>2, <1>3, <1>4

\* Recovery takes a notice up: the stream of a counted user is walked over.
LEMMA TakePlaces ==
  ASSUME Typed, Places, SsrTake
  PROVE  Places' /\ TypedControl' /\ msgQ' \in Queues /\ cardState' \in {"online", "offline"}
<1>1. /\ UNCHANGED <<scenario, handle, downs>> /\ pc["ssr"] = "idle" /\ ret["ssr"] = <<>>
      /\ pc["client"] # "startRegister" /\ msgQ # <<>> /\ downs > 0
  BY DEF SsrTake, Places, SsrPlace, Falling, Rising, AfterStart, AfterStop
<1>2. \/ msgQ \in {<<"offline">>, Both} /\ cardState' = "offline"
         /\ msgQ' \in {<<>>, <<"online">>}
      \/ msgQ = <<"online">> /\ cardState' = "online" /\ msgQ' = <<>>
  BY <1>1, Queued DEF SsrTake, Typed, Queues
<1>3. CASE handle # "open"
  <2>1. UNCHANGED <<pc, ret>>
    BY <1>3 DEF SsrTake
  <2>. QED  BY <1>1, <1>2, <1>3, <2>1, Queued DEF Places, ClientPlace, SsrPlace, MgrPlace, CardUp,
               class, HasDevices, AfterStart, AfterStop, Queues, Typed, TypedControl
<1>4. CASE handle = "open"
  <2>1. Goto("ssr", IF Head(msgQ) = "offline" THEN "down" ELSE "up") /\ cardState' = Head(msgQ)
    BY <1>4 DEF SsrTake
  <2>2. TypedControl' /\ ret' = ret /\ Others("ssr")
        /\ pc'["ssr"] = IF cardState' = "offline" THEN "down" ELSE "up"
    BY <2>1, GoneTo DEF Pcs, Threads
  <2>3. SsrPlace'
    BY <1>1, <1>2, <1>4, <2>2 DEF SsrPlace, CardUp, Falling, Rising, class
  <2>4. ClientPlace' /\ MgrPlace' /\ pc'["client"] = pc["client"]
    BY <1>1, <2>2 DEF Places, ClientPlace, MgrPlace, Others, Threads, class, AfterStart, AfterStop,
       HasDevices
  <2>. QED  BY <1>1, <1>2, <2>2, <2>3, <2>4, Queued DEF Places, CardUp, Queues
<1>. QED  BY <1>3, <1>4

\* The walks down and up.
LEMMA WalkPlaces ==
  ASSUME Typed, Places, HeldBack, Ordinary, SsrStep, ~SsrTake
  PROVE  Places' /\ TypedControl'
<1>0. class \in {"common", "haptics", "incall", "nontunnel", "sensor"} /\ "ssr" \in Threads
  BY ScenariosAssumption DEF Typed, class, Threads
<1>1. Around /\ handle' = handle /\ pc["ssr"] # "idle"
  BY DEF SsrStep, SsrDown, SsrRelock, SsrDownEnd, SsrUp, SsrUpStart, SsrUpStarted, SsrUpEnd, Around
<1>2. scenario' = scenario /\ cardState' = cardState /\ downs' = downs
  BY <1>1 DEF Around, card
<1>3. SsrPlace
  BY DEF Places
<1>4. ASSUME TypedControl', Others("ssr"), SsrPlace'
      PROVE  Places' /\ TypedControl'
  BY <1>0, <1>1, <1>4, Moved
<1>5. CASE SsrDown
  <2>1. pc["ssr"] = "down" /\ ret["ssr"] = <<>> /\ handle = "open" /\ downs > 0 /\ ~CardUp
    BY <1>0, <1>3, <1>5 DEF SsrDown, SsrPlace, Falling, Rising, AfterStart, AfterStop, HasDevices
  <2>2. \/ GoDown("stop", <<"relock", "close", "downEnd">>) /\ class \notin {"incall", "nontunnel"}
        \/ GoDown("stop", <<"close", "downEnd">>) /\ class = "incall"
        \/ GoDown("close", <<"downEnd">>) /\ class # "nontunnel"
        \/ GoDown("downEnd", <<>>)
        \/ class = "nontunnel" /\ Goto("ssr", "downEnd")
    BY <1>0, <1>5 DEF SsrDown, SsrDownCommon, SsrDownHaptics, SsrDownInCall, SsrDownNonTunnel
  <2>3. ASSUME NEW l \in {"stop", "close", "downEnd"}, NEW b \in Backs, GoDown(l, b)
        PROVE  TypedControl' /\ Others("ssr") /\ pc'["ssr"] = l /\ ret'["ssr"] = b
    BY <1>0, <2>3 DEF GoDown, Typed, TypedControl, Others, Pcs
  <2>4. \/ TypedControl' /\ Others("ssr")
           /\ \/ pc'["ssr"] = "stop" /\ ret'["ssr"] = <<"relock", "close", "downEnd">>
                  /\ class \notin {"incall", "nontunnel"}
              \/ pc'["ssr"] = "stop" /\ ret'["ssr"] = <<"close", "downEnd">> /\ class = "incall"
              \/ pc'["ssr"] = "close" /\ ret'["ssr"] = <<"downEnd">> /\ class # "nontunnel"
              \/ pc'["ssr"] = "downEnd" /\ ret'["ssr"] = <<>>
    BY <2>1, <2>2, <2>3, GoneTo DEF Backs, Pcs, Threads
  <2>5. SsrPlace'
    BY <1>1, <1>2, <2>1, <2>4 DEF SsrPlace, Falling, CardUp, class
  <2>. QED  BY <1>4, <2>4, <2>5
<1>6. CASE SsrRelock
  <2>1. pc["ssr"] = "relock" /\ ret["ssr"] = <<"close", "downEnd">> /\ Return("ssr", "")
    BY <1>3, <1>6 DEF SsrRelock, SsrPlace, Falling, Rising, AfterStart, AfterStop
  <2>. QED  BY <1>0, <1>1, <2>1, ReturnPlaces, ReturnedTo
<1>7. CASE SsrDownEnd \/ SsrUpEnd
  <2>1. ret["ssr"] = <<>> /\ Goto("ssr", "idle")
    BY <1>3, <1>7 DEF SsrDownEnd, SsrUpEnd, SsrPlace, Falling, Rising, AfterStart, AfterStop
  <2>2. TypedControl' /\ Others("ssr") /\ pc'["ssr"] = "idle" /\ ret'["ssr"] = <<>>
    BY <2>1, GoneTo DEF Pcs, Threads
  <2>3. SsrPlace'
    BY <2>2 DEF SsrPlace
  <2>. QED  BY <1>4, <2>2, <2>3
<1>8. CASE SsrUp
  <2>1. pc["ssr"] = "up" /\ ret["ssr"] = <<>> /\ handle = "open" /\ downs > 0 /\ CardUp
    BY <1>0, <1>3, <1>8 DEF SsrUp, SsrPlace, Falling, Rising, AfterStart, AfterStop, HasDevices
  <2>2. \/ \E b \in {"upEnd", "upStart"} : Call("ssr", "open", b) /\ class # "nontunnel"
        \/ \E l \in {"upKeep", "upEnd"} : Goto("ssr", l) /\ (class = "nontunnel" => l = "upKeep")
    <3>1. class = "nontunnel" => w.cachedState # "INIT"
      BY DEF HeldBack
    <3>. QED  BY <1>8, <3>1 DEF SsrUp
  <2>3. TypedControl' /\ Others("ssr")
        /\ \/ pc'["ssr"] = "open" /\ ret'["ssr"] \in {<<"upEnd">>, <<"upStart">>}
                /\ class # "nontunnel"
           \/ pc'["ssr"] \in {"upKeep", "upEnd"} /\ ret'["ssr"] = <<>>
                /\ (class = "nontunnel" => pc'["ssr"] = "upKeep")
    <3>1. ASSUME NEW b \in {"upEnd", "upStart"}, Call("ssr", "open", b)
          PROVE  TypedControl' /\ Others("ssr") /\ pc'["ssr"] = "open" /\ ret'["ssr"] = <<b>>
      BY <2>1, <3>1, CalledTo DEF Backs, Pcs, Threads
    <3>2. ASSUME NEW l \in {"upKeep", "upEnd"}, Goto("ssr", l)
          PROVE  TypedControl' /\ Others("ssr") /\ pc'["ssr"] = l /\ ret'["ssr"] = <<>>
      BY <2>1, <3>2, GoneTo DEF Backs, Pcs, Threads
    <3>. QED  BY <2>2, <3>1, <3>2
  <2>4. SsrPlace'
    BY <1>1, <1>2, <2>1, <2>3 DEF SsrPlace, Rising, CardUp, class
  <2>. QED  BY <1>4, <2>3, <2>4
<1>9. CASE SsrUpStart
  <2>1. /\ pc["ssr"] = "upStart" /\ ret["ssr"] = <<>> /\ handle = "open" /\ downs > 0 /\ CardUp
        /\ class # "nontunnel" /\ Call("ssr", "start", "upStarted")
    BY <1>0, <1>3, <1>9 DEF SsrUpStart, SsrPlace, Falling, Rising, AfterStart, AfterStop, HasDevices
  <2>2. TypedControl' /\ Others("ssr") /\ pc'["ssr"] = "start" /\ ret'["ssr"] = <<"upStarted">>
    BY <2>1, CalledTo DEF Backs, Pcs, Threads
  <2>3. SsrPlace'
    BY <1>1, <1>2, <2>1, <2>2 DEF SsrPlace, Rising, CardUp, class
  <2>. QED  BY <1>4, <2>2, <2>3
<1>10. CASE SsrUpStarted
  <2>1. /\ pc["ssr"] = "upStarted" /\ ret["ssr"] = <<>> /\ handle = "open" /\ downs > 0 /\ CardUp
        /\ class # "nontunnel"
    BY <1>0, <1>3, <1>10 DEF SsrUpStarted, SsrPlace, Falling, Rising, AfterStart, AfterStop,
       HasDevices
  <2>2. \/ \E l \in {"upKeep", "upEnd"} : Goto("ssr", l)
        \/ class = "incall" /\ Call("ssr", "pause", "upEnd")
    BY <1>0, <1>10, <2>1 DEF SsrUpStarted, SsrUpCommon, SsrUpHaptics, SsrUpInCall
  <2>3. TypedControl' /\ Others("ssr")
        /\ \/ pc'["ssr"] \in {"upKeep", "upEnd"} /\ ret'["ssr"] = <<>>
           \/ pc'["ssr"] = "pause" /\ ret'["ssr"] = <<"upEnd">> /\ class = "incall"
    <3>1. ASSUME NEW l \in {"upKeep", "upEnd"}, Goto("ssr", l)
          PROVE  TypedControl' /\ Others("ssr") /\ pc'["ssr"] = l /\ ret'["ssr"] = <<>>
      BY <2>1, <3>1, GoneTo DEF Backs, Pcs, Threads
    <3>2. ASSUME Call("ssr", "pause", "upEnd")
          PROVE  TypedControl' /\ Others("ssr") /\ pc'["ssr"] = "pause" /\ ret'["ssr"] = <<"upEnd">>
      BY <2>1, <3>2, CalledTo DEF Backs, Pcs, Threads
    <3>. QED  BY <2>2, <3>1, <3>2
  <2>4. SsrPlace'
    BY <1>1, <1>2, <2>1, <2>3 DEF SsrPlace, Rising, CardUp, class
  <2>. QED  BY <1>4, <2>3, <2>4
<1>. QED  BY <1>5, <1>6, <1>7, <1>8, <1>9, <1>10 DEF SsrStep

\* The manager's calls to a sensor stream.
LEMMA MgrPlaces ==
  ASSUME Typed, Places, Ordinary, MgrEnds \/ MgrPause \/ MgrResume \/ MgrSwitch \/ MgrProfile
  PROVE  Places' /\ TypedControl'
<1>1. Around /\ handle' = handle /\ "mgr" \in Threads
  BY DEF MgrEnds, MgrPaused, MgrEnd, MgrConnect, MgrPause, MgrResume, MgrSwitch, MgrProfile,
         mgrOnly, Around, Threads
<1>2. scenario' = scenario /\ cardState' = cardState /\ downs' = downs /\ msgQ' = msgQ
  BY <1>1 DEF Around, card
<1>3. MgrPlace
  BY DEF Places
<1>4. CASE MgrEnds
  <2>1. /\ pc["mgr"] \in {"paused", "mgrEnd", "connect", "connectSame"}
        /\ \E l \in {"mgrEnd", "idle"} : Goto("mgr", l)
    BY <1>4 DEF MgrEnds, MgrPaused, MgrEnd, MgrConnect
  <2>2. ret["mgr"] = <<>> /\ handle = "open" /\ class = "sensor"
    BY <1>3, <2>1 DEF MgrPlace
  <2>3. TypedControl' /\ Others("mgr") /\ pc'["mgr"] \in {"mgrEnd", "idle"} /\ ret'["mgr"] = <<>>
    BY <1>1, <2>1, <2>2, GoneTo DEF Pcs
  <2>4. MgrPlace'
    BY <1>1, <1>2, <2>2, <2>3 DEF MgrPlace, class
  <2>. QED  BY <1>1, <2>1, <2>3, <2>4, Moved
<1>5. CASE MgrPause \/ MgrResume \/ MgrSwitch \/ MgrProfile
  <2>1. pc["mgr"] = "idle" /\ ret["mgr"] = <<>> /\ class = "sensor"
        /\ (handle = "none" \/ handle = "open")
    BY <1>3, <1>5 DEF MgrPause, MgrResume, MgrSwitch, MgrProfile, MgrMay, MgrPlace, Ordinary
  <2>2. \/ UNCHANGED <<pc, ret>>
        \/ handle = "open" /\ Call("mgr", "stop", "paused")
        \/ handle = "open" /\ Call("mgr", "start", "mgrEnd")
        \/ handle = "open" /\ \E l \in {"connect", "connectSame"} : Goto("mgr", l)
    BY <1>5, <2>1 DEF MgrPause, MgrResume, MgrSwitch, MgrProfile, SensorPause, SensorResume,
       SensorDisconnect
  <2>3. CASE UNCHANGED <<pc, ret>>
    BY <1>1, <1>2, <2>3 DEF Places, ClientPlace, SsrPlace, MgrPlace, Falling, Rising, AfterStart,
       AfterStop, CardUp, class, HasDevices, Typed, TypedControl
  <2>4. CASE handle = "open" /\ ~UNCHANGED <<pc, ret>>
    <3>1. /\ TypedControl' /\ Others("mgr")
          /\ \/ pc'["mgr"] = "stop" /\ ret'["mgr"] = <<"paused">>
             \/ pc'["mgr"] = "start" /\ ret'["mgr"] = <<"mgrEnd">>
             \/ pc'["mgr"] \in {"connect", "connectSame"} /\ ret'["mgr"] = <<>>
      <4>1. ASSUME Call("mgr", "stop", "paused")
            PROVE  /\ TypedControl' /\ Others("mgr") /\ pc'["mgr"] = "stop"
                   /\ ret'["mgr"] = <<"paused">>
        BY <1>1, <2>1, <4>1, CalledTo DEF Pcs, Backs
      <4>2. ASSUME Call("mgr", "start", "mgrEnd")
            PROVE  /\ TypedControl' /\ Others("mgr") /\ pc'["mgr"] = "start"
                   /\ ret'["mgr"] = <<"mgrEnd">>
        BY <1>1, <2>1, <4>2, CalledTo DEF Pcs, Backs
      <4>3. ASSUME NEW l \in {"connect", "connectSame"}, Goto("mgr", l)
            PROVE  TypedControl' /\ Others("mgr") /\ pc'["mgr"] = l /\ ret'["mgr"] = <<>>
        BY <1>1, <2>1, <4>3, GoneTo DEF Pcs
      <4>. QED  BY <2>2, <2>4, <4>1, <4>2, <4>3
    <3>2. MgrPlace'
      BY <1>1, <1>2, <2>1, <2>4, <3>1 DEF MgrPlace, class
    <3>3. ClientPlace' /\ SsrPlace' /\ pc'["client"] = pc["client"] /\ pc'["ssr"] = pc["ssr"]
      BY <1>1, <1>2, <3>1 DEF Places, ClientPlace, SsrPlace, Falling, Rising, AfterStart, AfterStop,
         Others, Threads, CardUp, class, HasDevices
    <3>. QED  BY <1>2, <3>1, <3>2, <3>3 DEF Places, CardUp
  <2>. QED  BY <2>2, <2>3, <2>4 DEF MgrPause, MgrResume, MgrSwitch, MgrProfile
<1>. QED  BY <1>4, <1>5

\* The card as the manager and recovery know it.
TypedCard == /\ scenario \in Scenarios /\ cardState \in {"online", "offline"} /\ msgQ \in Queues
             /\ downs \in Nat

\* Whatever step is taken, every thread is at a place of its own, and what recovery
\* has yet to hear is a loss, a return or both.
LEMMA StepPlaces ==
  ASSUME Typed, Places, HeldBack, Ordinary, Next
  PROVE  Places' /\ TypedControl' /\ TypedCard'
<1>1. ASSUME NEW t \in Threads, StreamStep(t)
      PROVE  Places' /\ TypedControl' /\ TypedCard'
  <2>1. Around
    BY <1>1 DEF StreamStep, Open, Start, StartRegister, StartUnlock, Stop, StopRun, Suspend,
       PauseStream, ResumeStream, Close, CloseRun, outside, Around
  <2>. QED  BY <1>1, <2>1, StreamStepPlaces, OpenPlaces DEF Typed, TypedCard, Around, card
<1>2. CASE SsrStep
  <2>1. CASE SsrTake
    BY <2>1, TakePlaces DEF SsrTake, Typed, TypedCard
  <2>2. CASE ~SsrTake
    <3>1. Around
      BY <1>2, <2>2 DEF SsrStep, SsrDown, SsrRelock, SsrDownEnd, SsrUp, SsrUpStart, SsrUpStarted,
         SsrUpEnd, Around
    <3>. QED  BY <1>2, <2>2, <3>1, WalkPlaces DEF Typed, TypedCard, Around, card
  <2>. QED  BY <2>1, <2>2
<1>3. CASE ClientStep
  <2>1. Around
    BY <1>3 DEF ClientStep, ClientOpen, ClientClose, ClientDelete, ClientCall, clientOnly, Around
  <2>. QED  BY <1>3, <2>1, ClientPlaces DEF Typed, TypedCard, Around, card
<1>4. CASE LoseCard \/ CardBack
  BY <1>4, CardPlaces DEF Typed, TypedCard, LoseCard, CardBack
<1>5. CASE MgrEnds \/ MgrPause \/ MgrResume \/ MgrSwitch \/ MgrProfile
  <2>1. Around
    BY <1>5 DEF MgrEnds, MgrPaused, MgrEnd, MgrConnect, MgrPause, MgrResume, MgrSwitch, MgrProfile,
       mgrOnly, Around
  <2>. QED  BY <1>5, <2>1, MgrPlaces DEF Typed, TypedCard, Around, card
<1>. QED  BY <1>1, <1>2, <1>3, <1>4, <1>5 DEF Next

-----------------------------------------------------------------------------
(* Types.                                                                  *)

\* The part of the state that the handlers of the stream change.
TypedStream ==
  /\ w \in StreamType /\ dev \in UseType /\ votes \in Nat
  /\ handle \in {"none", "opening", "open", "closing"} /\ disableCount \in 0..2
  /\ mStreamMutex \in Threads \cup {None} /\ mActiveStreamMutex \in Threads \cup {None}

\* What a handler makes of the devices of its stream are counters again.
LEMMA DevTyped ==
  ASSUME NEW u \in UseType, NEW D, NEW E
  PROVE  /\ Opened(u, D) \in UseType /\ Started(u, D) \in UseType
         /\ Closed(u, D) \in UseType /\ Stopped(u, D) \in UseType
         /\ Stopped(Started(u, D), E) \in UseType /\ Closed(Started(u, D), E) \in UseType
         /\ Stopped(Closed(Started(u, D), E), D) \in UseType
         /\ Closed(Stopped(u, D), E) \in UseType /\ Started(Opened(u, D), E) \in UseType
<1>1. /\ Opened(u, D) \in UseType /\ Started(u, D) \in UseType
      /\ Closed(u, D) \in UseType /\ Stopped(u, D) \in UseType
  BY OpenedStartedTyped, ClosedStoppedTyped
<1>2. Closed(Started(u, D), E) \in UseType
  BY <1>1, ClosedStoppedTyped
<1>. QED  BY <1>1, <1>2, OpenedStartedTyped, ClosedStoppedTyped

\* A new stream of any class.
LEMMA NewStreamTyped ==
  ASSUME scenario \in Scenarios, disableCount \in 0..2
  PROVE  /\ NewStream \in StreamType /\ NewStream.currentState = "IDLE"
         /\ NewStream.cachedState = "IDLE" /\ NewStream.session = "none"
         /\ NewStream.paused_ <=> (class = "sensor" /\ disableCount > 0)
         /\ NewStream.ssrInNTMode = FALSE /\ NewStream.registered = {}
         /\ NewStream.mDevices = IF HasDevices THEN Devices ELSE {}
<1>1. class \in {"common", "haptics", "incall", "nontunnel", "sensor"}
  BY ScenariosAssumption DEF class
<1>2. /\ NewCommon \in StreamType /\ NewInCall \in StreamType /\ NewNonTunnel \in StreamType
      /\ NewSensor \in StreamType
  <2>1. NewCommon \in StreamType
    BY DEF NewCommon, StreamType, State
  <2>2. NewInCall \in StreamType /\ NewNonTunnel \in StreamType
    BY <2>1 DEF NewInCall, NewNonTunnel, StreamType
  <2>3. (disableCount > 0) \in BOOLEAN
    OBVIOUS
  <2>4. ASSUME NEW b \in BOOLEAN
        PROVE  [NewCommon EXCEPT !.mDevices = {}, !.paused_ = b] \in StreamType
    BY <2>1 DEF StreamType
  <2>5. NewSensor \in StreamType
    BY <2>3, <2>4 DEF NewSensor
  <2>. QED  BY <2>1, <2>2, <2>5
<1>3. NewStream = CASE HasDevices -> NewCommon [] class = "incall" -> NewInCall
                    [] class = "nontunnel" -> NewNonTunnel [] class = "sensor" -> NewSensor
  BY DEF NewStream
<1>4. CASE HasDevices
  BY <1>1, <1>2, <1>3, <1>4 DEF HasDevices, NewCommon
<1>5. CASE class = "incall"
  BY <1>1, <1>2, <1>3, <1>5 DEF HasDevices, NewCommon, NewInCall
<1>6. CASE class = "nontunnel"
  BY <1>1, <1>2, <1>3, <1>6 DEF HasDevices, NewCommon, NewNonTunnel
<1>7. CASE class = "sensor"
  <2>1. NewStream = NewSensor /\ ~HasDevices
    BY <1>3, <1>7 DEF HasDevices
  <2>2. CASE disableCount > 0
    <3>1. NewSensor = [NewCommon EXCEPT !.mDevices = {}, !.paused_ = TRUE]
      BY <2>2 DEF NewSensor
    <3>. QED  BY <1>2, <1>7, <2>1, <2>2, <3>1 DEF NewCommon
  <2>3. CASE ~(disableCount > 0)
    <3>0. (disableCount > 0) = FALSE
      BY <2>3
    <3>1. NewSensor = [NewCommon EXCEPT !.mDevices = {}, !.paused_ = FALSE]
      BY <3>0, Zenon DEF NewSensor
    <3>. QED  BY <1>2, <1>7, <2>1, <2>3, <3>1 DEF NewCommon
  <2>. QED  BY <2>2, <2>3
<1>. QED  BY <1>1, <1>4, <1>5, <1>6, <1>7 DEF HasDevices

\* What start makes of a stream and its devices.
LEMMA StartTyped ==
  ASSUME Typed, NEW t \in Threads, Start(t)
  PROVE  TypedStream'
<1>0. class \in {"common", "haptics", "incall", "nontunnel", "sensor"}
  BY ScenariosAssumption DEF Typed, class
<1>1. w \in StreamType /\ dev \in UseType /\ votes \in Nat
  BY DEF Typed
<1>2. votes' \in Nat
  BY <1>1 DEF Start, AgmStarted
<1>3. /\ UNCHANGED <<handle, disableCount, mStreamMutex, mActiveStreamMutex>>
  BY DEF Start, outside, locks
<1>4. w' \in StreamType /\ dev' \in UseType
  <2>1. CASE Same
    BY <1>1, <2>1 DEF Same
  <2>2. CASE Leaves([w EXCEPT !.cachedState = "STARTED"], dev)
    BY <1>1, <2>2 DEF Leaves, StreamType, State
  <2>3. CASE class = "common" /\ StartCommon(t)
    <3>1. PICK bad \in SUBSET w.mDevices, f \in {"none", "lastDevice", "sessionStart"} :
            LET good == w.mDevices \ bad
                dv == Started(dev, good)
            IN CASE f = "lastDevice" -> Leaves(w, dv)
                 [] f = "sessionStart" -> Leaves(w, Stopped(dv, w.mDevices))
                 [] OTHER ->
                      Leaves([w EXCEPT !.session = "started", !.currentState = "STARTED"], dv)
      BY <2>3 DEF StartCommon
    <3>2. w' = w \/ w' = [w EXCEPT !.session = "started", !.currentState = "STARTED"]
      BY <3>1 DEF Leaves
    <3>3. dev' = Started(dev, w.mDevices \ bad)
          \/ dev' = Stopped(Started(dev, w.mDevices \ bad), w.mDevices)
      BY <3>1 DEF Leaves
    <3>4. dev' \in UseType
      BY <1>1, <3>3, DevTyped
    <3>. QED  BY <1>1, <3>2, <3>4 DEF StreamType, State
  <2>4. CASE class = "haptics" /\ StartHaptics(t)
    <3>1. PICK bad \in SUBSET w.mDevices, f \in {"none", "sessionStart"} :
            LET good == w.mDevices \ bad
                dv == Closed(Started(dev, good), bad)
                x == [w EXCEPT !.mDevices = good]
            IN IF good = {} THEN Leaves(x, dv)
               ELSE IF f = "sessionStart"
                 THEN Leaves([x EXCEPT !.registered = @ \ good], Stopped(dv, good))
                 ELSE Leaves([x EXCEPT !.session = "started", !.currentState = "STARTED",
                                     !.registered = good], dv)
      BY <2>4 DEF StartHaptics
    <3>. DEFINE good == w.mDevices \ bad
                dv == Closed(Started(dev, good), bad)
    <3>2. good \subseteq Devices /\ w.registered \ good \subseteq Devices
      BY <1>1 DEF StreamType
    <3>3. \/ w' = [w EXCEPT !.mDevices = good]
          \/ w' = [[w EXCEPT !.mDevices = good] EXCEPT !.registered = @ \ good]
          \/ w' = [[w EXCEPT !.mDevices = good] EXCEPT !.session = "started",
                     !.currentState = "STARTED", !.registered = good]
      BY <3>1 DEF Leaves
    <3>4. dev' = dv \/ dev' = Stopped(dv, good)
      BY <3>1 DEF Leaves
    <3>5. dev' \in UseType
      BY <1>1, <3>4, DevTyped
    <3>6. w' \in StreamType
      <4>. HIDE DEF good
      <4>. QED  BY <1>1, <3>2, <3>3 DEF StreamType, State
    <3>. QED  BY <3>5, <3>6
  <2>5. CASE class = "sensor" /\ StartSensor(t)
    <3>1. PICK f \in {"none", "deviceOpen", "sessionOpen", "deviceStart", "sessionStart"} :
            LET fresh == w.currentState # "PAUSED"
                x == IF fresh THEN [w EXCEPT !.mDevices = Devices] ELSE w
                y == IF fresh THEN [x EXCEPT !.session = "open"] ELSE x
            IN CASE f = "deviceOpen" -> Same
                 [] f = "sessionOpen" -> Leaves(x, Opened(dev, Devices))
                 [] f \in {"deviceStart", "sessionStart"} -> Leaves(y, dev)
                 [] f = "none" ->
                      Leaves([y EXCEPT !.session = "started", !.currentState = "STARTED",
                                     !.registered = Devices],
                             Started(Opened(dev, Devices), Devices))
      BY <2>5 DEF StartSensor
    <3>. DEFINE x == IF w.currentState # "PAUSED" THEN [w EXCEPT !.mDevices = Devices] ELSE w
                y == IF w.currentState # "PAUSED" THEN [x EXCEPT !.session = "open"] ELSE x
    <3>2. x \in StreamType /\ y \in StreamType
      BY <1>1 DEF StreamType
    <3>3. \/ w' \in {w, x, y}
          \/ w' = [y EXCEPT !.session = "started", !.currentState = "STARTED",
                           !.registered = Devices]
      BY <3>1 DEF Leaves, Same
    <3>4. dev' \in {dev, Opened(dev, Devices), Started(Opened(dev, Devices), Devices)}
      BY <3>1 DEF Leaves, Same
    <3>5. dev' \in UseType
      BY <1>1, <3>4, DevTyped
    <3>6. w' \in StreamType
      <4>. HIDE DEF x, y
      <4>. QED  BY <1>1, <3>2, <3>3 DEF StreamType, State
    <3>. QED  BY <3>5, <3>6
  <2>6. CASE Leaves(Running, dev)
    BY <1>1, <2>6 DEF Leaves, Running, StreamType, State
  <2>. QED  BY <1>0, <2>1, <2>2, <2>3, <2>4, <2>5, <2>6 DEF Start, StartInCall, StartNonTunnel
<1>. QED  BY <1>2, <1>3, <1>4 DEF TypedStream, Typed

\* What open makes of a stream and its devices.
LEMMA OpenTyped ==
  ASSUME Typed, NEW t \in Threads, Open(t)
  PROVE  /\ TypedStream'
         /\ \/ w' = w
            \/ /\ CardUp /\ w.currentState = "IDLE"
               /\ (w' = Inited \/ w' = [w EXCEPT !.currentState = "INIT"])
         /\ dev' = dev \/ (HasDevices /\ w' = Inited /\ dev' = Opened(dev, w.mDevices))
<1>0. class \in {"common", "haptics", "incall", "nontunnel", "sensor"}
  BY ScenariosAssumption DEF Typed, class
<1>1. w \in StreamType /\ dev \in UseType
  BY DEF Typed
<1>2. UNCHANGED <<votes, disableCount, mStreamMutex, mActiveStreamMutex>>
      /\ handle' \in {handle, "open", "closing"}
  BY DEF Open, locks, Opens, OpenFails
<1>3. PICK o \in IF ~CardUp \/ w.currentState \notin {"IDLE", "INIT"} THEN {Outcome(FALSE, w, dev)}
              ELSE IF w.currentState = "INIT" THEN {Outcome(TRUE, w, dev)} ELSE OpenIdle :
         Leaves(o.w, o.dev)
  BY DEF Open
<1>4. CASE o \in {Outcome(FALSE, w, dev), Outcome(TRUE, w, dev)}
  <2>1. w' = w /\ dev' = dev
    BY <1>3, <1>4 DEF Outcome, Leaves
  <2>. QED  BY <1>1, <1>2, <2>1 DEF Typed, TypedStream
<1>5. CASE CardUp /\ w.currentState = "IDLE" /\ o \in OpenIdle
  <2>1. \/ o = Outcome(TRUE, Inited, Opened(dev, w.mDevices)) /\ HasDevices
        \/ \E b \in BOOLEAN : o = Outcome(b, w, dev)
        \/ \E b \in BOOLEAN : o = Outcome(b, Inited, dev)
        \/ o = Outcome(TRUE, [w EXCEPT !.currentState = "INIT"], dev)
    BY <1>0, <1>5 DEF OpenIdle, OpenCommon, OpenInCall, OpenNonTunnel, OpenSensor, AgmOpen,
       HasDevices
  <2>2. \/ w' = Inited /\ dev' = Opened(dev, w.mDevices) /\ HasDevices
        \/ w' = w /\ dev' = dev
        \/ w' = Inited /\ dev' = dev
        \/ w' = [w EXCEPT !.currentState = "INIT"] /\ dev' = dev
    BY <1>3, <2>1 DEF Outcome, Leaves
  <2>3. w' \in StreamType
    BY <1>1, <2>2 DEF Inited, StreamType, State
  <2>4. dev' \in UseType
    BY <1>1, <2>2, DevTyped
  <2>. QED  BY <1>2, <1>5, <2>2, <2>3, <2>4 DEF Typed, TypedStream
<1>. QED  BY <1>1, <1>3, <1>4, <1>5 DEF Typed, StreamType

\* What the other handlers of the stream make of it.
LEMMA HandlersTyped ==
  ASSUME Typed, NEW t \in Threads, StreamStep(t), ~Open(t), ~Start(t)
  PROVE  TypedStream' /\ handle' = handle /\ disableCount' = disableCount
<1>0. class \in {"common", "haptics", "incall", "nontunnel", "sensor"}
  BY ScenariosAssumption DEF Typed, class
<1>1. w \in StreamType /\ dev \in UseType /\ votes \in Nat
  BY DEF Typed
<1>2. /\ Ended \in StreamType
      /\ [w EXCEPT !.registered = w.mDevices] \in StreamType
      /\ [Ended EXCEPT !.registered = @ \ w.mDevices] \in StreamType
  BY <1>1 DEF Ended, StreamType, State
<1>3. /\ \A s \in State : [w EXCEPT !.currentState = s] \in StreamType
                       /\ [w EXCEPT !.cachedState = s] \in StreamType
      /\ [w EXCEPT !.currentState = "SUSPENDED", !.session = "open"] \in StreamType
      /\ [w EXCEPT !.session = "none", !.currentState = "IDLE"] \in StreamType
  BY <1>1 DEF StreamType, State
<1>4. AgmUnvoted \in Nat
  BY <1>1 DEF AgmUnvoted
<1>5. CASE StartRegister(t)
  BY <1>1, <1>2, <1>5 DEF StartRegister, Leaves, outside, locks, Typed, TypedStream
<1>6. CASE StartUnlock(t)
  BY <1>1, <1>6 DEF StartUnlock, Typed, TypedStream
<1>7. CASE Stop(t)
  <2>1. \/ Same \/ Leaves(Ended, dev)
        \/ Leaves([Ended EXCEPT !.registered = @ \ w.mDevices],
                  Closed(Stopped(dev, w.mDevices), w.mDevices))
    BY <1>0, <1>7 DEF Stop, StopSensor, StopInCall, StopNonTunnel, HasDevices
  <2>2. votes' \in Nat
    BY <1>1, <1>4, <1>7 DEF Stop
  <2>3. w' \in StreamType
    BY <1>1, <1>2, <2>1 DEF Same, Leaves
  <2>4. dev' \in UseType
    BY <1>1, <2>1, DevTyped DEF Same, Leaves
  <2>. QED  BY <1>7, <2>2, <2>3, <2>4 DEF Stop, outside, locks, Typed, TypedStream
<1>8. CASE StopRun(t)
  <2>1. w' \in StreamType /\ dev' \in UseType
    BY <1>1, <1>2, <1>8, DevTyped DEF StopRun, Leaves
  <2>. QED  BY <1>8, <2>1 DEF StopRun, outside, locks, Typed, TypedStream
<1>9. CASE Suspend(t)
  <2>1. w' \in StreamType /\ dev' \in UseType /\ votes' \in Nat
    BY <1>1, <1>3, <1>4, <1>9 DEF Suspend, Leaves, Same
  <2>. QED  BY <1>9, <2>1 DEF Suspend, outside, locks, Typed, TypedStream
<1>10. CASE PauseStream(t) \/ ResumeStream(t)
  <2>1. w' \in StreamType /\ dev' \in UseType
    BY <1>1, <1>3, <1>10 DEF PauseStream, ResumeStream, Leaves, State
  <2>. QED  BY <1>1, <1>10, <2>1 DEF PauseStream, ResumeStream, outside, locks, Typed, TypedStream
<1>11. ASSUME IsClosed(t)
       PROVE  w' \in StreamType /\ dev' \in UseType
  <2>1. Leaves([w EXCEPT !.session = "none", !.currentState = "IDLE"], dev)
        \/ Leaves([w EXCEPT !.session = "none", !.currentState = "IDLE"], Closed(dev, w.mDevices))
    BY <1>0, <1>11 DEF IsClosed, CloseCommon, CloseInCall, CloseSensor, HasDevices
  <2>. QED  BY <1>1, <1>3, <2>1, DevTyped DEF Leaves
<1>12. CASE Close(t)
  <2>1. w' \in StreamType /\ dev' \in UseType /\ mStreamMutex' \in {mStreamMutex, t}
    BY <1>0, <1>1, <1>11, <1>12 DEF Close, CloseNonTunnel, Same
  <2>. QED  BY <1>1, <1>12, <2>1 DEF Close, Typed, TypedStream
<1>13. CASE CloseRun(t)
  BY <1>1, <1>11, <1>13 DEF CloseRun, outside, locks, Typed, TypedStream
<1>. QED  BY <1>5, <1>6, <1>7, <1>8, <1>9, <1>10, <1>12, <1>13 DEF StreamStep

\* The client's calls.
LEMMA ClientTyped ==
  ASSUME Typed, ClientStep
  PROVE  TypedStream'
<1>1. w \in StreamType /\ dev \in UseType /\ votes \in Nat
  BY DEF Typed
<1>2. /\ [w EXCEPT !.cachedState = "STOPPED"] \in StreamType
      /\ [w EXCEPT !.cachedState = "IDLE"] \in StreamType
  BY <1>1 DEF StreamType, State
<1>3. w' \in StreamType
  BY <1>1, <1>2, NewStreamTyped DEF ClientStep, ClientOpen, ClientClose, ClientDelete, ClientCall,
     Typed
<1>4. UNCHANGED <<dev, votes, disableCount, mStreamMutex, mActiveStreamMutex>>
      /\ handle' \in {"none", "opening", "open", "closing"}
  BY DEF ClientStep, ClientOpen, ClientClose, ClientDelete, ClientCall, clientOnly, locks, Typed
<1>. QED  BY <1>1, <1>3, <1>4 DEF Typed, TypedStream

\* The loss and the return of the card, and recovery.
LEMMA SsrTyped ==
  ASSUME Typed, SsrStep \/ LoseCard \/ CardBack
  PROVE  TypedStream' /\ handle' = handle /\ disableCount' = disableCount /\ dev' = dev
<1>1. w \in StreamType /\ dev \in UseType /\ votes \in Nat /\ AgmUnvoted \in Nat
  BY DEF Typed, AgmUnvoted
<1>2. /\ \A s \in State : [w EXCEPT !.currentState = s] \in StreamType
                       /\ [w EXCEPT !.cachedState = s] \in StreamType
      /\ [w EXCEPT !.ssrInNTMode = TRUE] \in StreamType
      /\ [w EXCEPT !.cachedState = IF @ = "IDLE" THEN w.currentState ELSE @] \in StreamType
  BY <1>1 DEF StreamType, State
<1>3. CASE LoseCard \/ CardBack \/ SsrTake \/ SsrRelock \/ SsrUp \/ SsrUpStart \/ SsrUpStarted
  BY <1>1, <1>3 DEF LoseCard, CardBack, SsrTake, SsrRelock, SsrUp, SsrUpStart, SsrUpStarted, locks,
     Typed, TypedStream, Threads
<1>4. CASE SsrDown
  <2>0. class \in {"common", "haptics", "incall", "nontunnel", "sensor"}
    BY ScenariosAssumption DEF Typed, class
  <2>4. SsrDownCommon \/ SsrDownInCall \/ SsrDownNonTunnel
    BY <2>0, <1>4 DEF SsrDown, SsrDownHaptics
  <2>1. \/ NoteState /\ votes' = votes
        \/ w' = [w EXCEPT !.ssrInNTMode = TRUE] /\ votes' = AgmUnvoted
    BY <2>4 DEF SsrDownCommon, SsrDownInCall, SsrDownNonTunnel
  <2>2. mActiveStreamMutex' \in {None, mActiveStreamMutex}
    BY <2>4 DEF SsrDownCommon, SsrDownInCall, SsrDownNonTunnel
  <2>3. w' \in StreamType /\ votes' \in Nat
    BY <1>1, <1>2, <2>1 DEF NoteState
  <2>. QED  BY <1>4, <2>2, <2>3 DEF SsrDown, Typed, TypedStream
<1>5. CASE SsrDownEnd \/ SsrUpEnd
  <2>1. w' \in StreamType /\ mActiveStreamMutex' = None
    BY <1>1, <1>2, <1>5 DEF SsrDownEnd, SsrUpEnd, State
  <2>. QED  BY <1>5, <2>1 DEF SsrDownEnd, SsrUpEnd, Typed, TypedStream
<1>. QED  BY <1>3, <1>4, <1>5 DEF SsrStep

\* The manager.
LEMMA MgrTyped ==
  ASSUME Typed, MgrEnds \/ MgrPause \/ MgrResume \/ MgrSwitch \/ MgrProfile
  PROVE  TypedStream' /\ handle' = handle
<1>1. w \in StreamType /\ dev \in UseType /\ votes \in Nat
  BY DEF Typed
<1>2. /\ [w EXCEPT !.currentState = "PAUSED"] \in StreamType
      /\ [w EXCEPT !.paused_ = TRUE] \in StreamType /\ [w EXCEPT !.paused_ = FALSE] \in StreamType
      /\ [w EXCEPT !.registered = @ \ w.mDevices, !.mDevices = {}] \in StreamType
      /\ [w EXCEPT !.registered = @ \cup Devices, !.mDevices = Devices] \in StreamType
      /\ [w EXCEPT !.mDevices = Devices] \in StreamType
  BY <1>1 DEF StreamType, State
<1>3. w' \in StreamType
  BY <1>1, <1>2 DEF MgrEnds, MgrPaused, MgrEnd, MgrConnect, SensorConnect, MgrPause, SensorPause,
     MgrResume, SensorResume, MgrSwitch, MgrProfile, SensorDisconnect, Leaves, Same
<1>4. dev' \in UseType
  BY <1>1, DevTyped DEF MgrEnds, MgrPaused, MgrEnd, MgrConnect, SensorConnect, MgrPause,
     MgrResume, MgrSwitch, MgrProfile, SensorDisconnect, Leaves, Same, mgrOnly
<1>5. UNCHANGED <<handle, votes>>
  BY DEF MgrEnds, MgrPaused, MgrEnd, MgrConnect, MgrPause, MgrResume, MgrSwitch, MgrProfile, mgrOnly
<1>6. disableCount' \in 0..2
  BY DEF MgrEnds, MgrPaused, MgrEnd, MgrConnect, MgrPause, MgrResume, MgrSwitch, MgrProfile, Typed
<1>7. mStreamMutex' \in Threads \cup {None} /\ mActiveStreamMutex' \in Threads \cup {None}
  BY DEF MgrEnds, MgrPaused, MgrEnd, MgrConnect, MgrPause, MgrResume, MgrSwitch, MgrProfile,
     mgrOnly, Typed, Threads
<1>. QED  BY <1>1, <1>3, <1>4, <1>5, <1>6, <1>7 DEF Typed, TypedStream

-----------------------------------------------------------------------------
(* What a step makes of the state of the stream.                           *)

\* start makes a stream STARTED only with the card up and only if it is not held back;
\* with the card down it notes what recovery is to do.
LEMMA StartEffect ==
  ASSUME Typed, NEW t \in Threads, Start(t)
  PROVE  /\ w'.paused_ = w.paused_ /\ w'.ssrInNTMode = w.ssrInNTMode
         /\ \/ w'.currentState = w.currentState
            \/ w'.currentState = "STARTED" /\ CardUp /\ ~w.paused_
         /\ \/ w'.cachedState = w.cachedState
            \/ w' = [w EXCEPT !.cachedState = "STARTED"] /\ ~CardUp /\ class # "nontunnel"
                 /\ ~w.paused_
<1>0. class \in {"common", "haptics", "incall", "nontunnel", "sensor"}
  BY ScenariosAssumption DEF Typed, class
<1>1. w \in StreamType
  BY DEF Typed
<1>2. CASE Same
  BY <1>2 DEF Same
<1>3. CASE Leaves([w EXCEPT !.cachedState = "STARTED"], dev) /\ ~CardUp /\ class # "nontunnel"
           /\ ~w.paused_
  BY <1>1, <1>3 DEF Leaves, StreamType
<1>4. CASE CardUp /\ ~w.paused_ /\ w.currentState # "STARTED" /\ w.currentState \in Startable
  <2>1. CASE StartCommon(t)
    BY <1>1, <1>4, <2>1 DEF StartCommon, Leaves, StreamType
  <2>2. CASE StartHaptics(t)
    BY <1>1, <1>4, <2>2 DEF StartHaptics, Leaves, StreamType
  <2>3. CASE StartSensor(t)
    BY <1>1, <1>4, <2>3 DEF StartSensor, Leaves, Same, StreamType
  <2>4. CASE StartInCall(t) \/ StartNonTunnel(t)
    BY <1>1, <1>4, <2>4 DEF StartInCall, StartNonTunnel, Leaves, Same, Running, StreamType
  <2>. QED  BY <1>0, <1>2, <1>4, <2>1, <2>2, <2>3, <2>4 DEF Start
<1>. QED  BY <1>0, <1>2, <1>3, <1>4 DEF Start

\* The handlers leave the pause to the manager, and a stream is started by start and,
\* with the card up, by resume.
LEMMA HandlersEffect ==
  ASSUME Typed, NEW t \in Threads, StreamStep(t), ~Start(t)
  PROVE  /\ w'.paused_ = w.paused_ /\ w'.ssrInNTMode = w.ssrInNTMode
         /\ w'.currentState = "STARTED" =>
              w.currentState = "STARTED" \/ (CardUp /\ ResumeStream(t))
         /\ w'.currentState = "PAUSED" =>
              w.currentState = "PAUSED" \/ (CardUp /\ PauseStream(t))
         /\ w'.cachedState = w.cachedState \/ PauseStream(t) \/ ResumeStream(t)
         /\ Stop(t) /\ ~HasDevices => w'.currentState \notin Stoppable
         /\ StopRun(t) => w'.currentState = "STOPPED"
         /\ Close(t) => w'.currentState = "IDLE" \/ (w' = w /\ w.currentState \in Stoppable)
         /\ CloseRun(t) => w'.currentState = "IDLE"
<1>0. class \in {"common", "haptics", "incall", "nontunnel", "sensor"}
  BY ScenariosAssumption DEF Typed, class
<1>1. w \in StreamType
  BY DEF Typed
<1>. DEFINE Kept(x) == x.paused_ = w.paused_ /\ x.ssrInNTMode = w.ssrInNTMode
<1>2. CASE Open(t)
  <2>1. w' = w \/ w' = Inited \/ w' = [w EXCEPT !.currentState = "INIT"]
    BY <1>2, OpenTyped
  <2>2. Kept(w') /\ w'.cachedState = w.cachedState
        /\ w'.currentState \in {w.currentState, "INIT"}
    BY <1>1, <2>1 DEF Inited, StreamType
  <2>3. ~Stop(t) /\ ~StopRun(t) /\ ~Close(t) /\ ~CloseRun(t)
    BY <1>2 DEF Open, Stop, StopRun, Close, CloseRun
  <2>. QED  BY <2>2, <2>3
<1>3. CASE StartRegister(t) \/ StartUnlock(t)
  <2>1. Kept(w') /\ w'.cachedState = w.cachedState /\ w'.currentState = w.currentState
    BY <1>1, <1>3 DEF StartRegister, StartUnlock, Leaves, StreamType
  <2>2. ~Stop(t) /\ ~StopRun(t) /\ ~Close(t) /\ ~CloseRun(t)
    BY <1>3 DEF StartRegister, StartUnlock, Stop, StopRun, Close, CloseRun
  <2>. QED  BY <2>1, <2>2
<1>4. CASE Stop(t)
  <2>1. \/ Same /\ (HasDevices \/ w.currentState \notin Stoppable)
        \/ w' = Ended
        \/ w' = [Ended EXCEPT !.registered = @ \ w.mDevices]
    BY <1>0, <1>4 DEF Stop, StopSensor, StopInCall, StopNonTunnel, Leaves, HasDevices
  <2>2. Kept(w') /\ w'.cachedState = w.cachedState
        /\ \/ w'.currentState = w.currentState /\ (HasDevices \/ w.currentState \notin Stoppable)
           \/ w'.currentState = "STOPPED"
    BY <1>1, <2>1 DEF Ended, StreamType, Same
  <2>3. ~StopRun(t) /\ ~Close(t) /\ ~CloseRun(t)
    BY <1>4 DEF Stop, StopRun, Close, CloseRun
  <2>. QED  BY <2>2, <2>3 DEF Stoppable
<1>5. CASE StopRun(t)
  <2>1. Kept(w') /\ w'.cachedState = w.cachedState /\ w'.currentState = "STOPPED"
    BY <1>1, <1>5 DEF StopRun, Leaves, Ended, StreamType
  <2>2. ~Stop(t) /\ ~Close(t) /\ ~CloseRun(t)
    BY <1>5 DEF Stop, StopRun, Close, CloseRun
  <2>. QED  BY <2>1, <2>2
<1>6. CASE Suspend(t)
  <2>1. Kept(w') /\ w'.cachedState = w.cachedState
        /\ w'.currentState \in {w.currentState, "SUSPENDED"}
    BY <1>1, <1>6 DEF Suspend, Leaves, Same, StreamType
  <2>2. ~Stop(t) /\ ~StopRun(t) /\ ~Close(t) /\ ~CloseRun(t)
    BY <1>6 DEF Suspend, Stop, StopRun, Close, CloseRun
  <2>. QED  BY <2>1, <2>2
<1>7. CASE PauseStream(t) \/ ResumeStream(t)
  <2>1. Kept(w')
        /\ \/ w'.currentState = w.currentState
           \/ CardUp /\ PauseStream(t) /\ w'.currentState = "PAUSED"
           \/ CardUp /\ ResumeStream(t) /\ w'.currentState = "STARTED"
    BY <1>1, <1>7 DEF PauseStream, ResumeStream, Leaves, StreamType
  <2>2. ~Stop(t) /\ ~StopRun(t) /\ ~Close(t) /\ ~CloseRun(t)
    BY <1>7 DEF PauseStream, ResumeStream, Stop, StopRun, Close, CloseRun
  <2>. QED  BY <1>7, <2>1, <2>2
<1>8. ASSUME IsClosed(t)
      PROVE  Kept(w') /\ w'.cachedState = w.cachedState /\ w'.currentState = "IDLE"
  <2>1. w' = [w EXCEPT !.session = "none", !.currentState = "IDLE"]
    BY <1>0, <1>8 DEF IsClosed, CloseCommon, CloseInCall, CloseSensor, HasDevices, Leaves
  <2>. QED  BY <1>1, <2>1 DEF StreamType
<1>9. CASE Close(t)
  <2>1. \/ IsClosed(t)
        \/ w' = w /\ (w.currentState = "IDLE" \/ w.currentState \in Stoppable)
    BY <1>0, <1>9 DEF Close, CloseNonTunnel, Same, Stoppable
  <2>2. ~Stop(t) /\ ~StopRun(t) /\ ~CloseRun(t)
    BY <1>9 DEF Close, Stop, StopRun, CloseRun
  <2>. QED  BY <1>8, <2>1, <2>2
<1>10. CASE CloseRun(t)
  <2>1. IsClosed(t) /\ ~Stop(t) /\ ~StopRun(t) /\ ~Close(t)
    BY <1>10 DEF Close, Stop, StopRun, CloseRun
  <2>. QED  BY <1>8, <2>1
<1>. QED  BY <1>2, <1>3, <1>4, <1>5, <1>6, <1>7, <1>9, <1>10 DEF StreamStep

-----------------------------------------------------------------------------
(* A stream that is held back.                                             *)

\* The conjuncts of HeldBack follow for a step of a handler.
LEMMA StreamStepHeld ==
  ASSUME Typed, Places, HeldBack, Ordinary, NEW t \in Threads, StreamStep(t),
         Places', Typed', Others(t)
  PROVE  HeldBack'
<1>0. class \in {"common", "haptics", "incall", "nontunnel", "sensor"}
  BY ScenariosAssumption DEF Typed, class
<1>1. /\ class' = class /\ CardUp' = CardUp /\ disableCount' = disableCount
      /\ handle' = handle \/ (handle = "opening" /\ handle' \in {"open", "closing"})
  <2>1. CASE Open(t)
    <3>1. t = "client" => handle = "opening"
      BY <2>1 DEF Open, Places, ClientPlace, Typed, AfterStart, AfterStop, Ordinary, OpsOf
    <3>. QED  BY <2>1, <3>1 DEF Open, Opens, OpenFails, class, card, CardUp
  <2>2. CASE ~Open(t)
    BY <2>2 DEF StreamStep, Start, StartRegister, StartUnlock, Stop, StopRun, Suspend,
       PauseStream, ResumeStream, Close, CloseRun, outside, card, class, CardUp
  <2>. QED  BY <2>1, <2>2
<1>2. /\ w'.paused_ = w.paused_
      /\ w'.currentState = "STARTED" =>
           w.currentState = "STARTED" \/ (CardUp /\ ~w.paused_)
      /\ w'.currentState = "PAUSED" => w.currentState = "PAUSED" \/ CardUp
      /\ class = "nontunnel" => w'.cachedState = w.cachedState
  <2>1. CASE Start(t)
    BY <2>1, StartEffect DEF StreamType, Typed
  <2>2. CASE ~Start(t)
    <3>1. ResumeStream(t) \/ PauseStream(t) => class = "incall" /\ handle = "open"
      <4>1. ASSUME ResumeStream(t) \/ PauseStream(t)
            PROVE  pc[t] \in {"resume", "pause"}
        BY <4>1 DEF ResumeStream, PauseStream
      <4>2. ASSUME pc[t] \in {"resume", "pause"}
            PROVE  class = "incall" /\ handle = "open"
        <5>1. CASE t = "client"
          BY <1>0, <4>2, <5>1 DEF Places, ClientPlace, Typed, AfterStart, AfterStop, Ordinary, OpsOf
        <5>2. CASE t = "ssr"
          <6>1. SsrPlace
            BY DEF Places
          <6>. QED  BY <4>2, <5>2, <6>1 DEF SsrPlace, Falling, Rising, AfterStart, AfterStop
        <5>3. t # "mgr"
          BY <4>2 DEF Places, MgrPlace
        <5>. QED  BY <5>1, <5>2, <5>3 DEF Threads
      <4>. QED  BY <4>1, <4>2
    <3>2. class = "incall" /\ handle = "open" => ~w.paused_
      BY DEF HeldBack
    <3>3. /\ w'.paused_ = w.paused_
          /\ w'.currentState = "STARTED" =>
              w.currentState = "STARTED" \/ (CardUp /\ ResumeStream(t))
          /\ w'.currentState = "PAUSED" =>
              w.currentState = "PAUSED" \/ (CardUp /\ PauseStream(t))
          /\ w'.cachedState = w.cachedState \/ PauseStream(t) \/ ResumeStream(t)
      BY <2>2, HandlersEffect
    <3>. QED  BY <3>1, <3>2, <3>3
  <2>. QED  BY <2>1, <2>2
\* Where the manager goes from its call.
<1>3. t = "mgr" => /\ pc["mgr"] = "stop" => w'.currentState # "STARTED"
                   /\ pc["mgr"] = "start" => pc'["mgr"] = "mgrEnd"
                   /\ pc["mgr"] \in {"start", "stop"} /\ class = "sensor"
  <2>1. ASSUME t = "mgr"
        PROVE  /\ class = "sensor"
               /\ \/ Start(t) /\ pc["mgr"] = "start" /\ ret["mgr"] = <<"mgrEnd">>
                  \/ Stop(t) /\ pc["mgr"] = "stop"
    BY <2>1 DEF Places, MgrPlace, StreamStep, Open, Start, StartRegister, StartUnlock, Stop, StopRun,
       Suspend, PauseStream, ResumeStream, Close, CloseRun
  <2>2. ASSUME t = "mgr", Start(t), class = "sensor", ret["mgr"] = <<"mgrEnd">>
        PROVE  pc'["mgr"] = "mgrEnd"
    <3>1. Return(t, "started") \/ Fail(t)
      BY <2>2 DEF Start, EndStart, StartSensor
    <3>. QED  BY <2>2, <3>1, ReturnedTo, FailedTo
  <2>3. ASSUME t = "mgr", Stop(t), class = "sensor"
        PROVE  w'.currentState # "STARTED"
    <3>1. ~Start(t)
      BY <2>3 DEF Start, Stop
    <3>. QED  BY <2>3, <3>1, HandlersEffect DEF HasDevices, Stoppable
  <2>. QED  BY <2>1, <2>2, <2>3
\* Recovery comes to its relock and close with a stream that is stopped.
<1>4. t = "ssr" /\ pc'["ssr"] \in {"relock", "close"} =>
        w'.currentState # "STARTED" /\ (class # "sensor" => w'.currentState # "PAUSED")
  <2>1. ASSUME t = "ssr", pc'["ssr"] \in {"relock", "close"}
        PROVE  pc["ssr"] \in {"stop", "stopRun", "close"}
    <3>1. SsrPlace /\ SsrPlace'
      BY DEF Places
    <3>2. ~CardUp
      BY <1>1, <2>1, <3>1 DEF SsrPlace, Rising, AfterStart
    <3>3. Falling(pc["ssr"], ret["ssr"])
      BY <2>1, <3>1, <3>2 DEF SsrPlace, StreamStep, Open, Start, StartRegister, StartUnlock, Stop,
         StopRun, Suspend, PauseStream, ResumeStream, Close, CloseRun
    <3>. QED  BY <2>1, <3>3 DEF Falling, AfterStop, StreamStep, Open, Start, StartRegister,
                StartUnlock, Stop, StopRun, Suspend, PauseStream, ResumeStream, Close, CloseRun
  <2>2. ASSUME t = "ssr", pc'["ssr"] \in {"relock", "close"}
        PROVE  \/ Stop(t) /\ (HasDevices => w' = w /\ w.currentState \notin Stoppable)
               \/ StopRun(t) \/ (Close(t) /\ pc["ssr"] = "close")
    <3>1. Stop(t) \/ StopRun(t) \/ (Close(t) /\ pc["ssr"] = "close")
      BY <2>1, <2>2 DEF StreamStep, Open, Start, StartRegister, StartUnlock, Stop,
         StopRun, Suspend, PauseStream, ResumeStream, Close, CloseRun
    <3>2. ASSUME Stop(t), HasDevices
          PROVE  w' = w /\ w.currentState \notin Stoppable
      <4>1. ~Goto(t, "stopRun")
        BY <2>2, GoneTo DEF Pcs
      <4>. QED  BY <1>0, <3>2, <4>1 DEF Stop, Same, HasDevices
    <3>. QED  BY <3>1, <3>2
  <2>3. ~Start(t) \/ ~(Stop(t) \/ StopRun(t) \/ Close(t))
    BY DEF Start, Stop, StopRun, Close
  <2>4. Close(t) /\ pc["ssr"] = "close" =>
          w.currentState # "STARTED" /\ (class # "sensor" => w.currentState # "PAUSED")
    BY DEF HeldBack
  <2>. QED  BY <2>2, <2>3, <2>4, HandlersEffect DEF Stoppable
<1>5. t # "ssr" /\ pc["ssr"] \in {"relock", "close"} =>
        /\ w'.currentState # "STARTED"
        /\ w'.currentState = "PAUSED" => w.currentState = "PAUSED"
  <2>1. pc["ssr"] \in {"relock", "close"} => ~CardUp /\ w.currentState # "STARTED"
    BY DEF Places, SsrPlace, Rising, AfterStart, HeldBack
  <2>. QED  BY <1>2, <2>1
<1>6. pc["mgr"] # "idle" => class = "sensor" /\ handle = "open"
  BY DEF Places, MgrPlace
<1>7. /\ class # "sensor" => disableCount = 0
      /\ class = "nontunnel" => w.cachedState \in {"IDLE", "STOPPED"}
      /\ handle # "none" => (w.paused_ <=> disableCount > 0)
      /\ w.paused_ /\ w.currentState = "STARTED" => pc["mgr"] = "stop"
      /\ pc["mgr"] \in {"stop", "paused"} => w.paused_
      /\ pc["ssr"] \in {"relock", "close"} =>
           w.currentState # "STARTED" /\ (class # "sensor" => w.currentState # "PAUSED")
  BY DEF HeldBack
<1>8. handle # "none" /\ handle' # "none"
  <2>1. ASSUME handle = "none"
        PROVE  FALSE
    <3>1. \A u \in Threads : pc[u] = "idle"
      BY <2>1 DEF Places, ClientPlace, SsrPlace, MgrPlace, Threads
    <3>. QED  BY <3>1 DEF StreamStep, Open, Start, StartRegister, StartUnlock, Stop,
         StopRun, Suspend, PauseStream, ResumeStream, Close, CloseRun
  <2>. QED  BY <1>1, <2>1
<1>9. /\ (class # "sensor" => disableCount = 0)'
      /\ (class = "nontunnel" => w.cachedState \in {"IDLE", "STOPPED"})'
      /\ (handle = "none" => w.currentState = "IDLE")'
      /\ (handle # "none" => (w.paused_ <=> disableCount > 0))'
  BY <1>1, <1>2, <1>7, <1>8
<1>10. t # "mgr" => pc'["mgr"] = pc["mgr"]
  BY DEF Others, Threads
<1>11. t # "ssr" => pc'["ssr"] = pc["ssr"]
  BY DEF Others, Threads
<1>12. (w.paused_ /\ w.currentState = "STARTED" => pc["mgr"] = "stop")'
  BY <1>2, <1>3, <1>7, <1>10
<1>13. (pc["mgr"] \in {"stop", "paused"} => w.paused_)'
  BY <1>2, <1>3, <1>7, <1>10
<1>14. (pc["ssr"] \in {"relock", "close"} =>
           w.currentState # "STARTED" /\ (class # "sensor" => w.currentState # "PAUSED"))'
  BY <1>1, <1>4, <1>5, <1>7, <1>11
<1>. QED  BY <1>9, <1>12, <1>13, <1>14 DEF HeldBack

\* They follow for a step of the client, of recovery, of the card and of the manager.
LEMMA OthersHeld ==
  ASSUME Typed, Places, HeldBack, Ordinary,
         \/ ClientStep \/ SsrStep \/ LoseCard \/ CardBack
         \/ MgrEnds \/ MgrPause \/ MgrResume \/ MgrSwitch \/ MgrProfile,
         Places', Typed'
  PROVE  HeldBack'
<1>0. class \in {"common", "haptics", "incall", "nontunnel", "sensor"} /\ class' = class
      /\ w \in StreamType /\ pc \in [Threads -> Pcs]
  BY ScenariosAssumption DEF Typed, class, ClientStep, ClientOpen, ClientClose, ClientDelete,
     ClientCall, clientOnly, SsrStep, SsrTake, SsrDown, SsrRelock, SsrDownEnd, SsrUp, SsrUpStart,
     SsrUpStarted, SsrUpEnd, LoseCard, CardBack, MgrEnds, MgrPaused, MgrEnd, MgrConnect, MgrPause,
     MgrResume, MgrSwitch, MgrProfile, mgrOnly
<1>1. /\ class # "sensor" => disableCount = 0
      /\ class = "nontunnel" => w.cachedState \in {"IDLE", "STOPPED"}
      /\ handle = "none" => w.currentState = "IDLE"
      /\ handle # "none" => (w.paused_ <=> disableCount > 0)
      /\ w.paused_ /\ w.currentState = "STARTED" => pc["mgr"] = "stop"
      /\ pc["mgr"] \in {"stop", "paused"} => w.paused_
      /\ pc["ssr"] \in {"relock", "close"} =>
           w.currentState # "STARTED" /\ (class # "sensor" => w.currentState # "PAUSED")
  BY DEF HeldBack
<1>2. pc["mgr"] # "idle" => class = "sensor" /\ handle = "open"
  BY DEF Places, MgrPlace
<1>3. CASE ClientStep
  <2>1. \/ /\ w' = NewStream /\ handle # "open" /\ handle' # "open"
        \/ /\ w' \in {w, [w EXCEPT !.cachedState = "STOPPED"], [w EXCEPT !.cachedState = "IDLE"]}
           /\ handle = "open" /\ handle' # "none"
    BY <1>3 DEF ClientStep, ClientOpen, ClientClose, ClientDelete, ClientCall
  <2>2. disableCount' = disableCount /\ pc'["mgr"] = pc["mgr"] /\ pc'["ssr"] = pc["ssr"]
    BY <1>0, <1>3 DEF ClientStep, ClientOpen, ClientClose, ClientDelete, ClientCall, clientOnly,
       Goto, Threads
  <2>3. CASE w' = NewStream /\ handle # "open" /\ handle' # "open"
    <3>1. pc["ssr"] = "idle" /\ pc["mgr"] = "idle"
      BY <2>3, Alone
    <3>2. w'.currentState = "IDLE" /\ w'.cachedState = "IDLE"
          /\ (w'.paused_ <=> class = "sensor" /\ disableCount > 0)
      BY <2>3, NewStreamTyped DEF Typed
    <3>. QED  BY <1>0, <1>1, <2>2, <3>1, <3>2 DEF HeldBack
  <2>4. CASE /\ w' \in {w, [w EXCEPT !.cachedState = "STOPPED"], [w EXCEPT !.cachedState = "IDLE"]}
             /\ handle = "open" /\ handle' # "none"
    <3>1. /\ w'.currentState = w.currentState /\ w'.paused_ = w.paused_
          /\ w'.cachedState \in {w.cachedState, "STOPPED", "IDLE"}
      BY <1>0, <2>4 DEF StreamType
    <3>. QED  BY <1>0, <1>1, <2>2, <2>4, <3>1 DEF HeldBack
  <2>. QED  BY <2>1, <2>3, <2>4
<1>4. CASE SsrStep \/ LoseCard \/ CardBack
  <2>0. SsrUpStarted => class # "nontunnel"
    BY DEF SsrUpStarted, Places, SsrPlace
  <2>1. /\ disableCount' = disableCount /\ handle' = handle /\ w'.paused_ = w.paused_
        /\ w'.currentState \in {w.currentState, "IDLE"}
        /\ class = "nontunnel" => w'.cachedState \in {w.cachedState, "IDLE"}
    <3>1. \/ w' \in {w, [w EXCEPT !.currentState = "IDLE"], [w EXCEPT !.cachedState = "IDLE"],
                   [w EXCEPT !.ssrInNTMode = TRUE]}
          \/ w' = [w EXCEPT !.cachedState = IF @ = "IDLE" THEN w.currentState ELSE @]
               /\ class # "nontunnel"
      BY <1>0, <1>4 DEF SsrStep, SsrTake, SsrDown, SsrDownCommon, SsrDownHaptics, SsrDownInCall,
         SsrDownNonTunnel, NoteState, SsrRelock, SsrDownEnd, SsrUp, SsrUpStart, SsrUpStarted,
         SsrUpEnd, LoseCard, CardBack
    <3>. QED  BY <1>0, <1>4, <3>1, SsrTyped DEF StreamType
  <2>2. pc'["mgr"] = pc["mgr"]
    <3>1. CASE SsrDown
      <4>1. SsrDownCommon \/ SsrDownInCall \/ SsrDownNonTunnel
        BY <1>0, <3>1 DEF SsrDown, SsrDownHaptics
      <4>. QED  BY <1>0, <4>1 DEF SsrDownCommon, SsrDownInCall, SsrDownNonTunnel, GoDown, Goto,
                   Threads
    <3>2. CASE SsrUpStarted
      <4>1. SsrUpCommon \/ SsrUpHaptics \/ SsrUpInCall
        BY <1>0, <2>0, <3>2 DEF SsrUpStarted
      <4>. QED  BY <1>0, <4>1 DEF SsrUpCommon, SsrUpHaptics, SsrUpInCall, Goto, Call, Threads
    <3>3. CASE SsrRelock
      BY <1>0, <3>3 DEF SsrRelock, Return, Threads
    <3>4. CASE SsrTake
      BY <1>0, <3>4 DEF SsrTake, Goto, Threads
    <3>5. CASE SsrUp \/ SsrUpStart
      BY <1>0, <3>5 DEF SsrUp, SsrUpStart, Goto, Call, Threads
    <3>6. CASE SsrDownEnd \/ SsrUpEnd \/ LoseCard \/ CardBack
      BY <1>0, <3>6 DEF SsrDownEnd, SsrUpEnd, LoseCard, CardBack, Goto, Threads
    <3>. QED  BY <1>4, <3>1, <3>2, <3>3, <3>4, <3>5, <3>6 DEF SsrStep
  <2>3. pc'["ssr"] \in {"relock", "close"} =>
          w'.currentState # "STARTED" /\ (class # "sensor" => w'.currentState # "PAUSED")
    <3>1. ASSUME pc'["ssr"] \in {"relock", "close"}
          PROVE  \/ pc["ssr"] \in {"relock", "close"}
                 \/ w.currentState \in {"INIT", "STOPPED"}
      <4>1. CASE SsrDown
        <5>1. SsrDownCommon \/ SsrDownInCall \/ SsrDownNonTunnel
          BY <1>0, <4>1 DEF SsrDown, SsrDownHaptics
        <5>. QED  BY <1>0, <3>1, <5>1 DEF SsrDownCommon, SsrDownInCall, SsrDownNonTunnel, GoDown,
                     Goto, Threads
      <4>2. CASE SsrRelock
        BY <4>2 DEF SsrRelock
      <4>3. CASE SsrTake \/ SsrDownEnd \/ SsrUp \/ SsrUpStart \/ SsrUpStarted \/ SsrUpEnd
                 \/ LoseCard \/ CardBack
        <5>1. ASSUME SsrUpStarted
              PROVE  SsrUpCommon \/ SsrUpHaptics \/ SsrUpInCall
          BY <1>0, <2>0, <5>1 DEF SsrUpStarted
        <5>. QED  BY <1>0, <3>1, <4>3, <5>1 DEF SsrTake, SsrDownEnd, SsrUp, SsrUpStart,
                SsrUpStarted, SsrUpCommon, SsrUpHaptics, SsrUpInCall, SsrUpEnd, LoseCard, CardBack,
                Goto, Call, Threads
      <4>. QED  BY <1>4, <4>1, <4>2, <4>3 DEF SsrStep
    <3>. QED  BY <1>1, <2>1, <3>1
  <2>. QED  BY <1>0, <1>1, <2>1, <2>2, <2>3 DEF HeldBack
<1>5. CASE MgrEnds \/ MgrPause \/ MgrResume \/ MgrSwitch \/ MgrProfile
  <2>0. class = "sensor" /\ handle' = handle /\ pc'["ssr"] = pc["ssr"]
    <3>1. class = "sensor"
      BY <1>2, <1>5 DEF MgrEnds, MgrPaused, MgrEnd, MgrConnect, MgrPause, MgrResume, MgrSwitch,
         MgrProfile, MgrMay, Ordinary
    <3>. QED  BY <1>0, <1>5, <3>1 DEF MgrEnds, MgrPaused, MgrEnd, MgrConnect, MgrPause, MgrResume,
           MgrSwitch, MgrProfile, SensorPause, SensorResume, SensorDisconnect, mgrOnly, Goto, Call,
           Threads
  <2>1. CASE MgrPaused
    <3>1. /\ w'.currentState = "PAUSED" /\ w'.paused_ = w.paused_ /\ pc'["mgr"] = "mgrEnd"
          /\ disableCount' = disableCount /\ handle = "open"
      BY <1>0, <1>2, <2>1 DEF MgrPaused, Goto, StreamType, Threads
    <3>. QED  BY <1>0, <1>1, <2>0, <3>1 DEF HeldBack
  <2>2. CASE MgrEnd \/ MgrConnect \/ MgrSwitch \/ MgrProfile
    <3>1. /\ w'.currentState = w.currentState /\ w'.paused_ = w.paused_
          /\ pc'["mgr"] \notin {"stop", "paused"} /\ disableCount' = disableCount
          /\ pc["mgr"] # "stop"
      BY <1>0, <2>2 DEF MgrEnd, MgrConnect, SensorConnect, MgrSwitch, MgrProfile, MgrMay,
         SensorDisconnect, Leaves, Same, mgrOnly, Goto, StreamType, Threads
    <3>. QED  BY <1>0, <1>1, <2>0, <3>1 DEF HeldBack
  <2>3. CASE MgrPause
    <3>1. pc["mgr"] = "idle" /\ disableCount' = disableCount + 1 /\ disableCount \in Nat
      BY <2>3 DEF MgrPause, MgrMay, Typed
    <3>2. CASE disableCount > 0 \/ handle = "none"
      <4>1. w' = w /\ pc'["mgr"] = "idle"
        BY <2>3, <3>1, <3>2 DEF MgrPause
      <4>. QED  BY <1>0, <1>1, <2>0, <3>1, <3>2, <4>1 DEF HeldBack
    <3>3. CASE ~(disableCount > 0 \/ handle = "none")
      <4>1. w' = [w EXCEPT !.paused_ = TRUE] /\ pc'["mgr"] = "stop"
        BY <1>0, <2>3, <3>3 DEF MgrPause, SensorPause, Call, Threads
      <4>2. w'.paused_ = TRUE /\ w'.currentState = w.currentState
        BY <1>0, <4>1 DEF StreamType
      <4>. QED  BY <1>0, <1>1, <2>0, <3>1, <3>3, <4>1, <4>2 DEF HeldBack
    <3>. QED  BY <3>2, <3>3
  <2>4. CASE MgrResume
    <3>1. pc["mgr"] = "idle" /\ disableCount' = disableCount - 1 /\ disableCount \in Nat
          /\ disableCount > 0
      BY <2>4 DEF MgrResume, MgrMay, Typed
    <3>2. CASE disableCount > 1 \/ handle = "none"
      <4>1. w' = w /\ pc'["mgr"] = "idle"
        BY <2>4, <3>1, <3>2 DEF MgrResume
      <4>. QED  BY <1>0, <1>1, <2>0, <3>1, <3>2, <4>1 DEF HeldBack
    <3>3. CASE ~(disableCount > 1 \/ handle = "none")
      <4>1. w' = [w EXCEPT !.paused_ = FALSE] /\ pc'["mgr"] = "start"
        BY <1>0, <2>4, <3>3 DEF MgrResume, SensorResume, Call, Threads
      <4>2. w'.paused_ = FALSE /\ w'.currentState = w.currentState
        BY <1>0, <4>1 DEF StreamType
      <4>. QED  BY <1>0, <1>1, <2>0, <3>1, <3>3, <4>1, <4>2 DEF HeldBack
    <3>. QED  BY <3>2, <3>3
  <2>. QED  BY <1>5, <2>1, <2>2, <2>3, <2>4 DEF MgrEnds
<1>. QED  BY <1>3, <1>4, <1>5

\* The first part of the invariant.
LEMMA HeldStep ==
  ASSUME Ordinary, Typed, Places, HeldBack, Next
  PROVE  Typed' /\ Places' /\ HeldBack'
<1>1. Places' /\ TypedControl' /\ TypedCard'
  BY StepPlaces
<1>2. TypedStream'
  <2>1. ASSUME NEW t \in Threads, StreamStep(t)
        PROVE  TypedStream'
    BY <2>1, StartTyped, OpenTyped, HandlersTyped
  <2>. QED  BY <2>1, ClientTyped, SsrTyped, MgrTyped DEF Next
<1>3. Typed'
  BY <1>1, <1>2 DEF Typed, TypedStream, TypedCard, TypedControl
<1>4. ASSUME NEW t \in Threads, StreamStep(t)
      PROVE  HeldBack'
  <2>1. Others(t)
    BY <1>4, StreamStepPlaces, OpenPlaces
  <2>. QED  BY <1>1, <1>3, <1>4, <2>1, StreamStepHeld
<1>. QED  BY <1>1, <1>3, <1>4, OthersHeld DEF Next

\* It holds at first.
LEMMA HeldInit ==
  ASSUME Init
  PROVE  Typed /\ Places /\ HeldBack
<1>1. /\ scenario \in Scenarios /\ handle = "none" /\ disableCount = 0 /\ w = NewStream
      /\ dev = NoUse /\ votes = 0 /\ cardState = "online" /\ msgQ = <<>> /\ downs = 0
      /\ mStreamMutex = None /\ mActiveStreamMutex = None
      /\ pc = [t \in Threads |-> "idle"] /\ ret = [t \in Threads |-> <<>>]
  BY DEF Init
<1>2. w \in StreamType /\ w.currentState = "IDLE" /\ w.cachedState = "IDLE"
  BY <1>1, NewStreamTyped
<1>3. pc \in [Threads -> Pcs] /\ ret \in [Threads -> Backs]
  BY <1>1 DEF Pcs, Backs
<1>4. \A t \in Threads : pc[t] = "idle" /\ ret[t] = <<>>
  BY <1>1
<1>5. Typed
  BY <1>1, <1>2, <1>3, NoUseTyped DEF Typed, Queues
<1>6. Places
  BY <1>1, <1>4, Queued DEF Places, ClientPlace, SsrPlace, MgrPlace, CardUp, Threads
<1>7. HeldBack
  BY <1>1, <1>2, <1>4 DEF HeldBack, Threads
<1>. QED  BY <1>5, <1>6, <1>7

\* What a run may meet stays as it is.
LEMMA ScenarioKept ==
  ASSUME Next
  PROVE  scenario' = scenario
<1>1. ASSUME NEW t \in Threads, StreamStep(t)
      PROVE  scenario' = scenario
  BY <1>1 DEF StreamStep, Open, Start, StartRegister, StartUnlock, Stop, StopRun, Suspend,
     PauseStream, ResumeStream, Close, CloseRun, outside
<1>. QED  BY <1>1 DEF Next, ClientStep, ClientOpen, ClientClose, ClientDelete, ClientCall, clientOnly,
       SsrStep, SsrTake, SsrDown, SsrRelock, SsrDownEnd, SsrUp, SsrUpStart, SsrUpStarted, SsrUpEnd,
       LoseCard, CardBack, MgrEnds, MgrPaused, MgrEnd, MgrConnect, MgrPause, MgrResume, MgrSwitch,
       MgrProfile, mgrOnly

\* The control and what holds a sensor stream back, over any step.
LEMMA HeldInductive ==
  ASSUME HeldInv, [Next]_vars
  PROVE  HeldInv' /\ (Ordinary' <=> Ordinary)
<1>1. CASE UNCHANGED vars
  <2>1. Ordinary' <=> Ordinary
    BY <1>1 DEF vars, Ordinary, class
  <2>2. Typed => Typed'
    BY <1>1 DEF vars, card, locks, Typed
  <2>3. Places => Places'
    BY <1>1 DEF vars, card, Places, ClientPlace, SsrPlace, MgrPlace, Falling, Rising,
       AfterStart, AfterStop, HasDevices, class, CardUp
  <2>4. HeldBack => HeldBack'
    BY <1>1 DEF vars, HeldBack, class
  <2>. QED  BY <2>1, <2>2, <2>3, <2>4 DEF HeldInv
<1>2. CASE Next
  <2>1. Ordinary' <=> Ordinary
    BY <1>2, ScenarioKept DEF Ordinary, class
  <2>2. ASSUME Ordinary
        PROVE  Typed' /\ Places' /\ HeldBack'
    BY <1>2, <2>2, HeldStep DEF HeldInv
  <2>. QED  BY <2>1, <2>2 DEF HeldInv
<1>. QED  BY <1>1, <1>2

\* PausedMeansQuiet of a sensor stream, whatever fails and however often the card is
\* lost: while a use that cannot go with the sensor is active, no step of the client, of
\* recovery or of the manager leaves the stream listening (SNSPCMDataConcurrency).
THEOREM SensorKeepsQuiet == Spec => [](Ordinary => PausedMeansQuiet)
<1>1. Init => HeldInv
  BY HeldInit DEF HeldInv
<1>2. HeldInv /\ [Next]_vars => HeldInv'
  BY HeldInductive
<1>3. HeldInv => (Ordinary => PausedMeansQuiet)
  BY DEF HeldInv, HeldBack, PausedMeansQuiet
<1>. QED  BY <1>1, <1>2, <1>3, PTL DEF Spec

-----------------------------------------------------------------------------
(* The devices of one stream.                                              *)

\* Opening, starting, stopping and closing take the devices of one stream from closed to
\* open to running and back, also when those that do not start are closed on the way.
LEMMA UseByStep ==
  ASSUME NEW D \in SUBSET Devices, NEW G \in SUBSET D
  PROVE  /\ NoUse = UseBy(D, 0, 0)
         /\ Opened(UseBy(D, 0, 0), D) = UseBy(D, 1, 0)
         /\ Started(UseBy(D, 1, 0), D) = UseBy(D, 1, 1)
         /\ Stopped(UseBy(D, 1, 1), D) = UseBy(D, 1, 0)
         /\ Stopped(UseBy(D, 1, 0), D) = UseBy(D, 1, 0)
         /\ Closed(UseBy(D, 1, 1), D) = NoUse
         /\ Closed(UseBy(D, 1, 0), D) = NoUse
         /\ Closed(NoUse, D) = NoUse
         /\ Stopped(NoUse, D) = NoUse
         /\ Closed(Started(UseBy(D, 1, 0), G), D \ G) = UseBy(G, 1, 1)
         /\ Started(Opened(NoUse, Devices), Devices) = UseBy(Devices, 1, 1)
<1>1. /\ NoUse = UseBy(D, 0, 0)
      /\ Opened(UseBy(D, 0, 0), D) = UseBy(D, 1, 0)
      /\ Started(UseBy(D, 1, 0), D) = UseBy(D, 1, 1)
  BY DEF NoUse, UseBy, Opened, Started
<1>2. /\ Stopped(UseBy(D, 1, 1), D) = UseBy(D, 1, 0)
      /\ Stopped(UseBy(D, 1, 0), D) = UseBy(D, 1, 0)
      /\ Stopped(NoUse, D) = NoUse
  BY DEF NoUse, UseBy, Stopped
<1>3. /\ Closed(UseBy(D, 1, 1), D) = NoUse
      /\ Closed(UseBy(D, 1, 0), D) = NoUse
      /\ Closed(NoUse, D) = NoUse
  BY DEF NoUse, UseBy, Closed
<1>4. Closed(Started(UseBy(D, 1, 0), G), D \ G) = UseBy(G, 1, 1)
  <2>1. Started(UseBy(D, 1, 0), G) =
          [d \in Devices |-> [count |-> IF d \in D THEN 1 ELSE 0,
                              startStop |-> IF d \in G THEN 1 ELSE 0]]
    BY DEF UseBy, Started
  <2>. QED  BY <2>1 DEF UseBy, Closed
<1>5. Started(Opened(NoUse, Devices), Devices) = UseBy(Devices, 1, 1)
  <2>1. Opened(NoUse, Devices) = UseBy(Devices, 1, 0)
    BY DEF NoUse, Opened, UseBy
  <2>. QED  BY <2>1 DEF Started, UseBy
<1>. QED  BY <1>1, <1>2, <1>3, <1>4, <1>5

\* A handler of the stream is at one place only.
LEMMA Handler ==
  ASSUME NEW t \in Threads, StreamStep(t)
  PROVE  /\ pc[t] = "open" => Open(t)
         /\ pc[t] = "start" => Start(t)
         /\ pc[t] = "startRegister" => StartRegister(t)
         /\ pc[t] \in {"startUnlock", "startFailed"} => StartUnlock(t)
         /\ pc[t] = "stop" => Stop(t)
         /\ pc[t] = "stopRun" => StopRun(t)
         /\ pc[t] = "suspend" => Suspend(t)
         /\ pc[t] = "pause" => PauseStream(t)
         /\ pc[t] = "resume" => ResumeStream(t)
         /\ pc[t] = "close" => Close(t)
         /\ pc[t] = "closeRun" => CloseRun(t)
         /\ pc[t] \in {"open", "start", "startRegister", "startUnlock", "startFailed", "stop",
                       "stopRun", "suspend", "pause", "resume", "close", "closeRun"}
BY DEF StreamStep, Open, Start, StartRegister, StartUnlock, Stop, StopRun, Suspend, PauseStream,
       ResumeStream, Close, CloseRun

\* How the client comes out of its open and its close.
LEMMA ClientEnds ==
  ASSUME Typed, Places, Ordinary, NEW t \in Threads, StreamStep(t), Others(t)
  PROVE  /\ handle' # "opening" /\ handle # "none" /\ handle' # "none"
         /\ handle' = "closing" /\ pc'["client"] = "idle" =>
              t = "client" /\ (Close(t) \/ CloseRun(t))
         /\ handle' = "closing" /\ pc'["client"] = "closeRun" =>
              t = "client" /\ (Stop(t) \/ StopRun(t))
         /\ handle # "open" => t = "client"
         /\ handle' # handle => Open(t) /\ t = "client"
<1>1. handle # "open" => t = "client"
  <2>1. t # "client" => pc[t] # "idle"
    BY Handler
  <2>. QED  BY <2>1, Alone DEF Threads
<1>2. handle # "none"
  BY <1>1, Handler DEF Places, ClientPlace
<1>3. CASE Open(t) /\ t = "client"
  <2>1. handle = "opening" /\ ret[t] = <<>>
    BY <1>3 DEF Open, Places, ClientPlace, Typed, AfterStart, AfterStop, Ordinary, OpsOf
  <2>2. \/ Return(t, "") /\ handle' = "open"
        \/ Goto(t, "close") /\ handle' = "closing"
    BY <1>3 DEF Open, Opens, OpenFails
  <2>3. handle' = "closing" => pc'["client"] = "close"
    BY <1>3, <2>2, GoneTo DEF Pcs
  <2>. QED  BY <1>2, <1>3, <2>1, <2>2, <2>3
<1>4. CASE ~(Open(t) /\ t = "client")
  <2>1. handle' = handle
    <3>1. Open(t) => handle' = handle
      BY <1>4 DEF Open, Opens, OpenFails
    <3>2. ASSUME ~Open(t)
          PROVE  handle' = handle
      BY <3>2 DEF StreamStep, Start, StartRegister, StartUnlock, Stop, StopRun, Suspend, PauseStream,
         ResumeStream, Close, CloseRun, outside
    <3>. QED  BY <3>1, <3>2
  <2>2. handle # "opening"
    <3>1. handle = "opening" => pc["client"] = "open"
      BY DEF Places, ClientPlace
    <3>. QED  BY <1>1, <1>4, <3>1, Handler
  <2>3. ASSUME handle = "closing"
        PROVE  /\ pc'["client"] = "idle" => Close(t) \/ CloseRun(t)
               /\ pc'["client"] = "closeRun" => Stop(t) \/ StopRun(t)
    <3>1. t = "client"
      BY <1>1, <2>3
    <3>2. \/ pc[t] \in {"close", "closeRun"} /\ ret[t] = <<>>
          \/ pc[t] \in {"stop", "stopRun"} /\ ret[t] = <<"closeRun">>
      BY <2>3, <3>1, Handler DEF Places, ClientPlace, AfterStop
    <3>3. CASE pc[t] = "close" /\ ret[t] = <<>>
      <4>1. Close(t)
        BY <3>3, Handler
      <4>2. Return(t, "") \/ Call(t, "stop", "closeRun")
        <5>1. class \in {"common", "haptics", "incall", "nontunnel", "sensor"}
          BY ScenariosAssumption DEF Typed, class
        <5>. QED  BY <4>1, <5>1 DEF Close, IsClosed, CloseCommon, CloseInCall, CloseSensor,
                     CloseNonTunnel, HasDevices
      <4>3. pc'[t] \in {"idle", "stop"}
        BY <3>3, <4>2, ReturnedTo, CalledTo DEF Pcs, Backs
      <4>. QED  BY <3>1, <4>1, <4>3
    <3>4. CASE pc[t] = "closeRun" /\ ret[t] = <<>>
      <4>1. CloseRun(t)
        BY <3>4, Handler
      <4>2. Return(t, "")
        <5>1. class \in {"common", "haptics", "incall", "nontunnel", "sensor"}
          BY ScenariosAssumption DEF Typed, class
        <5>. QED  BY <4>1, <5>1 DEF CloseRun, IsClosed, CloseCommon, CloseInCall, CloseSensor,
                     HasDevices
      <4>3. pc'[t] = "idle"
        BY <3>4, <4>2, ReturnedTo
      <4>. QED  BY <3>1, <4>1, <4>3
    <3>5. CASE pc[t] \in {"stop", "stopRun"} /\ ret[t] = <<"closeRun">>
      <4>1. Stop(t) \/ StopRun(t)
        BY <3>5, Handler
      <4>2. \/ \E said \in {"stopped", ""} : Return(t, said)
            \/ Goto(t, "stopRun")
        <5>1. class \in {"common", "haptics", "incall", "nontunnel", "sensor"}
          BY ScenariosAssumption DEF Typed, class
        <5>. QED  BY <3>1, <4>1, <5>1 DEF Stop, StopRun, StopSensor, StopInCall, StopNonTunnel,
                     HasDevices, Fail
      <4>3. pc'[t] \in {"closeRun", "stopRun"}
        BY <3>5, <4>2, ReturnedTo, GoneTo DEF Pcs
      <4>. QED  BY <3>1, <4>1, <4>3
    <3>. QED  BY <3>2, <3>3, <3>4, <3>5
  <2>. QED  BY <1>1, <1>2, <1>4, <2>1, <2>2, <2>3
<1>. QED  BY <1>3, <1>4

\* How recovery comes to the end of its walk down.
LEMMA SsrEnds ==
  ASSUME Typed, Places, NEW t \in Threads, StreamStep(t), t = "ssr", pc'["ssr"] = "downEnd",
         Places'
  PROVE  Close(t)
<1>1. SsrPlace /\ SsrPlace' /\ pc[t] # "idle"
  BY Handler DEF Places
<1>2. CardUp' = CardUp
  BY DEF StreamStep, Open, Start, StartRegister, StartUnlock, Stop, StopRun, Suspend,
         PauseStream, ResumeStream, Close, CloseRun, outside, card, CardUp
<1>3. Falling(pc["ssr"], ret["ssr"])
  BY <1>1, <1>2 DEF SsrPlace, Rising, AfterStart
<1>4. pc[t] = "close" \/ pc[t] \in {"stop", "stopRun"}
  BY <1>3, Handler DEF Falling, AfterStop
<1>5. CASE pc[t] \in {"stop", "stopRun"}
  <2>1. ret[t] \in {<<"close", "downEnd">>, <<"relock", "close", "downEnd">>}
    BY <1>3, <1>5 DEF Falling
  <2>2. \/ \E said \in {"stopped", ""} : Return(t, said)
        \/ Goto(t, "stopRun")
    <3>1. class \in {"common", "haptics", "incall", "nontunnel", "sensor"}
      BY ScenariosAssumption DEF Typed, class
    <3>2. Stop(t) \/ StopRun(t)
      BY <1>5, Handler
    <3>. QED  BY <3>1, <3>2 DEF Stop, StopRun, StopSensor, StopInCall, StopNonTunnel, HasDevices
  <2>3. pc'[t] \in {"close", "relock", "stopRun"}
    BY <2>1, <2>2, ReturnedTo, GoneTo DEF Pcs
  <2>. QED  BY <2>3
<1>. QED  BY <1>4, <1>5, Handler

\* The call of a thread is over.
Ends(t) == (\E said : Return(t, said)) \/ Fail(t)

\* A call that returns or fails does not end in the middle of start or stop.
LEMMA ReturnedWhere ==
  ASSUME Typed, NEW t \in Threads, Ends(t)
  PROVE  pc'[t] \notin {"startRegister", "stopRun", "start", "stop", "open", "down", "up",
                        "startUnlock", "startFailed", "connect", "connectSame"}
<1>1. ASSUME NEW said, Return(t, said)
      PROVE  pc'[t] \in {"idle", "closeRun", "relock", "close", "downEnd", "upEnd", "upStart",
                         "upStarted", "paused", "mgrEnd"}
  <2>1. ret[t] \in Backs
    BY DEF Typed
  <2>. QED  BY <1>1, <2>1, ReturnedTo DEF Backs
<1>2. CASE Fail(t)
  BY <1>1, <1>2, FailedTo DEF Fail, Threads
<1>. QED  BY <1>1, <1>2 DEF Ends

-----------------------------------------------------------------------------
(* A stream with devices of its own.                                       *)

\* What a handler makes of the stream and its devices.  Either mutex is free, so no other
\* thread is between two sections that belong together.
DeviceShape ==
  /\ w.currentState \in {"IDLE", "INIT", "STARTED", "STOPPED"} /\ votes = 0
  /\ dev = UseBy(w.mDevices, N(w.currentState # "IDLE"), N(Listens))
  /\ ~Listens => w.registered = {}

\* Its use by state.
LEMMA ShapeIs ==
  ASSUME DeviceShape
  PROVE  /\ w.currentState = "IDLE" => dev = UseBy(w.mDevices, 0, 0)
         /\ w.currentState \in {"INIT", "STOPPED"} => dev = UseBy(w.mDevices, 1, 0)
         /\ w.currentState = "STARTED" => dev = UseBy(w.mDevices, 1, 1)
BY DEF DeviceShape, N, Listens

\* And the state by its use.
LEMMA ShapeOf ==
  ASSUME votes' = 0, ~Listens' => w'.registered = {},
         \/ w'.currentState = "IDLE" /\ dev' = UseBy(w'.mDevices, 0, 0)
         \/ w'.currentState \in {"INIT", "STOPPED"} /\ dev' = UseBy(w'.mDevices, 1, 0)
         \/ w'.currentState = "STARTED" /\ dev' = UseBy(w'.mDevices, 1, 1)
  PROVE  DeviceShape'
BY DEF DeviceShape, UseBy, N, Listens

\* No use is the same of any devices.
LEMMA NoneInUse ==
  ASSUME NEW D, NEW E
  PROVE  UseBy(D, 0, 0) = UseBy(E, 0, 0) /\ UseBy(D, 0, 0) = NoUse
BY DEF UseBy, NoUse

\* start of a common stream whose devices start, and of a haptics stream.
LEMMA DeviceStart ==
  ASSUME Typed, HasDevices, Orderly, DeviceShape, NEW t \in Threads, Start(t)
  PROVE  /\ DeviceShape'
         /\ \/ /\ w'.currentState = w.currentState /\ Ends(t)
               /\ Listens => w'.registered = w.registered /\ w'.mDevices = w.mDevices
            \/ /\ w'.currentState = "STARTED" /\ CardUp
               /\ \/ Return(t, "started") /\ w'.registered = w'.mDevices
                  \/ Goto(t, "startRegister") /\ w'.registered = {}
<1>0. class \in {"common", "haptics"} /\ votes = 0 /\ votes' = votes
  BY DEF HasDevices, DeviceShape, Start, AgmStarted
<1>1. w \in StreamType /\ dev \in UseType /\ w.mDevices \subseteq Devices
  BY DEF Typed, StreamType
<1>2. \/ Same /\ Ends(t)
      \/ Return(t, "started") /\ Leaves([w EXCEPT !.cachedState = "STARTED"], dev)
      \/ /\ CardUp /\ w.currentState \in {"INIT", "STOPPED"}
         /\ \/ class = "common" /\ StartCommon(t)
            \/ class = "haptics" /\ StartHaptics(t)
  BY <1>0 DEF Start, EndStart, Startable, Ends
<1>3. CASE Same /\ Ends(t)
  <2>1. DeviceShape'
    BY <1>0, <1>3 DEF Same, DeviceShape, Listens
  <2>. QED  BY <1>3, <2>1 DEF Same
<1>4. CASE Return(t, "started") /\ Leaves([w EXCEPT !.cachedState = "STARTED"], dev)
  <2>1. /\ w'.currentState = w.currentState /\ w'.registered = w.registered
        /\ w'.mDevices = w.mDevices /\ dev' = dev
    BY <1>1, <1>4 DEF Leaves, StreamType
  <2>2. DeviceShape'
    BY <1>0, <2>1 DEF DeviceShape, Listens
  <2>. QED  BY <1>4, <2>1, <2>2 DEF Ends
<1>5. CASE CardUp /\ w.currentState \in {"INIT", "STOPPED"} /\ class = "common" /\ StartCommon(t)
  <2>1. ~May("deviceStart")
    BY <1>5 DEF Orderly, May
  <2>2. \/ Fail(t) /\ Leaves(w, Stopped(Started(dev, w.mDevices), w.mDevices))
        \/ Goto(t, "startRegister")
             /\ Leaves([w EXCEPT !.session = "started", !.currentState = "STARTED"],
                       Started(dev, w.mDevices))
    <3>1. PICK bad \in {{}}, f \in {"none", "lastDevice", "sessionStart"} :
            LET good == w.mDevices \ bad
                dv == Started(dev, good)
            IN /\ (f = "lastDevice") => bad # {}
               /\ CASE f = "lastDevice" -> Fail(t) /\ Leaves(w, dv)
                    [] f = "sessionStart" -> Fail(t) /\ Leaves(w, Stopped(dv, w.mDevices))
                    [] OTHER ->
                         /\ Goto(t, "startRegister") /\ UNCHANGED asked
                         /\ Leaves([w EXCEPT !.session = "started", !.currentState = "STARTED"], dv)
      BY <1>5, <2>1 DEF StartCommon
    <3>2. bad = {} /\ w.mDevices \ bad = w.mDevices /\ f # "lastDevice"
      BY <3>1
    <3>. QED  BY <3>1, <3>2
  <2>3. dev = UseBy(w.mDevices, 1, 0) /\ w.registered = {}
    BY <1>5, ShapeIs DEF DeviceShape, Listens
  <2>4. /\ Started(dev, w.mDevices) = UseBy(w.mDevices, 1, 1)
        /\ Stopped(Started(dev, w.mDevices), w.mDevices) = UseBy(w.mDevices, 1, 0)
    BY <1>1, <2>3, UseByStep
  <2>5. CASE Fail(t) /\ Leaves(w, Stopped(Started(dev, w.mDevices), w.mDevices))
    <3>1. w' = w /\ dev' = UseBy(w'.mDevices, 1, 0)
      BY <2>4, <2>5 DEF Leaves
    <3>2. DeviceShape'
      BY <1>0, <1>5, <2>3, <3>1, ShapeOf
    <3>. QED  BY <1>5, <2>5, <3>1, <3>2 DEF Listens, Ends
  <2>6. CASE Goto(t, "startRegister")
             /\ Leaves([w EXCEPT !.session = "started", !.currentState = "STARTED"],
                       Started(dev, w.mDevices))
    <3>1. w'.currentState = "STARTED" /\ w'.mDevices = w.mDevices
          /\ w'.registered = {} /\ dev' = UseBy(w'.mDevices, 1, 1)
      BY <1>1, <2>3, <2>4, <2>6 DEF Leaves, StreamType
    <3>2. DeviceShape'
      BY <1>0, <3>1, ShapeOf DEF Listens
    <3>. QED  BY <1>5, <2>6, <3>1, <3>2
  <2>. QED  BY <2>2, <2>5, <2>6
<1>6. CASE CardUp /\ w.currentState \in {"INIT", "STOPPED"} /\ class = "haptics" /\ StartHaptics(t)
  <2>1. PICK bad \in SUBSET w.mDevices, f \in {"none", "sessionStart"} :
          LET good == w.mDevices \ bad
              dv == Closed(Started(dev, good), bad)
              x == [w EXCEPT !.mDevices = good]
          IN IF good = {} THEN Fail(t) /\ Leaves(x, dv)
             ELSE IF f = "sessionStart"
               THEN Fail(t) /\ Leaves([x EXCEPT !.registered = @ \ good], Stopped(dv, good))
               ELSE /\ Return(t, "started")
                    /\ Leaves([x EXCEPT !.session = "started", !.currentState = "STARTED",
                                        !.registered = good], dv)
    BY <1>6 DEF StartHaptics, May
  <2>. DEFINE good == w.mDevices \ bad
             dv == Closed(Started(dev, good), bad)
             x == [w EXCEPT !.mDevices = good]
  <2>2. dev = UseBy(w.mDevices, 1, 0) /\ w.registered = {}
    BY <1>6, ShapeIs DEF DeviceShape, Listens
  <2>3. /\ dv = UseBy(good, 1, 1) /\ Stopped(dv, good) = UseBy(good, 1, 0)
        /\ good = {} => dv = UseBy(good, 1, 0)
    <3>1. good \in SUBSET w.mDevices /\ bad = w.mDevices \ good /\ good \in SUBSET Devices
      BY <1>1, <2>1
    <3>2. dv = UseBy(good, 1, 1)
      BY <1>1, <2>2, <3>1, UseByStep
    <3>3. Stopped(UseBy(good, 1, 1), good) = UseBy(good, 1, 0)
      BY <3>1, UseByStep
    <3>4. ASSUME good = {}
          PROVE  UseBy(good, 1, 1) = UseBy(good, 1, 0)
      BY <3>4 DEF UseBy
    <3>. QED  BY <3>2, <3>3, <3>4
  <2>4. CASE good = {}
    <3>1. w' = x /\ dev' = dv /\ Fail(t)
      BY <2>1, <2>4 DEF Leaves
    <3>2. /\ w'.currentState = w.currentState /\ w'.registered = {} /\ w'.mDevices = good
          /\ dev' = UseBy(w'.mDevices, 1, 0)
      BY <1>1, <2>2, <2>3, <2>4, <3>1 DEF StreamType
    <3>3. DeviceShape'
      BY <1>0, <1>6, <3>2, ShapeOf
    <3>. QED  BY <1>6, <3>1, <3>2, <3>3 DEF Listens, Ends
  <2>5. CASE good # {} /\ f = "sessionStart"
    <3>1. w' = [x EXCEPT !.registered = @ \ good] /\ dev' = Stopped(dv, good) /\ Fail(t)
      BY <2>1, <2>5 DEF Leaves
    <3>2. /\ w'.currentState = w.currentState /\ w'.registered = {} /\ w'.mDevices = good
          /\ dev' = UseBy(w'.mDevices, 1, 0)
      BY <1>1, <2>2, <2>3, <3>1 DEF StreamType
    <3>3. DeviceShape'
      BY <1>0, <1>6, <3>2, ShapeOf
    <3>. QED  BY <1>6, <3>1, <3>2, <3>3 DEF Listens, Ends
  <2>6. CASE good # {} /\ f # "sessionStart"
    <3>1. /\ w' = [x EXCEPT !.session = "started", !.currentState = "STARTED",
                            !.registered = good]
          /\ dev' = dv /\ Return(t, "started")
      BY <2>1, <2>6 DEF Leaves
    <3>2. /\ w'.currentState = "STARTED" /\ w'.registered = good /\ w'.mDevices = good
          /\ dev' = UseBy(w'.mDevices, 1, 1)
      BY <1>1, <2>3, <3>1 DEF StreamType
    <3>3. DeviceShape'
      BY <1>0, <3>2, ShapeOf DEF Listens
    <3>. QED  BY <1>6, <3>1, <3>2, <3>3
  <2>. QED  BY <2>4, <2>5, <2>6
<1>. QED  BY <1>0, <1>2, <1>3, <1>4, <1>5, <1>6

\* The other handlers of such a stream.
LEMMA DeviceHandlers ==
  ASSUME Typed, HasDevices, Ordinary, Places, HeldBack, DeviceStream,
         NEW t \in {"client", "ssr"}, StreamStep(t), ~Start(t)
  PROVE  /\ DeviceShape'
         /\ \/ Open(t) /\ (w' = w \/ (w.currentState = "IDLE" /\ w'.currentState = "INIT"))
            \/ /\ StartRegister(t) /\ w'.registered = w'.mDevices
               /\ w'.currentState = "STARTED"
            \/ Stop(t) /\ w' = w
            \/ StopRun(t) /\ w'.currentState = "STOPPED"
            \/ Close(t) /\ w' = w /\ Call(t, "stop", "closeRun")
            \/ (Close(t) \/ CloseRun(t)) /\ w'.currentState = "IDLE"
<1>0. class \in {"common", "haptics"} /\ votes = 0 /\ DeviceShape
  BY DEF HasDevices, DeviceStream, DeviceShape
<1>1. w \in StreamType /\ dev \in UseType /\ w.mDevices \in SUBSET Devices
  BY DEF Typed, StreamType
<1>2. /\ w.currentState = "IDLE" => dev = UseBy(w.mDevices, 0, 0)
      /\ w.currentState \in {"INIT", "STOPPED"} => dev = UseBy(w.mDevices, 1, 0)
      /\ w.currentState = "STARTED" => dev = UseBy(w.mDevices, 1, 1)
      /\ w.currentState \in {"IDLE", "INIT", "STARTED", "STOPPED"}
      /\ ~Listens => w.registered = {}
  BY <1>0, ShapeIs DEF DeviceShape
<1>3. ASSUME w' = w, dev' = dev, votes' = 0
      PROVE  DeviceShape'
  BY <1>0, <1>3 DEF DeviceShape, Listens
<1>4. CASE pc[t] = "open"
  <2>1. Open(t) /\ votes' = votes
    BY <1>4, Handler DEF Threads, Open
  <2>2. \/ w' = w /\ dev' = dev
        \/ w.currentState = "IDLE" /\ w' = Inited /\ dev' = Opened(dev, w.mDevices)
    <3>1. PICK o \in IF ~CardUp \/ w.currentState \notin {"IDLE", "INIT"}
                       THEN {Outcome(FALSE, w, dev)}
                     ELSE IF w.currentState = "INIT" THEN {Outcome(TRUE, w, dev)} ELSE OpenIdle :
            Leaves(o.w, o.dev)
      BY <2>1 DEF Open
    <3>2. \/ o \in {Outcome(FALSE, w, dev), Outcome(TRUE, w, dev)}
          \/ w.currentState = "IDLE" /\ o = Outcome(TRUE, Inited, Opened(dev, w.mDevices))
      BY <1>0, <3>1 DEF OpenIdle, OpenCommon, HasDevices
    <3>. QED  BY <3>1, <3>2 DEF Outcome, Leaves
  <2>3. CASE w.currentState = "IDLE" /\ w' = Inited /\ dev' = Opened(dev, w.mDevices)
    <3>1. /\ w'.currentState = "INIT" /\ w'.mDevices = w.mDevices /\ w'.registered = {}
          /\ dev' = UseBy(w'.mDevices, 1, 0)
      <4>1. Opened(dev, w.mDevices) = UseBy(w.mDevices, 1, 0)
        BY <1>1, <1>2, <2>3, UseByStep
      <4>. QED  BY <1>1, <1>2, <2>3, <4>1 DEF Inited, StreamType, Listens
    <3>2. DeviceShape'
      BY <1>0, <2>1, <3>1, ShapeOf
    <3>. QED  BY <2>1, <2>3, <3>1, <3>2
  <2>. QED  BY <1>0, <1>3, <2>1, <2>2, <2>3
<1>5. CASE pc[t] = "startRegister"
  <2>1. StartRegister(t) /\ votes' = votes /\ w.currentState = "STARTED"
    BY <1>5, Handler DEF Threads, StartRegister, DeviceStream, Listens
  <2>2. /\ w'.currentState = "STARTED" /\ w'.registered = w'.mDevices
        /\ w'.mDevices = w.mDevices /\ dev' = dev
    BY <1>1, <2>1 DEF StartRegister, Leaves, StreamType
  <2>3. DeviceShape'
    BY <1>0, <1>2, <2>1, <2>2, ShapeOf DEF Listens
  <2>. QED  BY <2>1, <2>2, <2>3
<1>6. CASE pc[t] = "stop"
  <2>1. Stop(t) /\ votes' = votes
    BY <1>0, <1>6, Handler DEF Threads, Stop
  <2>2. w' = w /\ dev' = dev
    BY <1>0, <2>1 DEF Stop, Same, HasDevices
  <2>. QED  BY <1>0, <1>3, <2>1, <2>2
<1>7. CASE pc[t] = "stopRun"
  <2>1. StopRun(t) /\ votes' = votes /\ w.currentState = "STARTED"
    BY <1>7, Handler DEF Threads, StopRun, DeviceStream, Listens
  <2>2. w.registered \subseteq w.mDevices
    BY <1>2, <2>1 DEF DeviceStream, Listens, Typed, StreamType
  <2>3. /\ w'.currentState = "STOPPED" /\ w'.registered = w.registered \ w.mDevices
        /\ w'.mDevices = w.mDevices /\ dev' = Stopped(dev, w.mDevices)
    BY <1>1, <2>1 DEF StopRun, Leaves, Ended, StreamType
  <2>4. Stopped(dev, w.mDevices) = UseBy(w.mDevices, 1, 0)
    BY <1>1, <1>2, <2>1, UseByStep
  <2>5. DeviceShape'
    BY <1>0, <2>1, <2>2, <2>3, <2>4, ShapeOf
  <2>. QED  BY <2>1, <2>3, <2>5
<1>8. ASSUME IsClosed(t), votes' = 0, ~Listens
      PROVE  DeviceShape' /\ w'.currentState = "IDLE"
  <2>1. /\ w'.currentState = "IDLE" /\ w'.registered = {}
        /\ w'.mDevices = w.mDevices /\ dev' = Closed(dev, w.mDevices)
    BY <1>0, <1>1, <1>2, <1>8 DEF IsClosed, CloseCommon, HasDevices, Leaves, StreamType
  <2>2. dev' = UseBy(w'.mDevices, 0, 0)
    <3>1. Closed(dev, w.mDevices) = NoUse
      <4>1. dev \in {NoUse, UseBy(w.mDevices, 1, 0)}
        BY <1>2, <1>8, NoneInUse DEF Listens
      <4>. QED  BY <1>1, <4>1, UseByStep
    <3>. QED  BY <2>1, <3>1, NoneInUse
  <2>. QED  BY <1>8, <2>1, <2>2, ShapeOf
<1>9. CASE pc[t] = "close"
  <2>1. Close(t) /\ votes' = votes
    BY <1>9, Handler DEF Threads, Close
  <2>2. \/ w' = w /\ dev' = dev /\ w.currentState = "IDLE"
        \/ w' = w /\ dev' = dev /\ Listens /\ Call(t, "stop", "closeRun")
        \/ IsClosed(t) /\ ~Listens
    BY <1>0, <1>2, <2>1 DEF Close, Same, Stoppable, Listens
  <2>. QED  BY <1>0, <1>3, <1>8, <2>1, <2>2
<1>10. CASE pc[t] = "closeRun"
  <2>1. CloseRun(t) /\ votes' = votes /\ IsClosed(t)
    BY <1>10, Handler DEF Threads, CloseRun
  <2>2. t = "client" /\ handle = "closing"
    <3>1. t # "ssr"
      BY <1>10 DEF Places, SsrPlace, Falling, Rising, AfterStart, AfterStop
    <3>. QED  BY <1>0, <1>10, <3>1 DEF Places, ClientPlace, Typed, AfterStart, AfterStop, Ordinary,
                OpsOf
  <2>3. ~Listens
    BY <1>10, <2>2 DEF DeviceStream
  <2>. QED  BY <1>0, <1>8, <2>1, <2>3
<1>11. pc[t] \notin {"startUnlock", "startFailed", "suspend", "pause", "resume"}
  <2>1. CASE t = "client"
    BY <1>0, <2>1 DEF Places, ClientPlace, Typed, AfterStart, AfterStop, Ordinary, OpsOf
  <2>2. CASE t = "ssr"
    BY <1>0, <2>2 DEF Places, SsrPlace, Falling, Rising, AfterStart, AfterStop
  <2>. QED  BY <2>1, <2>2
<1>12. pc[t] # "start"
  BY Handler DEF Threads
<1>. QED  BY <1>4, <1>5, <1>6, <1>7, <1>9, <1>10, <1>11, <1>12, Handler DEF Threads

\* Where the handlers of such a stream lead.
LEMMA DeviceWhere ==
  ASSUME Typed, HasDevices, Ordinary, Places, HeldBack, DeviceStream,
         NEW t \in {"client", "ssr"}, StreamStep(t), ~Start(t)
  PROVE  /\ pc'[t] # "startRegister"
         /\ pc'[t] = "stopRun" => Stop(t) /\ Listens
         /\ StopRun(t) \/ StartRegister(t) => \E said : Return(t, said)
<1>0. class \in {"common", "haptics"} /\ t \in Threads
  BY DEF HasDevices, Threads
<1>1. ASSUME Ends(t)
      PROVE  pc'[t] # "startRegister" /\ pc'[t] # "stopRun"
  BY <1>0, <1>1, ReturnedWhere
<1>2. ASSUME NEW l, Goto(t, l)
      PROVE  pc'[t] = l
  BY <1>0, <1>2 DEF Goto, Typed
<1>3. CASE Open(t)
  <2>1. \/ Ends(t)
        \/ Goto(t, "close")
    BY <1>3 DEF Open, Opens, OpenFails, Ends
  <2>2. ~StopRun(t) /\ ~StartRegister(t)
    BY <1>3 DEF Open, StopRun, StartRegister
  <2>. QED  BY <1>1, <1>2, <2>1, <2>2
<1>4. CASE StartRegister(t) \/ StopRun(t)
  BY <1>1, <1>4 DEF StartRegister, StopRun, Ends
<1>5. CASE Stop(t)
  <2>1. \/ Goto(t, "stopRun") /\ w.currentState \in Stoppable
        \/ Ends(t)
    BY <1>0, <1>5 DEF Stop, HasDevices, Ends
  <2>2. ~StopRun(t) /\ ~StartRegister(t)
    BY <1>5 DEF Stop, StopRun, StartRegister
  <2>3. w.currentState \in Stoppable => Listens
    BY DEF DeviceStream, Stoppable, Listens
  <2>. QED  BY <1>1, <1>2, <1>5, <2>1, <2>2, <2>3
<1>6. CASE Close(t) \/ CloseRun(t)
  <2>1. Return(t, "") \/ Call(t, "stop", "closeRun")
    BY <1>0, <1>6 DEF Close, CloseRun, IsClosed, CloseCommon, HasDevices
  <2>2. ~StopRun(t) /\ ~StartRegister(t)
    BY <1>6 DEF Close, CloseRun, StopRun, StartRegister
  <2>3. Call(t, "stop", "closeRun") => pc'[t] = "stop"
    BY <1>0 DEF Call, Typed
  <2>. QED  BY <1>1, <2>1, <2>2, <2>3 DEF Ends
<1>. QED  BY <1>3, <1>4, <1>5, <1>6, DeviceHandlers

\* A step of a handler.
LEMMA DeviceStreamHandler ==
  ASSUME Typed, HasDevices, Ordinary, Orderly, Places, HeldBack, DeviceStream,
         NEW t \in Threads, StreamStep(t), Others(t), Places'
  PROVE  DeviceStream'
<1>0. class \in {"common", "haptics"} /\ DeviceShape
  BY DEF HasDevices, DeviceStream, DeviceShape
<1>1. t \in {"client", "ssr"} /\ pc["mgr"] = "idle"
  <2>1. pc["mgr"] = "idle"
    BY <1>0 DEF Places, MgrPlace
  <2>. QED  BY <2>1, Handler DEF Threads
<1>2. \A u \in Threads \ {t} : pc'[u] = pc[u]
  BY DEF Others
<1>3. /\ handle' # "opening"
      /\ handle' = "closing" /\ pc'["client"] = "idle" =>
              t = "client" /\ (Close(t) \/ CloseRun(t))
      /\ handle' = "closing" /\ pc'["client"] = "closeRun" =>
              t = "client" /\ (Stop(t) \/ StopRun(t))
  BY ClientEnds
<1>4. t = "ssr" /\ pc'["ssr"] = "downEnd" => Close(t)
  BY SsrEnds
<1>5. /\ \A u \in Threads : pc[u] \in {"startRegister", "stopRun"} => Listens
      /\ pc["ssr"] = "downEnd" => w.currentState = "IDLE"
      /\ Listens => \/ w.registered = w.mDevices
                    \/ w.registered = {} /\ \E u \in Threads : pc[u] = "startRegister"
  BY DEF DeviceStream
\* Who stops or closes the stream is alone with it; recovery then waits for no start.
<1>6. pc["client"] \in {"stop", "stopRun", "close", "closeRun"} => pc["ssr"] = "idle"
  <2>1. CASE handle = "open"
    <3>1. pc["client"] \in {"stop", "stopRun", "close", "closeRun"} => "stop" \in scenario.Ops
      BY <1>0, <2>1 DEF Places, ClientPlace, AfterStart, AfterStop, Ordinary, OpsOf
    <3>2. "stop" \in scenario.Ops => downs = 0
      BY ScenariosAssumption DEF Orderly, Places, Typed
    <3>3. pc["ssr"] # "idle" => downs > 0
      BY DEF Places, SsrPlace
    <3>. QED  BY <3>1, <3>2, <3>3
  <2>. QED  BY <2>1, Alone
<1>7. pc["ssr"] # "idle" /\ ~CardUp => pc["client"] \notin {"startRegister", "stopRun"}
  BY <1>6 DEF Places
<1>8. CASE Start(t)
  <2>1. /\ DeviceShape'
        /\ \/ /\ w'.currentState = w.currentState /\ Ends(t)
              /\ Listens => w'.registered = w.registered /\ w'.mDevices = w.mDevices
           \/ /\ w'.currentState = "STARTED" /\ CardUp
              /\ \/ Return(t, "started") /\ w'.registered = w'.mDevices
                 \/ Goto(t, "startRegister") /\ w'.registered = {}
    BY <1>0, <1>8, DeviceStart
  <2>2. Ends(t) => pc'[t] \notin {"startRegister", "stopRun"}
    BY ReturnedWhere
  <2>3. Goto(t, "startRegister") => pc'[t] = "startRegister"
    BY DEF Goto, Typed
  <2>4. ~Close(t) /\ ~CloseRun(t) /\ ~Stop(t) /\ ~StopRun(t) /\ pc[t] = "start"
    BY <1>8 DEF Start, Close, CloseRun, Stop, StopRun
  <2>5. Listens => Listens'
    BY <2>1 DEF Listens
  <2>6. \A u \in Threads : pc'[u] \in {"startRegister", "stopRun"} => Listens'
    BY <1>2, <1>5, <2>1, <2>2, <2>3, <2>5 DEF Listens
  <2>7. Listens' => \/ w'.registered = w'.mDevices
                    \/ w'.registered = {} /\ \E u \in Threads : pc'[u] = "startRegister"
    BY <1>2, <1>5, <2>1, <2>3, <2>4 DEF Listens
  <2>8. pc'["ssr"] = "downEnd" => w'.currentState = "IDLE"
    <3>1. pc["ssr"] = "downEnd" => ~CardUp
      BY DEF Places, SsrPlace, Rising, AfterStart
    <3>. QED  BY <1>1, <1>2, <1>4, <1>5, <2>1, <2>4, <3>1 DEF Threads
  <2>. QED  BY <1>3, <2>1, <2>4, <2>6, <2>7, <2>8 DEF DeviceStream, DeviceShape
<1>9. CASE ~Start(t)
  <2>1. /\ DeviceShape'
        /\ \/ Open(t) /\ (w' = w \/ (w.currentState = "IDLE" /\ w'.currentState = "INIT"))
           \/ /\ StartRegister(t) /\ w'.registered = w'.mDevices
              /\ w'.currentState = "STARTED"
           \/ Stop(t) /\ w' = w
           \/ StopRun(t) /\ w'.currentState = "STOPPED"
           \/ Close(t) /\ w' = w /\ Call(t, "stop", "closeRun")
           \/ (Close(t) \/ CloseRun(t)) /\ w'.currentState = "IDLE"
    BY <1>1, <1>9, DeviceHandlers
  <2>2. /\ pc'[t] # "startRegister"
        /\ pc'[t] = "stopRun" => Stop(t) /\ Listens
    BY <1>1, <1>9, DeviceWhere
  <2>3. \A u \in Threads \ {t} : pc[u] \in {"startRegister", "stopRun"} =>
            ~StopRun(t) /\ ~Close(t) /\ ~CloseRun(t)
    <3>1. ASSUME StopRun(t) \/ Close(t) \/ CloseRun(t)
          PROVE  pc[t] \in {"stopRun", "close", "closeRun"}
      BY <3>1 DEF StopRun, Close, CloseRun
    <3>2. t = "ssr" /\ pc[t] \in {"stopRun", "close", "closeRun"} => ~CardUp
      BY DEF Places, SsrPlace, Rising, AfterStart
    <3>. QED  BY <1>1, <1>6, <1>7, <3>1, <3>2 DEF Threads
  <2>4. \A u \in Threads : pc'[u] \in {"startRegister", "stopRun"} => Listens'
    <3>1. Stop(t) => ~StopRun(t) /\ ~Open(t) /\ ~StartRegister(t) /\ ~Close(t) /\ ~CloseRun(t)
      BY DEF Close, Open, Stop, StopRun, StartRegister, CloseRun
    <3>. QED  BY <1>2, <1>5, <2>1, <2>2, <2>3, <3>1 DEF Listens
  <2>5. Listens' => \/ w'.registered = w'.mDevices
                    \/ w'.registered = {} /\ \E u \in Threads : pc'[u] = "startRegister"
    <3>1. pc[t] = "startRegister" => StartRegister(t)
      BY Handler
    <3>2. StartRegister(t) => ~Open(t) /\ ~Stop(t) /\ ~StopRun(t) /\ ~Close(t) /\ ~CloseRun(t)
      BY DEF StartRegister, Open, Stop, StopRun, Close, CloseRun
    <3>. QED  BY <1>2, <1>5, <2>1, <3>1, <3>2 DEF Listens
  <2>6. Close(t) => ~Stop(t) /\ ~Open(t) /\ ~StartRegister(t) /\ ~StopRun(t) /\ ~CloseRun(t)
    BY DEF Close, Open, Stop, StopRun, StartRegister, CloseRun
  <2>7. Call(t, "stop", "closeRun") => pc'[t] = "stop"
    BY DEF Call, Typed
  <2>8. pc'["ssr"] = "downEnd" => w'.currentState = "IDLE"
    <3>1. CASE t = "ssr"
      BY <1>4, <2>1, <2>6, <2>7, <3>1
    <3>2. CASE t = "client" /\ pc["ssr"] = "downEnd"
      <4>1. w.currentState = "IDLE" /\ ~CardUp /\ handle = "open"
        BY <1>5, <3>2 DEF Places, SsrPlace, Rising, AfterStart
      <4>2. ~Open(t) /\ ~StartRegister(t) /\ ~StopRun(t) /\ ~Close(t) /\ ~CloseRun(t)
        <5>1. pc[t] \notin {"startRegister", "stopRun", "close", "closeRun"}
          BY <1>6, <1>7, <3>2, <4>1
        <5>2. pc[t] # "open"
          BY <1>0, <3>2, <4>1 DEF Places, ClientPlace, AfterStart, AfterStop, Ordinary, OpsOf
        <5>. QED  BY <5>1, <5>2 DEF Open, StartRegister, StopRun, Close, CloseRun
      <4>. QED  BY <2>1, <4>1, <4>2
    <3>. QED  BY <1>1, <1>2, <3>1, <3>2 DEF Threads
  <2>9. handle' = "closing" /\ pc'["client"] = "idle" => w'.currentState = "IDLE"
    <3>1. CloseRun(t) => ~Stop(t) /\ ~Open(t) /\ ~StartRegister(t) /\ ~StopRun(t) /\ ~Close(t)
      BY DEF Close, Open, Stop, StopRun, StartRegister, CloseRun
    <3>. QED  BY <1>3, <2>1, <2>6, <2>7, <3>1
  <2>10. handle' = "closing" /\ pc'["client"] = "closeRun" => ~Listens'
    <3>1. ASSUME handle' = "closing", pc'["client"] = "closeRun"
          PROVE  t = "client" /\ (Stop(t) \/ StopRun(t))
      BY <1>3, <3>1
    <3>2. StopRun(t) => ~Stop(t) /\ ~Open(t) /\ ~StartRegister(t) /\ ~Close(t) /\ ~CloseRun(t)
      BY DEF Close, Open, Stop, StopRun, StartRegister, CloseRun
    <3>3. Stop(t) => ~StopRun(t) /\ ~Open(t) /\ ~StartRegister(t) /\ ~Close(t) /\ ~CloseRun(t)
      BY DEF Close, Open, Stop, StopRun, StartRegister, CloseRun
    <3>4. ASSUME Stop(t), Listens, pc'[t] = "closeRun"
          PROVE  FALSE
      <4>1. Goto(t, "stopRun")
        BY <1>0, <3>4 DEF Stop, Stoppable, Listens, HasDevices
      <4>. QED  BY <3>4, <4>1 DEF Goto, Typed
    <3>. QED  BY <2>1, <3>1, <3>2, <3>3, <3>4 DEF Listens
  <2>. QED  BY <1>3, <2>1, <2>4, <2>5, <2>8, <2>9, <2>10 DEF DeviceStream, DeviceShape
<1>. QED  BY <1>8, <1>9

\* What the steps of recovery, of the card and of the client between handlers leave alone.
LEMMA WalkKeeps ==
  ASSUME Typed, Places, SsrStep \/ LoseCard \/ CardBack
  PROVE  /\ w'.mDevices = w.mDevices /\ w'.registered = w.registered /\ w'.session = w.session
         /\ w'.paused_ = w.paused_ /\ dev' = dev /\ handle' = handle /\ scenario' = scenario
         /\ disableCount' = disableCount /\ mStreamMutex' = mStreamMutex /\ asked' = asked
         /\ ~SsrDownEnd => w'.currentState = w.currentState
         /\ class # "nontunnel" => votes' = votes /\ w'.ssrInNTMode = w.ssrInNTMode
         /\ pc'["client"] = pc["client"] /\ ret'["client"] = ret["client"]
         /\ pc'["mgr"] = pc["mgr"] /\ ret'["mgr"] = ret["mgr"]
<1>0. class \in {"common", "haptics", "incall", "nontunnel", "sensor"} /\ w \in StreamType
      /\ pc \in [Threads -> Pcs] /\ ret \in [Threads -> Backs] /\ "ssr" \in Threads
      /\ "client" \in Threads /\ "mgr" \in Threads
  BY ScenariosAssumption DEF Typed, class, Threads
<1>1. /\ dev' = dev /\ handle' = handle /\ disableCount' = disableCount
  BY SsrTyped
<1>2. SsrUpStarted => class # "nontunnel"
  BY DEF SsrUpStarted, Places, SsrPlace
<1>3. CASE SsrDown
  <2>1. \/ NoteState /\ votes' = votes /\ \E l, b : GoDown(l, b)
        \/ /\ class = "nontunnel" /\ w' = [w EXCEPT !.ssrInNTMode = TRUE]
           /\ Goto("ssr", "downEnd")
    <3>1. SsrDownCommon \/ SsrDownInCall \/ (SsrDownNonTunnel /\ class = "nontunnel")
      BY <1>0, <1>3 DEF SsrDown, SsrDownHaptics
    <3>. QED  BY <3>1 DEF SsrDownCommon, SsrDownInCall, SsrDownNonTunnel
  <2>2. /\ w'.mDevices = w.mDevices /\ w'.registered = w.registered /\ w'.session = w.session
        /\ w'.paused_ = w.paused_ /\ w'.currentState = w.currentState
        /\ class # "nontunnel" => votes' = votes /\ w'.ssrInNTMode = w.ssrInNTMode
    BY <1>0, <2>1 DEF NoteState, StreamType
  <2>3. /\ pc'["client"] = pc["client"] /\ ret'["client"] = ret["client"]
        /\ pc'["mgr"] = pc["mgr"] /\ ret'["mgr"] = ret["mgr"]
    BY <1>0, <2>1 DEF GoDown, Goto
  <2>. QED  BY <1>1, <1>3, <2>2, <2>3 DEF SsrDown
<1>4. CASE SsrDownEnd \/ SsrUpEnd
  <2>1. /\ \/ w' \in {w, [w EXCEPT !.cachedState = "IDLE"]}
           \/ w' = [w EXCEPT !.currentState = "IDLE"] /\ SsrDownEnd
        /\ votes' = votes /\ Goto("ssr", "idle")
    BY <1>4 DEF SsrDownEnd, SsrUpEnd
  <2>2. /\ w'.mDevices = w.mDevices /\ w'.registered = w.registered /\ w'.session = w.session
        /\ w'.paused_ = w.paused_ /\ (~SsrDownEnd => w'.currentState = w.currentState)
        /\ w'.ssrInNTMode = w.ssrInNTMode
    BY <1>0, <2>1 DEF StreamType
  <2>3. /\ pc'["client"] = pc["client"] /\ ret'["client"] = ret["client"]
        /\ pc'["mgr"] = pc["mgr"] /\ ret'["mgr"] = ret["mgr"]
    BY <1>0, <2>1 DEF Goto
  <2>. QED  BY <1>1, <1>4, <2>1, <2>2, <2>3 DEF SsrDownEnd, SsrUpEnd
<1>5. CASE SsrUpStarted
  <2>1. \/ \E l : Goto("ssr", l)
        \/ Call("ssr", "pause", "upEnd")
    BY <1>0, <1>2, <1>5 DEF SsrUpStarted, SsrUpCommon, SsrUpHaptics, SsrUpInCall
  <2>2. /\ pc'["client"] = pc["client"] /\ ret'["client"] = ret["client"]
        /\ pc'["mgr"] = pc["mgr"] /\ ret'["mgr"] = ret["mgr"]
    BY <1>0, <2>1 DEF Goto, Call
  <2>. QED  BY <1>1, <1>5, <2>2 DEF SsrUpStarted
<1>6. CASE SsrTake \/ SsrUp \/ SsrUpStart \/ SsrRelock
  <2>1. /\ pc'["client"] = pc["client"] /\ ret'["client"] = ret["client"]
        /\ pc'["mgr"] = pc["mgr"] /\ ret'["mgr"] = ret["mgr"]
    BY <1>0, <1>6 DEF SsrTake, SsrUp, SsrUpStart, SsrRelock, Goto, Call, Return
  <2>2. asked' = asked
    BY <1>6 DEF SsrTake, SsrUp, SsrUpStart, SsrRelock, Return, Tell
  <2>. QED  BY <1>1, <1>6, <2>1, <2>2 DEF SsrTake, SsrUp, SsrUpStart, SsrRelock, locks
<1>7. CASE LoseCard \/ CardBack
  BY <1>1, <1>7 DEF LoseCard, CardBack, locks
<1>. QED  BY <1>3, <1>4, <1>5, <1>6, <1>7 DEF SsrStep

\* Where they take recovery.
LEMMA WalkTo ==
  ASSUME Typed, Places, SsrStep \/ LoseCard \/ CardBack
  PROVE  \/ pc'["ssr"] = pc["ssr"] /\ ret'["ssr"] = ret["ssr"]
         \/ /\ pc["ssr"] \in {"idle", "down", "relock", "downEnd", "up", "upStart", "upStarted",
                              "upEnd", "upFailed", "upKeep"}
            /\ pc'["ssr"] \notin {"startRegister", "stopRun", "closeRun"}
            /\ pc'["ssr"] = "downEnd" /\ class # "nontunnel" =>
                 w.currentState \notin {"STARTED", "PAUSED", "INIT", "STOPPED"}
<1>0. class \in {"common", "haptics", "incall", "nontunnel", "sensor"} /\ w \in StreamType
      /\ pc \in [Threads -> Pcs] /\ ret \in [Threads -> Backs] /\ "ssr" \in Threads
  BY ScenariosAssumption DEF Typed, class, Threads
<1>1. CASE SsrDown
  <2>1. \/ SsrDownCommon \/ SsrDownInCall
        \/ class = "nontunnel" /\ Goto("ssr", "downEnd")
    BY <1>0, <1>1 DEF SsrDown, SsrDownHaptics, SsrDownNonTunnel
  <2>2. pc["ssr"] = "down"
    BY <1>1 DEF SsrDown
  <2>. QED  BY <1>0, <2>1, <2>2 DEF SsrDownCommon, SsrDownInCall, GoDown, Goto, Stoppable
<1>2. CASE SsrRelock
  <2>1. pc["ssr"] = "relock" /\ ret["ssr"] = <<"close", "downEnd">> /\ Return("ssr", "")
    BY <1>2 DEF SsrRelock, Places, SsrPlace, Falling, Rising, AfterStart, AfterStop
  <2>2. pc'["ssr"] = "close"
    BY <1>0, <2>1, ReturnedTo
  <2>. QED  BY <2>1, <2>2
<1>3. CASE SsrUpStarted
  <2>1. pc["ssr"] = "upStarted" /\ class # "nontunnel"
    BY <1>3 DEF SsrUpStarted, Places, SsrPlace
  <2>2. \/ \E l \in {"upEnd", "upKeep"} : Goto("ssr", l)
        \/ Call("ssr", "pause", "upEnd")
    BY <1>0, <1>3, <2>1 DEF SsrUpStarted, SsrUpCommon, SsrUpHaptics, SsrUpInCall
  <2>. QED  BY <1>0, <2>1, <2>2 DEF Goto, Call
<1>4. CASE SsrTake \/ SsrUp \/ SsrUpStart
  BY <1>0, <1>4 DEF SsrTake, SsrUp, SsrUpStart, Goto, Call
<1>5. CASE SsrDownEnd \/ SsrUpEnd
  BY <1>0, <1>5 DEF SsrDownEnd, SsrUpEnd, Goto
<1>6. CASE LoseCard \/ CardBack
  BY <1>6 DEF LoseCard, CardBack
<1>. QED  BY <1>1, <1>2, <1>3, <1>4, <1>5, <1>6 DEF SsrStep

\* The steps of the client, of recovery and of the card, with a stream that has devices.
LEMMA DeviceStreamOther ==
  ASSUME Typed, HasDevices, Ordinary, Orderly, Places, HeldBack, DeviceStream,
         ClientStep \/ SsrStep \/ LoseCard \/ CardBack
  PROVE  DeviceStream'
<1>0. class \in {"common", "haptics"} /\ DeviceShape /\ w \in StreamType
      /\ w.mDevices \in SUBSET Devices
  BY DEF HasDevices, DeviceStream, DeviceShape, Typed, StreamType
<1>1. ASSUME w'.currentState = w.currentState, w'.mDevices = w.mDevices,
             w'.registered = w.registered, dev' = dev, votes' = votes
      PROVE  DeviceShape' /\ Listens' = Listens
  BY <1>0, <1>1 DEF DeviceShape, Listens
<1>2. /\ \A t \in Threads : pc[t] \in {"startRegister", "stopRun"} => Listens
      /\ pc["ssr"] = "downEnd" => w.currentState = "IDLE"
      /\ Listens => \/ w.registered = w.mDevices
                    \/ w.registered = {} /\ \E u \in Threads : pc[u] = "startRegister"
      /\ handle = "closing" /\ pc["client"] = "idle" => w.currentState = "IDLE"
      /\ handle = "closing" /\ pc["client"] = "closeRun" => ~Listens
      /\ handle = "opening" => w.currentState = "IDLE"
  BY DEF DeviceStream
<1>3. CASE ClientOpen \/ ClientDelete
  <2>1. w.currentState = "IDLE" /\ dev = NoUse /\ handle # "open"
    <3>1. w.currentState = "IDLE" /\ handle # "open"
      BY <1>2, <1>3 DEF ClientOpen, ClientDelete, ClientFree, HeldBack
    <3>. QED  BY <1>0, <3>1, ShapeIs, NoneInUse
  <2>2. /\ w'.currentState = "IDLE" /\ w'.registered = {} /\ dev' = dev /\ votes' = 0
    <3>1. w' = NewStream /\ dev' = dev /\ votes' = votes
      BY <1>3 DEF ClientOpen, ClientDelete, clientOnly
    <3>. QED  BY <1>0, <3>1, NewStreamTyped DEF Typed, DeviceShape
  <2>3. DeviceShape' /\ ~Listens'
    <3>1. dev' = UseBy(w'.mDevices, 0, 0)
      BY <2>1, <2>2, NoneInUse
    <3>. QED  BY <2>2, <3>1, ShapeOf DEF Listens
  <2>4. /\ pc["ssr"] = "idle" /\ pc["mgr"] = "idle" /\ pc["client"] = "idle"
        /\ pc'["client"] \in {"idle", "open"}
        /\ pc'["ssr"] = pc["ssr"] /\ pc'["mgr"] = pc["mgr"] /\ handle' \in {"opening", "none"}
    BY <1>3, <2>1, Alone DEF ClientOpen, ClientDelete, Goto, ClientFree, Typed, Threads
  <2>. QED  BY <2>2, <2>3, <2>4 DEF DeviceStream, DeviceShape, Threads
<1>4. CASE ClientClose \/ \E op \in scenario.Ops : ClientCall(op)
  <2>1. /\ w' \in {w, [w EXCEPT !.cachedState = "STOPPED"], [w EXCEPT !.cachedState = "IDLE"]}
        /\ dev' = dev /\ votes' = votes /\ handle' \in {"open", "closing"} /\ handle = "open"
        /\ (handle' = "closing" => Goto("client", "close")) /\ pc["client"] = "idle"
    BY <1>4 DEF ClientClose, ClientCall, clientOnly, ClientFree
  <2>2. /\ w'.currentState = w.currentState /\ w'.mDevices = w.mDevices
        /\ w'.registered = w.registered
    BY <1>0, <2>1 DEF StreamType
  <2>3. DeviceShape' /\ Listens' = Listens
    BY <1>1, <2>1, <2>2
  <2>4. /\ pc'["client"] \notin {"idle", "startRegister", "stopRun", "closeRun"}
        /\ \A u \in Threads \ {"client"} : pc'[u] = pc[u]
    <3>1. \E l \in OpsOf(class) \cup {"close"} : Goto("client", l)
      BY <1>4 DEF ClientClose, ClientCall, Ordinary
    <3>. QED  BY <1>0, <3>1 DEF OpsOf, Goto, Typed, Threads
  <2>. QED  BY <1>0, <1>2, <2>1, <2>2, <2>3, <2>4 DEF DeviceStream, DeviceShape, Threads, Listens
<1>5. CASE SsrStep \/ LoseCard \/ CardBack
  <2>1. /\ w'.mDevices = w.mDevices /\ w'.registered = w.registered
        /\ dev' = dev /\ handle' = handle /\ votes' = votes
        /\ ~SsrDownEnd => w'.currentState = w.currentState
        /\ pc'["client"] = pc["client"] /\ pc'["mgr"] = pc["mgr"]
    BY <1>0, <1>5, WalkKeeps
  <2>2. w'.currentState = w.currentState
    <3>1. ASSUME SsrDownEnd
          PROVE  w.currentState = "IDLE" /\ w'.currentState = "IDLE"
      BY <1>0, <1>2, <3>1 DEF SsrDownEnd, StreamType
    <3>. QED  BY <2>1, <3>1
  <2>3. DeviceShape' /\ Listens' = Listens
    BY <1>1, <2>1, <2>2
  <2>4. /\ pc'["ssr"] \notin {"startRegister", "stopRun"} \/ pc'["ssr"] = pc["ssr"]
        /\ pc["ssr"] \notin {"startRegister", "stopRun"} \/ pc'["ssr"] = pc["ssr"]
        /\ pc'["ssr"] = "downEnd" => w.currentState = "IDLE"
    <3>1. w.currentState \in {"IDLE", "INIT", "STARTED", "STOPPED"} /\ class # "nontunnel"
      BY <1>0 DEF DeviceShape
    <3>. QED  BY <1>2, <1>5, <3>1, WalkTo
  <2>. QED  BY <1>0, <1>2, <2>1, <2>2, <2>3, <2>4 DEF DeviceStream, DeviceShape, Threads, Listens
<1>. QED  BY <1>3, <1>4, <1>5 DEF ClientStep

-----------------------------------------------------------------------------
(* In-call streams have no devices, and non-tunnel streams only a vote.    *)

\* No step gives an in-call stream a device, a registration or a vote.
LEMMA InCallStep ==
  ASSUME Typed, class = "incall", Ordinary, Places, InCallStream, Next
  PROVE  InCallStream'
<1>0. /\ w \in StreamType /\ w.mDevices = {} /\ w.registered = {} /\ dev = NoUse /\ votes = 0
      /\ ~HasDevices
  BY DEF Typed, InCallStream, HasDevices
<1>1. ASSUME NEW t \in Threads, StreamStep(t)
      PROVE  InCallStream'
  <2>1. /\ \/ w' \in {w, Inited, Running, Ended, [w EXCEPT !.registered = w.mDevices],
                     [Ended EXCEPT !.registered = @ \ w.mDevices],
                     [w EXCEPT !.session = "none", !.currentState = "IDLE"],
                     [w EXCEPT !.currentState = "SUSPENDED", !.session = "open"]}
           \/ \E s \in State : w' \in {[w EXCEPT !.currentState = s], [w EXCEPT !.cachedState = s]}
        /\ dev' = dev \/ dev' = Stopped(dev, w.mDevices)
        /\ votes' \in {votes, AgmUnvoted}
    <3>1. CASE Open(t)
      <4>1. w' = w \/ w' = Inited \/ w' = [w EXCEPT !.currentState = "INIT"]
        BY <3>1, OpenTyped
      <4>. QED  BY <1>0, <3>1, <4>1, OpenTyped DEF Open, State
    <3>2. CASE Start(t)
      <4>1. \/ Same \/ Leaves([w EXCEPT !.cachedState = "STARTED"], dev) \/ StartInCall(t)
        BY <3>2 DEF Start
      <4>2. votes' = votes
        BY <3>2 DEF Start, AgmStarted
      <4>. QED  BY <4>1, <4>2 DEF Same, Leaves, StartInCall, State
    <3>3. CASE StartRegister(t) \/ StartUnlock(t) \/ StopRun(t) \/ Suspend(t)
      BY <3>3 DEF StartRegister, StartUnlock, StopRun, Suspend, Leaves, Same
    <3>4. CASE PauseStream(t) \/ ResumeStream(t)
      BY <3>4 DEF PauseStream, ResumeStream, Leaves, State
    <3>5. CASE Stop(t)
      BY <1>0, <3>5 DEF Stop, StopInCall, Leaves, Same
    <3>6. CASE Close(t) \/ CloseRun(t)
      BY <1>0, <3>6 DEF Close, CloseRun, IsClosed, CloseInCall, Leaves, Same, HasDevices
    <3>. QED  BY <1>1, <3>1, <3>2, <3>3, <3>4, <3>5, <3>6 DEF StreamStep
  <2>2. w'.mDevices = {} /\ w'.registered = {}
    BY <1>0, <2>1 DEF Inited, Running, Ended, StreamType
  <2>3. votes' = 0
    BY <1>0, <2>1 DEF AgmUnvoted
  <2>4. dev' = NoUse
    BY <1>0, <2>1, UseByStep
  <2>. QED  BY <2>2, <2>3, <2>4 DEF InCallStream
<1>2. CASE ClientStep
  <2>1. /\ w' \in {w, NewStream, [w EXCEPT !.cachedState = "STOPPED"],
                  [w EXCEPT !.cachedState = "IDLE"]}
        /\ dev' = dev /\ votes' = votes
    BY <1>2 DEF ClientStep, ClientOpen, ClientClose, ClientDelete, ClientCall, clientOnly
  <2>2. NewStream.mDevices = {} /\ NewStream.registered = {}
    BY <1>0, NewStreamTyped DEF Typed
  <2>3. w'.mDevices = {} /\ w'.registered = {}
    BY <1>0, <2>1, <2>2 DEF StreamType
  <2>. QED  BY <1>0, <2>1, <2>3 DEF InCallStream
<1>3. CASE SsrStep \/ LoseCard \/ CardBack
  BY <1>0, <1>3, WalkKeeps DEF InCallStream
<1>4. ~(MgrEnds \/ MgrPause \/ MgrResume \/ MgrSwitch \/ MgrProfile)
  BY DEF MgrEnds, MgrPaused, MgrEnd, MgrConnect, MgrPause, MgrResume, MgrSwitch, MgrProfile,
     MgrMay, Ordinary, Places, MgrPlace
<1>. QED  BY <1>1, <1>2, <1>3, <1>4 DEF Next

\* A non-tunnel stream votes with its start and takes the vote back when it stops.
LEMMA NonTunnelStep ==
  ASSUME Typed, class = "nontunnel", Ordinary, Places, HeldBack, NonTunnelStream, Next
  PROVE  NonTunnelStream'
<1>0. /\ w \in StreamType /\ w.mDevices = {} /\ w.registered = {} /\ dev = NoUse
      /\ w.currentState # "PAUSED" /\ votes \in {0, 1} /\ ~HasDevices
      /\ w.session = "started" <=> Listens
      /\ votes = 1 => Listens
      /\ downs = 0 => votes = N(Listens)
      /\ handle = "closing" /\ pc["client"] \in {"idle", "closeRun"} => ~Listens
      /\ handle = "opening" => ~Listens
      /\ handle = "none" => ~Listens
  BY DEF Typed, NonTunnelStream, HasDevices, HeldBack, Listens
<1>1. ASSUME NEW t \in Threads, StreamStep(t)
      PROVE  NonTunnelStream'
  <2>0. t = "client" /\ Others(t) /\ downs' = downs
    <3>1. pc["mgr"] = "idle"
      BY DEF Places, MgrPlace
    <3>2. t # "ssr"
      BY <1>1, Handler DEF Places, SsrPlace
    <3>3. Others(t)
      BY <1>1, StreamStepPlaces, OpenPlaces
    <3>4. downs' = downs
      BY <1>1 DEF StreamStep, Open, Start, StartRegister, StartUnlock, Stop, StopRun, Suspend,
         PauseStream, ResumeStream, Close, CloseRun, outside, card
    <3>. QED  BY <1>1, <3>1, <3>2, <3>3, <3>4, Handler DEF Threads
  <2>1. /\ handle' # "opening"
        /\ handle' = "closing" /\ pc'["client"] = "idle" => Close(t) \/ CloseRun(t)
        /\ handle' = "closing" /\ pc'["client"] = "closeRun" => Stop(t) \/ StopRun(t)
    BY <1>1, <2>0, ClientEnds
  <2>2. pc[t] \notin {"startRegister", "startUnlock", "startFailed", "stopRun", "pause", "resume"}
    BY <1>0, <2>0 DEF Places, ClientPlace, Typed, AfterStart, AfterStop, Ordinary, OpsOf
  <2>3. Open(t) \/ Start(t) \/ Stop(t) \/ Suspend(t) \/ Close(t) \/ CloseRun(t)
    BY <1>1, <2>2, Handler
  <2>4. /\ t \in Threads /\ Listens = (w.currentState = "STARTED")
        /\ CloseRun(t) => ~Listens
    <3>1. CloseRun(t) => handle = "closing" /\ pc["client"] = "closeRun"
      BY <1>0, <2>0 DEF CloseRun, Places, ClientPlace, Typed, AfterStart, AfterStop, Ordinary, OpsOf
    <3>. QED  BY <1>0, <3>1 DEF Listens
  <2>5. \/ w' = w /\ dev' = dev /\ votes' = votes /\ ~CloseRun(t) /\ (Stop(t) => ~Listens)
           /\ (Close(t) => Call(t, "stop", "closeRun") \/ ~Listens)
        \/ w' = Inited /\ dev' = dev /\ votes' = votes /\ w.currentState = "IDLE"
        \/ w' = Running /\ dev' = dev /\ votes' = AgmStarted(w.session, w'.session) /\ ~Listens
           /\ Start(t)
        \/ w' = Ended /\ dev' = dev /\ votes' = AgmUnvoted /\ Listens
        \/ w' = [w EXCEPT !.currentState = "SUSPENDED", !.session = "open"] /\ dev' = dev
           /\ votes' = AgmUnvoted /\ Listens
        \/ w' = [w EXCEPT !.session = "none", !.currentState = "IDLE"] /\ dev' = dev
           /\ votes' = votes /\ ~Listens
    <3>1. CASE Open(t)
      <4>1. \/ w' = w /\ dev' = dev
            \/ w' = Inited /\ dev' = dev /\ w.currentState = "IDLE"
        <5>1. PICK o \in IF ~CardUp \/ w.currentState \notin {"IDLE", "INIT"}
                           THEN {Outcome(FALSE, w, dev)}
                         ELSE IF w.currentState = "INIT" THEN {Outcome(TRUE, w, dev)}
                         ELSE OpenIdle :
                Leaves(o.w, o.dev)
          BY <3>1 DEF Open
        <5>2. \/ o.w = w /\ o.dev = dev
              \/ o.w = Inited /\ o.dev = dev /\ w.currentState = "IDLE"
          <6>1. \/ o \in {Outcome(FALSE, w, dev), Outcome(TRUE, w, dev)}
                \/ /\ w.currentState = "IDLE"
                   /\ \E ok \in BOOLEAN : o = Outcome(ok, IF ok THEN Inited ELSE w, dev)
            <7>1. OpenIdle = OpenNonTunnel
              BY <1>0 DEF OpenIdle
            <7>2. OpenNonTunnel \subseteq
                    {Outcome(FALSE, w, dev)}
                      \cup {Outcome(ok, IF ok THEN Inited ELSE w, dev) : ok \in BOOLEAN}
              BY DEF OpenNonTunnel, AgmOpen
            <7>. QED  BY <5>1, <7>1, <7>2
          <6>. QED  BY <6>1 DEF Outcome
        <5>. QED  BY <5>1, <5>2 DEF Leaves
      <4>2. votes' = votes /\ ~CloseRun(t) /\ ~Stop(t) /\ ~Close(t)
        BY <3>1 DEF Open, CloseRun, Stop, Close
      <4>. QED  BY <4>1, <4>2
    <3>2. CASE Start(t)
      <4>1. \/ w' = w /\ dev' = dev
            \/ w' = Running /\ dev' = dev /\ ~Listens
        BY <1>0, <3>2 DEF Start, Same, StartNonTunnel, Leaves, Listens
      <4>2. votes' = AgmStarted(w.session, w'.session) /\ ~CloseRun(t) /\ ~Stop(t) /\ ~Close(t)
        BY <3>2 DEF Start, CloseRun, Stop, Close
      <4>3. w' = w => votes' = votes
        BY <4>2 DEF AgmStarted
      <4>. QED  BY <3>2, <4>1, <4>2, <4>3
    <3>3. CASE Stop(t)
      <4>1. CASE Listens
        BY <1>0, <3>3, <4>1 DEF Stop, StopNonTunnel, Leaves, Listens, Stoppable
      <4>2. CASE ~Listens
        <5>1. w' = w /\ dev' = dev /\ votes' = votes
          BY <1>0, <3>3, <4>2 DEF Stop, Same, Listens, Stoppable
        <5>2. ~CloseRun(t) /\ ~Close(t)
          BY <3>3 DEF Stop, CloseRun, Close
        <5>. QED  BY <4>2, <5>1, <5>2
      <4>. QED  BY <4>1, <4>2
    <3>4. CASE Suspend(t)
      <4>1. \/ w' = w /\ dev' = dev /\ votes' = votes
            \/ w' = [w EXCEPT !.currentState = "SUSPENDED", !.session = "open"] /\ dev' = dev
               /\ votes' = AgmUnvoted /\ Listens
        BY <3>4 DEF Suspend, Same, Leaves, Listens
      <4>2. ~CloseRun(t) /\ ~Stop(t) /\ ~Close(t)
        BY <3>4 DEF Suspend, CloseRun, Stop, Close
      <4>. QED  BY <4>1, <4>2
    <3>5. CASE Close(t)
      <4>1. \/ w' = w /\ dev' = dev /\ (Call(t, "stop", "closeRun") \/ ~Listens)
            \/ w' = [w EXCEPT !.session = "none", !.currentState = "IDLE"] /\ dev' = dev
               /\ ~Listens
        BY <1>0, <3>5 DEF Close, Same, CloseNonTunnel, IsClosed, CloseInCall, Leaves, Listens,
           Stoppable
      <4>2. votes' = votes /\ ~CloseRun(t) /\ ~Stop(t)
        BY <3>5 DEF Close, CloseRun, Stop
      <4>. QED  BY <4>1, <4>2
    <3>6. CASE CloseRun(t)
      BY <1>0, <2>4, <3>6 DEF CloseRun, IsClosed, CloseInCall, Leaves
    <3>. QED  BY <2>3, <3>1, <3>2, <3>3, <3>4, <3>5, <3>6
  <2>6. /\ dev' = NoUse /\ w'.mDevices = {} /\ w'.registered = {} /\ w'.currentState # "PAUSED"
        /\ w'.session = "started" <=> w'.currentState = "STARTED"
    BY <1>0, <2>4, <2>5 DEF Inited, Running, Ended, StreamType
  <2>7. /\ votes' \in {0, 1}
        /\ votes' = 1 => w'.currentState = "STARTED"
        /\ downs' = 0 => votes' = N(w'.currentState = "STARTED")
    <3>1. /\ Inited.currentState = "INIT" /\ Running.currentState = "STARTED"
          /\ Ended.currentState = "STOPPED" /\ Running.session = "started"
      BY <1>0 DEF Inited, Running, Ended, StreamType
    <3>2. [w EXCEPT !.currentState = "SUSPENDED", !.session = "open"].currentState = "SUSPENDED"
      BY <1>0 DEF StreamType
    <3>3. [w EXCEPT !.session = "none", !.currentState = "IDLE"].currentState = "IDLE"
      BY <1>0 DEF StreamType
    <3>4. w' = Running /\ ~Listens => AgmStarted(w.session, w'.session) = votes + 1
      BY <1>0, <3>1 DEF AgmStarted
    <3>5. AgmUnvoted = 0
      BY <1>0 DEF AgmUnvoted
    <3>6. \/ votes' = votes /\ (Listens <=> w'.currentState = "STARTED")
          \/ votes' = 1 /\ w'.currentState = "STARTED"
          \/ votes' = 0 /\ w'.currentState # "STARTED"
      <4>1. ~Listens => votes = 0
        BY <1>0
      <4>2. CASE w' = w /\ votes' = votes
        BY <2>4, <4>2
      <4>3. CASE w' = Inited /\ votes' = votes /\ w.currentState = "IDLE"
        BY <2>4, <3>1, <4>3
      <4>4. CASE w' = Running /\ votes' = AgmStarted(w.session, w'.session) /\ ~Listens
        BY <3>1, <3>4, <4>1, <4>4
      <4>5. CASE w' = Ended /\ votes' = AgmUnvoted
        BY <3>1, <3>5, <4>5
      <4>6. CASE w' = [w EXCEPT !.currentState = "SUSPENDED", !.session = "open"]
                 /\ votes' = AgmUnvoted
        BY <3>2, <3>5, <4>6
      <4>7. CASE w' = [w EXCEPT !.session = "none", !.currentState = "IDLE"]
                 /\ votes' = votes /\ ~Listens
        BY <3>3, <4>7
      <4>. QED  BY <2>5, <4>2, <4>3, <4>4, <4>5, <4>6, <4>7
    <3>7. CASE Listens
      BY <1>0, <2>0, <3>6, <3>7 DEF N
    <3>8. CASE ~Listens
      BY <1>0, <2>0, <3>6, <3>8 DEF N
    <3>. QED  BY <3>7, <3>8
  <2>8. ASSUME handle' = "closing", pc'["client"] \in {"idle", "closeRun"}
        PROVE  w'.currentState # "STARTED"
    <3>1. Close(t) \/ CloseRun(t) \/ Stop(t)
      <4>1. ~StopRun(t)
        BY <2>2 DEF StopRun
      <4>. QED  BY <2>1, <2>8, <4>1
    <3>2. ~Start(t)
      BY <3>1 DEF Start, Close, CloseRun, Stop
    <3>3. Close(t) => ~Call(t, "stop", "closeRun")
      BY <2>0, <2>8 DEF Call, Typed
    <3>. QED  BY <1>0, <2>4, <2>5, <3>1, <3>2, <3>3 DEF Inited, Ended, StreamType
  <2>9. Listens' = (w'.currentState = "STARTED")
    BY DEF Listens
  <2>. QED  BY <2>1, <2>6, <2>7, <2>8, <2>9 DEF NonTunnelStream
<1>2. CASE ClientStep
  <2>1. NewStream.mDevices = {} /\ NewStream.registered = {} /\ NewStream.session = "none"
        /\ NewStream.currentState = "IDLE"
    BY <1>0, NewStreamTyped DEF Typed, NewStream, NewNonTunnel, NewCommon
  <2>2. dev' = dev /\ votes' = votes /\ downs' = downs
    BY <1>2 DEF ClientStep, ClientOpen, ClientClose, ClientDelete, ClientCall, clientOnly, card
  <2>3. CASE ClientOpen \/ ClientDelete
    <3>1. w' = NewStream /\ ~Listens
      BY <1>0, <2>3 DEF ClientOpen, ClientDelete, ClientFree
    <3>2. w'.currentState # "STARTED" /\ w'.mDevices = {} /\ w'.registered = {}
          /\ w'.session # "started" /\ w'.currentState # "PAUSED"
      BY <2>1, <3>1
    <3>3. ~Listens'
      BY <3>2 DEF Listens
    <3>. QED  BY <1>0, <2>2, <3>1, <3>2, <3>3 DEF NonTunnelStream, N
  <2>4. CASE ClientClose \/ \E op \in scenario.Ops : ClientCall(op)
    <3>1. /\ w' \in {w, [w EXCEPT !.cachedState = "STOPPED"], [w EXCEPT !.cachedState = "IDLE"]}
          /\ handle' \in {"open", "closing"} /\ handle = "open"
          /\ handle' = "closing" => Goto("client", "close")
      BY <2>4 DEF ClientClose, ClientCall
    <3>2. /\ w'.currentState = w.currentState /\ w'.mDevices = w.mDevices
          /\ w'.registered = w.registered /\ w'.session = w.session
      BY <1>0, <3>1 DEF StreamType
    <3>3. handle' = "closing" => pc'["client"] = "close"
      BY <3>1 DEF Goto, Typed, Threads
    <3>4. Listens' = Listens
      BY <3>2 DEF Listens
    <3>. QED  BY <1>0, <2>2, <3>1, <3>2, <3>3, <3>4 DEF NonTunnelStream
  <2>. QED  BY <1>2, <2>3, <2>4 DEF ClientStep
<1>3. CASE SsrStep \/ LoseCard \/ CardBack
  <2>1. /\ w'.mDevices = w.mDevices /\ w'.registered = w.registered /\ w'.session = w.session
        /\ dev' = dev /\ handle' = handle /\ pc'["client"] = pc["client"]
    BY <1>3, WalkKeeps
  <2>2. w'.currentState = w.currentState
    <3>1. SsrDownEnd => w' = w
      BY DEF SsrDownEnd
    <3>. QED  BY <1>3, <3>1, WalkKeeps
  <2>3. Listens' = Listens
    BY <2>2 DEF Listens
  <2>4. \/ votes' = votes /\ (downs' = 0 => downs = 0)
        \/ votes' = AgmUnvoted /\ downs' # 0
    <3>1. CASE SsrDown
      <4>1. downs > 0 /\ downs' = downs
        BY <3>1 DEF SsrDown, Places, SsrPlace, card
      <4>2. votes' = AgmUnvoted
        BY <1>0, <3>1 DEF SsrDown, SsrDownNonTunnel
      <4>. QED  BY <4>1, <4>2 DEF Typed
    <3>2. ASSUME ~SsrDown, SsrStep \/ CardBack
          PROVE  votes' = votes /\ downs' = downs
      BY <3>2 DEF SsrStep, CardBack, SsrTake, SsrRelock, SsrDownEnd, SsrUp, SsrUpStart,
         SsrUpStarted, SsrUpEnd, card
    <3>3. CASE LoseCard
      BY <3>3 DEF LoseCard, Typed
    <3>. QED  BY <1>3, <3>1, <3>2, <3>3
  <2>5. /\ votes' \in {0, 1} /\ (votes' = 1 => Listens) /\ (downs' = 0 => votes' = N(Listens))
    BY <1>0, <2>4 DEF AgmUnvoted
  <2>. QED  BY <1>0, <2>1, <2>2, <2>3, <2>5 DEF NonTunnelStream
<1>4. ~(MgrEnds \/ MgrPause \/ MgrResume \/ MgrSwitch \/ MgrProfile)
  BY DEF MgrEnds, MgrPaused, MgrEnd, MgrConnect, MgrPause, MgrResume, MgrSwitch, MgrProfile,
     MgrMay, Ordinary, Places, MgrPlace
<1>. QED  BY <1>1, <1>2, <1>3, <1>4 DEF Next

-----------------------------------------------------------------------------
(* A sensor stream.                                                        *)

\* The use of its devices by state.
LEMMA SensorShapeIs ==
  ASSUME SensorShape
  PROVE  /\ Listens => dev = UseBy(w.mDevices, 1, 1) /\ w.registered = w.mDevices
         /\ ~Listens => dev = NoUse /\ w.registered = {}
<1>1. CASE Listens
  BY <1>1 DEF SensorShape, N
<1>2. CASE ~Listens
  BY <1>2, NoneInUse DEF SensorShape, N
<1>. QED  BY <1>1, <1>2

\* And the state by use.
LEMMA SensorShapeOf ==
  ASSUME votes' = 0, w'.currentState # "SUSPENDED",
         \/ /\ w'.currentState = "STARTED" /\ dev' = UseBy(w'.mDevices, 1, 1)
            /\ w'.registered = w'.mDevices
         \/ w'.currentState # "STARTED" /\ dev' = NoUse /\ w'.registered = {}
  PROVE  SensorShape'
<1>1. Listens' <=> w'.currentState = "STARTED"
  BY DEF Listens
<1>2. CASE w'.currentState = "STARTED"
  BY <1>1, <1>2 DEF SensorShape, UseBy, N
<1>3. CASE w'.currentState # "STARTED"
  BY <1>1, <1>3 DEF SensorShape, UseBy, N, NoUse
<1>. QED  BY <1>2, <1>3

\* What a handler of the stream makes of it, and how it goes on.
SensorEffect(t) ==
  \/ /\ pc[t] = "open" /\ Open(t)
     /\ \/ /\ CardUp /\ w.currentState \in {"IDLE", "INIT"} /\ Opens(t)
           /\ w'.currentState = "INIT" /\ w'.mDevices = w.mDevices
        \/ /\ ~(CardUp /\ w.currentState \in {"IDLE", "INIT"}) /\ OpenFails(t)
           /\ w' = w
  \/ /\ pc[t] = "start" /\ Start(t)
     /\ \/ /\ w'.currentState = w.currentState /\ w'.mDevices = w.mDevices /\ Ends(t)
           /\ t = "ssr" => \E said : Return(t, said)
        \/ /\ w'.currentState = "STARTED" /\ w'.mDevices = Devices /\ CardUp /\ ~w.paused_
           /\ w.currentState \in {"INIT", "STOPPED", "PAUSED"} /\ Return(t, "started")
  \/ /\ pc[t] = "stop" /\ Stop(t) /\ w'.mDevices = w.mDevices
     /\ \/ w.currentState \in Stoppable /\ w'.currentState = "STOPPED" /\ Return(t, "stopped")
        \/ /\ w.currentState \notin Stoppable /\ w'.currentState = w.currentState
           /\ w.currentState \in {"STOPPED", "IDLE"} \/ t = "ssr" => \E said : Return(t, said)
           /\ w.currentState \notin {"STOPPED", "IDLE"} /\ t = "mgr" => Fail(t)
           /\ Ends(t)
  \/ /\ pc[t] = "close" /\ Close(t) /\ w'.mDevices = w.mDevices
     /\ \/ Listens /\ w'.currentState = w.currentState /\ Call(t, "stop", "closeRun")
        \/ ~Listens /\ w'.currentState = "IDLE" /\ Return(t, "")
  \/ /\ pc[t] = "closeRun" /\ CloseRun(t) /\ w'.mDevices = w.mDevices
     /\ t = "client" /\ handle = "closing" /\ w'.currentState = "IDLE" /\ Return(t, "")

\* Each handler keeps the use of the devices in step with the state.
LEMMA SensorHandlers ==
  ASSUME Typed, class = "sensor", Ordinary, Orderly, Places, SensorStream, SensorLocks,
         NEW t \in Threads, StreamStep(t)
  PROVE  /\ SensorShape' /\ SensorEffect(t)
         /\ mStreamMutex' = mStreamMutex /\ mActiveStreamMutex' = mActiveStreamMutex
         /\ pc["mgr"] \notin {"connect", "connectSame"}
<1>0. /\ w \in StreamType /\ dev \in UseType /\ w.mDevices \in SUBSET Devices /\ ~HasDevices
      /\ class = "sensor" /\ class # "incall" /\ class # "nontunnel" /\ votes = 0
      /\ w.currentState \in {"IDLE", "INIT", "STARTED", "STOPPED", "PAUSED"}
  BY DEF Typed, StreamType, HasDevices, SensorStream, SensorShape, State
<1>1. /\ Listens => dev = UseBy(w.mDevices, 1, 1) /\ w.registered = w.mDevices
      /\ ~Listens => dev = NoUse /\ w.registered = {}
      /\ Listens <=> w.currentState = "STARTED"
  BY SensorShapeIs DEF SensorStream, Listens
<1>2. pc[t] \in {"open", "start", "stop", "close", "closeRun"}
  <2>1. CASE t = "client"
    BY <1>0, <2>1, Handler DEF Places, ClientPlace, AfterStart, AfterStop, Ordinary, OpsOf, Typed
  <2>2. CASE t = "ssr"
    BY <1>0, <2>2, Handler DEF Places, SsrPlace, Falling, Rising, AfterStart, AfterStop
  <2>3. CASE t = "mgr"
    BY <1>0, <2>3, Handler DEF Places, MgrPlace
  <2>. QED  BY <2>1, <2>2, <2>3 DEF Threads
<1>3. pc["mgr"] \notin {"connect", "connectSame"}
  <2>1. pc["mgr"] \in {"connect", "connectSame"} => ~StreamFree
    BY NoneAssumption DEF SensorLocks, StreamFree, Threads
  <2>2. StreamFree
    BY <1>2, Handler DEF Open, Start, Stop, Close, CloseRun
  <2>. QED  BY <2>1, <2>2
<1>4. mStreamMutex' = mStreamMutex /\ mActiveStreamMutex' = mActiveStreamMutex
  <2>1. ASSUME Close(t)
        PROVE  mStreamMutex' = mStreamMutex
    BY <1>0, <2>1 DEF Close
  <2>2. Open(t) \/ Start(t) \/ Stop(t) \/ Close(t) \/ CloseRun(t)
    BY <1>2, Handler
  <2>. QED  BY <2>1, <2>2 DEF Open, Start, Stop, Close, CloseRun, outside, locks
<1>5. ASSUME w'.currentState = w.currentState, w'.mDevices = w.mDevices,
             w'.registered = w.registered, dev' = dev, votes' = votes
      PROVE  SensorShape'
  BY <1>0, <1>1, <1>5, SensorShapeOf
<1>6. CASE pc[t] = "open"
  <2>1. Open(t) /\ votes' = votes
    BY <1>6, Handler DEF Open
  <2>2. CASE CardUp /\ w.currentState = "IDLE"
    <3>1. OpenIdle = {Outcome(TRUE, [w EXCEPT !.currentState = "INIT"], dev)}
      BY <1>0 DEF OpenIdle, OpenSensor
    <3>2. Leaves([w EXCEPT !.currentState = "INIT"], dev) /\ Opens(t)
      BY <2>1, <2>2, <3>1 DEF Open, Outcome
    <3>3. w'.currentState = "INIT" /\ w'.mDevices = w.mDevices /\ w'.registered = w.registered
          /\ dev' = dev
      BY <1>0, <3>2 DEF Leaves, StreamType
    <3>4. SensorShape'
      BY <1>0, <1>1, <2>1, <2>2, <3>3, SensorShapeOf
    <3>. QED  BY <1>3, <1>4, <1>6, <2>1, <2>2, <3>2, <3>3, <3>4 DEF SensorEffect
  <2>3. CASE CardUp /\ w.currentState = "INIT"
    <3>1. Leaves(w, dev) /\ Opens(t)
      BY <2>1, <2>3 DEF Open, Outcome
    <3>. QED  BY <1>3, <1>4, <1>5, <1>6, <2>1, <2>3, <3>1 DEF SensorEffect, Leaves
  <2>4. CASE ~(CardUp /\ w.currentState \in {"IDLE", "INIT"})
    <3>1. Leaves(w, dev) /\ OpenFails(t)
      BY <2>1, <2>4 DEF Open, Outcome
    <3>. QED  BY <1>3, <1>4, <1>5, <1>6, <2>1, <2>4, <3>1 DEF SensorEffect, Leaves
  <2>. QED  BY <2>2, <2>3, <2>4
<1>7. CASE pc[t] = "start"
  <2>1. Start(t) /\ votes' = votes
    BY <1>0, <1>7, Handler DEF Start, AgmStarted
  <2>2. \/ w' = w /\ dev' = dev /\ Ends(t) /\ (t = "ssr" => \E said : Return(t, said))
        \/ Leaves([w EXCEPT !.cachedState = "STARTED"], dev) /\ Return(t, "started")
        \/ /\ CardUp /\ ~w.paused_ /\ w.currentState \in {"INIT", "STOPPED", "PAUSED"}
           /\ StartSensor(t)
    <3>1. ASSUME t = "ssr"
          PROVE  w.currentState # "IDLE" /\ CardUp
      BY <1>0, <1>7, <3>1 DEF SensorStream, SensorSsr, Places, SsrPlace, Falling, AfterStop
    <3>2. CASE w.paused_ \/ ~CardUp \/ w.currentState = "STARTED"
      BY <1>0, <2>1, <3>2 DEF Start, EndStart, Same, Ends
    <3>3. CASE ~w.paused_ /\ CardUp /\ w.currentState = "IDLE"
      BY <1>0, <2>1, <3>1, <3>3 DEF Start, EndStart, Same, Ends, Startable
    <3>4. CASE ~w.paused_ /\ CardUp /\ w.currentState \in {"INIT", "STOPPED", "PAUSED"}
      BY <1>0, <2>1, <3>4 DEF Start, Startable
    <3>. QED  BY <1>0, <3>2, <3>3, <3>4
  <2>3. CASE w' = w /\ dev' = dev /\ Ends(t) /\ (t = "ssr" => \E said : Return(t, said))
    BY <1>3, <1>4, <1>5, <1>7, <2>1, <2>3 DEF SensorEffect
  <2>4. CASE Leaves([w EXCEPT !.cachedState = "STARTED"], dev) /\ Return(t, "started")
    <3>1. w'.currentState = w.currentState /\ w'.mDevices = w.mDevices
          /\ w'.registered = w.registered /\ dev' = dev
      BY <1>0, <2>4 DEF Leaves, StreamType
    <3>. QED  BY <1>3, <1>4, <1>5, <1>7, <2>1, <2>4, <3>1 DEF SensorEffect, Ends
  <2>5. CASE /\ CardUp /\ ~w.paused_ /\ w.currentState \in {"INIT", "STOPPED", "PAUSED"}
             /\ StartSensor(t)
    <3>1. \A f \in scenario.Faults : f = "deviceOpen"
      BY <1>0 DEF Orderly
    <3>2. \/ w' = w /\ dev' = dev /\ Fail(t) /\ "deviceOpen" \in scenario.Faults
          \/ \E y \in {w, [w EXCEPT !.mDevices = Devices, !.session = "open"]} :
               /\ Return(t, "started")
               /\ Leaves([y EXCEPT !.session = "started", !.currentState = "STARTED",
                                   !.registered = Devices],
                         Started(Opened(dev, Devices), Devices))
               /\ y.mDevices = Devices
      <4>1. PICK f \in {"none", "deviceOpen", "sessionOpen", "deviceStart", "sessionStart"} :
              LET fresh == w.currentState # "PAUSED"
                  x == IF fresh THEN [w EXCEPT !.mDevices = Devices] ELSE w
                  y == IF fresh THEN [x EXCEPT !.session = "open"] ELSE x
              IN /\ May(f)
                 /\ CASE f = "deviceOpen" -> Fail(t) /\ Same
                      [] f = "sessionOpen" -> TRUE
                      [] f \in {"deviceStart", "sessionStart"} -> TRUE
                      [] f = "none" ->
                           /\ Return(t, "started")
                           /\ Leaves([y EXCEPT !.session = "started", !.currentState = "STARTED",
                                               !.registered = Devices],
                                     Started(Opened(dev, Devices), Devices))
        BY <2>5 DEF StartSensor
      <4>2. f \in {"none", "deviceOpen"}
        BY <3>1, <4>1 DEF May
      <4>3. CASE f = "deviceOpen"
        BY <4>1, <4>3 DEF May, Same
      <4>4. CASE f = "none" /\ w.currentState = "PAUSED"
        <5>1. w.mDevices = Devices
          BY <1>3, <4>4 DEF SensorStream
        <5>. QED  BY <4>1, <4>4, <5>1
      <4>5. CASE f = "none" /\ w.currentState # "PAUSED"
        <5>1. LET y == [[w EXCEPT !.mDevices = Devices] EXCEPT !.session = "open"]
              IN /\ y = [w EXCEPT !.mDevices = Devices, !.session = "open"]
                 /\ y.mDevices = Devices
          BY <1>0 DEF StreamType
        <5>. QED  BY <4>1, <4>5, <5>1
      <4>. QED  BY <4>2, <4>3, <4>4, <4>5
    <3>3. CASE w' = w /\ dev' = dev /\ Fail(t) /\ "deviceOpen" \in scenario.Faults
      <4>1. t # "ssr"
        BY <1>0, <1>7, <3>3, ScenariosAssumption DEF Orderly, Places, SsrPlace, Typed
      <4>. QED  BY <1>3, <1>4, <1>5, <1>7, <2>1, <3>3, <4>1 DEF SensorEffect, Ends
    <3>4. ASSUME NEW y \in {w, [w EXCEPT !.mDevices = Devices, !.session = "open"]},
                 Return(t, "started"),
                 Leaves([y EXCEPT !.session = "started", !.currentState = "STARTED",
                                  !.registered = Devices],
                        Started(Opened(dev, Devices), Devices)),
                 y.mDevices = Devices
          PROVE  SensorShape' /\ SensorEffect(t)
      <4>1. /\ w'.currentState = "STARTED" /\ w'.mDevices = Devices /\ w'.registered = Devices
            /\ dev' = Started(Opened(dev, Devices), Devices)
        BY <1>0, <3>4 DEF Leaves, StreamType
      <4>2. dev' = UseBy(Devices, 1, 1)
        <5>1. dev = NoUse
          BY <1>1, <2>5
        <5>. QED  BY <1>0, <4>1, <5>1, UseByStep
      <4>3. SensorShape'
        BY <1>0, <2>1, <4>1, <4>2, SensorShapeOf
      <4>. QED  BY <1>7, <2>1, <2>5, <3>4, <4>1, <4>3 DEF SensorEffect
    <3>. QED  BY <1>3, <1>4, <3>2, <3>3, <3>4
  <2>. QED  BY <2>2, <2>3, <2>4, <2>5
<1>8. CASE pc[t] = "stop"
  <2>1. Stop(t) /\ votes' = votes
    BY <1>0, <1>8, Handler DEF Stop
  <2>2. CASE w.currentState \in Stoppable
    <3>1. Return(t, "stopped")
          /\ Leaves([Ended EXCEPT !.registered = @ \ w.mDevices],
                    Closed(Stopped(dev, w.mDevices), w.mDevices))
      BY <1>0, <2>1, <2>2 DEF Stop, StopSensor
    <3>2. /\ w'.currentState = "STOPPED" /\ w'.mDevices = w.mDevices
          /\ w'.registered = w.registered \ w.mDevices
          /\ dev' = Closed(Stopped(dev, w.mDevices), w.mDevices)
      BY <1>0, <3>1 DEF Leaves, Ended, StreamType
    <3>3. w'.registered = {} /\ dev' = NoUse
      <4>1. CASE Listens
        <5>1. Stopped(dev, w.mDevices) = UseBy(w.mDevices, 1, 0)
          BY <1>0, <1>1, <4>1, UseByStep
        <5>. QED  BY <1>0, <1>1, <3>2, <4>1, <5>1, UseByStep
      <4>2. CASE ~Listens
        <5>1. Stopped(dev, w.mDevices) = NoUse
          BY <1>0, <1>1, <4>2, UseByStep
        <5>. QED  BY <1>0, <1>1, <3>2, <4>2, <5>1, UseByStep
      <4>. QED  BY <4>1, <4>2
    <3>4. SensorShape'
      BY <1>0, <2>1, <3>2, <3>3, SensorShapeOf
    <3>. QED  BY <1>3, <1>4, <1>8, <2>1, <2>2, <3>1, <3>2, <3>4 DEF SensorEffect
  <2>3. CASE w.currentState \notin Stoppable
    <3>1. /\ w' = w /\ dev' = dev /\ Ends(t)
          /\ w.currentState \in {"STOPPED", "IDLE"} \/ t = "ssr" => \E said : Return(t, said)
          /\ w.currentState \notin {"STOPPED", "IDLE"} /\ t = "mgr" => Fail(t)
      BY <2>1, <2>3 DEF Stop, Same, Ends
    <3>. QED  BY <1>3, <1>4, <1>5, <1>8, <2>1, <2>3, <3>1 DEF SensorEffect
  <2>. QED  BY <2>2, <2>3
<1>9. ASSUME IsClosed(t), votes' = votes, ~Listens
      PROVE  SensorShape' /\ w'.currentState = "IDLE" /\ w'.mDevices = w.mDevices /\ Return(t, "")
  <2>1. Return(t, "")
        /\ Leaves([w EXCEPT !.session = "none", !.currentState = "IDLE"], dev)
    BY <1>0, <1>9 DEF IsClosed, CloseSensor
  <2>2. /\ w'.currentState = "IDLE" /\ w'.mDevices = w.mDevices
        /\ w'.registered = w.registered /\ dev' = dev
    BY <1>0, <2>1 DEF Leaves, StreamType
  <2>3. SensorShape'
    BY <1>0, <1>1, <1>9, <2>2, SensorShapeOf
  <2>. QED  BY <2>1, <2>2, <2>3
<1>10. CASE pc[t] = "close"
  <2>1. Close(t) /\ votes' = votes
    BY <1>10, Handler DEF Close
  <2>2. CASE w.currentState = "IDLE"
    <3>1. Return(t, "") /\ Same
      BY <2>1, <2>2 DEF Close
    <3>. QED  BY <1>1, <1>3, <1>4, <1>5, <1>10, <2>1, <2>2, <3>1 DEF SensorEffect, Same
  <2>3. CASE w.currentState = "STARTED"
    <3>1. Call(t, "stop", "closeRun") /\ Same
      BY <1>0, <2>1, <2>3 DEF Close, Stoppable
    <3>. QED  BY <1>1, <1>3, <1>4, <1>5, <1>10, <2>1, <2>3, <3>1 DEF SensorEffect, Same
  <2>4. CASE w.currentState \in {"INIT", "STOPPED", "PAUSED"}
    <3>1. IsClosed(t)
      BY <1>0, <2>1, <2>4 DEF Close, Stoppable
    <3>. QED  BY <1>1, <1>3, <1>4, <1>9, <1>10, <2>1, <2>4, <3>1 DEF SensorEffect
  <2>. QED  BY <1>0, <2>2, <2>3, <2>4
<1>11. CASE pc[t] = "closeRun"
  <2>1. CloseRun(t) /\ votes' = votes /\ IsClosed(t)
    BY <1>11, Handler DEF CloseRun
  <2>2. t = "client" /\ handle = "closing"
    <3>1. t # "ssr" /\ t # "mgr"
      BY <1>11 DEF Places, SsrPlace, MgrPlace, Falling, Rising, AfterStart, AfterStop
    <3>. QED  BY <1>0, <1>11, <3>1 DEF Places, ClientPlace, AfterStart, AfterStop, Ordinary, OpsOf,
                Threads, Typed
  <2>3. ~Listens
    BY <1>11, <2>2 DEF SensorStream, SensorClient
  <2>. QED  BY <1>3, <1>4, <1>9, <1>11, <2>1, <2>2, <2>3 DEF SensorEffect
<1>. QED  BY <1>2, <1>6, <1>7, <1>8, <1>10, <1>11

\* While the stream is open, a handler of the client or of the manager leaves recovery
\* where it may go on.
LEMMA SensorBeside ==
  ASSUME Typed, class = "sensor", Ordinary, Orderly, Places, SensorStream, SensorLocks,
         NEW t \in {"client", "mgr"}, StreamStep(t), Others(t), handle = "open"
  PROVE  /\ SensorSsr' /\ handle' = "open" /\ pc[t] \in {"start", "stop"}
         /\ w'.currentState = "IDLE" <=> w.currentState = "IDLE"
<1>0. t \in Threads /\ Threads = {"client", "ssr", "mgr"}
  BY DEF Threads
<1>1. SensorEffect(t)
  BY <1>0, SensorHandlers
<1>2. pc[t] \in {"start", "stop"}
  <2>1. CASE t = "client"
    BY <1>0, <2>1, Handler DEF Places, ClientPlace, AfterStart, AfterStop, Ordinary, OpsOf, HasDevices
  <2>2. CASE t = "mgr"
    BY <1>0, <2>2, Handler DEF Places, MgrPlace
  <2>. QED  BY <2>1, <2>2
<1>3. \/ w'.currentState = w.currentState
      \/ w'.currentState = "STARTED" /\ CardUp /\ w.currentState \in {"INIT", "STOPPED", "PAUSED"}
      \/ w'.currentState = "STOPPED" /\ w.currentState \in {"STARTED", "PAUSED"}
  BY <1>1, <1>2 DEF SensorEffect, Stoppable
<1>4. handle' = "open" /\ cardState' = cardState
  BY <1>0, <1>2, Handler DEF Start, Stop, outside, card
<1>5. pc'["ssr"] = pc["ssr"]
  BY <1>0 DEF Others
<1>6. pc["ssr"] \in {"relock", "close"} => ~CardUp
  BY DEF Places, SsrPlace, Rising, AfterStart
<1>7. SensorSsr
  BY DEF SensorStream
<1>8. SensorSsr'
  BY <1>3, <1>4, <1>5, <1>6, <1>7 DEF SensorSsr, CardUp
<1>. QED  BY <1>2, <1>3, <1>4, <1>8

\* The devices a sensor stream has once it has been started.
LEMMA SensorDevices ==
  ASSUME Typed, class = "sensor", Ordinary, Orderly, Places, SensorStream, SensorLocks,
         NEW t \in Threads, StreamStep(t)
  PROVE  w'.currentState \in {"STARTED", "STOPPED", "PAUSED"} => w'.mDevices = Devices
<1>1. SensorEffect(t) /\ pc["mgr"] # "connect"
  BY SensorHandlers
<1>2. w.currentState \in {"STARTED", "STOPPED", "PAUSED"} => w.mDevices = Devices
  BY <1>1 DEF SensorStream
<1>3. w' = w => w'.currentState = w.currentState /\ w'.mDevices = w.mDevices
  OBVIOUS
<1>. QED  BY <1>1, <1>2, <1>3 DEF SensorEffect, Stoppable

\* A handler of the client.
LEMMA SensorOfClient ==
  ASSUME Typed, class = "sensor", Ordinary, Orderly, Places, HeldBack, SensorStream,
         SensorLocks, StreamStep("client"), Others("client")
  PROVE  SensorStream' /\ SensorLocks'
<1>0. "client" \in Threads /\ Threads = {"client", "ssr", "mgr"}
  BY DEF Threads
<1>1. /\ SensorShape' /\ SensorEffect("client")
      /\ mStreamMutex' = mStreamMutex /\ mActiveStreamMutex' = mActiveStreamMutex
      /\ pc["mgr"] \notin {"connect", "connectSame"}
  BY <1>0, SensorHandlers
<1>2. pc'["ssr"] = pc["ssr"] /\ pc'["mgr"] = pc["mgr"]
  BY <1>0 DEF Others
<1>3. SensorLocks'
  BY <1>1, <1>2 DEF SensorLocks
<1>4. /\ handle' # "opening" /\ handle # "none" /\ handle' # "none"
      /\ handle' = "closing" /\ pc'["client"] = "idle" => Close("client") \/ CloseRun("client")
      /\ handle' = "closing" /\ pc'["client"] = "closeRun" => Stop("client") \/ StopRun("client")
      /\ handle' # handle => Open("client")
  BY <1>0, ClientEnds
<1>5. SensorClient'
  <2>1. Close("client") \/ CloseRun("client") => pc["client"] \in {"close", "closeRun"}
    BY DEF Close, CloseRun
  <2>2. ASSUME pc["client"] \in {"close", "closeRun"}, pc'["client"] = "idle"
        PROVE  w'.currentState = "IDLE"
    <3>1. ~Call("client", "stop", "closeRun")
      BY <1>0, <2>2 DEF Call, Typed
    <3>. QED  BY <1>1, <2>2, <3>1 DEF SensorEffect
  <2>3. Stop("client") \/ StopRun("client") => pc["client"] \in {"stop", "stopRun"}
    BY DEF Stop, StopRun
  <2>4. ASSUME pc["client"] \in {"stop", "stopRun"}
        PROVE  w'.currentState # "STARTED"
    BY <1>1, <2>4 DEF SensorEffect, Stoppable
  <2>. QED  BY <1>4, <2>1, <2>2, <2>3, <2>4 DEF SensorClient, Listens
<1>6. w'.currentState \in {"STARTED", "STOPPED", "PAUSED"} => w'.mDevices = Devices
  BY <1>0, SensorDevices
<1>7. CASE handle = "open"
  <2>1. /\ SensorSsr' /\ handle' = "open" /\ pc["client"] \in {"start", "stop"}
        /\ w'.currentState = "IDLE" <=> w.currentState = "IDLE"
    BY <1>7, SensorBeside
  <2>2. pc["mgr"] = "paused" => w'.currentState = "STOPPED"
    <3>1. pc["mgr"] = "paused" => w.paused_ /\ w.currentState = "STOPPED"
      BY DEF HeldBack, SensorStream, SensorMgr
    <3>. QED  BY <1>1, <2>1, <3>1 DEF SensorEffect, Stoppable
  <2>3. SensorMgr'
    <3>1. SensorMgr
      BY DEF SensorStream
    <3>. QED  BY <1>1, <1>2, <2>1, <2>2, <3>1 DEF SensorMgr
  <2>. QED  BY <1>1, <1>3, <1>5, <1>6, <2>1, <2>3 DEF SensorStream
<1>8. CASE handle # "open"
  <2>1. pc["ssr"] = "idle" /\ pc["mgr"] = "idle"
    BY <1>8, Alone
  <2>2. SensorMgr'
    BY <1>2, <2>1 DEF SensorMgr
  <2>3. ASSUME handle' = "open"
        PROVE  CardUp'
    <3>1. Open("client") /\ pc["client"] = "open"
      BY <1>4, <1>8, <2>3 DEF Open
    <3>2. ~OpenFails("client")
      BY <2>3 DEF OpenFails
    <3>3. CardUp
      BY <1>1, <3>1, <3>2 DEF SensorEffect
    <3>. QED  BY <3>1, <3>3 DEF Open, card, CardUp
  <2>4. SensorSsr'
    BY <1>2, <2>1, <2>3 DEF SensorSsr
  <2>. QED  BY <1>1, <1>3, <1>5, <1>6, <2>2, <2>4 DEF SensorStream
<1>. QED  BY <1>7, <1>8

\* A handler of the manager.
LEMMA SensorOfMgr ==
  ASSUME Typed, class = "sensor", Ordinary, Orderly, Places, HeldBack, SensorStream,
         SensorLocks, StreamStep("mgr"), Others("mgr")
  PROVE  SensorStream' /\ SensorLocks'
<1>0. "mgr" \in Threads /\ Threads = {"client", "ssr", "mgr"}
  BY DEF Threads
<1>1. /\ SensorShape' /\ SensorEffect("mgr")
      /\ mStreamMutex' = mStreamMutex /\ mActiveStreamMutex' = mActiveStreamMutex
  BY <1>0, SensorHandlers
<1>2. pc'["ssr"] = pc["ssr"] /\ pc'["client"] = pc["client"]
  BY <1>0 DEF Others
<1>3. /\ handle = "open"
      /\ \/ pc["mgr"] = "stop" /\ ret["mgr"] = <<"paused">>
         \/ pc["mgr"] = "start" /\ ret["mgr"] = <<"mgrEnd">>
  BY <1>0, Handler DEF Places, MgrPlace
<1>4. /\ SensorSsr' /\ handle' = "open"
      /\ w'.currentState = "IDLE" <=> w.currentState = "IDLE"
  BY <1>3, SensorBeside
<1>5. /\ \A said : Return("mgr", said) =>
           pc'["mgr"] = IF pc["mgr"] = "stop" THEN "paused" ELSE "mgrEnd"
      /\ Fail("mgr") => pc'["mgr"] = "mgrEnd"
  BY <1>0, <1>3, ReturnedTo, FailedTo
<1>6. /\ pc'["mgr"] \in {"paused", "mgrEnd"}
      /\ pc'["mgr"] = "paused" => pc["mgr"] = "stop" /\ ~Fail("mgr")
  BY <1>1, <1>3, <1>5 DEF SensorEffect, Ends
<1>7. SensorLocks'
  BY <1>1, <1>2, <1>3, <1>6 DEF SensorLocks
<1>8. SensorMgr'
  <2>1. w.currentState # "IDLE"
    BY <1>3 DEF SensorStream, SensorMgr
  <2>2. pc'["mgr"] = "paused" => w'.currentState = "STOPPED"
    BY <1>1, <1>6, <2>1 DEF SensorEffect
  <2>. QED  BY <1>4, <1>6, <2>1, <2>2 DEF SensorMgr
<1>9. w'.currentState \in {"STARTED", "STOPPED", "PAUSED"} => w'.mDevices = Devices
  BY <1>0, SensorDevices
<1>10. SensorClient'
  BY <1>4 DEF SensorClient
<1>. QED  BY <1>1, <1>4, <1>7, <1>8, <1>9, <1>10 DEF SensorStream

\* A handler of recovery.
LEMMA SensorOfSsr ==
  ASSUME Typed, class = "sensor", Ordinary, Orderly, Places, HeldBack, SensorStream,
         SensorLocks, StreamStep("ssr"), Others("ssr"), Places'
  PROVE  SensorStream' /\ SensorLocks'
<1>0. "ssr" \in Threads /\ Threads = {"client", "ssr", "mgr"} /\ ~HasDevices
  BY DEF Threads, HasDevices
<1>1. /\ SensorShape' /\ SensorEffect("ssr")
      /\ mStreamMutex' = mStreamMutex /\ mActiveStreamMutex' = mActiveStreamMutex
      /\ pc["mgr"] \notin {"connect", "connectSame"}
  BY <1>0, SensorHandlers
<1>2. pc'["mgr"] = pc["mgr"] /\ pc'["client"] = pc["client"]
  BY <1>0 DEF Others
<1>3. /\ handle = "open"
      /\ \/ ~CardUp /\ pc["ssr"] = "stop" /\ ret["ssr"] = <<"relock", "close", "downEnd">>
         \/ ~CardUp /\ pc["ssr"] = "close" /\ ret["ssr"] = <<"downEnd">>
         \/ CardUp /\ pc["ssr"] = "open" /\ ret["ssr"] \in {<<"upEnd">>, <<"upStart">>}
         \/ CardUp /\ pc["ssr"] = "start" /\ ret["ssr"] = <<"upStarted">>
  BY <1>0, Handler DEF Places, SsrPlace, Falling, Rising, AfterStart, AfterStop
<1>4. handle' = "open" /\ cardState' = cardState
  <2>1. Open("ssr") => handle' = handle /\ cardState' = cardState
    BY DEF Open, Opens, OpenFails, card
  <2>2. pc["ssr"] # "open" => handle' = handle /\ cardState' = cardState
    BY <1>0, <1>3, Handler DEF Start, Stop, Close, outside, card
  <2>. QED  BY <1>0, <1>3, <2>1, <2>2, Handler
<1>5. SensorSsr /\ SensorMgr
  BY DEF SensorStream
<1>6. CASE pc["ssr"] = "stop"
  <2>1. w'.currentState = "STOPPED" /\ \E said : Return("ssr", said)
    BY <1>1, <1>5, <1>6 DEF SensorEffect, SensorSsr, Stoppable
  <2>2. pc'["ssr"] = "relock"
    BY <1>0, <1>3, <1>6, <2>1, ReturnedTo
  <2>3. SensorSsr'
    BY <2>1, <2>2 DEF SensorSsr
  <2>4. SensorMgr'
    BY <1>1, <1>2, <1>5, <2>1 DEF SensorMgr
  <2>5. SensorLocks'
    BY <1>1, <1>2, <2>2 DEF SensorLocks
  <2>6. w'.mDevices = Devices
    BY <1>0, <2>1, SensorDevices
  <2>. QED  BY <1>1, <1>4, <2>3, <2>4, <2>5, <2>6 DEF SensorStream, SensorClient
<1>7. CASE pc["ssr"] = "start"
  <2>1. /\ w'.currentState # "IDLE" /\ \E said : Return("ssr", said)
        /\ pc["mgr"] = "paused" => w'.currentState = "STOPPED"
    <3>1. pc["mgr"] = "paused" => w.paused_ /\ w.currentState = "STOPPED"
      BY <1>5 DEF HeldBack, SensorMgr
    <3>. QED  BY <1>1, <1>5, <1>7, <3>1 DEF SensorEffect, SensorSsr, Stoppable
  <2>2. pc'["ssr"] = "upStarted"
    BY <1>0, <1>3, <1>7, <2>1, ReturnedTo
  <2>3. SensorSsr'
    BY <2>1, <2>2 DEF SensorSsr
  <2>4. SensorMgr'
    BY <1>1, <1>2, <2>1 DEF SensorMgr
  <2>5. SensorLocks'
    BY <1>1, <1>2, <2>2 DEF SensorLocks
  <2>6. w'.currentState \in {"STARTED", "STOPPED", "PAUSED"} => w'.mDevices = Devices
    BY <1>0, SensorDevices
  <2>. QED  BY <1>1, <1>4, <2>3, <2>4, <2>5, <2>6 DEF SensorStream, SensorClient
\* With mActiveStreamMutex, so the manager is at rest.
<1>8. CASE pc["ssr"] \in {"open", "close"}
  <2>1. pc["mgr"] = "idle" /\ mActiveStreamMutex = "ssr"
    BY <1>8 DEF SensorLocks
  <2>2. \/ w'.currentState = "IDLE" /\ pc'["ssr"] = "downEnd"
        \/ w'.currentState = "INIT" /\ pc'["ssr"] \in {"upEnd", "upStart"}
    <3>1. CASE pc["ssr"] = "close"
      <4>1. ~Listens
        BY <1>5, <3>1 DEF SensorSsr, Listens
      <4>2. w'.currentState = "IDLE" /\ Return("ssr", "")
        BY <1>1, <3>1, <4>1 DEF SensorEffect
      <4>. QED  BY <1>0, <1>3, <3>1, <4>2, ReturnedTo
    <3>2. CASE pc["ssr"] = "open"
      <4>1. w'.currentState = "INIT" /\ Opens("ssr")
        BY <1>1, <1>3, <1>5, <3>2 DEF SensorEffect, SensorSsr
      <4>. QED  BY <1>0, <1>3, <3>2, <4>1, ReturnedTo DEF Opens
    <3>. QED  BY <1>8, <3>1, <3>2
  <2>3. SensorSsr'
    BY <2>2 DEF SensorSsr
  <2>4. SensorMgr'
    BY <1>2, <2>1 DEF SensorMgr
  <2>5. SensorLocks'
    BY <1>1, <1>2, <2>1, <2>2 DEF SensorLocks
  <2>. QED  BY <1>1, <1>4, <2>2, <2>3, <2>4, <2>5 DEF SensorStream, SensorClient
<1>. QED  BY <1>3, <1>6, <1>7, <1>8

\* The steps of the client between handlers.
LEMMA SensorClientStep ==
  ASSUME Typed, class = "sensor", Ordinary, Places, HeldBack, SensorStream, SensorLocks, ClientStep
  PROVE  SensorStream' /\ SensorLocks'
<1>0. /\ w \in StreamType /\ votes = 0 /\ ~HasDevices
      /\ w.currentState \in {"IDLE", "INIT", "STARTED", "STOPPED", "PAUSED"}
      /\ SensorShape /\ SensorMgr /\ SensorSsr /\ SensorClient
      /\ Threads = {"client", "ssr", "mgr"} /\ pc["client"] = "idle"
  BY DEF Typed, StreamType, HasDevices, SensorStream, SensorShape, State, Threads, ClientStep,
     ClientOpen, ClientClose, ClientDelete, ClientCall, ClientFree
<1>1. /\ dev' = dev /\ votes' = votes /\ cardState' = cardState /\ scenario' = scenario
      /\ mStreamMutex' = mStreamMutex /\ mActiveStreamMutex' = mActiveStreamMutex
      /\ pc'["ssr"] = pc["ssr"] /\ pc'["mgr"] = pc["mgr"]
  BY <1>0 DEF ClientStep, ClientOpen, ClientClose, ClientDelete, ClientCall, clientOnly, card, locks,
     Goto, Typed
<1>2. SensorLocks'
  BY <1>1 DEF SensorLocks
<1>3. CASE ClientOpen \/ ClientDelete
  <2>1. /\ w.currentState = "IDLE" /\ handle # "open" /\ w' = NewStream
        /\ handle' \in {"none", "opening"}
    BY <1>0, <1>3 DEF ClientOpen, ClientDelete, HeldBack, SensorClient
  <2>2. pc["ssr"] = "idle" /\ pc["mgr"] = "idle"
    BY <2>1, Alone
  <2>3. w'.currentState = "IDLE" /\ w'.registered = {} /\ dev' = NoUse
    <3>1. NewStream.currentState = "IDLE" /\ NewStream.registered = {}
      BY NewStreamTyped DEF Typed
    <3>2. dev = NoUse
      BY <1>0, <2>1, SensorShapeIs DEF Listens
    <3>. QED  BY <1>1, <2>1, <3>1, <3>2
  <2>4. SensorShape'
    BY <1>0, <1>1, <2>3, SensorShapeOf
  <2>5. SensorMgr' /\ SensorSsr' /\ SensorClient'
    BY <1>1, <2>1, <2>2, <2>3 DEF SensorMgr, SensorSsr, SensorClient
  <2>. QED  BY <1>2, <2>3, <2>4, <2>5 DEF SensorStream
<1>4. CASE ClientClose \/ \E op \in scenario.Ops : ClientCall(op)
  <2>1. /\ w' \in {w, [w EXCEPT !.cachedState = "STOPPED"], [w EXCEPT !.cachedState = "IDLE"]}
        /\ \/ handle' = handle
           \/ handle' = "closing" /\ Goto("client", "close")
        /\ handle = "open"
    BY <1>4 DEF ClientClose, ClientCall
  <2>2. /\ w'.currentState = w.currentState /\ w'.mDevices = w.mDevices
        /\ w'.registered = w.registered
    BY <1>0, <2>1 DEF StreamType
  <2>3. SensorShape' /\ Listens' = Listens
    BY <1>0, <1>1, <2>2 DEF SensorShape, Listens
  <2>4. SensorMgr' /\ SensorSsr'
    BY <1>0, <1>1, <2>1, <2>2, <2>3 DEF SensorMgr, SensorSsr, CardUp
  <2>5. SensorClient'
    <3>1. handle' = "closing" => pc'["client"] = "close"
      BY <1>0, <2>1 DEF Goto, Typed
    <3>. QED  BY <2>1, <3>1 DEF SensorClient
  <2>6. w'.currentState \in {"STARTED", "STOPPED", "PAUSED"} /\ pc'["mgr"] # "connect"
          => w'.mDevices = Devices
    BY <1>1, <2>2 DEF SensorStream
  <2>. QED  BY <1>2, <2>3, <2>4, <2>5, <2>6 DEF SensorStream
<1>. QED  BY <1>3, <1>4 DEF ClientStep

\* Nothing is changed of a stream that recovery walks over, but what is noted.
LEMMA SensorKept ==
  ASSUME SensorStream, Typed, class = "sensor",
         w'.currentState = w.currentState, w'.mDevices = w.mDevices,
         w'.registered = w.registered, dev' = dev, votes' = votes, handle' = handle,
         scenario' = scenario, pc'["mgr"] = pc["mgr"], pc'["client"] = pc["client"], SensorSsr'
  PROVE  SensorStream'
<1>1. SensorShape' /\ Listens' = Listens
  BY DEF SensorStream, SensorShape, Listens
<1>2. SensorMgr' /\ SensorClient'
  BY <1>1 DEF SensorStream, SensorMgr, SensorClient
<1>. QED  BY <1>1, <1>2 DEF SensorStream

\* The steps of recovery between handlers, and those of the card.
LEMMA SensorWalk ==
  ASSUME Typed, class = "sensor", Ordinary, Places, Places', SensorStream, SensorLocks,
         SsrStep \/ LoseCard \/ CardBack
  PROVE  SensorStream' /\ SensorLocks'
<1>0. /\ w \in StreamType /\ votes = 0 /\ ~HasDevices
      /\ w.currentState \in {"IDLE", "INIT", "STARTED", "STOPPED", "PAUSED"}
      /\ SensorSsr /\ "ssr" \in Threads /\ pc \in [Threads -> Pcs] /\ ret \in [Threads -> Backs]
      /\ "mgr" # "ssr" /\ None # "mgr" /\ None # "ssr" /\ msgQ \in Queues
  BY NoneAssumption DEF Typed, StreamType, HasDevices, SensorStream, SensorShape, State, Threads
<1>1. /\ w'.mDevices = w.mDevices /\ w'.registered = w.registered /\ dev' = dev
      /\ handle' = handle /\ scenario' = scenario /\ mStreamMutex' = mStreamMutex
      /\ ~SsrDownEnd => w'.currentState = w.currentState
      /\ votes' = votes /\ pc'["client"] = pc["client"] /\ pc'["mgr"] = pc["mgr"]
  BY WalkKeeps
<1>2. w'.currentState = w.currentState
  <2>1. ASSUME SsrDownEnd
        PROVE  w'.currentState = "IDLE" /\ w.currentState = "IDLE"
    BY <1>0, <2>1 DEF SsrDownEnd, SensorSsr, StreamType
  <2>. QED  BY <1>1, <2>1
<1>3. SUFFICES SensorSsr' /\ SensorLocks'
  BY <1>1, <1>2, SensorKept
<1>4. SensorLocks
  OBVIOUS
<1>5. CASE SsrTake
  <2>1. /\ pc["ssr"] = "idle" /\ mActiveStreamMutex = None /\ cardState' = Head(msgQ)
        /\ msgQ # <<>>
        /\ \/ handle # "open" /\ pc' = pc /\ mActiveStreamMutex' = mActiveStreamMutex
           \/ /\ handle = "open" /\ mActiveStreamMutex' = "ssr"
              /\ pc'["ssr"] = IF Head(msgQ) = "offline" THEN "down" ELSE "up"
    BY <1>0, <1>5 DEF SsrTake, ActiveFree, Goto
  <2>2. pc["mgr"] = "idle"
    BY <1>0, <2>1 DEF SensorLocks
  <2>3. Head(msgQ) # "offline" => ~CardUp
    BY <1>0, <2>1, Queued DEF Places, Queues
  <2>4. SensorSsr'
    BY <1>0, <1>1, <1>2, <2>1, <2>3 DEF SensorSsr, CardUp
  <2>5. SensorLocks'
    BY <1>1, <2>1, <2>2 DEF SensorLocks
  <2>. QED  BY <2>4, <2>5
<1>6. CASE SsrDown
  <2>1. SsrDownCommon /\ pc["ssr"] = "down" /\ mActiveStreamMutex = "ssr" /\ pc["mgr"] = "idle"
    BY <1>0, <1>6 DEF SsrDown, SensorLocks
  <2>2. \/ /\ w.currentState \in {"STARTED", "PAUSED"} /\ pc'["ssr"] = "stop"
        \/ /\ w.currentState \in {"INIT", "STOPPED"} /\ pc'["ssr"] = "close"
           /\ mActiveStreamMutex' = mActiveStreamMutex
        \/ /\ w.currentState = "IDLE" /\ pc'["ssr"] = "downEnd"
           /\ mActiveStreamMutex' = mActiveStreamMutex
    BY <1>0, <2>1 DEF SsrDownCommon, GoDown, Stoppable
  <2>3. SensorSsr'
    BY <1>2, <2>2 DEF SensorSsr
  <2>4. SensorLocks'
    BY <1>1, <2>1, <2>2 DEF SensorLocks
  <2>. QED  BY <2>3, <2>4
<1>7. CASE SsrRelock
  <2>1. /\ pc["ssr"] = "relock" /\ mActiveStreamMutex = None /\ mActiveStreamMutex' = "ssr"
        /\ Return("ssr", "")
    BY <1>7 DEF SsrRelock, ActiveFree
  <2>2. ret["ssr"] = <<"close", "downEnd">>
    BY <2>1 DEF Places, SsrPlace, Falling, Rising, AfterStart, AfterStop
  <2>3. pc'["ssr"] = "close"
    BY <1>0, <2>1, <2>2, ReturnedTo
  <2>4. pc["mgr"] = "idle"
    BY <1>0, <2>1 DEF SensorLocks
  <2>5. SensorSsr'
    BY <1>0, <1>2, <2>1, <2>3 DEF SensorSsr
  <2>6. SensorLocks'
    BY <1>1, <2>1, <2>3, <2>4 DEF SensorLocks
  <2>. QED  BY <2>5, <2>6
<1>8. CASE SsrDownEnd
  <2>1. pc["ssr"] = "downEnd" /\ pc'["ssr"] = "idle" /\ w.currentState = "IDLE"
    BY <1>0, <1>8 DEF SsrDownEnd, Goto, SensorSsr
  <2>2. pc["mgr"] = "idle"
    BY <1>0, <2>1 DEF SensorLocks
  <2>3. SensorSsr'
    BY <1>2, <2>1 DEF SensorSsr
  <2>4. SensorLocks'
    BY <1>1, <2>1, <2>2 DEF SensorLocks
  <2>. QED  BY <2>3, <2>4
<1>9. CASE SsrUp
  <2>1. /\ pc["ssr"] = "up" /\ pc'["ssr"] \in {"open", "upEnd"} /\ w.currentState = "IDLE"
        /\ mActiveStreamMutex' = mActiveStreamMutex
    BY <1>0, <1>9 DEF SsrUp, Goto, Call, locks, SensorSsr
  <2>2. SensorSsr'
    BY <1>2, <2>1 DEF SensorSsr
  <2>3. SensorLocks'
    BY <1>1, <2>1 DEF SensorLocks
  <2>. QED  BY <2>2, <2>3
<1>10. CASE SsrUpStart
  <2>1. /\ pc["ssr"] = "upStart" /\ pc'["ssr"] = "start" /\ w.currentState # "IDLE"
    BY <1>0, <1>10 DEF SsrUpStart, Call, SensorSsr
  <2>2. pc["mgr"] = "idle"
    BY <1>0, <2>1 DEF SensorLocks
  <2>3. SensorSsr'
    BY <1>2, <2>1 DEF SensorSsr
  <2>4. SensorLocks'
    BY <1>1, <2>1, <2>2 DEF SensorLocks
  <2>. QED  BY <2>3, <2>4
<1>11. CASE SsrUpStarted
  <2>1. /\ pc["ssr"] = "upStarted" /\ mActiveStreamMutex = None /\ mActiveStreamMutex' = "ssr"
        /\ SsrUpCommon
    BY <1>0, <1>11 DEF SsrUpStarted, ActiveFree
  <2>2. pc'["ssr"] \in {"upEnd", "upKeep"}
    BY <1>0, <2>1 DEF SsrUpCommon, Goto
  <2>3. pc["mgr"] = "idle"
    BY <1>0, <2>1 DEF SensorLocks
  <2>4. SensorSsr'
    BY <2>2 DEF SensorSsr
  <2>5. SensorLocks'
    BY <1>1, <2>1, <2>3 DEF SensorLocks
  <2>. QED  BY <2>4, <2>5
<1>12. CASE SsrUpEnd
  <2>1. pc["ssr"] \in {"upEnd", "upKeep"} /\ pc'["ssr"] = "idle" /\ cardState' = cardState
    BY <1>0, <1>12 DEF SsrUpEnd, Goto, SensorSsr, card
  <2>2. CardUp /\ pc["mgr"] = "idle"
    BY <1>0, <2>1 DEF SensorLocks, Places, SsrPlace, Falling, AfterStop
  <2>3. SensorSsr'
    BY <2>1, <2>2 DEF SensorSsr, CardUp
  <2>4. SensorLocks'
    BY <1>1, <2>1, <2>2 DEF SensorLocks
  <2>. QED  BY <2>3, <2>4
<1>13. CASE LoseCard \/ CardBack
  <2>1. pc' = pc /\ cardState' = cardState /\ mActiveStreamMutex' = mActiveStreamMutex
    BY <1>13 DEF LoseCard, CardBack, locks
  <2>2. SensorSsr'
    BY <1>0, <1>1, <1>2, <2>1 DEF SensorSsr, CardUp
  <2>3. SensorLocks'
    BY <1>1, <2>1 DEF SensorLocks
  <2>. QED  BY <2>2, <2>3
<1>. QED  BY <1>5, <1>6, <1>7, <1>8, <1>9, <1>10, <1>11, <1>12, <1>13 DEF SsrStep

\* The steps of the manager between handlers.
LEMMA SensorMgrStep ==
  ASSUME Typed, class = "sensor", Ordinary, Orderly, Places, SensorStream, SensorLocks,
         MgrEnds \/ MgrPause \/ MgrResume \/ MgrSwitch \/ MgrProfile
  PROVE  SensorStream' /\ SensorLocks'
<1>0. /\ w \in StreamType /\ votes = 0 /\ ~HasDevices /\ w.mDevices \in SUBSET Devices
      /\ w.currentState \in {"IDLE", "INIT", "STARTED", "STOPPED", "PAUSED"}
      /\ SensorSsr /\ SensorMgr /\ SensorShape /\ SensorClient
      /\ Threads = {"client", "ssr", "mgr"} /\ pc \in [Threads -> Pcs] /\ ret \in [Threads -> Backs]
      /\ "mgr" # "ssr" /\ None # "mgr" /\ None # "ssr" /\ "client" # "mgr"
  BY NoneAssumption DEF Typed, StreamType, HasDevices, SensorStream, SensorShape, State, Threads
<1>1. /\ Listens => dev = UseBy(w.mDevices, 1, 1) /\ w.registered = w.mDevices
      /\ ~Listens => dev = NoUse /\ w.registered = {}
      /\ Listens <=> w.currentState = "STARTED"
  BY <1>0, SensorShapeIs DEF Listens
<1>2. /\ handle' = handle /\ votes' = votes /\ cardState' = cardState /\ scenario' = scenario
      /\ \/ pc' = pc
         \/ \E l \in {"mgrEnd", "idle", "connect", "connectSame"} : Goto("mgr", l)
         \/ Call("mgr", "stop", "paused") \/ Call("mgr", "start", "mgrEnd")
  BY DEF MgrEnds, MgrPaused, MgrEnd, MgrConnect, MgrPause, MgrResume, MgrSwitch, MgrProfile, mgrOnly,
     card, SensorPause, SensorResume, SensorDisconnect
<1>3. pc'["ssr"] = pc["ssr"] /\ pc'["client"] = pc["client"]
  BY <1>0, <1>2 DEF Goto, Call
<1>4. /\ pc["ssr"] \in {"down", "close", "downEnd", "up", "open", "upStart", "upEnd", "upKeep"}
           => mActiveStreamMutex = "ssr"
      /\ pc["mgr"] # "idle" => mActiveStreamMutex = "mgr"
      /\ pc["mgr"] # "idle" => handle = "open"
  BY DEF SensorLocks, Places, MgrPlace
<1>5. mActiveStreamMutex \in {None, "mgr"}
  BY <1>0, <1>4 DEF MgrEnds, MgrPaused, MgrEnd, MgrConnect, MgrPause, MgrResume, MgrSwitch,
     MgrProfile, MgrMay, ActiveFree
<1>6. pc["ssr"] \notin {"down", "close", "downEnd", "up", "open", "upStart", "upEnd", "upKeep"}
  BY <1>0, <1>4, <1>5
\* What is left to show of a step that takes an open stream from no state to IDLE.
<1>7. ASSUME handle = "open" \/ (w'.currentState = w.currentState),
             \/ w'.currentState = w.currentState
             \/ w.currentState = "STOPPED" /\ w'.currentState = "PAUSED"
      PROVE  SensorSsr' /\ SensorClient'
  <2>1. SensorSsr'
    BY <1>0, <1>2, <1>3, <1>6, <1>7 DEF SensorSsr, CardUp
  <2>2. SensorClient'
    BY <1>0, <1>2, <1>3, <1>7 DEF SensorClient, Listens
  <2>. QED  BY <2>1, <2>2
<1>8. ASSUME w'.currentState = w.currentState, w'.mDevices = w.mDevices,
             w'.registered = w.registered, dev' = dev
      PROVE  SensorShape'
  BY <1>0, <1>2, <1>8 DEF SensorShape, Listens
<1>9. w.currentState \in {"STARTED", "STOPPED", "PAUSED"} /\ pc["mgr"] # "connect"
        => w.mDevices = Devices
  BY DEF SensorStream
<1>10. CASE MgrPause \/ MgrResume
  <2>1. /\ dev' = dev /\ mStreamMutex' = mStreamMutex /\ pc["mgr"] = "idle"
        /\ \/ w' = w /\ pc' = pc /\ mActiveStreamMutex' = mActiveStreamMutex
           \/ /\ \E b \in BOOLEAN : w' = [w EXCEPT !.paused_ = b]
              /\ Call("mgr", "stop", "paused") \/ Call("mgr", "start", "mgrEnd")
              /\ mActiveStreamMutex' = "mgr" /\ w.currentState # "IDLE"
    BY <1>10 DEF MgrPause, MgrResume, MgrMay, mgrOnly, SensorPause, SensorResume
  <2>2. /\ w'.currentState = w.currentState /\ w'.mDevices = w.mDevices
        /\ w'.registered = w.registered
    BY <1>0, <2>1 DEF StreamType
  <2>3. \/ pc'["mgr"] = "idle" /\ mActiveStreamMutex' = mActiveStreamMutex
        \/ /\ pc'["mgr"] \in {"stop", "start"} /\ mActiveStreamMutex' = "mgr"
           /\ w.currentState # "IDLE"
    BY <1>0, <2>1 DEF Call
  <2>4. SensorShape' /\ SensorSsr' /\ SensorClient'
    BY <1>7, <1>8, <2>1, <2>2
  <2>5. SensorMgr'
    BY <2>2, <2>3 DEF SensorMgr
  <2>6. SensorLocks'
    BY <1>3, <1>6, <2>3 DEF SensorLocks
  <2>. QED  BY <1>9, <2>1, <2>2, <2>4, <2>5, <2>6 DEF SensorStream
<1>11. CASE MgrPaused \/ MgrEnd
  <2>1. /\ dev' = dev /\ mStreamMutex' = mStreamMutex /\ handle = "open"
        /\ \/ /\ pc["mgr"] = "paused" /\ w' = [w EXCEPT !.currentState = "PAUSED"]
              /\ Goto("mgr", "mgrEnd") /\ mActiveStreamMutex' = mActiveStreamMutex
              /\ w.currentState = "STOPPED"
           \/ /\ pc["mgr"] = "mgrEnd" /\ w' = w /\ Goto("mgr", "idle")
    BY <1>0, <1>4, <1>11 DEF MgrPaused, MgrEnd, mgrOnly, SensorMgr
  <2>2. /\ w'.mDevices = w.mDevices /\ w'.registered = w.registered
        /\ \/ w'.currentState = w.currentState
           \/ w.currentState = "STOPPED" /\ w'.currentState = "PAUSED"
    BY <1>0, <2>1 DEF StreamType
  <2>3. \/ pc["mgr"] = "paused" /\ pc'["mgr"] = "mgrEnd" /\ mActiveStreamMutex' = mActiveStreamMutex
        \/ pc["mgr"] = "mgrEnd" /\ pc'["mgr"] = "idle"
    BY <1>0, <2>1 DEF Goto
  <2>4. SensorShape'
    BY <1>0, <1>1, <1>2, <2>1, <2>2, SensorShapeOf
  <2>5. SensorSsr' /\ SensorClient'
    BY <1>7, <2>1, <2>2
  <2>6. SensorMgr'
    BY <1>0, <2>2, <2>3 DEF SensorMgr
  <2>7. SensorLocks'
    BY <1>3, <1>4, <1>6, <2>3 DEF SensorLocks
  <2>. QED  BY <1>9, <2>1, <2>2, <2>3, <2>4, <2>5, <2>6, <2>7 DEF SensorStream
\* The devices of a stream that listens are taken.
<1>12. CASE MgrSwitch \/ MgrProfile
  <2>1. /\ pc["mgr"] = "idle" /\ mActiveStreamMutex' = "mgr" /\ mStreamMutex' = "mgr"
        /\ w.currentState # "IDLE"
        /\ \/ Goto("mgr", "connectSame") /\ Same
           \/ w.currentState = "STARTED" /\ SensorDisconnect
    BY <1>12 DEF MgrSwitch, MgrProfile, MgrMay
  <2>2. scenario.Faults = {}
    BY <1>0, <1>12 DEF Orderly, MgrSwitch, MgrProfile, MgrMay
  <2>3. CASE Goto("mgr", "connectSame") /\ Same
    <3>1. pc'["mgr"] = "connectSame" /\ w' = w /\ dev' = dev
      BY <1>0, <2>3 DEF Goto, Same
    <3>2. SensorShape' /\ SensorSsr' /\ SensorClient'
      BY <1>7, <1>8, <3>1
    <3>3. SensorMgr' /\ SensorLocks'
      BY <1>3, <1>6, <2>1, <3>1 DEF SensorMgr, SensorLocks
    <3>. QED  BY <1>9, <2>1, <3>1, <3>2, <3>3 DEF SensorStream
  <2>4. CASE w.currentState = "STARTED" /\ SensorDisconnect
    <3>1. /\ w'.registered = w.registered \ w.mDevices /\ w'.mDevices = {}
          /\ w'.currentState = w.currentState /\ pc'["mgr"] = "connect"
          /\ dev' = Closed(Stopped(dev, w.mDevices), w.mDevices)
      BY <1>0, <2>4 DEF SensorDisconnect, Leaves, Goto, StreamType
    <3>2. dev' = NoUse
      <4>1. Stopped(dev, w.mDevices) = UseBy(w.mDevices, 1, 0)
        BY <1>0, <1>1, <2>4, UseByStep
      <4>. QED  BY <1>0, <3>1, <4>1, UseByStep
    <3>3. UseBy({}, 1, 1) = NoUse
      BY DEF UseBy, NoUse
    <3>4. SensorShape'
      <4>1. w'.registered = w'.mDevices
        BY <1>1, <2>4, <3>1
      <4>. QED  BY <1>0, <1>2, <2>4, <3>1, <3>2, <3>3, <4>1, SensorShapeOf
    <3>5. SensorSsr' /\ SensorClient'
      BY <1>7, <3>1
    <3>6. SensorMgr' /\ SensorLocks'
      BY <1>2, <1>3, <1>6, <2>1, <2>2, <2>4, <3>1 DEF SensorMgr, SensorLocks, Listens
    <3>. QED  BY <3>1, <3>4, <3>5, <3>6 DEF SensorStream
  <2>. QED  BY <2>1, <2>3, <2>4
<1>13. CASE MgrConnect
  <2>1. /\ pc["mgr"] \in {"connect", "connectSame"} /\ pc'["mgr"] = "mgrEnd" /\ handle = "open"
        /\ mActiveStreamMutex' = mActiveStreamMutex
        /\ pc["mgr"] = "connectSame" => Same
        /\ pc["mgr"] = "connect" => SensorConnect
    BY <1>0, <1>4, <1>13 DEF MgrConnect, Goto
  <2>2. CASE pc["mgr"] = "connectSame"
    <3>1. w' = w /\ dev' = dev
      BY <2>1, <2>2 DEF Same
    <3>2. SensorShape' /\ SensorSsr' /\ SensorClient'
      BY <1>7, <1>8, <3>1
    <3>3. SensorMgr' /\ SensorLocks'
      BY <1>0, <1>3, <1>4, <1>6, <2>1, <3>1 DEF SensorMgr, SensorLocks
    <3>. QED  BY <1>9, <2>2, <3>1, <3>2, <3>3 DEF SensorStream
  <2>3. CASE pc["mgr"] = "connect"
    <3>1. Listens /\ w.mDevices = {} /\ scenario.Faults = {}
      BY <1>0, <2>3 DEF SensorMgr
    <3>2. Leaves([w EXCEPT !.registered = @ \cup Devices, !.mDevices = Devices],
                 Started(Opened(dev, Devices), Devices))
      BY <2>1, <2>3, <3>1 DEF SensorConnect, May
    <3>3. /\ w'.registered = w.registered \cup Devices /\ w'.mDevices = Devices
          /\ w'.currentState = w.currentState /\ dev' = Started(Opened(dev, Devices), Devices)
      BY <1>0, <3>2 DEF Leaves, StreamType
    <3>4. dev = NoUse /\ w.registered = {}
      BY <1>1, <3>1 DEF UseBy, NoUse
    <3>5. dev' = UseBy(Devices, 1, 1)
      BY <1>0, <3>3, <3>4, UseByStep
    <3>6. SensorShape'
      BY <1>0, <1>1, <1>2, <3>1, <3>3, <3>4, <3>5, SensorShapeOf
    <3>7. SensorSsr' /\ SensorClient'
      BY <1>7, <3>3
    <3>8. SensorMgr' /\ SensorLocks'
      BY <1>0, <1>3, <1>4, <1>6, <2>1, <3>3 DEF SensorMgr, SensorLocks
    <3>. QED  BY <3>3, <3>6, <3>7, <3>8 DEF SensorStream
  <2>. QED  BY <2>1, <2>2, <2>3
<1>. QED  BY <1>10, <1>11, <1>12, <1>13 DEF MgrEnds

-----------------------------------------------------------------------------
(* The devices and the vote of every class.                                *)

\* No step leaves devices, registrations or the vote as the state does not say.
LEMMA FollowsStep ==
  ASSUME Typed, Ordinary, Orderly, Places, HeldBack, Follows, Next
  PROVE  Follows'
<1>0. Typed' /\ Places' /\ HeldBack'
  BY HeldStep
<1>1. class' = class /\ HasDevices' = HasDevices
  BY ScenarioKept DEF class, HasDevices
<1>2. class \in {"common", "haptics", "incall", "nontunnel", "sensor"}
  BY ScenariosAssumption DEF Typed, class
<1>3. \A t \in Threads : StreamStep(t) => Others(t)
  BY StreamStepPlaces, OpenPlaces
<1>4. CASE HasDevices
  <2>1. DeviceStream /\ class # "sensor"
    BY <1>4 DEF Follows, HasDevices
  <2>2. ~(MgrEnds \/ MgrPause \/ MgrResume \/ MgrSwitch \/ MgrProfile)
    BY <2>1 DEF MgrEnds, MgrPaused, MgrEnd, MgrConnect, MgrPause, MgrResume, MgrSwitch, MgrProfile,
       MgrMay, Ordinary, Places, MgrPlace
  <2>3. DeviceStream'
    <3>1. ASSUME NEW t \in Threads, StreamStep(t)
          PROVE  DeviceStream'
      BY <1>0, <1>3, <1>4, <2>1, <3>1, DeviceStreamHandler
    <3>. QED  BY <1>4, <2>1, <2>2, <3>1, DeviceStreamOther DEF Next
  <2>. QED  BY <1>1, <1>4, <2>1, <2>3 DEF Follows, HasDevices
<1>5. CASE class = "incall"
  <2>1. InCallStream'
    BY <1>5, InCallStep DEF Follows
  <2>. QED  BY <1>1, <1>5, <2>1 DEF Follows, HasDevices
<1>6. CASE class = "nontunnel"
  <2>1. NonTunnelStream'
    BY <1>6, NonTunnelStep DEF Follows
  <2>. QED  BY <1>1, <1>6, <2>1 DEF Follows, HasDevices
<1>7. CASE class = "sensor"
  <2>1. SensorStream /\ SensorLocks
    BY <1>7 DEF Follows
  <2>2. ASSUME NEW t \in Threads, StreamStep(t)
        PROVE  SensorStream' /\ SensorLocks'
    BY <1>0, <1>3, <1>7, <2>1, <2>2, SensorOfClient, SensorOfSsr, SensorOfMgr DEF Threads
  <2>3. SensorStream' /\ SensorLocks'
    BY <1>0, <1>7, <2>1, <2>2, SensorClientStep, SensorWalk, SensorMgrStep DEF Next
  <2>. QED  BY <1>1, <1>7, <2>3 DEF Follows, HasDevices
<1>. QED  BY <1>2, <1>4, <1>5, <1>6, <1>7 DEF HasDevices

\* They are in step before the client opens the stream.
LEMMA FollowsInit ==
  ASSUME Init
  PROVE  Follows
<1>1. /\ handle = "none" /\ w = NewStream /\ dev = NoUse /\ votes = 0 /\ downs = 0 /\ CardUp
      /\ \A t \in Threads : pc[t] = "idle"
      /\ "client" \in Threads /\ "ssr" \in Threads /\ "mgr" \in Threads
  BY DEF Init, CardUp, Threads
<1>2. /\ w.currentState = "IDLE" /\ w.registered = {} /\ w.session = "none"
      /\ w.mDevices = IF HasDevices THEN Devices ELSE {}
  BY <1>1, NewStreamTyped DEF Init
<1>3. /\ ~Listens /\ UseBy(w.mDevices, 0, 0) = NoUse /\ N(FALSE) = 0
  BY <1>2, NoneInUse DEF Listens, N
<1>4. HasDevices => DeviceStream
  BY <1>1, <1>2, <1>3, NoneInUse DEF DeviceStream, N
<1>5. class = "incall" => InCallStream
  BY <1>1, <1>2 DEF InCallStream, HasDevices
<1>6. class = "nontunnel" => NonTunnelStream
  BY <1>1, <1>2, <1>3 DEF NonTunnelStream, HasDevices, N
<1>7. SensorStream /\ SensorLocks
  <2>1. SensorShape
    BY <1>1, <1>2, <1>3, NoneInUse DEF SensorShape, N
  <2>. QED  BY <1>1, <1>2, <1>3, <2>1 DEF SensorStream, SensorMgr, SensorSsr, SensorClient,
              SensorLocks
<1>. QED  BY <1>4, <1>5, <1>6, <1>7 DEF Follows

\* What a step changes of nothing it keeps.
LEMMA FollowsKept ==
  ASSUME Follows, UNCHANGED vars
  PROVE  Follows'
<1>1. /\ class' = class /\ HasDevices' = HasDevices /\ Listens' = Listens
  BY DEF vars, class, HasDevices, Listens
<1>2. DeviceStream => DeviceStream'
  BY <1>1 DEF vars, DeviceStream
<1>3. InCallStream => InCallStream'
  BY DEF vars, InCallStream
<1>4. NonTunnelStream => NonTunnelStream'
  BY <1>1 DEF vars, card, NonTunnelStream
<1>5. SensorStream => SensorStream'
  BY <1>1 DEF vars, card, SensorStream, SensorShape, SensorMgr, SensorSsr, SensorClient, CardUp
<1>6. SensorLocks => SensorLocks'
  BY DEF vars, locks, SensorLocks
<1>. QED  BY <1>1, <1>2, <1>3, <1>4, <1>5, <1>6 DEF Follows

\* Each counter of a device that the stream uses once.
LEMMA UsedOnce ==
  ASSUME NEW D \in SUBSET Devices, NEW n \in {0, 1}, NEW m \in {0, 1}
  PROVE  UseBy(D, n, m) \in [Devices -> [count : 0..2, startStop : 0..2]]
<1>. QED  BY DEF UseBy

\* What the invariant says at rest is DevicesFollow.
LEMMA FollowsMeans ==
  ASSUME Typed, Follows
  PROVE  DevicesFollow
<1>1. class \in {"common", "haptics", "incall", "nontunnel", "sensor"} /\ w \in StreamType
      /\ w.mDevices \in SUBSET Devices
  BY ScenariosAssumption DEF Typed, class, StreamType
<1>2. /\ votes \in 0..1
      /\ \E D \in SUBSET Devices, n \in {0, 1}, m \in {0, 1} : dev = UseBy(D, n, m)
  <2>1. N(w.currentState # "IDLE") \in {0, 1} /\ N(Listens) \in {0, 1}
    BY DEF N
  <2>2. NoUse = UseBy({}, 0, 0)
    BY DEF NoUse, UseBy
  <2>3. CASE HasDevices
    BY <1>1, <2>1, <2>3 DEF Follows, DeviceStream
  <2>4. CASE class = "incall"
    BY <2>2, <2>4 DEF Follows, InCallStream
  <2>5. CASE class = "nontunnel"
    BY <2>2, <2>5 DEF Follows, NonTunnelStream
  <2>6. CASE class = "sensor"
    BY <1>1, <2>1, <2>6 DEF Follows, SensorStream, SensorShape
  <2>. QED  BY <1>1, <2>3, <2>4, <2>5, <2>6 DEF HasDevices
<1>3. TypeOK
  BY <1>2, UsedOnce DEF Typed, StreamType, TypeOK
<1>4. DevicesInStep
  <2>1. SUFFICES ASSUME AtRest, class \in {"common", "haptics", "sensor"}
                 PROVE  LET opened == IF class = "sensor" THEN Listens ELSE w.currentState # "IDLE"
                        IN /\ dev = UseBy(w.mDevices, N(opened), N(Listens))
                           /\ w.registered = IF Listens THEN w.mDevices ELSE {}
    BY DEF DevicesInStep, UseBy, N, Listens
  <2>2. CASE class = "sensor"
    BY <2>2 DEF Follows, SensorStream, SensorShape
  <2>3. CASE class \in {"common", "haptics"}
    BY <2>1, <2>3 DEF Follows, DeviceStream, HasDevices, AtRest
  <2>. QED  BY <2>1, <2>2, <2>3
<1>5. VoteWhileStarted
  BY DEF VoteWhileStarted, Follows, NonTunnelStream, N, Listens
<1>. QED  BY <1>3, <1>4, <1>5 DEF DevicesFollow

\* Control, hold and use over any step.
LEMMA DeviceInductive ==
  ASSUME DeviceInv, [Next]_vars
  PROVE  DeviceInv'
<1>1. HeldInv' /\ (Ordinary' <=> Ordinary)
  BY HeldInductive DEF DeviceInv
<1>2. Orderly' <=> Orderly
  <2>1. scenario' = scenario
    BY ScenarioKept DEF vars
  <2>. QED  BY <2>1 DEF Orderly, class, HasDevices
<1>3. ASSUME Ordinary, Orderly
      PROVE  Follows'
  BY <1>3, FollowsStep, FollowsKept DEF DeviceInv, HeldInv
<1>. QED  BY <1>1, <1>2, <1>3 DEF DeviceInv

\* DevicesFollow of every class, with any device set and any number of losses of the card:
\* the counters of the devices, the registrations with the manager and the vote against
\* sleep are as the state says, whatever fails and in whatever order the client, recovery
\* and the manager come (Stream*::open, start, stop and close, ssrHandlingLoop).
THEOREM DevicesAreRight == Spec => [](Ordinary /\ Orderly => DevicesFollow)
<1>1. Init => DeviceInv
  BY HeldInit, FollowsInit DEF DeviceInv, HeldInv
<1>2. DeviceInv /\ [Next]_vars => DeviceInv'
  BY DeviceInductive
<1>3. DeviceInv => (Ordinary /\ Orderly => DevicesFollow)
  BY FollowsMeans DEF DeviceInv, HeldInv
<1>. QED  BY <1>1, <1>2, <1>3, PTL DEF Spec

-----------------------------------------------------------------------------
(* What the client asked for.                                              *)

\* The scenarios in which recovery brings back what the client asked for: what it calls
\* succeeds, and no stop of the client, which pal_stream_stop notes and start does not
\* forget, comes before a loss.
Remembers ==
  /\ class \in {"common", "haptics", "incall"} /\ scenario.MaxDown > 0 =>
       scenario.Faults = {} /\ scenario.Ops \subseteq {"start", "pause"}
  /\ class = "haptics" /\ scenario.MaxDown > 0 => Devices # {}
  /\ class = "sensor" =>
       scenario.Faults # {} \/ scenario.MaxDown = 0 \/ scenario.Ops \subseteq {"start"}

\* What the client will take the stream to be: a start past its check succeeds.
believed == IF pc["client"] \in {"startRegister", "startUnlock"} THEN "started" ELSE asked
\* The states that are as it asked.
Due == CASE believed = "started" -> {"STARTED"}
         [] believed = "paused" -> {"PAUSED"}
         [] believed = "suspended" -> {"SUSPENDED"}
         [] OTHER -> State \ Stoppable

\* What the client may be doing.
Meant ==
  /\ handle = "opening" =>
       asked = "nothing" /\ w.currentState = "IDLE" /\ w.cachedState = "IDLE"
  /\ pc["client"] = "pause" => asked = "started"
  /\ pc["client"] \in {"start", "startRegister", "startUnlock", "startFailed"}
       => asked # "paused"
\* A haptics stream drops devices that fail.
Whole == class = "haptics" /\ scenario.Faults = {} => w.mDevices = Devices

\* A stream recovery does not touch.
Calm == class = "nontunnel" \/ scenario.MaxDown = 0
CalmAsked == handle = "open" => w.currentState \in Due

\* A stream that is taken down and up.  Once recovery has looked at it, cachedState is
\* what it is to be again; a pause that comes while it is brought up is obeyed at once.
Restarts == w.cachedState \in Stoppable
Obeyed == w.currentState = "PAUSED"
Coming == w.cachedState \in Due \/ Obeyed
LossyFalls ==
  LET p == pc["ssr"]
  IN /\ p = "down" => (IF w.cachedState = "IDLE" THEN w.currentState ELSE w.cachedState) \in Due
     /\ ~CardUp /\ p # "down" => w.cachedState \in Due
     /\ ~CardUp /\ p = "idle" => w.currentState = "IDLE"
LossyRises ==
  LET p == pc["ssr"]
  IN /\ p \in {"up", "open"} => w.currentState = "IDLE" \/ Obeyed
     /\ p \in {"up", "open", "upStart", "start", "startRegister", "startUnlock", "upStarted"}
          => Coming
     /\ p = "open" => IF ret["ssr"] = <<"upEnd">> THEN w.cachedState = "INIT" ELSE Restarts
     /\ p \in {"upStart", "start", "startRegister", "startUnlock", "upStarted"} => Restarts
     /\ p \in {"upStart", "start"} => w.currentState \in {"INIT"} \cup Stoppable
     /\ p \in {"startRegister", "startUnlock", "upStarted"} => w.currentState \in Stoppable
     /\ p \in {"startFailed", "upFailed"} => Obeyed
     /\ p = "pause" => believed = "paused" /\ class = "incall"
     /\ p = "upEnd" => w.currentState \in Due
     /\ p # "upKeep"
LossyAsked ==
  handle = "open" =>
    /\ believed # "suspended" /\ (believed = "paused" => class = "incall")
    /\ w.currentState = "PAUSED" => believed = "paused"
    /\ CardUp /\ pc["ssr"] = "idle" => w.cachedState = "IDLE" /\ w.currentState \in Due
    /\ LossyFalls
    /\ CardUp => LossyRises

\* A sensor stream: a start of the client is obeyed unless it is held back, and then when
\* it is let go on.
Resumed == w.currentState = "STARTED" \/ w.paused_ \/ pc["mgr"] = "start"
SensorAsked ==
  LET p == pc["ssr"]
  IN handle = "open" =>
     /\ asked # "paused"
     /\ scenario.MaxDown > 0 /\ (p \in {"down", "upKeep"} \/ (p = "idle" /\ CardUp)) =>
          w.cachedState \in {"IDLE"} \cup Stoppable
     /\ p \in {"stop", "relock", "upStart", "start", "upStarted"} => Restarts
     /\ p = "open" => IF ret["ssr"] = <<"upEnd">> THEN w.cachedState = "INIT" ELSE Restarts
     /\ asked = "started" =>
          /\ (p = "idle" /\ CardUp) \/ p \in {"upStarted", "upEnd", "upKeep"} => Resumed
          /\ p = "down" => Resumed \/ Restarts
          /\ p \in {"close", "downEnd", "up", "open"} \/ (p = "idle" /\ ~CardUp) =>
               w.paused_ \/ Restarts

Asked ==
  /\ Meant /\ Whole
  /\ class # "sensor" => IF Calm THEN CalmAsked ELSE LossyAsked
  /\ class = "sensor" /\ scenario.Faults = {} => SensorAsked

AskedInv == DeviceInv /\ (Ordinary /\ Remembers => Asked)

\* start has begun: it returns, or has a last step before it.
Begun(t) ==
  \/ Return(t, "started")
  \/ class = "common" /\ Goto(t, "startRegister") /\ asked' = asked
  \/ class = "incall" /\ Goto(t, "startUnlock") /\ asked' = asked
\* The state and what is noted for recovery are left alone.
Untouched == w'.currentState = w.currentState /\ w'.cachedState = w.cachedState

\* What start does and tells: it starts, or notes that it is to, or is held back, or
\* fails, for which without faults the state is the only reason.
LEMMA StartSays ==
  ASSUME Typed, NEW t \in Threads, Start(t)
  PROVE  \/ /\ CardUp /\ ~w.paused_ /\ Begun(t)
            /\ w.currentState \in Startable \cup {"STARTED"}
            /\ w'.currentState = "STARTED" /\ w'.cachedState = w.cachedState
         \/ /\ ~CardUp /\ ~w.paused_ /\ class # "nontunnel" /\ Begun(t)
            /\ w'.currentState = w.currentState /\ w'.cachedState = "STARTED"
         \/ w.paused_ /\ w' = w /\ Return(t, "started")
         \/ /\ Untouched
            /\ Fail(t) \/ (class = "incall" /\ Goto(t, "startFailed") /\ asked' = asked)
            /\ scenario.Faults = {} /\ class # "nontunnel"
                 /\ (class = "haptics" => w.mDevices # {}) =>
                 CardUp /\ ~w.paused_ /\ w.currentState \notin Startable \cup {"STARTED"}
<1>0. class \in {"common", "haptics", "incall", "nontunnel", "sensor"} /\ w \in StreamType
  BY ScenariosAssumption DEF Typed, class
<1>. DEFINE Did == /\ CardUp /\ ~w.paused_ /\ Begun(t)
                   /\ w.currentState \in Startable \cup {"STARTED"}
                   /\ w'.currentState = "STARTED" /\ w'.cachedState = w.cachedState
            Not == /\ Untouched
                   /\ Fail(t) \/ (class = "incall" /\ Goto(t, "startFailed") /\ asked' = asked)
            Why == scenario.Faults = {} /\ class # "nontunnel"
                     /\ (class = "haptics" => w.mDevices # {})
<1>1. CASE class = "nontunnel" /\ (~CardUp \/ w.ssrInNTMode)
  BY <1>1 DEF Start, Same, Untouched
<1>2. CASE ~(class = "nontunnel" /\ (~CardUp \/ w.ssrInNTMode)) /\ w.paused_
  BY <1>2 DEF Start, Same
<1>3. CASE ~(class = "nontunnel" /\ (~CardUp \/ w.ssrInNTMode)) /\ ~w.paused_ /\ ~CardUp
  <2>1. EndStart(t, TRUE) /\ Leaves([w EXCEPT !.cachedState = "STARTED"], dev)
    BY <1>3 DEF Start
  <2>2. w'.currentState = w.currentState /\ w'.cachedState = "STARTED"
    BY <1>0, <2>1 DEF Leaves, StreamType
  <2>. QED  BY <1>3, <2>1, <2>2 DEF EndStart, Begun
<1>4. CASE CardUp /\ ~w.paused_ /\ ~(class = "nontunnel" /\ w.ssrInNTMode)
           /\ w.currentState = "STARTED"
  <2>1. EndStart(t, TRUE) /\ Same
    BY <1>4 DEF Start
  <2>. QED  BY <1>4, <2>1 DEF EndStart, Begun, Same
<1>5. CASE CardUp /\ ~w.paused_ /\ ~(class = "nontunnel" /\ w.ssrInNTMode)
           /\ w.currentState \notin Startable \cup {"STARTED"}
  <2>1. EndStart(t, FALSE) /\ Same
    BY <1>5 DEF Start
  <2>. QED  BY <1>5, <2>1 DEF EndStart, Same, Untouched
<1>6. CASE CardUp /\ ~w.paused_ /\ ~(class = "nontunnel" /\ w.ssrInNTMode)
           /\ w.currentState # "STARTED" /\ w.currentState \in Startable
  <2>1. CASE class = "common"
    <3>1. StartCommon(t)
      BY <1>6, <2>1 DEF Start
    <3>2. \/ Not /\ ~Why
          \/ Did
      <4>1. \/ /\ Fail(t) /\ w' = w
               /\ "deviceStart" \in scenario.Faults \/ "sessionStart" \in scenario.Faults
            \/ /\ Goto(t, "startRegister") /\ asked' = asked
               /\ w' = [w EXCEPT !.session = "started", !.currentState = "STARTED"]
        BY <3>1 DEF StartCommon, Leaves, May
      <4>. QED  BY <1>0, <1>6, <2>1, <4>1 DEF StreamType, Begun, Untouched
    <3>. QED  BY <3>2
  <2>2. CASE class = "haptics"
    <3>1. StartHaptics(t)
      BY <1>6, <2>2 DEF Start
    <3>2. PICK bad \in (IF May("deviceStart") THEN SUBSET w.mDevices ELSE {{}}),
               f \in {"none", "sessionStart"} :
            LET good == w.mDevices \ bad
                x == [w EXCEPT !.mDevices = good]
            IN /\ May(f) /\ (good = {} => f = "none")
               /\ IF good = {} THEN Fail(t) /\ w' = x
                  ELSE IF f = "sessionStart"
                    THEN Fail(t) /\ w' = [x EXCEPT !.registered = @ \ good]
                    ELSE /\ Return(t, "started")
                         /\ w' = [x EXCEPT !.session = "started", !.currentState = "STARTED",
                                           !.registered = good]
      BY <3>1 DEF StartHaptics, Leaves
    <3>3. Why => bad = {} /\ f = "none" /\ w.mDevices \ bad # {}
      BY <2>2, <3>2 DEF May
    <3>4. \/ Not /\ ~Why
          \/ Did
      BY <1>0, <1>6, <2>2, <3>2, <3>3 DEF StreamType, Begun, Untouched
    <3>. QED  BY <3>4
  <2>3. CASE class = "sensor"
    <3>1. StartSensor(t)
      BY <1>6, <2>3 DEF Start
    <3>2. \/ /\ Fail(t) /\ scenario.Faults # {}
             /\ w'.currentState = w.currentState /\ w'.cachedState = w.cachedState
          \/ /\ Return(t, "started")
             /\ w'.currentState = "STARTED" /\ w'.cachedState = w.cachedState
      BY <1>0, <3>1 DEF StartSensor, Leaves, Same, May, StreamType
    <3>. QED  BY <1>6, <3>2 DEF Begun, Untouched
  <2>4. CASE class = "incall"
    <3>1. StartInCall(t)
      BY <1>0, <1>6, <2>4 DEF Start
    <3>2. \/ Goto(t, "startUnlock") /\ asked' = asked /\ w' = Running
          \/ Goto(t, "startFailed") /\ asked' = asked /\ w' = w /\ scenario.Faults # {}
      BY <2>4, <3>1 DEF StartInCall, EndStart, Leaves, Same, May
    <3>. QED  BY <1>0, <1>6, <2>4, <3>2 DEF Running, StreamType, Begun, Untouched
  <2>5. CASE class = "nontunnel"
    <3>1. StartNonTunnel(t)
      BY <1>0, <1>6, <2>5 DEF Start
    <3>2. \/ Return(t, "started") /\ w' = Running
          \/ Fail(t) /\ w' = w
      BY <3>1 DEF StartNonTunnel, Leaves, Same
    <3>. QED  BY <1>0, <1>6, <2>5, <3>2 DEF Running, StreamType, Begun, Untouched
  <2>. QED  BY <1>0, <2>1, <2>2, <2>3, <2>4, <2>5
<1>. QED  BY <1>0, <1>1, <1>2, <1>3, <1>4, <1>5, <1>6 DEF Startable

\* Other calls of the client and what they tell.
LEMMA OthersSay ==
  ASSUME Typed, NEW t \in Threads, StreamStep(t)
  PROVE  /\ Stop(t) =>
              /\ w'.cachedState = w.cachedState
              /\ \/ w'.currentState \notin Stoppable /\ Return(t, "stopped")
                 \/ w'.currentState = w.currentState /\ (Fail(t) \/ Return(t, ""))
                 \/ HasDevices /\ Untouched /\ Goto(t, "stopRun") /\ asked' = asked
         /\ StopRun(t) =>
              /\ w'.cachedState = w.cachedState /\ w'.currentState = "STOPPED"
              /\ Return(t, "stopped")
         /\ Suspend(t) =>
              /\ w'.cachedState = w.cachedState
              /\ \/ w' = w /\ (Return(t, "") \/ Return(t, asked))
                 \/ w'.currentState = "SUSPENDED" /\ Return(t, "suspended")
         /\ PauseStream(t) =>
              /\ Return(t, "paused")
              /\ IF CardUp
                   THEN w'.currentState = "PAUSED" /\ w'.cachedState = w.cachedState
                   ELSE w'.currentState = w.currentState /\ w'.cachedState = "PAUSED"
         /\ ResumeStream(t) =>
              /\ Return(t, "started")
              /\ IF CardUp
                   THEN w'.currentState = "STARTED" /\ w'.cachedState = w.cachedState
                   ELSE w'.currentState = w.currentState /\ w'.cachedState = "STARTED"
         /\ StartRegister(t) => Untouched /\ Return(t, "started")
         /\ StartUnlock(t) =>
              Untouched /\ IF pc[t] = "startUnlock" THEN Return(t, "started") ELSE Fail(t)
<1>0. class \in {"common", "haptics", "incall", "nontunnel", "sensor"} /\ w \in StreamType
  BY ScenariosAssumption DEF Typed, class
<1>1. ASSUME Stop(t)
      PROVE  /\ w'.cachedState = w.cachedState
             /\ \/ w'.currentState \notin Stoppable /\ Return(t, "stopped")
                \/ w'.currentState = w.currentState /\ (Fail(t) \/ Return(t, ""))
                \/ HasDevices /\ Untouched /\ Goto(t, "stopRun") /\ asked' = asked
  <2>1. CASE w.currentState \in Stoppable /\ HasDevices
    <3>1. Goto(t, "stopRun") /\ Same /\ asked' = asked
      BY <1>0, <1>1, <2>1 DEF Stop, HasDevices
    <3>. QED  BY <2>1, <3>1 DEF Same, Untouched
  <2>2. CASE w.currentState \in Stoppable /\ ~HasDevices
    <3>1. StopSensor(t) \/ StopInCall(t) \/ StopNonTunnel(t)
      BY <1>0, <1>1, <2>2 DEF Stop, HasDevices
    <3>2. Return(t, "stopped") /\ w' \in {Ended, [Ended EXCEPT !.registered = @ \ w.mDevices]}
      BY <3>1 DEF StopSensor, StopInCall, StopNonTunnel, Leaves
    <3>. QED  BY <1>0, <3>2 DEF Ended, StreamType, Stoppable
  <2>3. CASE w.currentState \notin Stoppable
    <3>1. w' = w /\ (Return(t, "stopped") \/ Return(t, "") \/ Fail(t))
      BY <1>1, <2>3 DEF Stop, Same
    <3>. QED  BY <2>3, <3>1
  <2>. QED  BY <2>1, <2>2, <2>3
<1>2. ASSUME StopRun(t)
      PROVE  /\ w'.cachedState = w.cachedState /\ w'.currentState = "STOPPED"
             /\ Return(t, "stopped")
  BY <1>0, <1>2 DEF StopRun, Leaves, Ended, StreamType
<1>3. ASSUME Suspend(t)
      PROVE  /\ w'.cachedState = w.cachedState
             /\ \/ w' = w /\ (Return(t, "") \/ Return(t, asked))
                \/ w'.currentState = "SUSPENDED" /\ Return(t, "suspended")
  <2>1. CASE ~CardUp \/ w.ssrInNTMode \/ w.currentState # "STARTED"
    BY <1>3, <2>1 DEF Suspend, Same
  <2>2. CASE ~(~CardUp \/ w.ssrInNTMode \/ w.currentState # "STARTED")
    <3>1. Return(t, "suspended")
          /\ w' = [w EXCEPT !.currentState = "SUSPENDED", !.session = "open"]
      BY <1>3, <2>2 DEF Suspend, Leaves
    <3>. QED  BY <1>0, <3>1 DEF StreamType
  <2>. QED  BY <2>1, <2>2
<1>4. ASSUME PauseStream(t)
      PROVE  /\ Return(t, "paused")
             /\ IF CardUp
                  THEN w'.currentState = "PAUSED" /\ w'.cachedState = w.cachedState
                  ELSE w'.currentState = w.currentState /\ w'.cachedState = "PAUSED"
  BY <1>0, <1>4 DEF PauseStream, Leaves, StreamType
<1>5. ASSUME ResumeStream(t)
      PROVE  /\ Return(t, "started")
             /\ IF CardUp
                  THEN w'.currentState = "STARTED" /\ w'.cachedState = w.cachedState
                  ELSE w'.currentState = w.currentState /\ w'.cachedState = "STARTED"
  BY <1>0, <1>5 DEF ResumeStream, Leaves, StreamType
<1>6. ASSUME StartRegister(t)
      PROVE  Untouched /\ Return(t, "started")
  BY <1>0, <1>6 DEF StartRegister, Leaves, Untouched, StreamType
<1>7. ASSUME StartUnlock(t)
      PROVE  Untouched /\ IF pc[t] = "startUnlock" THEN Return(t, "started") ELSE Fail(t)
  BY <1>7 DEF StartUnlock, Untouched
<1>. QED  BY <1>1, <1>2, <1>3, <1>4, <1>5, <1>6, <1>7

\* What the client knows when a call of it ends or goes on.
LEMMA ClientTold ==
  ASSUME Typed, ret["client"] = <<>>
  PROVE  /\ \A said : Return("client", said) =>
              /\ pc'["client"] = "idle"
              /\ asked' = IF said = "" THEN asked ELSE said
         /\ Fail("client") => pc'["client"] = "idle" /\ asked' = asked
         /\ \A l : Goto("client", l) => pc'["client"] = l
         /\ Begun("client") => /\ pc'["client"] \in {"idle", "startRegister", "startUnlock"}
                               /\ believed' = "started" /\ asked' \in {asked, "started"}
<1>0. "client" \in Threads /\ pc \in [Threads -> Pcs]
  BY DEF Threads, Typed
<1>1. ASSUME NEW said, Return("client", said)
      PROVE  /\ pc'["client"] = "idle"
             /\ asked' = IF said = "" THEN asked ELSE said
  BY <1>0, <1>1, ReturnedTo DEF Tell
<1>2. Fail("client") => pc'["client"] = "idle" /\ asked' = asked
  BY <1>1 DEF Fail
<1>3. \A l : Goto("client", l) => pc'["client"] = l
  BY <1>0 DEF Goto
<1>4. ASSUME Begun("client")
      PROVE  /\ pc'["client"] \in {"idle", "startRegister", "startUnlock"}
             /\ believed' = "started" /\ asked' \in {asked, "started"}
  BY <1>1, <1>3, <1>4 DEF Begun, believed
<1>. QED  BY <1>1, <1>2, <1>3, <1>4

\* A step of a call of the client: done, noted for recovery, put off while the stream is
\* held back, or without effect.
LEMMA ClientSays ==
  ASSUME Typed, Places, HeldBack, Ordinary, Meant, handle = "open", StreamStep("client")
  PROVE  /\ handle' = "open" /\ scenario' = scenario /\ card' = card /\ Meant'
         /\ \/ /\ CardUp /\ w'.currentState = "STARTED" /\ w'.cachedState = w.cachedState
               /\ believed' = "started"
               /\ \/ "resume" \in scenario.Ops
                  \/ w.currentState \in Startable \cup {"STARTED"} /\ believed # "paused"
            \/ /\ CardUp /\ w'.currentState = "PAUSED" /\ w'.cachedState = w.cachedState
               /\ believed' = "paused" /\ class = "incall"
            \/ /\ ~CardUp /\ class # "nontunnel" /\ w'.currentState = w.currentState
               /\ \/ w'.cachedState = "STARTED" /\ believed' = "started"
                    /\ ("resume" \in scenario.Ops \/ believed # "paused")
                  \/ w'.cachedState = "PAUSED" /\ believed' = "paused" /\ class = "incall"
            \/ w.paused_ /\ Untouched /\ class = "sensor" /\ believed' = "started"
            \/ Untouched /\ believed' = believed
            \/ /\ w'.currentState \notin Stoppable /\ w'.cachedState = w.cachedState
               /\ believed' = "stopped" /\ "stop" \in scenario.Ops
            \/ /\ w'.currentState = "SUSPENDED" /\ w'.cachedState = w.cachedState
               /\ believed' = "suspended" /\ class = "nontunnel"
<1>0. class \in {"common", "haptics", "incall", "nontunnel", "sensor"} /\ w \in StreamType
      /\ "client" \in Threads /\ pc \in [Threads -> Pcs]
  BY ScenariosAssumption DEF Typed, class, Threads
<1>1. /\ ret["client"] = <<>>
      /\ pc["client"] \notin {"open", "close", "closeRun"}
      /\ pc["client"] \in {"stop", "stopRun"} => "stop" \in scenario.Ops
      /\ pc["client"] \in {"pause", "resume"} => class = "incall"
      /\ pc["client"] = "resume" => "resume" \in scenario.Ops
      /\ pc["client"] = "suspend" => class = "nontunnel"
      /\ pc["client"] = "startRegister" => class = "common"
      /\ pc["client"] \in {"startUnlock", "startFailed"} => class = "incall"
  BY <1>0 DEF Places, ClientPlace, AfterStart, AfterStop, HasDevices, Ordinary, OpsOf
<1>2. /\ ~Open("client") /\ ~Close("client") /\ ~CloseRun("client")
      /\ Start("client") => pc["client"] = "start"
      /\ StartRegister("client") => pc["client"] = "startRegister"
      /\ StartUnlock("client") => pc["client"] \in {"startUnlock", "startFailed"}
      /\ Stop("client") => pc["client"] = "stop"
      /\ StopRun("client") => pc["client"] = "stopRun"
      /\ Suspend("client") => pc["client"] = "suspend"
      /\ PauseStream("client") => pc["client"] = "pause"
      /\ ResumeStream("client") => pc["client"] = "resume"
  BY <1>1 DEF Open, Close, CloseRun, Start, StartRegister, StartUnlock, Stop, StopRun, Suspend,
     PauseStream, ResumeStream
<1>3. handle' = "open" /\ scenario' = scenario /\ card' = card
  BY <1>2 DEF StreamStep, Start, StartRegister, StartUnlock, Stop, StopRun, Suspend,
     PauseStream, ResumeStream, outside
<1>4. w.paused_ => class = "sensor"
  BY DEF HeldBack, Typed
<1>5. ASSUME pc'["client"] \notin {"pause", "start", "startRegister", "startUnlock",
                                  "startFailed"}
      PROVE  Meant' /\ believed' = asked'
  BY <1>3, <1>5 DEF Meant, believed
<1>6. pc["client"] \notin {"startRegister", "startUnlock"} => believed = asked
  BY DEF believed
<1>7. ASSUME NEW said, Return("client", said)
      PROVE  /\ Meant' /\ believed' = IF said = "" THEN asked ELSE said
  BY <1>1, <1>5, <1>7, ClientTold
<1>8. Fail("client") => Meant' /\ believed' = asked
  BY <1>7 DEF Fail
<1>9. CASE Start("client")
  <2>1. asked # "paused" /\ believed = asked
    BY <1>2, <1>6, <1>9 DEF Meant
  <2>2. ASSUME Begun("client")
        PROVE  Meant' /\ believed' = "started"
    <3>1. /\ pc'["client"] \in {"idle", "startRegister", "startUnlock"}
          /\ believed' = "started" /\ asked' \in {asked, "started"}
      BY <1>1, <2>2, ClientTold
    <3>. QED  BY <1>3, <2>1, <3>1 DEF Meant
  <2>3. ASSUME Goto("client", "startFailed"), asked' = asked
        PROVE  Meant' /\ believed' = believed
    <3>1. pc'["client"] = "startFailed"
      BY <1>1, <2>3, ClientTold
    <3>. QED  BY <1>3, <2>1, <2>3, <3>1 DEF Meant, believed
  <2>. QED  BY <1>0, <1>3, <1>4, <1>7, <1>8, <1>9, <2>1, <2>2, <2>3, StartSays DEF Untouched
<1>10. CASE StartRegister("client") \/ StartUnlock("client")
  <2>1. believed = IF pc["client"] = "startFailed" THEN asked ELSE "started"
    BY <1>2, <1>10 DEF believed
  <2>. QED  BY <1>0, <1>2, <1>3, <1>7, <1>8, <1>10, <2>1, OthersSay
<1>11. CASE Stop("client")
  <2>1. Goto("client", "stopRun") /\ asked' = asked => Meant' /\ believed' = asked
    BY <1>1, <1>5, ClientTold
  <2>2. believed = asked /\ "stop" \in scenario.Ops
    BY <1>1, <1>2, <1>6, <1>11
  <2>. QED  BY <1>0, <1>3, <1>7, <1>8, <1>11, <2>1, <2>2, OthersSay DEF Untouched
<1>12. CASE StopRun("client")
  <2>1. "stop" \in scenario.Ops
    BY <1>1, <1>2, <1>12
  <2>2. /\ w'.cachedState = w.cachedState /\ w'.currentState = "STOPPED"
        /\ Return("client", "stopped")
    BY <1>0, <1>12, OthersSay
  <2>. QED  BY <1>3, <1>7, <2>1, <2>2 DEF Stoppable
<1>13. CASE Suspend("client")
  <2>1. class = "nontunnel" /\ believed = asked
    BY <1>1, <1>2, <1>6, <1>13
  <2>2. Return("client", "") \/ Return("client", asked) => Meant' /\ believed' = asked
    BY <1>7
  <2>. QED  BY <1>0, <1>3, <1>7, <1>13, <2>1, <2>2, OthersSay DEF Untouched
<1>14. CASE PauseStream("client") \/ ResumeStream("client")
  <2>1. class = "incall" /\ (ResumeStream("client") => "resume" \in scenario.Ops)
    BY <1>1, <1>2, <1>14
  <2>. QED  BY <1>0, <1>3, <1>7, <1>14, <2>1, OthersSay
<1>. QED  BY <1>2, <1>9, <1>10, <1>11, <1>12, <1>13, <1>14 DEF StreamStep

\* Recovery and the manager tell the client nothing.
LEMMA OthersTell ==
  ASSUME Typed, NEW t \in Threads, t # "client", StreamStep(t)
  PROVE  asked' = asked
<1>0. class \in {"common", "haptics", "incall", "nontunnel", "sensor"}
  BY ScenariosAssumption DEF Typed, class
<1>1. \A said : Return(t, said) => asked' = asked
  BY DEF Return, Tell
<1>2. Fail(t) => asked' = asked
  BY DEF Fail
<1>3. CASE Open(t)
  BY <1>1, <1>2, <1>3 DEF Open, Opens, OpenFails
<1>4. CASE Start(t)
  BY <1>1, <1>2, <1>4, StartSays DEF Begun
<1>5. CASE StartRegister(t) \/ StartUnlock(t) \/ Stop(t) \/ StopRun(t) \/ Suspend(t)
           \/ PauseStream(t) \/ ResumeStream(t)
  BY <1>1, <1>2, <1>5, OthersSay
<1>6. CASE Close(t) \/ CloseRun(t)
  <2>1. IsClosed(t) => Return(t, "")
    BY <1>0 DEF IsClosed, CloseCommon, CloseInCall, CloseSensor, HasDevices
  <2>2. Return(t, "") \/ asked' = asked
    BY <1>0, <1>6, <2>1 DEF Close, CloseRun, CloseNonTunnel
  <2>. QED  BY <1>1, <2>2
<1>. QED  BY <1>3, <1>4, <1>5, <1>6 DEF StreamStep

\* The open of the client ends with a stream nothing was asked of.
LEMMA OpenSays ==
  ASSUME Typed, Places, Ordinary, Meant, handle # "open", StreamStep("client")
  PROVE  handle' = "open" => /\ asked' = "nothing" /\ believed' = "nothing"
                             /\ pc'["client"] = "idle" /\ CardUp /\ card' = card
                             /\ w'.currentState \in {"IDLE", "INIT"} /\ w'.cachedState = "IDLE"
<1>0. w \in StreamType /\ "client" \in Threads
  BY DEF Typed, Threads
<1>1. CASE Open("client")
  <2>1. handle = "opening" /\ ret["client"] = <<>>
    BY <1>1 DEF Open, Places, ClientPlace, Typed, AfterStart, AfterStop, Ordinary, OpsOf
  <2>2. asked = "nothing" /\ w.currentState = "IDLE" /\ w.cachedState = "IDLE"
    BY <2>1 DEF Meant
  <2>3. handle' = "open" => Return("client", "") /\ CardUp /\ card' = card
    <3>1. ~CardUp => handle' # "open"
      BY <1>1 DEF Open, OpenFails, Outcome
    <3>2. handle' = "open" => Return("client", "")
      BY <1>1 DEF Open, Opens, OpenFails
    <3>. QED  BY <1>1, <3>1, <3>2 DEF Open
  <2>4. Return("client", "") =>
          asked' = "nothing" /\ pc'["client"] = "idle" /\ believed' = "nothing"
    BY <2>1, <2>2, ClientTold DEF believed
  <2>5. w' = w \/ w' = Inited \/ w' = [w EXCEPT !.currentState = "INIT"]
    BY <1>0, <1>1, OpenTyped
  <2>6. w'.currentState \in {"IDLE", "INIT"} /\ w'.cachedState = "IDLE"
    BY <1>0, <2>2, <2>5 DEF Inited, StreamType
  <2>. QED  BY <2>3, <2>4, <2>6
<1>2. CASE ~Open("client")
  <2>1. handle' = handle
    BY <1>2 DEF StreamStep, Start, StartRegister, StartUnlock, Stop, StopRun, Suspend, PauseStream,
       ResumeStream, Close, CloseRun, outside
  <2>. QED  BY <2>1
<1>. QED  BY <1>1, <1>2

\* A call begins, with what it may be called after.
LEMMA CallBegins ==
  ASSUME Typed, Places, Ordinary, Meant, ClientStep, handle' = "open"
  PROVE  /\ handle = "open" /\ pc["client"] = "idle" /\ asked' = asked /\ believed' = believed
         /\ believed = asked /\ card' = card /\ scenario' = scenario /\ Meant'
         /\ w'.currentState = w.currentState /\ pc'["client"] \in scenario.Ops
         /\ w'.cachedState = IF pc'["client"] = "stop" THEN "STOPPED" ELSE w.cachedState
         /\ Others("client")
<1>0. w \in StreamType /\ "client" \in Threads /\ pc \in [Threads -> Pcs]
  BY DEF Typed, Threads
<1>1. PICK op \in scenario.Ops : ClientCall(op)
  BY DEF ClientStep, ClientOpen, ClientClose, ClientDelete
<1>2. /\ handle = "open" /\ pc["client"] = "idle" /\ asked' = asked /\ handle' = handle
      /\ card' = card /\ scenario' = scenario
  BY <1>1 DEF ClientCall, ClientFree, clientOnly
<1>3. pc'["client"] = op /\ Others("client")
  BY <1>0, <1>1 DEF ClientCall, Goto, Others
<1>4. op \in OpsOf(class) /\ op \notin {"startRegister", "startUnlock", "startFailed"}
  BY DEF Ordinary, OpsOf
<1>5. /\ op = "pause" => asked = "started"
      /\ op = "start" => asked # "paused"
  BY <1>1 DEF ClientCall, Allowed
<1>6. Meant' /\ believed' = asked /\ believed = asked
  BY <1>2, <1>3, <1>4, <1>5 DEF Meant, believed
<1>7. /\ w'.currentState = w.currentState
      /\ w'.cachedState = IF op = "stop" THEN "STOPPED" ELSE w.cachedState
  BY <1>0, <1>1 DEF ClientCall, StreamType
<1>. QED  BY <1>2, <1>3, <1>6, <1>7

\* A call the client has begun is one it may make.
LEMMA MeantStep ==
  ASSUME Typed, Places, HeldBack, Ordinary, Meant, Next, Places', Typed'
  PROVE  Meant'
<1>0. \A t \in Threads : pc[t] # "idle" /\ t # "client" => handle = "open"
  BY Alone DEF Threads
<1>1. ASSUME handle' = "closing"
      PROVE  Meant'
  BY <1>1 DEF Meant, Places, ClientPlace, AfterStop
<1>2. ASSUME handle' = "none"
      PROVE  Meant'
  BY <1>2 DEF Meant, Places, ClientPlace
<1>3. ASSUME NEW t \in Threads, StreamStep(t), Others(t)
      PROVE  Meant'
  <2>1. CASE t = "client" /\ handle = "open"
    BY <1>3, <2>1, ClientSays
  <2>2. CASE t = "client" /\ handle # "open"
    <3>1. handle' \in {"open", "closing"}
      BY <1>3, <2>2, ClientEnds DEF Typed
    <3>2. handle' = "open" => Meant'
      BY <1>3, <2>2, OpenSays DEF Meant
    <3>. QED  BY <1>1, <3>1, <3>2
  <2>3. CASE t # "client"
    <3>1. handle = "open" /\ handle' = "open"
      BY <1>3, <2>3, ClientEnds
    <3>2. asked' = asked /\ pc'["client"] = pc["client"]
      BY <1>3, <2>3, OthersTell DEF Others, Threads
    <3>. QED  BY <3>1, <3>2 DEF Meant
  <2>. QED  BY <2>1, <2>2, <2>3
<1>4. CASE ClientStep
  <2>1. CASE handle' = "open"
    BY <1>4, <2>1, CallBegins
  <2>2. CASE handle' = "opening"
    <3>1. ClientOpen
      BY <1>4, <2>2 DEF ClientStep, ClientCall, ClientClose, ClientDelete
    <3>2. w'.currentState = "IDLE" /\ w'.cachedState = "IDLE" /\ asked' = "nothing"
      BY <3>1, NewStreamTyped DEF ClientOpen, Typed
    <3>3. pc'["client"] = "open"
      BY <3>1 DEF ClientOpen, Goto, Typed, Threads
    <3>. QED  BY <3>2, <3>3 DEF Meant
  <2>. QED  BY <1>1, <1>2, <2>1, <2>2 DEF Typed
<1>5. CASE SsrStep \/ LoseCard \/ CardBack
  <2>1. handle' = handle /\ asked' = asked /\ pc'["client"] = pc["client"]
    BY <1>5, WalkKeeps
  <2>2. ASSUME handle = "opening"
        PROVE  w' = w
    <3>1. pc["ssr"] = "idle"
      BY <1>0, <2>2 DEF Threads
    <3>2. SsrTake \/ LoseCard \/ CardBack
      BY <1>5, <3>1 DEF SsrStep, SsrDown, SsrRelock, SsrDownEnd, SsrUp, SsrUpStart, SsrUpStarted,
         SsrUpEnd
    <3>. QED  BY <3>2 DEF SsrTake, LoseCard, CardBack
  <2>. QED  BY <2>1, <2>2 DEF Meant
<1>6. CASE MgrEnds \/ MgrPause \/ MgrResume \/ MgrSwitch \/ MgrProfile
  <2>1. handle' = handle /\ asked' = asked
    BY <1>6 DEF MgrEnds, MgrPaused, MgrEnd, MgrConnect, MgrPause, MgrResume, MgrSwitch, MgrProfile,
       mgrOnly
  <2>2. handle # "opening"
    <3>1. pc["mgr"] # "idle" => handle = "open"
      BY <1>0 DEF Threads
    <3>. QED  BY <1>6, <3>1 DEF MgrEnds, MgrPaused, MgrEnd, MgrConnect, MgrPause, MgrResume,
              MgrSwitch, MgrProfile, MgrMay
  <2>3. pc'["client"] = pc["client"]
    BY <1>6 DEF MgrEnds, MgrPaused, MgrEnd, MgrConnect, MgrPause, MgrResume, MgrSwitch,
       MgrProfile, SensorPause, SensorResume, SensorDisconnect, Goto, Call, Typed, Threads
  <2>. QED  BY <2>1, <2>2, <2>3 DEF Meant
<1>7. ASSUME NEW t \in Threads, StreamStep(t)
      PROVE  Others(t)
  BY <1>7, StreamStepPlaces, OpenPlaces
<1>. QED  BY <1>3, <1>4, <1>5, <1>6, <1>7 DEF Next

\* The states that fit what the client knows.
LEMMA DueIs ==
  /\ believed = "started" => Due = {"STARTED"}
  /\ believed = "paused" => Due = {"PAUSED"}
  /\ believed = "suspended" => Due = {"SUSPENDED"}
  /\ believed \notin {"started", "paused", "suspended"} => Due = State \ Stoppable
<1>1. CASE believed \in {"started", "paused", "suspended"}
  BY <1>1 DEF Due
<1>2. CASE believed \notin {"started", "paused", "suspended"}
  BY <1>2 DEF Due
<1>. QED  BY <1>1, <1>2
LEMMA DueThen ==
  /\ believed' = "started" => Due' = {"STARTED"}
  /\ believed' = "paused" => Due' = {"PAUSED"}
  /\ believed' = "suspended" => Due' = {"SUSPENDED"}
  /\ believed' \notin {"started", "paused", "suspended"} => Due' = State \ Stoppable
<1>1. CASE believed' \in {"started", "paused", "suspended"}
  BY <1>1 DEF Due, State, Stoppable
<1>2. CASE believed' \notin {"started", "paused", "suspended"}
  BY <1>2 DEF Due, State, Stoppable
<1>. QED  BY <1>1, <1>2
LEMMA DueSame == believed' = believed => Due' = Due
BY DueIs, DueThen

\* Without a loss, and with a stream that recovery leaves to its client, the stream is as
\* the client takes it to be after each step.
LEMMA CalmStep ==
  ASSUME Typed, Places, HeldBack, Ordinary, Meant, CalmAsked, class # "sensor", Calm, Next,
         Typed'
  PROVE  CalmAsked'
<1>0. pc["mgr"] = "idle" /\ w'.currentState \in State
  BY DEF Places, MgrPlace, Typed, StreamType
<1>1. /\ pc["ssr"] # "idle" => class = "nontunnel" /\ pc["ssr"] \in {"down", "downEnd", "up", "upKeep"}
      /\ class # "nontunnel" => CardUp /\ downs = 0
  BY DEF Places, SsrPlace, Calm, Typed
<1>2. ASSUME NEW t \in Threads, StreamStep(t)
      PROVE  CalmAsked'
  <2>1. t = "client"
    BY <1>0, <1>1, <1>2, Handler DEF Threads
  <2>2. CASE handle = "open"
    <3>1. w.currentState \in Due
      BY <2>2 DEF CalmAsked
    <3>2. ~w.paused_
      BY <2>2 DEF HeldBack, Typed
    <3>3. \/ w'.currentState = "STARTED" /\ believed' = "started"
          \/ w'.currentState = "PAUSED" /\ believed' = "paused"
          \/ w'.currentState = w.currentState /\ believed' = believed
          \/ w'.currentState \notin Stoppable /\ believed' = "stopped"
          \/ w'.currentState = "SUSPENDED" /\ believed' = "suspended"
      BY <1>1, <1>2, <2>1, <2>2, <3>2, ClientSays DEF Untouched
    <3>. QED  BY <1>0, <3>1, <3>3, DueThen, DueSame DEF CalmAsked
  <2>3. CASE handle # "open"
    <3>1. handle' = "open" => believed' = "nothing" /\ w'.currentState \in {"IDLE", "INIT"}
      BY <1>2, <2>1, <2>3, OpenSays
    <3>. QED  BY <1>0, <3>1, DueThen DEF CalmAsked, Stoppable
  <2>. QED  BY <2>2, <2>3
<1>3. CASE ClientStep
  <2>1. handle' = "open" =>
          handle = "open" /\ believed' = believed /\ w'.currentState = w.currentState
    BY <1>3, CallBegins
  <2>. QED  BY <2>1, DueSame DEF CalmAsked
<1>4. CASE SsrStep \/ LoseCard \/ CardBack
  <2>1. /\ handle' = handle /\ asked' = asked /\ pc'["client"] = pc["client"]
        /\ ~SsrDownEnd => w'.currentState = w.currentState
    BY <1>4, WalkKeeps
  <2>2. SsrDownEnd => w' = w
    BY <1>1 DEF SsrDownEnd
  <2>3. believed' = believed /\ w'.currentState = w.currentState
    BY <2>1, <2>2 DEF believed
  <2>. QED  BY <2>1, <2>3, DueSame DEF CalmAsked
<1>5. ~(MgrEnds \/ MgrPause \/ MgrResume \/ MgrSwitch \/ MgrProfile)
  BY <1>0 DEF MgrEnds, MgrPaused, MgrEnd, MgrConnect, MgrPause, MgrResume, MgrSwitch, MgrProfile,
     MgrMay, Ordinary
<1>. QED  BY <1>2, <1>3, <1>4, <1>5 DEF Next

\* Nothing takes the devices of a haptics stream but a fault.
LEMMA WholeStep ==
  ASSUME Typed, Places, HeldBack, Ordinary, Whole, Next
  PROVE  Whole'
<1>. SUFFICES ASSUME class = "haptics", scenario.Faults = {}
              PROVE  w'.mDevices = Devices
  BY ScenarioKept DEF Whole, class
<1>0. w \in StreamType /\ w.mDevices = Devices /\ HasDevices
  BY DEF Typed, Whole, HasDevices
<1>1. ASSUME NEW t \in Threads, StreamStep(t)
      PROVE  w'.mDevices = Devices
  <2>1. CASE Open(t)
    <3>1. w' = w \/ w' = Inited \/ w' = [w EXCEPT !.currentState = "INIT"]
      BY <2>1, OpenTyped
    <3>. QED  BY <1>0, <3>1 DEF Inited, StreamType
  <2>2. CASE Start(t)
    <3>1. \/ Same \/ Leaves([w EXCEPT !.cachedState = "STARTED"], dev) \/ StartHaptics(t)
      BY <2>2 DEF Start
    <3>2. ASSUME StartHaptics(t)
          PROVE  w'.mDevices = Devices
      <4>1. \/ w' = [w EXCEPT !.mDevices = w.mDevices \ {}]
            \/ \E r : w' = [[w EXCEPT !.mDevices = w.mDevices \ {}] EXCEPT !.registered = r]
            \/ \E r : w' = [[w EXCEPT !.mDevices = w.mDevices \ {}] EXCEPT
                             !.session = "started", !.currentState = "STARTED", !.registered = r]
        BY <3>2 DEF StartHaptics, Leaves, May
      <4>. QED  BY <1>0, <4>1 DEF StreamType
    <3>. QED  BY <1>0, <3>1, <3>2 DEF Same, Leaves, StreamType
  <2>3. CASE StartRegister(t) \/ StartUnlock(t) \/ StopRun(t) \/ Suspend(t)
             \/ PauseStream(t) \/ ResumeStream(t)
    BY <1>0, <2>3 DEF StartRegister, StartUnlock, StopRun, Ended, Suspend, PauseStream,
       ResumeStream, Leaves, Same, StreamType
  <2>4. CASE Stop(t)
    BY <1>0, <2>4 DEF Stop, Same
  <2>5. CASE Close(t) \/ CloseRun(t)
    <3>1. CloseCommon(t) => w'.mDevices = Devices
      BY <1>0 DEF CloseCommon, Leaves, StreamType
    <3>. QED  BY <1>0, <2>5, <3>1 DEF Close, CloseRun, IsClosed, Same
  <2>. QED  BY <1>1, <2>1, <2>2, <2>3, <2>4, <2>5 DEF StreamStep
<1>2. CASE ClientStep
  <2>1. \/ w' = NewStream
        \/ w' \in {w, [w EXCEPT !.cachedState = "STOPPED"], [w EXCEPT !.cachedState = "IDLE"]}
    BY <1>2 DEF ClientStep, ClientOpen, ClientClose, ClientDelete, ClientCall
  <2>2. NewStream.mDevices = Devices
    BY <1>0 DEF NewStream, NewCommon
  <2>. QED  BY <1>0, <2>1, <2>2 DEF StreamType
<1>3. CASE SsrStep \/ LoseCard \/ CardBack
  BY <1>0, <1>3, WalkKeeps
<1>4. ~(MgrEnds \/ MgrPause \/ MgrResume \/ MgrSwitch \/ MgrProfile)
  BY DEF MgrEnds, MgrPaused, MgrEnd, MgrConnect, MgrPause, MgrResume, MgrSwitch, MgrProfile,
     MgrMay, Ordinary, Places, MgrPlace
<1>. QED  BY <1>1, <1>2, <1>3, <1>4 DEF Next

-----------------------------------------------------------------------------
(* A stream that is taken down and brought up again.                       *)

Lossy ==
  /\ class \in {"common", "haptics", "incall"} /\ scenario.Faults = {}
  /\ scenario.Ops \subseteq {"start", "pause"} /\ (class = "haptics" => w.mDevices # {})

\* What LossyAsked is about stays as it is.
LEMMA LossySame ==
  ASSUME LossyAsked, handle' = handle, believed' = believed, Untouched, class' = class,
         cardState' = cardState, pc'["ssr"] = pc["ssr"], ret'["ssr"] = ret["ssr"]
  PROVE  LossyAsked'
BY DueSame DEF LossyAsked, LossyFalls, LossyRises, Untouched, CardUp, Obeyed, Coming, Restarts,
   Stoppable

\* A call of the client.
LEMMA LossyClient ==
  ASSUME Typed, Places, HeldBack, Ordinary, Meant, Lossy, LossyAsked, handle = "open",
         StreamStep("client"), Others("client")
  PROVE  LossyAsked'
<1>1. /\ handle' = "open" /\ class' = class /\ cardState' = cardState
      /\ pc'["ssr"] = pc["ssr"] /\ ret'["ssr"] = ret["ssr"]
  BY ClientSays DEF Others, Threads, card, class
<1>2. ~w.paused_ /\ Startable = {"INIT", "STOPPED"}
  BY DEF HeldBack, Lossy, Startable, Typed
<1>3. /\ believed # "suspended" /\ (believed = "paused" => class = "incall")
      /\ w.currentState = "PAUSED" => believed = "paused"
      /\ CardUp /\ pc["ssr"] = "idle" => w.cachedState = "IDLE" /\ w.currentState \in Due
      /\ LossyFalls
      /\ CardUp => LossyRises
  BY DEF LossyAsked
<1>4. pc["ssr"] = "down" => ~CardUp
  BY DEF Places, SsrPlace, Rising, AfterStart
<1>5. CASE /\ CardUp /\ w'.currentState = "STARTED" /\ w'.cachedState = w.cachedState
           /\ believed' = "started"
           /\ w.currentState \in Startable \cup {"STARTED"} /\ believed # "paused"
  <2>1. CardUp' /\ Due' = {"STARTED"}
    BY <1>1, <1>5, DueThen DEF CardUp
  <2>2. ~Obeyed /\ w.currentState # "IDLE" /\ LossyRises
    BY <1>2, <1>3, <1>5 DEF Obeyed
  <2>3. Coming /\ Restarts => w.cachedState = "STARTED"
    BY <1>3, <1>5, <2>2, DueIs DEF Coming, Restarts, Stoppable
  <2>4. LossyRises'
    BY <1>1, <1>5, <2>1, <2>2, <2>3 DEF LossyRises, Obeyed, Coming, Restarts, Stoppable
  <2>. QED  BY <1>1, <1>3, <1>4, <1>5, <2>1, <2>4 DEF LossyAsked, LossyFalls
<1>6. CASE /\ CardUp /\ w'.currentState = "PAUSED" /\ w'.cachedState = w.cachedState
           /\ believed' = "paused" /\ class = "incall"
  <2>1. CardUp' /\ Due' = {"PAUSED"}
    BY <1>1, <1>6, DueThen DEF CardUp
  <2>2. LossyRises'
    BY <1>1, <1>3, <1>6, <2>1 DEF LossyRises, Obeyed, Coming, Restarts, Stoppable
  <2>. QED  BY <1>1, <1>3, <1>4, <1>6, <2>1, <2>2 DEF LossyAsked, LossyFalls
<1>7. CASE /\ ~CardUp /\ w'.currentState = w.currentState
           /\ \/ w'.cachedState = "STARTED" /\ believed' = "started" /\ believed # "paused"
              \/ w'.cachedState = "PAUSED" /\ believed' = "paused" /\ class = "incall"
  <2>1. ~CardUp' /\ Due' = {w'.cachedState}
    BY <1>1, <1>7, DueThen DEF CardUp
  <2>. QED  BY <1>1, <1>3, <1>7, <2>1 DEF LossyAsked, LossyFalls
<1>8. CASE Untouched /\ believed' = believed
  BY <1>1, <1>8, LossySame
<1>. QED  BY <1>2, <1>5, <1>6, <1>7, <1>8, ClientSays DEF Lossy

\* A step of recovery in a call of its own.
LEMMA LossyRecovery ==
  ASSUME Typed, Places, HeldBack, Ordinary, Lossy, LossyAsked, handle = "open",
         StreamStep("ssr"), Others("ssr")
  PROVE  LossyAsked'
<1>0. "ssr" \in Threads /\ w \in StreamType
  BY DEF Threads, Typed
<1>1. /\ handle' = "open" /\ class' = class /\ cardState' = cardState
  <2>1. handle' = handle
    BY <1>0, ClientEnds
  <2>2. class' = class /\ cardState' = cardState
    BY DEF StreamStep, Open, Start, StartRegister, StartUnlock, Stop, StopRun, Suspend,
       PauseStream, ResumeStream, Close, CloseRun, outside, card, class
  <2>. QED  BY <2>1, <2>2
<1>2. believed' = believed /\ Due' = Due
  <2>1. asked' = asked /\ pc'["client"] = pc["client"]
    BY <1>0, OthersTell DEF Others, Threads
  <2>. QED  BY <2>1, DueSame DEF believed
<1>3. /\ believed # "suspended" /\ (believed = "paused" => class = "incall")
      /\ w.currentState = "PAUSED" => believed = "paused"
      /\ LossyFalls
      /\ CardUp => LossyRises
  BY DEF LossyAsked
<1>4. ~w.paused_ /\ Startable = {"INIT", "STOPPED"}
  BY DEF HeldBack, Lossy, Startable, Typed
<1>5. /\ CardUp' = CardUp
      /\ pc["ssr"] # "idle"
  BY <1>0, <1>1, Handler DEF CardUp
<1>6. CASE ~CardUp
  <2>1. Falling(pc["ssr"], ret["ssr"]) /\ pc["ssr"] \in {"stop", "stopRun", "close"}
    BY <1>0, <1>5, <1>6, Handler DEF Places, SsrPlace, Falling, AfterStop
  <2>2. \/ pc["ssr"] = "stop" /\ Stop("ssr")
        \/ pc["ssr"] = "stopRun" /\ StopRun("ssr")
        \/ pc["ssr"] = "close" /\ Close("ssr")
    BY <1>0, <2>1, Handler
  <2>3. /\ w'.cachedState = w.cachedState
        /\ w'.currentState = "PAUSED" => w.currentState = "PAUSED"
    <3>1. ~PauseStream("ssr") /\ ~ResumeStream("ssr") /\ ~Start("ssr")
      BY <2>1 DEF PauseStream, ResumeStream, Start
    <3>. QED  BY <1>0, <3>1, HandlersEffect
  <2>4. pc'["ssr"] \notin {"down", "idle"}
    <3>1. CASE Stop("ssr") \/ StopRun("ssr")
      <4>1. \/ \E said : Return("ssr", said)
            \/ Goto("ssr", "stopRun")
        <5>1. CASE StopRun("ssr")
          BY <1>0, <5>1, OthersSay
        <5>2. CASE Stop("ssr")
          BY <5>2 DEF Stop, StopInCall, Lossy, HasDevices
        <5>. QED  BY <3>1, <5>1, <5>2
      <4>2. ret["ssr"] \in {<<"close", "downEnd">>, <<"relock", "close", "downEnd">>}
        BY <2>1, <2>2, <3>1 DEF Falling, Stop, StopRun
      <4>. QED  BY <1>0, <4>1, <4>2, ReturnedTo DEF Goto, Typed
    <3>2. CASE Close("ssr")
      <4>1. pc["ssr"] = "close" /\ ret["ssr"] = <<"downEnd">>
        BY <2>1, <3>2 DEF Falling, Close, AfterStop
      <4>2. Return("ssr", "")
        <5>1. w.currentState \notin Stoppable
          BY <4>1 DEF HeldBack, Lossy, Stoppable
        <5>. QED  BY <3>2, <5>1 DEF Close, IsClosed, CloseCommon, CloseInCall, Lossy, HasDevices,
                     Stoppable
      <4>. QED  BY <1>0, <4>1, <4>2, ReturnedTo
    <3>. QED  BY <2>2, <3>1, <3>2
  <2>. QED  BY <1>1, <1>2, <1>3, <1>5, <1>6, <2>1, <2>3, <2>4 DEF LossyAsked, LossyFalls
<1>7. CASE CardUp
  <2>1. Rising(pc["ssr"], ret["ssr"]) /\ LossyRises
    BY <1>3, <1>5, <1>7 DEF Places, SsrPlace
  <2>2. SUFFICES LossyRises' /\ pc'["ssr"] \notin {"idle", "down"}
                 /\ (w'.currentState = "PAUSED" => believed = "paused")
    BY <1>1, <1>2, <1>3, <1>5, <1>7 DEF LossyAsked, LossyFalls
  <2>3. CASE pc["ssr"] = "open"
    <3>1. Open("ssr") /\ ret["ssr"] \in {<<"upEnd">>, <<"upStart">>}
      BY <1>0, <2>1, <2>3, Handler DEF Rising, AfterStart
    <3>2. CASE w.currentState = "IDLE"
      <4>1. w' = Inited /\ Return("ssr", "")
        <5>1. OpenIdle \subseteq {Outcome(TRUE, Inited, dev), Outcome(TRUE, Inited, Opened(dev, w.mDevices))}
          BY DEF OpenIdle, OpenCommon, OpenInCall, Lossy, HasDevices, May
        <5>2. PICK o \in OpenIdle :
                /\ w' = o.w
                /\ IF o.ok THEN Opens("ssr") ELSE OpenFails("ssr")
          BY <1>7, <3>1, <3>2 DEF Open, Leaves
        <5>3. o.ok = TRUE /\ o.w = Inited
          BY <5>1, <5>2 DEF Outcome
        <5>. QED  BY <5>2, <5>3 DEF Opens
      <4>2. w'.currentState = "INIT" /\ w'.cachedState = w.cachedState
        BY <1>0, <4>1 DEF Inited, StreamType
      <4>3. pc'["ssr"] = IF ret["ssr"] = <<"upEnd">> THEN "upEnd" ELSE "upStart"
        BY <1>0, <3>1, <4>1, ReturnedTo
      <4>4. w.cachedState \in Due
        BY <2>1, <2>3, <3>2 DEF LossyRises, Coming, Obeyed
      <4>5. IF ret["ssr"] = <<"upEnd">> THEN w.cachedState = "INIT" ELSE Restarts
        BY <2>1, <2>3 DEF LossyRises
      <4>. QED  BY <1>2, <2>2, <4>2, <4>3, <4>4, <4>5 DEF LossyRises, Coming, Obeyed, Restarts, Stoppable
    <3>3. CASE w.currentState # "IDLE"
      <4>1. Obeyed
        BY <2>1, <2>3, <3>3 DEF LossyRises
      <4>2. w' = w /\ Fail("ssr")
        BY <3>1, <4>1 DEF Obeyed, Open, OpenFails, Outcome, Leaves
      <4>3. pc'["ssr"] = "upFailed"
        BY <4>2, FailedTo
      <4>. QED  BY <1>3, <2>2, <4>1, <4>2, <4>3 DEF LossyRises, Obeyed
    <3>. QED  BY <3>2, <3>3
  <2>4. CASE pc["ssr"] = "start"
    <3>1. Start("ssr") /\ ret["ssr"] = <<"upStarted">>
      BY <1>0, <2>1, <2>4, Handler DEF Rising, AfterStart
    <3>2. Coming /\ Restarts /\ w.currentState \in {"INIT"} \cup Stoppable
      BY <2>1, <2>4 DEF LossyRises
    <3>3. CASE /\ Begun("ssr") /\ w'.currentState = "STARTED" /\ w'.cachedState = w.cachedState
               /\ w.currentState \in Startable \cup {"STARTED"}
      <4>1. pc'["ssr"] \in {"upStarted", "startRegister", "startUnlock"}
        BY <1>0, <3>1, <3>3, ReturnedTo, GoneTo DEF Begun, Pcs
      <4>2. w.cachedState \in Due
        BY <1>4, <3>2, <3>3 DEF Coming, Obeyed
      <4>. QED  BY <1>2, <2>2, <3>2, <3>3, <4>1, <4>2 DEF LossyRises, Coming, Restarts, Stoppable
    <3>4. CASE /\ Untouched /\ w.currentState \notin Startable \cup {"STARTED"}
               /\ Fail("ssr") \/ Goto("ssr", "startFailed")
      <4>1. pc'["ssr"] \in {"upFailed", "startFailed"}
        BY <1>0, <3>4, FailedTo, GoneTo DEF Pcs
      <4>2. w'.currentState = "PAUSED" /\ w.currentState = "PAUSED"
        BY <1>4, <3>2, <3>4 DEF Untouched, Stoppable
      <4>. QED  BY <1>3, <2>2, <4>1, <4>2 DEF LossyRises, Obeyed
    <3>. QED  BY <1>0, <1>4, <1>7, <3>1, <3>3, <3>4, StartSays DEF Lossy
  <2>5. CASE pc["ssr"] \in {"startRegister", "startUnlock"}
    <3>1. ret["ssr"] = <<"upStarted">>
      BY <2>1, <2>5 DEF Rising
    <3>2. Untouched /\ Return("ssr", "started")
      BY <1>0, <2>5, Handler, OthersSay
    <3>3. pc'["ssr"] = "upStarted"
      BY <1>0, <3>1, <3>2, ReturnedTo
    <3>. QED  BY <1>2, <1>3, <2>1, <2>2, <2>5, <3>2, <3>3 DEF LossyRises, Untouched, Coming,
              Obeyed, Restarts, Stoppable
  <2>6. CASE pc["ssr"] = "startFailed"
    <3>1. Untouched /\ Fail("ssr") /\ Obeyed
      BY <1>0, <2>1, <2>6, Handler, OthersSay DEF LossyRises
    <3>2. pc'["ssr"] = "upFailed"
      BY <3>1, FailedTo
    <3>. QED  BY <1>3, <2>2, <3>1, <3>2 DEF LossyRises, Obeyed, Untouched
  <2>7. CASE pc["ssr"] = "pause"
    <3>1. PauseStream("ssr") /\ ret["ssr"] = <<"upEnd">> /\ believed = "paused"
      BY <1>0, <2>1, <2>7, Handler DEF Rising, AfterStart, LossyRises
    <3>2. w'.currentState = "PAUSED" /\ Return("ssr", "paused")
      BY <1>0, <1>7, <3>1, OthersSay
    <3>3. pc'["ssr"] = "upEnd"
      BY <1>0, <3>1, <3>2, ReturnedTo
    <3>. QED  BY <1>2, <2>2, <3>1, <3>2, <3>3, DueIs DEF LossyRises
  <2>. QED  BY <1>0, <2>1, <2>3, <2>4, <2>5, <2>6, <2>7, Handler DEF Rising, AfterStart
<1>. QED  BY <1>6, <1>7

\* The walk of recovery and the card.
LEMMA LossyWalk ==
  ASSUME Typed, Places, HeldBack, Ordinary, Lossy, LossyAsked, handle = "open",
         SsrStep \/ LoseCard \/ CardBack
  PROVE  LossyAsked'
<1>0. /\ "ssr" \in Threads /\ w \in StreamType /\ class' = class /\ class # "nontunnel"
      /\ pc \in [Threads -> Pcs] /\ ret \in [Threads -> Backs] /\ class # "sensor"
      /\ msgQ \in Queues
  BY WalkKeeps DEF Threads, Typed, class, Lossy
<1>1. /\ handle' = "open" /\ believed' = believed /\ Due' = Due
      /\ ~SsrDownEnd => w'.currentState = w.currentState
  <2>1. handle' = handle /\ asked' = asked /\ pc'["client"] = pc["client"]
        /\ (~SsrDownEnd => w'.currentState = w.currentState)
    BY WalkKeeps
  <2>. QED  BY <2>1, DueSame DEF believed
<1>2. /\ believed # "suspended" /\ (believed = "paused" => class = "incall")
      /\ w.currentState = "PAUSED" => believed = "paused"
      /\ CardUp /\ pc["ssr"] = "idle" => w.cachedState = "IDLE" /\ w.currentState \in Due
      /\ LossyFalls
      /\ CardUp => LossyRises
  BY DEF LossyAsked
<1>3. /\ pc["ssr"] \in {"down", "relock", "downEnd"} => ~CardUp
      /\ pc["ssr"] \in {"up", "upStart", "upStarted", "upEnd", "upFailed", "upKeep"} => CardUp
  BY DEF Places, SsrPlace, Rising, Falling, AfterStart, AfterStop
<1>4. CASE SsrTake
  <2>1. pc["ssr"] = "idle" /\ w' = w /\ cardState' = Head(msgQ) /\ msgQ # <<>>
        /\ pc'["ssr"] = IF Head(msgQ) = "offline" THEN "down" ELSE "up"
    BY <1>0, <1>4 DEF SsrTake, Goto
  <2>2. \/ Head(msgQ) = "offline" /\ CardUp
        \/ Head(msgQ) = "online" /\ ~CardUp
    BY <1>0, <2>1, Queued DEF Queues, Places
  <2>3. CASE Head(msgQ) = "offline" /\ CardUp
    <3>1. ~CardUp' /\ pc'["ssr"] = "down"
      BY <2>1, <2>3 DEF CardUp
    <3>. QED  BY <1>0, <1>1, <1>2, <2>1, <2>3, <3>1 DEF LossyAsked, LossyFalls
  <2>4. CASE Head(msgQ) = "online" /\ ~CardUp
    <3>1. CardUp' /\ pc'["ssr"] = "up"
      BY <2>1, <2>4 DEF CardUp
    <3>2. w.cachedState \in Due /\ w.currentState = "IDLE"
      BY <1>2, <2>1, <2>4 DEF LossyFalls
    <3>. QED  BY <1>0, <1>1, <1>2, <2>1, <3>1, <3>2 DEF LossyAsked, LossyFalls, LossyRises, Coming
  <2>. QED  BY <2>2, <2>3, <2>4
<1>5. CASE SsrDown
  <2>1. pc["ssr"] = "down" /\ ~CardUp /\ cardState' = cardState
    BY <1>3, <1>5 DEF SsrDown, card
  <2>2. NoteState /\ \E l \in {"stop", "close", "downEnd"} : \E b : GoDown(l, b)
    <3>1. SsrDownCommon \/ SsrDownInCall
      BY <1>5 DEF SsrDown, SsrDownHaptics, Lossy
    <3>. QED  BY <3>1 DEF SsrDownCommon, SsrDownInCall
  <2>3. w'.cachedState = IF w.cachedState = "IDLE" THEN w.currentState ELSE w.cachedState
    BY <1>0, <2>2 DEF NoteState, StreamType
  <2>4. pc'["ssr"] \notin {"down", "idle"}
    BY <1>0, <2>2 DEF GoDown
  <2>5. w'.cachedState \in Due /\ w'.currentState = w.currentState /\ ~CardUp'
    BY <1>1, <1>2, <1>5, <2>1, <2>3 DEF LossyFalls, SsrDownEnd, CardUp
  <2>. QED  BY <1>0, <1>1, <1>2, <2>4, <2>5 DEF LossyAsked, LossyFalls
<1>6. CASE SsrRelock
  <2>1. /\ pc["ssr"] = "relock" /\ ~CardUp /\ cardState' = cardState /\ w' = w
        /\ Return("ssr", "")
    BY <1>3, <1>6 DEF SsrRelock, card
  <2>2. ret["ssr"] = <<"close", "downEnd">>
    BY <2>1 DEF Places, SsrPlace, Falling, Rising, AfterStart, AfterStop
  <2>3. pc'["ssr"] = "close" /\ ~CardUp'
    BY <1>0, <2>1, <2>2, ReturnedTo DEF CardUp
  <2>. QED  BY <1>0, <1>1, <1>2, <2>1, <2>3 DEF LossyAsked, LossyFalls
<1>7. CASE SsrDownEnd
  <2>1. /\ pc["ssr"] = "downEnd" /\ ~CardUp /\ ~CardUp'
        /\ w' = [w EXCEPT !.currentState = "IDLE"] /\ pc'["ssr"] = "idle"
    BY <1>0, <1>3, <1>7 DEF SsrDownEnd, card, CardUp, Goto
  <2>2. w'.currentState = "IDLE" /\ w'.cachedState = w.cachedState
    BY <1>0, <2>1 DEF StreamType
  <2>. QED  BY <1>0, <1>1, <1>2, <2>1, <2>2 DEF LossyAsked, LossyFalls
<1>8. CASE SsrUp
  <2>1. pc["ssr"] = "up" /\ CardUp /\ CardUp' /\ w' = w /\ LossyRises /\ ret["ssr"] = <<>>
    <3>1. pc["ssr"] = "up" /\ w' = w /\ cardState' = cardState
      BY <1>8 DEF SsrUp, card
    <3>. QED  BY <1>2, <1>3, <3>1 DEF CardUp, Places, SsrPlace, Falling, Rising, AfterStart, AfterStop
  <2>2. Coming /\ (w.currentState = "IDLE" \/ Obeyed)
    BY <2>1 DEF LossyRises
  <2>3. \/ /\ w.cachedState = "INIT" /\ pc'["ssr"] = "open" /\ ret'["ssr"] = <<"upEnd">>
        \/ /\ w.cachedState \in Stoppable /\ pc'["ssr"] = "open" /\ ret'["ssr"] = <<"upStart">>
        \/ /\ w.cachedState \notin {"INIT"} \cup Stoppable /\ pc'["ssr"] = "upEnd"
    <3>1. \A b \in {"upEnd", "upStart"} : Call("ssr", "open", b) =>
            pc'["ssr"] = "open" /\ ret'["ssr"] = <<b>>
      BY <1>0, <2>1, CalledTo DEF Pcs, Backs
    <3>. QED  BY <1>0, <1>8, <3>1 DEF SsrUp, Goto, Stoppable
  <2>4. <<"upEnd">> # <<"upStart">>
    OBVIOUS
  <2>5. CASE pc'["ssr"] = "open"
    BY <1>0, <1>1, <1>2, <2>1, <2>2, <2>3, <2>4, <2>5
       DEF LossyAsked, LossyFalls, LossyRises, Coming, Obeyed, Restarts, Stoppable
  <2>6. CASE pc'["ssr"] = "upEnd" /\ w.cachedState \notin {"INIT"} \cup Stoppable
    <3>1. w.currentState \in Due
      <4>1. CASE w.currentState = "PAUSED"
        BY <1>2, <4>1, DueIs
      <4>2. CASE w.cachedState \in Due /\ w.currentState = "IDLE"
        BY <1>2, <2>6, <4>2, DueIs DEF State, Stoppable
      <4>. QED  BY <2>2, <4>1, <4>2 DEF Coming, Obeyed
    <3>. QED  BY <1>0, <1>1, <1>2, <2>1, <2>6, <3>1 DEF LossyAsked, LossyFalls, LossyRises
  <2>. QED  BY <2>3, <2>5, <2>6
<1>9. CASE SsrUpStart
  <2>1. pc["ssr"] = "upStart" /\ CardUp /\ CardUp' /\ w' = w /\ LossyRises
        /\ pc'["ssr"] = "start"
    BY <1>0, <1>2, <1>3, <1>9 DEF SsrUpStart, card, CardUp, Call
  <2>. QED  BY <1>0, <1>1, <1>2, <2>1 DEF LossyAsked, LossyFalls, LossyRises, Coming, Obeyed,
            Restarts, Stoppable
<1>10. CASE SsrUpStarted
  <2>1. pc["ssr"] = "upStarted" /\ CardUp /\ CardUp' /\ w' = w /\ LossyRises
    BY <1>0, <1>2, <1>3, <1>10 DEF SsrUpStarted, card, CardUp
  <2>2. Coming /\ Restarts /\ w.currentState \in Stoppable
    BY <2>1 DEF LossyRises
  <2>3. \/ w.currentState = "STARTED" /\ w.cachedState \in Due
        \/ w.currentState = "PAUSED" /\ class = "incall" /\ Due = {"PAUSED"}
    BY <1>2, <2>2, DueIs DEF Coming, Obeyed, Stoppable
  <2>4. \/ pc'["ssr"] = "pause" /\ class = "incall" /\ w.cachedState = "PAUSED"
             /\ w.currentState = "STARTED"
        \/ pc'["ssr"] = "upEnd"
             /\ ~(class = "incall" /\ w.currentState = "STARTED" /\ w.cachedState = "PAUSED")
    <3>1. CASE class = "common"
      BY <1>0, <1>10, <2>3, <3>1 DEF SsrUpStarted, SsrUpCommon, Goto
    <3>2. CASE class = "haptics"
      BY <1>0, <1>10, <3>2 DEF SsrUpStarted, SsrUpHaptics, Goto
    <3>3. CASE class = "incall"
      BY <1>0, <1>10, <3>3 DEF SsrUpStarted, SsrUpInCall, Goto, Call
    <3>. QED  BY <3>1, <3>2, <3>3 DEF Lossy
  <2>5. CASE pc'["ssr"] = "pause" /\ class = "incall" /\ w.cachedState = "PAUSED"
             /\ w.currentState = "STARTED"
    <3>1. believed = "paused"
      BY <1>2, <2>3, <2>5, DueIs DEF Stoppable
    <3>. QED  BY <1>0, <1>1, <1>2, <2>1, <2>5, <3>1 DEF LossyAsked, LossyFalls, LossyRises
  <2>6. CASE pc'["ssr"] = "upEnd"
             /\ ~(class = "incall" /\ w.currentState = "STARTED" /\ w.cachedState = "PAUSED")
    <3>1. w.currentState \in Due
      <4>1. CASE w.currentState = "STARTED" /\ w.cachedState \in Due
        <5>1. w.cachedState = "STARTED"
          BY <1>2, <2>2, <2>6, <4>1, DueIs DEF Restarts, Stoppable
        <5>. QED  BY <4>1, <5>1
      <4>. QED  BY <2>3, <4>1
    <3>. QED  BY <1>0, <1>1, <1>2, <2>1, <2>6, <3>1 DEF LossyAsked, LossyFalls, LossyRises
  <2>. QED  BY <2>4, <2>5, <2>6
<1>11. CASE SsrUpEnd
  <2>1. /\ CardUp /\ CardUp' /\ LossyRises /\ pc'["ssr"] = "idle"
        /\ pc["ssr"] \in {"upEnd", "upFailed", "upKeep"}
    BY <1>0, <1>2, <1>3, <1>11 DEF SsrUpEnd, card, CardUp, Goto
  <2>2. /\ w.currentState \in Due
        /\ pc["ssr"] = "upEnd" \/ (pc["ssr"] = "upFailed" /\ class = "incall")
    BY <1>2, <2>1, DueIs DEF LossyRises, Obeyed
  <2>3. w'.cachedState = "IDLE" /\ w'.currentState = w.currentState
    BY <1>0, <1>11, <2>2 DEF SsrUpEnd, StreamType
  <2>. QED  BY <1>0, <1>1, <1>2, <2>1, <2>2, <2>3 DEF LossyAsked, LossyFalls, LossyRises
<1>12. CASE LoseCard \/ CardBack
  BY <1>0, <1>1, <1>12, LossySame DEF LoseCard, CardBack, Untouched
<1>. QED  BY <1>4, <1>5, <1>6, <1>7, <1>8, <1>9, <1>10, <1>11, <1>12 DEF SsrStep

\* Any step.
LEMMA LossyStep ==
  ASSUME Typed, Places, HeldBack, Ordinary, Meant, Lossy, LossyAsked, Next
  PROVE  LossyAsked'
<1>0. class' = class /\ pc["mgr"] = "idle"
  BY ScenarioKept DEF class, Places, MgrPlace, Lossy
<1>1. ASSUME NEW t \in Threads, StreamStep(t)
      PROVE  LossyAsked'
  <2>1. Others(t)
    BY <1>1, StreamStepPlaces, OpenPlaces
  <2>2. t \in {"client", "ssr"}
    BY <1>0, <1>1, Handler DEF Threads
  <2>3. handle # "open" => t = "client"
    BY <1>1, <2>1, ClientEnds
  <2>4. CASE handle = "open"
    BY <1>1, <2>1, <2>2, <2>4, LossyClient, LossyRecovery
  <2>5. CASE handle # "open"
    <3>1. handle' = "open" =>
            /\ believed' = "nothing" /\ CardUp' /\ pc'["ssr"] = "idle"
            /\ w'.currentState \in {"IDLE", "INIT"} /\ w'.cachedState = "IDLE"
      <4>1. pc'["ssr"] = "idle"
        BY <2>1, <2>3, <2>5, Alone DEF Others, Threads
      <4>. QED  BY <1>1, <2>3, <2>5, <4>1, OpenSays DEF card, CardUp
    <3>2. handle' = "open" => w'.currentState \in Due'
      BY <3>1, DueThen DEF State, Stoppable
    <3>. QED  BY <3>1, <3>2 DEF LossyAsked, LossyFalls, LossyRises
  <2>. QED  BY <2>4, <2>5
<1>2. CASE ClientStep
  <2>1. CASE handle' = "open"
    <3>1. pc'["client"] # "stop"
      BY <1>2, <2>1, CallBegins DEF Lossy
    <3>. QED  BY <1>0, <1>2, <2>1, <3>1, CallBegins, LossySame DEF Untouched, Others, Threads, card
  <2>. QED  BY <2>1 DEF LossyAsked
<1>3. CASE SsrStep \/ LoseCard \/ CardBack
  <2>1. handle' = handle
    BY <1>3, WalkKeeps
  <2>. QED  BY <1>3, <2>1, LossyWalk DEF LossyAsked
<1>4. ~(MgrEnds \/ MgrPause \/ MgrResume \/ MgrSwitch \/ MgrProfile)
  BY <1>0 DEF MgrEnds, MgrPaused, MgrEnd, MgrConnect, MgrPause, MgrResume, MgrSwitch, MgrProfile,
     MgrMay, Ordinary, Lossy
<1>. QED  BY <1>1, <1>2, <1>3, <1>4 DEF Next

-----------------------------------------------------------------------------
(* A sensor stream and what was asked of it.                               *)

Plain ==
  /\ class = "sensor" /\ scenario.Faults = {}
  /\ scenario.MaxDown = 0 \/ scenario.Ops \subseteq {"start"}

\* Where recovery is, the card, and who holds the mutex it needs.
LEMMA SensorWhere ==
  ASSUME Typed, Places, SensorStream, SensorLocks, Plain
  PROVE  /\ pc["ssr"] \in {"down", "stop", "relock", "close", "downEnd"} => ~CardUp
         /\ pc["ssr"] \in {"up", "open", "upStart", "start", "upStarted", "upEnd", "upKeep"}
              => CardUp
         /\ pc["ssr"] # "idle" => scenario.MaxDown > 0 /\ handle = "open"
         /\ pc["ssr"] \in {"down", "close", "downEnd", "up", "open", "upStart", "upEnd", "upKeep"}
              => pc["mgr"] = "idle"
         /\ ~CardUp /\ handle = "open" /\ pc["ssr"] = "idle" => pc["mgr"] = "idle"
         /\ pc["ssr"] \in {"idle", "down", "stop", "relock", "close", "downEnd", "up", "open",
                           "upStart", "start", "upStarted", "upEnd", "upKeep"}
         /\ ~CardUp => scenario.MaxDown > 0
         /\ w.currentState # "SUSPENDED" /\ w \in StreamType /\ Orderly
<1>1. /\ pc["ssr"] \in {"down", "stop", "relock", "close", "downEnd"} => ~CardUp
      /\ pc["ssr"] \in {"up", "open", "upStart", "start", "upStarted", "upEnd", "upKeep"}
              => CardUp
      /\ pc["ssr"] # "idle" => downs > 0 /\ handle = "open"
      /\ pc["ssr"] \in {"idle", "down", "stop", "relock", "close", "downEnd", "up", "open",
                        "upStart", "start", "upStarted", "upEnd", "upKeep", "upFailed"}
  BY DEF Places, SsrPlace, Falling, Rising, AfterStart, AfterStop, HasDevices, Plain
<1>2. pc["ssr"] # "upFailed" /\ w.currentState # "SUSPENDED"
  BY DEF SensorStream, SensorSsr, SensorShape
<1>3. pc["ssr"] \in {"down", "close", "downEnd", "up", "open", "upStart", "upEnd", "upKeep"}
              => pc["mgr"] = "idle"
  BY DEF SensorLocks
<1>4. ~CardUp /\ handle = "open" /\ pc["ssr"] = "idle" => pc["mgr"] = "idle"
  BY DEF SensorStream, SensorSsr, SensorMgr
<1>5. downs > 0 => scenario.MaxDown > 0
  BY DEF Places
<1>6. ~CardUp => downs > 0
  BY DEF Places
<1>7. w \in StreamType /\ Orderly
  BY DEF Typed, Orderly, HasDevices, Plain
<1>. QED  BY <1>1, <1>2, <1>3, <1>4, <1>5, <1>6, <1>7

\* A call of the client.
LEMMA SensorCalled ==
  ASSUME Typed, Places, HeldBack, Ordinary, Meant, SensorStream, SensorLocks, Plain, SensorAsked,
         handle = "open", StreamStep("client"), Others("client"), Places', HeldBack'
  PROVE  SensorAsked'
<1>1. /\ handle' = "open" /\ class' = class /\ cardState' = cardState /\ scenario' = scenario
      /\ pc'["ssr"] = pc["ssr"] /\ ret'["ssr"] = ret["ssr"] /\ pc'["mgr"] = pc["mgr"]
      /\ CardUp' = CardUp
  BY ClientSays DEF Others, Threads, card, class, CardUp
<1>2. w'.paused_ = w.paused_
  BY StartEffect, HandlersEffect DEF Threads
<1>3. believed = asked /\ believed' = asked'
  BY <1>1 DEF Places, ClientPlace, AfterStart, AfterStop, HasDevices, Plain, Ordinary, OpsOf, believed
<1>4. Startable = {"INIT", "STOPPED", "PAUSED"}
  BY DEF Startable, Plain
<1>5. /\ pc["ssr"] \in {"downEnd", "up", "open"} => w.currentState = "IDLE"
  BY DEF SensorStream, SensorSsr
<1>6. CASE /\ CardUp /\ w'.currentState = "STARTED" /\ w'.cachedState = w.cachedState
           /\ w.currentState \in Startable \cup {"STARTED"} /\ asked' = "started"
  BY <1>1, <1>4, <1>5, <1>6, SensorWhere DEF SensorAsked, Resumed, Restarts
<1>7. CASE ~CardUp /\ w'.currentState = w.currentState /\ w'.cachedState = "STARTED"
           /\ asked' = "started"
  BY <1>1, <1>7, SensorWhere DEF SensorAsked, Resumed, Restarts, Stoppable
<1>8. CASE w.paused_ /\ Untouched /\ asked' = "started"
  BY <1>1, <1>2, <1>8, SensorWhere DEF SensorAsked, Resumed, Restarts, Untouched
<1>9. CASE Untouched /\ asked' = asked
  BY <1>1, <1>2, <1>9 DEF SensorAsked, Resumed, Restarts, Untouched
<1>10. CASE w'.cachedState = w.cachedState /\ asked' = "stopped" /\ "stop" \in scenario.Ops
  <2>1. scenario.MaxDown = 0 /\ pc["ssr"] = "idle"
    <3>1. scenario.MaxDown = 0
      BY <1>10 DEF Plain
    <3>. QED  BY <3>1, SensorWhere
  <2>. QED  BY <1>1, <1>10, <2>1 DEF SensorAsked
<1>11. "resume" \notin scenario.Ops
  BY DEF Ordinary, OpsOf, Plain
<1>. QED  BY <1>3, <1>6, <1>7, <1>8, <1>9, <1>10, <1>11, ClientSays DEF Plain

\* A step of recovery in a call of its own.
LEMMA SensorRecovery ==
  ASSUME Typed, Places, HeldBack, Ordinary, SensorStream, SensorLocks, Plain, SensorAsked,
         handle = "open", StreamStep("ssr"), Others("ssr")
  PROVE  SensorAsked'
<1>0. "ssr" \in Threads /\ Threads = {"client", "ssr", "mgr"} /\ ~HasDevices /\ Orderly
  BY SensorWhere DEF Threads, HasDevices, Plain
<1>1. /\ handle' = "open" /\ class' = class /\ CardUp' = CardUp /\ scenario' = scenario
      /\ pc'["mgr"] = pc["mgr"] /\ asked' = asked
  <2>1. handle' = handle /\ asked' = asked
    BY <1>0, ClientEnds, OthersTell
  <2>2. class' = class /\ CardUp' = CardUp /\ scenario' = scenario
    BY DEF StreamStep, Open, Start, StartRegister, StartUnlock, Stop, StopRun, Suspend,
       PauseStream, ResumeStream, Close, CloseRun, outside, card, class, CardUp
  <2>. QED  BY <1>0, <2>1, <2>2 DEF Others
<1>2. SensorEffect("ssr") /\ w \in StreamType
  BY <1>0, SensorHandlers DEF Plain, Typed
<1>3. \/ ~CardUp /\ pc["ssr"] = "stop" /\ ret["ssr"] = <<"relock", "close", "downEnd">>
      \/ ~CardUp /\ pc["ssr"] = "close" /\ ret["ssr"] = <<"downEnd">>
      \/ CardUp /\ pc["ssr"] = "open" /\ ret["ssr"] \in {<<"upEnd">>, <<"upStart">>}
      \/ CardUp /\ pc["ssr"] = "start" /\ ret["ssr"] = <<"upStarted">>
  BY <1>0, Handler DEF Places, SsrPlace, Falling, Rising, AfterStart, AfterStop, Plain
<1>4. w'.paused_ = w.paused_
  BY <1>0, StartEffect, HandlersEffect
<1>5. SensorSsr
  BY DEF SensorStream
<1>6. CASE pc["ssr"] = "stop"
  <2>1. \E said : Return("ssr", said)
    BY <1>2, <1>6 DEF SensorEffect
  <2>2. pc'["ssr"] = "relock"
    BY <1>0, <1>3, <1>6, <2>1, ReturnedTo
  <2>3. w'.cachedState = w.cachedState
    BY <1>0, <1>6, HandlersEffect DEF Start, PauseStream, ResumeStream
  <2>. QED  BY <1>1, <1>6, <2>2, <2>3 DEF SensorAsked, Restarts
<1>7. CASE pc["ssr"] = "close"
  <2>1. ~Listens
    BY <1>5, <1>7 DEF SensorSsr, Listens
  <2>2. Return("ssr", "")
    BY <1>2, <1>7, <2>1 DEF SensorEffect
  <2>3. pc'["ssr"] = "downEnd"
    BY <1>0, <1>3, <1>7, <2>2, ReturnedTo
  <2>4. w'.cachedState = w.cachedState
    BY <1>0, <1>7, HandlersEffect DEF Start, PauseStream, ResumeStream
  <2>. QED  BY <1>1, <1>4, <1>7, <2>3, <2>4 DEF SensorAsked, Restarts
<1>8. CASE pc["ssr"] = "open"
  <2>1. Opens("ssr")
    BY <1>2, <1>3, <1>5, <1>8 DEF SensorEffect, SensorSsr
  <2>2. pc'["ssr"] = IF ret["ssr"] = <<"upEnd">> THEN "upEnd" ELSE "upStart"
    BY <1>0, <1>3, <1>8, <2>1, ReturnedTo DEF Opens
  <2>3. w'.cachedState = w.cachedState
    BY <1>0, <1>8, HandlersEffect DEF Start, PauseStream, ResumeStream
  <2>4. /\ IF ret["ssr"] = <<"upEnd">> THEN w.cachedState = "INIT" ELSE Restarts
        /\ asked = "started" => w.paused_ \/ Restarts
    BY <1>8 DEF SensorAsked, Restarts
  <2>. QED  BY <1>1, <1>4, <2>2, <2>3, <2>4 DEF SensorAsked, Restarts, Resumed, Stoppable
<1>9. CASE pc["ssr"] = "start"
  <2>1. Start("ssr") /\ \E said : Return("ssr", said)
    BY <1>2, <1>9 DEF SensorEffect
  <2>2. pc'["ssr"] = "upStarted"
    BY <1>0, <1>3, <1>9, <2>1, ReturnedTo
  <2>3. w'.cachedState = w.cachedState
    BY <1>0, <1>3, <1>9, <2>1, StartEffect
  <2>4. w'.currentState = "STARTED" \/ w'.paused_
    <3>1. w.currentState \in Startable \cup {"STARTED"}
      BY <1>2, <1>5, <1>9 DEF SensorSsr, Startable, Plain, StreamType, State, SensorStream,
         SensorShape
    <3>2. CardUp /\ class # "nontunnel" /\ class # "haptics" /\ scenario.Faults = {}
      BY <1>3, <1>9 DEF Plain
    <3>. QED  BY <1>0, <1>4, <2>1, <3>1, <3>2, StartSays
  <2>. QED  BY <1>1, <1>9, <2>2, <2>3, <2>4 DEF SensorAsked, Restarts, Resumed
<1>. QED  BY <1>3, <1>6, <1>7, <1>8, <1>9

\* A step of the manager in a call of its own.
LEMMA SensorManaged ==
  ASSUME Typed, Places, HeldBack, Ordinary, SensorStream, SensorLocks, Plain, SensorAsked,
         handle = "open", StreamStep("mgr"), Others("mgr")
  PROVE  SensorAsked'
<1>0. "mgr" \in Threads /\ Threads = {"client", "ssr", "mgr"} /\ ~HasDevices /\ Orderly
  BY SensorWhere DEF Threads, HasDevices, Plain
<1>1. /\ handle' = "open" /\ class' = class /\ CardUp' = CardUp /\ scenario' = scenario
      /\ pc'["ssr"] = pc["ssr"] /\ ret'["ssr"] = ret["ssr"] /\ asked' = asked
  <2>1. handle' = handle /\ asked' = asked
    BY <1>0, ClientEnds, OthersTell
  <2>2. class' = class /\ CardUp' = CardUp /\ scenario' = scenario
    BY DEF StreamStep, Open, Start, StartRegister, StartUnlock, Stop, StopRun, Suspend,
       PauseStream, ResumeStream, Close, CloseRun, outside, card, class, CardUp
  <2>. QED  BY <1>0, <2>1, <2>2 DEF Others
<1>2. /\ pc["mgr"] \in {"stop", "start"}
      /\ pc["mgr"] = "stop" => w.paused_
  BY <1>0, Handler DEF Places, MgrPlace, HeldBack
<1>3. w'.paused_ = w.paused_
  BY <1>0, StartEffect, HandlersEffect
<1>4. CASE w.paused_
  <2>1. w'.cachedState = w.cachedState
    BY <1>0, <1>2, <1>4, StartEffect, HandlersEffect, Handler DEF PauseStream, ResumeStream
  <2>. QED  BY <1>1, <1>3, <1>4, <2>1 DEF SensorAsked, Restarts, Resumed
<1>5. CASE ~w.paused_
  <2>1. Start("mgr")
    BY <1>0, <1>2, <1>5, Handler
  <2>2. w.currentState \in Startable \cup {"STARTED"}
    <3>1. w.currentState # "IDLE"
      BY <1>2 DEF SensorStream, SensorMgr
    <3>. QED  BY <3>1, SensorWhere DEF Startable, Plain, StreamType, State
  <2>3. CASE CardUp
    <3>1. w'.currentState = "STARTED" /\ w'.cachedState = w.cachedState
      BY <1>0, <1>5, <2>1, <2>2, <2>3, StartSays DEF Plain
    <3>2. pc["ssr"] \notin {"close", "downEnd", "up", "open"} /\ pc["mgr"] # "idle"
      BY <1>2, SensorWhere
    <3>. QED  BY <1>1, <2>3, <3>1, <3>2 DEF SensorAsked, Restarts, Resumed
  <2>4. CASE ~CardUp
    <3>1. w'.cachedState = "STARTED"
      BY <1>0, <1>5, <2>1, <2>2, <2>4, StartSays DEF Plain
    <3>2. /\ pc["ssr"] \notin {"up", "open", "close", "downEnd", "upStarted", "upEnd", "upKeep",
                               "idle", "down"}
      BY <1>2, <2>4, SensorWhere
    <3>. QED  BY <1>1, <2>4, <3>1, <3>2 DEF SensorAsked, Restarts, Resumed, Stoppable
  <2>. QED  BY <2>3, <2>4
<1>. QED  BY <1>4, <1>5

\* The walk of recovery and the card.
LEMMA SensorAskedWalk ==
  ASSUME Typed, Places, HeldBack, Ordinary, SensorStream, SensorLocks, Plain, SensorAsked,
         handle = "open", SsrStep \/ LoseCard \/ CardBack
  PROVE  SensorAsked'
<1>0. /\ "ssr" \in Threads /\ w \in StreamType /\ pc \in [Threads -> Pcs]
      /\ ret \in [Threads -> Backs] /\ msgQ \in Queues /\ class = "sensor"
  BY DEF Threads, Typed, Plain
<1>1. /\ handle' = "open" /\ scenario' = scenario /\ asked' = asked /\ w'.paused_ = w.paused_
      /\ pc'["mgr"] = pc["mgr"]
      /\ ~SsrDownEnd => w'.currentState = w.currentState
  BY WalkKeeps
<1>2. SensorSsr
  BY DEF SensorStream
<1>4. CASE SsrTake
  <2>1. pc["ssr"] = "idle" /\ w' = w /\ cardState' = Head(msgQ) /\ msgQ # <<>>
        /\ pc'["ssr"] = IF Head(msgQ) = "offline" THEN "down" ELSE "up"
    BY <1>0, <1>4 DEF SsrTake, Goto
  <2>2. \/ Head(msgQ) = "offline" /\ CardUp
        \/ Head(msgQ) = "online" /\ ~CardUp
    BY <1>0, <2>1, Queued DEF Queues, Places
  <2>. QED  BY <1>1, <2>1, <2>2 DEF SensorAsked, Restarts, Resumed
<1>5. CASE SsrDown
  <2>1. pc["ssr"] = "down" /\ ~CardUp /\ cardState' = cardState /\ pc["mgr"] = "idle"
        /\ scenario.MaxDown > 0
    BY <1>5, SensorWhere DEF SsrDown, card
  <2>2. SsrDownCommon
    BY <1>0, <1>5 DEF SsrDown
  <2>3. w'.cachedState = IF w.cachedState = "IDLE" THEN w.currentState ELSE w.cachedState
    BY <1>0, <2>2 DEF SsrDownCommon, NoteState, StreamType
  <2>4. \/ w.currentState \in Stoppable /\ pc'["ssr"] = "stop"
        \/ w.currentState # "STARTED" /\ pc'["ssr"] \in {"close", "downEnd"}
    BY <1>0, <2>2 DEF SsrDownCommon, GoDown, Stoppable
  <2>5. /\ w.cachedState \in {"IDLE"} \cup Stoppable
        /\ asked = "started" => w.currentState = "STARTED" \/ w.paused_ \/ Restarts
    BY <2>1 DEF SensorAsked, Resumed
  <2>. QED  BY <1>1, <2>3, <2>4, <2>5 DEF SensorAsked, Restarts, Stoppable
<1>6. CASE SsrRelock
  <2>1. pc["ssr"] = "relock" /\ w' = w /\ Return("ssr", "")
    BY <1>6 DEF SsrRelock
  <2>2. ret["ssr"] = <<"close", "downEnd">>
    BY <2>1 DEF Places, SsrPlace, Falling, Rising, AfterStart, AfterStop
  <2>3. pc'["ssr"] = "close"
    BY <1>0, <2>1, <2>2, ReturnedTo
  <2>. QED  BY <1>1, <2>1, <2>3 DEF SensorAsked, Restarts
<1>7. CASE SsrDownEnd
  <2>1. /\ pc["ssr"] = "downEnd" /\ ~CardUp /\ cardState' = cardState
        /\ w' = [w EXCEPT !.currentState = "IDLE"] /\ pc'["ssr"] = "idle"
    BY <1>0, <1>7, SensorWhere DEF SsrDownEnd, card, Goto
  <2>2. w'.cachedState = w.cachedState
    BY <1>0, <2>1 DEF StreamType
  <2>. QED  BY <1>1, <2>1, <2>2 DEF SensorAsked, Restarts, CardUp
<1>8. CASE SsrUp
  <2>1. pc["ssr"] = "up" /\ w' = w /\ ret["ssr"] = <<>>
    BY <1>8 DEF SsrUp, Places, SsrPlace, Falling, Rising, AfterStart, AfterStop
  <2>2. \/ /\ w.cachedState = "INIT" /\ pc'["ssr"] = "open" /\ ret'["ssr"] = <<"upEnd">>
        \/ /\ w.cachedState \in Stoppable /\ pc'["ssr"] = "open" /\ ret'["ssr"] = <<"upStart">>
        \/ /\ w.cachedState \notin {"INIT"} \cup Stoppable /\ pc'["ssr"] = "upEnd"
    <3>1. \A b \in {"upEnd", "upStart"} : Call("ssr", "open", b) =>
            pc'["ssr"] = "open" /\ ret'["ssr"] = <<b>>
      BY <1>0, <2>1, CalledTo DEF Pcs, Backs
    <3>. QED  BY <1>0, <1>8, <3>1 DEF SsrUp, Goto, Stoppable
  <2>3. <<"upEnd">> # <<"upStart">>
    OBVIOUS
  <2>4. asked = "started" => w.paused_ \/ Restarts
    BY <2>1 DEF SensorAsked
  <2>. QED  BY <1>1, <2>1, <2>2, <2>3, <2>4 DEF SensorAsked, Restarts, Resumed, Stoppable
<1>9. CASE SsrUpStart
  <2>1. pc["ssr"] = "upStart" /\ w' = w /\ pc'["ssr"] = "start"
    BY <1>0, <1>9 DEF SsrUpStart, Call
  <2>. QED  BY <1>1, <2>1 DEF SensorAsked, Restarts
<1>10. CASE SsrUpStarted
  <2>1. pc["ssr"] = "upStarted" /\ w' = w /\ pc'["ssr"] \in {"upEnd", "upKeep"}
    BY <1>0, <1>10 DEF SsrUpStarted, SsrUpCommon, Goto
  <2>. QED  BY <1>1, <2>1 DEF SensorAsked, Restarts, Resumed
<1>11. CASE SsrUpEnd
  <2>1. pc["ssr"] \in {"upEnd", "upKeep"} /\ pc'["ssr"] = "idle" /\ CardUp /\ CardUp'
    BY <1>0, <1>2, <1>11, SensorWhere DEF SsrUpEnd, Goto, SensorSsr, card, CardUp
  <2>2. /\ w'.cachedState = IF pc["ssr"] = "upEnd" THEN "IDLE" ELSE w.cachedState
        /\ w'.currentState = w.currentState
    BY <1>0, <1>11, <2>1 DEF SsrUpEnd, StreamType
  <2>3. scenario.MaxDown > 0
    BY <2>1, SensorWhere
  <2>. QED  BY <1>1, <2>1, <2>2, <2>3 DEF SensorAsked, Resumed
<1>12. CASE LoseCard \/ CardBack
  <2>1. w' = w /\ pc' = pc /\ ret' = ret /\ cardState' = cardState
    BY <1>12 DEF LoseCard, CardBack
  <2>. QED  BY <1>1, <2>1 DEF SensorAsked, Restarts, Resumed, CardUp
<1>. QED  BY <1>4, <1>5, <1>6, <1>7, <1>8, <1>9, <1>10, <1>11, <1>12 DEF SsrStep

\* The steps of the manager between handlers.
LEMMA SensorAskedMgr ==
  ASSUME Typed, Places, HeldBack, Ordinary, SensorStream, SensorLocks, Plain, SensorAsked,
         handle = "open", MgrEnds \/ MgrPause \/ MgrResume \/ MgrSwitch \/ MgrProfile
  PROVE  SensorAsked'
<1>0. /\ "mgr" \in Threads /\ Threads = {"client", "ssr", "mgr"} /\ w \in StreamType
      /\ pc \in [Threads -> Pcs] /\ ret \in [Threads -> Backs] /\ "mgr" # "ssr"
  BY DEF Threads, Typed
<1>1. /\ handle' = "open" /\ scenario' = scenario /\ asked' = asked /\ cardState' = cardState
  BY DEF MgrEnds, MgrPaused, MgrEnd, MgrConnect, MgrPause, MgrResume, MgrSwitch, MgrProfile, mgrOnly,
     card
<1>2. pc'["ssr"] = pc["ssr"] /\ ret'["ssr"] = ret["ssr"]
  <2>1. \/ pc' = pc /\ ret' = ret
        \/ \E l \in {"mgrEnd", "idle", "connect", "connectSame"} : Goto("mgr", l)
        \/ Call("mgr", "stop", "paused") \/ Call("mgr", "start", "mgrEnd")
    BY DEF MgrEnds, MgrPaused, MgrEnd, MgrConnect, MgrPause, MgrResume, MgrSwitch, MgrProfile,
       SensorPause, SensorResume, SensorDisconnect
  <2>. QED  BY <1>0, <2>1 DEF Goto, Call
\* What the state of the stream and the pause are to be kept up with.
<1>3. ASSUME w'.cachedState = w.cachedState,
             Resumed => Resumed',
             pc["ssr"] \in {"close", "downEnd", "up", "open"}
               \/ (pc["ssr"] = "idle" /\ ~CardUp) =>
               (w.paused_ => w'.paused_)
      PROVE  SensorAsked'
  BY <1>1, <1>2, <1>3 DEF SensorAsked, Restarts, CardUp
<1>4. /\ w'.cachedState = w.cachedState
      /\ \/ w'.currentState = w.currentState /\ w'.paused_ = w.paused_
              /\ (pc'["mgr"] = pc["mgr"] \/ pc["mgr"] # "start")
         \/ w'.paused_
         \/ pc'["mgr"] = "start" /\ pc["mgr"] = "idle" /\ w.currentState # "IDLE" /\ ActiveFree
  <2>1. CASE MgrPause
    <3>1. (w' = w /\ pc' = pc) \/ w' = [w EXCEPT !.paused_ = TRUE]
      BY <2>1 DEF MgrPause, SensorPause
    <3>. QED  BY <1>0, <3>1 DEF StreamType
  <2>2. CASE MgrResume
    <3>1. \/ w' = w /\ pc' = pc
          \/ w' = [w EXCEPT !.paused_ = FALSE] /\ Call("mgr", "start", "mgrEnd")
      BY <2>2 DEF MgrResume, SensorResume
    <3>2. pc["mgr"] = "idle" /\ w.currentState # "IDLE" /\ ActiveFree
      BY <2>2 DEF MgrResume, MgrMay
    <3>. QED  BY <1>0, <3>1, <3>2 DEF StreamType, Call
  <2>3. CASE MgrPaused
    <3>1. w' = [w EXCEPT !.currentState = "PAUSED"] /\ w.paused_
      BY <2>3 DEF MgrPaused, HeldBack
    <3>. QED  BY <1>0, <3>1 DEF StreamType
  <2>4. CASE MgrEnd
    BY <2>4 DEF MgrEnd
  <2>5. CASE MgrSwitch \/ MgrProfile \/ MgrConnect
    <3>1. pc["mgr"] # "start"
      BY <2>5 DEF MgrSwitch, MgrProfile, MgrConnect, MgrMay
    <3>2. SensorDisconnect \/ SensorConnect \/ Same =>
            /\ w'.cachedState = w.cachedState /\ w'.currentState = w.currentState
            /\ w'.paused_ = w.paused_
      BY <1>0 DEF SensorDisconnect, SensorConnect, Same, Leaves, StreamType
    <3>. QED  BY <2>5, <3>1, <3>2 DEF MgrSwitch, MgrProfile, MgrConnect
  <2>. QED  BY <2>1, <2>2, <2>3, <2>4, <2>5 DEF MgrEnds
<1>5. pc["ssr"] \in {"close", "downEnd", "up", "open"} => ~ActiveFree
  BY NoneAssumption DEF SensorLocks, ActiveFree, Threads
<1>6. pc["ssr"] = "idle" /\ ~CardUp => w.currentState = "IDLE"
  BY DEF SensorStream, SensorSsr
<1>. QED  BY <1>3, <1>4, <1>5, <1>6 DEF Resumed

\* Any step.
LEMMA SensorAskedStep ==
  ASSUME Typed, Places, HeldBack, Ordinary, Meant, SensorStream, SensorLocks, Plain, SensorAsked,
         Next
  PROVE  SensorAsked'
<1>0. Typed' /\ Places' /\ HeldBack'
  BY HeldStep
<1>1. ASSUME NEW t \in Threads, StreamStep(t)
      PROVE  SensorAsked'
  <2>1. Others(t)
    BY <1>1, StreamStepPlaces, OpenPlaces
  <2>2. CASE handle = "open"
    BY <1>0, <1>1, <2>1, <2>2, SensorCalled, SensorRecovery, SensorManaged DEF Threads
  <2>3. CASE handle # "open"
    <3>1. t = "client"
      BY <1>1, <2>1, <2>3, ClientEnds
    <3>2. pc'["ssr"] = "idle"
      BY <2>1, <2>3, <3>1, Alone DEF Others, Threads
    <3>3. handle' = "open" => asked' = "nothing" /\ CardUp' /\ w'.cachedState = "IDLE"
      BY <1>1, <2>3, <3>1, OpenSays DEF card, CardUp
    <3>. QED  BY <3>2, <3>3 DEF SensorAsked
  <2>. QED  BY <2>2, <2>3
<1>2. CASE ClientStep
  <2>1. CASE handle' = "open"
    <3>1. /\ handle = "open" /\ asked' = asked /\ card' = card /\ scenario' = scenario
          /\ w'.currentState = w.currentState /\ pc'["client"] \in scenario.Ops
          /\ w'.cachedState = IF pc'["client"] = "stop" THEN "STOPPED" ELSE w.cachedState
          /\ Others("client")
      BY <1>2, <2>1, CallBegins
    <3>2. /\ pc'["ssr"] = pc["ssr"] /\ ret'["ssr"] = ret["ssr"] /\ pc'["mgr"] = pc["mgr"]
          /\ cardState' = cardState
      BY <3>1 DEF Others, Threads, card
    <3>3. w'.paused_ = w.paused_
      <4>1. handle # "none" /\ handle' # "none" /\ disableCount' = disableCount
        BY <1>2, <2>1, <3>1 DEF ClientStep, ClientOpen, ClientClose, ClientDelete, ClientCall,
           clientOnly
      <4>2. w.paused_ \in BOOLEAN /\ w'.paused_ \in BOOLEAN
        BY <1>0 DEF Typed, StreamType
      <4>. QED  BY <1>0, <4>1, <4>2 DEF HeldBack
    <3>4. CASE pc'["client"] = "stop"
      <4>1. scenario.MaxDown = 0
        BY <3>1, <3>4 DEF Plain
      <4>2. pc["ssr"] = "idle" /\ CardUp
        BY <4>1, SensorWhere DEF Typed
      <4>. QED  BY <2>1, <3>1, <3>2, <3>3, <4>1, <4>2 DEF SensorAsked, Resumed, CardUp
    <3>5. CASE pc'["client"] # "stop"
      BY <2>1, <3>1, <3>2, <3>3, <3>5 DEF SensorAsked, Restarts, Resumed, CardUp
    <3>. QED  BY <3>4, <3>5
  <2>. QED  BY <2>1 DEF SensorAsked
<1>3. CASE SsrStep \/ LoseCard \/ CardBack
  <2>1. handle' = handle
    BY <1>3, WalkKeeps
  <2>. QED  BY <1>3, <2>1, SensorAskedWalk DEF SensorAsked
<1>4. CASE MgrEnds \/ MgrPause \/ MgrResume \/ MgrSwitch \/ MgrProfile
  <2>1. handle' = handle
    BY <1>4 DEF MgrEnds, MgrPaused, MgrEnd, MgrConnect, MgrPause, MgrResume, MgrSwitch, MgrProfile,
       mgrOnly
  <2>. QED  BY <1>4, <2>1, SensorAskedMgr DEF SensorAsked
<1>. QED  BY <1>1, <1>2, <1>3, <1>4 DEF Next

-----------------------------------------------------------------------------
(* The stream of every class is as its client asked.                       *)

\* A stream that recovery takes down has what it takes to come up.
LEMMA LossyIs ==
  ASSUME Typed, Remembers, Whole, class # "sensor", ~Calm
  PROVE  Lossy
<1>1. class \in {"common", "haptics", "incall"} /\ scenario.MaxDown > 0
  BY ScenariosAssumption DEF Typed, class, Calm
<1>. QED  BY <1>1 DEF Lossy, Remembers, Whole

\* Nothing is asked before the client opens the stream.
LEMMA AskedInit ==
  ASSUME Init
  PROVE  Asked
<1>1. handle = "none" /\ pc["client"] = "idle" /\ w = NewStream
  BY DEF Init, Threads
<1>2. class = "haptics" => w.mDevices = Devices
  BY <1>1 DEF NewStream, NewCommon, HasDevices
<1>3. Meant /\ Whole
  BY <1>1, <1>2 DEF Meant, Whole
<1>. QED  BY <1>1, <1>3 DEF Asked, CalmAsked, LossyAsked, SensorAsked

\* Every step leaves the stream on its way to what was asked.
LEMMA AskedStep ==
  ASSUME Typed, Places, HeldBack, Ordinary, Remembers, Orderly => Follows, Asked, Next
  PROVE  Asked'
<1>0. /\ Typed' /\ Places' /\ HeldBack' /\ scenario' = scenario /\ class' = class
      /\ Calm' <=> Calm
  BY HeldStep, ScenarioKept DEF class, Calm
<1>1. Meant' /\ Whole'
  BY <1>0, MeantStep, WholeStep DEF Asked
<1>2. CASE class # "sensor" /\ Calm
  <2>1. CalmAsked'
    BY <1>0, <1>2, CalmStep DEF Asked
  <2>. QED  BY <1>0, <1>1, <1>2, <2>1 DEF Asked
<1>3. CASE class # "sensor" /\ ~Calm
  <2>1. LossyAsked'
    BY <1>3, LossyIs, LossyStep DEF Asked
  <2>. QED  BY <1>0, <1>1, <1>3, <2>1 DEF Asked
<1>4. CASE class = "sensor"
  <2>1. ASSUME scenario.Faults = {}
        PROVE  SensorAsked'
    <3>1. Plain
      BY <1>4, <2>1 DEF Plain, Remembers
    <3>2. SensorStream /\ SensorLocks
      BY <1>4, <2>1 DEF Orderly, Follows, HasDevices
    <3>. QED  BY <1>4, <2>1, <3>1, <3>2, SensorAskedStep DEF Asked
  <2>. QED  BY <1>0, <1>1, <1>4, <2>1 DEF Asked
<1>. QED  BY <1>2, <1>3, <1>4

\* What is asked stays so when nothing happens.
LEMMA AskedKept ==
  ASSUME Asked, UNCHANGED vars
  PROVE  Asked'
<1>1. /\ class' = class /\ believed' = believed /\ Calm' = Calm /\ CardUp' = CardUp
      /\ scenario' = scenario /\ handle' = handle /\ w' = w /\ asked' = asked /\ pc' = pc
      /\ ret' = ret /\ HasDevices' = HasDevices
  BY DEF vars, card, class, believed, Calm, CardUp, HasDevices
<1>2. Due' = Due
  BY <1>1, DueSame
<1>3. (Meant => Meant') /\ (Whole => Whole')
  BY <1>1 DEF Meant, Whole
<1>4. CalmAsked => CalmAsked'
  BY <1>1, <1>2 DEF CalmAsked
<1>5. LossyAsked => LossyAsked'
  BY <1>1, <1>2 DEF LossyAsked, LossyFalls, LossyRises, Coming, Obeyed, Restarts
<1>6. SensorAsked => SensorAsked'
  BY <1>1 DEF SensorAsked, Resumed, Restarts
<1>. QED  BY <1>1, <1>3, <1>4, <1>5, <1>6 DEF Asked

\* What the invariant says at rest is AsAsked.
LEMMA AskedMeans ==
  ASSUME Typed, Asked
  PROVE  AsAsked
<1>. SUFFICES ASSUME AtRest, handle = "open", class = "sensor" => scenario.Faults = {}
              PROVE  /\ asked = "started" => w.currentState = "STARTED" \/ w.paused_
                     /\ asked = "paused" => w.currentState = "PAUSED"
                     /\ asked \in {"nothing", "stopped"} /\ class # "sensor" =>
                          w.currentState # "STARTED"
  BY DEF AsAsked
<1>1. /\ CardUp /\ pc["ssr"] = "idle" /\ pc["mgr"] = "idle" /\ pc["client"] = "idle"
  BY DEF AtRest, Threads
<1>2. believed = asked
  BY <1>1 DEF believed
<1>3. CASE class # "sensor"
  <2>1. w.currentState \in Due
    BY <1>1, <1>3 DEF Asked, CalmAsked, LossyAsked
  <2>. QED  BY <1>2, <1>3, <2>1, DueIs DEF Stoppable
<1>4. CASE class = "sensor"
  BY <1>1, <1>4 DEF Asked, SensorAsked, Resumed
<1>. QED  BY <1>3, <1>4

\* AsAsked of every class, with any device set and any number of losses of the card: at
\* rest the stream is started, paused or (but for a sensor stream, of which a start is all
\* that is promised) not started as its client last asked with success, unless the manager
\* holds it back or its non-tunnel session is lost, however the calls of the client, the
\* walks of recovery and the rounds of the manager were interleaved (Stream*::start, stop
\* and pause, ssrDownHandler and ssrUpHandler of each class).
THEOREM StreamIsAsAsked == Spec => [](Ordinary /\ Remembers => AsAsked)
<1>1. Init => AskedInv
  BY HeldInit, FollowsInit, AskedInit DEF AskedInv, DeviceInv, HeldInv
<1>2. AskedInv /\ [Next]_vars => AskedInv'
  <2>1. SUFFICES ASSUME AskedInv, [Next]_vars
                 PROVE  AskedInv'
    OBVIOUS
  <2>2. DeviceInv' /\ (Ordinary' <=> Ordinary)
    BY <2>1, DeviceInductive, HeldInductive DEF AskedInv, DeviceInv
  <2>3. Remembers' <=> Remembers
    <3>1. scenario' = scenario
      BY <2>1, ScenarioKept DEF vars
    <3>. QED  BY <3>1 DEF Remembers, class
  <2>4. ASSUME Ordinary, Remembers
        PROVE  Asked'
    BY <2>1, <2>4, AskedStep, AskedKept DEF AskedInv, DeviceInv, HeldInv
  <2>. QED  BY <2>2, <2>3, <2>4 DEF AskedInv
<1>3. AskedInv => (Ordinary /\ Remembers => AsAsked)
  BY AskedMeans DEF AskedInv, DeviceInv, HeldInv
<1>. QED  BY <1>1, <1>2, <1>3, PTL DEF Spec

=============================================================================

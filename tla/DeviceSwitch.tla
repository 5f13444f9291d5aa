------------------------------- MODULE DeviceSwitch -------------------------------
(* Streams moved between devices behind the back of their clients: when the  *)
(* Bluetooth side suspends a device of ours (A2DP / BLE, playback or         *)
(* capture), the resource manager mutes the streams on it and moves them to  *)
(* a stand-in; when it resumes them, they are moved back and unmuted.        *)
(* Clients open, start, stop, pause, route and close their streams meanwhile.*)
(*                                                                           *)
(* mActiveStreamMutex is held from the collection of a request to the end of *)
(* the loop that prepares the streams (Bt pc "prepare" or "take"), a         *)
(* stream's mStreamMutex by a start in progress (client pc "starting");      *)
(* every other section that takes them is one step.                          *)
EXTENDS FiniteSets, Naturals

CONSTANTS
  Streams,
  Offload,     \* the compressed and offloaded ones: they are also paused
  Scenarios,   \* direction of the streams, kind of the stand-in
  MaxCalls,    \* bound: calls of the clients
  MaxRequests, \* bound: suspend, resume and reconfigure requests
  MaxFaults,   \* bound: device connections that fail
  Overlaps     \* bound: what may run while a request is served

ASSUME SwitchAssumption ==
  /\ IsFiniteSet(Streams) /\ Offload \subseteq Streams
  /\ Scenarios \subseteq [out : BOOLEAN, dummy : BOOLEAN]
  /\ Overlaps \subseteq {"start", "route", "pause", "mute", "refused"}
  /\ {MaxCalls, MaxRequests, MaxFaults} \subseteq Nat

Devices == {"bt", "spkr", "dummy"}
INSTANCE Device

VARIABLES scenario, str, use, reg, btSuspended, bt, client, spent
vars == <<scenario, str, use, reg, btSuspended, bt, client, spent>>

\* Speaker or handset microphone; the dummy devices if they are enabled.
StandIn == IF scenario.dummy THEN "dummy" ELSE "spkr"

Gone == [state |-> "gone", dev |-> {}, susp |-> {}, a2dpMuted |-> FALSE,
         quiet |-> FALSE, isPaused |-> FALSE, a2dpPaused |-> FALSE,
         asked |-> {}, agreed |-> {}, askedPause |-> FALSE]
NoLists == [disc |-> {}, conn |-> {}]
BtRest == [pc |-> "rest", op |-> "none", list |-> {}, combo |-> {},
           orphans |-> {}, retry |-> {}, lists |-> NoLists]
ClientRest == [pc |-> "rest", seen |-> FALSE, then |-> "rest",
               dev |-> {}, muted |-> {}, lists |-> NoLists]

Init ==
  /\ scenario \in Scenarios
  /\ str = [s \in Streams |-> Gone]
  /\ use = NoUse
  /\ reg = {}
  /\ btSuspended = FALSE
  /\ bt = BtRest
  /\ client = [s \in Streams |-> ClientRest]
  /\ spent = [calls |-> 0, requests |-> 0, faults |-> 0, lost |-> FALSE]

Known == {s \in Streams : str[s].state # "gone"}
isAlive(s) == str[s].state \notin {"gone", "IDLE"}
Live(state) == state \in {"STARTED", "PAUSED"}
Retries == {s \in Known : str[s].susp # {}}
getActiveStream_l(d) == {s \in Streams : isAlive(s) /\ d \in str[s].dev}
getOrphanStream_l == {s \in Known : str[s].dev = {}}
getSharedBEActiveStreamDevs(d) ==
  {<<s, d>> : s \in {t \in Known : d \in str[t].dev}}
isDeviceReady(d) == d = "bt" => ~btSuspended

ActiveFree == bt.pc \notin {"prepare", "take"}
StreamsFree(S) == \A s \in S \cap Known : client[s].pc # "starting"
MayOverlap(what) == what \in Overlaps \/ bt.pc = "rest"

(***************************************************************************)
(* The switch itself, over a world [str, use, reg].                        *)
(***************************************************************************)
World == [str |-> str, use |-> use, reg |-> reg]

\* What the pairs of a stream and a device say of one device, of streams that run or have
\* a session.
Of(T, d) == {s \in Streams : <<s, d>> \in T}
Running(T) == {t \in T : Live(str[t[1]].state)}
InUse(T) == {t \in T : isAlive(t[1])}

\* n closes and m stops of a device: the last close forgets the starts.
Lowered(u, n, m) ==
  IF n < u.count THEN [count |-> u.count - n,
                       startStop |-> IF m < u.startStop THEN u.startStop - m ELSE 0]
  ELSE [count |-> 0, startStop |-> 0]

\* Mutant: the device of a paused stream is closed but not stopped.
disconnectStreamDevice_l_NoStop(w, held, failed) ==
  LET left == held \ failed
      stopped == {t \in left : str[t[1]].state = "STARTED"}
  IN [str |-> [s \in Streams |->
                [w.str[s] EXCEPT !.dev = {d \in @ : <<s, d>> \notin left}]],
      use |-> [d \in Devices |-> Lowered(w.use[d], Cardinality(Of(InUse(left), d)),
                                          Cardinality(Of(stopped, d)))],
      reg |-> {r \in w.reg : <<r[2], r[1]>> \notin Running(held)}]

\* Streams leave devices they hold.  A failure comes after the device has left the list
\* of active devices.
disconnectStreamDevice_l(w, held, failed) ==
  LET left == held \ failed
  IN [str |-> [s \in Streams |->
                [w.str[s] EXCEPT !.dev = {d \in @ : <<s, d>> \notin left}]],
      use |-> [d \in Devices |-> Lowered(w.use[d], Cardinality(Of(InUse(left), d)),
                                          Cardinality(Of(Running(left), d)))],
      reg |-> {r \in w.reg : <<r[2], r[1]>> \notin Running(held)}]

\* Streams get devices they do not hold.
connectStreamDevice_l(w, new) ==
  [str |-> [s \in Streams |->
             [w.str[s] EXCEPT !.dev = @ \cup {d \in Devices : <<s, d>> \in new}]],
   use |-> [d \in Devices |->
             [count |-> w.use[d].count + Cardinality(Of(InUse(new), d)),
              startStop |-> w.use[d].startStop + Cardinality(Of(Running(new), d))]],
   reg |-> w.reg \cup {<<t[2], t[1]>> : t \in Running(new)}]

\* Playback on a suspended device does not start.
startRefused(w, t) == /\ scenario.out /\ t[2] = "bt" /\ btSuspended
                      /\ Live(w.str[t[1]].state) /\ "bt" \notin w.str[t[1]].dev
\* What fails to connect is undone: the device is stopped, closed and forgotten.
streamDevDisconnect_l(w, D, failed) ==
  disconnectStreamDevice_l(w, {t \in D : t[2] \in w.str[t[1]].dev}, failed)
streamDevConnect_l(w, C, failed) ==
  connectStreamDevice_l(w, {t \in C \ failed : t[2] \notin w.str[t[1]].dev})

\* The status is that of the last connection.
Status(all, failed) == IF failed = {} THEN {TRUE}
                       ELSE IF failed = all THEN {FALSE} ELSE BOOLEAN
Outcome(w, ok, n) == [w |-> w, ok |-> ok, faults |-> n]

\* Of the connections all are tried; the first disconnection that fails ends the switch.
Connected(left, C, failed, n) ==
  {Outcome(streamDevConnect_l(left, C, failed), ok, n) : ok \in Status(C, failed)}
Stuck(D, t) ==
  {Outcome(streamDevDisconnect_l(World, P \cup {t}, {t}), FALSE, 1) : P \in SUBSET (D \ {t})}

streamDevSwitch(lists) ==
  LET D == {t \in lists.disc : t[1] \in Known}
      C == {t \in lists.conn : t[1] \in Known}
      left == streamDevDisconnect_l(World, D, {})
      refused == {t \in C : startRefused(left, t)}
      breaks == IF spent.faults = MaxFaults THEN {}
                ELSE {t \in C : Live(left.str[t[1]].state)}
      sticks == IF spent.faults = MaxFaults THEN {}
                ELSE {t \in D : isAlive(t[1]) /\ t[2] \in str[t[1]].dev}
  IN IF scenario.out /\ btSuspended /\ {t[2] : t \in C} = {"bt"}
     THEN {Outcome(World, FALSE, 0)}
     ELSE Connected(left, C, refused, 0)
          \cup (UNION {Connected(left, C, refused \cup {t}, 1) : t \in breaks})
          \cup (UNION {Stuck(D, t) : t \in sticks})

Involved(lists) == {t[1] : t \in lists.disc \cup lists.conn}

\* One call of streamDevSwitch, under all the locks it takes.
Switch(lists, r) ==
  /\ ActiveFree
  /\ StreamsFree(Involved(lists))
  /\ str' = r.w.str
  /\ use' = r.w.use
  /\ reg' = r.w.reg

\* A fault of a restoring switch is told from one of a suspending switch.
Spend(r, restores) ==
  spent' = [spent EXCEPT !.faults = @ + r.faults,
                         !.lost = @ \/ (restores /\ r.faults > 0)]

(***************************************************************************)
(* The requests of the Bluetooth side, served one at a time.               *)
(***************************************************************************)
\* A resume starts the controller again for the streams still on the device.
setDeviceParameter(op, failed) ==
  /\ btSuspended' = (op = "suspend")
  /\ failed => /\ op = "resume" /\ use["bt"].startStop > 0
               /\ spent.faults < MaxFaults

\* A request for the state the device is in is ignored; a resume whose
\* controller does not start ends here.
Request(op) ==
  /\ bt.pc = "rest" /\ spent.requests < MaxRequests
  /\ btSuspended = (op = "resume")
  /\ op = "reconfigure" => scenario.out
  /\ "start" \in Overlaps \/ \A s \in Streams : client[s].pc # "starting"
  /\ "route" \in Overlaps \/ \A s \in Streams : client[s].pc # "routing"
  /\ \E failed \in BOOLEAN :
       /\ setDeviceParameter(op, failed)
       /\ bt' = IF failed THEN BtRest
                ELSE [BtRest EXCEPT !.pc = "collect", !.op = op]
       /\ spent' = [spent EXCEPT !.requests = @ + 1, !.lost = @ \/ failed,
                                 !.faults = IF failed THEN @ + 1 ELSE @]
  /\ UNCHANGED <<scenario, str, use, reg, client>>

(* The devices of the streams are read without their mutexes: the streams on *)
(* the device, or for a resume those on the stand-in, those with no device,  *)
(* and those that remember a suspended one.                                  *)
Collect ==
  /\ bt.pc = "collect"
  /\ \E orphans \in {getOrphanStream_l} :
     \E list \in {CASE bt.op = "suspend" -> getActiveStream_l("bt")
                    [] bt.op = "reconfigure" ->
                         getActiveStream_l("bt") \cup {s \in orphans : str[s].asked = {"bt"}}
                    [] OTHER -> getActiveStream_l(StandIn)} :
     \E retry \in {Retries} :
       bt' = IF bt.op # "resume"
             THEN IF list = {} THEN BtRest
                  ELSE [bt EXCEPT !.pc = "prepare", !.list = list,
                                  !.combo = list \cap getActiveStream_l(StandIn)]
             ELSE IF list \cup orphans \cup retry = {} THEN BtRest
                  ELSE [bt EXCEPT !.pc = "take", !.list = list,
                                  !.orphans = orphans, !.retry = retry]
  /\ UNCHANGED <<scenario, str, use, reg, btSuspended, client, spent>>

Mute(st) == IF st.a2dpMuted THEN st
            ELSE [st EXCEPT !.quiet = TRUE, !.a2dpMuted = TRUE]
Unmute(st) == [st EXCEPT !.quiet = FALSE, !.a2dpMuted = FALSE]

\* Mutant: a stream its client has paused is paused again.
Still_Twice(s, st) ==
  IF s \in Offload /\ Live(st.state)
  THEN [st EXCEPT !.isPaused = TRUE, !.a2dpPaused = TRUE, !.state = "PAUSED"]
  ELSE st

\* Only a running stream that its client has not paused is paused.
Still(s, st) ==
  IF s \in Offload /\ Live(st.state) /\ ~st.isPaused
  THEN [st EXCEPT !.isPaused = TRUE, !.a2dpPaused = TRUE, !.state = "PAUSED"]
  ELSE st
\* resume_l leaves the state as it is.
Unpause(s, st) ==
  IF s \in Offload /\ st.state # "STARTED" /\ st.a2dpPaused
  THEN [st EXCEPT !.isPaused = FALSE, !.a2dpPaused = FALSE]
  ELSE st

Quieted(s) == IF str[s].a2dpMuted THEN str[s] ELSE Still(s, Mute(str[s]))

(* What becomes of a stream on the device before it is moved.  One that is   *)
(* on the stand-in too remembers both devices and goes on there.             *)
a2dpReconfig(s) == Quieted(s)

a2dpSuspend(s) ==
  IF s \in bt.combo THEN [str[s] EXCEPT !.susp = {"bt", StandIn}]
  ELSE IF str[s].a2dpMuted THEN str[s]
  ELSE [Quieted(s) EXCEPT !.susp = {"bt"}]

a2dpSuspendToDummy(s) ==
  CASE "bt" \notin str[s].dev -> str[s]
    [] str[s].dev = {"bt"}    -> [Mute(str[s]) EXCEPT !.susp = {"bt"}]
    [] OTHER                  -> [str[s] EXCEPT !.susp = {"bt", "dummy"}]

a2dpCaptureSuspend(s) == Mute(str[s])

a2dpCaptureSuspendToDummy(s) == [Mute(str[s]) EXCEPT !.susp = {"bt"}]

Prepared(s) ==
  IF bt.op = "reconfigure" THEN a2dpReconfig(s)
  ELSE IF scenario.out
    THEN IF scenario.dummy THEN a2dpSuspendToDummy(s) ELSE a2dpSuspend(s)
    ELSE IF scenario.dummy THEN a2dpCaptureSuspendToDummy(s) ELSE a2dpCaptureSuspend(s)

\* The streams leave the device; one that plays elsewhere too keeps to that.
Prepare ==
  /\ bt.pc = "prepare"
  /\ StreamsFree(bt.list)
  /\ str' = [s \in Streams |-> IF s \in bt.list THEN Prepared(s) ELSE str[s]]
  /\ \E moved \in {{s \in bt.list : ~scenario.dummy \/ "bt" \in str[s].dev
                                    \/ bt.op = "reconfigure"}} :
       bt' = [bt EXCEPT !.pc = "switch", !.lists =
               [disc |-> {<<s, "bt">> : s \in moved},
                conn |-> {<<s, IF bt.op = "reconfigure" THEN "bt" ELSE StandIn>> :
                           s \in {t \in moved : scenario.dummy => \/ ~scenario.out
                                   \/ Cardinality(str[t].dev) < 2
                                   \/ bt.op = "reconfigure"}}]]
  /\ UNCHANGED <<scenario, use, reg, btSuspended, client, spent>>

(* The streams to restore remember the suspended device; those that remember *)
(* only that one leave the devices they are on.                              *)
Alone(S) == {s \in S : Cardinality(str[s].susp) = 1}
LeaveAll(S) == UNION {{<<s, d>> : d \in str[s].dev} : s \in S \cap bt.retry}
Leave(S) == {<<s, StandIn>> : s \in S \cap bt.list}

a2dpResume(all) == Leave(Alone(all)) \cup LeaveAll(Alone(all))
a2dpResumeFromDummy(all) == Leave(all) \cup LeaveAll(Alone(all))
a2dpCaptureResume(all) == Leave(all) \cup LeaveAll(all)
a2dpCaptureResumeFromDummy(all) == Leave(all) \cup LeaveAll(all)

\* Mutant: streams that are not on the stand-in are not taken back.
Restored_NoRetry == {s \in bt.list \cup bt.orphans : "bt" \in str[s].susp}

Restored == {s \in bt.list \cup bt.orphans \cup bt.retry : "bt" \in str[s].susp}

Take ==
  /\ bt.pc = "take"
  /\ StreamsFree(bt.list \cup bt.orphans \cup bt.retry)
  /\ \E all \in {Restored} :
     \E disc \in {IF scenario.out
                     THEN IF scenario.dummy THEN a2dpResumeFromDummy(all)
                                            ELSE a2dpResume(all)
                     ELSE IF scenario.dummy THEN a2dpCaptureResumeFromDummy(all)
                                            ELSE a2dpCaptureResume(all)} :
       bt' = IF all = {} THEN BtRest
             ELSE [bt EXCEPT !.pc = "switch", !.list = all, !.lists =
                    [disc |-> disc, conn |-> {<<s, "bt">> : s \in all}]]
  /\ UNCHANGED <<scenario, str, use, reg, btSuspended, client, spent>>

\* Only a forced switch is tried again if it failed.
BtSwitch ==
  /\ bt.pc = "switch"
  /\ \E r \in streamDevSwitch(bt.lists) :
       /\ Switch(bt.lists, r)
       /\ Spend(r, bt.op # "suspend")
       /\ \E forced \in {bt.op = "reconfigure"
                         \/ (bt.op = "suspend" /\ ~scenario.dummy)} :
            bt' = CASE forced /\ ~r.ok -> [bt EXCEPT !.pc = "reset"]
                    [] r.ok /\ (forced \/ bt.op = "resume") ->
                         [bt EXCEPT !.pc = "after"]
                    [] OTHER -> BtRest
  /\ UNCHANGED <<scenario, btSuspended, client>>

\* "reset usecases": with every stream on the devices of the new back end.
Reset ==
  /\ bt.pc = "reset"
  /\ \E d \in {IF bt.op = "reconfigure" THEN "bt" ELSE StandIn} :
     \E shared \in {getSharedBEActiveStreamDevs(d)} :
     \E lists \in {[disc |-> bt.lists.disc \cup shared,
                    conn |-> bt.lists.conn \cup shared]} :
     \E r \in streamDevSwitch(lists) :
       Switch(lists, r) /\ Spend(r, bt.op # "suspend")
  /\ bt' = [bt EXCEPT !.pc = "after"]
  /\ UNCHANGED <<scenario, btSuspended, client>>

After(op, finished) ==
  /\ bt.pc = "after" /\ bt.op = op
  /\ StreamsFree(bt.list)
  /\ str' = [s \in Streams |-> IF s \in bt.list \cap Known THEN finished[s]
                               ELSE str[s]]
  /\ bt' = BtRest
  /\ UNCHANGED <<scenario, use, reg, btSuspended, client, spent>>

\* Only now does a capture stream remember the device it left.
AfterSuspend == After("suspend", [s \in Streams |->
  IF scenario.out THEN Unpause(s, str[s]) ELSE [str[s] EXCEPT !.susp = {"bt"}]])

AfterReconfigure ==
  After("reconfigure", [s \in Streams |-> Unmute(Unpause(s, str[s]))])

\* Mutant: the mark is taken away, the session stays muted.
AfterResume_MarkOnly == After("resume", [s \in Streams |->
  [str[s] EXCEPT !.a2dpMuted = FALSE, !.susp = {}]])

\* With the dummy devices only what is marked muted is unmuted.
AfterResume == After("resume", [s \in Streams |->
  [IF scenario.dummy /\ ~str[s].a2dpMuted THEN str[s] ELSE Unmute(str[s])
     EXCEPT !.susp = {}]])

BtNext ==
  \/ \E op \in {"suspend", "resume", "reconfigure"} : Request(op)
  \/ Collect \/ Prepare \/ Take \/ BtSwitch \/ Reset
  \/ AfterSuspend \/ AfterReconfigure \/ AfterResume

(***************************************************************************)
(* The clients, each with one stream.                                      *)
(***************************************************************************)
Routes == {{"bt"}, {"spkr"}} \cup (IF scenario.out THEN {{"bt", "spkr"}} ELSE {})

Calls(s, next) ==
  /\ client[s].pc = "rest" /\ spent.calls < MaxCalls
  /\ spent' = [spent EXCEPT !.calls = @ + 1]
  /\ client' = [client EXCEPT ![s] = next]
At(pc) == [ClientRest EXCEPT !.pc = pc]

\* Bound: a new stream does not have the address of one a list still names.
Named(s) ==
  \/ s \in bt.list \cup bt.orphans \cup bt.retry \cup Involved(bt.lists)
  \/ \E t \in Streams : s \in Involved(client[t].lists) \cup client[t].muted

Create(s, D) ==
  /\ str[s] = Gone /\ ActiveFree /\ ~Named(s)
  /\ Calls(s, At("opening"))
  /\ str' = [str EXCEPT ![s].state = "IDLE", ![s].dev = D, ![s].asked = D,
                        ![s].agreed = D]
  /\ UNCHANGED <<scenario, use, reg, btSuspended, bt>>

\* A stream all on a device that is not ready is not opened.
Open(s) ==
  /\ client[s].pc = "opening"
  /\ IF str[s].dev = {"bt"} /\ ~isDeviceReady("bt")
     THEN /\ client' = [client EXCEPT ![s] = At("deleting")]
          /\ UNCHANGED <<str, use>>
     ELSE /\ str' = [str EXCEPT ![s].state = "INIT"]
          /\ use' = Opened(use, str[s].dev)
          /\ client' = [client EXCEPT ![s] = ClientRest]
  /\ UNCHANGED <<scenario, reg, btSuspended, bt, spent>>

\* The stream mutex is taken and the suspended flag is read.
StartRead(s) ==
  /\ str[s].state \in {"INIT", "STOPPED"}
  /\ "pause" \in Overlaps \/ ~str[s].a2dpPaused
  /\ Calls(s, [At("starting") EXCEPT !.seen = btSuspended])
  /\ UNCHANGED <<scenario, str, use, reg, btSuspended, bt>>

(* A playback stream on a suspended device leaves it for the stand-in, muted, *)
(* unless it is on another one; the suspended device is remembered.          *)
handleBTDeviceNotReadyToDummy(st) ==
  IF st.dev = {"bt"} THEN [Mute(st) EXCEPT !.dev = {"dummy"}, !.susp = {"bt"}]
  ELSE [st EXCEPT !.dev = @ \ {"bt"}, !.susp = {"bt", "none"}]

\* Mutant: the stream is not muted on the stand-in.
handleBTDeviceNotReady_Loud(st) ==
  IF st.dev = {"bt"} THEN [st EXCEPT !.dev = {"spkr"}, !.susp = {"bt"}]
  ELSE [st EXCEPT !.dev = @ \ {"bt"}, !.susp = {"bt", "spkr"}]

handleBTDeviceNotReady(st) ==
  IF st.dev = {"bt"} THEN [Mute(st) EXCEPT !.dev = {"spkr"}, !.susp = {"bt"}]
  ELSE [st EXCEPT !.dev = @ \ {"bt"}, !.susp = {"bt", "spkr"}]

\* A device that does not start is closed and forgotten; one that does is enough.
StartRun(s) ==
  /\ client[s].pc = "starting"
  /\ \E old \in {str[s]} :
     \E st \in {IF ~(scenario.out /\ client[s].seen /\ "bt" \in old.dev) THEN old
                ELSE IF scenario.dummy THEN handleBTDeviceNotReadyToDummy(old)
                ELSE handleBTDeviceNotReady(old)} :
     \E starts \in {IF scenario.out /\ btSuspended THEN st.dev \ {"bt"} ELSE st.dev} :
       /\ use' = Started(Closed(Opened(Closed(use, old.dev \ st.dev),
                                       st.dev \ old.dev), st.dev \ starts), starts)
       /\ str' = [str EXCEPT ![s] = [st EXCEPT
            !.dev = starts, !.state = IF starts = {} THEN @ ELSE "STARTED"]]
       /\ client' = [client EXCEPT ![s] =
                       IF starts = {} THEN ClientRest ELSE At("registering")]
  /\ UNCHANGED <<scenario, reg, btSuspended, bt, spent>>

StartRegister(s) ==
  /\ client[s].pc = "registering" /\ ActiveFree
  /\ reg' = reg \cup {<<d, s>> : d \in str[s].dev}
  /\ client' = [client EXCEPT ![s] = ClientRest]
  /\ UNCHANGED <<scenario, str, use, btSuspended, bt, spent>>

\* The state is looked at and the stream mutex let go, for the order of the two.
Stop(s) ==
  /\ Live(str[s].state)
  /\ Calls(s, At("stopping"))
  /\ UNCHANGED <<scenario, str, use, reg, btSuspended, bt>>

StopRun(s) ==
  /\ client[s].pc = "stopping" /\ ActiveFree
  /\ str' = [str EXCEPT ![s].state = "STOPPED", ![s].askedPause = FALSE]
  /\ reg' = reg \ {<<d, s>> : d \in str[s].dev}
  /\ use' = Stopped(use, str[s].dev)
  /\ client' = [client EXCEPT ![s] = At(client[s].then)]
  /\ UNCHANGED <<scenario, btSuspended, bt, spent>>

Close(s) ==
  /\ isAlive(s)
  /\ Calls(s, IF Live(str[s].state)
              THEN [At("stopping") EXCEPT !.then = "closing"] ELSE At("closing"))
  /\ UNCHANGED <<scenario, str, use, reg, btSuspended, bt>>

CloseRun(s) ==
  /\ client[s].pc = "closing"
  /\ use' = Closed(use, str[s].dev)
  /\ str' = [str EXCEPT ![s].state = "IDLE"]
  /\ client' = [client EXCEPT ![s] = At("deleting")]
  /\ UNCHANGED <<scenario, reg, btSuspended, bt, spent>>

\* Bound: not while a route still has to unmute the stream.
Delete(s) ==
  /\ client[s].pc = "deleting" /\ ActiveFree
  /\ \A t \in Streams : s \notin client[t].muted
  /\ str' = [str EXCEPT ![s] = Gone]
  /\ client' = [client EXCEPT ![s] = ClientRest]
  /\ UNCHANGED <<scenario, use, reg, btSuspended, bt, spent>>

Pause(s) ==
  /\ s \in Offload /\ scenario.out /\ MayOverlap("pause")
  /\ Live(str[s].state) /\ ~str[s].askedPause
  /\ Calls(s, ClientRest)
  /\ str' = [str EXCEPT ![s].state = "PAUSED", ![s].isPaused = TRUE,
                        ![s].askedPause = TRUE]
  /\ UNCHANGED <<scenario, use, reg, btSuspended, bt>>

Resume(s) ==
  /\ str[s].askedPause
  /\ Calls(s, ClientRest)
  /\ str' = [str EXCEPT ![s].isPaused = FALSE, ![s].askedPause = FALSE]
  /\ UNCHANGED <<scenario, use, reg, btSuspended, bt>>

(* The new devices that are ready are connected, the old ones disconnected;  *)
(* where the attributes differ (any subset), every stream on a new device is *)
(* disconnected and connected again, the offloaded ones muted meanwhile.     *)
Route(s, D) ==
  /\ isAlive(s) /\ str[s].asked # D
  /\ MayOverlap("route") /\ ActiveFree
  /\ "route" \in Overlaps \/ \A t \in Streams : client[t].pc # "routing"
  /\ \E ready \in {{d \in D : isDeviceReady(d)}} :
     \E asked \in {[str EXCEPT ![s].asked = D,
                      ![s].agreed = IF ready = {} THEN @ \cap str[s].dev ELSE D,
                      ![s].susp = IF ready = {} THEN {"bt"} ELSE @]} :
       IF ready = {}
       THEN /\ "refused" \in Overlaps \/ Cardinality(str[s].dev) < 2
            /\ Calls(s, ClientRest)
            /\ str' = asked
       ELSE \E differ \in SUBSET {d \in ready : getActiveStream_l(d) # {}} :
            \E shared \in {UNION {getSharedBEActiveStreamDevs(d) : d \in differ}} :
            \E muted \in {({t[1] : t \in shared} \cap Offload) \ {s}} :
              /\ StreamsFree(muted)
              /\ "mute" \in Overlaps \/ \A t \in muted : ~str[t].a2dpMuted
              /\ str' = [t \in Streams |-> IF t \in muted
                           THEN [str[t] EXCEPT !.quiet = TRUE] ELSE asked[t]]
              /\ Calls(s, [At("routing") EXCEPT
                   !.dev = D, !.muted = muted, !.seen = "bt" \in D \ ready,
                   !.lists = [disc |-> shared \cup
                                       {<<s, d>> : d \in str[s].dev \ D},
                              conn |-> shared \cup {<<s, d>> : d \in ready}]])
  /\ UNCHANGED <<scenario, use, reg, btSuspended, bt>>

RouteSwitch(s) ==
  /\ client[s].pc = "routing" /\ client[s].lists # NoLists
  /\ \E r \in streamDevSwitch(client[s].lists) :
       Switch(client[s].lists, r) /\ Spend(r, TRUE)
  /\ client' = [client EXCEPT ![s].lists = NoLists]
  /\ UNCHANGED <<scenario, btSuspended, bt>>

\* A playback stream keeps a device that was not ready only beside another.
RouteEnd(s) ==
  /\ client[s].pc = "routing" /\ client[s].lists = NoLists
  /\ StreamsFree(client[s].muted)
  /\ str' = [t \in Streams |->
       IF t = s THEN [(IF str[s].a2dpMuted THEN Unmute(str[s]) ELSE str[s])
                        EXCEPT !.susp = IF ~scenario.out THEN @
                                        ELSE IF client[s].seen THEN {"bt", StandIn}
                                        ELSE {}]
       ELSE IF t \in client[s].muted THEN [str[t] EXCEPT !.quiet = FALSE]
       ELSE str[t]]
  /\ client' = [client EXCEPT ![s] = ClientRest]
  /\ UNCHANGED <<scenario, use, reg, btSuspended, bt, spent>>

ClientNext(s) ==
  \/ \E D \in Routes : Create(s, D) \/ Route(s, D)
  \/ Open(s) \/ StartRead(s) \/ StartRun(s) \/ StartRegister(s)
  \/ Stop(s) \/ StopRun(s) \/ Close(s) \/ CloseRun(s) \/ Delete(s)
  \/ Pause(s) \/ Resume(s) \/ RouteSwitch(s) \/ RouteEnd(s)

Rest == bt.pc = "rest" /\ \A s \in Streams : client[s].pc = "rest"
Done == Rest /\ spent.calls = MaxCalls /\ UNCHANGED vars

Next == BtNext \/ (\E s \in Streams : ClientNext(s)) \/ Done
Spec == Init /\ [][Next]_vars

(***************************************************************************)
(* Properties.                                                             *)
(***************************************************************************)
Playing(s) == Live(str[s].state)

(* At rest a device is open for the streams that hold it, started for those  *)
(* that play, and listed as active for just those, whatever was moved behind *)
(* its back and whichever connection failed (streamDevSwitch, Stream's       *)
(* connect and disconnect, start, stop, close).                              *)
DevicesRight == Rest =>
  \A d \in Devices :
    /\ use[d].count = Cardinality(getActiveStream_l(d))
    /\ use[d].startStop = Cardinality({s \in getActiveStream_l(d) : Playing(s)})
    /\ {s \in Streams : <<d, s>> \in reg} \subseteq {s \in getActiveStream_l(d) : Playing(s)}
    /\ spent.faults = 0 => \A s \in getActiveStream_l(d) : Playing(s) => <<d, s>> \in reg

(* Once a suspend is served, no playing stream is on the suspended device,   *)
(* and none is heard on a device its client did not choose, whoever          *)
(* started, stopped, opened or routed streams meanwhile (a2dpSuspend,        *)
(* a2dpSuspendToDummy, handleBTDeviceNotReady).                              *)
LeavesQuietly == Rest /\ btSuspended /\ spent.faults = 0 =>
  \A s \in Streams : Playing(s) =>
    /\ "bt" \notin str[s].dev
    /\ str[s].dev \subseteq str[s].agreed \/ str[s].quiet

(* Once a resume is served no playing stream is left muted.                  *)
SoundReturns == Rest /\ ~btSuspended /\ ~spent.lost =>
  \A s \in Streams : Playing(s) => ~str[s].a2dpMuted /\ ~str[s].quiet

(* Once a resume is served every playing stream is on the devices its client *)
(* asked for last and heard, also if it could not be moved off when it was   *)
(* suspended.                                                                *)
BackWhereAsked ==
  /\ SoundReturns
  /\ Rest /\ ~btSuspended /\ ~spent.lost /\ scenario.out =>
       \A s \in Streams : Playing(s) => str[s].dev = str[s].asked

(* A request pauses and resumes offloaded streams; it leaves the pause of a  *)
(* client as it was.                                                         *)
PauseKept == Rest =>
  \A s \in Streams : str[s].state = "PAUSED" =>
    str[s].isPaused = str[s].askedPause
=============================================================================

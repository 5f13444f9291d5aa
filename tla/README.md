# PAL in TLA+: models, checks and proofs

This directory holds a verification development of the Platform Audio Layer
(PAL, `src/`): TLA+ modules, TLC configurations and TLAPS proofs. It speaks of
the *control* of the library: which thread may do what to which object, in
which order, under which mutex, and what is left when a step fails or the sound
card goes away. Payloads, codecs, XML parsing and mixer strings are out.

1. [The system](#1-the-system)
2. [Modules and the code they stand for](#2-modules-and-the-code-they-stand-for)
3. [Runs](#3-runs)
4. [Fairness](#4-fairness)
5. [Proofs](#5-proofs)
6. [Where code and documentation disagree](#6-where-code-and-documentation-disagree)
7. [Not modelled](#7-not-modelled)
8. [Plan](#8-plan)

To run: `tlc -config RingOrder.cfg MCPalRingBuffer` (the module of each
configuration is in `PROJECT.json`), `tlapm PalRingBufferProofs.tla`.

## 1. The system

PAL sits between the audio HAL and the DSP graph library (AGM). A client opens a
*stream*, starts, pauses, resumes, writes, stops and closes it; the *resource
manager*, a singleton, gives the stream its *devices* and *session* and
moves streams between devices; a monitor thread reports the state of the sound
card, and a recovery thread takes all streams down and up again.

| component | state it keeps | operations | interacts with |
|---|---|---|---|
| PAL entry points (`Pal.cpp`) | the handle is the raw `Stream*` | `pal_stream_open` ... `pal_stream_close` | look up and count themselves in with the resource manager, call the stream |
| user counters (`ResourceManager.cpp:3936-4027`) | `mActiveStreamUserCounter` (count, flag), the semaphore `mInUse` of the stream | init, deactivate, erase, increase, decrease | all entry points, recovery, device switches |
| PCM stream (`StreamPCM.cpp`) | `currentState`, `cachedState`, `isPaused`, `mDevices`, `skipSSRHandling` under `mStreamMutex` | open, start, stop, close, pause, resume, write, SSR handlers | devices, session, `registerDevice` under `mActiveStreamMutex` |
| compressed stream (`StreamCompress.cpp`, `SessionAlsaCompress.cpp`) | the same, volume and mute, the queue of the offload thread | open, start, stop, close, write, drain, pause, flush, SSR handlers | offload thread, client callback |
| other streams (common, haptics, in-call, non-tunnel, sensor) | the same, pause flags of the manager | life cycle, SSR handlers, rounds of the manager | sessions, devices, votes against sleep |
| sound trigger stream (`StreamSoundTrigger.cpp`) | a state machine of six states, detection state, delayed stop, wake lock, vote | 12 events, calls, reports of the engines | engine threads, timer, manager, reader of the ring |
| device (`Device.cpp`) | open count and start count under `mDeviceMutex` | open, close, start, stop | shared by streams |
| device switches (`ResourceManager.cpp`, `Stream.cpp`) | `mDevices`, suspended ids and mute flags of each stream, the list of active devices | `streamDevSwitch`, `forceDeviceSwitch`, a route by the client, A2DP suspend, resume, reconfigure | all streams of a device, Bluetooth |
| sound card recovery (`SndCardMonitor.cpp`, `ssrHandlingLoop`) | `cardState`, `msgQ`, `prevState` | monitor events, walk over all streams | calls every stream's SSR handlers |
| SCO reconfiguration (`reconfigureScoStreams`) | local list of streams | on BT SCO parameters | user counters, `streamDevSwitch` |
| ring buffer (`PalRingBuffer.cpp`) | bytes, write offset, per reader an offset, an unread size and a state | write, read, advance, keyword configuration, reset | buffering thread of the sound trigger engine, second stages, clients |
| sessions and front ends (`SessionAlsaPcm.cpp`, `ResourceManager.cpp`) | front-end ids, PCM handles, callback map, reference count of low power mode, votes | open, start, stop, close, connect, disconnect | streams, mixer events |
| context detection stream (`StreamACD.cpp`, `ACDEngine.cpp`) | a state machine of five states per stream; one engine with model counts, thresholds and attached streams | events, calls, detections of contexts | event thread, notification thread per stream, manager, other streams on the engine |
| ASR streams | a state machine of the same kind | events | engines |
| low power switches | concurrency counters, deferred switch | stop and start of voice UI streams | sound trigger streams |
| context manager | command queue, use cases | callbacks of ACDB proxy streams | recovery |
| speaker protection, other devices | calibration thread state | device overrides | mixer |
| IPC server | sessions per client process | calls by proxy, client death | entry points |

**Hard behaviours.** (a) A stream is used through a raw pointer by any number of
threads while others close it. (b) Two mutexes with a fixed order,
`mActiveStreamMutex` before `mStreamMutex`, so `start`, `stop`, `write` and the SSR
handlers give one up in the middle and find another state after it. (c) Devices
are shared and counted; every call on the way may fail, and each function
unwinds by hand. (d) The card is lost at any point, the loss is reported by two
sources, and recovery works from a *cached* state that calls also write. (e) A
ring with several readers and no read position of its own. (f) Worker threads
(offload, detection, second stages, timer) call back into a stream whose
`close` waits for them with the mutex they want. (g) The manager pauses, mutes and moves
streams behind the back of their clients, and must put them back as the client wants
them by then.

**What makes the components correct.**
*User counters*: a counted user has a live, registered stream; the increment,
made with the mutex held, never blocks; one closer gets through, when the last
user is gone, and does get through; an entry never survives its stream.
*Streams and devices*: counts cover the users at all times and equal them at rest;
the active list pairs the running streams with their devices; the stream is in the
state its client was last told. *Recovery*: the same after any loss of the
card; no thread waits for a mutex it owns; every call returns; the manager ends
up knowing the card's state. *Compressed streams*: the offload thread never outlives stream or handle;
whoever asked for room or a drain is answered, and not too early. *Sound trigger*: a client hears
only of detections it still waits for; a paused stream does not listen; an active one does; each
detection is decided, and the wake lock and the vote last exactly as long. *Context detection*: the shared device and engine serve
every stream that listens, the client hears one event per start and each event it asks for.
*Device switches*: a stream leaves a suspended device in silence and comes back, with
sound, to where its client wants it by then. *Ring*: readers lose nothing they have begun to
read, read in order, and begin at the keyword.

`PROJECT.json` lists the hazards at their lines with the properties that cover
them.

## 2. Modules and the code they stand for

```
StreamLifetime  <--implements--  StreamUserCounter
Device  <--used by--  StreamPCM, StreamCompress, StStates, AcdStates, OtherStreams, DeviceSwitch
StStates  <--EXTENDS--  StreamSoundTrigger
AcdStates  <--EXTENDS--  StreamACD
PalRingBuffer
*Proofs  --EXTENDS-->  the module it is named after  (and DeviceProofs, where there are devices)
```

**Scenarios.** Several modules have a constant `Scenarios`: what the client, the manager and the
environment may do. Each behaviour follows one of them, chosen in `Init`, so that one
run covers several small instances that would be too large as one. A name in
`Faults` is a call below that may fail.

**StreamLifetime** is the abstract promise: a stream is created, published, entered
and left by users, retired by one close and destroyed after the last user has left.

**StreamUserCounter** models `pal_stream_open`, a counted call,
`pal_stream_close`, the resource manager's counter functions and the part of
`ssrHandlingLoop` that walks the list. A section of `mActiveStreamMutex` that
neither blocks nor calls out is one action; `incSem` is the place where
`increaseStreamUserCounter` may wait for the semaphore with the mutex held, and
the walk owns the mutex between its actions. `alive` is the heap, `mActiveStreams` the list of the resource manager,
`flag`/`count` the counter pair ("none" = no entry), `mInUse` the semaphore.
A stream is an *address*: it can be deleted and created again.
A failing `Stream::open` is the choice in `OpenEnds`. In `OpenCreate` a new stream
leaves `visited`, because `mActiveStreams.push_back` puts it behind the walk.

**Device** holds the two counts of the base class and what open, start, stop and close do
to them; the modules of streams use it on sets of devices.

**StreamPCM** models `StreamPCM` with its devices and recovery. `strm[s]` is
the object; `want` is a ghost, the last call that returned 0; `session` and
`sessionPaused` stand for what the DSP has (external). `dev[d]` holds the two
counts. A section of `mStreamMutex` is one action, except where the code calls out
with it held in a way that another thread can see (`startRun`, `startReset`), and
then the mutex has an owner. `pc`, `ret` and `status` are the threads' place, return stack and result:
recovery and `close` call `stop`, `open`, `start` and `pause` with the same actions as a client.
`Faults`: `deviceOpen`, `deviceStart`, `deviceStop`,
`sessionOpen`, `sessionStart`, `netReset` (ENETRESET instead of another error when the
card is down) and `openLost` (a session opened but not started dies with the card).
Card events are reported by the monitor (`CardGoesDown`, `CardComesUp`) and
by streams (`ReportLoss`).
Clients are assumed to keep the order PalApi.h describes (`MayCall`), one control
thread per stream, and not to close a stream while a write is under way. That
two closers do not meet inside a stream is what StreamUserCounter is about.

**StreamCompress** models `StreamCompress` with `SessionAlsaCompress` and its offload thread
(`wk`): `msg_queue_` holds its commands, `wk.pc` is its place in `offloadThreadLoop`, `ses.waiting` that it waits
for room. The client controls the stream from thread `ctl` and writes from `wr`; recovery
is `ssr`. `dsp` (external) has room for `Room` writes and plays them. `volume` keeps what the
client asked for, what the stream noted and what the DSP has. `close` is the one call
that keeps `mStreamMutex` across steps: it joins the thread.

**StStates** is the state machine of a sound trigger stream as a pure function: `Process(s, event, fault, lpi, up)`
maps the stream to the stream after `ProcessEvent` of its current state (`StIdle`, `StLoaded`, `StActive`, `StDetected`,
`StBuffering`, `StSSR`), with the one step that fails; `ok` is the status, `note` the
notification left to the caller. `gsl` is the state of the first stage engine, `run` the second stages that check.

**StreamSoundTrigger** puts it among its threads: the client (`ctl`), the event thread
of the engine (`gsl`), one thread per second stage, the timer of the delayed stop, and the
manager (`rm`: concurrency, pause and resume, device switch, low power mode, recovery).

**AcdStates** does the same for context detection: `Process(w, call, v)` maps a world (streams `st`, engine `e`, device `use`)
to the world after the handler of the stream's state (`ACDIdle`, `ACDLoaded`, `ACDActive`, `ACDDetected`, `ACDSSR`), with `ok` the status. Where the engine gives
its mutex up in the middle (`SetupEngine` and the like before they load, `TeardownEngine` while it joins its thread) the handler stops with `at` = "load" or "join", and
`Resume` does the rest. The engine counts the users of each model (`count`, with `load` and `unload` what is to be done), and keeps the thresholds per stream (`per`) and
their minimum (`cum`); `asked` and `models` are what the DSP was given. **StreamACD** puts two streams on one engine among a client, the
manager, the engine's event thread (`eventQ`, `targets`) and a notification thread per stream (`notifier`: waits, woken, in the callback). The client makes one call
at a time and the manager one round at a time (`todo`), the two interleave. `v` is what a handler meets: the step that fails, low power, the card, and a value read from behind the
configuration (`garbage`: `UpdateEventInfoForStream` reads out of bounds for a context nobody had, in the scenario `newContexts`). Ghosts: `want`, `asked`, `told`, and
`failed` (a configuration failed, or met another half-way, or a loss of the card left a stream attached to the closed engine). The teardown of one of two streams fails while the card
is down; that does not count when both have gone, so that `EngineServes` speaks of the streams recovery brings back. The round of the manager that a start causes when it changes the capture profile (`StopOtherDetectionStreams`,
called with that stream's mutex held) is a round of its own (`OthersRound`). Left out: step sizes and confidence (whom an event concerns is any choice of the streams that want its context), more than one microphone,
a stream deleted while the event thread is about to tell it.

**OtherStreams** holds the classes `common`, `haptics`, `incall`, `nontunnel` (with `SessionAgm`) and `sensor`:
the sections they share are written once, with a disjunct where a class differs. `w` is the stream with its session and
registration; `mgr` is the manager, which pauses sensor streams while another use holds them back
(`disableCount`) and moves their device.

**DeviceSwitch** holds the manager's way of moving streams: a Bluetooth thread (`bt`) serves requests to suspend, resume or reconfigure
(`a2dpSuspend`, `a2dpSuspendToDummy`, `a2dpResume`, `a2dpResumeFromDummy`, `a2dpCaptureSuspend`,
`a2dpReconfig`, ...) by collecting streams, muting and pausing them and switching their
devices, while clients open, start, stop, pause, route and close. The switch proper
(`streamDevSwitch` with `streamDevDisconnect` and `streamDevConnect`) is a function from world to world (`[str, use, reg]`).
`str[s].susp` are the suspended ids, `a2dpMuted`, `a2dpPaused` the flags, `quiet` whether the session is muted;
`asked`, `agreed`, `askedPause` and `spent.lost` are ghosts.
`mActiveStreamMutex` is held exactly while `bt.pc` is "prepare" or "take", the mutex of a stream
across steps only by a start in progress.

**PalRingBuffer** models one ring and the readers of several streams. A byte is named
by its place in the order of writing since the last reset, so order and loss can be told.
`getFreeSize` keeps its unsigned subtraction: an enabled reader with more unread than the
ring holds does not limit the writer (`Fits`). `read` takes its size from the offsets, as the code does,
and uses `unreadSize_` only to test for 0. `reset` is two-phase (`Reset`, then `ResetNext` per
reader). `start` and `got` are ghosts. Assumed of the callers: keyword
positions are set (`updateKwdConfig`) while the stream's readers wait disabled; a detection is announced when
its keyword has been written (`SoundTriggerEngineGsl.cpp:367`); a second stage
advances before it reads and within what was written; nobody reads or writes between the two
phases of `reset` (see section 6). `written` is bounded by `MaxWritten` between resets.

The `MC*` modules give constants values; they redefine nothing. Operators whose comment begins
"Mutant of" are not part of any specification: each is a plausible bug, used to make sure
that the property it is paired with in `PROJECT.json` fails with it.

## 3. Runs

| run | instance | shows |
|---|---|---|
| StreamUserCounter | 3 clients, 2 addresses, recovery | safety of the counters, `CloseCompletes`, and that the protocol implements StreamLifetime (`KeepsLifetime`) |
| PcmSafe | 4 scenarios: 2 outputs on 2 devices that fail to start; a loopback and an input with 5 kinds of failure; a writer; 2 streams on 1 device over a loss | devices serve their users and are given back, the stream is as asked, the card's state is known |
| PcmReturns | 1 stream, a control thread, a writer, 1 loss, failures, ENETRESET, a stream spared in standby | `CallsReturn`, under fairness |
| Compress | 4 scenarios: playback with and without gaps and all control calls; an output and an input that lose the card with 4 kinds of failure | volume and mute are as asked, answers come and not too early, the offload thread has its stream, nothing is left, calls return |
| TriggerDetect | 2 scenarios: 1 second stage, detections against start, stop and read, pauses, low power mode; 1 stage, 2 detections, close and 1 loss too | the client is told what it waits for, verdicts come, wake lock and vote last as long as needed, paused means quiet |
| TriggerManager | device switches, other streams, concurrency, 1 loss, with all calls but delete | the stream is as asked, its engine listens while it is active, calls return |
| TriggerFaults | the same with one kind of failing step per behaviour; 2 detections that overtake each other | the device follows the state |
| TriggerUnlocks (violation) | detections against concurrency | a report unlocks a mutex of another thread |
| OtherStreams | 10 scenarios, 5 classes: failures or 2 losses each, rounds of the manager for sensors | devices and votes follow the state, the stream is as asked, calls return |
| DeviceSwitch | 2 streams, one offloaded; output or capture, with a stand-in or dummy devices; 5 calls, 2 requests, 1 failing connection | streams leave quietly and come back with sound where asked; device counts right |
| Acd | 16 scenarios of 1 or 2 streams, 2 contexts, 2 thresholds, up to 3 detections, 2 rounds of the manager or 1 loss, with and without failing starts | device and engine serve who listens, one event per start and every event asked for, calls return |
| RingOrder | 2 streams with a reader each, ring of 3 cells, requests up to 4, 7 bytes between resets | order, no loss, start at the keyword |

**Bounds and why they are enough.** The counter protocol is per stream; two
addresses let one stream be reused while another is walked, and three clients give
two users and a closer, or two closers and a user, on one stream. A shared device
needs two streams to go wrong, and a stream two devices for "some of them fail";
`MaxCount` (2 or 3) only keeps leaked counts from growing without end: it stands in the guards of `PalOpen`
and `PalCall` and lets a count exceed its correct value first. `MaxDown = 1` is
enough for every order of one loss with one call; with two losses `StreamAsAsked` fails
(section 6: the second loss during the start that recovery makes). `MaxQueue` bounds what streams report, not what the
monitor reports. A compressed stream has room for two writes, so that one fits, one fills and one waits; `MaxLeft` is the
number of leaked votes above which it is not opened again.
A sound trigger stream lives through two detections with one stage and one with two, one pending switch (`MaxSwitching`) and one loss; the state machine has no memory
beyond that. `MaxCalls = 5` is open, start, a route or pause and two more, on two streams together; with
`MaxRequests = 2` a suspend and its resume, or two in a row; (6 calls, 3 requests, 1 fault) and (7, 4, 0) were checked as well, once, with the same result
(8.2 and 2.7 million states).
`Overlaps = {}` leaves five races out of DeviceSwitch, each of which breaks a property (section 6): "start" (a request begins during a start), "route" (a route overlaps a
request or another route), "pause" (the client pauses while suspended), "mute" (a temporary mute of a stream already muted) and "refused"
(a route of a stream on two devices to Bluetooth that is not ready).
A ring of 3 with requests up to 4 wraps, fills, empties and overflows;
7 bytes are two rounds and one byte, after which the state repeats but for `written`.
Two context detection streams are what it takes to share an engine, two contexts to add and drop a model, two thresholds to lower and raise one; three detections are one told, one deferred
and one more. `EventsReachClient`, `CallsReturn` and `OneCallPerStart` name the scenarios they are about in their premises: section 6 says what happens in the others.

**Deadlock** is checked in StreamUserCounter, RingOrder and DeviceSwitch. In the other runs a
stop is an end of the *instance*, not of the system: the client has closed or started every stream
and may call nothing else, the card may not go down again, or a leaked count has reached
its bound. There a real deadlock is a call that does not return, and `CallsReturn` checks that none exists.

**Violations** are disagreements with a line of the repository quoted in `PROJECT.json`.

## 4. Fairness

`FairSpec` gives every thread inside a call strong
fairness of its next step: its guard is a mutex being free or a semaphore being
positive, sections are short, and a mutex or semaphore that becomes free again and again is granted in the
end. Nothing obliges a client to *begin* a call, a DSP to detect or the manager to interfere; the recovery thread is obliged to go on
when it has an event. The card is assumed to come back (weak fairness
of `CardComesUp` or `CardBack`): the DSP restarts. The DSP of a compressed stream plays what it has (weak fairness of
`Play`), which AnswersCome needs and the hardware gives unless paused. The timer of a sound trigger stream fires. No fairness is assumed of the card going
down, of failures or of writes being made. `ReportLoss` waits at the bound of the
queue, which recovery empties. PalRingBuffer and DeviceSwitch have safety only.

## 5. Proofs

| module | theorem | for every |
|---|---|---|
| StreamUserCounterProofs | `Inductive`, `TypeCorrect`, `UsersAreSafe`, `IncrementNeverBlocks`, `CloserHasStreamAlone`, `FreshCounters`; `ImplementsLifetime`: `Spec => KeepsLifetime` | finite set of clients, any set of addresses |
| PalRingBufferProofs | `Inductive`, `TypeCorrect`, `UnreadStays`, `OrderedReads` | ring size, readers, streams, request sizes |
| StreamSoundTriggerProofs | `PausedStaysQuiet`, `TriggerTypes` | second stages, scenarios and failures |
| | `DeviceFollows`, `DeviceLeftAlone` | scenario without second stages and late reports; the failures named in the theorem |
| | `StaysAwakeAsNeeded` | scenario without second stages and late reports, failures, detections and losses |
| StreamCompressProofs | `WorkerKeepsStream`, `SoundStaysAsked`, `NothingStaysLeft`, `DrainedMeansPlayed`, `CompressTypes` | devices, room of the DSP, calls, failures, losses of the card |
| StreamPCMProofs | `PcmTypes`, `CardStateKnown` | streams, threads, devices, scenarios, losses; `CardStateKnown` without `netReset` |
| | `DevicesStayRight` | streams and devices; one control thread per stream, the scenarios of `Steady` |
| | `StreamsAsAsked` | the same, in the scenarios of `Steady` that are `Restorable` |
| OtherStreamsProofs | `SensorKeepsQuiet` | failures, losses, uses and moves of the manager |
| | `DevicesAreRight` | class, devices, losses; the scenarios of `Ordinary` that are `Orderly` |
| | `StreamIsAsAsked` | the same; the scenarios of `Ordinary` that satisfy `Remembers` |
| DeviceSwitchProofs | `CountsAreRight`, `SwitchedDevicesRight` | finite set of streams, scenarios, calls, requests, failing connections, all of `Overlaps` |
| | `PausesAreKept` | the same without "pause" in `Overlaps` |

`DeviceProofs` holds the lemmas on the counters of devices that the modules of sound trigger, compressed, PCM and the other streams share.

**User counters.** Assumptions: `ClientsAssumption` (finitely many clients, recovery is not
one) and `NullAssumption`. None of the properties is inductive alone: that the increment does not block needs that
the semaphore is taken exactly while the count is positive or a closer has it; that, in turn, needs that the count
is the number of users and that there is at most one closer past the flag. `IInv` says it all:
`PcInv` (a thread in a call has a stream), `LockInv` (who waits in the increment owns
the mutex, so the count it read is still 0), `CountInv` (count = cardinality of the users),
`FlagInv` (an entry belongs to a registered, live stream), `SemInv` (semaphore against count) and
`OwnerInv` (opener or closer is the only one of its kind). The proof has one lemma
per action. The refinement maps *published* to "flag is active" and *users* to the
threads in a counted section; every action is one abstract step or a stutter, and `IInv` is what excludes that an
object dies under a user.

**Ring buffer.** Assumptions: `SizeAssumption` (a ring has a cell), `UnwrittenAssumption`, `OwnerAssumption`.
`IInv`: `RingInv` (the cells hold the last bytes written, below and behind the write
offset), `SyncInv` (for a reader that has begun: read offset + unread size leads to the write offset, at
most once around, and the next byte is the one after the last it got), `StartInv` (a reader that
may read was given a byte that is written, which in the first round is its offset: this
keeps its first read from cells never written) and `ResetInv`. `GotInv` adds that the last read was consecutive.
The lemmas `CellsAvailable`, `OffsetsKeep` and `OffsetsRead` hold the arithmetic of the wrap.

**Sound trigger.** Assumption: `None` is neither a thread nor a stage. The state machine is a function of a record of
thirty members; `Keeps` says what an event may change of a stream (a contract), each state's handler is shown to
meet it (`ByEvent`), and so are a verdict and a join; the threads' steps then preserve `QuietInv`. `PausedStaysQuiet` has
no hypothesis. `DeviceInv` adds who owns `mStreamMutex` between two steps (`Owners`) and that the device is closed, open or
running as the state says (`Tied`, `Follows`). Its theorems have two. `Steady`: no second stage, since a rejection while the engine is not
active leaves LOADED with the device started, and no `lateCheck`, since such a report unlocks the mutex of another thread (section 6).
`Follow`: not the failures "restart" (LOADED with the device started), "open" and "start" (a stream that listens with a device that does not),
nor "engine", of which TriggerFaults checks the case of one stage. `DeviceLeftAlone` has all of these but "restart".
`StaysAwakeAsNeeded` needs `Steady` and no restriction on failures. Its invariant, `WakeInv`, counts who owes a release of the wake lock (`Due`): the detection in the engine's
queue, the engine thread until its report is over, the stream in DETECTED or BUFFERING, the abort the manager is about to tell the client, a stop or unload that joins in such a state. The lock is
held at most that often (`s.wake <= Due`) unless detections overtake each other, and at least that often unless the device may be switched, which releases it in DETECTED. `Voted` bounds the vote
in the same way. `Aborting` (a close waits for the abort's notice) and `s.note` (no abort is noted and not yet taken by the manager's thread) keep two of them from
releasing for one detection. With second stages `AwakeAsNeeded` is only model-checked.

**Compressed streams.** Assumption: `None` is not a thread. `IInv`: types; `Positions` (each thread at a place of its handlers, with a
stack that leads back to its caller); `Linked` (a handle that closes has its close, recovery runs while the card is away, who joins holds the mutex);
`Playing` (what plays is open, has its card and no call that ends it); `Sound`; `Life` (the offload thread runs only within
the stream); `Votes` and `Left` (counters and votes are those of the stream, or of calls that failed); `Filled`, `Fresh` and
`Drains` (one drain at a time, asked for, queued or at the thread, and what is left of it is in the DSP). `NothingLeft` excepts a failing open of a device, which leaves those before
it open (section 6).

**PCM streams.** Assumption: `NamesAssumption` (client threads, writers and recovery are told apart, the streams are finitely many).
`Positions` says at which place, with which stack of places to return to, a thread can stand. `CardStateKnown` needs only the last element
of the queue of events: it is what the monitor saw last. `DevicesStayRight` rests on `Balanced`: types; `Locks` (who holds
a stream's mutex is starting it); `NoLoss`; and, in the scenarios of `Steady`, `Places` (each thread finds its stream in
the state its place needs: who is past the check of stop has a running stream, who is past that of start one that is ready),
`Counts` (a device is open at least for each stream that is not IDLE and has it, and started at least for each that runs;
exactly so when only starts fail) and `Pairs` (the list of active devices). One step works on one stream, so each count follows from
the effect of that step on the stream's own membership (`Effect`, `CountsFrom`, `OneStream`). `Steady` asks for: one client thread per stream; recovery
only against starts, without writes (a stop, close or pause that meets recovery is in section 6); writes without stops
(`writeState` may mark a stopped stream STARTED); no failing device stop with pause (the stopped stream becomes PAUSED); outputs only when nothing but
starts may fail (an input whose start fails keeps the starts it made, so that counts cover but do not equal). Each of these was found by
TLC or by a step that did not go through; PcmSafe has scenarios of each kind that is left.

`StreamsAsAsked` adds what the client of a stream takes it to be once the call it is in returns (`Believed`). Without a loss the
stream fits that at every step (`KeepsAsked`). With one, `Restores` follows the loss through its four phases (nothing lost; the
manager has not heard; it takes the card for lost; it is back: `OneLoss`) and the thread through its walk (`Walks`): in each phase
a stream waits for recovery, is worked at, or was walked over, and is either as `Due` or has that in `cachedState` (`DownOf`, `UpOf`).
The case that needs it all is a start that runs while the card is taken for lost: before recovery has taken the stream down it starts
or is cached, afterwards it is cached, and it cannot be half way when recovery closes the stream, since it holds the mutex.
`Restorable` asks for: no open that hides a failure of its session (section 6), or one loss, after which what recovery calls
succeeds (only stops of devices fail; each stream has a device) and no stream spared in standby. Beyond it the property is false: a second loss,
and the start of a spared stream, are in section 6, and a start that fails in recovery is reported to nobody.

**Other streams.** Assumptions: `ScenariosAssumption` and `NoneAssumption`. One invariant serves the five classes. `Places` says where client, recovery and manager may
stand and where the call they are in returns to (a stop is the client's, a part of its close, a part of recovery's walk down or of the manager's
pause), and what the queue of card events then holds. `HeldBack` is what `SensorKeepsQuiet` needs: the pause flag is set exactly while a use holds the stream back, while it is set the stream runs only until the
manager, which has `mActiveStreamMutex`, has stopped it, and nothing starts what recovery has stopped. `Follows` is the rest, one part per class: counts of devices are those of the one stream
(`UseBy`) and its registration waits at most for the step after start (`DeviceStream`); a non-tunnel stream has one vote exactly while it is started,
as long as the card was not lost; a sensor stream opens and starts together, and the manager that moves it has taken its devices (`SensorMgr`) under the mutexes `SensorLocks` names.
`Ordinary` gives each class the calls its source has. `Orderly` leaves out what section 6 lists or the property does not
cover: a common stream of which one device fails to start stays started in part, a stop that meets recovery runs twice, a sensor stream
whose device does not open keeps none and goes on after a loss or a move without. 
`Asked` is what `StreamIsAsAsked` needs beside them. `believed` is what the client takes the stream to be, the call it is in counted once start has passed
its check, and `Due` the states that fit. A stream recovery does not touch (`Calm`) is due at every step. For one that is taken down, `cachedState` is due from the moment recovery has
looked at it until it is up (`LossyFalls`, `LossyRises`), or the client has paused it meanwhile, which is obeyed at once and which the rest of the walk respects.
A sensor stream (`SensorAsked`) listens, is held back, is about to be let go on, or will be started again by recovery, in the phases where each may be.
`Remembers` leaves out what section 6 lists: a call that fails while recovery makes it is told to nobody, a stop of the client stays in `cachedState`, and a haptics stream
with no device does not start. Each scenario of the run satisfies `Ordinary`, `Orderly` and `Remembers` (of the sensor stream whose device fails to open `AsAsked` itself says nothing).
The theorems add any set of devices, any number of losses and uses, and every mix of failures and calls within these.

**Device switches.** Assumption: `SwitchAssumption` (finitely many streams). `DevInv` holds at every moment: the counters of each device are the numbers of streams
that have a session and the device, and of those that play on it (`Counted`); the list of active devices pairs only players with theirs (`Listed`) and, until a
connection has failed, lacks at most those of streams in the step after their start (`Complete`, `Registered`); each client stands in a state its call can meet (`Places`).
A switch is a composition of streams that leave devices they hold and streams that get devices they do not: `DisconnectRight` and `ConnectRight` count how many of each device do, with the
cardinalities of the library; `SwitchRight` adds what fails in between, for any lists. The counters of `DevicesRight` are therefore right in all five races of section 6; what those break is where
streams are and what is heard. `PausesAreKept` adds `PauseInv`: a stream is paused for its client or for a request, never for both (`Calm`); one paused for a request is in the list of the
request that goes on to resume it (`Held`) and is not about to start. The hypothesis is a bound of the run: a pause in the suspend window is undone by the resume (section 6), and with "pause" in `Overlaps` TLC finds `PauseKept` violated.

**Only model-checked:** liveness (beyond the prover used), `FirstReadAtStart`, `ToldWhenAsked` and `AsAsked` of sound trigger, its `AwakeAsNeeded` with a second stage,
`LeavesQuietly` and `BackWhereAsked` of DeviceSwitch, and everything of StreamACD.

## 6. Where code and documentation disagree

Shown by a run (`PROJECT.json`, findings): TriggerUnlocks. The rest was met while modelling; the runs are
set up so that they do not meet it, by the scenario, bound or guard named or by the property's condition. "(TLC)" marks
what a model with that bound lifted showed.

**Entry points and PCM streams**

- *Two closers of one handle* (`Pal.cpp:334-341`). The handle is looked up under the mutex and used after
  it is released, uncounted; the second closer's `setCachedState` and `close` may work on a deleted stream. `Pal.cpp:341` expects
  "stream is being closed by another client" and handles only the later half. StreamUserCounter has the
  step (`CloseStream`) and no property of it.
- *SCO* (`ResourceManager.cpp:14767`, `14777`). A stream is noted before the status of the increment is looked at and so counted out
  without having been counted in; when `getDeviceConfig` fails `goto exit` skips the decrements and `pal_stream_close` waits for ever,
  where PalApi.h:116 says it returns 0 or an error. Not modelled.
- *Stop leaves a cached state* (`Pal.cpp:497` against `StreamPCM.cpp:1057`): the next write after stop and start takes the stream for lost and drops its data (TLC).
- *Loss during recovery* (`StreamPCM.cpp:1844` against 1811-1813): the cached STARTED is overwritten by the second loss (TLC).
- *Recovery waits for a mutex it owns* (`StreamPCM.cpp:1758` against 388-390): close is called with `mActiveStreamMutex` held and calls stop if a client has started the stream meanwhile (TLC).
- *open fails, returns 0* (`StreamPCM.cpp:310`). The loop that closes the devices overwrites the status of the
  session that failed; PalApi.h:102 says "0 on success, error code otherwise".
- *Pause lost in recovery* (`StreamPCM.cpp:1382`, `1834`). `isPaused` is still TRUE when recovery pauses the stream again,
  so the new session is not paused. No scenario with a loss has a pause.
- *stop does not look again* (`StreamPCM.cpp:715`). Two stops (a client's and recovery's) both pass 704-713.
- *close during recovery* (`StreamPCM.cpp:328`). Between the halves the stream is IDLE or about to be opened; close returns at
  once and the object is deleted with whatever recovery has opened.
- *standby, start, online* (`StreamPCM.cpp:1784`). The flag that spares a stream in standby also skips
  what `start` left to recovery (513-516).
- *Late report* (`StreamPCM.cpp:1092`, `508-510`). A stream that saw ENETRESET checks the card state and then reports; if the
  report reaches the queue after the monitor's ONLINE, `cardState` stays offline with the card up. Only PcmReturns has `netReset`.
- *Full ring looks empty* (`PalRingBuffer.cpp:111` against 96-104). An unread size equal to the ring's becomes 0; `read` returns 0 and the
  writer overwrites the begin of the keyword. `FirstReadAtStart` speaks of bytes still in the ring.
- *reset in two halves* (`PalRingBuffer.cpp:177-181`). A read in between returns bytes of before the reset as new.
- *Buffer written twice* (`SoundTriggerEngineGsl.cpp:325-362`). When the ring has no room, `size` keeps its value and the last buffer
  is written again.

**Compressed streams.** start after stop replaces a joinable worker thread (`SessionAlsaCompress.cpp:1436`);
write registers devices after a stop (`StreamCompress.cpp:738-747`); open returns 0 though the session failed (`SessionAlsaCompress.cpp:868-885`);
without gapless playback a partial drain makes the next DRAIN report at once (DrainReadyMeansDrained is about gapless formats);
a stream closed while OPENED, and a capture whose `compress_start` fails, leave a vote (the ghost `left`); a mute at volume 0 is dropped (`volume.lost`);
a callback that calls PAL during close deadlocks; a stop that meets recovery takes one vote back twice; a failing device
open leaves the devices before it open.

**Sound trigger streams.** A report that looks at the state late unlocks another thread's mutex (run TriggerUnlocks; event "lateCheck").
close joins a second stage's thread with `mStreamMutex` held while that thread, in `handleDeferredSwitch`, waits for it; the
destructor joins the timer thread likewise (TLC; runs with liveness have no delete). The engine's
`detection_state_` is not reset by stop and restart; the thread of a second stage resets `processing_started_` after its report
and loses a detection that came between (TLC; two detections only without second stages). The timer misses a post made before it waits, so the delayed stop never comes (TLC).
The wake lock is given back twice when a rejection is notified and in some disconnects (AwakeAsNeeded excepts the former). `HandleSessionEvent` empties the queue of
detections before it adds one (`SoundTriggerEngineGsl.cpp:1475-1477`): a detection the engine has not taken yet, of before a stop and restart, is dropped and the wake lock taken for it (1413) is never released
(TLC, event "overtake" under AwakeAsNeeded; a step of the proof of `StaysAwakeAsNeeded` did not go through for it). `state_for_restore_` stays ACTIVE when START at ONLINE
fails and is used at the next loss, which then brings a stopped stream back listening (3585-3625); SSR accepts a start of a paused stream (`StreamSoundTrigger.cpp:3672-3687`), which LOADED refuses with -EBUSY
(2267-2272): if the card is back before the resume, that start fails and the stream does not listen though started (TLC; TriggerManager has no pauses); a restart failure in DETECTED or BUFFERING leaves LOADED with the device started (the failures "restart", "open" and "start" of `Stages` are in no configuration);
INTERNAL_RESUME clears a pause of the client's; START in IDLE returns 0;
`forceSwitchSoundTriggerStreams` locks inside an `if` whose scope ends at once (`ResourceManager.cpp:5680`).

**Context detection streams.** STOP while the card is down always fails (`StreamACD.cpp:1921`: a condition `a != x || a != y`), PAUSE and RESUME then are dropped, and CONFIG of a stream that was idle
is accepted and forgotten (1868). RESUME after another stream's change of profile clears a pause of the concurrency's; a stream paused in DETECTED whose client then starts it is ACTIVE and paused, and RESUME
starts its device again only if the engine is inactive (1695, 1733). A second pause, a switch or a loss in that state stops the device twice. START in LOADED notifies although a callback is in progress, and the event is lost;
a close while the notification thread is woken ends in a NULL pointer (`crashed`; 533); an event of before a stop reaches the client after stop and start. DISCONNECT in LOADED closes a device that was never opened, CONNECT there
opens and starts it even when paused; a failed start leaves the device open and UNLOAD in LOADED does not close it. A failed `SetupEngine` leaves its models counted; a failed `HandleMultiStreamLoadUnload` closes the session under the
others. Between the two locked parts of `SetupEngine` another stream may reset the flags that say what to load (`ACDEngine.cpp:1060`); `ReconfigureEngine` takes no mutex (1112); a stream that attaches while `TeardownEngine` joins has its session closed (1160).
close and the loss of the card with the last stream join the event thread with `mStreamMutex` held, which that thread may be waiting for (CallsReturn is about behaviours without detections). Thresholds are never raised again by a
reconfiguration. A failing connect leaves `mDevices` empty, and the next use of its first element is undefined (a switch that fails is not modelled).

**Other streams.** `StreamNonTunnel::close` calls stop with the non-recursive mutex held (183-192; CallsReturn leaves the class out);
its `setParameters` unlocks a mutex it does not hold on a NULL payload (473-504); recovery unvotes a non-tunnel stream that its session unvotes too
(`ResourceManager.cpp:1470-1471`; VoteWhileStarted, a part of DevicesFollow, is about no loss); `SessionAgm::open` leaks its front ends on failure. `StreamInCall::start` unlocks a mutex
it never took (321); a stop of an input that fails leaves STARTED. A start noted while recovery ends is forgotten, since `ssrUp`
always clears `cachedState`, contrary to its comment about a second loss (`StreamCommon.cpp` and the like; bound in `LoseCard`). `pal_stream_stop` sets `cachedState`
STOPPED and start does not reset it, so stop, start, loss is not restored. A failing `start_device` leaves the earlier devices started. A paused sensor stream whose client
stopped it is started by the manager's resume, also while it is being closed (bounds in `MgrMay` and `ClientClose`).

**Device switches.** A start reads `a2dp_suspended` before it marks the suspended ids: a resume in between
leaves the stream muted on the speaker (Overlaps "start"; `Stream.cpp:1267` says the mark is set early because "a2dpResume may happen during this time").
A client's pause in the suspend window is undone by the resume ("pause"); two routes that overlap leave a stream on both devices (TLC, "route": `Stream::switchDevice`
releases both mutexes at 2204-2205 before the switch); the end of a temporary mute unmutes a stream A2DP muted ("mute");
a refused route to Bluetooth leaves a stream on both devices after the resume (TLC, "refused"). A capture stream routed away is moved
back by a resume (BackWhereAsked is about outputs). A failing connection of a stream that does not play stops a device it never
started; `streamDevConnect_l` unlocks a stream's mutex once per pair; `BtA2dp::start` counts itself in and not out on some failures;
an orphan whose restore failed is not tried again.

## 7. Not modelled

`PROJECT.json` gives the status of every component with the reason. In short: payload builders, mixer controls, parsers and the graph library are
data or external; configuration data, plugins and tests have no control of their own. Of the
remaining control, the ASR state machine, SCO reconfiguration, the counters behind low power switches, the sessions of PCM streams with their front ends,
the context manager, the IPC server and speaker protection are not modelled yet. Within
what is modelled: volume, mute, effects, MMAP, EC reference and read of `StreamPCM`; calls that take a handle without
counting themselves in; `waitForBuffers`, `newReader`, `removeReader`, `resizeRingBuffer`; attributes of devices, custom
keys, voice-call switches and SCO devices in device switches; the buffering loop and sound model merging of sound trigger, and a notification that fails before it calls the client
(`StreamSoundTrigger.cpp:1796-1807`); volume and parameters of the other streams, standby, and the path of their start when the session reports -ENETRESET
(`StreamCommon.cpp:401-409`: the devices are stopped, `cachedState` is STARTED, 0 is returned, and start goes on to STARTED and registers the stopped devices).

Hazards that a property covers only in part, beside those with a note in `PROJECT.json`. `StreamAsAsked` tolerates a write that
sets STARTED over a pause (`StreamPCM.cpp:1113`), and no scenario has a stop beside a writer. `VerdictComes` is checked with one second stage in TriggerDetect; that one of two stages stops the
other is in the model (`Rejected`, `Accepted`) and in no run, since a second stage doubles the time of the liveness check. `DeviceFollowsState` of TriggerFaults has no failing open or start of the device and no failing restart of the recognition. TriggerManager has no pauses.
`LeavesQuietly` and `BackWhereAsked` are checked with `Overlaps` empty: starts that read the suspend flag before a request and routes and pauses during one are the
disagreements of section 6 (the counts are proved for all of them). In Acd starts, resumes and recoveries fail, switches do not. `EventsReachClient` has no pauses, stops or losses.

## 8. Plan

Done: user counters with their refinement and proofs; PCM streams, devices and recovery; compressed streams; sound trigger; context detection;
the other stream classes; device switches; the ring buffer with its proofs.

Next: sessions of PCM streams and front ends; speaker protection; context manager;
IPC server; ASR. Proofs: `LeavesQuietly` and `BackWhereAsked` of DeviceSwitch, what StreamACD promises, and
`FirstReadAtStart`.

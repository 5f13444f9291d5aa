--------------------------- MODULE StreamUserCounter ---------------------------
(***************************************************************************)
(* Life time of a PAL stream object.                                       *)
(*                                                                         *)
(* Pal.cpp hands a client a raw Stream pointer as its handle.  What keeps  *)
(* the object alive while a client call or the sound card recovery thread  *)
(* works on it is the pair ResourceManager keeps per stream, a user count  *)
(* and an active flag (mActiveStreamUserCounter), together with the        *)
(* semaphore mInUse of the stream: the first user takes the semaphore, the *)
(* last one returns it, and pal_stream_close clears the flag and waits for *)
(* the semaphore before it deletes the stream.                             *)
(*                                                                         *)
(* A critical section of mActiveStreamMutex that neither blocks nor calls  *)
(* out is one step, guarded by the mutex being free.  The mutex has an     *)
(* owner only where the code blocks or works with it held: in              *)
(* increaseStreamUserCounter, which may wait for the semaphore, and in the *)
(* walk of ssrHandlingLoop over mActiveStreams.                            *)
(*                                                                         *)
(* A stream is named by its address: the address of a deleted stream may   *)
(* be given to a new one.                                                  *)
(***************************************************************************)
EXTENDS Naturals, FiniteSets

CONSTANTS Clients,    \* threads that call the pal_stream_* functions
          Ssr,        \* the thread of ResourceManager::ssrHandlingLoop
          Streams,    \* addresses of stream objects
          NoStream,
          NoThread

Threads == Clients \cup {Ssr}

ASSUME ClientsAssumption == IsFiniteSet(Clients) /\ Ssr \notin Clients
ASSUME NullAssumption == NoStream \notin Streams /\ NoThread \notin Threads

VARIABLES
  alive,               \* the streams whose object exists
  mActiveStreams,      \* the streams registered with the resource manager
  handles,             \* the handles pal_stream_open has returned to clients
  flag,                \* second of the counter pair: "none" without an entry
  count,               \* first of the counter pair
  mInUse,              \* value of the semaphore of the stream
  mActiveStreamMutex,  \* owner of the mutex, or NoThread
  pc,                  \* what each thread does next
  str,                 \* the stream a thread works on
  visited              \* the streams the recovery walk is done with

vars == <<alive, mActiveStreams, handles, flag, count, mInUse,
          mActiveStreamMutex, pc, str, visited>>

ClientPc == {"idle", "open", "openDelete", "initCounter", "incSem", "using",
             "close", "deactivate", "closeWait", "closeErase", "closeDelete"}
SsrPc == {"idle", "walk", "incSem", "handler", "handlerOut", "handlerEnd"}

TypeOK ==
  /\ alive \subseteq Streams
  /\ mActiveStreams \subseteq Streams
  /\ handles \subseteq Streams
  /\ flag \in [Streams -> {"none", "active", "inactive"}]
  /\ count \in [Streams -> Nat]
  /\ mInUse \in [Streams -> Nat]
  /\ mActiveStreamMutex \in Threads \cup {NoThread}
  /\ pc \in [Threads -> ClientPc \cup SsrPc]
  /\ str \in [Threads -> Streams \cup {NoStream}]
  /\ visited \subseteq Streams

Init ==
  /\ alive = {}
  /\ mActiveStreams = {}
  /\ handles = {}
  /\ flag = [s \in Streams |-> "none"]
  /\ count = [s \in Streams |-> 0]
  /\ mInUse = [s \in Streams |-> 0]
  /\ mActiveStreamMutex = NoThread
  /\ pc = [t \in Threads |-> "idle"]
  /\ str = [t \in Threads |-> NoStream]
  /\ visited = {}

MutexFree == mActiveStreamMutex = NoThread
Goto(t, label) == pc' = [pc EXCEPT ![t] = label]
Return(t) == Goto(t, "idle") /\ str' = [str EXCEPT ![t] = NoStream]

-----------------------------------------------------------------------------
(* pal_stream_open.  Stream::create constructs the stream and registers it *)
(* with the resource manager; only when Stream::open has succeeded does    *)
(* the stream get its counter and the client its handle.                   *)

OpenCreate(t, s) ==
  /\ pc[t] = "idle" /\ s \notin alive /\ MutexFree
  /\ alive' = alive \cup {s}
  /\ mActiveStreams' = mActiveStreams \cup {s}
  /\ visited' = visited \ {s}          \* appended behind the walk's position
  /\ str' = [str EXCEPT ![t] = s]
  /\ Goto(t, "open")
  /\ UNCHANGED <<handles, flag, count, mInUse, mActiveStreamMutex>>

OpenEnds(t) ==
  /\ pc[t] = "open"
  /\ \E next \in {"initCounter", "openDelete"} : Goto(t, next)
  /\ UNCHANGED <<alive, mActiveStreams, handles, flag, count, mInUse,
                 mActiveStreamMutex, str, visited>>

\* std::map::insert leaves an entry that exists as it is.
InitStreamUserCounter(t) ==
  /\ pc[t] = "initCounter" /\ MutexFree
  /\ LET s == str[t] IN
       /\ flag' = [flag EXCEPT ![s] = IF @ = "none" THEN "active" ELSE @]
       /\ mInUse' = [mInUse EXCEPT ![s] = 1]
       /\ handles' = handles \cup {s}
  /\ Return(t)
  /\ UNCHANGED <<alive, mActiveStreams, count, mActiveStreamMutex, visited>>

(* The destructor deregisters the stream under the mutex and the object is *)
(* gone; this ends a failed open and a close.                              *)
Delete(t) ==
  /\ pc[t] \in {"openDelete", "closeDelete"} /\ MutexFree
  /\ alive' = alive \ {str[t]}
  /\ mActiveStreams' = mActiveStreams \ {str[t]}
  /\ Return(t)
  /\ UNCHANGED <<handles, flag, count, mInUse, mActiveStreamMutex, visited>>

-----------------------------------------------------------------------------
(* A counted call: pal_stream_start, stop, set_volume, set_mute, drain and *)
(* set_device.  A call on a handle that is no longer registered, or whose  *)
(* counter is missing or inactive, returns -EINVAL and changes nothing.    *)

Countable(s) == s \in mActiveStreams /\ flag[s] = "active"

UseEnter(t, s) ==
  /\ pc[t] = "idle" /\ s \in handles /\ MutexFree /\ Countable(s)
  /\ str' = [str EXCEPT ![t] = s]
  /\ IF count[s] = 0
       THEN /\ mActiveStreamMutex' = t
            /\ Goto(t, "incSem")
            /\ UNCHANGED count
       ELSE /\ count' = [count EXCEPT ![s] = @ + 1]
            /\ Goto(t, "using")
            /\ UNCHANGED mActiveStreamMutex
  /\ UNCHANGED <<alive, mActiveStreams, handles, flag, mInUse, visited>>

\* sem_wait in increaseStreamUserCounter of the first user, with mActiveStreamMutex held.
IncreaseWait(t) ==
  /\ pc[t] = "incSem" /\ mInUse[str[t]] > 0
  /\ mInUse' = [mInUse EXCEPT ![str[t]] = @ - 1]
  /\ count' = [count EXCEPT ![str[t]] = @ + 1]
  /\ IF t = Ssr
       THEN Goto(t, "handler") /\ UNCHANGED mActiveStreamMutex
       ELSE Goto(t, "using") /\ mActiveStreamMutex' = NoThread
  /\ UNCHANGED <<alive, mActiveStreams, handles, flag, str, visited>>

\* Mutant of DecreaseStreamUserCounter: a stream being closed is passed over.
DecreaseActiveOnly(s) ==
  IF flag[s] # "active" \/ count[s] = 0
    THEN UNCHANGED <<count, mInUse>>
    ELSE /\ count' = [count EXCEPT ![s] = @ - 1]
         /\ mInUse' = [mInUse EXCEPT ![s] = IF count[s] = 1 THEN @ + 1 ELSE @]

\* The last user returns the semaphore; a count of 0 is left alone.
DecreaseStreamUserCounter(s) ==
  IF flag[s] = "none" \/ count[s] = 0
    THEN UNCHANGED <<count, mInUse>>
    ELSE /\ count' = [count EXCEPT ![s] = @ - 1]
         /\ mInUse' = [mInUse EXCEPT ![s] = IF count[s] = 1 THEN @ + 1 ELSE @]

UseLeave(t) ==
  /\ pc[t] = "using" /\ MutexFree
  /\ DecreaseStreamUserCounter(str[t])
  /\ Return(t)
  /\ UNCHANGED <<alive, mActiveStreams, handles, flag, mActiveStreamMutex,
                 visited>>

-----------------------------------------------------------------------------
(* pal_stream_close.                                                       *)

\* The handle is looked up under the mutex; Stream::close runs without it.
CloseEnter(t, s) ==
  /\ pc[t] = "idle" /\ s \in handles /\ MutexFree /\ s \in mActiveStreams
  /\ str' = [str EXCEPT ![t] = s]
  /\ Goto(t, "close")
  /\ UNCHANGED <<alive, mActiveStreams, handles, flag, count, mInUse,
                 mActiveStreamMutex, visited>>

\* setCachedState and Stream::close: the object is used, uncounted.
CloseStream(t) ==
  /\ pc[t] = "close"
  /\ Goto(t, "deactivate")
  /\ UNCHANGED <<alive, mActiveStreams, handles, flag, count, mInUse,
                 mActiveStreamMutex, str, visited>>

\* Mutant of DeactivateStreamUserCounter: the flag stays set.
DeactivateKeepsFlag(t) ==
  /\ pc[t] = "deactivate" /\ MutexFree
  /\ IF flag[str[t]] = "active"
       THEN Goto(t, "closeWait") /\ UNCHANGED str
       ELSE Return(t)
  /\ UNCHANGED <<alive, mActiveStreams, handles, flag, count, mInUse,
                 mActiveStreamMutex, visited>>

\* Mutant of DeactivateStreamUserCounter: the flag is not looked at.
DeactivateUnchecked(t) ==
  /\ pc[t] = "deactivate" /\ MutexFree
  /\ flag' = [flag EXCEPT ![str[t]] = "inactive"]
  /\ Goto(t, "closeWait")
  /\ UNCHANGED <<alive, mActiveStreams, handles, count, mInUse,
                 mActiveStreamMutex, str, visited>>

\* Only one closer finds the flag set; any other returns at once.
DeactivateStreamUserCounter(t) ==
  /\ pc[t] = "deactivate" /\ MutexFree
  /\ IF flag[str[t]] = "active"
       THEN /\ flag' = [flag EXCEPT ![str[t]] = "inactive"]
            /\ Goto(t, "closeWait")
            /\ UNCHANGED str
       ELSE Return(t) /\ UNCHANGED flag
  /\ UNCHANGED <<alive, mActiveStreams, handles, count, mInUse,
                 mActiveStreamMutex, visited>>

\* Mutant of CloseWait: sem_wait returns before the semaphore is free.
CloseWaitInterrupted(t) ==
  /\ pc[t] = "closeWait"
  /\ mInUse' = [mInUse EXCEPT ![str[t]] = @ - 1]
  /\ Goto(t, "closeErase")
  /\ UNCHANGED <<alive, mActiveStreams, handles, flag, count,
                 mActiveStreamMutex, str, visited>>

CloseWait(t) ==
  /\ pc[t] = "closeWait" /\ mInUse[str[t]] > 0
  /\ mInUse' = [mInUse EXCEPT ![str[t]] = @ - 1]
  /\ Goto(t, "closeErase")
  /\ UNCHANGED <<alive, mActiveStreams, handles, flag, count,
                 mActiveStreamMutex, str, visited>>

\* Mutant of EraseStreamUserCounter: the entry stays.
EraseForgotten(t) ==
  /\ pc[t] = "closeErase" /\ MutexFree
  /\ Goto(t, "closeDelete")
  /\ UNCHANGED <<alive, mActiveStreams, handles, flag, count, mInUse,
                 mActiveStreamMutex, str, visited>>

EraseStreamUserCounter(t) ==
  /\ pc[t] = "closeErase" /\ MutexFree
  /\ flag' = [flag EXCEPT ![str[t]] = "none"]
  /\ count' = [count EXCEPT ![str[t]] = 0]
  /\ Goto(t, "closeDelete")
  /\ UNCHANGED <<alive, mActiveStreams, handles, mInUse, mActiveStreamMutex,
                 str, visited>>

-----------------------------------------------------------------------------
(* The walk of ssrHandlingLoop over mActiveStreams, with the mutex held.   *)
(* A handler may give the mutex up while it stops or starts the stream;    *)
(* the walk then goes on from the list node of that stream.                *)

SsrBegin ==
  /\ pc[Ssr] = "idle" /\ MutexFree
  /\ mActiveStreamMutex' = Ssr
  /\ visited' = {}
  /\ Goto(Ssr, "walk")
  /\ UNCHANGED <<alive, mActiveStreams, handles, flag, count, mInUse, str>>

\* Mutant of SsrNextStream: recovery does not count itself in.
SsrUncounted(s) ==
  /\ pc[Ssr] = "walk" /\ s \in mActiveStreams \ visited
  /\ str' = [str EXCEPT ![Ssr] = s]
  /\ Goto(Ssr, "handler")
  /\ UNCHANGED <<alive, mActiveStreams, handles, flag, count, mInUse,
                 mActiveStreamMutex, visited>>

\* A stream without an active counter is passed over.
SsrNextStream(s) ==
  /\ pc[Ssr] = "walk" /\ s \in mActiveStreams \ visited
  /\ IF flag[s] # "active"
       THEN /\ visited' = visited \cup {s}
            /\ UNCHANGED <<count, pc, str>>
       ELSE /\ str' = [str EXCEPT ![Ssr] = s]
            /\ IF count[s] = 0
                 THEN Goto(Ssr, "incSem") /\ UNCHANGED count
                 ELSE /\ count' = [count EXCEPT ![s] = @ + 1]
                      /\ Goto(Ssr, "handler")
            /\ UNCHANGED visited
  /\ UNCHANGED <<alive, mActiveStreams, handles, flag, mInUse,
                 mActiveStreamMutex>>

\* A handler that keeps the mutex goes straight to its end.
SsrHandler ==
  /\ pc[Ssr] = "handler"
  /\ \/ Goto(Ssr, "handlerEnd") /\ UNCHANGED mActiveStreamMutex
     \/ Goto(Ssr, "handlerOut") /\ mActiveStreamMutex' = NoThread
  /\ UNCHANGED <<alive, mActiveStreams, handles, flag, count, mInUse, str,
                 visited>>

SsrHandlerRelock ==
  /\ pc[Ssr] = "handlerOut" /\ MutexFree
  /\ mActiveStreamMutex' = Ssr
  /\ Goto(Ssr, "handlerEnd")
  /\ UNCHANGED <<alive, mActiveStreams, handles, flag, count, mInUse, str,
                 visited>>

SsrDecrease ==
  /\ pc[Ssr] = "handlerEnd"
  /\ DecreaseStreamUserCounter(str[Ssr])
  /\ visited' = visited \cup {str[Ssr]}
  /\ Goto(Ssr, "walk")
  /\ str' = [str EXCEPT ![Ssr] = NoStream]
  /\ UNCHANGED <<alive, mActiveStreams, handles, flag, mActiveStreamMutex>>

SsrEnd ==
  /\ pc[Ssr] = "walk" /\ mActiveStreams \subseteq visited
  /\ mActiveStreamMutex' = NoThread
  /\ Goto(Ssr, "idle")
  /\ UNCHANGED <<alive, mActiveStreams, handles, flag, count, mInUse, str,
                 visited>>

-----------------------------------------------------------------------------
\* The steps that carry a call a client has made to its end.
ClientStep(t) ==
  \/ OpenEnds(t) \/ InitStreamUserCounter(t) \/ Delete(t)
  \/ IncreaseWait(t) \/ UseLeave(t)
  \/ CloseStream(t) \/ DeactivateStreamUserCounter(t) \/ CloseWait(t)
  \/ EraseStreamUserCounter(t)

SsrStep ==
  \/ IncreaseWait(Ssr) \/ SsrHandler \/ SsrHandlerRelock \/ SsrDecrease
  \/ SsrEnd
  \/ \E s \in Streams : SsrNextStream(s)

Next ==
  \/ \E t \in Clients : \/ ClientStep(t)
                        \/ \E s \in Streams : \/ OpenCreate(t, s)
                                              \/ UseEnter(t, s)
                                              \/ CloseEnter(t, s)
  \/ SsrBegin \/ SsrStep

(* A call ends when its thread gets the mutex in turn, which a mutex with  *)
(* short sections grants in the end, and when the semaphore is returned.   *)
Fairness == (\A t \in Clients : SF_vars(ClientStep(t))) /\ SF_vars(SsrStep)

Spec == Init /\ [][Next]_vars
FairSpec == Spec /\ Fairness

-----------------------------------------------------------------------------
UserPc == {"using", "handler", "handlerOut", "handlerEnd"}
Users(s) == {t \in Threads : pc[t] \in UserPc /\ str[t] = s}

(* While a counted call or a recovery handler works on a stream, the       *)
(* object exists and is still registered, whoever closes it meanwhile.     *)
UsersKeepStreamAlive ==
  \A t \in Threads : pc[t] \in UserPc =>
    str[t] \in alive /\ str[t] \in mActiveStreams

(* increaseStreamUserCounter is called with mActiveStreamMutex held and    *)
(* may wait for the stream's semaphore: it never finds it taken, which     *)
(* would stop every other API call and the user that has to return it.     *)
NeverBlocksHoldingMutex ==
  \A t \in Threads : pc[t] = "incSem" => mInUse[str[t]] > 0

(* A closer that has been let past the semaphore is alone with the stream: *)
(* nobody uses it and no other closer got as far.                          *)
CloserIsAlone ==
  \A t \in Clients : pc[t] \in {"closeErase", "closeDelete"} =>
    /\ Users(str[t]) = {}
    /\ \A u \in Clients \ {t} :
         str[u] = str[t] => pc[u] \in {"close", "deactivate"}

(* A stream that has just got its counter is usable: the entry is active,  *)
(* whatever happened to an earlier stream at the same address.             *)
FreshCounterUsable ==
  [][\A t \in Clients : pc[t] = "initCounter" /\ pc'[t] = "idle" =>
       flag'[str[t]] = "active" /\ count'[str[t]] = 0]_vars

(* A closer that waits for the users of the stream gets through.           *)
CloseCompletes == \A t \in Clients : pc[t] = "closeWait" ~> pc[t] = "idle"

(* The counter, the flag and the semaphore give streams the life that      *)
(* StreamLifetime describes: whoever is counted in came while the stream   *)
(* was published, and the object is destroyed only when all have left.     *)
Lifetime == INSTANCE StreamLifetime WITH
  published <- {s \in Streams : flag[s] = "active"},
  users <- [s \in Streams |-> Users(s)]
KeepsLifetime == Lifetime!Spec
=============================================================================

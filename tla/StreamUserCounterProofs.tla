------------------------ MODULE StreamUserCounterProofs ------------------------
(***************************************************************************)
(* Proofs about StreamUserCounter: for every finite set of clients and     *)
(* every set of streams, a counted user keeps its stream, the increment    *)
(* never blocks with mActiveStreamMutex held, a closer past the semaphore  *)
(* is alone, and the protocol implements the life of StreamLifetime.       *)
(***************************************************************************)
EXTENDS StreamUserCounter, FiniteSetTheorems, TLAPS

OwnerPc == {"open", "openDelete", "initCounter",
            "closeWait", "closeErase", "closeDelete"}

(* The program counters fit the kind of thread, and a thread works on a    *)
(* stream exactly while it is in a call.                                   *)
PcInv ==
  /\ \A t \in Clients : pc[t] \in ClientPc
  /\ pc[Ssr] \in SsrPc
  /\ \A t \in Threads :
       IF pc[t] \in {"idle", "walk"} THEN str[t] = NoStream ELSE str[t] \in Streams

(* Who waits in increaseStreamUserCounter owns the mutex, so that the      *)
(* counter it has read is still what it was.                               *)
LockInv ==
  /\ \A t \in Threads : pc[t] = "incSem" =>
       /\ mActiveStreamMutex = t
       /\ flag[str[t]] = "active"
       /\ count[str[t]] = 0
  /\ pc[Ssr] \in {"walk", "handler", "handlerEnd"} => mActiveStreamMutex = Ssr

CountInv == \A s \in Streams : count[s] = Cardinality(Users(s))

(* A counter exists only for a registered stream that exists.              *)
FlagInv ==
  \A s \in Streams :
    /\ flag[s] # "none" => s \in alive /\ s \in mActiveStreams
    /\ flag[s] = "none" => count[s] = 0

(* The semaphore is taken exactly while the stream is in use, until a      *)
(* closer takes it for good.                                               *)
SemInv ==
  /\ \A s \in Streams :
       flag[s] # "none" /\ (\A t \in Threads : pc[t] = "closeErase" => str[t] # s)
         => mInUse[s] = IF count[s] = 0 THEN 1 ELSE 0
  /\ \A t \in Threads : pc[t] = "closeErase" => count[str[t]] = 0

(* The thread that opens a stream, or that the flag has picked to close    *)
(* it, is the only one of its kind.                                        *)
OwnerInv ==
  /\ \A t \in Threads :
       /\ pc[t] \in {"open", "openDelete", "initCounter", "closeDelete"} =>
            /\ str[t] \in alive
            /\ str[t] \in mActiveStreams
            /\ flag[str[t]] = "none"
       /\ pc[t] \in {"closeWait", "closeErase"} => flag[str[t]] = "inactive"
  /\ \A t, u \in Threads :
       pc[t] \in OwnerPc /\ pc[u] \in OwnerPc /\ str[t] = str[u] => t = u

IInv == TypeOK /\ PcInv /\ LockInv /\ CountInv /\ FlagInv /\ SemInv /\ OwnerInv

-----------------------------------------------------------------------------
(* A thread is a client or the recovery thread; there are finitely many,   *)
(* so the users of a stream can be counted.                                *)
LEMMA ThreadsFinite == IsFiniteSet(Threads)
BY ClientsAssumption, FS_AddElement DEF Threads

LEMMA UsersFinite == ASSUME NEW s PROVE IsFiniteSet(Users(s))
<1>1. Users(s) \subseteq Threads
  BY DEF Users
<1>. QED  BY <1>1, ThreadsFinite, FS_Subset

(* The count of a stream is 0 exactly when nobody uses it.                 *)
LEMMA ZeroCount ==
  ASSUME CountInv, NEW s \in Streams
  PROVE  (count[s] = 0) <=> (Users(s) = {})
BY UsersFinite, FS_EmptySet DEF CountInv

(* A thread that becomes a user, or ceases to be one, changes the number   *)
(* of the users of its stream by one.                                      *)
LEMMA UserEnters ==
  ASSUME TypeOK, CountInv, NEW t \in Threads, NEW s \in Streams,
         t \notin Users(s),
         count' = [count EXCEPT ![s] = @ + 1],
         \A x \in Streams :
           Users(x)' = IF x = s THEN Users(x) \cup {t} ELSE Users(x)
  PROVE  CountInv'
<1>1. Cardinality(Users(s) \cup {t}) = Cardinality(Users(s)) + 1
  BY UsersFinite, FS_AddElement
<1>2. ASSUME NEW x \in Streams
      PROVE  count'[x] = Cardinality(Users(x)')
  BY <1>1 DEF CountInv, TypeOK
<1>. QED  BY <1>2 DEF CountInv

LEMMA UserLeaves ==
  ASSUME TypeOK, CountInv, NEW t \in Threads, NEW s \in Streams,
         t \in Users(s), count[s] # 0,
         count' = [count EXCEPT ![s] = @ - 1],
         \A x \in Streams :
           Users(x)' = IF x = s THEN Users(x) \ {t} ELSE Users(x)
  PROVE  CountInv'
<1>1. Cardinality(Users(s) \ {t}) = Cardinality(Users(s)) - 1
  BY UsersFinite, FS_RemoveElement
<1>2. ASSUME NEW x \in Streams
      PROVE  count'[x] = Cardinality(Users(x)')
  BY <1>1 DEF CountInv, TypeOK
<1>. QED  BY <1>2 DEF CountInv

LEMMA InitIInv == Init => IInv
<1>. SUFFICES ASSUME Init PROVE IInv
  OBVIOUS
<1>1. \A s \in Streams : Users(s) = {}
  BY DEF Init, Users, UserPc
<1>2. CountInv
  BY <1>1, FS_EmptySet DEF CountInv, Init
<1>3. TypeOK
  BY DEF TypeOK, Init, ClientPc, SsrPc
<1>4. PcInv
  BY DEF PcInv, Init, ClientPc, SsrPc, Threads
<1>5. LockInv /\ FlagInv /\ SemInv
  BY DEF LockInv, FlagInv, SemInv, Init, Threads
<1>6. OwnerInv
  BY DEF OwnerInv, OwnerPc, Init
<1>. QED  BY <1>2, <1>3, <1>4, <1>5, <1>6 DEF IInv

LEMMA OpenCreateStep ==
  ASSUME IInv, NEW t \in Clients, NEW s \in Streams, OpenCreate(t, s)
  PROVE  IInv'
<1>. USE ClientsAssumption, NullAssumption DEF IInv
<1>1. TypeOK'
  BY DEF OpenCreate, Goto, TypeOK, PcInv, ClientPc, SsrPc, Threads
<1>2. PcInv'
  BY DEF OpenCreate, Goto, TypeOK, PcInv, ClientPc, SsrPc, Threads
<1>3. LockInv'
  BY DEF OpenCreate, Goto, TypeOK, PcInv, LockInv, OwnerInv, Threads
<1>4. CountInv'
  <2>1. \A x \in Streams : Users(x)' = Users(x)
    BY DEF OpenCreate, Goto, Users, UserPc, TypeOK, PcInv, Threads
  <2>. QED  BY <2>1 DEF OpenCreate, CountInv
<1>5. FlagInv'
  BY DEF OpenCreate, Goto, TypeOK, PcInv, LockInv, FlagInv, OwnerInv, Threads
<1>6. SemInv'
  BY DEF OpenCreate, Goto, TypeOK, PcInv, LockInv, FlagInv, SemInv, OwnerInv, Threads
<1>7. OwnerInv'
  BY DEF OpenCreate, Goto, TypeOK, PcInv, OwnerInv, OwnerPc, FlagInv, Threads
<1>. QED  BY <1>1, <1>2, <1>3, <1>4, <1>5, <1>6, <1>7

LEMMA OpenEndsStep ==
  ASSUME IInv, NEW t \in Clients, OpenEnds(t)
  PROVE  IInv'
<1>. USE ClientsAssumption, NullAssumption DEF IInv
<1>1. TypeOK'
  BY DEF OpenEnds, Goto, TypeOK, PcInv, ClientPc, SsrPc, Threads
<1>2. PcInv'
  BY DEF OpenEnds, Goto, TypeOK, PcInv, ClientPc, SsrPc, Threads
<1>3. LockInv'
  BY DEF OpenEnds, Goto, TypeOK, PcInv, LockInv, OwnerInv, Threads
<1>4. CountInv'
  <2>1. \A x \in Streams : Users(x)' = Users(x)
    BY DEF OpenEnds, Goto, Users, UserPc, TypeOK, PcInv, Threads
  <2>. QED  BY <2>1 DEF OpenEnds, CountInv
<1>5. FlagInv'
  BY DEF OpenEnds, Goto, TypeOK, PcInv, LockInv, FlagInv, OwnerInv, Threads
<1>6. SemInv'
  BY DEF OpenEnds, Goto, TypeOK, PcInv, LockInv, FlagInv, SemInv, OwnerInv, Threads
<1>7. OwnerInv'
  BY DEF OpenEnds, Goto, TypeOK, PcInv, OwnerInv, OwnerPc, FlagInv, Threads
<1>. QED  BY <1>1, <1>2, <1>3, <1>4, <1>5, <1>6, <1>7

LEMMA InitStreamUserCounterStep ==
  ASSUME IInv, NEW t \in Clients, InitStreamUserCounter(t)
  PROVE  IInv'
<1>. USE ClientsAssumption, NullAssumption DEF IInv
<1>1. TypeOK'
  BY DEF InitStreamUserCounter, Return, Goto, TypeOK, PcInv, ClientPc, SsrPc, Threads
<1>2. PcInv'
  BY DEF InitStreamUserCounter, Return, Goto, TypeOK, PcInv, ClientPc, SsrPc, Threads
<1>3. LockInv'
  BY DEF InitStreamUserCounter, Return, Goto, TypeOK, PcInv, LockInv, OwnerInv, Threads
<1>4. CountInv'
  <2>1. \A x \in Streams : Users(x)' = Users(x)
    BY DEF InitStreamUserCounter, Return, Goto, Users, UserPc, TypeOK, PcInv, Threads
  <2>. QED  BY <2>1 DEF InitStreamUserCounter, CountInv
<1>5. FlagInv'
  BY DEF InitStreamUserCounter, Return, Goto, TypeOK, PcInv, LockInv, FlagInv, OwnerInv, Threads
<1>6. SemInv'
  BY DEF InitStreamUserCounter, Return, Goto, TypeOK, PcInv, LockInv, FlagInv, SemInv, OwnerInv, Threads
<1>7. OwnerInv'
  BY DEF InitStreamUserCounter, Return, Goto, TypeOK, PcInv, OwnerInv, OwnerPc, FlagInv, Threads
<1>. QED  BY <1>1, <1>2, <1>3, <1>4, <1>5, <1>6, <1>7

LEMMA DeleteStep ==
  ASSUME IInv, NEW t \in Clients, Delete(t)
  PROVE  IInv'
<1>. USE ClientsAssumption, NullAssumption DEF IInv
<1>1. TypeOK'
  BY DEF Delete, Return, Goto, TypeOK, PcInv, ClientPc, SsrPc, Threads
<1>2. PcInv'
  BY DEF Delete, Return, Goto, TypeOK, PcInv, ClientPc, SsrPc, Threads
<1>3. LockInv'
  BY DEF Delete, Return, Goto, TypeOK, PcInv, LockInv, OwnerInv, Threads
<1>4. CountInv'
  <2>1. \A x \in Streams : Users(x)' = Users(x)
    BY DEF Delete, Return, Goto, Users, UserPc, TypeOK, PcInv, Threads
  <2>. QED  BY <2>1 DEF Delete, CountInv
<1>5. FlagInv'
  BY DEF Delete, Return, Goto, TypeOK, PcInv, LockInv, FlagInv, OwnerInv, Threads
<1>6. SemInv'
  BY DEF Delete, Return, Goto, TypeOK, PcInv, LockInv, FlagInv, SemInv, OwnerInv, Threads
<1>7. OwnerInv'
  BY DEF Delete, Return, Goto, TypeOK, PcInv, OwnerInv, OwnerPc, FlagInv, Threads
<1>. QED  BY <1>1, <1>2, <1>3, <1>4, <1>5, <1>6, <1>7

LEMMA UseEnterStep ==
  ASSUME IInv, NEW t \in Clients, NEW s \in Streams, UseEnter(t, s)
  PROVE  IInv'
<1>. USE ClientsAssumption, NullAssumption DEF IInv
<1>1. TypeOK'
  BY DEF UseEnter, Countable, MutexFree, Goto, TypeOK, PcInv, ClientPc, SsrPc, Threads
<1>2. PcInv'
  BY DEF UseEnter, Countable, MutexFree, Goto, TypeOK, PcInv, ClientPc, SsrPc, Threads
<1>3. LockInv'
  BY DEF UseEnter, Countable, MutexFree, Goto, TypeOK, PcInv, LockInv, OwnerInv, Threads
<1>4. CountInv'
  <2>1. CASE count[s] = 0
    <3>1. \A x \in Streams : Users(x)' = Users(x)
      BY <2>1 DEF UseEnter, Countable, MutexFree, Goto, Users, UserPc, TypeOK, PcInv, Threads
    <3>. QED  BY <2>1, <3>1 DEF UseEnter, CountInv
  <2>2. CASE ~(count[s] = 0)
    <3>1. t \notin Users(s) /\ t \in Threads
      BY DEF UseEnter, Users, UserPc, Threads
    <3>2. \A x \in Streams : Users(x)' = IF x = s THEN Users(x) \cup {t} ELSE Users(x)
      BY <2>2 DEF UseEnter, Countable, MutexFree, Goto, Users, UserPc, TypeOK, PcInv, Threads
    <3>. QED  BY <2>2, <3>1, <3>2, UserEnters DEF UseEnter
  <2>. QED  BY <2>1, <2>2
<1>5. FlagInv'
  BY DEF UseEnter, Countable, MutexFree, Goto, TypeOK, PcInv, LockInv, FlagInv, OwnerInv, Threads
<1>6. SemInv'
  BY DEF UseEnter, Countable, MutexFree, Goto, TypeOK, PcInv, LockInv, FlagInv, SemInv, OwnerInv, Threads
<1>7. OwnerInv'
  BY DEF UseEnter, Countable, MutexFree, Goto, TypeOK, PcInv, OwnerInv, OwnerPc, FlagInv, Threads
<1>. QED  BY <1>1, <1>2, <1>3, <1>4, <1>5, <1>6, <1>7

LEMMA IncreaseWaitStep ==
  ASSUME IInv, NEW t \in Threads, IncreaseWait(t)
  PROVE  IInv'
<1>. USE ClientsAssumption, NullAssumption DEF IInv
<1>1. TypeOK'
  BY DEF IncreaseWait, Goto, TypeOK, PcInv, ClientPc, SsrPc, Threads
<1>2. PcInv'
  BY DEF IncreaseWait, Goto, TypeOK, PcInv, ClientPc, SsrPc, Threads
<1>3. LockInv'
  BY DEF IncreaseWait, Goto, TypeOK, PcInv, LockInv, OwnerInv, Threads
<1>4. CountInv'
  <2>1. t \notin Users(str[t])
    BY DEF IncreaseWait, Users, UserPc
  <2>2. \A x \in Streams : Users(x)' = IF x = str[t] THEN Users(x) \cup {t} ELSE Users(x)
    BY DEF IncreaseWait, Goto, Users, UserPc, TypeOK, PcInv, Threads
  <2>3. str[t] \in Streams
    BY DEF IncreaseWait, PcInv
  <2>. QED  BY <2>1, <2>2, <2>3, UserEnters DEF IncreaseWait
<1>5. FlagInv'
  BY DEF IncreaseWait, Goto, TypeOK, PcInv, LockInv, FlagInv, OwnerInv, Threads
<1>6. SemInv'
  BY DEF IncreaseWait, Goto, TypeOK, PcInv, LockInv, FlagInv, SemInv, OwnerInv, Threads
<1>7. OwnerInv'
  BY DEF IncreaseWait, Goto, TypeOK, PcInv, OwnerInv, OwnerPc, FlagInv, Threads
<1>. QED  BY <1>1, <1>2, <1>3, <1>4, <1>5, <1>6, <1>7

LEMMA UseLeaveStep ==
  ASSUME IInv, NEW t \in Clients, UseLeave(t)
  PROVE  IInv'
<1>. USE ClientsAssumption, NullAssumption DEF IInv
<1>1. TypeOK'
  BY DEF UseLeave, DecreaseStreamUserCounter, Return, MutexFree, Goto, TypeOK, PcInv, ClientPc, SsrPc, Threads
<1>2. PcInv'
  BY DEF UseLeave, DecreaseStreamUserCounter, Return, MutexFree, Goto, TypeOK, PcInv, ClientPc, SsrPc, Threads
<1>3. LockInv'
  BY DEF UseLeave, DecreaseStreamUserCounter, Return, MutexFree, Goto, TypeOK, PcInv, LockInv, OwnerInv, Threads
<1>4. CountInv'
  <2>1. t \in Users(str[t]) /\ str[t] \in Streams /\ t \in Threads
    BY DEF UseLeave, Users, UserPc, TypeOK, PcInv, Threads
  <2>2. count[str[t]] # 0
    BY <2>1, ZeroCount
  <2>3. flag[str[t]] # "none"
    BY <2>1, <2>2 DEF FlagInv
  <2>4. count' = [count EXCEPT ![str[t]] = @ - 1]
    BY <2>2, <2>3 DEF UseLeave, DecreaseStreamUserCounter
  <2>5. \A x \in Streams : Users(x)' = IF x = str[t] THEN Users(x) \ {t} ELSE Users(x)
    BY <2>1 DEF UseLeave, DecreaseStreamUserCounter, Return, MutexFree, Goto, Users, UserPc, TypeOK, PcInv, Threads
  <2>. QED  BY <2>1, <2>2, <2>4, <2>5, UserLeaves
<1>5. FlagInv'
  BY DEF UseLeave, DecreaseStreamUserCounter, Return, MutexFree, Goto, TypeOK, PcInv, LockInv, FlagInv, OwnerInv, Threads
<1>6. SemInv'
  BY DEF UseLeave, DecreaseStreamUserCounter, Return, MutexFree, Goto, TypeOK, PcInv, LockInv, FlagInv, SemInv, OwnerInv, Threads
<1>7. OwnerInv'
  BY DEF UseLeave, DecreaseStreamUserCounter, Return, MutexFree, Goto, TypeOK, PcInv, OwnerInv, OwnerPc, FlagInv, Threads
<1>. QED  BY <1>1, <1>2, <1>3, <1>4, <1>5, <1>6, <1>7

LEMMA CloseEnterStep ==
  ASSUME IInv, NEW t \in Clients, NEW s \in Streams, CloseEnter(t, s)
  PROVE  IInv'
<1>. USE ClientsAssumption, NullAssumption DEF IInv
<1>1. TypeOK'
  BY DEF CloseEnter, Goto, TypeOK, PcInv, ClientPc, SsrPc, Threads
<1>2. PcInv'
  BY DEF CloseEnter, Goto, TypeOK, PcInv, ClientPc, SsrPc, Threads
<1>3. LockInv'
  BY DEF CloseEnter, Goto, TypeOK, PcInv, LockInv, OwnerInv, Threads
<1>4. CountInv'
  <2>1. \A x \in Streams : Users(x)' = Users(x)
    BY DEF CloseEnter, Goto, Users, UserPc, TypeOK, PcInv, Threads
  <2>. QED  BY <2>1 DEF CloseEnter, CountInv
<1>5. FlagInv'
  BY DEF CloseEnter, Goto, TypeOK, PcInv, LockInv, FlagInv, OwnerInv, Threads
<1>6. SemInv'
  BY DEF CloseEnter, Goto, TypeOK, PcInv, LockInv, FlagInv, SemInv, OwnerInv, Threads
<1>7. OwnerInv'
  BY DEF CloseEnter, Goto, TypeOK, PcInv, OwnerInv, OwnerPc, FlagInv, Threads
<1>. QED  BY <1>1, <1>2, <1>3, <1>4, <1>5, <1>6, <1>7

LEMMA CloseStreamStep ==
  ASSUME IInv, NEW t \in Clients, CloseStream(t)
  PROVE  IInv'
<1>. USE ClientsAssumption, NullAssumption DEF IInv
<1>1. TypeOK'
  BY DEF CloseStream, Goto, TypeOK, PcInv, ClientPc, SsrPc, Threads
<1>2. PcInv'
  BY DEF CloseStream, Goto, TypeOK, PcInv, ClientPc, SsrPc, Threads
<1>3. LockInv'
  BY DEF CloseStream, Goto, TypeOK, PcInv, LockInv, OwnerInv, Threads
<1>4. CountInv'
  <2>1. \A x \in Streams : Users(x)' = Users(x)
    BY DEF CloseStream, Goto, Users, UserPc, TypeOK, PcInv, Threads
  <2>. QED  BY <2>1 DEF CloseStream, CountInv
<1>5. FlagInv'
  BY DEF CloseStream, Goto, TypeOK, PcInv, LockInv, FlagInv, OwnerInv, Threads
<1>6. SemInv'
  BY DEF CloseStream, Goto, TypeOK, PcInv, LockInv, FlagInv, SemInv, OwnerInv, Threads
<1>7. OwnerInv'
  BY DEF CloseStream, Goto, TypeOK, PcInv, OwnerInv, OwnerPc, FlagInv, Threads
<1>. QED  BY <1>1, <1>2, <1>3, <1>4, <1>5, <1>6, <1>7

LEMMA DeactivateStreamUserCounterStep ==
  ASSUME IInv, NEW t \in Clients, DeactivateStreamUserCounter(t)
  PROVE  IInv'
<1>. USE ClientsAssumption, NullAssumption DEF IInv
<1>1. TypeOK'
  BY DEF DeactivateStreamUserCounter, MutexFree, Return, Goto, TypeOK, PcInv, ClientPc, SsrPc, Threads
<1>2. PcInv'
  BY DEF DeactivateStreamUserCounter, MutexFree, Return, Goto, TypeOK, PcInv, ClientPc, SsrPc, Threads
<1>3. LockInv'
  BY DEF DeactivateStreamUserCounter, MutexFree, Return, Goto, TypeOK, PcInv, LockInv, OwnerInv, Threads
<1>4. CountInv'
  <2>1. \A x \in Streams : Users(x)' = Users(x)
    BY DEF DeactivateStreamUserCounter, MutexFree, Return, Goto, Users, UserPc, TypeOK, PcInv, Threads
  <2>. QED  BY <2>1 DEF DeactivateStreamUserCounter, CountInv
<1>5. FlagInv'
  BY DEF DeactivateStreamUserCounter, MutexFree, Return, Goto, TypeOK, PcInv, LockInv, FlagInv, OwnerInv, Threads
<1>6. SemInv'
  BY DEF DeactivateStreamUserCounter, MutexFree, Return, Goto, TypeOK, PcInv, LockInv, FlagInv, SemInv, OwnerInv, Threads
<1>7. OwnerInv'
  BY DEF DeactivateStreamUserCounter, MutexFree, Return, Goto, TypeOK, PcInv, OwnerInv, OwnerPc, FlagInv, Threads
<1>. QED  BY <1>1, <1>2, <1>3, <1>4, <1>5, <1>6, <1>7

LEMMA CloseWaitStep ==
  ASSUME IInv, NEW t \in Clients, CloseWait(t)
  PROVE  IInv'
<1>. USE ClientsAssumption, NullAssumption DEF IInv
<1>1. TypeOK'
  BY DEF CloseWait, Goto, TypeOK, PcInv, ClientPc, SsrPc, Threads
<1>2. PcInv'
  BY DEF CloseWait, Goto, TypeOK, PcInv, ClientPc, SsrPc, Threads
<1>3. LockInv'
  BY DEF CloseWait, Goto, TypeOK, PcInv, LockInv, OwnerInv, Threads
<1>4. CountInv'
  <2>1. \A x \in Streams : Users(x)' = Users(x)
    BY DEF CloseWait, Goto, Users, UserPc, TypeOK, PcInv, Threads
  <2>. QED  BY <2>1 DEF CloseWait, CountInv
<1>5. FlagInv'
  BY DEF CloseWait, Goto, TypeOK, PcInv, LockInv, FlagInv, OwnerInv, Threads
<1>6. SemInv'
  BY DEF CloseWait, Goto, TypeOK, PcInv, LockInv, FlagInv, SemInv, OwnerInv, Threads
<1>7. OwnerInv'
  BY DEF CloseWait, Goto, TypeOK, PcInv, OwnerInv, OwnerPc, FlagInv, Threads
<1>. QED  BY <1>1, <1>2, <1>3, <1>4, <1>5, <1>6, <1>7

LEMMA EraseStreamUserCounterStep ==
  ASSUME IInv, NEW t \in Clients, EraseStreamUserCounter(t)
  PROVE  IInv'
<1>. USE ClientsAssumption, NullAssumption DEF IInv
<1>1. TypeOK'
  BY DEF EraseStreamUserCounter, Goto, TypeOK, PcInv, ClientPc, SsrPc, Threads
<1>2. PcInv'
  BY DEF EraseStreamUserCounter, Goto, TypeOK, PcInv, ClientPc, SsrPc, Threads
<1>3. LockInv'
  BY DEF EraseStreamUserCounter, Goto, TypeOK, PcInv, LockInv, OwnerInv, Threads
<1>4. CountInv'
  <2>1. \A x \in Streams : Users(x)' = Users(x)
    BY DEF EraseStreamUserCounter, Goto, Users, UserPc, TypeOK, PcInv, Threads
  <2>2. count' = count
    BY DEF EraseStreamUserCounter, SemInv, TypeOK, Threads
  <2>. QED  BY <2>1, <2>2 DEF CountInv
<1>5. FlagInv'
  BY DEF EraseStreamUserCounter, Goto, TypeOK, PcInv, LockInv, FlagInv, OwnerInv, Threads
<1>6. SemInv'
  BY DEF EraseStreamUserCounter, Goto, TypeOK, PcInv, LockInv, FlagInv, SemInv, OwnerInv, Threads
<1>7. OwnerInv'
  BY DEF EraseStreamUserCounter, Goto, TypeOK, PcInv, OwnerInv, OwnerPc, FlagInv, Threads
<1>. QED  BY <1>1, <1>2, <1>3, <1>4, <1>5, <1>6, <1>7

LEMMA SsrBeginStep ==
  ASSUME IInv, SsrBegin
  PROVE  IInv'
<1>. USE ClientsAssumption, NullAssumption DEF IInv
<1>1. TypeOK'
  BY DEF SsrBegin, MutexFree, Goto, TypeOK, PcInv, ClientPc, SsrPc, Threads
<1>2. PcInv'
  BY DEF SsrBegin, MutexFree, Goto, TypeOK, PcInv, ClientPc, SsrPc, Threads
<1>3. LockInv'
  BY DEF SsrBegin, MutexFree, Goto, TypeOK, PcInv, LockInv, OwnerInv, Threads
<1>4. CountInv'
  <2>1. \A x \in Streams : Users(x)' = Users(x)
    BY DEF SsrBegin, MutexFree, Goto, Users, UserPc, TypeOK, PcInv, Threads
  <2>. QED  BY <2>1 DEF SsrBegin, CountInv
<1>5. FlagInv'
  BY DEF SsrBegin, MutexFree, Goto, TypeOK, PcInv, LockInv, FlagInv, OwnerInv, Threads
<1>6. SemInv'
  BY DEF SsrBegin, MutexFree, Goto, TypeOK, PcInv, LockInv, FlagInv, SemInv, OwnerInv, Threads
<1>7. OwnerInv'
  BY DEF SsrBegin, MutexFree, Goto, TypeOK, PcInv, OwnerInv, OwnerPc, FlagInv, Threads
<1>. QED  BY <1>1, <1>2, <1>3, <1>4, <1>5, <1>6, <1>7

LEMMA SsrNextStreamStep ==
  ASSUME IInv, NEW s \in Streams, SsrNextStream(s)
  PROVE  IInv'
<1>. USE ClientsAssumption, NullAssumption DEF IInv
<1>1. TypeOK'
  BY DEF SsrNextStream, Goto, TypeOK, PcInv, ClientPc, SsrPc, Threads
<1>2. PcInv'
  BY DEF SsrNextStream, Goto, TypeOK, PcInv, ClientPc, SsrPc, Threads
<1>3. LockInv'
  BY DEF SsrNextStream, Goto, TypeOK, PcInv, LockInv, OwnerInv, Threads
<1>4. CountInv'
  <2>1. CASE flag[s] # "active" \/ count[s] = 0
    <3>1. \A x \in Streams : Users(x)' = Users(x)
      BY <2>1 DEF SsrNextStream, Goto, Users, UserPc, TypeOK, PcInv, Threads
    <3>. QED  BY <2>1, <3>1 DEF SsrNextStream, CountInv
  <2>2. CASE ~(flag[s] # "active" \/ count[s] = 0)
    <3>1. Ssr \notin Users(s) /\ Ssr \in Threads
      BY DEF SsrNextStream, Users, UserPc, Threads
    <3>2. \A x \in Streams : Users(x)' = IF x = s THEN Users(x) \cup {Ssr} ELSE Users(x)
      BY <2>2 DEF SsrNextStream, Goto, Users, UserPc, TypeOK, PcInv, Threads
    <3>. QED  BY <2>2, <3>1, <3>2, UserEnters DEF SsrNextStream
  <2>. QED  BY <2>1, <2>2
<1>5. FlagInv'
  BY DEF SsrNextStream, Goto, TypeOK, PcInv, LockInv, FlagInv, OwnerInv, Threads
<1>6. SemInv'
  BY DEF SsrNextStream, Goto, TypeOK, PcInv, LockInv, FlagInv, SemInv, OwnerInv, Threads
<1>7. OwnerInv'
  BY DEF SsrNextStream, Goto, TypeOK, PcInv, OwnerInv, OwnerPc, FlagInv, Threads
<1>. QED  BY <1>1, <1>2, <1>3, <1>4, <1>5, <1>6, <1>7

LEMMA SsrHandlerStep ==
  ASSUME IInv, SsrHandler
  PROVE  IInv'
<1>. USE ClientsAssumption, NullAssumption DEF IInv
<1>1. TypeOK'
  BY DEF SsrHandler, Goto, TypeOK, PcInv, ClientPc, SsrPc, Threads
<1>2. PcInv'
  BY DEF SsrHandler, Goto, TypeOK, PcInv, ClientPc, SsrPc, Threads
<1>3. LockInv'
  BY DEF SsrHandler, Goto, TypeOK, PcInv, LockInv, OwnerInv, Threads
<1>4. CountInv'
  <2>1. \A x \in Streams : Users(x)' = Users(x)
    BY DEF SsrHandler, Goto, Users, UserPc, TypeOK, PcInv, Threads
  <2>. QED  BY <2>1 DEF SsrHandler, CountInv
<1>5. FlagInv'
  BY DEF SsrHandler, Goto, TypeOK, PcInv, LockInv, FlagInv, OwnerInv, Threads
<1>6. SemInv'
  BY DEF SsrHandler, Goto, TypeOK, PcInv, LockInv, FlagInv, SemInv, OwnerInv, Threads
<1>7. OwnerInv'
  BY DEF SsrHandler, Goto, TypeOK, PcInv, OwnerInv, OwnerPc, FlagInv, Threads
<1>. QED  BY <1>1, <1>2, <1>3, <1>4, <1>5, <1>6, <1>7

LEMMA SsrHandlerRelockStep ==
  ASSUME IInv, SsrHandlerRelock
  PROVE  IInv'
<1>. USE ClientsAssumption, NullAssumption DEF IInv
<1>1. TypeOK'
  BY DEF SsrHandlerRelock, MutexFree, Goto, TypeOK, PcInv, ClientPc, SsrPc, Threads
<1>2. PcInv'
  BY DEF SsrHandlerRelock, MutexFree, Goto, TypeOK, PcInv, ClientPc, SsrPc, Threads
<1>3. LockInv'
  BY DEF SsrHandlerRelock, MutexFree, Goto, TypeOK, PcInv, LockInv, OwnerInv, Threads
<1>4. CountInv'
  <2>1. \A x \in Streams : Users(x)' = Users(x)
    BY DEF SsrHandlerRelock, MutexFree, Goto, Users, UserPc, TypeOK, PcInv, Threads
  <2>. QED  BY <2>1 DEF SsrHandlerRelock, CountInv
<1>5. FlagInv'
  BY DEF SsrHandlerRelock, MutexFree, Goto, TypeOK, PcInv, LockInv, FlagInv, OwnerInv, Threads
<1>6. SemInv'
  BY DEF SsrHandlerRelock, MutexFree, Goto, TypeOK, PcInv, LockInv, FlagInv, SemInv, OwnerInv, Threads
<1>7. OwnerInv'
  BY DEF SsrHandlerRelock, MutexFree, Goto, TypeOK, PcInv, OwnerInv, OwnerPc, FlagInv, Threads
<1>. QED  BY <1>1, <1>2, <1>3, <1>4, <1>5, <1>6, <1>7

LEMMA SsrDecreaseStep ==
  ASSUME IInv, SsrDecrease
  PROVE  IInv'
<1>. USE ClientsAssumption, NullAssumption DEF IInv
<1>1. TypeOK'
  BY DEF SsrDecrease, DecreaseStreamUserCounter, Goto, TypeOK, PcInv, ClientPc, SsrPc, Threads
<1>2. PcInv'
  BY DEF SsrDecrease, DecreaseStreamUserCounter, Goto, TypeOK, PcInv, ClientPc, SsrPc, Threads
<1>3. LockInv'
  BY DEF SsrDecrease, DecreaseStreamUserCounter, Goto, TypeOK, PcInv, LockInv, OwnerInv, Threads
<1>4. CountInv'
  <2>1. Ssr \in Users(str[Ssr]) /\ str[Ssr] \in Streams /\ Ssr \in Threads
    BY DEF SsrDecrease, Users, UserPc, TypeOK, PcInv, Threads
  <2>2. count[str[Ssr]] # 0
    BY <2>1, ZeroCount
  <2>3. flag[str[Ssr]] # "none"
    BY <2>1, <2>2 DEF FlagInv
  <2>4. count' = [count EXCEPT ![str[Ssr]] = @ - 1]
    BY <2>2, <2>3 DEF SsrDecrease, DecreaseStreamUserCounter
  <2>5. \A x \in Streams : Users(x)' = IF x = str[Ssr] THEN Users(x) \ {Ssr} ELSE Users(x)
    BY <2>1 DEF SsrDecrease, DecreaseStreamUserCounter, Goto, Users, UserPc, TypeOK, PcInv, Threads
  <2>. QED  BY <2>1, <2>2, <2>4, <2>5, UserLeaves
<1>5. FlagInv'
  BY DEF SsrDecrease, DecreaseStreamUserCounter, Goto, TypeOK, PcInv, LockInv, FlagInv, OwnerInv, Threads
<1>6. SemInv'
  BY DEF SsrDecrease, DecreaseStreamUserCounter, Goto, TypeOK, PcInv, LockInv, FlagInv, SemInv, OwnerInv, Threads
<1>7. OwnerInv'
  BY DEF SsrDecrease, DecreaseStreamUserCounter, Goto, TypeOK, PcInv, OwnerInv, OwnerPc, FlagInv, Threads
<1>. QED  BY <1>1, <1>2, <1>3, <1>4, <1>5, <1>6, <1>7

LEMMA SsrEndStep ==
  ASSUME IInv, SsrEnd
  PROVE  IInv'
<1>. USE ClientsAssumption, NullAssumption DEF IInv
<1>1. TypeOK'
  BY DEF SsrEnd, Goto, TypeOK, PcInv, ClientPc, SsrPc, Threads
<1>2. PcInv'
  BY DEF SsrEnd, Goto, TypeOK, PcInv, ClientPc, SsrPc, Threads
<1>3. LockInv'
  BY DEF SsrEnd, Goto, TypeOK, PcInv, LockInv, OwnerInv, Threads
<1>4. CountInv'
  <2>1. \A x \in Streams : Users(x)' = Users(x)
    BY DEF SsrEnd, Goto, Users, UserPc, TypeOK, PcInv, Threads
  <2>. QED  BY <2>1 DEF SsrEnd, CountInv
<1>5. FlagInv'
  BY DEF SsrEnd, Goto, TypeOK, PcInv, LockInv, FlagInv, OwnerInv, Threads
<1>6. SemInv'
  BY DEF SsrEnd, Goto, TypeOK, PcInv, LockInv, FlagInv, SemInv, OwnerInv, Threads
<1>7. OwnerInv'
  BY DEF SsrEnd, Goto, TypeOK, PcInv, OwnerInv, OwnerPc, FlagInv, Threads
<1>. QED  BY <1>1, <1>2, <1>3, <1>4, <1>5, <1>6, <1>7

LEMMA NextIInv == IInv /\ [Next]_vars => IInv'
<1>. SUFFICES ASSUME IInv, [Next]_vars PROVE IInv'
  OBVIOUS
<1>1. CASE UNCHANGED vars
  BY <1>1 DEF vars, IInv, TypeOK, PcInv, LockInv, CountInv, FlagInv, SemInv,
              OwnerInv, Users
<1>2. ASSUME NEW t \in Clients, ClientStep(t) PROVE IInv'
  BY <1>2, OpenEndsStep, InitStreamUserCounterStep, DeleteStep,
     IncreaseWaitStep, UseLeaveStep, CloseStreamStep,
     DeactivateStreamUserCounterStep, CloseWaitStep,
     EraseStreamUserCounterStep DEF ClientStep, Threads
<1>3. ASSUME SsrStep PROVE IInv'
  BY <1>3, IncreaseWaitStep, SsrNextStreamStep, SsrHandlerStep,
     SsrHandlerRelockStep, SsrDecreaseStep, SsrEndStep DEF SsrStep, Threads
<1>. QED
  BY <1>1, <1>2, <1>3, OpenCreateStep, UseEnterStep, CloseEnterStep,
     SsrBeginStep DEF Next

-----------------------------------------------------------------------------
(* Every reachable state satisfies the inductive invariant; in particular  *)
(* the variables keep their types.                                         *)
THEOREM Inductive == Spec => []IInv
<1>. QED  BY InitIInv, NextIInv, PTL DEF Spec

THEOREM TypeCorrect == Spec => []TypeOK
<1>1. IInv => TypeOK
  BY DEF IInv
<1>. QED  BY <1>1, Inductive, PTL

(* A stream under a counted call, or in the hands of the recovery walk,    *)
(* exists and is registered, for any number of clients and streams.        *)
THEOREM UsersAreSafe == Spec => []UsersKeepStreamAlive
<1>1. IInv => UsersKeepStreamAlive
  <2>. SUFFICES ASSUME IInv, NEW t \in Threads, pc[t] \in UserPc
                PROVE  str[t] \in alive /\ str[t] \in mActiveStreams
    BY DEF UsersKeepStreamAlive
  <2>1. str[t] \in Streams /\ t \in Users(str[t])
    BY DEF IInv, PcInv, Users, UserPc
  <2>2. count[str[t]] # 0
    BY <2>1, ZeroCount DEF IInv
  <2>. QED  BY <2>1, <2>2 DEF IInv, FlagInv
<1>. QED  BY <1>1, Inductive, PTL

(* The wait for the semaphore with mActiveStreamMutex held never blocks.   *)
THEOREM IncrementNeverBlocks == Spec => []NeverBlocksHoldingMutex
<1>1. IInv => NeverBlocksHoldingMutex
  <2>. SUFFICES ASSUME IInv, NEW t \in Threads, pc[t] = "incSem"
                PROVE  mInUse[str[t]] > 0
    BY DEF NeverBlocksHoldingMutex
  <2>1. str[t] \in Streams /\ flag[str[t]] = "active" /\ count[str[t]] = 0
    BY DEF IInv, PcInv, LockInv
  <2>2. \A u \in Threads : pc[u] = "closeErase" => str[u] # str[t]
    BY <2>1 DEF IInv, OwnerInv
  <2>. QED  BY <2>1, <2>2 DEF IInv, SemInv
<1>. QED  BY <1>1, Inductive, PTL

(* A closer past the semaphore has the stream to itself.                   *)
THEOREM CloserHasStreamAlone == Spec => []CloserIsAlone
<1>1. IInv => CloserIsAlone
  <2>. SUFFICES ASSUME IInv, NEW t \in Clients,
                       pc[t] \in {"closeErase", "closeDelete"}
                PROVE  /\ Users(str[t]) = {}
                       /\ \A u \in Clients \ {t} :
                            str[u] = str[t] => pc[u] \in {"close", "deactivate"}
    BY DEF CloserIsAlone
  <2>1. t \in Threads /\ str[t] \in Streams
    BY DEF IInv, PcInv, Threads
  <2>2. count[str[t]] = 0
    BY <2>1 DEF IInv, SemInv, OwnerInv, FlagInv
  <2>3. Users(str[t]) = {}
    BY <2>1, <2>2, ZeroCount DEF IInv
  <2>4. ASSUME NEW u \in Clients \ {t}, str[u] = str[t]
        PROVE  pc[u] \in {"close", "deactivate"}
    <3>1. u \in Threads /\ pc[u] \in ClientPc
      BY DEF IInv, PcInv, Threads
    <3>2. pc[u] \notin OwnerPc
      BY <2>1, <2>4, <3>1 DEF IInv, OwnerInv, OwnerPc
    <3>3. pc[u] # "using"
      BY <2>3, <2>4, <3>1 DEF Users, UserPc
    <3>4. pc[u] # "incSem"
      BY <2>1, <2>4, <3>1 DEF IInv, LockInv, OwnerInv
    <3>5. pc[u] # "idle"
      BY <2>1, <2>4, <3>1, NullAssumption DEF IInv, PcInv
    <3>. QED  BY <3>1, <3>2, <3>3, <3>4, <3>5 DEF ClientPc, OwnerPc
  <2>. QED  BY <2>3, <2>4
<1>. QED  BY <1>1, Inductive, PTL

(* A stream leaves pal_stream_open with a fresh and active counter.        *)
THEOREM FreshCounters == Spec => FreshCounterUsable
<1>. DEFINE Fresh(t) == flag'[str[t]] = "active" /\ count'[str[t]] = 0
<1>1. ASSUME IInv, [Next]_vars, NEW t \in Clients,
             pc[t] = "initCounter", pc'[t] = "idle"
      PROVE  Fresh(t)
  <2>. USE <1>1
  <2>1. InitStreamUserCounter(t)
    <3>1. t \in Threads /\ t # Ssr /\ pc \in [Threads -> ClientPc \cup SsrPc]
      BY ClientsAssumption DEF Threads, IInv, TypeOK
    <3>2. SsrBegin \/ SsrStep => FALSE
      BY <3>1 DEF SsrBegin, SsrStep, IncreaseWait, SsrNextStream, SsrHandler,
                  SsrHandlerRelock, SsrDecrease, SsrEnd, Goto
    <3>3. \A u \in Clients, s \in Streams :
            OpenCreate(u, s) \/ UseEnter(u, s) \/ CloseEnter(u, s) => FALSE
      BY <3>1 DEF OpenCreate, UseEnter, CloseEnter, Goto
    <3>4. ASSUME NEW u \in Clients, ClientStep(u), u # t
          PROVE  FALSE
      BY <3>1, <3>4 DEF ClientStep, OpenEnds, InitStreamUserCounter, Delete,
           IncreaseWait, UseLeave, CloseStream, DeactivateStreamUserCounter,
           CloseWait, EraseStreamUserCounter, Goto, Return
    <3>5. ClientStep(t) => InitStreamUserCounter(t)
      BY <3>1 DEF ClientStep, OpenEnds, Delete, IncreaseWait, UseLeave,
           CloseStream, DeactivateStreamUserCounter, CloseWait,
           EraseStreamUserCounter
    <3>6. ~ UNCHANGED vars
      BY DEF vars
    <3>. QED  BY <3>2, <3>3, <3>4, <3>5, <3>6 DEF Next
  <2>2. t \in Threads /\ str[t] \in Streams /\ flag[str[t]] = "none"
    BY DEF IInv, PcInv, OwnerInv, Threads
  <2>3. count[str[t]] = 0
    BY <2>2 DEF IInv, FlagInv
  <2>. QED  BY <2>1, <2>2, <2>3 DEF InitStreamUserCounter, IInv, TypeOK
<1>2. IInv /\ [Next]_vars =>
        [\A t \in Clients : pc[t] = "initCounter" /\ pc'[t] = "idle" =>
           flag'[str[t]] = "active" /\ count'[str[t]] = 0]_vars
  BY <1>1
<1>. QED  BY <1>2, Inductive, PTL DEF Spec, FreshCounterUsable

-----------------------------------------------------------------------------
(* StreamUserCounter implements StreamLifetime: every step of a call or of *)
(* the recovery walk creates, publishes, enters, leaves, retires or        *)
(* destroys a stream, or changes nothing a client can see.                 *)

LifetimeStep == [Lifetime!Next]_(Lifetime!vars)

\* The counters of the streams stay active or inactive as they are.
SameUsers == \A x \in Streams : Users(x)' = Users(x)
SamePublished ==
  \A x \in Streams : flag'[x] = "active" <=> flag[x] = "active"

LEMMA StreamSteps ==
  ASSUME NEW s \in Streams,
         \/ Lifetime!Create(s) \/ Lifetime!Publish(s)
         \/ Lifetime!Retire(s) \/ Lifetime!Destroy(s)
  PROVE  LifetimeStep
BY DEF LifetimeStep, Lifetime!Next

(* What makes a step invisible: the same objects, active counters, users.  *)
LEMMA Stutter ==
  ASSUME alive' = alive, SamePublished, SameUsers
  PROVE  LifetimeStep
BY DEF LifetimeStep, SamePublished, SameUsers, Lifetime!vars

LEMMA Entering ==
  ASSUME alive' = alive, flag' = flag, NEW t \in Threads, NEW s \in Streams,
         flag[s] = "active", t \notin Users(s),
         \A x \in Streams :
           Users(x)' = IF x = s THEN Users(x) \cup {t} ELSE Users(x)
  PROVE  LifetimeStep
<1>1. Lifetime!Enter(t, s)
  BY DEF Lifetime!Enter
<1>. QED  BY <1>1 DEF LifetimeStep, Lifetime!Next, Threads

LEMMA Leaving ==
  ASSUME alive' = alive, flag' = flag, NEW t \in Threads, NEW s \in Streams,
         t \in Users(s),
         \A x \in Streams :
           Users(x)' = IF x = s THEN Users(x) \ {t} ELSE Users(x)
  PROVE  LifetimeStep
<1>1. Lifetime!Leave(t, s)
  BY DEF Lifetime!Leave
<1>. QED  BY <1>1 DEF LifetimeStep, Lifetime!Next, Threads

-----------------------------------------------------------------------------
(* Steps inside a call that nobody outside can see.                        *)

LEMMA OpenEndsMaps ==
  ASSUME IInv, NEW t \in Clients, OpenEnds(t)
  PROVE  LifetimeStep
<1>1. SameUsers
  BY ClientsAssumption, NullAssumption
  DEF SameUsers, OpenEnds,
      Goto, Return, Users, UserPc, IInv, TypeOK, PcInv, Threads
<1>2. alive' = alive /\ SamePublished
  BY DEF OpenEnds, SamePublished
<1>. QED  BY <1>1, <1>2, Stutter

LEMMA CloseEnterMaps ==
  ASSUME IInv, NEW t \in Clients, NEW s \in Streams, CloseEnter(t, s)
  PROVE  LifetimeStep
<1>1. SameUsers
  BY ClientsAssumption, NullAssumption
  DEF SameUsers, CloseEnter,
      Goto, Return, Users, UserPc, IInv, TypeOK, PcInv, Threads
<1>2. alive' = alive /\ SamePublished
  BY DEF CloseEnter, SamePublished
<1>. QED  BY <1>1, <1>2, Stutter

LEMMA CloseStreamMaps ==
  ASSUME IInv, NEW t \in Clients, CloseStream(t)
  PROVE  LifetimeStep
<1>1. SameUsers
  BY ClientsAssumption, NullAssumption
  DEF SameUsers, CloseStream,
      Goto, Return, Users, UserPc, IInv, TypeOK, PcInv, Threads
<1>2. alive' = alive /\ SamePublished
  BY DEF CloseStream, SamePublished
<1>. QED  BY <1>1, <1>2, Stutter

LEMMA CloseWaitMaps ==
  ASSUME IInv, NEW t \in Clients, CloseWait(t)
  PROVE  LifetimeStep
<1>1. SameUsers
  BY ClientsAssumption, NullAssumption
  DEF SameUsers, CloseWait,
      Goto, Return, Users, UserPc, IInv, TypeOK, PcInv, Threads
<1>2. alive' = alive /\ SamePublished
  BY DEF CloseWait, SamePublished
<1>. QED  BY <1>1, <1>2, Stutter

LEMMA EraseStreamUserCounterMaps ==
  ASSUME IInv, NEW t \in Clients, EraseStreamUserCounter(t)
  PROVE  LifetimeStep
<1>1. SameUsers
  BY ClientsAssumption, NullAssumption
  DEF SameUsers, EraseStreamUserCounter,
      Goto, Return, Users, UserPc, IInv, TypeOK, PcInv, Threads
<1>2. alive' = alive /\ SamePublished
  BY DEF EraseStreamUserCounter, SamePublished, IInv, TypeOK, OwnerInv, PcInv,
         Threads
<1>. QED  BY <1>1, <1>2, Stutter

LEMMA SsrBeginMaps ==
  ASSUME IInv, SsrBegin
  PROVE  LifetimeStep
<1>1. SameUsers
  BY ClientsAssumption, NullAssumption
  DEF SameUsers, SsrBegin,
      Goto, Return, Users, UserPc, IInv, TypeOK, PcInv, Threads
<1>2. alive' = alive /\ SamePublished
  BY DEF SsrBegin, SamePublished
<1>. QED  BY <1>1, <1>2, Stutter

LEMMA SsrHandlerMaps ==
  ASSUME IInv, SsrHandler
  PROVE  LifetimeStep
<1>1. SameUsers
  BY ClientsAssumption, NullAssumption
  DEF SameUsers, SsrHandler,
      Goto, Return, Users, UserPc, IInv, TypeOK, PcInv, Threads
<1>2. alive' = alive /\ SamePublished
  BY DEF SsrHandler, SamePublished
<1>. QED  BY <1>1, <1>2, Stutter

LEMMA SsrHandlerRelockMaps ==
  ASSUME IInv, SsrHandlerRelock
  PROVE  LifetimeStep
<1>1. SameUsers
  BY ClientsAssumption, NullAssumption
  DEF SameUsers, SsrHandlerRelock,
      Goto, Return, Users, UserPc, IInv, TypeOK, PcInv, Threads
<1>2. alive' = alive /\ SamePublished
  BY DEF SsrHandlerRelock, SamePublished
<1>. QED  BY <1>1, <1>2, Stutter

LEMMA SsrEndMaps ==
  ASSUME IInv, SsrEnd
  PROVE  LifetimeStep
<1>1. SameUsers
  BY ClientsAssumption, NullAssumption
  DEF SameUsers, SsrEnd,
      Goto, Return, Users, UserPc, IInv, TypeOK, PcInv, Threads
<1>2. alive' = alive /\ SamePublished
  BY DEF SsrEnd, SamePublished
<1>. QED  BY <1>1, <1>2, Stutter

-----------------------------------------------------------------------------
(* Steps that create, publish, retire or destroy a stream.                 *)

LEMMA OpenCreateMaps ==
  ASSUME IInv, NEW t \in Clients, NEW s \in Streams, OpenCreate(t, s)
  PROVE  LifetimeStep
<1>1. SameUsers
  BY ClientsAssumption, NullAssumption
  DEF SameUsers, OpenCreate,
      Goto, Return, Users, UserPc, IInv, TypeOK, PcInv, Threads
<1>2. Lifetime!Create(s)
  BY <1>1 DEF Lifetime!Create, OpenCreate, SameUsers
<1>. QED  BY <1>2, StreamSteps

LEMMA InitStreamUserCounterMaps ==
  ASSUME IInv, NEW t \in Clients, InitStreamUserCounter(t)
  PROVE  LifetimeStep
<1>1. SameUsers
  BY ClientsAssumption, NullAssumption
  DEF SameUsers, InitStreamUserCounter,
      Goto, Return, Users, UserPc, IInv, TypeOK, PcInv, Threads
<1>2. PICK s \in Streams : s = str[t] /\ s \in alive /\ flag[s] = "none"
  BY DEF InitStreamUserCounter, IInv, PcInv, OwnerInv, Threads
<1>3. /\ alive' = alive
      /\ \A x \in Streams :
           flag'[x] = "active" <=> flag[x] = "active" \/ x = s
  BY <1>2 DEF InitStreamUserCounter, IInv, TypeOK
<1>4. Lifetime!Publish(s)
  BY <1>1, <1>2, <1>3 DEF Lifetime!Publish, SameUsers
<1>. QED  BY <1>2, <1>4, StreamSteps

LEMMA DeactivateStreamUserCounterMaps ==
  ASSUME IInv, NEW t \in Clients, DeactivateStreamUserCounter(t)
  PROVE  LifetimeStep
<1>1. SameUsers
  BY ClientsAssumption, NullAssumption
  DEF SameUsers, DeactivateStreamUserCounter,
      Goto, Return, Users, UserPc, IInv, TypeOK, PcInv, Threads
<1>2. PICK s \in Streams : s = str[t]
  BY DEF DeactivateStreamUserCounter, IInv, PcInv, Threads
<1>3. CASE flag[s] = "active"
  <2>1. /\ alive' = alive
        /\ \A x \in Streams :
             flag'[x] = "active" <=> flag[x] = "active" /\ x # s
    BY <1>2, <1>3 DEF DeactivateStreamUserCounter, IInv, TypeOK
  <2>2. Lifetime!Retire(s)
    BY <1>1, <1>2, <1>3, <2>1 DEF Lifetime!Retire, SameUsers
  <2>. QED  BY <1>2, <2>2, StreamSteps
<1>4. CASE flag[s] # "active"
  BY <1>1, <1>2, <1>4, Stutter DEF DeactivateStreamUserCounter, SamePublished
<1>. QED  BY <1>3, <1>4

(* The object goes when nobody uses it: no counter means nobody counted.   *)
LEMMA DeleteMaps ==
  ASSUME IInv, NEW t \in Clients, Delete(t)
  PROVE  LifetimeStep
<1>1. SameUsers
  BY ClientsAssumption, NullAssumption
  DEF SameUsers, Delete,
      Goto, Return, Users, UserPc, IInv, TypeOK, PcInv, Threads
<1>2. PICK s \in Streams : s = str[t] /\ s \in alive /\ flag[s] = "none"
  BY DEF Delete, IInv, PcInv, OwnerInv, Threads
<1>3. Users(s) = {}
  BY <1>2, ZeroCount DEF IInv, FlagInv
<1>4. Lifetime!Destroy(s)
  BY <1>1, <1>2, <1>3 DEF Lifetime!Destroy, Delete, SameUsers
<1>. QED  BY <1>2, <1>4, StreamSteps

-----------------------------------------------------------------------------
(* Steps by which a thread enters or leaves a stream.                      *)

LEMMA UseEnterMaps ==
  ASSUME IInv, NEW t \in Clients, NEW s \in Streams, UseEnter(t, s)
  PROVE  LifetimeStep
<1>1. t \in Threads /\ t \notin Users(s) /\ flag[s] = "active"
  BY DEF UseEnter, Countable, Users, UserPc, Threads
<1>2. CASE count[s] = 0
  <2>1. SameUsers
    BY <1>2, ClientsAssumption, NullAssumption
    DEF SameUsers, UseEnter,
        Goto, Return, Users, UserPc, IInv, TypeOK, PcInv, Threads
  <2>. QED  BY <2>1, Stutter DEF UseEnter, SamePublished
<1>3. CASE count[s] # 0
  <2>1. \A x \in Streams :
          Users(x)' = IF x = s THEN Users(x) \cup {t} ELSE Users(x)
    BY <1>3, ClientsAssumption, NullAssumption
    DEF UseEnter,
        Goto, Return, Users, UserPc, IInv, TypeOK, PcInv, Threads
  <2>. QED  BY <1>1, <2>1, Entering DEF UseEnter
<1>. QED  BY <1>2, <1>3

LEMMA IncreaseWaitMaps ==
  ASSUME IInv, NEW t \in Threads, IncreaseWait(t)
  PROVE  LifetimeStep
<1>1. /\ str[t] \in Streams
      /\ t \notin Users(str[t])
      /\ flag[str[t]] = "active"
  BY DEF IncreaseWait, Users, UserPc, IInv, PcInv, LockInv
<1>2. \A x \in Streams :
        Users(x)' = IF x = str[t] THEN Users(x) \cup {t} ELSE Users(x)
  BY <1>1, ClientsAssumption, NullAssumption
  DEF IncreaseWait,
      Goto, Return, Users, UserPc, IInv, TypeOK, PcInv, Threads
<1>. QED  BY <1>1, <1>2, Entering DEF IncreaseWait

LEMMA UseLeaveMaps ==
  ASSUME IInv, NEW t \in Clients, UseLeave(t)
  PROVE  LifetimeStep
<1>1. t \in Threads /\ str[t] \in Streams /\ t \in Users(str[t])
  BY DEF UseLeave, Users, UserPc, IInv, PcInv, Threads
<1>2. \A x \in Streams :
        Users(x)' = IF x = str[t] THEN Users(x) \ {t} ELSE Users(x)
  BY <1>1, ClientsAssumption, NullAssumption
  DEF UseLeave,
      Goto, Return, Users, UserPc, IInv, TypeOK, PcInv, Threads
<1>. QED  BY <1>1, <1>2, Leaving DEF UseLeave

LEMMA SsrNextStreamMaps ==
  ASSUME IInv, NEW s \in Streams, SsrNextStream(s)
  PROVE  LifetimeStep
<1>1. Ssr \in Threads /\ Ssr \notin Users(s)
  BY DEF SsrNextStream, Users, UserPc, Threads
<1>2. CASE flag[s] = "active" /\ count[s] # 0
  <2>1. \A x \in Streams :
          Users(x)' = IF x = s THEN Users(x) \cup {Ssr} ELSE Users(x)
    BY <1>2, ClientsAssumption, NullAssumption
    DEF SsrNextStream,
        Goto, Return, Users, UserPc, IInv, TypeOK, PcInv, Threads
  <2>. QED  BY <1>1, <1>2, <2>1, Entering DEF SsrNextStream
<1>3. CASE flag[s] # "active" \/ count[s] = 0
  <2>1. SameUsers
    BY <1>3, ClientsAssumption, NullAssumption
    DEF SameUsers, SsrNextStream,
        Goto, Return, Users, UserPc, IInv, TypeOK, PcInv, Threads
  <2>. QED  BY <2>1, Stutter DEF SsrNextStream, SamePublished
<1>. QED  BY <1>2, <1>3

LEMMA SsrDecreaseMaps ==
  ASSUME IInv, SsrDecrease
  PROVE  LifetimeStep
<1>1. Ssr \in Threads /\ str[Ssr] \in Streams /\ Ssr \in Users(str[Ssr])
  BY DEF SsrDecrease, Users, UserPc, IInv, PcInv, Threads
<1>2. \A x \in Streams :
        Users(x)' = IF x = str[Ssr] THEN Users(x) \ {Ssr} ELSE Users(x)
  BY <1>1, ClientsAssumption, NullAssumption
  DEF SsrDecrease,
      Goto, Return, Users, UserPc, IInv, TypeOK, PcInv, Threads
<1>. QED  BY <1>1, <1>2, Leaving DEF SsrDecrease

-----------------------------------------------------------------------------
(* The detailed life of a stream is the promised one.                      *)
THEOREM ImplementsLifetime == Spec => KeepsLifetime
<1>1. Init => Lifetime!Init
  BY DEF Init, Lifetime!Init, Users, UserPc
<1>2. IInv /\ [Next]_vars => LifetimeStep
  <2>. SUFFICES ASSUME IInv, [Next]_vars PROVE LifetimeStep
    OBVIOUS
  <2>1. ASSUME NEW t \in Clients, ClientStep(t) PROVE LifetimeStep
    BY <2>1, OpenEndsMaps, InitStreamUserCounterMaps, DeleteMaps,
       IncreaseWaitMaps, UseLeaveMaps, CloseStreamMaps,
       DeactivateStreamUserCounterMaps, CloseWaitMaps,
       EraseStreamUserCounterMaps
    DEF ClientStep, Threads
  <2>2. ASSUME SsrStep PROVE LifetimeStep
    BY <2>2, IncreaseWaitMaps, SsrHandlerMaps, SsrHandlerRelockMaps,
       SsrDecreaseMaps, SsrEndMaps, SsrNextStreamMaps
    DEF SsrStep, Threads
  <2>3. ASSUME UNCHANGED vars PROVE LifetimeStep
    BY <2>3, Stutter DEF vars, SamePublished, SameUsers, Users
  <2>. QED  BY <2>1, <2>2, <2>3, OpenCreateMaps, UseEnterMaps, CloseEnterMaps,
              SsrBeginMaps DEF Next
<1>3. Init /\ [][Next]_vars /\ []IInv => Lifetime!Spec
  BY <1>1, <1>2, PTL DEF LifetimeStep, Lifetime!Spec
<1>. QED  BY <1>3, Inductive, PTL DEF Spec, KeepsLifetime
=============================================================================

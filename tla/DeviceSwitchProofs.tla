-------------------------- MODULE DeviceSwitchProofs --------------------------
(***************************************************************************)
(* Whatever is moved behind the back of its clients, the counts and the    *)
(* list of active devices stay right.                                      *)
(***************************************************************************)
EXTENDS DeviceSwitch, FiniteSetTheorems, TLAPS

States == {"gone", "IDLE", "INIT", "STARTED", "PAUSED", "STOPPED"}
StreamType ==
  [state : States, dev : SUBSET Devices, susp : SUBSET (Devices \cup {"none"}),
   a2dpMuted : BOOLEAN, quiet : BOOLEAN, isPaused : BOOLEAN, a2dpPaused : BOOLEAN,
   asked : SUBSET Devices, agreed : SUBSET Devices, askedPause : BOOLEAN]
Pairs == Streams \X Devices
ListsType == [disc : SUBSET Pairs, conn : SUBSET Pairs]

\* The streams with a session that hold a device, and those that play on it.
InSession(state) == state \notin {"gone", "IDLE"}
Holders(x, d) == {s \in Streams : InSession(x[s].state) /\ d \in x[s].dev}
Players(x, d) == {s \in Streams : Live(x[s].state) /\ d \in x[s].dev}

\* The counters u and the list r of active devices are those of the streams x.
Counted(x, u) ==
  u = [d \in Devices |-> [count |-> Cardinality(Holders(x, d)),
                          startStop |-> Cardinality(Players(x, d))]]
Listed(x, r) == \A p \in r : p \in Devices \X Streams /\ p[2] \in Players(x, p[1])
Right(x, u, r) == x \in [Streams -> StreamType] /\ Counted(x, u) /\ Listed(x, r)
Complete(x, r, S) == \A d \in Devices : \A s \in S : s \in Players(x, d) => <<d, s>> \in r

\* The holders of a device are finitely many, those that play among them.
LEMMA HoldersFinite ==
  ASSUME NEW x, NEW d
  PROVE  /\ Players(x, d) \subseteq Holders(x, d) /\ Holders(x, d) \subseteq Streams
         /\ IsFiniteSet(Holders(x, d)) /\ IsFiniteSet(Players(x, d))
         /\ Cardinality(Holders(x, d)) \in Nat /\ Cardinality(Players(x, d)) \in Nat
<1>1. Players(x, d) \subseteq Holders(x, d) /\ Holders(x, d) \subseteq Streams
  BY DEF Players, Holders, Live, InSession
<1>2. IsFiniteSet(Holders(x, d)) /\ IsFiniteSet(Players(x, d))
  BY <1>1, SwitchAssumption, FS_Subset
<1>. QED  BY <1>1, <1>2, FS_CardinalityType

\* What changes neither devices nor who plays leaves counts and list as they are.
LEMMA SameUse ==
  ASSUME NEW x, NEW y \in [Streams -> StreamType], NEW u, NEW r, Right(x, u, r),
         \A s \in Streams : /\ InSession(x[s].state) => y[s].dev = x[s].dev
                            /\ InSession(y[s].state) <=> InSession(x[s].state)
                            /\ Live(y[s].state) <=> Live(x[s].state)
  PROVE  /\ Right(y, u, r)
         /\ \A S \in SUBSET Streams : Complete(x, r, S) => Complete(y, r, S)
<1>1. \A d : Holders(y, d) = Holders(x, d) /\ Players(y, d) = Players(x, d)
  BY DEF Holders, Players, Live, InSession
<1>. QED  BY <1>1 DEF Right, Counted, Listed, Complete

\* A part B of A leaves: the size falls by that of B.
LEMMA Part ==
  ASSUME NEW A, IsFiniteSet(A), NEW B \in SUBSET A
  PROVE  /\ Cardinality(A) \in Nat /\ Cardinality(B) \in Nat
         /\ Cardinality(B) <= Cardinality(A)
         /\ Cardinality(A \ B) = Cardinality(A) - Cardinality(B)
         /\ Cardinality(B) = Cardinality(A) => B = A
<1>1. IsFiniteSet(B) /\ A \cap B = B
  BY FS_Subset
<1>. QED  BY <1>1, FS_Subset, FS_Difference, FS_CardinalityType

\* Something new comes: the size rises by that of B.
LEMMA Whole ==
  ASSUME NEW A, IsFiniteSet(A), NEW B, IsFiniteSet(B), A \cap B = {}
  PROVE  Cardinality(A \cup B) = Cardinality(A) + Cardinality(B)
<1>1. Cardinality(A \cap B) = 0
  BY FS_EmptySet
<1>2. /\ Cardinality(A) \in Nat /\ Cardinality(B) \in Nat
      /\ Cardinality(A \cup B) = Cardinality(A) + Cardinality(B) - Cardinality(A \cap B)
  BY FS_Union, FS_CardinalityType
<1>. QED  BY <1>1, <1>2

-----------------------------------------------------------------------------
(* The switch.  A world has the streams of the variable str on other devices. *)

SameButDev(x) == \A s \in Streams : x[s] = [str[s] EXCEPT !.dev = x[s].dev]
WorldRight(w) == Right(w.str, w.use, w.reg) /\ SameButDev(w.str)

\* A stream with other devices is a stream.
LEMMA OtherDevices ==
  ASSUME NEW a \in StreamType, NEW D \in SUBSET Devices
  PROVE  /\ [a EXCEPT !.dev = D] \in StreamType /\ [a EXCEPT !.dev = D].dev = D
         /\ [a EXCEPT !.dev = D].state = a.state
         /\ \A E \in SUBSET Devices :
              [[a EXCEPT !.dev = D] EXCEPT !.dev = E] = [a EXCEPT !.dev = E]
BY DEF StreamType

\* Streams that leave devices they hold leave counts and list right.
LEMMA DisconnectRight ==
  ASSUME str \in [Streams -> StreamType], NEW w, WorldRight(w), NEW failed,
         NEW held \in SUBSET Pairs, \A t \in held : t[2] \in w.str[t[1]].dev
  PROVE  WorldRight(disconnectStreamDevice_l(w, held, failed))
<1>. DEFINE left == held \ failed
            v == disconnectStreamDevice_l(w, held, failed)
            A(d) == Of(InUse(left), d)
            B(d) == Of(Running(left), d)
<1>1. /\ v.str = [s \in Streams |-> [w.str[s] EXCEPT !.dev = {d \in @ : <<s, d>> \notin left}]]
      /\ v.use = [d \in Devices |-> Lowered(w.use[d], Cardinality(A(d)), Cardinality(B(d)))]
      /\ v.reg = {r \in w.reg : <<r[2], r[1]>> \notin Running(held)}
  BY DEF disconnectStreamDevice_l
<1>2. /\ w.str \in [Streams -> StreamType] /\ Counted(w.str, w.use) /\ Listed(w.str, w.reg)
      /\ \A s \in Streams : w.str[s] = [str[s] EXCEPT !.dev = w.str[s].dev]
  BY DEF WorldRight, Right, SameButDev
<1>3. \A s \in Streams : w.str[s].state = str[s].state /\ w.str[s].dev \in SUBSET Devices
  BY <1>2 DEF StreamType
<1>4. ASSUME NEW s \in Streams
      PROVE  /\ v.str[s].dev = {d \in w.str[s].dev : <<s, d>> \notin left}
             /\ v.str[s].state = str[s].state
             /\ v.str[s] \in StreamType /\ v.str[s] = [str[s] EXCEPT !.dev = v.str[s].dev]
  <2>. DEFINE D == {d \in w.str[s].dev : <<s, d>> \notin left}
  <2>1. w.str[s] \in StreamType /\ str[s] \in StreamType /\ D \in SUBSET Devices
    BY <1>2, <1>3
  <2>2. v.str[s] = [w.str[s] EXCEPT !.dev = D]
    BY <1>1
  <2>3. w.str[s] = [str[s] EXCEPT !.dev = w.str[s].dev]
    BY <1>2
  <2>. HIDE DEF D
  <2>4. v.str[s] \in StreamType /\ v.str[s].dev = D /\ v.str[s].state = w.str[s].state
    <3>1. PICK y : y = [w.str[s] EXCEPT !.dev = D]
      OBVIOUS
    <3>2. y \in StreamType /\ y.dev = D /\ y.state = w.str[s].state
      BY <2>1, <3>1, OtherDevices
    <3>. QED  BY <2>2, <3>1, <3>2
  <2>5. [w.str[s] EXCEPT !.dev = D] = [str[s] EXCEPT !.dev = D]
    <3>1. PICK E \in SUBSET Devices : w.str[s] = [str[s] EXCEPT !.dev = E]
      BY <1>3, <2>3
    <3>2. [[str[s] EXCEPT !.dev = E] EXCEPT !.dev = D] = [str[s] EXCEPT !.dev = D]
      BY <2>1, OtherDevices
    <3>. QED  BY <3>1, <3>2
  <2>. QED  BY <1>3, <2>2, <2>4, <2>5 DEF D
<1>5. v.str \in [Streams -> StreamType] /\ SameButDev(v.str)
  BY <1>1, <1>4 DEF SameButDev
<1>6. ASSUME NEW d \in Devices
      PROVE  /\ A(d) \subseteq Holders(w.str, d) /\ B(d) \subseteq Players(w.str, d)
             /\ Holders(v.str, d) = Holders(w.str, d) \ A(d)
             /\ Players(v.str, d) = Players(w.str, d) \ B(d)
  <2>1. ASSUME NEW s \in Streams
        PROVE  /\ s \in A(d) <=> <<s, d>> \in left /\ InSession(str[s].state)
               /\ s \in B(d) <=> <<s, d>> \in left /\ Live(str[s].state)
    BY DEF Of, InUse, Running, isAlive, InSession
  <2>2. A(d) \subseteq Streams /\ B(d) \subseteq Streams
    BY DEF Of
  <2>3. \A s \in Streams : <<s, d>> \in left => d \in w.str[s].dev
    OBVIOUS
  <2>4. \A x : Holders(x, d) \subseteq Streams /\ Players(x, d) \subseteq Streams
    BY DEF Holders, Players
  <2>5. ASSUME NEW s \in Streams
        PROVE  /\ s \in Holders(v.str, d) <=> s \in Holders(w.str, d) /\ s \notin A(d)
               /\ s \in Players(v.str, d) <=> s \in Players(w.str, d) /\ s \notin B(d)
               /\ s \in A(d) => s \in Holders(w.str, d)
               /\ s \in B(d) => s \in Players(w.str, d)
    <3>1. /\ d \in v.str[s].dev <=> d \in w.str[s].dev /\ <<s, d>> \notin left
          /\ v.str[s].state = str[s].state /\ w.str[s].state = str[s].state
      BY <1>3, <1>4
    <3>2. \A x : /\ s \in Holders(x, d) <=> InSession(x[s].state) /\ d \in x[s].dev
                 /\ s \in Players(x, d) <=> Live(x[s].state) /\ d \in x[s].dev
      BY DEF Holders, Players
    <3>. HIDE DEF v, A, B
    <3>. QED  BY <2>1, <2>3, <3>1, <3>2
  <2>. HIDE DEF v, A, B
  <2>. QED  BY <2>2, <2>4, <2>5
<1>7. ASSUME NEW d \in Devices
      PROVE  v.use[d] = [count |-> Cardinality(Holders(v.str, d)),
                         startStop |-> Cardinality(Players(v.str, d))]
  <2>. DEFINE h == Cardinality(Holders(w.str, d))
              p == Cardinality(Players(w.str, d))
              a == Cardinality(A(d))
              b == Cardinality(B(d))
  <2>1. /\ h \in Nat /\ a \in Nat /\ a <= h /\ (a = h => A(d) = Holders(w.str, d))
        /\ Cardinality(Holders(v.str, d)) = h - a
    BY <1>6, HoldersFinite, Part
  <2>2. /\ p \in Nat /\ b \in Nat /\ b <= p
        /\ Cardinality(Players(v.str, d)) = p - b
    BY <1>6, HoldersFinite, Part
  <2>3. a = h => Cardinality(Players(v.str, d)) = 0
    <3>1. SUFFICES ASSUME a = h  PROVE Players(v.str, d) = {}
      BY FS_EmptySet
    <3>2. Holders(v.str, d) = {}
      BY <1>6, <2>1, <3>1
    <3>. QED  BY <3>2, HoldersFinite
  <2>4. v.use[d] = Lowered(w.use[d], a, b) /\ w.use[d] = [count |-> h, startStop |-> p]
    BY <1>1, <1>2 DEF Counted
  <2>5. Lowered(w.use[d], a, b) =
          IF a < h THEN [count |-> h - a, startStop |-> IF b < p THEN p - b ELSE 0]
          ELSE [count |-> 0, startStop |-> 0]
    BY <2>4 DEF Lowered
  <2>. HIDE DEF h, p, a, b
  <2>6. (IF b < p THEN p - b ELSE 0) = p - b
    BY <2>2
  <2>. QED  BY <2>1, <2>2, <2>3, <2>4, <2>5, <2>6
<1>8. Counted(v.str, v.use)
  BY <1>1, <1>7 DEF Counted
<1>9. ASSUME NEW q \in v.reg
      PROVE  q \in Devices \X Streams /\ q[2] \in Players(v.str, q[1])
  <2>1. q \in Devices \X Streams /\ q[2] \in Players(w.str, q[1])
        /\ <<q[2], q[1]>> \notin Running(held)
    BY <1>1, <1>2, <1>9 DEF Listed
  <2>2. PICK d \in Devices, s \in Streams : q = <<d, s>>
    BY <2>1
  <2>3. s \in Players(w.str, d) /\ <<s, d>> \notin Running(held)
    BY <2>1, <2>2
  <2>4. s \notin B(d)
    BY <2>3 DEF Of, Running
  <2>. QED  BY <1>6, <2>1, <2>2, <2>3, <2>4
<1>10. Listed(v.str, v.reg)
  BY <1>9 DEF Listed
<1>. QED  BY <1>5, <1>8, <1>10 DEF WorldRight, Right

\* Streams that get devices they do not hold leave counts and list right.
LEMMA ConnectRight ==
  ASSUME str \in [Streams -> StreamType], NEW w, WorldRight(w),
         NEW new \in SUBSET Pairs, \A t \in new : t[2] \notin w.str[t[1]].dev
  PROVE  WorldRight(connectStreamDevice_l(w, new))
<1>. DEFINE v == connectStreamDevice_l(w, new)
            A(d) == Of(InUse(new), d)
            B(d) == Of(Running(new), d)
<1>1. /\ v.str = [s \in Streams |->
                   [w.str[s] EXCEPT !.dev = @ \cup {d \in Devices : <<s, d>> \in new}]]
      /\ v.use = [d \in Devices |->
                   [count |-> w.use[d].count + Cardinality(A(d)),
                    startStop |-> w.use[d].startStop + Cardinality(B(d))]]
      /\ v.reg = w.reg \cup {<<t[2], t[1]>> : t \in Running(new)}
  BY DEF connectStreamDevice_l
<1>2. /\ w.str \in [Streams -> StreamType] /\ Counted(w.str, w.use) /\ Listed(w.str, w.reg)
      /\ \A s \in Streams : w.str[s] = [str[s] EXCEPT !.dev = w.str[s].dev]
  BY DEF WorldRight, Right, SameButDev
<1>3. \A s \in Streams : w.str[s].state = str[s].state /\ w.str[s].dev \in SUBSET Devices
  BY <1>2 DEF StreamType
<1>4. ASSUME NEW s \in Streams
      PROVE  /\ v.str[s].dev = w.str[s].dev \cup {d \in Devices : <<s, d>> \in new}
             /\ v.str[s].state = str[s].state
             /\ v.str[s] \in StreamType /\ v.str[s] = [str[s] EXCEPT !.dev = v.str[s].dev]
  <2>. DEFINE D == w.str[s].dev \cup {d \in Devices : <<s, d>> \in new}
  <2>1. w.str[s] \in StreamType /\ str[s] \in StreamType /\ D \in SUBSET Devices
    BY <1>2, <1>3
  <2>2. v.str[s] = [w.str[s] EXCEPT !.dev = D]
    BY <1>1
  <2>3. w.str[s] = [str[s] EXCEPT !.dev = w.str[s].dev]
    BY <1>2
  <2>. HIDE DEF D
  <2>4. v.str[s] \in StreamType /\ v.str[s].dev = D /\ v.str[s].state = w.str[s].state
    <3>1. PICK y : y = [w.str[s] EXCEPT !.dev = D]
      OBVIOUS
    <3>2. y \in StreamType /\ y.dev = D /\ y.state = w.str[s].state
      BY <2>1, <3>1, OtherDevices
    <3>. QED  BY <2>2, <3>1, <3>2
  <2>5. [w.str[s] EXCEPT !.dev = D] = [str[s] EXCEPT !.dev = D]
    <3>1. PICK E \in SUBSET Devices : w.str[s] = [str[s] EXCEPT !.dev = E]
      BY <1>3, <2>3
    <3>2. [[str[s] EXCEPT !.dev = E] EXCEPT !.dev = D] = [str[s] EXCEPT !.dev = D]
      BY <2>1, OtherDevices
    <3>. QED  BY <3>1, <3>2
  <2>. QED  BY <1>3, <2>2, <2>4, <2>5 DEF D
<1>5. v.str \in [Streams -> StreamType] /\ SameButDev(v.str)
  BY <1>1, <1>4 DEF SameButDev
<1>6. ASSUME NEW d \in Devices
      PROVE  /\ A(d) \cap Holders(w.str, d) = {} /\ B(d) \cap Players(w.str, d) = {}
             /\ Holders(v.str, d) = Holders(w.str, d) \cup A(d)
             /\ Players(v.str, d) = Players(w.str, d) \cup B(d)
             /\ A(d) \subseteq Streams /\ B(d) \subseteq Streams
  <2>1. ASSUME NEW s \in Streams
        PROVE  /\ s \in A(d) <=> <<s, d>> \in new /\ InSession(str[s].state)
               /\ s \in B(d) <=> <<s, d>> \in new /\ Live(str[s].state)
    BY DEF Of, InUse, Running, isAlive, InSession
  <2>2. A(d) \subseteq Streams /\ B(d) \subseteq Streams
    BY DEF Of
  <2>3. \A s \in Streams : <<s, d>> \in new => d \notin w.str[s].dev
    OBVIOUS
  <2>4. \A x : Holders(x, d) \subseteq Streams /\ Players(x, d) \subseteq Streams
    BY DEF Holders, Players
  <2>5. ASSUME NEW s \in Streams
        PROVE  /\ s \in Holders(v.str, d) <=> s \in Holders(w.str, d) \/ s \in A(d)
               /\ s \in Players(v.str, d) <=> s \in Players(w.str, d) \/ s \in B(d)
               /\ s \in A(d) => s \notin Holders(w.str, d)
               /\ s \in B(d) => s \notin Players(w.str, d)
    <3>1. /\ d \in v.str[s].dev <=> d \in w.str[s].dev \/ <<s, d>> \in new
          /\ v.str[s].state = str[s].state /\ w.str[s].state = str[s].state
      BY <1>3, <1>4
    <3>2. \A x : /\ s \in Holders(x, d) <=> InSession(x[s].state) /\ d \in x[s].dev
                 /\ s \in Players(x, d) <=> Live(x[s].state) /\ d \in x[s].dev
      BY DEF Holders, Players
    <3>. HIDE DEF v, A, B
    <3>. QED  BY <2>1, <2>3, <3>1, <3>2
  <2>. HIDE DEF v, A, B
  <2>. QED  BY <2>2, <2>4, <2>5
<1>7. ASSUME NEW d \in Devices
      PROVE  v.use[d] = [count |-> Cardinality(Holders(v.str, d)),
                         startStop |-> Cardinality(Players(v.str, d))]
  <2>1. IsFiniteSet(A(d)) /\ IsFiniteSet(B(d))
    BY <1>6, SwitchAssumption, FS_Subset
  <2>2. /\ Cardinality(Holders(v.str, d)) = Cardinality(Holders(w.str, d)) + Cardinality(A(d))
        /\ Cardinality(Players(v.str, d)) = Cardinality(Players(w.str, d)) + Cardinality(B(d))
    BY <1>6, <2>1, HoldersFinite, Whole
  <2>3. w.use[d] = [count |-> Cardinality(Holders(w.str, d)),
                    startStop |-> Cardinality(Players(w.str, d))]
    BY <1>2 DEF Counted
  <2>. QED  BY <1>1, <2>2, <2>3
<1>8. Counted(v.str, v.use)
  BY <1>1, <1>7 DEF Counted
<1>9. ASSUME NEW q \in v.reg
      PROVE  q \in Devices \X Streams /\ q[2] \in Players(v.str, q[1])
  <2>1. CASE q \in w.reg
    <3>1. q \in Devices \X Streams /\ q[2] \in Players(w.str, q[1])
      BY <1>2, <2>1 DEF Listed
    <3>. QED  BY <1>6, <3>1
  <2>2. CASE q \notin w.reg
    <3>1. PICK t \in Running(new) : q = <<t[2], t[1]>>
      BY <1>1, <1>9, <2>2
    <3>2. PICK s \in Streams, d \in Devices : t = <<s, d>>
      BY <3>1 DEF Running, Pairs
    <3>3. q = <<d, s>> /\ s \in B(d)
      BY <3>1, <3>2 DEF Of
    <3>. QED  BY <1>6, <3>3
  <2>. QED  BY <2>1, <2>2
<1>10. Listed(v.str, v.reg)
  BY <1>9 DEF Listed
<1>. QED  BY <1>5, <1>8, <1>10 DEF WorldRight, Right

\* A connection that is lost or made keeps the list complete, unless a disconnection fails.
LEMMA SwitchComplete ==
  ASSUME NEW w, WorldRight(w), NEW S \in SUBSET Streams, Complete(w.str, w.reg, S),
         NEW T \in SUBSET Pairs
  PROVE  /\ LET v == disconnectStreamDevice_l(w, T, {}) IN Complete(v.str, v.reg, S)
         /\ LET v == connectStreamDevice_l(w, T) IN Complete(v.str, v.reg, S)
<1>1. /\ w.str \in [Streams -> StreamType]
      /\ \A s \in Streams : w.str[s] = [str[s] EXCEPT !.dev = w.str[s].dev]
  BY DEF WorldRight, Right, SameButDev
<1>2. ASSUME NEW d \in Devices, NEW s \in S, NEW v,
             v = disconnectStreamDevice_l(w, T, {}), s \in Players(v.str, d)
      PROVE  <<d, s>> \in v.reg
  <2>1. /\ v.str[s].state = w.str[s].state
        /\ v.str[s].dev = {e \in w.str[s].dev : <<s, e>> \notin T}
        /\ v.reg = {q \in w.reg : <<q[2], q[1]>> \notin Running(T)}
    BY <1>1, <1>2 DEF disconnectStreamDevice_l, StreamType
  <2>2. s \in Players(w.str, d) /\ <<s, d>> \notin T
    BY <1>2, <2>1 DEF Players
  <2>3. <<d, s>> \in w.reg /\ <<s, d>> \notin Running(T)
    BY <2>2 DEF Complete, Running
  <2>. QED  BY <2>1, <2>3
<1>3. ASSUME NEW d \in Devices, NEW s \in S, NEW v,
             v = connectStreamDevice_l(w, T), s \in Players(v.str, d)
      PROVE  <<d, s>> \in v.reg
  <2>1. /\ v.str[s].state = w.str[s].state
        /\ v.str[s].dev = w.str[s].dev \cup {e \in Devices : <<s, e>> \in T}
        /\ v.reg = w.reg \cup {<<t[2], t[1]>> : t \in Running(T)}
    BY <1>1, <1>3 DEF connectStreamDevice_l, StreamType
  <2>2. CASE d \in w.str[s].dev
    <3>1. s \in Players(w.str, d)
      BY <1>3, <2>1, <2>2 DEF Players
    <3>. QED  BY <2>1, <3>1 DEF Complete
  <2>3. CASE d \notin w.str[s].dev
    <3>1. <<s, d>> \in T /\ Live(v.str[s].state)
      BY <1>3, <2>1, <2>3 DEF Players
    <3>2. w.str[s].state = str[s].state
      <4>1. PICK D : w.str[s] = [str[s] EXCEPT !.dev = D]
        BY <1>1
      <4>. QED  BY <1>1, <4>1 DEF StreamType
    <3>3. <<s, d>> \in Running(T)
      BY <2>1, <3>1, <3>2 DEF Running
    <3>. QED  BY <2>1, <3>3
  <2>. QED  BY <2>2, <2>3
<1>. QED  BY <1>2, <1>3 DEF Complete

\* What a switch may come to: nothing, all that leaves and some that comes, or a part of what
\* leaves.
LEMMA Outcomes ==
  ASSUME NEW lists \in ListsType, NEW r \in streamDevSwitch(lists)
  PROVE  /\ r.ok \in BOOLEAN /\ r.faults \in {0, 1}
         /\ \/ r.w = World
            \/ \E F, D, C \in SUBSET Pairs :
                 r.w = streamDevConnect_l(streamDevDisconnect_l(World, D, {}), C, F)
            \/ \E F, D \in SUBSET Pairs :
                 r.w = streamDevDisconnect_l(World, D, F) /\ r.faults = 1
<1>. DEFINE D == {t \in lists.disc : t[1] \in Known}
            C == {t \in lists.conn : t[1] \in Known}
            left == streamDevDisconnect_l(World, D, {})
<1>1. D \in SUBSET Pairs /\ C \in SUBSET Pairs
  BY DEF ListsType
<1>2. \/ r = Outcome(World, FALSE, 0)
      \/ \E F \in SUBSET C : r \in Connected(left, C, F, 0) \cup Connected(left, C, F, 1)
      \/ \E t \in D : r \in Stuck(D, t)
  <2>. DEFINE refused == {t \in C : startRefused(left, t)}
              breaks == IF spent.faults = MaxFaults THEN {}
                        ELSE {t \in C : Live(left.str[t[1]].state)}
              sticks == IF spent.faults = MaxFaults THEN {}
                        ELSE {t \in D : isAlive(t[1]) /\ t[2] \in str[t[1]].dev}
  <2>1. /\ refused \in SUBSET C /\ breaks \in SUBSET C /\ sticks \in SUBSET D
        /\ \A t \in breaks : refused \cup {t} \in SUBSET C
    OBVIOUS
  <2>2. r \in (IF scenario.out /\ btSuspended /\ {t[2] : t \in C} = {"bt"}
               THEN {Outcome(World, FALSE, 0)}
               ELSE Connected(left, C, refused, 0)
                    \cup (UNION {Connected(left, C, refused \cup {t}, 1) : t \in breaks})
                    \cup (UNION {Stuck(D, t) : t \in sticks}))
    BY DEF streamDevSwitch
  <2>. HIDE DEF C, D, left, refused, breaks, sticks
  <2>3. \/ r = Outcome(World, FALSE, 0)
        \/ r \in Connected(left, C, refused, 0)
        \/ r \in UNION {Connected(left, C, refused \cup {t}, 1) : t \in breaks}
        \/ r \in UNION {Stuck(D, t) : t \in sticks}
    BY <2>2
  <2>4. CASE r \in UNION {Connected(left, C, refused \cup {t}, 1) : t \in breaks}
    <3>1. PICK t \in breaks : r \in Connected(left, C, refused \cup {t}, 1)
      BY <2>4
    <3>. QED  BY <2>1, <3>1
  <2>5. CASE r \in UNION {Stuck(D, t) : t \in sticks}
    BY <2>1, <2>5
  <2>. QED  BY <2>1, <2>3, <2>4, <2>5
<1>3. CASE r = Outcome(World, FALSE, 0)
  <2>1. r.w = World /\ r.ok = FALSE /\ r.faults = 0
    BY <1>3 DEF Outcome
  <2>. QED  BY <2>1
<1>4. ASSUME NEW F \in SUBSET C, r \in Connected(left, C, F, 0) \cup Connected(left, C, F, 1)
      PROVE  /\ r.ok \in BOOLEAN /\ r.faults \in {0, 1}
             /\ r.w = streamDevConnect_l(left, C, F)
  <2>1. PICK v : v = streamDevConnect_l(left, C, F)
    OBVIOUS
  <2>2. PICK n \in {0, 1} : r \in Connected(left, C, F, n)
    BY <1>4
  <2>3. PICK ok \in Status(C, F) : r = Outcome(v, ok, n)
    BY <2>1, <2>2 DEF Connected
  <2>4. ok \in BOOLEAN
    BY DEF Status
  <2>. QED  BY <2>1, <2>3, <2>4 DEF Outcome
<1>5. ASSUME NEW t \in D, r \in Stuck(D, t)
      PROVE  /\ r.ok = FALSE /\ r.faults = 1
             /\ \E F, P \in SUBSET Pairs : r.w = streamDevDisconnect_l(World, P, F)
  <2>1. PICK P \in SUBSET (D \ {t}) :
               r = Outcome(streamDevDisconnect_l(World, P \cup {t}, {t}), FALSE, 1)
    BY <1>5 DEF Stuck
  <2>2. P \cup {t} \in SUBSET Pairs /\ {t} \in SUBSET Pairs
    BY <1>1
  <2>. QED  BY <2>1, <2>2 DEF Outcome
<1>. HIDE DEF C, D
<1>. QED  BY <1>1, <1>2, <1>3, <1>4, <1>5

\* Counts and list are right after a switch, and what it changes of a stream is its devices.
LEMMA SwitchRight ==
  ASSUME NEW lists \in ListsType, NEW r \in streamDevSwitch(lists), Right(str, use, reg),
         NEW S \in SUBSET Streams
  PROVE  /\ WorldRight(r.w)
         /\ r.faults = 0 /\ Complete(str, reg, S) => Complete(r.w.str, r.w.reg, S)
<1>1. World.str = str /\ World.use = use /\ World.reg = reg
  BY DEF World
<1>2. str \in [Streams -> StreamType]
  BY DEF Right
<1>3. WorldRight(World)
  BY <1>1, <1>2 DEF WorldRight, SameButDev, StreamType
<1>4. ASSUME NEW F, NEW D \in SUBSET Pairs
      PROVE  /\ WorldRight(streamDevDisconnect_l(World, D, F))
             /\ Complete(str, reg, S) =>
                  LET v == streamDevDisconnect_l(World, D, {}) IN Complete(v.str, v.reg, S)
  <2>. DEFINE held == {t \in D : t[2] \in World.str[t[1]].dev}
  <2>1. held \in SUBSET Pairs /\ \A t \in held : t[2] \in World.str[t[1]].dev
    OBVIOUS
  <2>2. \A G : streamDevDisconnect_l(World, D, G) = disconnectStreamDevice_l(World, held, G)
    BY DEF streamDevDisconnect_l
  <2>. HIDE DEF held
  <2>. QED  BY <1>1, <1>2, <1>3, <2>1, <2>2, DisconnectRight, SwitchComplete
<1>5. ASSUME NEW w, WorldRight(w), NEW F, NEW C \in SUBSET Pairs
      PROVE  LET v == streamDevConnect_l(w, C, F)
             IN /\ WorldRight(v)
                /\ Complete(w.str, w.reg, S) => Complete(v.str, v.reg, S)
  <2>. DEFINE new == {t \in C \ F : t[2] \notin w.str[t[1]].dev}
  <2>1. new \in SUBSET Pairs /\ \A t \in new : t[2] \notin w.str[t[1]].dev
    OBVIOUS
  <2>2. streamDevConnect_l(w, C, F) = connectStreamDevice_l(w, new)
    BY DEF streamDevConnect_l
  <2>. HIDE DEF new
  <2>. QED  BY <1>2, <1>5, <2>1, <2>2, ConnectRight, SwitchComplete
<1>6. \/ r.w = World
      \/ \E F, D, C \in SUBSET Pairs :
           r.w = streamDevConnect_l(streamDevDisconnect_l(World, D, {}), C, F)
      \/ \E F, D \in SUBSET Pairs :
           r.w = streamDevDisconnect_l(World, D, F) /\ r.faults = 1
  BY Outcomes
<1>7. CASE r.w = World
  BY <1>1, <1>3, <1>7
<1>8. CASE \E F, D, C \in SUBSET Pairs :
             r.w = streamDevConnect_l(streamDevDisconnect_l(World, D, {}), C, F)
  <2>1. PICK F, D, C \in SUBSET Pairs :
             r.w = streamDevConnect_l(streamDevDisconnect_l(World, D, {}), C, F)
    BY <1>8
  <2>2. PICK v : v = streamDevDisconnect_l(World, D, {})
    OBVIOUS
  <2>3. WorldRight(v) /\ (Complete(str, reg, S) => Complete(v.str, v.reg, S))
    BY <1>4, <2>2
  <2>. QED  BY <1>5, <2>1, <2>2, <2>3
<1>9. CASE \E F, D \in SUBSET Pairs : r.w = streamDevDisconnect_l(World, D, F) /\ r.faults = 1
  BY <1>4, <1>9
<1>. QED  BY <1>6, <1>7, <1>8, <1>9

-----------------------------------------------------------------------------
(* Types, and where the clients are.                                       *)

Ops == {"none", "suspend", "resume", "reconfigure"}
BtType ==
  [pc : {"rest", "collect", "prepare", "take", "switch", "reset", "after"}, op : Ops,
   list : SUBSET Streams, combo : SUBSET Streams, orphans : SUBSET Streams,
   retry : SUBSET Streams, lists : ListsType]
ClientType ==
  [pc : {"rest", "opening", "starting", "registering", "stopping", "closing", "deleting",
         "routing"},
   seen : BOOLEAN, then : {"rest", "closing"}, dev : SUBSET Devices,
   muted : SUBSET Streams, lists : ListsType]
SpentType == [calls : Nat, requests : Nat, faults : Nat, lost : BOOLEAN]

TypesOK ==
  /\ scenario \in [out : BOOLEAN, dummy : BOOLEAN] /\ btSuspended \in BOOLEAN
  /\ bt \in BtType /\ client \in [Streams -> ClientType] /\ spent \in SpentType
  /\ str \in [Streams -> StreamType]

\* What the call a client is in says of the state of its stream.
At1(p, state) ==
  /\ p \in {"opening", "deleting"} => state = "IDLE"
  /\ p = "starting" => state \in {"INIT", "STOPPED"}
  /\ p \in {"registering", "stopping"} => Live(state)
  /\ p = "closing" => state \in {"INIT", "STOPPED"}
  /\ p = "routing" => InSession(state)
Places == \A s \in Streams : At1(client[s].pc, str[s].state)

\* A stream that is touched keeps its devices, and plays if it played.
Touched(a, b) ==
  /\ b \in StreamType /\ b.dev = a.dev
  /\ InSession(b.state) <=> InSession(a.state)
  /\ Live(b.state) <=> Live(a.state)
  /\ Live(a.state) \/ b.state = a.state

Registered == {s \in Streams : client[s].pc # "registering"}
DevInv ==
  /\ TypesOK /\ Places /\ Right(str, use, reg)
  /\ spent.faults = 0 => Complete(str, reg, Registered)

\* What the manager does to a stream before and after it moves it.
LEMMA HelpersTouch ==
  ASSUME NEW s \in Streams, NEW a \in StreamType
  PROVE  /\ Touched(a, a) /\ Touched(a, Mute(a)) /\ Touched(a, Unmute(a))
         /\ Touched(a, Still(s, a)) /\ Touched(a, Unpause(s, a))
         /\ \A D \in SUBSET (Devices \cup {"none"}) : Touched(a, [a EXCEPT !.susp = D])
         /\ \A q \in BOOLEAN : Touched(a, [a EXCEPT !.quiet = q])
<1>1. a.state \in States
  BY DEF StreamType
<1>2. Touched(a, a) /\ Touched(a, Mute(a)) /\ Touched(a, Unmute(a))
  BY DEF Touched, StreamType, Mute, Unmute
<1>3. Touched(a, Still(s, a))
  BY <1>1 DEF Touched, StreamType, Still, Live, InSession, States
<1>4. Touched(a, Unpause(s, a))
  BY <1>1 DEF Touched, StreamType, Unpause
<1>. QED  BY <1>2, <1>3, <1>4 DEF Touched, StreamType

\* One touch after another is a touch.
LEMMA TouchTrans ==
  ASSUME NEW a, NEW b, NEW c, Touched(a, b), Touched(b, c)
  PROVE  Touched(a, c)
BY DEF Touched

\* The devices there are.
LEMMA KnownDevices ==
  {"bt", "spkr", "dummy", StandIn} \subseteq Devices
BY DEF Devices, StandIn

\* A stream is touched when it is prepared for a move.
LEMMA PreparedTouched ==
  ASSUME TypesOK, NEW s \in Streams
  PROVE  Touched(str[s], Prepared(s))
<1>1. str[s] \in StreamType
  BY DEF TypesOK
<1>2. \A D \in {{"bt"}, {"bt", StandIn}, {"bt", "dummy"}} : D \in SUBSET (Devices \cup {"none"})
  BY KnownDevices
<1>3. Touched(str[s], Mute(str[s])) /\ Mute(str[s]) \in StreamType
  BY <1>1, HelpersTouch DEF Touched
<1>4. Touched(str[s], Quieted(s)) /\ Quieted(s) \in StreamType
  <2>1. Touched(str[s], Still(s, Mute(str[s])))
    BY <1>3, HelpersTouch, TouchTrans
  <2>. QED  BY <1>1, <2>1, HelpersTouch DEF Quieted, Touched
<1>5. Touched(str[s], a2dpReconfig(s))
  BY <1>4 DEF a2dpReconfig
<1>6. Touched(str[s], a2dpSuspend(s))
  <2>1. Touched(Quieted(s), [Quieted(s) EXCEPT !.susp = {"bt"}])
    BY <1>2, <1>4, HelpersTouch
  <2>2. Touched(str[s], [Quieted(s) EXCEPT !.susp = {"bt"}])
    BY <1>4, <2>1, TouchTrans
  <2>. QED  BY <1>1, <1>2, <2>2, HelpersTouch DEF a2dpSuspend
<1>7. Touched(str[s], [Mute(str[s]) EXCEPT !.susp = {"bt"}])
  <2>1. Touched(Mute(str[s]), [Mute(str[s]) EXCEPT !.susp = {"bt"}])
    BY <1>2, <1>3, HelpersTouch
  <2>. QED  BY <1>3, <2>1, TouchTrans
<1>8. Touched(str[s], a2dpSuspendToDummy(s))
  <2>1. Touched(str[s], str[s]) /\ Touched(str[s], [str[s] EXCEPT !.susp = {"bt", "dummy"}])
    BY <1>1, <1>2, HelpersTouch
  <2>. QED  BY <1>7, <2>1 DEF a2dpSuspendToDummy
<1>9. Touched(str[s], a2dpCaptureSuspend(s)) /\ Touched(str[s], a2dpCaptureSuspendToDummy(s))
  BY <1>3, <1>7 DEF a2dpCaptureSuspend, a2dpCaptureSuspendToDummy
<1>. QED  BY <1>5, <1>6, <1>8, <1>9 DEF Prepared

\* A step that only touches streams keeps counts and list right.
LEMMA TouchedRight ==
  ASSUME Right(str, use, reg), UNCHANGED <<use, reg>>, str' \in [Streams -> StreamType],
         \A s \in Streams : Touched(str[s], str'[s])
  PROVE  /\ Right(str', use', reg')
         /\ \A S \in SUBSET Streams : Complete(str, reg, S) => Complete(str', reg', S)
BY SameUse DEF Touched

\* At first nothing is open and there is no stream.
LEMMA InitRight == Init => DevInv
<1>1. SUFFICES ASSUME Init  PROVE DevInv
  OBVIOUS
<1>2. Gone \in StreamType /\ Gone.state = "gone"
  BY DEF Gone, StreamType, States
<1>3. NoLists \in ListsType
  BY DEF NoLists, ListsType
<1>4. TypesOK
  BY <1>1, <1>2, <1>3, SwitchAssumption
     DEF Init, TypesOK, BtType, ClientType, SpentType, BtRest, ClientRest, Ops
<1>5. Places
  BY <1>1 DEF Init, Places, At1, ClientRest
<1>6. \A d \in Devices : Holders(str, d) = {} /\ Players(str, d) = {}
  BY <1>1, <1>2 DEF Init, Holders, Players, InSession, Live
<1>7. Counted(str, use)
  <2>1. Cardinality({}) = 0
    BY FS_EmptySet
  <2>. QED  BY <1>1, <1>6, <2>1 DEF Init, Counted, NoUse
<1>8. Right(str, use, reg)
  BY <1>1, <1>4, <1>7 DEF Init, Right, Listed, TypesOK
<1>9. Complete(str, reg, Registered)
  BY <1>6 DEF Complete
<1>. QED  BY <1>4, <1>5, <1>8, <1>9 DEF DevInv

-----------------------------------------------------------------------------
(* The steps of the manager.                                               *)

\* Touched streams, and those moved, are in the states their clients took them to be in.
LEMMA PlacesStay ==
  ASSUME Places, UNCHANGED client,
         \A s \in Streams : Touched(str[s], str'[s]) \/ str'[s].state = str[s].state
  PROVE  Places'
<1>1. ASSUME NEW s \in Streams  PROVE At1(client[s].pc, str'[s].state)
  <2>1. At1(client[s].pc, str[s].state)
    BY DEF Places
  <2>2. CASE str'[s].state = str[s].state
    BY <2>1, <2>2
  <2>3. CASE Touched(str[s], str'[s])
    BY <2>1, <2>3 DEF At1, Touched, Live, InSession
  <2>. QED  BY <2>2, <2>3
<1>. QED  BY <1>1 DEF Places

\* A step that moves nothing and touches what it likes keeps counts and list right.
LEMMA TouchStep ==
  ASSUME DevInv, TypesOK', UNCHANGED <<client, use, reg>>, spent'.faults = 0 => spent.faults = 0,
         \A s \in Streams : Touched(str[s], str'[s])
  PROVE  DevInv'
<1>1. str' \in [Streams -> StreamType]
  BY DEF TypesOK
<1>2. /\ Right(str', use', reg')
      /\ \A S \in SUBSET Streams : Complete(str, reg, S) => Complete(str', reg', S)
  BY <1>1, TouchedRight DEF DevInv
<1>3. Registered' = Registered /\ Registered \in SUBSET Streams
  BY DEF Registered
<1>4. spent'.faults = 0 => Complete(str', reg', Registered')
  BY <1>2, <1>3 DEF DevInv
<1>5. Places'
  BY PlacesStay DEF DevInv
<1>. QED  BY <1>2, <1>4, <1>5 DEF DevInv

\* A switch changes devices only.
LEMMA SwitchTypes ==
  ASSUME DevInv, NEW lists \in ListsType, NEW r \in streamDevSwitch(lists), str' = r.w.str
  PROVE  /\ str' \in [Streams -> StreamType]
         /\ \A s \in Streams : str'[s] = [str[s] EXCEPT !.dev = str'[s].dev]
         /\ \A s \in Streams : str'[s].state = str[s].state
         /\ r.ok \in BOOLEAN /\ r.faults \in {0, 1}
<1>1. WorldRight(r.w) /\ r.ok \in BOOLEAN /\ r.faults \in {0, 1}
  BY SwitchRight, Outcomes DEF DevInv
<1>2. /\ str' \in [Streams -> StreamType]
      /\ \A s \in Streams : str'[s] = [str[s] EXCEPT !.dev = str'[s].dev]
  BY <1>1 DEF WorldRight, Right, SameButDev
<1>3. ASSUME NEW s \in Streams  PROVE str'[s].state = str[s].state
  <2>1. PICK D : str'[s] = [str[s] EXCEPT !.dev = D]
    BY <1>2
  <2>2. str[s] \in StreamType
    BY DEF DevInv, TypesOK
  <2>. QED  BY <2>1, <2>2 DEF StreamType
<1>. QED  BY <1>1, <1>2, <1>3

\* A switch keeps counts and list right.
LEMMA SwitchStep ==
  ASSUME DevInv, TypesOK', NEW lists \in ListsType, NEW r \in streamDevSwitch(lists),
         Switch(lists, r), spent'.faults = spent.faults + r.faults, Registered' = Registered,
         Places'
  PROVE  DevInv'
<1>1. str' = r.w.str /\ use' = r.w.use /\ reg' = r.w.reg
  BY DEF Switch
<1>2. Registered \in SUBSET Streams
  BY DEF Registered
<1>3. /\ WorldRight(r.w)
      /\ r.faults = 0 /\ Complete(str, reg, Registered) => Complete(r.w.str, r.w.reg, Registered)
  BY <1>2, SwitchRight DEF DevInv
<1>4. Right(str', use', reg')
  BY <1>1, <1>3 DEF WorldRight
<1>5. ASSUME spent'.faults = 0  PROVE Complete(str', reg', Registered')
  <2>1. spent.faults \in Nat /\ r.faults \in {0, 1}
    BY Outcomes DEF DevInv, TypesOK, SpentType
  <2>2. spent.faults = 0 /\ r.faults = 0
    BY <1>5, <2>1
  <2>. QED  BY <1>1, <1>3, <2>2 DEF DevInv
<1>. QED  BY <1>4, <1>5 DEF DevInv

\* What a step has to show for the types.
LEMMA TypesStay ==
  ASSUME TypesOK, scenario' = scenario, btSuspended' \in BOOLEAN, bt' \in BtType,
         client' \in [Streams -> ClientType], spent' \in SpentType,
         str' \in [Streams -> StreamType]
  PROVE  TypesOK'
<1>1. scenario' \in [out : BOOLEAN, dummy : BOOLEAN]
  <2>1. scenario \in [out : BOOLEAN, dummy : BOOLEAN]
    BY DEF TypesOK
  <2>. QED  BY <2>1, Zenon
<1>. QED  BY <1>1, Zenon DEF TypesOK

\* The types of what a step of the manager leaves alone.
LEMMA TypesKept ==
  ASSUME TypesOK
  PROVE  /\ btSuspended' = btSuspended => btSuspended' \in BOOLEAN
         /\ client' = client => client' \in [Streams -> ClientType]
         /\ spent' = spent => spent' \in SpentType
         /\ bt' = bt => bt' \in BtType
         /\ str' = str => str' \in [Streams -> StreamType]
<1>1. /\ btSuspended \in BOOLEAN /\ client \in [Streams -> ClientType]
      /\ spent \in SpentType /\ bt \in BtType /\ str \in [Streams -> StreamType]
  BY Zenon DEF TypesOK
<1>. QED  BY <1>1, Zenon

\* What a switch spends.
LEMMA SpendTypes ==
  ASSUME spent \in SpentType, NEW r, r.faults \in {0, 1}, NEW c \in BOOLEAN, Spend(r, c)
  PROVE  spent' \in SpentType /\ spent'.faults = spent.faults + r.faults
<1>1. PICK b \in BOOLEAN : b = (spent.lost \/ (c /\ r.faults > 0))
  OBVIOUS
<1>2. spent.faults \in Nat
  BY DEF SpentType
<1>3. PICK k \in Nat : k = spent.faults + r.faults
  BY <1>2
<1>4. spent' = [spent EXCEPT !.faults = k, !.lost = b]
  BY <1>1, <1>3 DEF Spend
<1>. QED  BY <1>3, <1>4 DEF SpentType

\* What a request asks, collects and takes.
LEMMA AskRight ==
  ASSUME DevInv, (\E op \in {"suspend", "resume", "reconfigure"} : Request(op)) \/ Collect \/ Take
  PROVE  DevInv'
<1>1. TypesOK
  BY DEF DevInv
<1>2. UNCHANGED <<scenario, str, use, reg, client>>
  BY DEF Request, Collect, Take
<1>3. \A s \in Streams : Touched(str[s], str'[s])
  BY <1>1, <1>2, HelpersTouch DEF TypesOK
<1>4. BtRest \in BtType
  BY DEF BtRest, BtType, Ops, NoLists, ListsType
<1>5. CASE \E op \in {"suspend", "resume", "reconfigure"} : Request(op)
  <2>1. PICK op \in {"suspend", "resume", "reconfigure"}, failed \in BOOLEAN :
          /\ btSuspended' = (op = "suspend")
          /\ bt' = IF failed THEN BtRest ELSE [BtRest EXCEPT !.pc = "collect", !.op = op]
          /\ spent' = [spent EXCEPT !.requests = @ + 1, !.lost = @ \/ failed,
                                    !.faults = IF failed THEN @ + 1 ELSE @]
    BY <1>5 DEF Request, setDeviceParameter
  <2>2. bt' \in BtType
    BY <1>4, <2>1 DEF BtType, Ops
  <2>3. spent' \in SpentType /\ (spent'.faults = 0 => spent.faults = 0)
    <3>1. PICK b \in BOOLEAN : b = (spent.lost \/ failed)
      OBVIOUS
    <3>2. spent \in SpentType /\ spent.requests \in Nat /\ spent.faults \in Nat
      BY <1>1 DEF TypesOK, SpentType
    <3>3. PICK n \in Nat, k \in Nat :
            n = spent.requests + 1 /\ k = IF failed THEN spent.faults + 1 ELSE spent.faults
      BY <3>2
    <3>4. spent' = [spent EXCEPT !.requests = n, !.lost = b, !.faults = k]
      BY <2>1, <3>1, <3>3
    <3>5. spent' \in SpentType /\ spent'.faults = k
      BY <3>2, <3>4 DEF SpentType
    <3>. QED  BY <3>2, <3>3, <3>5
  <2>5. btSuspended' \in BOOLEAN
    BY <2>1
  <2>4. TypesOK'
    BY <1>1, <1>2, <2>2, <2>3, <2>5, TypesStay, TypesKept
  <2>. QED  BY <1>2, <1>3, <2>3, <2>4, TouchStep
<1>6. CASE Collect
  <2>1. /\ getOrphanStream_l \in SUBSET Streams /\ Retries \in SUBSET Streams
        /\ \A d : getActiveStream_l(d) \in SUBSET Streams
    BY DEF getOrphanStream_l, Retries, getActiveStream_l, Known
  <2>2. bt' \in BtType
    <3>1. PICK list \in SUBSET Streams :
            \/ bt' = BtRest
            \/ bt' = [bt EXCEPT !.pc = "prepare", !.list = list,
                               !.combo = list \cap getActiveStream_l(StandIn)]
            \/ bt' = [bt EXCEPT !.pc = "take", !.list = list, !.orphans = getOrphanStream_l,
                               !.retry = Retries]
      <4>1. PICK list \in {CASE bt.op = "suspend" -> getActiveStream_l("bt")
                    [] bt.op = "reconfigure" ->
                         getActiveStream_l("bt")
                           \cup {s \in getOrphanStream_l : str[s].asked = {"bt"}}
                    [] OTHER -> getActiveStream_l(StandIn)} :
               bt' = IF bt.op # "resume"
                     THEN IF list = {} THEN BtRest
                          ELSE [bt EXCEPT !.pc = "prepare", !.list = list,
                                          !.combo = list \cap getActiveStream_l(StandIn)]
                     ELSE IF list \cup getOrphanStream_l \cup Retries = {} THEN BtRest
                          ELSE [bt EXCEPT !.pc = "take", !.list = list,
                                          !.orphans = getOrphanStream_l, !.retry = Retries]
        BY <1>6 DEF Collect
      <4>2. list \in SUBSET Streams
        BY <2>1, <4>1
      <4>. QED  BY <4>1, <4>2
    <3>2. bt \in BtType
      BY <1>1 DEF TypesOK
    <3>3. list \cap getActiveStream_l(StandIn) \in SUBSET Streams
      OBVIOUS
    <3>4. CASE bt' = BtRest
      BY <1>4, <3>4
    <3>5. CASE bt' = [bt EXCEPT !.pc = "prepare", !.list = list,
                               !.combo = list \cap getActiveStream_l(StandIn)]
      BY <3>2, <3>3, <3>5 DEF BtType
    <3>6. CASE bt' = [bt EXCEPT !.pc = "take", !.list = list, !.orphans = getOrphanStream_l,
                               !.retry = Retries]
      BY <2>1, <3>2, <3>6 DEF BtType
    <3>. QED  BY <3>1, <3>4, <3>5, <3>6
  <2>3. UNCHANGED <<btSuspended, spent>>
    BY <1>6 DEF Collect
  <2>4. TypesOK'
    BY <1>1, <1>2, <2>2, <2>3, TypesStay, TypesKept
  <2>. QED  BY <1>2, <1>3, <2>3, <2>4, TouchStep
<1>7. CASE Take
  <2>1. Restored \in SUBSET Streams
    BY <1>1 DEF Restored, TypesOK, BtType
  <2>2. ASSUME NEW S \in SUBSET Streams
        PROVE  LeaveAll(S) \in SUBSET Pairs /\ Leave(S) \in SUBSET Pairs
               /\ Alone(S) \in SUBSET Streams
    BY <1>1, <2>2, KnownDevices DEF LeaveAll, Leave, Alone, Pairs, TypesOK, StreamType
  <2>3. ASSUME NEW S \in SUBSET Streams
        PROVE  /\ a2dpResume(S) \in SUBSET Pairs /\ a2dpResumeFromDummy(S) \in SUBSET Pairs
               /\ a2dpCaptureResume(S) \in SUBSET Pairs
               /\ a2dpCaptureResumeFromDummy(S) \in SUBSET Pairs
               /\ {<<s, "bt">> : s \in S} \in SUBSET Pairs
    <3>1. Alone(S) \in SUBSET Streams
      BY <2>2
    <3>2. /\ Leave(S) \in SUBSET Pairs /\ LeaveAll(S) \in SUBSET Pairs
          /\ Leave(Alone(S)) \in SUBSET Pairs /\ LeaveAll(Alone(S)) \in SUBSET Pairs
      BY <2>2, <3>1
    <3>3. {<<s, "bt">> : s \in S} \in SUBSET Pairs
      BY KnownDevices DEF Pairs
    <3>. QED  BY <3>2, <3>3 DEF a2dpResume, a2dpResumeFromDummy, a2dpCaptureResume,
              a2dpCaptureResumeFromDummy
  <2>4. PICK disc \in SUBSET Pairs :
          bt' = IF Restored = {} THEN BtRest
                ELSE [bt EXCEPT !.pc = "switch", !.list = Restored, !.lists =
                       [disc |-> disc, conn |-> {<<s, "bt">> : s \in Restored}]]
    BY <1>7, <2>1, <2>3 DEF Take
  <2>5. [disc |-> disc, conn |-> {<<s, "bt">> : s \in Restored}] \in ListsType
    BY <2>1, <2>3 DEF ListsType
  <2>6. bt' \in BtType
    BY <1>1, <1>4, <2>1, <2>4, <2>5 DEF BtType, TypesOK
  <2>7. UNCHANGED <<btSuspended, spent>>
    BY <1>7 DEF Take
  <2>8. TypesOK'
    BY <1>1, <1>2, <2>6, <2>7, TypesStay, TypesKept
  <2>. QED  BY <1>2, <1>3, <2>7, <2>8, TouchStep
<1>. QED  BY <1>5, <1>6, <1>7

\* The streams are prepared, and freed after the move.
LEMMA PrepareRight ==
  ASSUME DevInv, Prepare \/ AfterSuspend \/ AfterReconfigure \/ AfterResume
  PROVE  DevInv'
<1>1. TypesOK
  BY DEF DevInv
<1>2. UNCHANGED <<scenario, use, reg, btSuspended, client, spent>>
  BY DEF Prepare, AfterSuspend, AfterReconfigure, AfterResume, After
<1>3. BtRest \in BtType
  BY DEF BtRest, BtType, Ops, NoLists, ListsType
<1>4. \A s \in Streams : str[s] \in StreamType
  BY <1>1 DEF TypesOK
<1>5. CASE Prepare
  <2>1. /\ \A s \in Streams : str'[s] = (IF s \in bt.list THEN Prepared(s) ELSE str[s])
        /\ str' = [s \in Streams |-> str'[s]]
    BY <1>5 DEF Prepare
  <2>2. \A s \in Streams : Touched(str[s], str'[s])
    BY <1>1, <1>4, <2>1, PreparedTouched, HelpersTouch
  <2>3. bt' \in BtType
    <3>1. PICK moved \in SUBSET Streams, conn \in SUBSET Pairs :
            bt' = [bt EXCEPT !.pc = "switch", !.lists =
                     [disc |-> {<<s, "bt">> : s \in moved}, conn |-> conn]]
      <4>1. PICK moved, A : /\ moved \subseteq bt.list /\ A \subseteq moved
              /\ bt' = [bt EXCEPT !.pc = "switch", !.lists =
                     [disc |-> {<<s, "bt">> : s \in moved},
                      conn |-> {<<s, IF bt.op = "reconfigure" THEN "bt" ELSE StandIn>> :
                                 s \in A}]]
        BY <1>5 DEF Prepare
      <4>2. moved \in SUBSET Streams /\ A \in SUBSET Streams
        BY <1>1, <4>1 DEF TypesOK, BtType
      <4>3. {<<s, IF bt.op = "reconfigure" THEN "bt" ELSE StandIn>> : s \in A} \in SUBSET Pairs
        BY <4>2, KnownDevices DEF Pairs
      <4>. QED  BY <4>1, <4>2, <4>3
    <3>2. {<<s, "bt">> : s \in moved} \in SUBSET Pairs
      BY KnownDevices DEF Pairs
    <3>3. [disc |-> {<<s, "bt">> : s \in moved}, conn |-> conn] \in ListsType
      BY <3>2 DEF ListsType
    <3>. QED  BY <1>1, <3>1, <3>3 DEF TypesOK, BtType
  <2>4. TypesOK'
    <3>1. str' \in [Streams -> StreamType]
      <4>1. \A s \in Streams : str'[s] \in StreamType
        BY <2>2 DEF Touched
      <4>. QED  BY <2>1, <4>1
    <3>. QED  BY <1>1, <1>2, <2>3, <3>1, TypesStay, TypesKept
  <2>. QED  BY <1>2, <2>2, <2>4, TouchStep
<1>6. CASE AfterSuspend \/ AfterReconfigure \/ AfterResume
  <2>1. {"bt"} \in SUBSET (Devices \cup {"none"}) /\ {} \in SUBSET (Devices \cup {"none"})
    BY KnownDevices
  <2>2. ASSUME NEW s \in Streams
        PROVE  /\ Touched(str[s], str[s]) /\ Touched(str[s], Unpause(s, str[s]))
               /\ Touched(str[s], [str[s] EXCEPT !.susp = {"bt"}])
               /\ Touched(str[s], Unmute(Unpause(s, str[s])))
               /\ Touched(str[s], [str[s] EXCEPT !.susp = {}])
               /\ Touched(str[s], [Unmute(str[s]) EXCEPT !.susp = {}])
    <3>1. /\ Touched(str[s], str[s]) /\ Touched(str[s], Unpause(s, str[s]))
          /\ Touched(str[s], Unmute(str[s]))
          /\ Touched(str[s], [str[s] EXCEPT !.susp = {"bt"}])
          /\ Touched(str[s], [str[s] EXCEPT !.susp = {}])
      BY <1>4, <2>1, HelpersTouch
    <3>2. Unpause(s, str[s]) \in StreamType /\ Unmute(str[s]) \in StreamType
      BY <3>1 DEF Touched
    <3>3. /\ Touched(Unpause(s, str[s]), Unmute(Unpause(s, str[s])))
          /\ Touched(Unmute(str[s]), [Unmute(str[s]) EXCEPT !.susp = {}])
      BY <2>1, <3>2, HelpersTouch
    <3>. QED  BY <3>1, <3>3, TouchTrans
  <2>3. PICK y : /\ str' = [s \in Streams |-> IF s \in bt.list \cap Known THEN y[s] ELSE str[s]]
                 /\ \A s \in Streams : Touched(str[s], y[s])
                 /\ bt' = BtRest
    <3>1. CASE AfterSuspend
      <4>. DEFINE y == [s \in Streams |-> IF scenario.out THEN Unpause(s, str[s])
                                          ELSE [str[s] EXCEPT !.susp = {"bt"}]]
      <4>1. \A s \in Streams : Touched(str[s], y[s])
        BY <2>2
      <4>2. After("suspend", y)
        BY <3>1 DEF AfterSuspend
      <4>. QED  BY <4>1, <4>2 DEF After
    <3>2. CASE AfterReconfigure
      <4>. DEFINE y == [s \in Streams |-> Unmute(Unpause(s, str[s]))]
      <4>1. \A s \in Streams : Touched(str[s], y[s])
        BY <2>2
      <4>2. After("reconfigure", y)
        BY <3>2 DEF AfterReconfigure
      <4>. QED  BY <4>1, <4>2 DEF After
    <3>3. CASE AfterResume
      <4>. DEFINE y == [s \in Streams |->
                         [IF scenario.dummy /\ ~str[s].a2dpMuted THEN str[s] ELSE Unmute(str[s])
                            EXCEPT !.susp = {}]]
      <4>1. \A s \in Streams : Touched(str[s], y[s])
        BY <2>2
      <4>2. After("resume", y)
        BY <3>3 DEF AfterResume
      <4>. QED  BY <4>1, <4>2 DEF After
    <3>. QED  BY <1>6, <3>1, <3>2, <3>3
  <2>4. \A s \in Streams : Touched(str[s], str'[s])
    BY <2>2, <2>3
  <2>5. TypesOK'
    <3>1. str' \in [Streams -> StreamType] /\ bt' \in BtType
      BY <1>3, <2>3, <2>4 DEF Touched
    <3>. QED  BY <1>1, <1>2, <3>1, TypesStay, TypesKept
  <2>. QED  BY <1>2, <2>4, <2>5, TouchStep
<1>. QED  BY <1>5, <1>6

\* The switches of the manager.
LEMMA BtSwitchRight ==
  ASSUME DevInv, BtSwitch \/ Reset
  PROVE  DevInv'
<1>1. TypesOK /\ Places
  BY DEF DevInv
<1>2. UNCHANGED <<scenario, btSuspended, client>>
  BY DEF BtSwitch, Reset
<1>3. BtRest \in BtType
  BY DEF BtRest, BtType, Ops, NoLists, ListsType
<1>4. bt' \in BtType
  <2>1. bt' \in {BtRest, [bt EXCEPT !.pc = "after"], [bt EXCEPT !.pc = "reset"]}
    BY DEF BtSwitch, Reset
  <2>. QED  BY <1>1, <1>3, <2>1 DEF TypesOK, BtType
<1>5. PICK lists \in ListsType : \E r \in streamDevSwitch(lists) :
               Switch(lists, r) /\ Spend(r, bt.op # "suspend")
  <2>1. CASE BtSwitch
    BY <1>1, <2>1 DEF BtSwitch, TypesOK, BtType
  <2>2. CASE Reset
    <3>1. \A d \in {"bt", StandIn} : getSharedBEActiveStreamDevs(d) \in SUBSET Pairs
      BY KnownDevices DEF getSharedBEActiveStreamDevs, Pairs, Known
    <3>2. PICK d \in {"bt", StandIn} :
            \E r \in streamDevSwitch([disc |-> bt.lists.disc \cup getSharedBEActiveStreamDevs(d),
                                      conn |-> bt.lists.conn \cup getSharedBEActiveStreamDevs(d)]) :
              /\ Switch([disc |-> bt.lists.disc \cup getSharedBEActiveStreamDevs(d),
                         conn |-> bt.lists.conn \cup getSharedBEActiveStreamDevs(d)], r)
              /\ Spend(r, bt.op # "suspend")
      BY <2>2 DEF Reset
    <3>3. [disc |-> bt.lists.disc \cup getSharedBEActiveStreamDevs(d),
           conn |-> bt.lists.conn \cup getSharedBEActiveStreamDevs(d)] \in ListsType
      BY <1>1, <3>1 DEF ListsType, TypesOK, BtType
    <3>. QED  BY <3>2, <3>3
  <2>. QED  BY <2>1, <2>2
<1>6. PICK r \in streamDevSwitch(lists) : Switch(lists, r) /\ Spend(r, bt.op # "suspend")
  BY <1>5
<1>7. str' = r.w.str
  BY <1>6 DEF Switch
<1>8. /\ str' \in [Streams -> StreamType] /\ r.ok \in BOOLEAN /\ r.faults \in {0, 1}
      /\ \A s \in Streams : str'[s].state = str[s].state
  BY <1>7, SwitchTypes
<1>9. spent' \in SpentType /\ spent'.faults = spent.faults + r.faults
  <2>1. PICK c \in BOOLEAN : c = (bt.op # "suspend")
    OBVIOUS
  <2>2. Spend(r, c) /\ spent \in SpentType
    BY <1>1, <1>6, <2>1 DEF TypesOK
  <2>. QED  BY <1>8, <2>2, SpendTypes
<1>10. TypesOK'
  BY <1>1, <1>2, <1>4, <1>8, <1>9, TypesStay, TypesKept
<1>11. Places' /\ Registered' = Registered
  BY <1>1, <1>2, <1>8, PlacesStay DEF Registered
<1>. QED  BY <1>6, <1>9, <1>10, <1>11, SwitchStep

-----------------------------------------------------------------------------
(* The steps of the clients.                                               *)

Pcs == {"rest", "opening", "starting", "registering", "stopping", "closing", "deleting",
        "routing"}

\* A client at the beginning of a part of a call.
LEMMA AtTyped ==
  /\ ClientRest \in ClientType /\ ClientRest.pc = "rest" /\ NoLists \in ListsType
  /\ \A p \in Pcs : At(p) \in ClientType /\ At(p).pc = p
<1>1. NoLists \in ListsType
  BY DEF NoLists, ListsType
<1>2. ClientRest \in ClientType /\ ClientRest.pc = "rest"
  BY <1>1 DEF ClientRest, ClientType
<1>3. ASSUME NEW p \in Pcs  PROVE At(p) \in ClientType /\ At(p).pc = p
  BY <1>2 DEF At, ClientType, Pcs
<1>. QED  BY <1>1, <1>2, <1>3

\* The client of one stream moves on.
LEMMA ClientMoves ==
  ASSUME TypesOK, NEW s \in Streams, NEW c \in ClientType, client' = [client EXCEPT ![s] = c]
  PROVE  /\ client' \in [Streams -> ClientType] /\ client'[s] = c
         /\ \A t \in Streams \ {s} : client'[t] = client[t]
<1>1. client \in [Streams -> ClientType]
  BY DEF TypesOK
<1>. QED  BY <1>1

\* A call is counted, and made by a client at rest.
LEMMA CallMade ==
  ASSUME TypesOK, NEW s \in Streams, NEW c \in ClientType, Calls(s, c)
  PROVE  /\ spent' \in SpentType /\ spent'.faults = spent.faults
         /\ client' = [client EXCEPT ![s] = c] /\ client[s].pc = "rest"
<1>1. spent \in SpentType
  BY DEF TypesOK
<1>2. /\ spent' = [spent EXCEPT !.calls = @ + 1]
      /\ client' = [client EXCEPT ![s] = c] /\ client[s].pc = "rest"
  BY DEF Calls
<1>. QED  BY <1>1, <1>2 DEF SpentType

\* A call that touches streams keeps counts and list right.
LEMMA CallTouches ==
  ASSUME DevInv, TypesOK', UNCHANGED <<use, reg>>, spent'.faults = spent.faults,
         \A t \in Streams : Touched(str[t], str'[t]),
         NEW s \in Streams, \A t \in Streams \ {s} : client'[t] = client[t],
         client[s].pc # "registering", client'[s].pc # "registering",
         At1(client'[s].pc, str'[s].state)
  PROVE  DevInv'
<1>3. str' \in [Streams -> StreamType]
  BY DEF TypesOK
<1>4. /\ Right(str', use', reg')
      /\ \A S \in SUBSET Streams : Complete(str, reg, S) => Complete(str', reg', S)
  BY <1>3, TouchedRight DEF DevInv
<1>5. Registered' = Registered /\ Registered \in SUBSET Streams
  BY DEF Registered
<1>6. spent'.faults = 0 => Complete(str', reg', Registered')
  BY <1>4, <1>5 DEF DevInv
<1>7. ASSUME NEW t \in Streams  PROVE At1(client'[t].pc, str'[t].state)
  <2>1. CASE t = s
    BY <2>1
  <2>2. CASE t # s
    <3>1. At1(client[t].pc, str[t].state) /\ Touched(str[t], str'[t])
      BY DEF DevInv, Places
    <3>. QED  BY <2>2, <3>1 DEF At1, Touched, Live, InSession
  <2>. QED  BY <2>1, <2>2
<1>. QED  BY <1>4, <1>6, <1>7 DEF DevInv, Places

\* Whether a stream holds a device in a session, and whether it plays on it.
In(a, d) == InSession(a.state) /\ d \in a.dev
On(a, d) == Live(a.state) /\ d \in a.dev
InBit(a, d) == IF In(a, d) THEN 1 ELSE 0
OnBit(a, d) == IF On(a, d) THEN 1 ELSE 0

UseType == [Devices -> [count : Nat, startStop : Nat]]

\* What one stream has to do with the counts of a device.
LEMMA OneHolds ==
  ASSUME Right(str, use, reg), NEW s \in Streams, NEW d \in Devices
  PROVE  /\ use[d].count \in Nat /\ use[d].startStop \in Nat
         /\ In(str[s], d) => use[d].count >= 1
         /\ On(str[s], d) => use[d].startStop >= 1
         /\ use[d].count = 0 => use[d].startStop = 0
         /\ use[d].count = 1 /\ In(str[s], d) /\ ~On(str[s], d) => use[d].startStop = 0
<1>. DEFINE H == Holders(str, d)
            P == Players(str, d)
<1>1. /\ use[d] = [count |-> Cardinality(H), startStop |-> Cardinality(P)]
      /\ P \subseteq H /\ IsFiniteSet(H) /\ IsFiniteSet(P)
      /\ Cardinality(H) \in Nat /\ Cardinality(P) \in Nat
  BY HoldersFinite DEF Right, Counted
<1>2. (s \in H <=> In(str[s], d)) /\ (s \in P <=> On(str[s], d))
  BY DEF Holders, Players, In, On
<1>. HIDE DEF H, P
<1>3. Cardinality(P) <= Cardinality(H)
  BY <1>1, FS_Subset
<1>4. s \in H => Cardinality(H) >= 1
  BY <1>1, FS_EmptySet
<1>5. s \in P => Cardinality(P) >= 1
  BY <1>1, FS_EmptySet
<1>6. ASSUME s \in H, s \notin P, Cardinality(H) = 1  PROVE Cardinality(P) = 0
  <2>1. P \subseteq H \ {s} /\ IsFiniteSet(H \ {s})
    BY <1>1, <1>6, FS_Subset
  <2>2. Cardinality(H \ {s}) = Cardinality(H) - 1
    BY <1>1, <1>6, FS_RemoveElement
  <2>3. H \ {s} = {}
    BY <1>6, <2>1, <2>2, FS_EmptySet
  <2>. QED  BY <2>1, <2>3, FS_EmptySet
<1>. QED  BY <1>1, <1>2, <1>3, <1>4, <1>5, <1>6

\* The counters are natural numbers.
LEMMA UseTyped == Right(str, use, reg) => use \in UseType
<1>1. \A d \in Devices : /\ Cardinality(Holders(str, d)) \in Nat
                          /\ Cardinality(Players(str, d)) \in Nat
  BY HoldersFinite
<1>. QED  BY <1>1 DEF Right, Counted, UseType

\* A set that changes by one element only.
LEMMA OneElement ==
  ASSUME NEW A \in SUBSET Streams, NEW B \in SUBSET Streams, NEW s \in Streams,
         \A t \in Streams : t # s => (t \in A <=> t \in B)
  PROVE  /\ Cardinality(A) \in Nat
         /\ Cardinality(B) = Cardinality(A) - (IF s \in A THEN 1 ELSE 0)
                                          + (IF s \in B THEN 1 ELSE 0)
<1>1. IsFiniteSet(A) /\ IsFiniteSet(B)
  BY SwitchAssumption, FS_Subset
<1>2. Cardinality(A) \in Nat /\ Cardinality(B) \in Nat
  BY <1>1, FS_CardinalityType
<1>3. CASE s \in A <=> s \in B
  <2>1. A = B
    BY <1>3
  <2>. QED  BY <1>2, <2>1
<1>4. CASE s \notin A /\ s \in B
  <2>1. B = A \cup {s}
    BY <1>4
  <2>. QED  BY <1>1, <1>2, <1>4, <2>1, FS_AddElement
<1>5. CASE s \in A /\ s \notin B
  <2>1. A = B \cup {s}
    BY <1>5
  <2>. QED  BY <1>1, <1>2, <1>5, <2>1, FS_AddElement
<1>. QED  BY <1>3, <1>4, <1>5

\* A stream that is not listed, or no longer, moves, and the counters of its devices with it.
LEMMA OneStep ==
  ASSUME DevInv, TypesOK', spent'.faults = spent.faults, NEW s \in Streams,
         \A t \in Streams \ {s} : str'[t] = str[t] /\ client'[t] = client[t],
         At1(client'[s].pc, str'[s].state),
         Live(str'[s].state) => client'[s].pc = "registering",
         reg' \subseteq reg, \A q \in reg : q[2] # s => q \in reg',
         \A d \in Devices : <<d, s>> \notin reg',
         use' \in UseType,
         \A d \in Devices :
           /\ use'[d].count = use[d].count - InBit(str[s], d) + InBit(str'[s], d)
           /\ use'[d].startStop = use[d].startStop - OnBit(str[s], d) + OnBit(str'[s], d)
  PROVE  DevInv'
<1>1. TypesOK /\ Places /\ Right(str, use, reg)
  BY DEF DevInv
<1>2. str' \in [Streams -> StreamType]
  BY DEF TypesOK
<1>5. ASSUME NEW d \in Devices
      PROVE  /\ \A t \in Streams : t # s => (t \in Players(str, d) <=> t \in Players(str', d))
             /\ \A t \in Streams : t # s => (t \in Holders(str, d) <=> t \in Holders(str', d))
             /\ Players(str, d) \in SUBSET Streams /\ Players(str', d) \in SUBSET Streams
             /\ Holders(str, d) \in SUBSET Streams /\ Holders(str', d) \in SUBSET Streams
             /\ s \in Players(str', d) <=> On(str'[s], d)
             /\ s \in Players(str, d) <=> On(str[s], d)
             /\ s \in Holders(str', d) <=> In(str'[s], d)
             /\ s \in Holders(str, d) <=> In(str[s], d)
  BY DEF Players, Holders, In, On
<1>6. ASSUME NEW d \in Devices
      PROVE  /\ use'[d].count = Cardinality(Holders(str', d))
             /\ use'[d].startStop = Cardinality(Players(str', d))
  <2>1. use[d].count = Cardinality(Holders(str, d))
        /\ use[d].startStop = Cardinality(Players(str, d))
    BY <1>1 DEF Right, Counted
  <2>2. Cardinality(Holders(str', d)) =
          Cardinality(Holders(str, d)) - InBit(str[s], d) + InBit(str'[s], d)
    <3>1. PICK A, B : A = Holders(str, d) /\ B = Holders(str', d)
      OBVIOUS
    <3>2. /\ A \in SUBSET Streams /\ B \in SUBSET Streams
          /\ \A t \in Streams : t # s => (t \in A <=> t \in B)
          /\ (s \in A <=> In(str[s], d)) /\ (s \in B <=> In(str'[s], d))
      BY <1>5, <3>1
    <3>3. Cardinality(B) = Cardinality(A) - (IF s \in A THEN 1 ELSE 0)
                                          + (IF s \in B THEN 1 ELSE 0)
      BY <3>2, OneElement
    <3>. QED  BY <3>1, <3>2, <3>3 DEF InBit
  <2>3. Cardinality(Players(str', d)) =
          Cardinality(Players(str, d)) - OnBit(str[s], d) + OnBit(str'[s], d)
    <3>1. PICK A, B : A = Players(str, d) /\ B = Players(str', d)
      OBVIOUS
    <3>2. /\ A \in SUBSET Streams /\ B \in SUBSET Streams
          /\ \A t \in Streams : t # s => (t \in A <=> t \in B)
          /\ (s \in A <=> On(str[s], d)) /\ (s \in B <=> On(str'[s], d))
      BY <1>5, <3>1
    <3>3. Cardinality(B) = Cardinality(A) - (IF s \in A THEN 1 ELSE 0)
                                          + (IF s \in B THEN 1 ELSE 0)
      BY <3>2, OneElement
    <3>. QED  BY <3>1, <3>2, <3>3 DEF OnBit
  <2>. QED  BY <2>1, <2>2, <2>3
<1>7. Counted(str', use')
  <2>1. \A d \in Devices : use'[d] = [count |-> use'[d].count, startStop |-> use'[d].startStop]
    BY DEF UseType
  <2>. QED  BY <1>6, <2>1 DEF Counted, UseType
<1>8. Listed(str', reg')
  <2>1. ASSUME NEW q \in reg'  PROVE q \in Devices \X Streams /\ q[2] \in Players(str', q[1])
    <3>1. q \in Devices \X Streams /\ q[2] \in Players(str, q[1])
      BY <1>1 DEF Right, Listed
    <3>2. PICK d \in Devices, t \in Streams : q = <<d, t>>
      BY <3>1
    <3>3. t # s
      BY <3>2
    <3>. QED  BY <1>5, <3>1, <3>2, <3>3
  <2>. QED  BY <2>1 DEF Listed
<1>9. ASSUME spent'.faults = 0  PROVE Complete(str', reg', Registered')
  <2>1. Complete(str, reg, Registered)
    BY <1>9 DEF DevInv
  <2>2. ASSUME NEW d \in Devices, NEW t \in Registered', t \in Players(str', d)
        PROVE  <<d, t>> \in reg'
    <3>1. t \in Streams /\ Live(str'[t].state)
      BY <2>2 DEF Players
    <3>2. t # s
      BY <2>2, <3>1 DEF Registered
    <3>3. t \in Registered /\ t \in Players(str, d)
      BY <1>5, <2>2, <3>1, <3>2 DEF Registered
    <3>. QED  BY <2>1, <3>2, <3>3 DEF Complete
  <2>. QED  BY <2>2 DEF Complete
<1>10. Places'
  BY <1>1 DEF Places
<1>. QED  BY <1>2, <1>7, <1>8, <1>9, <1>10 DEF DevInv, Right

\* The two counts of one device after each operation.
LEMMA CountsAfter ==
  ASSUME NEW u \in UseType, NEW D, NEW d \in Devices
  PROVE  /\ u[d].count \in Nat /\ u[d].startStop \in Nat
         /\ Opened(u, D)[d].count = IF d \in D THEN u[d].count + 1 ELSE u[d].count
         /\ Opened(u, D)[d].startStop = u[d].startStop
         /\ Started(u, D)[d].count = u[d].count
         /\ Started(u, D)[d].startStop = IF d \in D THEN u[d].startStop + 1 ELSE u[d].startStop
         /\ Stopped(u, D)[d].count = u[d].count
         /\ Stopped(u, D)[d].startStop =
              IF d \in D /\ u[d].startStop > 0 THEN u[d].startStop - 1 ELSE u[d].startStop
         /\ Closed(u, D)[d].count =
              IF d \in D /\ u[d].count > 0 THEN u[d].count - 1 ELSE u[d].count
         /\ Closed(u, D)[d].startStop =
              IF d \in D /\ u[d].count = 1 THEN 0 ELSE u[d].startStop
<1>1. u[d].count \in Nat /\ u[d].startStop \in Nat
  BY DEF UseType
<1>2. /\ Opened(u, D)[d].count = IF d \in D THEN u[d].count + 1 ELSE u[d].count
      /\ Opened(u, D)[d].startStop = u[d].startStop
      /\ Started(u, D)[d].count = u[d].count
      /\ Started(u, D)[d].startStop = IF d \in D THEN u[d].startStop + 1 ELSE u[d].startStop
  BY DEF Opened, Started, UseType
<1>3. /\ Stopped(u, D)[d].count = u[d].count
      /\ Stopped(u, D)[d].startStop =
           IF d \in D /\ u[d].startStop > 0 THEN u[d].startStop - 1 ELSE u[d].startStop
  BY DEF Stopped, UseType
<1>4. /\ Closed(u, D)[d].count =
           IF d \in D /\ u[d].count > 0 THEN u[d].count - 1 ELSE u[d].count
      /\ Closed(u, D)[d].startStop =
           IF d \in D /\ u[d].count = 1 THEN 0 ELSE u[d].startStop
  BY DEF Closed, UseType
<1>. QED  BY <1>1, <1>2, <1>3, <1>4

\* The counters stay natural numbers.
LEMMA CountsTyped ==
  ASSUME NEW u \in UseType, NEW D
  PROVE  /\ Opened(u, D) \in UseType /\ Started(u, D) \in UseType
         /\ Stopped(u, D) \in UseType /\ Closed(u, D) \in UseType
<1>1. Opened(u, D) \in UseType
  BY DEF Opened, UseType
<1>2. Started(u, D) \in UseType
  BY DEF Started, UseType
<1>3. Stopped(u, D) \in UseType
  BY DEF Stopped, UseType
<1>4. Closed(u, D) \in UseType
  BY DEF Closed, UseType
<1>. QED  BY <1>1, <1>2, <1>3, <1>4

\* A stream that is not playing is not listed.
LEMMA NotListed ==
  ASSUME DevInv, NEW s \in Streams, ~Live(str[s].state)
  PROVE  \A d \in Devices : <<d, s>> \notin reg
BY DEF DevInv, Right, Listed, Players

\* A stream that does not play gets or loses its session.
LEMMA SessionStep ==
  ASSUME DevInv, UNCHANGED <<scenario, reg, btSuspended, bt, spent>>,
         NEW s \in Streams, NEW state \in States, ~Live(str[s].state), ~Live(state),
         str' = [str EXCEPT ![s].state = state],
         client' \in [Streams -> ClientType], At1(client'[s].pc, state),
         \A t \in Streams \ {s} : client'[t] = client[t],
         use' \in UseType,
         \A d \in Devices :
           /\ use'[d].count = (IF InSession(state) /\ d \in str[s].dev THEN 1 ELSE 0)
                               + use[d].count - InBit(str[s], d)
           /\ use'[d].startStop = use[d].startStop
  PROVE  DevInv'
<1>1. TypesOK /\ Right(str, use, reg)
  BY DEF DevInv
<1>2. str[s] \in StreamType /\ str \in [Streams -> StreamType]
  BY <1>1 DEF TypesOK
<1>3. /\ str' \in [Streams -> StreamType]
      /\ str'[s].state = state /\ str'[s].dev = str[s].dev
      /\ \A t \in Streams \ {s} : str'[t] = str[t] /\ client'[t] = client[t]
  BY <1>2 DEF StreamType
<1>4. TypesOK'
  BY <1>1, <1>3, TypesStay, TypesKept
<1>5. ASSUME NEW d \in Devices
      PROVE  /\ use'[d].count = use[d].count - InBit(str[s], d) + InBit(str'[s], d)
             /\ use'[d].startStop = use[d].startStop - OnBit(str[s], d) + OnBit(str'[s], d)
  <2>1. OnBit(str[s], d) = 0 /\ OnBit(str'[s], d) = 0
    BY <1>3 DEF OnBit, On
  <2>2. InBit(str'[s], d) = IF InSession(state) /\ d \in str[s].dev THEN 1 ELSE 0
    BY <1>3 DEF InBit, In
  <2>3. use[d].startStop \in Nat /\ use[d].count \in Nat /\ InBit(str[s], d) \in {0, 1}
    BY <1>1, OneHolds DEF InBit
  <2>. QED  BY <2>1, <2>2, <2>3
<1>6. /\ reg' \subseteq reg
      /\ \A q \in reg : q[2] # s => q \in reg'
      /\ \A d \in Devices : <<d, s>> \notin reg'
  BY NotListed
<1>7. At1(client'[s].pc, str'[s].state) /\ ~Live(str'[s].state)
  BY <1>3
<1>. QED  BY <1>3, <1>4, <1>5, <1>6, <1>7, OneStep

\* The session of a stream is opened and closed.
LEMMA OpenCloseRight ==
  ASSUME DevInv, NEW s \in Streams, Open(s) \/ CloseRun(s)
  PROVE  DevInv'
<1>1. TypesOK /\ Right(str, use, reg) /\ str[s] \in StreamType
  BY DEF DevInv, TypesOK
<1>2. UNCHANGED <<scenario, reg, btSuspended, bt, spent>>
  BY DEF Open, CloseRun
<1>3. /\ At("deleting") \in ClientType /\ At("deleting").pc = "deleting"
      /\ ClientRest \in ClientType /\ ClientRest.pc = "rest"
  BY AtTyped DEF Pcs
<1>4. ASSUME NEW d \in Devices
      PROVE  /\ use[d].count \in Nat /\ use[d].startStop \in Nat
             /\ In(str[s], d) => use[d].count >= 1
             /\ In(str[s], d) /\ ~On(str[s], d) /\ use[d].count = 1 => use[d].startStop = 0
  BY <1>1, OneHolds
<1>5. CASE Open(s)
  <2>1. str[s].state = "IDLE" /\ ~Live(str[s].state) /\ client[s].pc = "opening"
    BY <1>5 DEF Open, DevInv, Places, At1, Live
  <2>2. CASE UNCHANGED <<str, use>> /\ client' = [client EXCEPT ![s] = At("deleting")]
    <3>1. /\ client' \in [Streams -> ClientType] /\ client'[s].pc = "deleting"
          /\ \A t \in Streams \ {s} : client'[t] = client[t]
      BY <1>1, <1>3, <2>2, ClientMoves
    <3>2. TypesOK'
      BY <1>1, <1>2, <2>2, <3>1, TypesStay, TypesKept
    <3>3. \A t \in Streams : Touched(str[t], str'[t])
      BY <1>1, <2>2, HelpersTouch DEF TypesOK
    <3>4. At1(client'[s].pc, str'[s].state)
      BY <2>1, <2>2, <3>1 DEF At1
    <3>. QED  BY <1>2, <2>1, <2>2, <3>1, <3>2, <3>3, <3>4, CallTouches
  <2>3. CASE /\ str' = [str EXCEPT ![s].state = "INIT"] /\ use' = Opened(use, str[s].dev)
             /\ client' = [client EXCEPT ![s] = ClientRest]
    <3>1. /\ client' \in [Streams -> ClientType] /\ client'[s].pc = "rest"
          /\ \A t \in Streams \ {s} : client'[t] = client[t]
      BY <1>1, <1>3, <2>3, ClientMoves
    <3>2. use \in UseType /\ use' \in UseType
      BY <1>1, <2>3, UseTyped, CountsTyped
    <3>3. ASSUME NEW d \in Devices
          PROVE  /\ use'[d].count = (IF InSession("INIT") /\ d \in str[s].dev THEN 1 ELSE 0)
                                     + use[d].count - InBit(str[s], d)
                 /\ use'[d].startStop = use[d].startStop
      <4>1. /\ use'[d].count = IF d \in str[s].dev THEN use[d].count + 1 ELSE use[d].count
            /\ use'[d].startStop = use[d].startStop /\ use[d].count \in Nat
        BY <2>3, <3>2, CountsAfter
      <4>2. InBit(str[s], d) = 0 /\ InSession("INIT")
        BY <2>1 DEF InBit, In, InSession
      <4>. QED  BY <4>1, <4>2
    <3>4. At1(client'[s].pc, "INIT") /\ ~Live("INIT") /\ "INIT" \in States
      BY <3>1 DEF At1, Live, States
    <3>. QED  BY <1>2, <2>1, <2>3, <3>1, <3>2, <3>3, <3>4, SessionStep
  <2>. QED  BY <1>5, <2>2, <2>3 DEF Open
<1>6. CASE CloseRun(s)
  <2>1. /\ InSession(str[s].state) /\ ~Live(str[s].state)
        /\ use' = Closed(use, str[s].dev) /\ str' = [str EXCEPT ![s].state = "IDLE"]
        /\ client' = [client EXCEPT ![s] = At("deleting")]
    BY <1>6 DEF CloseRun, DevInv, Places, At1, Live, InSession
  <2>2. /\ client' \in [Streams -> ClientType] /\ client'[s].pc = "deleting"
        /\ \A t \in Streams \ {s} : client'[t] = client[t]
    BY <1>1, <1>3, <2>1, ClientMoves
  <2>3. use \in UseType /\ use' \in UseType
    BY <1>1, <2>1, UseTyped, CountsTyped
  <2>4. ASSUME NEW d \in Devices
        PROVE  /\ use'[d].count = (IF InSession("IDLE") /\ d \in str[s].dev THEN 1 ELSE 0)
                                   + use[d].count - InBit(str[s], d)
               /\ use'[d].startStop = use[d].startStop
    <3>1. /\ d \in str[s].dev => use[d].count >= 1
          /\ d \in str[s].dev /\ use[d].count = 1 => use[d].startStop = 0
      BY <1>4, <2>1 DEF In, On
    <3>0. PICK u, D : u \in UseType /\ u = use /\ D = str[s].dev /\ use' = Closed(u, D)
      BY <2>1, <2>3
    <3>2. /\ use'[d].count = IF d \in str[s].dev /\ use[d].count > 0 THEN use[d].count - 1
                             ELSE use[d].count
          /\ use'[d].startStop = IF d \in str[s].dev /\ use[d].count = 1 THEN 0
                                 ELSE use[d].startStop
          /\ use[d].count \in Nat
      BY <3>0, CountsAfter
    <3>3. (InBit(str[s], d) = IF d \in str[s].dev THEN 1 ELSE 0) /\ ~InSession("IDLE")
      BY <2>1 DEF InBit, In, InSession
    <3>4. CASE d \in str[s].dev
      BY <3>1, <3>2, <3>3, <3>4
    <3>5. CASE d \notin str[s].dev
      BY <3>2, <3>3, <3>5
    <3>. QED  BY <3>4, <3>5
  <2>5. At1(client'[s].pc, "IDLE") /\ ~Live("IDLE") /\ "IDLE" \in States
    BY <2>2 DEF At1, Live, States
  <2>. QED  BY <1>2, <2>1, <2>2, <2>3, <2>4, <2>5, SessionStep
<1>. QED  BY <1>5, <1>6

\* A stream is stopped: it is no longer listed, and its devices are stopped once less.
LEMMA StopRunRight ==
  ASSUME DevInv, NEW s \in Streams, StopRun(s)
  PROVE  DevInv'
<1>1. TypesOK /\ Right(str, use, reg) /\ str[s] \in StreamType /\ str \in [Streams -> StreamType]
  BY DEF DevInv, TypesOK
<1>2. /\ UNCHANGED <<scenario, btSuspended, bt, spent>> /\ client[s].pc = "stopping"
      /\ str' = [str EXCEPT ![s].state = "STOPPED", ![s].askedPause = FALSE]
      /\ reg' = reg \ {<<d, s>> : d \in str[s].dev} /\ use' = Stopped(use, str[s].dev)
      /\ client' = [client EXCEPT ![s] = At(client[s].then)]
  BY DEF StopRun
<1>3. Live(str[s].state)
  BY <1>2 DEF DevInv, Places, At1
<1>4. client[s].then \in {"rest", "closing"}
  BY <1>1 DEF TypesOK, ClientType
<1>5. At(client[s].then) \in ClientType /\ At(client[s].then).pc \in {"rest", "closing"}
  BY <1>4, AtTyped DEF Pcs
<1>6. /\ client' \in [Streams -> ClientType] /\ client'[s].pc \in {"rest", "closing"}
      /\ \A t \in Streams \ {s} : client'[t] = client[t]
  BY <1>1, <1>2, <1>5, ClientMoves
<1>7. /\ str' \in [Streams -> StreamType]
      /\ str'[s].state = "STOPPED" /\ str'[s].dev = str[s].dev
      /\ \A t \in Streams \ {s} : str'[t] = str[t]
  BY <1>1, <1>2 DEF StreamType, States
<1>8. TypesOK'
  BY <1>1, <1>2, <1>6, <1>7, TypesStay, TypesKept
<1>9. use \in UseType /\ use' \in UseType
  BY <1>1, <1>2, UseTyped, CountsTyped
<1>10. ASSUME NEW d \in Devices
       PROVE  /\ use'[d].count = use[d].count - InBit(str[s], d) + InBit(str'[s], d)
              /\ use'[d].startStop = use[d].startStop - OnBit(str[s], d) + OnBit(str'[s], d)
  <2>0. PICK u, D : u \in UseType /\ u = use /\ D = str[s].dev /\ use' = Stopped(u, D)
    BY <1>2, <1>9
  <2>1. /\ use'[d].count = use[d].count
        /\ use'[d].startStop = IF d \in str[s].dev /\ use[d].startStop > 0
                               THEN use[d].startStop - 1 ELSE use[d].startStop
        /\ use[d].count \in Nat /\ use[d].startStop \in Nat
    BY <2>0, CountsAfter
  <2>2. d \in str[s].dev => use[d].startStop >= 1
    BY <1>1, <1>3, OneHolds DEF On
  <2>3. /\ InBit(str[s], d) = InBit(str'[s], d) /\ InBit(str[s], d) \in {0, 1}
        /\ OnBit(str'[s], d) = 0
        /\ OnBit(str[s], d) = IF d \in str[s].dev THEN 1 ELSE 0
    BY <1>3, <1>7 DEF InBit, In, OnBit, On, Live, InSession
  <2>4. CASE d \in str[s].dev
    BY <2>1, <2>2, <2>3, <2>4
  <2>5. CASE d \notin str[s].dev
    BY <2>1, <2>3, <2>5
  <2>. QED  BY <2>4, <2>5
<1>11. reg' \subseteq reg /\ \A q \in reg : q[2] # s => q \in reg'
  BY <1>2
<1>12. \A d \in Devices : <<d, s>> \notin reg'
  <2>1. \A d \in Devices : <<d, s>> \in reg => d \in str[s].dev
    BY <1>1 DEF Right, Listed, Players
  <2>. QED  BY <1>2, <2>1
<1>13. At1(client'[s].pc, str'[s].state) /\ ~Live(str'[s].state)
  BY <1>6, <1>7 DEF At1, Live
<1>14. \A t \in Streams \ {s} : str'[t] = str[t] /\ client'[t] = client[t]
  BY <1>6, <1>7
<1>15. spent'.faults = spent.faults
  BY <1>2
<1>. QED  BY <1>8, <1>9, <1>10, <1>11, <1>12, <1>13, <1>14, <1>15, OneStep

\* The devices a stream starts on are not ready, it goes to others.
LEMMA NotReady ==
  ASSUME NEW a \in StreamType
  PROVE  /\ handleBTDeviceNotReady(a) \in StreamType
         /\ handleBTDeviceNotReady(a).state = a.state
         /\ handleBTDeviceNotReadyToDummy(a) \in StreamType
         /\ handleBTDeviceNotReadyToDummy(a).state = a.state
<1>1. Mute(a) \in StreamType /\ Mute(a).state = a.state
  BY DEF Mute, StreamType
<1>2. ASSUME NEW b \in StreamType, NEW D \in SUBSET Devices,
             NEW E \in SUBSET (Devices \cup {"none"}), b.state = a.state
      PROVE  /\ [b EXCEPT !.dev = D, !.susp = E] \in StreamType
             /\ [b EXCEPT !.dev = D, !.susp = E].state = a.state
  BY <1>2 DEF StreamType
<1>3. /\ {"dummy"} \in SUBSET Devices /\ {"spkr"} \in SUBSET Devices
      /\ a.dev \ {"bt"} \in SUBSET Devices
      /\ \A D \in {{"bt"}, {"bt", "none"}, {"bt", "spkr"}} : D \in SUBSET (Devices \cup {"none"})
  BY KnownDevices DEF StreamType
<1>4. PICK m \in StreamType : m = Mute(a) /\ m.state = a.state
  BY <1>1
<1>5. handleBTDeviceNotReady(a) =
        IF a.dev = {"bt"} THEN [m EXCEPT !.dev = {"spkr"}, !.susp = {"bt"}]
        ELSE [a EXCEPT !.dev = a.dev \ {"bt"}, !.susp = {"bt", "spkr"}]
  BY <1>4 DEF handleBTDeviceNotReady
<1>6. handleBTDeviceNotReadyToDummy(a) =
        IF a.dev = {"bt"} THEN [m EXCEPT !.dev = {"dummy"}, !.susp = {"bt"}]
        ELSE [a EXCEPT !.dev = a.dev \ {"bt"}, !.susp = {"bt", "none"}]
  BY <1>4 DEF handleBTDeviceNotReadyToDummy
<1>7. handleBTDeviceNotReady(a) \in StreamType /\ handleBTDeviceNotReady(a).state = a.state
  <2>1. PICK y : y = [m EXCEPT !.dev = {"spkr"}, !.susp = {"bt"}]
    OBVIOUS
  <2>2. PICK z : z = [a EXCEPT !.dev = a.dev \ {"bt"}, !.susp = {"bt", "spkr"}]
    OBVIOUS
  <2>3. y \in StreamType /\ y.state = a.state
    BY <1>2, <1>3, <1>4, <2>1
  <2>4. z \in StreamType /\ z.state = a.state
    BY <1>2, <1>3, <2>2
  <2>. QED  BY <1>5, <2>1, <2>2, <2>3, <2>4
<1>8. /\ handleBTDeviceNotReadyToDummy(a) \in StreamType
      /\ handleBTDeviceNotReadyToDummy(a).state = a.state
  <2>1. PICK y : y = [m EXCEPT !.dev = {"dummy"}, !.susp = {"bt"}]
    OBVIOUS
  <2>2. PICK z : z = [a EXCEPT !.dev = a.dev \ {"bt"}, !.susp = {"bt", "none"}]
    OBVIOUS
  <2>3. y \in StreamType /\ y.state = a.state
    BY <1>2, <1>3, <1>4, <2>1
  <2>4. z \in StreamType /\ z.state = a.state
    BY <1>2, <1>3, <2>2
  <2>. QED  BY <1>6, <2>1, <2>2, <2>3, <2>4
<1>. QED  BY <1>7, <1>8

\* A stream is started: on some of its devices, or another in their stead, or not at all.
LEMMA StartRunRight ==
  ASSUME DevInv, NEW s \in Streams, StartRun(s)
  PROVE  DevInv'
<1>1. TypesOK /\ Right(str, use, reg) /\ str[s] \in StreamType /\ str \in [Streams -> StreamType]
  BY DEF DevInv, TypesOK
<1>2. UNCHANGED <<scenario, reg, btSuspended, bt, spent>> /\ client[s].pc = "starting"
  BY DEF StartRun
<1>3. str[s].state \in {"INIT", "STOPPED"}
  BY <1>2 DEF DevInv, Places, At1
<1>4. PICK st \in StreamType, starts \in SUBSET Devices :
        /\ st.state = str[s].state /\ starts \subseteq st.dev
        /\ use' = Started(Closed(Opened(Closed(use, str[s].dev \ st.dev),
                                        st.dev \ str[s].dev), st.dev \ starts), starts)
        /\ str' = [str EXCEPT ![s] = [st EXCEPT
             !.dev = starts, !.state = IF starts = {} THEN st.state ELSE "STARTED"]]
        /\ client' = [client EXCEPT ![s] =
                        IF starts = {} THEN ClientRest ELSE At("registering")]
  <2>1. PICK st : /\ \/ st = str[s]
                     \/ st = handleBTDeviceNotReadyToDummy(str[s])
                     \/ st = handleBTDeviceNotReady(str[s])
                  /\ \E starts \in {IF scenario.out /\ btSuspended THEN st.dev \ {"bt"}
                                    ELSE st.dev} :
                       /\ use' = Started(Closed(Opened(Closed(use, str[s].dev \ st.dev),
                                                       st.dev \ str[s].dev),
                                                st.dev \ starts), starts)
                       /\ str' = [str EXCEPT ![s] = [st EXCEPT
                            !.dev = starts, !.state = IF starts = {} THEN @ ELSE "STARTED"]]
                       /\ client' = [client EXCEPT ![s] =
                                       IF starts = {} THEN ClientRest ELSE At("registering")]
    BY DEF StartRun
  <2>2. st \in StreamType /\ st.state = str[s].state
    BY <1>1, <2>1, NotReady
  <2>3. st.dev \in SUBSET Devices
    BY <2>2 DEF StreamType
  <2>4. PICK starts \in SUBSET Devices :
        /\ starts \subseteq st.dev
        /\ use' = Started(Closed(Opened(Closed(use, str[s].dev \ st.dev),
                                        st.dev \ str[s].dev), st.dev \ starts), starts)
        /\ str' = [str EXCEPT ![s] = [st EXCEPT
             !.dev = starts, !.state = IF starts = {} THEN st.state ELSE "STARTED"]]
        /\ client' = [client EXCEPT ![s] =
                        IF starts = {} THEN ClientRest ELSE At("registering")]
    BY <2>1, <2>3
  <2>. QED  BY <2>2, <2>4
<1>5. PICK c \in ClientType : /\ c.pc = (IF starts = {} THEN "rest" ELSE "registering")
                              /\ client' = [client EXCEPT ![s] = c]
  BY <1>4, AtTyped DEF Pcs
<1>6. /\ client' \in [Streams -> ClientType] /\ client'[s].pc = c.pc
      /\ \A t \in Streams \ {s} : client'[t] = client[t]
  BY <1>1, <1>5, ClientMoves
<1>7. PICK state \in States : state = IF starts = {} THEN str[s].state ELSE "STARTED"
  BY <1>3 DEF States
<1>8. PICK b : b = [st EXCEPT !.dev = starts, !.state = state] /\ str' = [str EXCEPT ![s] = b]
  BY <1>4, <1>7
<1>9. b \in StreamType /\ b.dev = starts /\ b.state = state
  BY <1>8 DEF StreamType
<1>10. /\ str' \in [Streams -> StreamType] /\ str'[s].dev = starts /\ str'[s].state = state
       /\ \A t \in Streams \ {s} : str'[t] = str[t]
  BY <1>1, <1>8, <1>9
<1>11. TypesOK'
  BY <1>1, <1>2, <1>6, <1>10, TypesStay, TypesKept
<1>12. PICK A, B, C : A = str[s].dev \ st.dev /\ B = st.dev \ str[s].dev /\ C = st.dev \ starts
  OBVIOUS
<1>13. PICK u1, u2, u3 : u1 = Closed(use, A) /\ u2 = Opened(u1, B) /\ u3 = Closed(u2, C)
  OBVIOUS
<1>14. use' = Started(u3, starts)
  BY <1>4, <1>12, <1>13
<1>15. /\ use \in UseType /\ u1 \in UseType /\ u2 \in UseType /\ u3 \in UseType
       /\ use' \in UseType
  BY <1>1, <1>13, <1>14, UseTyped, CountsTyped
<1>16. ASSUME NEW d \in Devices
       PROVE  /\ use'[d].count = use[d].count - InBit(str[s], d) + InBit(str'[s], d)
              /\ use'[d].startStop = use[d].startStop - OnBit(str[s], d) + OnBit(str'[s], d)
  <2>0. PICK u : u \in UseType /\ u = use /\ u1 = Closed(u, A)
    BY <1>13, <1>15
  <2>1. /\ use[d].count \in Nat /\ use[d].startStop \in Nat
        /\ u1[d].count = IF d \in A /\ use[d].count > 0 THEN use[d].count - 1
                         ELSE use[d].count
        /\ u1[d].startStop = IF d \in A /\ use[d].count = 1 THEN 0 ELSE use[d].startStop
    BY <2>0, CountsAfter
  <2>2. /\ u1[d].count \in Nat /\ u1[d].startStop \in Nat
        /\ u2[d].count = IF d \in B THEN u1[d].count + 1 ELSE u1[d].count
        /\ u2[d].startStop = u1[d].startStop
    BY <1>13, <1>15, CountsAfter
  <2>3. /\ u2[d].count \in Nat /\ u2[d].startStop \in Nat
        /\ u3[d].count = IF d \in C /\ u2[d].count > 0 THEN u2[d].count - 1 ELSE u2[d].count
        /\ u3[d].startStop = IF d \in C /\ u2[d].count = 1 THEN 0 ELSE u2[d].startStop
    BY <1>13, <1>15, CountsAfter
  <2>4. /\ u3[d].count \in Nat /\ u3[d].startStop \in Nat
        /\ use'[d].count = u3[d].count
        /\ use'[d].startStop = IF d \in starts THEN u3[d].startStop + 1 ELSE u3[d].startStop
    <3>1. PICK w : w \in UseType /\ w = use' /\ w = Started(u3, starts)
      BY <1>14, <1>15
    <3>. QED  BY <1>15, <3>1, CountsAfter
  <2>5. /\ InSession(str[s].state) /\ ~Live(str[s].state) /\ InSession(state)
        /\ Live(state) <=> starts # {}
    BY <1>3, <1>7 DEF InSession, Live
  <2>6. /\ d \in str[s].dev => use[d].count >= 1
        /\ d \in str[s].dev /\ use[d].count = 1 => use[d].startStop = 0
        /\ use[d].count = 0 => use[d].startStop = 0
    BY <1>1, <2>5, OneHolds DEF In, On
  <2>7. /\ InBit(str[s], d) = (IF d \in str[s].dev THEN 1 ELSE 0)
        /\ InBit(str'[s], d) = (IF d \in starts THEN 1 ELSE 0)
        /\ OnBit(str[s], d) = 0
        /\ OnBit(str'[s], d) = (IF d \in starts THEN 1 ELSE 0)
    BY <1>10, <2>5 DEF InBit, In, OnBit, On
  <2>8. /\ d \in A <=> d \in str[s].dev /\ d \notin st.dev
        /\ d \in B <=> d \in st.dev /\ d \notin str[s].dev
        /\ d \in C <=> d \in st.dev /\ d \notin starts
        /\ d \in starts => d \in st.dev
    BY <1>4, <1>12
  <2>9. PICK n, m : n \in Nat /\ m \in Nat /\ n = use[d].count /\ m = use[d].startStop
    BY <2>1
  <2>10. /\ u1[d].count = IF d \in A THEN n - 1 ELSE n
         /\ u1[d].startStop = m
    <3>1. d \in A => n >= 1 /\ (n = 1 => m = 0)
      BY <2>6, <2>8, <2>9
    <3>. QED  BY <2>1, <2>9, <3>1
  <2>11. PICK n1 \in Nat : n1 = u2[d].count
    BY <2>3
  <2>12. n1 = IF d \in A THEN n - 1 ELSE IF d \in B THEN n + 1 ELSE n
    <3>1. ~(d \in A /\ d \in B)
      BY <2>8
    <3>. QED  BY <2>2, <2>9, <2>10, <2>11, <3>1
  <2>13. u2[d].startStop = m
    BY <2>2, <2>10
  <2>14. d \in C => n1 >= 1 /\ (n1 = 1 => m = 0)
    <3>1. CASE d \in C /\ d \in B
      <4>1. n1 = n + 1
        BY <2>8, <2>12, <3>1
      <4>. QED  BY <2>6, <2>9, <4>1
    <3>2. CASE d \in C /\ d \notin B
      <4>1. n1 = n /\ d \in str[s].dev
        BY <2>8, <2>12, <3>2
      <4>. QED  BY <2>6, <2>9, <4>1
    <3>. QED  BY <3>1, <3>2
  <2>15. u3[d].startStop = m /\ u3[d].count = IF d \in C THEN n1 - 1 ELSE n1
    BY <2>3, <2>11, <2>13, <2>14
  <2>16. use'[d].startStop = use[d].startStop - OnBit(str[s], d) + OnBit(str'[s], d)
    BY <2>4, <2>7, <2>9, <2>15
  <2>17. use'[d].count = IF d \in C THEN n1 - 1 ELSE n1
    BY <2>4, <2>15
  <2>18. n1 = (IF d \in st.dev THEN 1 ELSE 0) + n - (IF d \in str[s].dev THEN 1 ELSE 0)
    BY <2>8, <2>9, <2>12
  <2>19. use'[d].count = (IF d \in starts THEN 1 ELSE 0) + n
                          - (IF d \in str[s].dev THEN 1 ELSE 0)
    BY <2>8, <2>9, <2>17, <2>18
  <2>. QED  BY <2>7, <2>9, <2>16, <2>19
<1>17. /\ reg' \subseteq reg
       /\ \A q \in reg : q[2] # s => q \in reg'
       /\ \A d \in Devices : <<d, s>> \notin reg'
  BY <1>2, <1>3, NotListed DEF Live
<1>18. At1(client'[s].pc, str'[s].state) /\ (Live(str'[s].state) => client'[s].pc = "registering")
  BY <1>3, <1>5, <1>6, <1>7, <1>10 DEF At1, Live
<1>19. \A t \in Streams \ {s} : str'[t] = str[t] /\ client'[t] = client[t]
  BY <1>6, <1>10
<1>20. spent'.faults = spent.faults
  BY <1>2
<1>. QED  BY <1>11, <1>15, <1>16, <1>17, <1>18, <1>19, <1>20, OneStep

\* The devices of a stream that runs are listed.
LEMMA StartRegisterRight ==
  ASSUME DevInv, NEW s \in Streams, StartRegister(s)
  PROVE  DevInv'
<1>1. TypesOK /\ Places /\ Right(str, use, reg) /\ str \in [Streams -> StreamType]
  BY DEF DevInv, TypesOK
<1>2. /\ UNCHANGED <<scenario, str, use, btSuspended, bt, spent>>
      /\ client[s].pc = "registering"
      /\ reg' = reg \cup {<<d, s>> : d \in str[s].dev}
      /\ client' = [client EXCEPT ![s] = ClientRest]
  BY DEF StartRegister
<1>3. /\ client' \in [Streams -> ClientType] /\ client'[s].pc = "rest"
      /\ \A t \in Streams \ {s} : client'[t] = client[t]
  BY <1>1, <1>2, AtTyped, ClientMoves
<1>4. TypesOK'
  BY <1>1, <1>2, <1>3, TypesStay, TypesKept
<1>5. Live(str[s].state) /\ str[s].dev \in SUBSET Devices
  BY <1>1, <1>2 DEF Places, At1, StreamType
<1>6. \A d \in str[s].dev : s \in Players(str, d)
  BY <1>5 DEF Players
<1>7. Listed(str, reg')
  BY <1>1, <1>2, <1>5, <1>6 DEF Listed, Right
<1>8. Right(str', use', reg')
  BY <1>1, <1>2, <1>7 DEF Right, Counted, Listed, Players, Holders
<1>9. Places'
  BY <1>1, <1>2, <1>3 DEF Places, At1
<1>10. ASSUME spent'.faults = 0  PROVE Complete(str', reg', Registered')
  <2>1. Complete(str, reg, Registered)
    BY <1>2, <1>10 DEF DevInv
  <2>2. ASSUME NEW d \in Devices, NEW t \in Registered', t \in Players(str, d)
        PROVE  <<d, t>> \in reg'
    <3>1. CASE t = s
      BY <1>2, <2>2, <3>1 DEF Players
    <3>2. CASE t # s
      BY <1>2, <1>3, <2>1, <2>2, <3>2 DEF Registered, Complete
    <3>. QED  BY <3>1, <3>2
  <2>. QED  BY <1>2, <2>2 DEF Complete, Players
<1>. QED  BY <1>4, <1>8, <1>9, <1>10 DEF DevInv

\* A stream comes and goes.
LEMMA CreateDeleteRight ==
  ASSUME DevInv, NEW s \in Streams, Delete(s) \/ \E D \in Routes : Create(s, D)
  PROVE  DevInv'
<1>1. TypesOK /\ Right(str, use, reg) /\ str \in [Streams -> StreamType]
  BY DEF DevInv, TypesOK
<1>2. UNCHANGED <<scenario, use, reg, btSuspended, bt>>
  BY DEF Create, Delete
<1>3. Gone \in StreamType /\ Gone.state = "gone"
  BY DEF Gone, StreamType, States
<1>4. /\ At("opening") \in ClientType /\ At("opening").pc = "opening"
      /\ ClientRest \in ClientType /\ ClientRest.pc = "rest"
  BY AtTyped DEF Pcs
<1>5. PICK b \in StreamType, c \in ClientType :
        /\ str[s].state \in {"gone", "IDLE"} /\ b.state \in {"gone", "IDLE"}
        /\ str' = [str EXCEPT ![s] = b] /\ client' = [client EXCEPT ![s] = c]
        /\ At1(c.pc, b.state)
        /\ spent' \in SpentType /\ spent'.faults = spent.faults
  <2>1. CASE Delete(s)
    <3>1. str[s].state = "IDLE"
      BY <2>1 DEF Delete, DevInv, Places, At1
    <3>2. spent' \in SpentType /\ spent'.faults = spent.faults
      BY <1>1, <2>1 DEF Delete, TypesOK
    <3>3. At1("rest", "gone")
      BY DEF At1
    <3>. QED  BY <1>3, <1>4, <2>1, <3>1, <3>2, <3>3 DEF Delete
  <2>2. CASE \E D \in Routes : Create(s, D)
    <3>1. PICK D \in Routes : Create(s, D)
      BY <2>2
    <3>2. D \in SUBSET Devices
      BY KnownDevices DEF Routes
    <3>3. PICK b : b = [Gone EXCEPT !.state = "IDLE", !.dev = D, !.asked = D, !.agreed = D]
      OBVIOUS
    <3>4. b \in StreamType /\ b.state = "IDLE"
      BY <1>3, <3>2, <3>3 DEF StreamType, States
    <3>5. str[s] = Gone /\ str' = [str EXCEPT ![s] = b]
      BY <1>1, <3>1, <3>3 DEF Create
    <3>6. Calls(s, At("opening"))
      BY <3>1 DEF Create
    <3>7. /\ spent' \in SpentType /\ spent'.faults = spent.faults
          /\ client' = [client EXCEPT ![s] = At("opening")]
      BY <1>1, <1>4, <3>6, CallMade
    <3>8. At1("opening", "IDLE")
      BY DEF At1
    <3>. QED  BY <1>3, <1>4, <3>4, <3>5, <3>7, <3>8
  <2>. QED  BY <2>1, <2>2
<1>6. /\ client' \in [Streams -> ClientType] /\ client'[s] = c
      /\ \A t \in Streams \ {s} : client'[t] = client[t]
  BY <1>1, <1>5, ClientMoves
<1>7. /\ str' \in [Streams -> StreamType] /\ str'[s] = b
      /\ \A t \in Streams \ {s} : str'[t] = str[t]
  BY <1>1, <1>5
<1>8. TypesOK'
  BY <1>1, <1>2, <1>5, <1>6, <1>7, TypesStay, TypesKept
<1>9. use \in UseType /\ use' = use
  BY <1>1, <1>2, UseTyped
<1>10. ASSUME NEW d \in Devices
       PROVE  /\ use'[d].count = use[d].count - InBit(str[s], d) + InBit(str'[s], d)
              /\ use'[d].startStop = use[d].startStop - OnBit(str[s], d) + OnBit(str'[s], d)
  <2>1. /\ InBit(str[s], d) = 0 /\ InBit(str'[s], d) = 0
        /\ OnBit(str[s], d) = 0 /\ OnBit(str'[s], d) = 0
    BY <1>5, <1>7 DEF InBit, In, OnBit, On, InSession, Live
  <2>2. use[d].count \in Nat /\ use[d].startStop \in Nat
    BY <1>9 DEF UseType
  <2>. QED  BY <1>9, <2>1, <2>2
<1>11. /\ reg' \subseteq reg
       /\ \A q \in reg : q[2] # s => q \in reg'
       /\ \A d \in Devices : <<d, s>> \notin reg'
  BY <1>2, <1>5, NotListed DEF Live
<1>12. At1(client'[s].pc, str'[s].state) /\ ~Live(str'[s].state)
  BY <1>5, <1>6, <1>7 DEF Live
<1>13. \A t \in Streams \ {s} : str'[t] = str[t] /\ client'[t] = client[t]
  BY <1>6, <1>7
<1>. QED  BY <1>5, <1>8, <1>9, <1>10, <1>11, <1>12, <1>13, OneStep

\* A call that begins with a touch at most.
LEMMA CallRight ==
  ASSUME DevInv, UNCHANGED <<scenario, use, reg, btSuspended, bt>>,
         NEW s \in Streams, NEW c \in ClientType, Calls(s, c), c.pc # "registering",
         str' \in [Streams -> StreamType], \A t \in Streams : Touched(str[t], str'[t]),
         At1(c.pc, str'[s].state)
  PROVE  DevInv'
<1>1. TypesOK
  BY DEF DevInv
<1>2. /\ spent' \in SpentType /\ spent'.faults = spent.faults
      /\ client' = [client EXCEPT ![s] = c] /\ client[s].pc = "rest"
  BY <1>1, CallMade
<1>3. /\ client' \in [Streams -> ClientType] /\ client'[s] = c
      /\ \A t \in Streams \ {s} : client'[t] = client[t]
  BY <1>1, <1>2, ClientMoves
<1>4. TypesOK'
  BY <1>1, <1>2, <1>3, TypesStay, TypesKept
<1>. QED  BY <1>2, <1>3, <1>4, CallTouches

\* The calls that begin with a look at the stream.
LEMMA LookRight ==
  ASSUME DevInv, NEW s \in Streams, StartRead(s) \/ Stop(s) \/ Close(s)
  PROVE  DevInv'
<1>1. TypesOK /\ str \in [Streams -> StreamType]
  BY DEF DevInv, TypesOK
<1>2. UNCHANGED <<scenario, str, use, reg, btSuspended, bt>>
  BY DEF StartRead, Stop, Close
<1>3. \A t \in Streams : Touched(str[t], str'[t])
  BY <1>1, <1>2, HelpersTouch
<1>4. /\ At("starting") \in ClientType /\ At("starting").pc = "starting"
      /\ At("stopping") \in ClientType /\ At("stopping").pc = "stopping"
      /\ At("closing") \in ClientType /\ At("closing").pc = "closing"
  BY AtTyped DEF Pcs
<1>5. PICK c \in ClientType : /\ Calls(s, c) /\ c.pc # "registering"
                              /\ At1(c.pc, str[s].state)
  <2>1. CASE StartRead(s)
    <3>1. PICK y \in BOOLEAN : y = btSuspended
      BY <1>1 DEF TypesOK
    <3>2. PICK c : c = [At("starting") EXCEPT !.seen = y]
      OBVIOUS
    <3>3. c \in ClientType /\ c.pc = "starting"
      BY <1>4, <3>2 DEF ClientType
    <3>4. Calls(s, c) /\ str[s].state \in {"INIT", "STOPPED"}
      BY <2>1, <3>1, <3>2 DEF StartRead
    <3>. QED  BY <3>3, <3>4 DEF At1
  <2>2. CASE Stop(s)
    BY <1>4, <2>2 DEF Stop, At1
  <2>3. CASE Close(s)
    <3>1. CASE Live(str[s].state)
      <4>1. PICK c : c = [At("stopping") EXCEPT !.then = "closing"]
        OBVIOUS
      <4>2. c \in ClientType /\ c.pc = "stopping"
        BY <1>4, <4>1 DEF ClientType
      <4>3. Calls(s, c)
        BY <2>3, <3>1, <4>1 DEF Close
      <4>. QED  BY <3>1, <4>2, <4>3 DEF At1
    <3>2. CASE ~Live(str[s].state)
      <4>1. Calls(s, At("closing")) /\ isAlive(s)
        BY <2>3, <3>2 DEF Close
      <4>2. str[s].state \in {"INIT", "STOPPED"}
        BY <1>1, <3>2, <4>1 DEF isAlive, Live, StreamType, States
      <4>. QED  BY <1>4, <4>1, <4>2 DEF At1
    <3>. QED  BY <3>1, <3>2
  <2>. QED  BY <2>1, <2>2, <2>3
<1>6. At1(c.pc, str'[s].state)
  BY <1>2, <1>5
<1>. QED  BY <1>1, <1>2, <1>3, <1>5, <1>6, CallRight

\* A pause and its end.
LEMMA PauseRight ==
  ASSUME DevInv, NEW s \in Streams, Pause(s) \/ Resume(s)
  PROVE  DevInv'
<1>1. TypesOK /\ str \in [Streams -> StreamType]
  BY DEF DevInv, TypesOK
<1>2. UNCHANGED <<scenario, use, reg, btSuspended, bt>> /\ Calls(s, ClientRest)
  BY DEF Pause, Resume
<1>3. PICK b : /\ Touched(str[s], b) /\ str' = [str EXCEPT ![s] = b]
  <2>1. CASE Pause(s)
    <3>1. PICK b : b = [str[s] EXCEPT !.state = "PAUSED", !.isPaused = TRUE,
                                     !.askedPause = TRUE]
      OBVIOUS
    <3>2. str' = [str EXCEPT ![s] = b] /\ Live(str[s].state)
      BY <1>1, <2>1, <3>1 DEF Pause
    <3>3. str[s] \in StreamType
      BY <1>1
    <3>4. Touched(str[s], b)
      BY <3>1, <3>2, <3>3 DEF Touched, StreamType, States, Live, InSession
    <3>. QED  BY <3>2, <3>4
  <2>2. CASE Resume(s)
    <3>1. PICK b : b = [str[s] EXCEPT !.isPaused = FALSE, !.askedPause = FALSE]
      OBVIOUS
    <3>2. str' = [str EXCEPT ![s] = b]
      BY <1>1, <2>2, <3>1 DEF Resume
    <3>3. str[s] \in StreamType
      BY <1>1
    <3>4. Touched(str[s], b)
      BY <3>1, <3>3 DEF Touched, StreamType
    <3>. QED  BY <3>2, <3>4
  <2>. QED  BY <2>1, <2>2
<1>4. str' \in [Streams -> StreamType]
  BY <1>1, <1>3 DEF Touched
<1>5. \A t \in Streams : Touched(str[t], str'[t])
  BY <1>1, <1>3, HelpersTouch
<1>6. ClientRest \in ClientType /\ ClientRest.pc = "rest"
  BY AtTyped
<1>7. At1(ClientRest.pc, str'[s].state)
  BY <1>6 DEF At1
<1>. QED  BY <1>2, <1>4, <1>5, <1>6, <1>7, CallRight

\* The fields the pauses depend on.
SamePause(a, b) == /\ b.state = a.state /\ b.isPaused = a.isPaused
                   /\ b.a2dpPaused = a.a2dpPaused /\ b.askedPause = a.askedPause

\* A route asks for devices, and mutes the streams it will disturb.
LEMMA RouteShape ==
  ASSUME TypesOK, NEW s \in Streams, NEW D \in Routes, Route(s, D)
  PROVE  \E asked \in [Streams -> StreamType], c \in ClientType :
           /\ \A t \in Streams : Touched(str[t], asked[t]) /\ SamePause(str[t], asked[t])
           /\ Calls(s, c) /\ c.pc \in {"rest", "routing"}
           /\ \/ str' = asked
              \/ \E muted \in SUBSET Streams :
                   str' = [t \in Streams |-> IF t \in muted THEN [str[t] EXCEPT !.quiet = TRUE]
                                             ELSE asked[t]]
<1>1. TypesOK /\ str \in [Streams -> StreamType] /\ str[s] \in StreamType
  BY DEF TypesOK
<1>3. D \in SUBSET Devices
  BY KnownDevices DEF Routes
<1>9. PICK ready \in {{d \in D : isDeviceReady(d)}} :
     \E asked \in {[str EXCEPT ![s].asked = D,
                      ![s].agreed = IF ready = {} THEN @ \cap str[s].dev ELSE D,
                      ![s].susp = IF ready = {} THEN {"bt"} ELSE @]} :
       IF ready = {}
       THEN /\ "refused" \in Overlaps \/ Cardinality(str[s].dev) < 2
            /\ Calls(s, ClientRest)
            /\ str' = asked
       ELSE \E differ \in SUBSET {d \in ready : getActiveStream_l(d) # {}} :
            \E shared \in {UNION {getSharedBEActiveStreamDevs(d) : d \in differ}} :
            \E muted \in {({t[1] : t \in shared} \cap Offload) \ {s}} :
              /\ StreamsFree(muted)
              /\ "mute" \in Overlaps \/ \A t \in muted : ~str[t].a2dpMuted
              /\ str' = [t \in Streams |-> IF t \in muted
                           THEN [str[t] EXCEPT !.quiet = TRUE] ELSE asked[t]]
              /\ Calls(s, [At("routing") EXCEPT
                   !.dev = D, !.muted = muted, !.seen = "bt" \in D \ ready,
                   !.lists = [disc |-> shared \cup
                                       {<<s, d>> : d \in str[s].dev \ D},
                              conn |-> shared \cup {<<s, d>> : d \in ready}]])
  BY Zenon DEF Route
<1>10. ready \in SUBSET D
  OBVIOUS
<1>11. PICK asked :
     /\ asked = [str EXCEPT ![s].asked = D,
                      ![s].agreed = IF ready = {} THEN @ \cap str[s].dev ELSE D,
                      ![s].susp = IF ready = {} THEN {"bt"} ELSE @]
     /\ IF ready = {}
       THEN /\ "refused" \in Overlaps \/ Cardinality(str[s].dev) < 2
            /\ Calls(s, ClientRest)
            /\ str' = asked
       ELSE \E differ \in SUBSET {d \in ready : getActiveStream_l(d) # {}} :
            \E shared \in {UNION {getSharedBEActiveStreamDevs(d) : d \in differ}} :
            \E muted \in {({t[1] : t \in shared} \cap Offload) \ {s}} :
              /\ StreamsFree(muted)
              /\ "mute" \in Overlaps \/ \A t \in muted : ~str[t].a2dpMuted
              /\ str' = [t \in Streams |-> IF t \in muted
                           THEN [str[t] EXCEPT !.quiet = TRUE] ELSE asked[t]]
              /\ Calls(s, [At("routing") EXCEPT
                   !.dev = D, !.muted = muted, !.seen = "bt" \in D \ ready,
                   !.lists = [disc |-> shared \cup
                                       {<<s, d>> : d \in str[s].dev \ D},
                              conn |-> shared \cup {<<s, d>> : d \in ready}]])
  BY <1>9, Zenon
<1>4. /\ asked \in [Streams -> StreamType]
      /\ \A t \in Streams : Touched(str[t], asked[t]) /\ SamePause(str[t], asked[t])
  <2>1. PICK agreed, susp :
          /\ agreed \in SUBSET Devices /\ susp \in SUBSET (Devices \cup {"none"})
          /\ agreed = (IF ready = {} THEN str[s].agreed \cap str[s].dev ELSE D)
          /\ susp = IF ready = {} THEN {"bt"} ELSE str[s].susp
    <3>1. /\ (IF ready = {} THEN str[s].agreed \cap str[s].dev ELSE D) \in SUBSET Devices
          /\ (IF ready = {} THEN {"bt"} ELSE str[s].susp) \in SUBSET (Devices \cup {"none"})
      BY <1>1, <1>3, KnownDevices DEF StreamType
    <3>. QED  BY <3>1
  <2>2. PICK b : b = [str[s] EXCEPT !.asked = D, !.agreed = agreed, !.susp = susp]
    OBVIOUS
  <2>3. asked = [str EXCEPT ![s] = b]
    BY <1>1, <1>11, <2>1, <2>2
  <2>4. Touched(str[s], b)
    BY <1>1, <1>3, <2>1, <2>2 DEF Touched, StreamType
  <2>6. SamePause(str[s], b)
    BY <1>1, <2>2 DEF SamePause, StreamType
  <2>5. \A t \in Streams : Touched(str[t], asked[t]) /\ SamePause(str[t], asked[t])
    <3>1. ASSUME NEW t \in Streams  PROVE Touched(str[t], str[t]) /\ SamePause(str[t], str[t])
      BY <1>1, HelpersTouch DEF SamePause
    <3>. QED  BY <1>1, <2>3, <2>4, <2>6, <3>1
  <2>. QED  BY <1>1, <2>3, <2>4, <2>5 DEF Touched
<1>5. PICK c \in ClientType :
        /\ Calls(s, c) /\ c.pc \in {"rest", "routing"}
        /\ \/ str' = asked
           \/ \E muted \in SUBSET Streams :
                str' = [t \in Streams |-> IF t \in muted THEN [str[t] EXCEPT !.quiet = TRUE]
                                          ELSE asked[t]]
  <2>1. CASE ready = {}
    <3>1. Calls(s, ClientRest) /\ str' = asked
      BY <1>11, <2>1
    <3>. QED  BY <3>1, AtTyped
  <2>2. CASE ready # {}
    <3>1. PICK differ, shared, muted :
            /\ differ \in SUBSET {d \in ready : getActiveStream_l(d) # {}}
            /\ shared = UNION {getSharedBEActiveStreamDevs(d) : d \in differ}
            /\ muted = ({t[1] : t \in shared} \cap Offload) \ {s}
            /\ str' = [t \in Streams |-> IF t \in muted
                         THEN [str[t] EXCEPT !.quiet = TRUE] ELSE asked[t]]
            /\ Calls(s, [At("routing") EXCEPT
                 !.dev = D, !.muted = muted, !.seen = "bt" \in D \ ready,
                 !.lists = [disc |-> shared \cup
                                     {<<s, d>> : d \in str[s].dev \ D},
                            conn |-> shared \cup {<<s, d>> : d \in ready}]])
      BY <1>11, <2>2
    <3>2. \A d \in differ : getSharedBEActiveStreamDevs(d) \in SUBSET Pairs
      BY <1>3, <1>10, <3>1 DEF getSharedBEActiveStreamDevs, Pairs, Known
    <3>3. shared \in SUBSET Pairs /\ muted \in SUBSET Streams
      BY <3>1, <3>2, SwitchAssumption
    <3>4. {<<s, d>> : d \in str[s].dev \ D} \in SUBSET Pairs
          /\ {<<s, d>> : d \in ready} \in SUBSET Pairs
      BY <1>1, <1>3, <1>10 DEF Pairs, StreamType
    <3>5. PICK lists \in ListsType :
            lists = [disc |-> shared \cup {<<s, d>> : d \in str[s].dev \ D},
                     conn |-> shared \cup {<<s, d>> : d \in ready}]
      BY <3>3, <3>4 DEF ListsType
    <3>6. PICK y \in BOOLEAN : y = ("bt" \in D \ ready)
      <4>1. ("bt" \in D \ ready) \in BOOLEAN
        OBVIOUS
      <4>. QED  BY <4>1, Zenon
    <3>7. PICK c : c = [At("routing") EXCEPT !.dev = D, !.muted = muted, !.seen = y,
                                             !.lists = lists]
      OBVIOUS
    <3>8. Calls(s, c)
      BY <3>1, <3>5, <3>6, <3>7
    <3>9. c \in ClientType /\ c.pc = "routing"
      <4>1. At("routing") \in ClientType /\ At("routing").pc = "routing"
        BY AtTyped DEF Pcs
      <4>. QED  BY <1>3, <3>3, <3>7, <4>1 DEF ClientType
    <3>. QED  BY <3>1, <3>3, <3>8, <3>9
  <2>. QED  BY <2>1, <2>2
<1>. QED  BY <1>4, <1>5

\* A route keeps counts and list right.
LEMMA RouteRight ==
  ASSUME DevInv, NEW s \in Streams, NEW D \in Routes, Route(s, D)
  PROVE  DevInv'
<1>1. TypesOK /\ str \in [Streams -> StreamType] /\ str[s] \in StreamType
  BY DEF DevInv, TypesOK
<1>2. UNCHANGED <<scenario, use, reg, btSuspended, bt>> /\ InSession(str[s].state)
  BY DEF Route, isAlive, InSession
<1>4. PICK asked \in [Streams -> StreamType], c \in ClientType :
           /\ \A t \in Streams : Touched(str[t], asked[t]) /\ SamePause(str[t], asked[t])
           /\ Calls(s, c) /\ c.pc \in {"rest", "routing"}
           /\ \/ str' = asked
              \/ \E muted \in SUBSET Streams :
                   str' = [t \in Streams |-> IF t \in muted THEN [str[t] EXCEPT !.quiet = TRUE]
                                             ELSE asked[t]]
  BY <1>1, RouteShape
<1>6. \A t \in Streams : Touched(str[t], str'[t])
  BY <1>1, <1>4, HelpersTouch
<1>7. str' \in [Streams -> StreamType]
  <2>1. \A t \in Streams : str'[t] \in StreamType
    BY <1>6 DEF Touched
  <2>. QED  BY <1>4, <2>1
<1>8. At1(c.pc, str'[s].state)
  BY <1>2, <1>4, <1>6 DEF At1, Touched
<1>. QED  BY <1>2, <1>4, <1>6, <1>7, <1>8, CallRight

\* A route ends: what it muted is heard again.
LEMMA RouteEndRight ==
  ASSUME DevInv, NEW s \in Streams, RouteEnd(s)
  PROVE  DevInv'
<1>1. TypesOK /\ str \in [Streams -> StreamType] /\ str[s] \in StreamType
  BY DEF DevInv, TypesOK
<1>2. /\ UNCHANGED <<scenario, use, reg, btSuspended, bt, spent>>
      /\ client[s].pc = "routing" /\ client' = [client EXCEPT ![s] = ClientRest]
  BY DEF RouteEnd
<1>3. /\ client' \in [Streams -> ClientType] /\ client'[s].pc = "rest"
      /\ \A t \in Streams \ {s} : client'[t] = client[t]
  BY <1>1, <1>2, AtTyped, ClientMoves
<1>12. PICK a : a = IF str[s].a2dpMuted THEN Unmute(str[s]) ELSE str[s]
  OBVIOUS
<1>13. PICK susp : susp = IF ~scenario.out THEN a.susp
                         ELSE IF client[s].seen THEN {"bt", StandIn} ELSE {}
  OBVIOUS
<1>4. str' = [t \in Streams |-> IF t = s THEN [a EXCEPT !.susp = susp]
                ELSE IF t \in client[s].muted THEN [str[t] EXCEPT !.quiet = FALSE]
                ELSE str[t]]
  BY <1>12, <1>13 DEF RouteEnd
<1>5. Touched(str[s], a) /\ a \in StreamType
  BY <1>1, <1>12, HelpersTouch DEF Touched
<1>6. susp \in SUBSET (Devices \cup {"none"})
  <2>1. a.susp \in SUBSET (Devices \cup {"none"})
    BY <1>5 DEF StreamType
  <2>. QED  BY <1>13, <2>1, KnownDevices
<1>7. Touched(str[s], [a EXCEPT !.susp = susp])
  <2>1. Touched(a, [a EXCEPT !.susp = susp])
    BY <1>5, <1>6, HelpersTouch
  <2>. QED  BY <1>5, <2>1, TouchTrans
<1>8. \A t \in Streams : Touched(str[t], str'[t])
  BY <1>1, <1>4, <1>7, HelpersTouch
<1>9. str' \in [Streams -> StreamType]
  BY <1>4, <1>8 DEF Touched
<1>10. TypesOK'
  BY <1>1, <1>2, <1>3, <1>9, TypesStay, TypesKept
<1>11. At1(client'[s].pc, str'[s].state) /\ spent'.faults = spent.faults
  BY <1>2, <1>3 DEF At1
<1>. QED  BY <1>2, <1>3, <1>8, <1>10, <1>11, CallTouches

\* A route moves its stream and those that share a device.
LEMMA RouteSwitchRight ==
  ASSUME DevInv, NEW s \in Streams, RouteSwitch(s)
  PROVE  DevInv'
<1>1. TypesOK /\ Places
  BY DEF DevInv
<1>2. /\ UNCHANGED <<scenario, btSuspended, bt>>
      /\ client' = [client EXCEPT ![s].lists = NoLists]
  BY DEF RouteSwitch
<1>3. client[s].lists \in ListsType /\ client[s] \in ClientType
  BY <1>1 DEF TypesOK, ClientType
<1>4. PICK r \in streamDevSwitch(client[s].lists) : Switch(client[s].lists, r) /\ Spend(r, TRUE)
  BY DEF RouteSwitch
<1>5. str' = r.w.str
  BY <1>4 DEF Switch
<1>6. /\ str' \in [Streams -> StreamType] /\ r.faults \in {0, 1}
      /\ \A t \in Streams : str'[t].state = str[t].state
  BY <1>3, <1>5, SwitchTypes
<1>7. spent' \in SpentType /\ spent'.faults = spent.faults + r.faults
  <2>1. PICK c \in BOOLEAN : c = TRUE
    OBVIOUS
  <2>2. Spend(r, c) /\ spent \in SpentType
    BY <1>1, <1>4, <2>1 DEF TypesOK
  <2>. QED  BY <1>6, <2>2, SpendTypes
<1>8. PICK c : c = [client[s] EXCEPT !.lists = NoLists]
  OBVIOUS
<1>9. c \in ClientType /\ c.pc = client[s].pc
  BY <1>3, <1>8, AtTyped DEF ClientType
<1>10. client' = [client EXCEPT ![s] = c]
  BY <1>1, <1>2, <1>8 DEF TypesOK
<1>11. /\ client' \in [Streams -> ClientType]
       /\ \A t \in Streams : client'[t].pc = client[t].pc
  BY <1>1, <1>9, <1>10, ClientMoves
<1>12. TypesOK'
  BY <1>1, <1>2, <1>6, <1>7, <1>11, TypesStay, TypesKept
<1>13. Places' /\ Registered' = Registered
  BY <1>1, <1>6, <1>11 DEF Places, Registered
<1>. QED  BY <1>3, <1>4, <1>7, <1>12, <1>13, SwitchStep

-----------------------------------------------------------------------------
(* Every step.                                                             *)

\* Nothing happens.
LEMMA StutterRight ==
  ASSUME DevInv, UNCHANGED vars
  PROVE  DevInv'
<1>1. /\ str' = str /\ use' = use /\ reg' = reg /\ client' = client /\ spent' = spent
      /\ scenario' = scenario /\ btSuspended' = btSuspended /\ bt' = bt
  BY DEF vars
<1>2. TypesOK /\ str \in [Streams -> StreamType]
  BY DEF DevInv, TypesOK
<1>3. TypesOK'
  BY <1>1, <1>2, TypesStay, TypesKept
<1>4. \A t \in Streams : Touched(str[t], str'[t])
  BY <1>1, <1>2, HelpersTouch
<1>. QED  BY <1>1, <1>3, <1>4, TouchStep

\* Each step of the manager and of a client keeps counts and list right.
LEMMA NextRight ==
  ASSUME DevInv, [Next]_vars
  PROVE  DevInv'
<1>1. CASE BtNext
  BY <1>1, AskRight, PrepareRight, BtSwitchRight DEF BtNext
<1>2. ASSUME NEW s \in Streams, ClientNext(s)  PROVE DevInv'
  <2>1. CASE \E D \in Routes : Create(s, D) \/ Route(s, D)
    BY <2>1, CreateDeleteRight, RouteRight
  <2>2. CASE Open(s) \/ CloseRun(s) \/ Delete(s)
    BY <2>2, OpenCloseRight, CreateDeleteRight
  <2>3. CASE StartRead(s) \/ Stop(s) \/ Close(s)
    BY <2>3, LookRight
  <2>4. CASE StartRun(s) \/ StartRegister(s) \/ StopRun(s)
    BY <2>4, StartRunRight, StartRegisterRight, StopRunRight
  <2>5. CASE Pause(s) \/ Resume(s)
    BY <2>5, PauseRight
  <2>6. CASE RouteSwitch(s) \/ RouteEnd(s)
    BY <2>6, RouteSwitchRight, RouteEndRight
  <2>. QED  BY <1>2, <2>1, <2>2, <2>3, <2>4, <2>5, <2>6 DEF ClientNext
<1>3. CASE UNCHANGED vars
  BY <1>3, StutterRight
<1>. QED  BY <1>1, <1>2, <1>3 DEF Next, Done

\* The counters and the list are right at every moment, also in the middle of a call and of a
\* request, and whichever connection has failed; until one fails the list is complete.
THEOREM CountsAreRight == Spec => []DevInv
<1>1. Init => DevInv
  BY InitRight
<1>2. DevInv /\ [Next]_vars => DevInv'
  BY NextRight
<1>. QED  BY <1>1, <1>2, PTL DEF Spec

\* At rest a device is open for the streams that hold it, started for those that play and
\* listed for just those, whatever was moved behind the back of its client, however requests
\* and calls overlap and whichever connection failed (streamDevSwitch, disconnectStreamDevice_l,
\* connectStreamDevice_l and the counters of Device).
THEOREM SwitchedDevicesRight == Spec => []DevicesRight
<1>1. DevInv => DevicesRight
  <2>1. SUFFICES ASSUME DevInv, Rest, NEW d \in Devices
        PROVE  /\ use[d].count = Cardinality(getActiveStream_l(d))
               /\ use[d].startStop = Cardinality({s \in getActiveStream_l(d) : Playing(s)})
               /\ {s \in Streams : <<d, s>> \in reg} \subseteq
                    {s \in getActiveStream_l(d) : Playing(s)}
               /\ spent.faults = 0 =>
                    \A s \in getActiveStream_l(d) : Playing(s) => <<d, s>> \in reg
    BY DEF DevicesRight
  <2>2. /\ getActiveStream_l(d) = Holders(str, d)
        /\ {s \in getActiveStream_l(d) : Playing(s)} = Players(str, d)
    BY DEF getActiveStream_l, isAlive, Holders, Players, InSession, Playing, Live
  <2>3. /\ use[d].count = Cardinality(Holders(str, d))
        /\ use[d].startStop = Cardinality(Players(str, d))
    BY <2>1 DEF DevInv, Right, Counted
  <2>4. {s \in Streams : <<d, s>> \in reg} \subseteq Players(str, d)
    BY <2>1 DEF DevInv, Right, Listed
  <2>5. ASSUME spent.faults = 0, NEW s \in getActiveStream_l(d), Playing(s)
        PROVE  <<d, s>> \in reg
    <3>1. s \in Streams /\ s \in Players(str, d)
      BY <2>2, <2>5 DEF getActiveStream_l
    <3>2. s \in Registered
      BY <2>1, <3>1 DEF Rest, Registered
    <3>. QED  BY <2>1, <2>5, <3>1, <3>2 DEF DevInv, Complete
  <2>. QED  BY <2>2, <2>3, <2>4, <2>5
<1>. QED  BY <1>1, CountsAreRight, PTL

-----------------------------------------------------------------------------
(* The pauses of the clients.                                              *)

\* A request that pauses streams has them in its list until it resumes them.
Held(s) == /\ bt.pc \in {"switch", "reset", "after"} /\ s \in bt.list
           /\ bt.op \in {"suspend", "reconfigure"}
           /\ bt.op = "suspend" => scenario.out /\ ~scenario.dummy

\* A stream is paused for its client or for a request, never for both.
Calm(a) ==
  /\ a.askedPause => a.isPaused
  /\ a.state = "PAUSED" /\ ~a.a2dpPaused /\ a.isPaused => a.askedPause
  /\ a.a2dpPaused => a.isPaused /\ ~a.askedPause /\ a.state \notin {"STARTED", "gone"}
BtOps == /\ bt.pc # "rest" => bt.op # "none"
         /\ bt.pc = "prepare" => bt.op # "resume"
PauseInv ==
  /\ \A s \in Streams : Calm(str[s])
  /\ \A s \in Streams : str[s].a2dpPaused =>
       s \in Offload /\ client[s].pc # "starting" /\ Held(s)
  /\ BtOps

\* What leaves the pauses as they are.
LEMMA HelpersSame ==
  ASSUME NEW a \in StreamType
  PROVE  /\ SamePause(a, a) /\ SamePause(a, Mute(a)) /\ SamePause(a, Unmute(a))
         /\ \A D : SamePause(a, [a EXCEPT !.susp = D]) /\ SamePause(a, [a EXCEPT !.dev = D])
         /\ \A q : SamePause(a, [a EXCEPT !.quiet = q])
         /\ \A D, E : SamePause(a, [a EXCEPT !.dev = D, !.susp = E])
BY DEF SamePause, StreamType, Mute, Unmute

LEMMA SameTrans ==
  ASSUME NEW a, NEW b, NEW c, SamePause(a, b), SamePause(b, c)
  PROVE  SamePause(a, c)
BY DEF SamePause

LEMMA SameCalm ==
  ASSUME NEW a, NEW b, SamePause(a, b), Calm(a)
  PROVE  Calm(b)
BY DEF SamePause, Calm

\* A request pauses only what its client has not paused, and resumes what it has paused.
LEMMA StillCalm ==
  ASSUME NEW s, NEW a \in StreamType, Calm(a)
  PROVE  /\ ~a.a2dpPaused => Calm(Still(s, a))
         /\ Still(s, a).a2dpPaused /\ ~a.a2dpPaused => s \in Offload /\ Live(a.state)
         /\ s \in Offload => Calm(Unpause(s, a)) /\ ~Unpause(s, a).a2dpPaused
<1>1. ~a.a2dpPaused => Calm(Still(s, a))
  BY DEF Still, Calm, StreamType, Live
<1>2. Still(s, a).a2dpPaused /\ ~a.a2dpPaused => s \in Offload /\ Live(a.state)
  BY DEF Still
<1>3. s \in Offload => Calm(Unpause(s, a)) /\ ~Unpause(s, a).a2dpPaused
  BY DEF Unpause, Calm, StreamType
<1>. QED  BY <1>1, <1>2, <1>3

\* A step that leaves the pauses and lists of the manager as they are.
LEMMA PausesStay ==
  ASSUME PauseInv, UNCHANGED scenario, \A s \in Streams : SamePause(str[s], str'[s]),
         \A s \in Streams : str[s].a2dpPaused /\ client'[s].pc = "starting" =>
                              client[s].pc = "starting",
         \A s \in Streams : str[s].a2dpPaused /\ Held(s) => Held(s)',
         BtOps'
  PROVE  PauseInv'
<1>1. \A s \in Streams : Calm(str'[s])
  BY SameCalm DEF PauseInv
<1>2. ASSUME NEW s \in Streams, str'[s].a2dpPaused
      PROVE  s \in Offload /\ client'[s].pc # "starting" /\ Held(s)'
  <2>1. str[s].a2dpPaused
    BY <1>2 DEF SamePause
  <2>. QED  BY <2>1 DEF PauseInv
<1>. QED  BY <1>1, <1>2 DEF PauseInv

\* A step of one client.
LEMMA PauseOne ==
  ASSUME PauseInv, UNCHANGED <<bt, scenario>>, NEW s \in Streams,
         \A t \in Streams \ {s} : /\ SamePause(str[t], str'[t])
                                  /\ client'[t].pc = client[t].pc,
         Calm(str'[s]),
         str'[s].a2dpPaused => str[s].a2dpPaused /\ client'[s].pc # "starting"
  PROVE  PauseInv'
<1>1. \A t \in Streams : Calm(str'[t])
  BY SameCalm DEF PauseInv
<1>2. \A t : Held(t)' <=> Held(t)
  BY DEF Held
<1>3. ASSUME NEW t \in Streams, str'[t].a2dpPaused
      PROVE  t \in Offload /\ client'[t].pc # "starting" /\ Held(t)'
  <2>1. CASE t = s
    BY <1>2, <1>3, <2>1 DEF PauseInv
  <2>2. CASE t # s
    <3>1. str[t].a2dpPaused /\ client'[t].pc = client[t].pc
      BY <1>3, <2>2 DEF SamePause
    <3>. QED  BY <1>2, <3>1 DEF PauseInv
  <2>. QED  BY <2>1, <2>2
<1>4. BtOps'
  BY DEF PauseInv, BtOps
<1>. QED  BY <1>1, <1>3, <1>4 DEF PauseInv

\* A step that touches only what no pause depends on.
LEMMA PauseMoves ==
  ASSUME PauseInv, UNCHANGED <<bt, scenario>>, NEW s \in Streams,
         \A t \in Streams : SamePause(str[t], str'[t]),
         \A t \in Streams \ {s} : client'[t].pc = client[t].pc,
         client'[s].pc # "starting" \/ ~str[s].a2dpPaused
  PROVE  PauseInv'
<1>1. \A t : Held(t)' <=> Held(t)
  BY DEF Held
<1>2. BtOps'
  BY DEF PauseInv, BtOps
<1>. QED  BY <1>1, <1>2, PausesStay

\* The calls that end in a new state of the stream.
LEMMA PauseStates ==
  ASSUME DevInv, PauseInv, NEW s \in Streams,
         Open(s) \/ CloseRun(s) \/ StopRun(s) \/ Delete(s) \/ \E D \in Routes : Create(s, D)
  PROVE  PauseInv'
<1>1. TypesOK /\ str \in [Streams -> StreamType] /\ client \in [Streams -> ClientType]
  BY DEF DevInv, TypesOK
<1>2. UNCHANGED <<bt, scenario>>
  BY DEF Open, CloseRun, StopRun, Delete, Create
<1>3. Gone.a2dpPaused = FALSE /\ Gone.isPaused = FALSE /\ Gone.askedPause = FALSE
  BY DEF Gone
<1>4. PICK b, c :
        /\ str' = [str EXCEPT ![s] = b] /\ client' = [client EXCEPT ![s] = c]
        /\ c.pc # "starting"
        /\ \/ b = str[s]
           \/ \E x \in {"INIT", "IDLE"} : b = [str[s] EXCEPT !.state = x]
           \/ b = [str[s] EXCEPT !.state = "STOPPED", !.askedPause = FALSE]
           \/ b = Gone
           \/ \E D : b = [Gone EXCEPT !.state = "IDLE", !.dev = D, !.asked = D, !.agreed = D]
  <2>1. /\ ClientRest.pc = "rest" /\ At("opening").pc = "opening"
        /\ At("deleting").pc = "deleting"
        /\ \A p \in {"rest", "closing"} : At(p).pc = p
    BY AtTyped DEF Pcs
  <2>2. CASE Open(s)
    <3>1. CASE client' = [client EXCEPT ![s] = At("deleting")] /\ UNCHANGED str
      <4>1. str' = [str EXCEPT ![s] = str[s]]
        BY <1>1, <3>1
      <4>. QED  BY <2>1, <3>1, <4>1
    <3>2. CASE /\ str' = [str EXCEPT ![s].state = "INIT"]
               /\ client' = [client EXCEPT ![s] = ClientRest]
      <4>1. str' = [str EXCEPT ![s] = [str[s] EXCEPT !.state = "INIT"]]
        BY <1>1, <3>2
      <4>. QED  BY <2>1, <3>2, <4>1
    <3>. QED  BY <2>2, <3>1, <3>2 DEF Open
  <2>3. CASE CloseRun(s)
    <3>1. /\ str' = [str EXCEPT ![s] = [str[s] EXCEPT !.state = "IDLE"]]
          /\ client' = [client EXCEPT ![s] = At("deleting")]
      BY <1>1, <2>3 DEF CloseRun
    <3>. QED  BY <2>1, <3>1
  <2>4. CASE StopRun(s)
    <3>1. /\ str' = [str EXCEPT ![s] = [str[s] EXCEPT !.state = "STOPPED", !.askedPause = FALSE]]
          /\ client' = [client EXCEPT ![s] = At(client[s].then)]
      BY <1>1, <2>4 DEF StopRun
    <3>2. client[s].then \in {"rest", "closing"}
      BY <1>1 DEF ClientType
    <3>. QED  BY <2>1, <3>1, <3>2
  <2>5. CASE Delete(s)
    BY <2>1, <2>5 DEF Delete
  <2>6. CASE \E D \in Routes : Create(s, D)
    <3>1. PICK D \in Routes : Create(s, D)
      BY <2>6
    <3>2. /\ str' = [str EXCEPT ![s] = [Gone EXCEPT !.state = "IDLE", !.dev = D, !.asked = D,
                                                   !.agreed = D]]
          /\ client' = [client EXCEPT ![s] = At("opening")]
      BY <1>1, <3>1 DEF Create, Calls
    <3>. QED  BY <2>1, <3>2
  <2>. QED  BY <2>2, <2>3, <2>4, <2>5, <2>6
<1>5. /\ str'[s] = b /\ client'[s] = c
      /\ \A t \in Streams \ {s} : str'[t] = str[t] /\ client'[t] = client[t]
  BY <1>1, <1>4
<1>6. Calm(str[s]) /\ str[s] \in StreamType
  BY <1>1 DEF PauseInv
<1>7. Calm(b) /\ (b.a2dpPaused => str[s].a2dpPaused)
  <2>1. CASE b = str[s]
    BY <1>6, <2>1
  <2>2. CASE \E x \in {"INIT", "IDLE"} : b = [str[s] EXCEPT !.state = x]
    BY <1>6, <2>2 DEF Calm, StreamType
  <2>3. CASE b = [str[s] EXCEPT !.state = "STOPPED", !.askedPause = FALSE]
    BY <1>6, <2>3 DEF Calm, StreamType
  <2>4. CASE b = Gone
    BY <1>3, <2>4 DEF Calm
  <2>5. CASE \E D : b = [Gone EXCEPT !.state = "IDLE", !.dev = D, !.asked = D, !.agreed = D]
    <3>1. /\ b.a2dpPaused = FALSE /\ b.isPaused = FALSE /\ b.askedPause = FALSE
          /\ b.state = "IDLE"
      BY <2>5 DEF Gone
    <3>. QED  BY <3>1 DEF Calm
  <2>. QED  BY <1>4, <2>1, <2>2, <2>3, <2>4, <2>5
<1>8. \A t \in Streams \ {s} : SamePause(str[t], str'[t]) /\ client'[t].pc = client[t].pc
  BY <1>5 DEF SamePause
<1>. QED  BY <1>2, <1>4, <1>5, <1>7, <1>8, PauseOne

\* A start does not begin while a request has its stream paused, and resumes nothing.
LEMMA PauseStart ==
  ASSUME DevInv, PauseInv, "pause" \notin Overlaps, NEW s \in Streams,
         StartRead(s) \/ StartRun(s) \/ StartRegister(s)
  PROVE  PauseInv'
<1>1. /\ TypesOK /\ str \in [Streams -> StreamType] /\ client \in [Streams -> ClientType]
      /\ str[s] \in StreamType
  BY DEF DevInv, TypesOK
<1>2. UNCHANGED <<bt, scenario>>
  BY DEF StartRead, StartRun, StartRegister
<1>3. CASE StartRead(s) \/ StartRegister(s)
  <2>1. \A t \in Streams : SamePause(str[t], str'[t])
    BY <1>3 DEF StartRead, StartRegister, SamePause
  <2>2. \A t \in Streams \ {s} : client'[t].pc = client[t].pc
    BY <1>1, <1>3 DEF StartRead, StartRegister, Calls
  <2>3. client'[s].pc # "starting" \/ ~str[s].a2dpPaused
    BY <1>1, <1>3, AtTyped DEF StartRead, StartRegister
  <2>. QED  BY <1>2, <2>1, <2>2, <2>3, PauseMoves
<1>4. CASE StartRun(s)
  <2>1. ~str[s].a2dpPaused
    BY <1>4 DEF StartRun, PauseInv
  <2>2. PICK st, D, x, c :
          /\ \/ st = str[s]
             \/ st = handleBTDeviceNotReadyToDummy(str[s])
             \/ st = handleBTDeviceNotReady(str[s])
          /\ x \in {st.state, "STARTED"} /\ c.pc # "starting"
          /\ str' = [str EXCEPT ![s] = [st EXCEPT !.dev = D, !.state = x]]
          /\ client' = [client EXCEPT ![s] = c]
    <3>1. PICK st : /\ \/ st = str[s]
                       \/ st = handleBTDeviceNotReadyToDummy(str[s])
                       \/ st = handleBTDeviceNotReady(str[s])
                    /\ \E D :
                         /\ str' = [str EXCEPT ![s] = [st EXCEPT
                              !.dev = D, !.state = IF D = {} THEN @ ELSE "STARTED"]]
                         /\ client' = [client EXCEPT ![s] =
                                         IF D = {} THEN ClientRest ELSE At("registering")]
      BY <1>4 DEF StartRun
    <3>2. PICK D : /\ str' = [str EXCEPT ![s] = [st EXCEPT
                              !.dev = D, !.state = IF D = {} THEN @ ELSE "STARTED"]]
                   /\ client' = [client EXCEPT ![s] =
                                   IF D = {} THEN ClientRest ELSE At("registering")]
      BY <3>1
    <3>3. ClientRest.pc = "rest" /\ At("registering").pc = "registering"
      BY AtTyped DEF Pcs
    <3>. QED  BY <3>1, <3>2, <3>3
  <2>3. Calm(str[s])
    BY DEF PauseInv
  <2>4. SamePause(str[s], st) /\ st \in StreamType
    <3>1. PICK m : m = Mute(str[s])
      OBVIOUS
    <3>2. m \in StreamType /\ SamePause(str[s], m)
      BY <1>1, <3>1, HelpersSame DEF Mute, StreamType
    <3>3. \A E, F : SamePause(m, [m EXCEPT !.dev = E, !.susp = F])
                    /\ SamePause(str[s], [str[s] EXCEPT !.dev = E, !.susp = F])
      BY <1>1, <3>2, HelpersSame
    <3>4. SamePause(str[s], handleBTDeviceNotReady(str[s]))
      BY <3>1, <3>2, <3>3, SameTrans DEF handleBTDeviceNotReady
    <3>5. SamePause(str[s], handleBTDeviceNotReadyToDummy(str[s]))
      BY <3>1, <3>2, <3>3, SameTrans DEF handleBTDeviceNotReadyToDummy
    <3>. QED  BY <1>1, <2>2, <3>4, <3>5, NotReady, HelpersSame
  <2>5. PICK b : b = [st EXCEPT !.dev = D, !.state = x]
    OBVIOUS
  <2>6. /\ b.a2dpPaused = st.a2dpPaused /\ b.isPaused = st.isPaused
        /\ b.askedPause = st.askedPause /\ b.state \in {st.state, "STARTED"}
    BY <2>2, <2>4, <2>5 DEF StreamType
  <2>7. Calm(b) /\ ~b.a2dpPaused
    BY <2>1, <2>3, <2>4, <2>6 DEF Calm, SamePause
  <2>8. /\ str'[s] = b /\ client'[s] = c
        /\ \A t \in Streams \ {s} : str'[t] = str[t] /\ client'[t] = client[t]
    BY <1>1, <2>2, <2>5
  <2>9. \A t \in Streams \ {s} : SamePause(str[t], str'[t]) /\ client'[t].pc = client[t].pc
    BY <2>8 DEF SamePause
  <2>. QED  BY <1>2, <2>2, <2>7, <2>8, <2>9, PauseOne
<1>. QED  BY <1>3, <1>4

\* A client pauses only what no request has paused, and resumes only what it paused itself.
LEMMA PauseCalls ==
  ASSUME DevInv, PauseInv, "pause" \notin Overlaps, NEW s \in Streams, Pause(s) \/ Resume(s)
  PROVE  PauseInv'
<1>1. /\ str \in [Streams -> StreamType] /\ client \in [Streams -> ClientType]
      /\ str[s] \in StreamType /\ UNCHANGED <<bt, scenario>>
  BY DEF DevInv, TypesOK, Pause, Resume
<1>2. Calm(str[s])
  BY DEF PauseInv
<1>3. ~str[s].a2dpPaused
  <2>1. CASE Pause(s)
    <3>1. bt.pc = "rest"
      BY <2>1 DEF Pause, MayOverlap
    <3>. QED  BY <3>1 DEF PauseInv, Held
  <2>2. CASE Resume(s)
    BY <1>2, <2>2 DEF Resume, Calm
  <2>. QED  BY <2>1, <2>2
<1>4. PICK b : /\ str' = [str EXCEPT ![s] = b] /\ Calm(b) /\ b.a2dpPaused = str[s].a2dpPaused
  <2>1. CASE Pause(s)
    <3>1. PICK b : b = [str[s] EXCEPT !.state = "PAUSED", !.isPaused = TRUE, !.askedPause = TRUE]
      OBVIOUS
    <3>2. str' = [str EXCEPT ![s] = b]
      BY <1>1, <2>1, <3>1 DEF Pause
    <3>3. Calm(b) /\ b.a2dpPaused = str[s].a2dpPaused
      BY <1>1, <1>3, <3>1 DEF Calm, StreamType
    <3>. QED  BY <3>2, <3>3
  <2>2. CASE Resume(s)
    <3>1. PICK b : b = [str[s] EXCEPT !.isPaused = FALSE, !.askedPause = FALSE]
      OBVIOUS
    <3>2. str' = [str EXCEPT ![s] = b]
      BY <1>1, <2>2, <3>1 DEF Resume
    <3>3. Calm(b) /\ b.a2dpPaused = str[s].a2dpPaused
      BY <1>1, <1>3, <3>1 DEF Calm, StreamType
    <3>. QED  BY <3>2, <3>3
  <2>. QED  BY <2>1, <2>2
<1>5. PICK c : client' = [client EXCEPT ![s] = c]
  BY DEF Pause, Resume, Calls
<1>6. /\ str'[s] = b
      /\ \A t \in Streams \ {s} : str'[t] = str[t] /\ client'[t] = client[t]
  BY <1>1, <1>4, <1>5
<1>7. \A t \in Streams \ {s} : SamePause(str[t], str'[t]) /\ client'[t].pc = client[t].pc
  BY <1>6 DEF SamePause
<1>. QED  BY <1>1, <1>3, <1>4, <1>6, <1>7, PauseOne

\* A stop and a close look only; a route mutes, asks and moves.
LEMMA PauseLooks ==
  ASSUME DevInv, PauseInv, NEW s \in Streams,
         Stop(s) \/ Close(s) \/ RouteEnd(s) \/ RouteSwitch(s) \/ \E D \in Routes : Route(s, D)
  PROVE  PauseInv'
<1>1. /\ TypesOK /\ str \in [Streams -> StreamType] /\ client \in [Streams -> ClientType]
      /\ \A t \in Streams : str[t] \in StreamType
  BY DEF DevInv, TypesOK
<1>2. UNCHANGED <<bt, scenario>>
  BY DEF Stop, Close, RouteEnd, RouteSwitch, Route
<1>3. PICK c : /\ client' = [client EXCEPT ![s] = c] /\ c.pc # "starting"
  <2>1. ClientRest.pc = "rest" /\ \A p \in Pcs : At(p) \in ClientType /\ At(p).pc = p
    BY AtTyped
  <2>2. CASE Stop(s) \/ Close(s)
    <3>1. PICK c \in {At("stopping"), [At("stopping") EXCEPT !.then = "closing"],
                      At("closing")} : client' = [client EXCEPT ![s] = c]
      BY <2>2 DEF Stop, Close, Calls
    <3>2. /\ At("stopping") \in ClientType /\ At("stopping").pc = "stopping"
          /\ At("closing").pc = "closing"
      BY <2>1 DEF Pcs
    <3>3. c.pc # "starting"
      BY <3>1, <3>2 DEF ClientType
    <3>. QED  BY <3>1, <3>3
  <2>3. CASE RouteEnd(s)
    BY <2>1, <2>3 DEF RouteEnd
  <2>4. CASE RouteSwitch(s)
    <3>1. PICK c : c = [client[s] EXCEPT !.lists = NoLists]
      OBVIOUS
    <3>2. c.pc = "routing"
      BY <1>1, <2>4, <3>1 DEF RouteSwitch, ClientType
    <3>. QED  BY <1>1, <2>4, <3>1, <3>2 DEF RouteSwitch
  <2>5. CASE \E D \in Routes : Route(s, D)
    <3>1. PICK c : Calls(s, c) /\ c.pc \in {"rest", "routing"}
      BY <1>1, <2>5, RouteShape
    <3>. QED  BY <3>1 DEF Calls
  <2>. QED  BY <2>2, <2>3, <2>4, <2>5
<1>4. /\ client'[s].pc # "starting" /\ \A t \in Streams \ {s} : client'[t].pc = client[t].pc
  BY <1>1, <1>3
<1>5. \A t \in Streams : SamePause(str[t], str'[t])
  <2>1. CASE Stop(s) \/ Close(s)
    BY <2>1 DEF Stop, Close, SamePause
  <2>2. CASE RouteEnd(s)
    <3>1. PICK E : str' = [t \in Streams |->
             IF t = s THEN [(IF str[s].a2dpMuted THEN Unmute(str[s]) ELSE str[s])
                              EXCEPT !.susp = E]
             ELSE IF t \in client[s].muted THEN [str[t] EXCEPT !.quiet = FALSE]
             ELSE str[t]]
      <4>1. CASE ~scenario.out
        BY <2>2, <4>1 DEF RouteEnd
      <4>2. CASE scenario.out /\ client[s].seen
        BY <2>2, <4>2 DEF RouteEnd
      <4>3. CASE scenario.out /\ ~client[s].seen
        BY <2>2, <4>3 DEF RouteEnd
      <4>. QED  BY <4>1, <4>2, <4>3
    <3>2. PICK m : m = Unmute(str[s])
      OBVIOUS
    <3>3. m \in StreamType /\ SamePause(str[s], m)
      BY <1>1, <3>2, HelpersSame DEF Unmute, StreamType
    <3>4. SamePause(m, [m EXCEPT !.susp = E]) /\ SamePause(str[s], [str[s] EXCEPT !.susp = E])
      BY <1>1, <3>3, HelpersSame
    <3>5. SamePause(str[s], str'[s])
      <4>1. SamePause(str[s], [m EXCEPT !.susp = E])
        BY <3>3, <3>4, SameTrans
      <4>2. str'[s] \in {[m EXCEPT !.susp = E], [str[s] EXCEPT !.susp = E]}
        BY <3>1, <3>2
      <4>. QED  BY <3>4, <4>1, <4>2
    <3>6. ASSUME NEW t \in Streams \ {s}  PROVE SamePause(str[t], str'[t])
      <4>1. str'[t] \in {[str[t] EXCEPT !.quiet = FALSE], str[t]}
        BY <3>1
      <4>2. SamePause(str[t], [str[t] EXCEPT !.quiet = FALSE]) /\ SamePause(str[t], str[t])
        BY <1>1, HelpersSame
      <4>. QED  BY <4>1, <4>2
    <3>. QED  BY <3>5, <3>6
  <2>3. CASE RouteSwitch(s)
    <3>1. client[s].lists \in ListsType
      BY <1>1 DEF ClientType
    <3>2. PICK r \in streamDevSwitch(client[s].lists) : str' = r.w.str
      BY <2>3 DEF RouteSwitch, Switch
    <3>3. \A t \in Streams : str'[t] = [str[t] EXCEPT !.dev = str'[t].dev]
      BY <3>1, <3>2, SwitchTypes
    <3>4. ASSUME NEW t \in Streams  PROVE SamePause(str[t], str'[t])
      <4>1. PICK D : str'[t] = [str[t] EXCEPT !.dev = D]
        BY <3>3
      <4>2. SamePause(str[t], [str[t] EXCEPT !.dev = D])
        BY <1>1, HelpersSame
      <4>. QED  BY <4>1, <4>2
    <3>. QED  BY <3>4
  <2>4. CASE \E D \in Routes : Route(s, D)
    <3>2. PICK D \in Routes : Route(s, D)
      BY <2>4
    <3>3. PICK asked \in [Streams -> StreamType] :
            /\ \A t \in Streams : SamePause(str[t], asked[t])
            /\ \/ str' = asked
               \/ \E M \in SUBSET Streams :
                    str' = [t \in Streams |-> IF t \in M THEN [str[t] EXCEPT !.quiet = TRUE]
                                              ELSE asked[t]]
      BY <1>1, <3>2, RouteShape
    <3>4. ASSUME NEW t \in Streams  PROVE SamePause(str[t], str'[t])
      <4>1. SamePause(str[t], [str[t] EXCEPT !.quiet = TRUE])
        BY <1>1, HelpersSame
      <4>2. str'[t] \in {[str[t] EXCEPT !.quiet = TRUE], asked[t]}
        BY <3>3
      <4>. QED  BY <3>3, <4>1, <4>2
    <3>. QED  BY <3>4
  <2>. QED  BY <2>1, <2>2, <2>3, <2>4
<1>. QED  BY <1>2, <1>4, <1>5, PauseMoves

\* A request begins, collects and takes: nothing is paused for it yet.
LEMMA PauseAsks ==
  ASSUME DevInv, PauseInv,
         (\E op \in {"suspend", "resume", "reconfigure"} : Request(op)) \/ Collect \/ Take
  PROVE  PauseInv'
<1>1. /\ UNCHANGED <<scenario, str, client>>
      /\ bt.pc \in {"rest", "collect", "take"}
  BY DEF Request, Collect, Take
<1>2. bt \in BtType /\ BtRest.pc = "rest" /\ BtRest \in BtType
  BY DEF DevInv, TypesOK, BtRest, BtType, Ops, NoLists, ListsType
<1>3. BtOps'
  <2>1. CASE \E op \in {"suspend", "resume", "reconfigure"} : Request(op)
    <3>1. PICK op \in {"suspend", "resume", "reconfigure"} :
             bt' \in {BtRest, [BtRest EXCEPT !.pc = "collect", !.op = op]}
      BY <2>1 DEF Request
    <3>. QED  BY <1>2, <3>1 DEF BtOps, BtType
  <2>2. CASE Collect
    <3>3. PICK L :
             bt' = IF bt.op # "resume"
                   THEN IF L = {} THEN BtRest
                        ELSE [bt EXCEPT !.pc = "prepare", !.list = L,
                                        !.combo = L \cap getActiveStream_l(StandIn)]
                   ELSE IF L \cup getOrphanStream_l \cup Retries = {} THEN BtRest
                        ELSE [bt EXCEPT !.pc = "take", !.list = L,
                                        !.orphans = getOrphanStream_l, !.retry = Retries]
      BY <2>2 DEF Collect
    <3>1. PICK K, O, R :
             \/ bt' = BtRest
             \/ bt.op # "resume" /\ bt' = [bt EXCEPT !.pc = "prepare", !.list = L, !.combo = K]
             \/ bt' = [bt EXCEPT !.pc = "take", !.list = L, !.orphans = O, !.retry = R]
      BY <3>3
    <3>2. bt.op # "none"
      BY <2>2 DEF Collect, PauseInv, BtOps
    <3>. QED  BY <1>2, <3>1, <3>2 DEF BtOps, BtType
  <2>3. CASE Take
    <3>1. PICK L, C : bt' \in {BtRest, [bt EXCEPT !.pc = "switch", !.list = L, !.lists = C]}
      BY <2>3 DEF Take
    <3>2. bt.op # "none"
      BY <2>3 DEF Take, PauseInv, BtOps
    <3>. QED  BY <1>2, <3>1, <3>2 DEF BtOps, BtType
  <2>. QED  BY <1>1, <2>1, <2>2, <2>3
<1>4. \A s \in Streams : SamePause(str[s], str'[s])
  BY <1>1 DEF SamePause
<1>5. \A s : ~Held(s)
  BY <1>1 DEF Held
<1>. QED  BY <1>1, <1>3, <1>4, <1>5, PausesStay

\* What a request does to a stream it has in its list: it pauses no paused stream.
LEMMA PreparedCalm ==
  ASSUME DevInv, NEW s \in Streams, Calm(str[s]), ~str[s].a2dpPaused
  PROVE  /\ Calm(Prepared(s))
         /\ Prepared(s).a2dpPaused =>
              /\ s \in Offload /\ Live(str[s].state)
              /\ bt.op = "reconfigure" \/ (scenario.out /\ ~scenario.dummy)
<1>1. str[s] \in StreamType
  BY DEF DevInv, TypesOK
<1>2. PICK m : m = Mute(str[s])
  OBVIOUS
<1>3. /\ m \in StreamType /\ SamePause(str[s], m) /\ Calm(m)
  BY <1>1, <1>2, HelpersSame, SameCalm DEF Mute, StreamType
<1>4. ~m.a2dpPaused /\ m.state = str[s].state
  BY <1>3 DEF SamePause
<1>5. PICK q : q = Quieted(s)
  OBVIOUS
<1>6. /\ q \in StreamType /\ Calm(q)
      /\ q.a2dpPaused => s \in Offload /\ Live(str[s].state)
  <2>1. Still(s, m) \in StreamType
    BY <1>3 DEF Still, StreamType, States
  <2>2. Calm(Still(s, m)) /\ (Still(s, m).a2dpPaused => s \in Offload /\ Live(str[s].state))
    BY <1>3, <1>4, StillCalm
  <2>. QED  BY <1>1, <1>2, <1>5, <2>1, <2>2 DEF Quieted
<1>7. /\ \A E : SamePause(str[s], [str[s] EXCEPT !.susp = E])
      /\ \A E : SamePause(m, [m EXCEPT !.susp = E])
      /\ \A E : SamePause(q, [q EXCEPT !.susp = E])
  BY <1>1, <1>3, <1>6, HelpersSame
<1>8. CASE bt.op = "reconfigure"
  BY <1>5, <1>6, <1>8 DEF Prepared, a2dpReconfig
<1>9. CASE bt.op # "reconfigure" /\ scenario.out /\ ~scenario.dummy
  <2>1. PICK E, p : /\ p = Prepared(s)
                    /\ p \in {[str[s] EXCEPT !.susp = E], str[s], [q EXCEPT !.susp = E]}
    <3>1. Prepared(s) = a2dpSuspend(s)
      BY <1>9 DEF Prepared
    <3>. QED  BY <1>5, <3>1 DEF a2dpSuspend
  <2>2. SamePause(str[s], p) \/ SamePause(q, p)
    <3>1. CASE p = str[s]
      BY <3>1 DEF SamePause
    <3>. QED  BY <1>7, <2>1, <3>1
  <2>3. Calm(p) /\ (p.a2dpPaused => q.a2dpPaused)
    BY <1>6, <2>2, SameCalm DEF SamePause
  <2>. QED  BY <1>6, <1>9, <2>1, <2>3
<1>10. CASE bt.op # "reconfigure" /\ ~(scenario.out /\ ~scenario.dummy)
  <2>1. PICK E, p : /\ p = Prepared(s)
                    /\ p \in {[str[s] EXCEPT !.susp = E], str[s], [m EXCEPT !.susp = E], m}
    <3>1. Prepared(s) \in {a2dpSuspendToDummy(s), a2dpCaptureSuspendToDummy(s),
                           a2dpCaptureSuspend(s)}
      BY <1>10 DEF Prepared
    <3>2. \E E : a2dpSuspendToDummy(s) \in {[str[s] EXCEPT !.susp = E], str[s],
                                            [m EXCEPT !.susp = E]}
      BY <1>2 DEF a2dpSuspendToDummy
    <3>3. /\ a2dpCaptureSuspendToDummy(s) = [m EXCEPT !.susp = {"bt"}]
          /\ a2dpCaptureSuspend(s) = m
      BY <1>2 DEF a2dpCaptureSuspendToDummy, a2dpCaptureSuspend
    <3>. QED  BY <3>1, <3>2, <3>3
  <2>2. SamePause(str[s], p) \/ SamePause(m, p)
    BY <1>7, <2>1 DEF SamePause
  <2>3. Calm(p) /\ ~p.a2dpPaused
    BY <1>3, <1>4, <2>2, SameCalm DEF SamePause
  <2>. QED  BY <2>1, <2>3
<1>. QED  BY <1>8, <1>9, <1>10

\* The streams are prepared.
LEMMA PausePrepares ==
  ASSUME DevInv, PauseInv, Prepare
  PROVE  PauseInv'
<1>1. /\ UNCHANGED <<scenario, client>> /\ bt.pc = "prepare"
      /\ StreamsFree(bt.list) /\ bt \in BtType
      /\ \A s \in Streams : str'[s] = IF s \in bt.list THEN Prepared(s) ELSE str[s]
  BY DEF Prepare, DevInv, TypesOK
<1>2. PICK L : bt' = [bt EXCEPT !.pc = "switch", !.lists = L]
  BY DEF Prepare
<1>3. bt'.pc = "switch" /\ bt'.op = bt.op /\ bt'.list = bt.list
  BY <1>1, <1>2 DEF BtType
<1>4. \A s \in Streams : Calm(str[s]) /\ ~str[s].a2dpPaused
  BY <1>1 DEF PauseInv, Held
<1>5. bt.op \in {"suspend", "reconfigure"}
  BY <1>1 DEF PauseInv, BtOps, BtType, Ops
<1>6. \A s \in Streams : Calm(str'[s])
  BY <1>1, <1>4, PreparedCalm
<1>7. ASSUME NEW s \in Streams, str'[s].a2dpPaused
      PROVE  s \in Offload /\ client'[s].pc # "starting" /\ Held(s)'
  <2>1. s \in bt.list /\ Prepared(s).a2dpPaused
    BY <1>1, <1>4, <1>7
  <2>2. /\ s \in Offload /\ Live(str[s].state)
        /\ bt.op = "reconfigure" \/ (scenario.out /\ ~scenario.dummy)
    BY <1>4, <2>1, PreparedCalm
  <2>3. client[s].pc # "starting"
    BY <1>1, <2>1, <2>2 DEF StreamsFree, Known, Live
  <2>4. Held(s)'
    BY <1>1, <1>3, <1>5, <2>1, <2>2 DEF Held
  <2>. QED  BY <1>1, <2>2, <2>3, <2>4
<1>8. BtOps'
  BY <1>3, <1>5 DEF BtOps
<1>. QED  BY <1>6, <1>7, <1>8 DEF PauseInv

\* The streams are moved; what is paused stays in the list until it is resumed.
LEMMA PauseSwitches ==
  ASSUME DevInv, PauseInv, BtSwitch \/ Reset
  PROVE  PauseInv'
<1>1. /\ UNCHANGED <<scenario, client>> /\ bt.pc \in {"switch", "reset"} /\ bt \in BtType
      /\ \A s \in Streams : str[s] \in StreamType
  BY DEF BtSwitch, Reset, DevInv, TypesOK
<1>2. PICK lists \in ListsType : \E r \in streamDevSwitch(lists) : str' = r.w.str
  <2>1. CASE BtSwitch
    BY <1>1, <2>1 DEF BtSwitch, Switch, BtType
  <2>2. CASE Reset
    <3>1. \A d \in {"bt", StandIn} : getSharedBEActiveStreamDevs(d) \in SUBSET Pairs
      BY KnownDevices DEF getSharedBEActiveStreamDevs, Pairs, Known
    <3>2. PICK d \in {"bt", StandIn} :
            \E r \in streamDevSwitch([disc |-> bt.lists.disc \cup getSharedBEActiveStreamDevs(d),
                                      conn |-> bt.lists.conn \cup getSharedBEActiveStreamDevs(d)]) :
              str' = r.w.str
      BY <2>2 DEF Reset, Switch
    <3>3. [disc |-> bt.lists.disc \cup getSharedBEActiveStreamDevs(d),
           conn |-> bt.lists.conn \cup getSharedBEActiveStreamDevs(d)] \in ListsType
      BY <1>1, <3>1 DEF ListsType, BtType
    <3>. QED  BY <3>2, <3>3
  <2>. QED  BY <2>1, <2>2
<1>3. \A s \in Streams : str'[s] = [str[s] EXCEPT !.dev = str'[s].dev]
  BY <1>2, SwitchTypes
<1>4. ASSUME NEW s \in Streams  PROVE SamePause(str[s], str'[s])
  <2>1. PICK D : str'[s] = [str[s] EXCEPT !.dev = D]
    BY <1>3
  <2>2. SamePause(str[s], [str[s] EXCEPT !.dev = D])
    BY <1>1, HelpersSame
  <2>. QED  BY <2>1, <2>2
<1>5. \/ bt' = [bt EXCEPT !.pc = "reset"] \/ bt' = [bt EXCEPT !.pc = "after"]
      \/ bt' = BtRest /\ bt.op # "reconfigure" /\ (bt.op = "suspend" => scenario.dummy)
  <2>1. CASE BtSwitch
    <3>1. PICK moves \in ListsType : moves = bt.lists
      BY <1>1 DEF BtType
    <3>2. PICK r \in streamDevSwitch(moves) :
            /\ str' = r.w.str
            /\ \E forced \in {bt.op = "reconfigure" \/ (bt.op = "suspend" /\ ~scenario.dummy)} :
                 bt' = CASE forced /\ ~r.ok -> [bt EXCEPT !.pc = "reset"]
                         [] r.ok /\ (forced \/ bt.op = "resume") -> [bt EXCEPT !.pc = "after"]
                         [] OTHER -> BtRest
      BY <2>1, <3>1 DEF BtSwitch, Switch
    <3>3. r.ok \in BOOLEAN
      BY <3>2, SwitchTypes
    <3>4. CASE bt.op = "reconfigure" \/ (bt.op = "suspend" /\ ~scenario.dummy)
      <4>1. bt' = CASE ~r.ok -> [bt EXCEPT !.pc = "reset"]
                    [] r.ok -> [bt EXCEPT !.pc = "after"]
                    [] OTHER -> BtRest
        BY <3>2, <3>4
      <4>. QED  BY <3>3, <4>1
    <3>5. CASE ~(bt.op = "reconfigure" \/ (bt.op = "suspend" /\ ~scenario.dummy))
      <4>1. bt' \in {[bt EXCEPT !.pc = "after"], BtRest}
        BY <3>2, <3>5
      <4>. QED  BY <3>5, <4>1
    <3>. QED  BY <3>4, <3>5
  <2>2. CASE Reset
    BY <2>2 DEF Reset
  <2>. QED  BY <2>1, <2>2
<1>6. \A s \in Streams : Held(s) => Held(s)'
  BY <1>1, <1>5 DEF Held, BtType
<1>7. BtOps'
  <2>1. BtRest.pc = "rest" /\ bt.op # "none"
    BY <1>1 DEF BtRest, PauseInv, BtOps
  <2>. QED  BY <1>1, <1>5, <2>1 DEF BtOps, BtType
<1>. QED  BY <1>1, <1>4, <1>6, <1>7, PausesStay

\* The end of a request resumes all it has paused.
LEMMA PauseEnds ==
  ASSUME DevInv, PauseInv, AfterSuspend \/ AfterReconfigure \/ AfterResume
  PROVE  PauseInv'
<1>1. /\ UNCHANGED <<scenario, client>> /\ bt.pc = "after" /\ bt' = BtRest
      /\ \A s \in Streams : str[s] \in StreamType
  BY DEF AfterSuspend, AfterReconfigure, AfterResume, After, DevInv, TypesOK
<1>2. BtOps'
  BY <1>1 DEF BtOps, BtRest
<1>3. ASSUME NEW s \in Streams  PROVE Calm(str'[s]) /\ ~str'[s].a2dpPaused
  <2>1. /\ Calm(str[s]) /\ str[s] \in StreamType
        /\ str[s].a2dpPaused => /\ s \in Offload /\ s \in bt.list \cap Known
                                /\ bt.op = "reconfigure" \/ (bt.op = "suspend" /\ scenario.out)
    BY <1>1 DEF PauseInv, Held, Calm, Known
  <2>2. PICK u : u = Unpause(s, str[s])
    OBVIOUS
  <2>3. u \in StreamType /\ Calm(u) /\ ~u.a2dpPaused
    <3>1. u \in StreamType
      BY <2>1, <2>2 DEF Unpause, StreamType
    <3>2. CASE s \in Offload
      BY <2>1, <2>2, <3>1, <3>2, StillCalm
    <3>3. CASE s \notin Offload
      <4>1. u = str[s]
        BY <2>2, <3>3 DEF Unpause
      <4>. QED  BY <2>1, <3>1, <3>3, <4>1
    <3>. QED  BY <3>2, <3>3
  <2>4. SamePause(u, Unmute(u)) /\ SamePause(str[s], Unmute(str[s]))
    BY <2>1, <2>3, HelpersSame
  <2>5. Calm(Unmute(u)) /\ ~Unmute(u).a2dpPaused
    BY <2>3, <2>4, SameCalm DEF SamePause
  <2>6. CASE ~(s \in bt.list \cap Known)
    <3>1. str'[s] = str[s]
      BY <2>6 DEF AfterSuspend, AfterReconfigure, AfterResume, After
    <3>. QED  BY <2>1, <2>6, <3>1
  <2>7. CASE s \in bt.list \cap Known /\ AfterReconfigure
    <3>1. str'[s] = Unmute(u)
      BY <2>2, <2>7 DEF AfterReconfigure, After
    <3>. QED  BY <2>5, <3>1
  <2>8. CASE s \in bt.list \cap Known /\ AfterSuspend
    <3>1. bt.op = "suspend"
      BY <2>8 DEF AfterSuspend, After
    <3>2. CASE scenario.out
      <4>1. str'[s] = u
        BY <2>2, <2>8, <3>2 DEF AfterSuspend, After
      <4>. QED  BY <2>3, <4>1
    <3>3. CASE ~scenario.out
      <4>1. str'[s] = [str[s] EXCEPT !.susp = {"bt"}]
        BY <2>8, <3>3 DEF AfterSuspend, After
      <4>2. SamePause(str[s], str'[s])
        BY <2>1, <4>1, HelpersSame
      <4>. QED  BY <2>1, <3>1, <3>3, <4>2, SameCalm DEF SamePause
    <3>. QED  BY <3>2, <3>3
  <2>9. CASE s \in bt.list \cap Known /\ AfterResume
    <3>1. bt.op = "resume" /\ ~str[s].a2dpPaused
      BY <2>1, <2>9 DEF AfterResume, After
    <3>2. PICK m : m = Unmute(str[s])
      OBVIOUS
    <3>3. m \in StreamType
      BY <2>1, <3>2 DEF Unmute, StreamType
    <3>4. str'[s] \in {[str[s] EXCEPT !.susp = {}], [m EXCEPT !.susp = {}]}
      BY <2>9, <3>2 DEF AfterResume, After
    <3>5. /\ SamePause(str[s], [str[s] EXCEPT !.susp = {}]) /\ SamePause(m, [m EXCEPT !.susp = {}])
      BY <2>1, <3>3, HelpersSame
    <3>6. SamePause(str[s], str'[s])
      BY <2>4, <3>2, <3>4, <3>5, SameTrans
    <3>. QED  BY <2>1, <3>1, <3>6, SameCalm DEF SamePause
  <2>. QED  BY <2>6, <2>7, <2>8, <2>9
<1>. QED  BY <1>2, <1>3 DEF PauseInv

\* Each step keeps the pauses.
LEMMA PauseNext ==
  ASSUME DevInv, PauseInv, "pause" \notin Overlaps, [Next]_vars
  PROVE  PauseInv'
<1>1. CASE BtNext
  BY <1>1, PauseAsks, PausePrepares, PauseSwitches, PauseEnds DEF BtNext
<1>2. ASSUME NEW s \in Streams, ClientNext(s)  PROVE PauseInv'
  <2>1. CASE \E D \in Routes : Create(s, D) \/ Route(s, D)
    BY <2>1, PauseStates, PauseLooks
  <2>2. CASE Open(s) \/ CloseRun(s) \/ Delete(s) \/ StopRun(s)
    BY <2>2, PauseStates
  <2>3. CASE StartRead(s) \/ StartRun(s) \/ StartRegister(s)
    BY <2>3, PauseStart
  <2>4. CASE Pause(s) \/ Resume(s)
    BY <2>4, PauseCalls
  <2>5. CASE Stop(s) \/ Close(s) \/ RouteSwitch(s) \/ RouteEnd(s)
    BY <2>5, PauseLooks
  <2>. QED  BY <1>2, <2>1, <2>2, <2>3, <2>4, <2>5 DEF ClientNext
<1>3. CASE UNCHANGED vars
  BY <1>3 DEF vars, PauseInv, Held, BtOps, Calm
<1>. QED  BY <1>1, <1>2, <1>3 DEF Next, Done

\* With the pauses of clients and requests apart in time (a client does not pause while a
\* request is served), each request resumes just what it has paused: a stream that is paused
\* when all is at rest is paused because its client asked for it, and still is (a2dpSuspend,
\* a2dpReconfig, pause_l, resume_l).  The hypothesis is the bound of the run; with "pause" in
\* Overlaps the property does not hold of the code.
THEOREM PausesAreKept ==
  ASSUME "pause" \notin Overlaps
  PROVE  Spec => []PauseKept
<1>1. Init => PauseInv
  <2>1. SUFFICES ASSUME Init  PROVE PauseInv
    OBVIOUS
  <2>2. \A s \in Streams : str[s] = Gone
    BY <2>1 DEF Init
  <2>3. Calm(Gone) /\ ~Gone.a2dpPaused
    BY DEF Calm, Gone
  <2>4. BtOps
    BY <2>1 DEF Init, BtOps, BtRest
  <2>. QED  BY <2>2, <2>3, <2>4 DEF PauseInv
<1>2. DevInv /\ PauseInv /\ [Next]_vars => PauseInv'
  BY PauseNext
<1>3. DevInv /\ PauseInv => PauseKept
  <2>1. SUFFICES ASSUME DevInv, PauseInv, Rest, NEW s \in Streams, str[s].state = "PAUSED"
        PROVE  str[s].isPaused = str[s].askedPause
    BY DEF PauseKept
  <2>2. ~str[s].a2dpPaused /\ Calm(str[s])
    BY <2>1 DEF PauseInv, Held, Rest
  <2>3. str[s].isPaused \in BOOLEAN /\ str[s].askedPause \in BOOLEAN
    BY <2>1 DEF DevInv, TypesOK, StreamType
  <2>4. str[s].isPaused <=> str[s].askedPause
    BY <2>1, <2>2 DEF Calm
  <2>. QED  BY <2>3, <2>4
<1>. QED  BY <1>1, <1>2, <1>3, CountsAreRight, PTL DEF Spec
=============================================================================

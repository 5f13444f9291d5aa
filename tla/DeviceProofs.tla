----------------------------- MODULE DeviceProofs -----------------------------
(* What opening, starting, stopping and closing a set of devices does to the *)
(* counters of each device.                                                  *)
EXTENDS Device, TLAPS

Counters == [count : Nat, startStop : Nat]
UseType == [Devices -> Counters]

\* No device is in use before a stream opens one: every counter starts at 0.
LEMMA NoUseTyped == NoUse \in UseType
BY DEF NoUse, UseType, Counters

\* An open and a start count on those devices only that they are given.
LEMMA OpenedStartedAt ==
  ASSUME NEW u \in UseType, NEW D, NEW d \in Devices
  PROVE  /\ Opened(u, D)[d] = [count |-> IF d \in D THEN u[d].count + 1 ELSE u[d].count,
                               startStop |-> u[d].startStop]
         /\ Started(u, D)[d] = [count |-> u[d].count,
                                startStop |-> IF d \in D THEN u[d].startStop + 1
                                                         ELSE u[d].startStop]
<1>1. u[d] \in Counters
  BY DEF UseType
<1>. QED  BY <1>1 DEF Opened, Started, Counters

\* A close and a stop count down to 0 and no further, and the last close forgets
\* the starts (Device::close).
LEMMA ClosedStoppedAt ==
  ASSUME NEW u \in UseType, NEW D, NEW d \in Devices
  PROVE  /\ Closed(u, D)[d] =
              [count |-> IF d \in D /\ u[d].count > 0 THEN u[d].count - 1 ELSE u[d].count,
               startStop |-> IF d \in D /\ u[d].count = 1 THEN 0 ELSE u[d].startStop]
         /\ Stopped(u, D)[d] =
              [count |-> u[d].count,
               startStop |-> IF d \in D /\ u[d].startStop > 0 THEN u[d].startStop - 1
                                                              ELSE u[d].startStop]
<1>1. u[d] = [count |-> u[d].count, startStop |-> u[d].startStop]
      /\ u[d].count \in Nat /\ u[d].startStop \in Nat
  BY DEF UseType, Counters
<1>2. CASE d \notin D
  BY <1>1, <1>2 DEF Closed, Stopped
<1>3. CASE d \in D
  <2>1. Closed(u, D)[d] = [count |-> IF u[d].count > 0 THEN u[d].count - 1 ELSE u[d].count,
               startStop |-> IF u[d].count = 1 THEN 0 ELSE u[d].startStop]
    <3>1. CASE u[d].count > 0
      BY <1>1, <1>3, <3>1 DEF Closed
    <3>2. CASE u[d].count = 0
      BY <1>1, <1>3, <3>2 DEF Closed
    <3>. QED  BY <1>1, <3>1, <3>2
  <2>2. Stopped(u, D)[d] = [count |-> u[d].count,
               startStop |-> IF u[d].startStop > 0 THEN u[d].startStop - 1 ELSE u[d].startStop]
    <3>1. CASE u[d].startStop > 0
      BY <1>1, <1>3, <3>1 DEF Stopped
    <3>2. CASE u[d].startStop = 0
      BY <1>1, <1>3, <3>2 DEF Stopped
    <3>. QED  BY <1>1, <3>1, <3>2
  <2>. QED  BY <1>3, <2>1, <2>2
<1>. QED  BY <1>2, <1>3

LEMMA CountersAre ==
  ASSUME NEW n \in Nat, NEW m \in Nat
  PROVE  [count |-> n, startStop |-> m] \in Counters
BY DEF Counters

\* The counters stay natural numbers.
LEMMA OpenedStartedTyped ==
  ASSUME NEW u \in UseType, NEW D
  PROVE  Opened(u, D) \in UseType /\ Started(u, D) \in UseType
<1>1. ASSUME NEW d \in Devices
      PROVE  Opened(u, D)[d] \in Counters /\ Started(u, D)[d] \in Counters
  <2>1. u[d].count \in Nat /\ u[d].startStop \in Nat
    BY DEF UseType, Counters
  <2>2. /\ u[d].count + 1 \in Nat /\ u[d].startStop + 1 \in Nat
        /\ (IF d \in D THEN u[d].count + 1 ELSE u[d].count) \in Nat
        /\ (IF d \in D THEN u[d].startStop + 1 ELSE u[d].startStop) \in Nat
    BY <2>1
  <2>3. /\ [count |-> IF d \in D THEN u[d].count + 1 ELSE u[d].count,
            startStop |-> u[d].startStop] \in Counters
        /\ [count |-> u[d].count,
            startStop |-> IF d \in D THEN u[d].startStop + 1
                                     ELSE u[d].startStop] \in Counters
    BY <2>1, <2>2, CountersAre
  <2>. QED  BY <2>3, OpenedStartedAt
<1>. QED  BY <1>1 DEF Opened, Started, UseType

LEMMA ClosedStoppedTyped ==
  ASSUME NEW u \in UseType, NEW D
  PROVE  Closed(u, D) \in UseType /\ Stopped(u, D) \in UseType
<1>1. ASSUME NEW d \in Devices
      PROVE  Closed(u, D)[d] \in Counters /\ Stopped(u, D)[d] \in Counters
  <2>1. u[d].count \in Nat /\ u[d].startStop \in Nat
    BY DEF UseType, Counters
  <2>2. /\ (IF d \in D /\ u[d].count > 0 THEN u[d].count - 1 ELSE u[d].count) \in Nat
        /\ (IF d \in D /\ u[d].count = 1 THEN 0 ELSE u[d].startStop) \in Nat
        /\ (IF d \in D /\ u[d].startStop > 0 THEN u[d].startStop - 1
                                               ELSE u[d].startStop) \in Nat
    BY <2>1
  <2>3. /\ [count |-> IF d \in D /\ u[d].count > 0 THEN u[d].count - 1 ELSE u[d].count,
            startStop |-> IF d \in D /\ u[d].count = 1 THEN 0 ELSE u[d].startStop] \in Counters
        /\ [count |-> u[d].count,
            startStop |-> IF d \in D /\ u[d].startStop > 0 THEN u[d].startStop - 1
                                                            ELSE u[d].startStop] \in Counters
    BY <2>1, <2>2, CountersAre
  <2>. QED  BY <2>3, ClosedStoppedAt, ZenonT(40)
<1>. QED  BY <1>1 DEF Closed, Stopped, UseType

-----------------------------------------------------------------------------
(* One user of all the devices: it has opened and started each the same      *)
(* number of times.                                                          *)

UseOf(n, m) == [d \in Devices |-> [count |-> n, startStop |-> m]]

\* A device goes from closed to open to running and back to closed, by a close from
\* either; a stop or a close of what is not in use changes nothing.
LEMMA UseOfSteps ==
  /\ NoUse = UseOf(0, 0)
  /\ Opened(UseOf(0, 0), Devices) = UseOf(1, 0)
  /\ Started(UseOf(1, 0), Devices) = UseOf(1, 1)
  /\ Stopped(UseOf(1, 1), Devices) = UseOf(1, 0)
  /\ Stopped(UseOf(1, 0), Devices) = UseOf(1, 0)
  /\ Stopped(UseOf(0, 0), Devices) = UseOf(0, 0)
  /\ Closed(UseOf(1, 1), Devices) = UseOf(0, 0)
  /\ Closed(UseOf(1, 0), Devices) = UseOf(0, 0)
  /\ Closed(UseOf(0, 0), Devices) = UseOf(0, 0)
BY DEF UseOf, NoUse, Opened, Started, Stopped, Closed
=============================================================================

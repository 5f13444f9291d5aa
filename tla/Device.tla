--------------------------------- MODULE Device ---------------------------------
(* The counters of the base class Device.  A stream opens, starts, stops and *)
(* closes a set of devices at a time; each counter is changed under the      *)
(* mDeviceMutex of its device.                                               *)
EXTENDS Naturals

CONSTANT Devices

NoUse == [d \in Devices |-> [count |-> 0, startStop |-> 0]]

Opened(dv, D) == [d \in Devices |->
  IF d \in D THEN [dv[d] EXCEPT !.count = @ + 1] ELSE dv[d]]

\* The counts stop at 0, and the last close forgets the start count.
Closed(dv, D) == [d \in Devices |->
  IF d \in D /\ dv[d].count > 0
    THEN [count |-> dv[d].count - 1,
          startStop |-> IF dv[d].count = 1 THEN 0 ELSE dv[d].startStop]
    ELSE dv[d]]

Started(dv, D) == [d \in Devices |->
  IF d \in D THEN [dv[d] EXCEPT !.startStop = @ + 1] ELSE dv[d]]

Stopped(dv, D) == [d \in Devices |->
  IF d \in D /\ dv[d].startStop > 0 THEN [dv[d] EXCEPT !.startStop = @ - 1]
                                    ELSE dv[d]]

ProperSubsets(D) == SUBSET D \ {D}
=============================================================================

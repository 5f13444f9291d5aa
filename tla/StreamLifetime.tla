---------------------------- MODULE StreamLifetime ----------------------------
(***************************************************************************)
(* What a client of PAL may rely on: the life of a stream object.  A       *)
(* stream is created, published to clients, retired by one close and       *)
(* destroyed.  Users enter only while it is published, stay as long as     *)
(* they like, and it is destroyed only after the last of them has left.    *)
(* The code promises no more than that; how it keeps the promise is the    *)
(* subject of StreamUserCounter.                                           *)
(***************************************************************************)
CONSTANTS Threads, Streams

VARIABLES
  alive,      \* the streams whose object exists
  published,  \* the streams that accept users
  users       \* the threads at work on each stream

vars == <<alive, published, users>>

TypeOK ==
  /\ alive \subseteq Streams
  /\ published \subseteq alive
  /\ users \in [Streams -> SUBSET Threads]

Init ==
  /\ alive = {}
  /\ published = {}
  /\ users = [s \in Streams |-> {}]

Create(s) ==
  /\ s \notin alive
  /\ alive' = alive \cup {s}
  /\ UNCHANGED <<published, users>>

Publish(s) ==
  /\ s \in alive \ published
  /\ published' = published \cup {s}
  /\ UNCHANGED <<alive, users>>

Enter(t, s) ==
  /\ s \in published /\ t \notin users[s]
  /\ users' = [users EXCEPT ![s] = @ \cup {t}]
  /\ UNCHANGED <<alive, published>>

Leave(t, s) ==
  /\ t \in users[s]
  /\ users' = [users EXCEPT ![s] = @ \ {t}]
  /\ UNCHANGED <<alive, published>>

Retire(s) ==
  /\ s \in published
  /\ published' = published \ {s}
  /\ UNCHANGED <<alive, users>>

Destroy(s) ==
  /\ s \in alive \ published /\ users[s] = {}
  /\ alive' = alive \ {s}
  /\ UNCHANGED <<published, users>>

Next ==
  \E s \in Streams :
    \/ Create(s) \/ Publish(s) \/ Retire(s) \/ Destroy(s)
    \/ \E t \in Threads : Enter(t, s) \/ Leave(t, s)

Spec == Init /\ [][Next]_vars
=============================================================================

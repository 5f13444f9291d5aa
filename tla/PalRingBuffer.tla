----------------------------- MODULE PalRingBuffer -----------------------------
(***************************************************************************)
(* PalRingBuffer: one writer, the buffering loop of the sound trigger      *)
(* engine, and several readers, the second stages and the clients of the   *)
(* streams detected.                                                       *)
(*                                                                         *)
(* Every operation runs under the mutex of the ring and is one step, but   *)
(* reset, which gives it up before it resets the readers one by one.  The  *)
(* ring keeps no read position of its own: each reader has an offset and a *)
(* size it believes unread, and the writer spares only the unread bytes of *)
(* readers that are enabled.                                               *)
(*                                                                         *)
(* A byte is named by its place in the order of writing since the last     *)
(* reset, so that what a reader gets can be compared with what was written.*)
(* waitForBuffers changes nothing but the size it waits for and is left    *)
(* out; so are the keyword indices kept beside the bytes.                  *)
(***************************************************************************)
EXTENDS Naturals, Sequences

CONSTANTS
  Readers,      \* the readers of the ring
  Streams,      \* the streams the readers belong to
  Owner,        \* the stream of each reader
  bufferEnd_,   \* the size of the ring
  MaxSize,      \* the largest write, read, advance and keyword position
  MaxWritten,   \* the bytes written between two resets (bound of the runs)
  Unwritten     \* what a cell of the ring holds before it is written

ASSUME SizeAssumption == bufferEnd_ \in Nat \ {0} /\ MaxSize \in Nat
ASSUME UnwrittenAssumption == Unwritten \notin Nat
ASSUME OwnerAssumption == Owner \in [Readers -> Streams]

Cells == 0 .. bufferEnd_ - 1

VARIABLES
  buffer_,      \* the byte in each cell
  writeOffset_,
  written,      \* bytes written since the last reset
  reader,       \* the reader objects
  start,        \* the byte a reader is to begin with, when a detection set one
  got,          \* the bytes of the last read since the reader was repositioned
  resetting     \* readers that reset has still to reset

vars == <<buffer_, writeOffset_, written, reader, start, got, resetting>>

Init ==
  /\ buffer_ = [c \in Cells |-> Unwritten]
  /\ writeOffset_ = 0 /\ written = 0
  /\ reader = [r \in Readers |->
       [unreadSize_ |-> 0, readOffset_ |-> 0, state_ |-> "DISABLED"]]
  /\ start = [r \in Readers |-> Unwritten]
  /\ got = [r \in Readers |-> <<>>]
  /\ resetting = {}

Wrapped(c) == IF c >= bufferEnd_ THEN c - bufferEnd_ ELSE c

(* getFreeSize: the difference is unsigned, so that an enabled reader with *)
(* more unread than the ring holds does not limit the writer at all.       *)
Fits(n) ==
  /\ n <= bufferEnd_
  /\ \A r \in Readers :
       /\ reader[r].state_ = "ENABLED"
       /\ reader[r].unreadSize_ <= bufferEnd_
       => n <= bufferEnd_ - reader[r].unreadSize_

\* Mutant of Store: an offset that has reached the end of the ring stays there.
StoreNoWrap(n) ==
  /\ buffer_' = [c \in Cells |->
       LET i == IF c >= writeOffset_ THEN c - writeOffset_
                                     ELSE c + bufferEnd_ - writeOffset_
       IN  IF i < n THEN written + i ELSE buffer_[c]]
  /\ writeOffset_' = IF writeOffset_ + n > bufferEnd_
                       THEN writeOffset_ + n - bufferEnd_ ELSE writeOffset_ + n
  /\ written' = written + n
  /\ reader' = [r \in Readers |-> [reader[r] EXCEPT !.unreadSize_ = @ + n]]
  /\ UNCHANGED <<start, got, resetting>>

\* Copy n bytes behind the write offset and count them as unread for every reader.
Store(n) ==
  /\ buffer_' = [c \in Cells |->
       LET i == IF c >= writeOffset_ THEN c - writeOffset_
                                     ELSE c + bufferEnd_ - writeOffset_
       IN  IF i < n THEN written + i ELSE buffer_[c]]
  /\ writeOffset_' = Wrapped(writeOffset_ + n)
  /\ written' = written + n
  /\ reader' = [r \in Readers |-> [reader[r] EXCEPT !.unreadSize_ = @ + n]]
  /\ UNCHANGED <<start, got, resetting>>

\* Mutant of Write: the free size is not looked at.
WriteAll(size) ==
  /\ resetting = {} /\ written + size <= MaxWritten
  /\ size <= bufferEnd_
  /\ Store(size)

\* What does not fit is dropped.
Write(size) ==
  /\ resetting = {} /\ written + size <= MaxWritten
  /\ \E n \in 0 .. size :
       /\ Fits(n) /\ (n < size => ~ Fits(n + 1))
       /\ Store(n)

\* The size of what lies between the offsets; equal offsets are a full ring.
Available(r) ==
  IF writeOffset_ > reader[r].readOffset_
    THEN writeOffset_ - reader[r].readOffset_
    ELSE bufferEnd_ - reader[r].readOffset_ + writeOffset_

Smaller(m, n) == IF m < n THEN m ELSE n

\* Mutant of Read: the unread size is counted down, not taken from the offsets.
ReadCountsDown(r, size) ==
  LET n == Smaller(size, Available(r))
      from == reader[r].readOffset_ IN
    /\ resetting = {} /\ reader[r].state_ # "DISABLED"
    /\ IF reader[r].unreadSize_ = 0
         THEN reader' = [reader EXCEPT ![r].state_ = "ENABLED"] /\ UNCHANGED got
         ELSE /\ reader' = [reader EXCEPT ![r] =
                   [unreadSize_ |-> reader[r].unreadSize_ - Smaller(n, reader[r].unreadSize_),
                    readOffset_ |-> Wrapped(from + n),
                    state_ |-> "ENABLED"]]
              /\ got' = [got EXCEPT ![r] =
                   [i \in 1 .. n |-> buffer_[Wrapped(from + i - 1)]]]
    /\ UNCHANGED <<buffer_, writeOffset_, written, start, resetting>>

(* A disabled reader gets -EINVAL.  The first read of a prepared one       *)
(* enables it.  The size read is not taken from unreadSize_, which is only *)
(* looked at for 0, but from the offsets.                                  *)
Read(r, size) ==
  LET n == Smaller(size, Available(r))
      from == reader[r].readOffset_ IN
    /\ resetting = {} /\ reader[r].state_ # "DISABLED"
    /\ IF reader[r].unreadSize_ = 0
         THEN reader' = [reader EXCEPT ![r].state_ = "ENABLED"] /\ UNCHANGED got
         ELSE /\ reader' = [reader EXCEPT ![r] =
                   [unreadSize_ |-> Available(r) - n,
                    readOffset_ |-> Wrapped(from + n),
                    state_ |-> "ENABLED"]]
              /\ got' = [got EXCEPT ![r] =
                   [i \in 1 .. n |-> buffer_[Wrapped(from + i - 1)]]]
    /\ UNCHANGED <<buffer_, writeOffset_, written, start, resetting>>

\* Mutant of AdvanceReadOffset: nothing is advanced past the unread size.
AdvanceChecked(r, size) ==
  /\ resetting = {} /\ reader[r].state_ # "DISABLED" /\ got[r] = <<>>
  /\ start[r] # Unwritten /\ start[r] + size < written
  /\ reader' = IF reader[r].unreadSize_ > size
       THEN [reader EXCEPT ![r].readOffset_ = (@ + size) % bufferEnd_,
                           ![r].unreadSize_ = @ - size]
       ELSE reader
  /\ start' = [start EXCEPT ![r] = @ + size]
  /\ UNCHANGED <<buffer_, writeOffset_, written, got, resetting>>

\* advanceReadOffset, before the first read and within what is in the ring.
AdvanceReadOffset(r, size) ==
  /\ resetting = {} /\ reader[r].state_ # "DISABLED" /\ got[r] = <<>>
  /\ start[r] # Unwritten /\ start[r] + size < written
  /\ reader' = [reader EXCEPT
       ![r].readOffset_ = (@ + size) % bufferEnd_,
       ![r].unreadSize_ = IF @ > size THEN @ - size ELSE @]
  /\ start' = [start EXCEPT ![r] = @ + size]
  /\ UNCHANGED <<buffer_, writeOffset_, written, got, resetting>>

(* updateState.  A second stage is enabled and a client prepared when the  *)
(* detection is announced, which the buffering loop does when it has       *)
(* written the keyword (total_read_size >= ftrt_size); they are disabled   *)
(* when they are done and wait for the next detection.                     *)
Announce(r, state) ==
  /\ resetting = {} /\ reader[r].state_ = "DISABLED"
  /\ start[r] # Unwritten /\ start[r] < written
  /\ reader' = [reader EXCEPT ![r].state_ = state]
  /\ UNCHANGED <<buffer_, writeOffset_, written, start, got, resetting>>

Disable(r) ==
  /\ resetting = {} /\ reader[r].state_ # "DISABLED"
  /\ reader' = [reader EXCEPT ![r].state_ = "DISABLED"]
  /\ start' = [start EXCEPT ![r] = Unwritten]
  /\ got' = [got EXCEPT ![r] = <<>>]
  /\ UNCHANGED <<buffer_, writeOffset_, written, resetting>>

(* updateKwdConfig for a stream detected, whose readers wait disabled: its *)
(* keyword, less the pre-roll, begins sz bytes behind the begin of the     *)
(* ring, counted without the wrap.                                         *)
UpdateKwdConfig(s, sz) ==
  LET mine == {r \in Readers : Owner[r] = s} IN
    /\ resetting = {}
    /\ \A r \in mine : reader[r].state_ = "DISABLED" /\ start[r] = Unwritten
    /\ reader' = [r \in Readers |-> IF r \in mine
         THEN [unreadSize_ |-> (IF reader[r].unreadSize_ > sz
                                  THEN reader[r].unreadSize_ - sz
                                  ELSE reader[r].unreadSize_) % bufferEnd_,
               readOffset_ |-> sz % bufferEnd_,
               state_ |-> "DISABLED"]
         ELSE reader[r]]
    /\ start' = [r \in Readers |-> IF r \in mine THEN sz ELSE start[r]]
    /\ UNCHANGED <<buffer_, writeOffset_, written, got, resetting>>

ReaderReset(r) ==
  /\ reader' = [reader EXCEPT ![r] =
       [unreadSize_ |-> 0, readOffset_ |-> 0, state_ |-> "DISABLED"]]
  /\ start' = [start EXCEPT ![r] = Unwritten]
  /\ got' = [got EXCEPT ![r] = <<>>]

\* A stream restarts while the engine goes on buffering for another one.
ResetReader(r) ==
  /\ resetting = {} /\ ReaderReset(r)
  /\ UNCHANGED <<buffer_, writeOffset_, written, resetting>>

Reset ==
  /\ resetting = {}
  /\ writeOffset_' = 0 /\ written' = 0
  /\ buffer_' = [c \in Cells |-> Unwritten]    \* what it holds counts no more
  /\ resetting' = Readers
  /\ UNCHANGED <<reader, start, got>>

ResetNext(r) ==
  /\ r \in resetting /\ ReaderReset(r)
  /\ resetting' = resetting \ {r}
  /\ UNCHANGED <<buffer_, writeOffset_, written>>

Next ==
  \/ \E n \in 1 .. MaxSize :
       \/ Write(n)
       \/ \E r \in Readers : Read(r, n) \/ AdvanceReadOffset(r, n)
  \/ \E s \in Streams, n \in 0 .. MaxSize : UpdateKwdConfig(s, n)
  \/ \E r \in Readers :
       \/ Announce(r, "PREPARED") \/ Announce(r, "ENABLED") \/ Disable(r)
       \/ ResetReader(r) \/ ResetNext(r)
  \/ Reset

Spec == Init /\ [][Next]_vars

-----------------------------------------------------------------------------
(* Every variable keeps its type; in particular the offsets stay inside    *)
(* the ring, whatever sizes are asked for.                                 *)
TypeOK ==
  /\ buffer_ \in [Cells -> Nat \cup {Unwritten}]
  /\ writeOffset_ \in Cells /\ written \in Nat
  /\ reader \in [Readers -> [unreadSize_ : Nat, readOffset_ : Cells,
                             state_ : {"DISABLED", "PREPARED", "ENABLED"}]]
  /\ start \in [Readers -> Nat \cup {Unwritten}]
  /\ got \in [Readers -> Seq(Nat)]
  /\ resetting \subseteq Readers

(* The unread bytes of a reader that is enabled and has begun to read are  *)
(* in the ring, the oldest at its read offset, however much the writer has *)
(* written and dropped meanwhile and wherever the offsets have wrapped.    *)
UnreadIntact ==
  \A r \in Readers : got[r] # <<>> /\ resetting = {} =>
    /\ reader[r].unreadSize_ <= written
    /\ \A i \in 0 .. reader[r].unreadSize_ - 1 :
         buffer_[Wrapped(reader[r].readOffset_ + i)]
           = written - reader[r].unreadSize_ + i

Consecutive(bytes) ==
  \A i \in 1 .. Len(bytes) - 1 : bytes[i + 1] = bytes[i] + 1

(* What a read returns are consecutive bytes, and they go on where the     *)
(* read before stopped: nothing is lost, repeated or read before it is     *)
(* written.                                                                *)
ReadsInOrder ==
  [][\A r \in Readers : got'[r] # got[r] /\ got'[r] # <<>>
       => Consecutive(got[r] \o got'[r])]_vars

(* A reader begins where the detection has put it, if its bytes are still  *)
(* in the ring: neither unread sizes that count what was written before    *)
(* the detection nor keyword positions past the end of the ring mislead    *)
(* it.                                                                     *)
FirstReadAtStart ==
  [][\A r \in Readers :
       /\ got[r] = <<>> /\ got'[r] # <<>>
       /\ written - start[r] <= bufferEnd_
       => got'[r][1] = start[r]]_vars
=============================================================================

-------------------------- MODULE PalRingBufferProofs --------------------------
(***************************************************************************)
(* Proofs about PalRingBuffer: for every size of the ring and any readers, *)
(* the offsets stay inside the ring, the unread bytes of a reader that is  *)
(* reading stay in it, and it reads them in order.                         *)
(***************************************************************************)
EXTENDS PalRingBuffer, SequenceTheorems, TLAPS

\* Where the byte in cell 0 stands in the order of writing.
Base == written - writeOffset_

(* The ring holds the last bytes written: those of this round below the    *)
(* write offset, those of the round before behind it.                      *)
RingInv ==
  /\ writeOffset_ <= written
  /\ Base = 0 \/ Base >= bufferEnd_
  /\ \A c \in Cells :
       /\ c < writeOffset_ => buffer_[c] = Base + c
       /\ c >= writeOffset_ /\ Base >= bufferEnd_
            => buffer_[c] = Base + c - bufferEnd_

(* A reader that has begun to read knows exactly what it has not read, and *)
(* the writer leaves it alone.                                             *)
Synced(r) ==
  /\ reader[r].state_ = "ENABLED"
  /\ reader[r].unreadSize_ <= bufferEnd_
  /\ \/ reader[r].readOffset_ + reader[r].unreadSize_ = writeOffset_
     \/ /\ reader[r].readOffset_ + reader[r].unreadSize_ = writeOffset_ + bufferEnd_
        /\ Base >= bufferEnd_
  /\ got[r][Len(got[r])] + 1 + reader[r].unreadSize_ = written

SyncInv == \A r \in Readers \ resetting : got[r] # <<>> => Synced(r)

(* A reader that is not disabled was given a byte to begin with, one that  *)
(* is written; in the first round of the ring its offset is that byte.     *)
StartInv ==
  \A r \in Readers \ resetting :
    /\ reader[r].state_ # "DISABLED" => start[r] # Unwritten /\ start[r] < written
    /\ start[r] # Unwritten /\ start[r] < bufferEnd_ /\ got[r] = <<>>
         => reader[r].readOffset_ = start[r]

\* The readers that reset is done with hold nothing.
ResetInv ==
  resetting # {} => \A r \in Readers \ resetting :
    got[r] = <<>> /\ start[r] = Unwritten

IInv == TypeOK /\ RingInv /\ SyncInv /\ StartInv /\ ResetInv

\* What a reader got last were consecutive bytes.
GotInv == \A r \in Readers : Consecutive(got[r])

-----------------------------------------------------------------------------
(* A remainder lies inside the ring and leaves what lies there alone.      *)
LEMMA Remainder ==
  ASSUME NEW a \in Nat
  PROVE  a % bufferEnd_ \in Cells /\ (a < bufferEnd_ => a % bufferEnd_ = a)
BY SizeAssumption DEF Cells

(* From an offset that the ring has written behind, the available cells    *)
(* hold the last bytes written, in order.                                  *)
LEMMA CellsAvailable ==
  ASSUME TypeOK, RingInv, NEW r \in Readers,
         writeOffset_ > reader[r].readOffset_ \/ Base >= bufferEnd_
  PROVE  /\ Available(r) \in 1 .. bufferEnd_
         /\ Available(r) <= written
         /\ \A i \in 0 .. Available(r) - 1 :
              buffer_[Wrapped(reader[r].readOffset_ + i)]
                = written - Available(r) + i
<1>. USE SizeAssumption
<1>1. /\ writeOffset_ \in Nat /\ writeOffset_ < bufferEnd_ /\ written \in Nat
      /\ reader[r].readOffset_ \in Nat /\ reader[r].readOffset_ < bufferEnd_
  BY DEF TypeOK, Cells
<1>2. /\ Available(r) \in 1 .. bufferEnd_
      /\ Available(r) <= written
  BY <1>1 DEF Available, RingInv, Base
<1>3. ASSUME NEW i \in 0 .. Available(r) - 1
      PROVE  buffer_[Wrapped(reader[r].readOffset_ + i)]
               = written - Available(r) + i
  <2>. DEFINE c == Wrapped(reader[r].readOffset_ + i)
  <2>1. c \in Cells
    BY <1>1, <1>2 DEF Wrapped, Available, Cells
  <2>2. CASE writeOffset_ > reader[r].readOffset_
    <3>1. c = reader[r].readOffset_ + i /\ c < writeOffset_
      BY <1>1, <2>2 DEF Wrapped, Available
    <3>. QED  BY <1>1, <2>1, <2>2, <3>1 DEF RingInv, Base, Available
  <2>3. CASE ~ (writeOffset_ > reader[r].readOffset_)
    <3>1. CASE reader[r].readOffset_ + i < bufferEnd_
      <4>1. c = reader[r].readOffset_ + i /\ c >= writeOffset_
        BY <1>1, <2>3, <3>1 DEF Wrapped, Available
      <4>. QED  BY <1>1, <2>1, <2>3, <4>1 DEF RingInv, Base, Available
    <3>2. CASE reader[r].readOffset_ + i >= bufferEnd_
      <4>1. c = reader[r].readOffset_ + i - bufferEnd_ /\ c < writeOffset_
        BY <1>1, <2>3, <3>2 DEF Wrapped, Available
      <4>. QED  BY <1>1, <2>1, <2>3, <4>1 DEF RingInv, Base, Available
    <3>. QED  BY <1>1, <3>1, <3>2
  <2>. QED  BY <2>2, <2>3
<1>. QED  BY <1>2, <1>3

(* A reader that has begun to read: what lies between the offsets is what  *)
(* it has not read.                                                        *)
LEMMA SyncedAvailable ==
  ASSUME TypeOK, RingInv, NEW r \in Readers, Synced(r),
         reader[r].unreadSize_ # 0
  PROVE  /\ Available(r) = reader[r].unreadSize_
         /\ writeOffset_ > reader[r].readOffset_ \/ Base >= bufferEnd_
<1>1. /\ writeOffset_ \in Nat /\ writeOffset_ < bufferEnd_
      /\ reader[r].readOffset_ \in Nat /\ reader[r].readOffset_ < bufferEnd_
      /\ reader[r].unreadSize_ \in Nat
  BY SizeAssumption DEF TypeOK, Cells
<1>. DEFINE o == reader[r].readOffset_
            u == reader[r].unreadSize_
            a == Available(r)
<1>2. /\ u <= bufferEnd_
      /\ o + u = writeOffset_ \/ (o + u = writeOffset_ + bufferEnd_ /\ Base >= bufferEnd_)
  BY DEF Synced
<1>3. a = IF writeOffset_ > o THEN writeOffset_ - o ELSE bufferEnd_ - o + writeOffset_
  BY DEF Available
<1>4. /\ u # 0 /\ u \in Nat /\ o \in Nat /\ o < bufferEnd_ /\ bufferEnd_ \in Nat
      /\ writeOffset_ \in Nat /\ writeOffset_ < bufferEnd_
  BY <1>1, SizeAssumption
<1>5. a = u /\ (writeOffset_ > o \/ Base >= bufferEnd_)
  <2>. HIDE DEF o, u, a
  <2>. QED  BY <1>2, <1>3, <1>4
<1>. QED  BY <1>5

(* A reader with something to read finds it written.                       *)
LEMMA ReadableWritten ==
  ASSUME IInv, NEW r \in Readers, resetting = {},
         reader[r].state_ # "DISABLED", reader[r].unreadSize_ # 0
  PROVE  writeOffset_ > reader[r].readOffset_ \/ Base >= bufferEnd_
<1>1. CASE got[r] # <<>>
  BY <1>1, SyncedAvailable DEF IInv, SyncInv
<1>2. CASE got[r] = <<>>
  <2>1. start[r] \in Nat /\ start[r] < written
    BY DEF IInv, StartInv, TypeOK
  <2>2. start[r] < bufferEnd_ => reader[r].readOffset_ = start[r]
    BY <1>2, <2>1, UnwrittenAssumption DEF IInv, StartInv
  <2>3. writeOffset_ \in Nat /\ writeOffset_ < bufferEnd_ /\ written \in Nat
    BY SizeAssumption DEF IInv, TypeOK, Cells
  <2>. QED  BY <2>1, <2>2, <2>3, SizeAssumption DEF IInv, RingInv, Base
<1>. QED  BY <1>1, <1>2

LEMMA InitIInv == Init => IInv
<1>. SUFFICES ASSUME Init PROVE IInv
  OBVIOUS
<1>1. 0 \in Cells
  BY SizeAssumption DEF Cells
<1>2. TypeOK
  BY <1>1 DEF Init, TypeOK
<1>3. RingInv
  BY SizeAssumption DEF Init, RingInv, Base, Cells
<1>4. SyncInv /\ StartInv /\ ResetInv
  BY DEF Init, SyncInv, StartInv, ResetInv
<1>. QED  BY <1>2, <1>3, <1>4 DEF IInv

(* An offset and an unread size that lead to the write offset still do so  *)
(* when n bytes are stored, whether or not the write offset wraps.         *)
LEMMA OffsetsKeep ==
  ASSUME NEW o \in Nat, NEW u \in Nat, NEW n \in Nat, NEW w \in Nat, NEW b \in Nat,
         NEW w1 \in Nat, NEW b1 \in Nat, NEW size \in Nat,
         o < size, w < size, u + n <= size,
         w1 = IF w + n >= size THEN w + n - size ELSE w + n,
         b1 = IF w + n >= size THEN b + size ELSE b,
         o + u = w \/ (o + u = w + size /\ b >= size)
  PROVE  o + (u + n) = w1 \/ (o + (u + n) = w1 + size /\ b1 >= size)
<1>1. CASE w + n >= size
  BY <1>1
<1>2. CASE w + n < size
  BY <1>2
<1>. QED  BY <1>1, <1>2

(* They still do when n of the bytes between them are read.                *)
LEMMA OffsetsRead ==
  ASSUME NEW o \in Nat, NEW w \in Nat, NEW n \in Nat, NEW a \in Nat,
         NEW o1 \in Nat, NEW b \in Nat, NEW size \in Nat,
         o < size, w < size, n <= a, 1 <= n,
         a = IF w > o THEN w - o ELSE size - o + w,
         o1 = IF o + n >= size THEN o + n - size ELSE o + n,
         b >= size \/ w > o
  PROVE  /\ o1 < size /\ a - n \in Nat /\ a - n <= size
         /\ o1 + (a - n) = w \/ (o1 + (a - n) = w + size /\ b >= size)
<1>1. CASE o + n >= size
  BY <1>1
<1>2. CASE ~ (o + n >= size)
  BY <1>2
<1>. QED  BY <1>1, <1>2

-----------------------------------------------------------------------------
(* Each operation preserves the invariant.                                 *)

LEMMA WriteStep ==
  ASSUME IInv, NEW size \in 1 .. MaxSize, Write(size)
  PROVE  IInv'
<1>. USE SizeAssumption DEF IInv
<1>1. PICK n \in 0 .. size : Fits(n) /\ Store(n)
  BY DEF Write
<1>2. /\ n \in Nat /\ n <= bufferEnd_ /\ resetting = {} /\ resetting' = {}
      /\ writeOffset_ \in Nat /\ writeOffset_ < bufferEnd_ /\ written \in Nat
      /\ written' = written + n
      /\ writeOffset_' = IF writeOffset_ + n >= bufferEnd_
                           THEN writeOffset_ + n - bufferEnd_
                           ELSE writeOffset_ + n
  BY <1>1, SMTT(30) DEF Write, Fits, Store, Wrapped, TypeOK, Cells
<1>3. Base' = IF writeOffset_ + n >= bufferEnd_ THEN Base + bufferEnd_ ELSE Base
  BY <1>2 DEF Base, RingInv
<1>4. TypeOK'
  <2>1. buffer_' \in [Cells -> Nat \cup {Unwritten}]
    <3>1. ASSUME NEW c \in Cells
          PROVE  /\ c >= writeOffset_ => written + (c - writeOffset_) \in Nat
                 /\ c < writeOffset_ =>
                      written + (c + bufferEnd_ - writeOffset_) \in Nat
                 /\ buffer_[c] \in Nat \cup {Unwritten}
                 /\ c < writeOffset_ <=> ~ (c >= writeOffset_)
      BY <1>2 DEF Cells, TypeOK
    <3>. HIDE DEF IInv
    <3>. QED  BY <1>1, <3>1 DEF Store
  <2>2. writeOffset_' \in Cells /\ written' \in Nat
    BY <1>2 DEF Cells
  <2>3. reader' \in [Readers -> [unreadSize_ : Nat, readOffset_ : Cells,
                       state_ : {"DISABLED", "PREPARED", "ENABLED"}]]
    <3>. DEFINE ReaderType == [unreadSize_ : Nat, readOffset_ : Cells,
                               state_ : {"DISABLED", "PREPARED", "ENABLED"}]
    <3>1. ASSUME NEW r \in Readers
          PROVE  [reader[r] EXCEPT !.unreadSize_ = @ + n] \in ReaderType
      <4>1. reader[r] \in ReaderType
        BY DEF TypeOK
      <4>. QED  BY <1>2, <4>1
    <3>. HIDE DEF IInv, ReaderType
    <3>2. reader' \in [Readers -> ReaderType]
      BY <1>1, <3>1 DEF Store
    <3>. QED  BY <3>2 DEF ReaderType
  <2>. QED  BY <1>1, <1>2, <2>1, <2>2, <2>3 DEF Store, TypeOK
<1>5. RingInv'
  <2>1. ASSUME NEW c \in Cells
        PROVE  /\ c < writeOffset_' => buffer_'[c] = Base' + c
               /\ c >= writeOffset_' /\ Base' >= bufferEnd_
                    => buffer_'[c] = Base' + c - bufferEnd_
    <3>. DEFINE i == IF c >= writeOffset_ THEN c - writeOffset_
                                          ELSE c + bufferEnd_ - writeOffset_
    <3>1. c \in Nat /\ c < bufferEnd_ /\ i \in Nat
      BY <1>2 DEF Cells
    <3>2. buffer_'[c] = IF i < n THEN written + i ELSE buffer_[c]
      BY <1>1 DEF Store
    <3>3. /\ c < writeOffset_ => buffer_[c] = Base + c
          /\ c >= writeOffset_ /\ Base >= bufferEnd_
               => buffer_[c] = Base + c - bufferEnd_
      BY DEF RingInv
    <3>4. written = Base + writeOffset_ /\ Base \in Nat
      BY <1>2 DEF Base, RingInv
    <3>5. Base = 0 \/ Base >= bufferEnd_
      BY DEF RingInv
    <3>. HIDE DEF IInv
    <3>. QED  BY <1>2, <1>3, <3>1, <3>2, <3>3, <3>4, <3>5
  <2>2. writeOffset_' <= written' /\ (Base' = 0 \/ Base' >= bufferEnd_)
    BY <1>2, <1>3 DEF RingInv, Base
  <2>. QED  BY <2>1, <2>2 DEF RingInv, Cells
<1>6. SyncInv'
  <2>. SUFFICES ASSUME NEW r \in Readers, got[r] # <<>> PROVE Synced(r)'
    BY <1>1 DEF SyncInv, Store
  <2>1. Synced(r)
    BY <1>2 DEF SyncInv
  <2>2. /\ reader[r].unreadSize_ \in Nat /\ reader[r].readOffset_ \in Nat
        /\ reader[r].readOffset_ < bufferEnd_
        /\ reader[r].unreadSize_ + n <= bufferEnd_
    BY <1>1, <1>2, <2>1, SMTT(30) DEF Synced, Fits, TypeOK, Cells
  <2>3. /\ reader'[r].unreadSize_ = reader[r].unreadSize_ + n
        /\ reader'[r].readOffset_ = reader[r].readOffset_
        /\ reader'[r].state_ = reader[r].state_
        /\ got' = got
    BY <1>1 DEF Store, TypeOK
  <2>4. got[r][Len(got[r])] \in Nat
    <3>1. got[r] \in Seq(Nat)
      BY DEF TypeOK
    <3>. QED  BY <3>1
  <2>5. Base \in Nat
    BY <1>2 DEF Base, RingInv
  <2>6. \/ reader[r].readOffset_ + reader[r].unreadSize_ = writeOffset_
        \/ /\ reader[r].readOffset_ + reader[r].unreadSize_
                = writeOffset_ + bufferEnd_
           /\ Base >= bufferEnd_
    BY <2>1 DEF Synced
  <2>. DEFINE o == reader[r].readOffset_
              u == reader[r].unreadSize_
              g == got[r][Len(got[r])]
  <2>7. \/ o + (u + n) = writeOffset_'
        \/ o + (u + n) = writeOffset_' + bufferEnd_ /\ Base' >= bufferEnd_
    <3>1. /\ Base' \in Nat /\ writeOffset_' \in Nat /\ bufferEnd_ \in Nat
          /\ o \in Nat /\ u \in Nat /\ n \in Nat
          /\ o < bufferEnd_ /\ u + n <= bufferEnd_
      BY <1>2, <1>3, <2>2, <2>5, SMTT(30)
    <3>2. o + u = writeOffset_ \/ (o + u = writeOffset_ + bufferEnd_ /\ Base >= bufferEnd_)
      BY <2>6
    <3>. HIDE DEF IInv, o, u
    <3>. QED  BY <1>2, <1>3, <2>5, <3>1, <3>2, OffsetsKeep
  <2>8. g + 1 + (u + n) = written'
    <3>1. g + 1 + u = written /\ g \in Nat /\ u \in Nat
      BY <2>1, <2>2, <2>4 DEF Synced
    <3>. HIDE DEF IInv, g, u
    <3>. QED  BY <1>2, <3>1, SMTT(30)
  <2>9. /\ reader'[r].readOffset_ = o /\ reader'[r].unreadSize_ = u + n
        /\ got'[r][Len(got'[r])] = g
    BY <2>3
  <2>10. reader'[r].state_ = "ENABLED" /\ reader'[r].unreadSize_ <= bufferEnd_
    BY <2>1, <2>2, <2>3 DEF Synced
  <2>. HIDE DEF IInv, o, u, g
  <2>. QED  BY <2>7, <2>8, <2>9, <2>10 DEF Synced
<1>7. StartInv'
  <2>. SUFFICES ASSUME NEW r \in Readers
                PROVE  /\ reader'[r].state_ # "DISABLED"
                            => start'[r] # Unwritten /\ start'[r] < written'
                       /\ start'[r] # Unwritten /\ start'[r] < bufferEnd_
                          /\ got'[r] = <<>> => reader'[r].readOffset_ = start'[r]
    BY DEF StartInv
  <2>1. /\ reader'[r].readOffset_ = reader[r].readOffset_
        /\ reader'[r].state_ = reader[r].state_
        /\ got' = got /\ start' = start
    BY <1>1 DEF Store, TypeOK
  <2>2. start[r] \in Nat \cup {Unwritten}
    BY DEF TypeOK
  <2>. QED  BY <1>2, <2>1, <2>2 DEF StartInv
<1>8. ResetInv'
  BY <1>2 DEF ResetInv
<1>. QED  BY <1>4, <1>5, <1>6, <1>7, <1>8

(* What a read returns: the oldest n bytes available, in order.            *)
LEMMA ReadReturns ==
  ASSUME IInv, NEW r \in Readers, NEW size \in 1 .. MaxSize, Read(r, size),
         reader[r].unreadSize_ # 0
  PROVE  LET n == Smaller(size, Available(r))
             first == written - Available(r)
         IN  /\ n \in 1 .. Available(r) /\ Available(r) \in 1 .. bufferEnd_
             /\ first \in Nat
             /\ writeOffset_ > reader[r].readOffset_ \/ Base >= bufferEnd_
             /\ got' = [got EXCEPT ![r] = [i \in 1 .. n |-> first + i - 1]]
<1>. DEFINE n == Smaller(size, Available(r))
            first == written - Available(r)
<1>1. writeOffset_ > reader[r].readOffset_ \/ Base >= bufferEnd_
  BY ReadableWritten DEF Read
<1>2. /\ Available(r) \in 1 .. bufferEnd_
      /\ Available(r) <= written
      /\ \A i \in 0 .. Available(r) - 1 :
           buffer_[Wrapped(reader[r].readOffset_ + i)] = first + i
  BY <1>1, CellsAvailable DEF IInv
<1>3. written \in Nat /\ reader[r].readOffset_ \in Nat
  BY DEF IInv, TypeOK, Cells
<1>4. n \in 1 .. Available(r) /\ first \in Nat
  BY <1>2, <1>3, SizeAssumption DEF Smaller
<1>5. ASSUME NEW i \in 1 .. n
      PROVE  buffer_[Wrapped(reader[r].readOffset_ + i - 1)] = first + i - 1
  <2>1. /\ i - 1 \in 0 .. Available(r) - 1
        /\ reader[r].readOffset_ + (i - 1) = reader[r].readOffset_ + i - 1
        /\ first + (i - 1) = first + i - 1
    BY <1>2, <1>3, <1>4, SizeAssumption
  <2>. QED  BY <1>2, <2>1
<1>6. got' = [got EXCEPT ![r] =
               [i \in 1 .. n |-> buffer_[Wrapped(reader[r].readOffset_ + i - 1)]]]
  BY DEF Read
<1>7. [i \in 1 .. n |-> buffer_[Wrapped(reader[r].readOffset_ + i - 1)]]
        = [i \in 1 .. n |-> first + i - 1]
  <2>. HIDE DEF n, first
  <2>. QED  BY <1>5
<1>. QED  BY <1>1, <1>2, <1>4, <1>6, <1>7

LEMMA ReadStep ==
  ASSUME IInv, NEW r \in Readers, NEW size \in 1 .. MaxSize, Read(r, size)
  PROVE  IInv'
<1>. USE SizeAssumption
<1>1. /\ resetting = {} /\ resetting' = {} /\ reader[r].state_ # "DISABLED"
      /\ UNCHANGED <<buffer_, writeOffset_, written, start>>
  BY DEF Read
<1>2. /\ writeOffset_ \in Nat /\ writeOffset_ < bufferEnd_ /\ written \in Nat
      /\ reader[r].readOffset_ \in Nat /\ reader[r].readOffset_ < bufferEnd_
      /\ reader[r].unreadSize_ \in Nat /\ bufferEnd_ \in Nat
      /\ reader \in [Readers -> [unreadSize_ : Nat, readOffset_ : Cells,
                             state_ : {"DISABLED", "PREPARED", "ENABLED"}]]
      /\ got \in [Readers -> Seq(Nat)]
  BY DEF IInv, TypeOK, Cells
<1>3. RingInv' /\ ResetInv'
  BY <1>1 DEF IInv, RingInv, Base, Cells, ResetInv
<1>4. CASE reader[r].unreadSize_ = 0
  <2>1. reader' = [reader EXCEPT ![r].state_ = "ENABLED"] /\ got' = got
    BY <1>4 DEF Read
  <2>2. /\ reader'[r].unreadSize_ = reader[r].unreadSize_
        /\ reader'[r].readOffset_ = reader[r].readOffset_
        /\ reader'[r].state_ = "ENABLED"
        /\ \A q \in Readers \ {r} : reader'[q] = reader[q]
    BY <1>2, <2>1
  <2>3. TypeOK'
    BY <1>1, <1>2, <2>1 DEF IInv, TypeOK, Cells
  <2>4. SyncInv'
    BY <1>1, <2>1, <2>2 DEF IInv, SyncInv, Synced, Base
  <2>5. StartInv'
    BY <1>1, <2>1, <2>2 DEF IInv, StartInv
  <2>. QED  BY <1>3, <2>3, <2>4, <2>5 DEF IInv
<1>5. CASE reader[r].unreadSize_ # 0
  <2>. DEFINE a == Available(r)
              n == Smaller(size, Available(r))
              first == written - Available(r)
              p == reader[r].readOffset_
              o == Wrapped(p + n)
  <2>1. /\ n \in 1 .. a /\ a \in 1 .. bufferEnd_ /\ first \in Nat
        /\ writeOffset_ > reader[r].readOffset_ \/ Base >= bufferEnd_
        /\ got' = [got EXCEPT ![r] = [i \in 1 .. n |-> first + i - 1]]
    BY <1>5, ReadReturns
  <2>2. reader' = [reader EXCEPT ![r] =
          [unreadSize_ |-> a - n, readOffset_ |-> o, state_ |-> "ENABLED"]]
    BY <1>5 DEF Read
  <2>3. /\ reader'[r] = [unreadSize_ |-> a - n, readOffset_ |-> o, state_ |-> "ENABLED"]
        /\ got'[r] = [i \in 1 .. n |-> first + i - 1]
        /\ \A q \in Readers \ {r} : reader'[q] = reader[q] /\ got'[q] = got[q]
    BY <1>2, <2>1, <2>2
  <2>4. /\ o \in Nat /\ o < bufferEnd_ /\ a - n \in Nat /\ a - n <= bufferEnd_
        /\ \/ o + (a - n) = writeOffset_
           \/ o + (a - n) = writeOffset_ + bufferEnd_ /\ Base >= bufferEnd_
    <3>1. a = IF writeOffset_ > reader[r].readOffset_
                THEN writeOffset_ - reader[r].readOffset_
                ELSE bufferEnd_ - reader[r].readOffset_ + writeOffset_
      BY DEF Available
    <3>2. a \in Nat /\ n \in Nat /\ 1 <= n /\ n <= a /\ a <= bufferEnd_
      BY <1>2, <2>1
    <3>3. Base >= bufferEnd_ \/ writeOffset_ > reader[r].readOffset_
      BY <2>1
    <3>5. /\ p \in Nat /\ p < bufferEnd_
          /\ a = IF writeOffset_ > p THEN writeOffset_ - p
                                     ELSE bufferEnd_ - p + writeOffset_
          /\ Base >= bufferEnd_ \/ writeOffset_ > p
      BY <1>2, <3>1, <3>3
    <3>6. Base \in Nat
      BY <1>2 DEF Base, IInv, RingInv
    <3>. HIDE DEF a, n, p
    <3>4. o = IF p + n >= bufferEnd_ THEN p + n - bufferEnd_ ELSE p + n
      BY <1>2, <3>2, <3>5 DEF Wrapped
    <3>. HIDE DEF o
    <3>7. o \in Nat
      BY <1>2, <3>2, <3>4, <3>5
    <3>. QED  BY <1>2, <3>2, <3>4, <3>5, <3>6, <3>7, OffsetsRead
  <2>5. /\ got'[r] \in Seq(Nat) /\ Len(got'[r]) = n /\ got'[r] # <<>>
        /\ got'[r][Len(got'[r])] = first + n - 1
    <3>1. n \in Nat /\ n >= 1 /\ \A i \in 1 .. n : first + i - 1 \in Nat
      BY <2>1
    <3>. HIDE DEF n, first
    <3>. QED  BY <2>3, <3>1
  <2>6. first + n - 1 + 1 + (a - n) = written
    BY <1>2, <2>1
  <2>. HIDE DEF a, n, first, p, o
  <2>7. TypeOK'
    <3>1. reader' \in [Readers -> [unreadSize_ : Nat, readOffset_ : Cells,
                             state_ : {"DISABLED", "PREPARED", "ENABLED"}]]
      BY <1>2, <2>2, <2>4 DEF Cells
    <3>2. got' \in [Readers -> Seq(Nat)]
      BY <1>2, <2>1, <2>3, <2>5
    <3>. QED  BY <1>1, <3>1, <3>2 DEF IInv, TypeOK, Cells
  <2>8. SyncInv'
    <3>1. Synced(r)'
      <4>1. /\ reader'[r].unreadSize_ = a - n /\ reader'[r].readOffset_ = o
            /\ reader'[r].state_ = "ENABLED" /\ Base' = Base
        BY <1>1, <2>3 DEF Base
      <4>2. got'[r][Len(got'[r])] + 1 + (a - n) = written
        BY <2>5, <2>6
      <4>. QED  BY <1>1, <2>4, <4>1, <4>2 DEF Synced
    <3>2. ASSUME NEW q \in Readers, q # r, got'[q] # <<>> PROVE Synced(q)'
      BY <1>1, <2>3, <3>2 DEF IInv, SyncInv, Synced, Base
    <3>. QED  BY <3>1, <3>2 DEF SyncInv
  <2>9. StartInv'
    <3>. SUFFICES ASSUME NEW q \in Readers
                  PROVE  /\ reader'[q].state_ # "DISABLED"
                              => start[q] # Unwritten /\ start[q] < written
                         /\ start[q] # Unwritten /\ start[q] < bufferEnd_
                            /\ got'[q] = <<>> => reader'[q].readOffset_ = start[q]
      BY <1>1 DEF StartInv
    <3>1. /\ reader[q].state_ # "DISABLED"
               => start[q] # Unwritten /\ start[q] < written
          /\ start[q] # Unwritten /\ start[q] < bufferEnd_ /\ got[q] = <<>>
               => reader[q].readOffset_ = start[q]
      BY <1>1 DEF IInv, StartInv
    <3>2. CASE q = r
      BY <1>1, <2>5, <3>1, <3>2
    <3>3. CASE q # r
      BY <2>3, <3>1, <3>3
    <3>. QED  BY <3>2, <3>3
  <2>. QED  BY <1>3, <2>7, <2>8, <2>9 DEF IInv
<1>. QED  BY <1>4, <1>5

\* What the actions below share: they leave the ring as it is.
LEMMA RingUnchanged ==
  ASSUME RingInv, UNCHANGED <<buffer_, writeOffset_, written>>
  PROVE  RingInv' /\ Base' = Base
BY DEF RingInv, Base, Cells

\* A reader that has nothing to go on with need not be in step with the ring.
LEMMA OthersStay ==
  ASSUME IInv, NEW q \in Readers \ resetting, got[q] # <<>>,
         UNCHANGED <<writeOffset_, written>>,
         reader'[q] = reader[q], got'[q] = got[q]
  PROVE  Synced(q)'
BY DEF IInv, SyncInv, Synced, Base

LEMMA AdvanceStep ==
  ASSUME IInv, NEW r \in Readers, NEW size \in 1 .. MaxSize,
         AdvanceReadOffset(r, size)
  PROVE  IInv'
<1>. USE SizeAssumption
<1>1. /\ resetting = {} /\ resetting' = {} /\ got[r] = <<>> /\ got' = got
      /\ start[r] \in Nat /\ start[r] + size < written /\ size \in Nat
      /\ reader[r].readOffset_ \in Nat /\ reader[r].unreadSize_ \in Nat
      /\ UNCHANGED <<buffer_, writeOffset_, written>>
  BY DEF IInv, AdvanceReadOffset, TypeOK, Cells
<1>. DEFINE x == reader[r].readOffset_ + size
            o == x % bufferEnd_
            u == IF reader[r].unreadSize_ > size THEN reader[r].unreadSize_ - size
                                                 ELSE reader[r].unreadSize_
<1>2. o \in Cells /\ u \in Nat /\ (x < bufferEnd_ => o = x)
  <2>1. x \in Nat /\ u \in Nat
    BY <1>1
  <2>. HIDE DEF x, u
  <2>. QED  BY <2>1, Remainder
<1>3. /\ start' = [start EXCEPT ![r] = start[r] + size]
      /\ reader' = [reader EXCEPT ![r].readOffset_ = o, ![r].unreadSize_ = u]
  BY DEF AdvanceReadOffset
<1>4. start[r] + size < bufferEnd_ => o = start[r] + size
  <2>1. start[r] + size < bufferEnd_ => reader[r].readOffset_ = start[r]
    BY <1>1, UnwrittenAssumption DEF IInv, StartInv
  <2>2. start[r] + size < bufferEnd_ => start[r] < bufferEnd_
    BY <1>1
  <2>3. start[r] + size < bufferEnd_ => x = start[r] + size
    BY <2>1, <2>2
  <2>. HIDE DEF x, o
  <2>. QED  BY <1>2, <2>3
<1>. HIDE DEF x, o, u
<1>5. /\ start'[r] = start[r] + size /\ reader'[r].readOffset_ = o
      /\ reader'[r].state_ = reader[r].state_
      /\ \A q \in Readers \ {r} : reader'[q] = reader[q] /\ start'[q] = start[q]
  BY <1>3 DEF IInv, TypeOK
<1>6. TypeOK'
  <2>1. reader' \in [Readers -> [unreadSize_ : Nat, readOffset_ : Cells,
                       state_ : {"DISABLED", "PREPARED", "ENABLED"}]]
    BY <1>2, <1>3 DEF IInv, TypeOK
  <2>2. start[r] + size \in Nat
    BY <1>1
  <2>3. start' \in [Readers -> Nat \cup {Unwritten}]
    BY <1>3, <2>2 DEF IInv, TypeOK
  <2>. QED  BY <1>1, <2>1, <2>3 DEF IInv, TypeOK, Cells
<1>7. SyncInv'
  BY <1>1, <1>5, OthersStay DEF SyncInv
<1>8. StartInv'
  <2>1. start[r] + size \in Nat
    BY <1>1
  <2>. QED  BY <1>1, <1>4, <1>5, <2>1, UnwrittenAssumption DEF IInv, StartInv
<1>9. RingInv' /\ ResetInv'
  BY <1>1, RingUnchanged DEF IInv, ResetInv
<1>. QED  BY <1>6, <1>7, <1>8, <1>9 DEF IInv

LEMMA AnnounceStep ==
  ASSUME IInv, NEW r \in Readers, NEW state \in {"PREPARED", "ENABLED"},
         Announce(r, state)
  PROVE  IInv'
<1>1. /\ resetting = {} /\ resetting' = {} /\ reader[r].state_ = "DISABLED"
      /\ start[r] # Unwritten /\ start[r] < written
      /\ reader' = [reader EXCEPT ![r].state_ = state]
      /\ UNCHANGED <<buffer_, writeOffset_, written, start, got>>
  BY DEF Announce
<1>2. got[r] = <<>>
  BY <1>1 DEF IInv, SyncInv, Synced
<1>3. /\ reader'[r].readOffset_ = reader[r].readOffset_
      /\ \A q \in Readers \ {r} : reader'[q] = reader[q]
  BY <1>1 DEF IInv, TypeOK
<1>4. TypeOK'
  BY <1>1 DEF IInv, TypeOK, Cells
<1>5. SyncInv'
  BY <1>1, <1>2, <1>3, OthersStay DEF SyncInv
<1>6. StartInv'
  BY <1>1, <1>3 DEF IInv, StartInv
<1>7. RingInv' /\ ResetInv'
  BY <1>1, RingUnchanged DEF IInv, ResetInv
<1>. QED  BY <1>4, <1>5, <1>6, <1>7 DEF IInv

LEMMA DisableStep ==
  ASSUME IInv, NEW r \in Readers, Disable(r)
  PROVE  IInv'
<1>1. /\ resetting = {} /\ resetting' = {}
      /\ reader' = [reader EXCEPT ![r].state_ = "DISABLED"]
      /\ start' = [start EXCEPT ![r] = Unwritten]
      /\ got' = [got EXCEPT ![r] = <<>>]
      /\ UNCHANGED <<buffer_, writeOffset_, written>>
  BY DEF Disable
<1>2. /\ reader'[r].state_ = "DISABLED" /\ start'[r] = Unwritten /\ got'[r] = <<>>
      /\ \A q \in Readers \ {r} :
           reader'[q] = reader[q] /\ start'[q] = start[q] /\ got'[q] = got[q]
  BY <1>1 DEF IInv, TypeOK
<1>3. TypeOK'
  <2>1. got' \in [Readers -> Seq(Nat)] /\ start' \in [Readers -> Nat \cup {Unwritten}]
    BY <1>1 DEF IInv, TypeOK
  <2>2. reader' \in [Readers -> [unreadSize_ : Nat, readOffset_ : Cells,
                       state_ : {"DISABLED", "PREPARED", "ENABLED"}]]
    BY <1>1 DEF IInv, TypeOK
  <2>. QED  BY <1>1, <2>1, <2>2 DEF IInv, TypeOK, Cells
<1>4. SyncInv'
  BY <1>1, <1>2, OthersStay DEF SyncInv
<1>5. StartInv'
  BY <1>1, <1>2 DEF IInv, StartInv
<1>6. RingInv' /\ ResetInv'
  BY <1>1, RingUnchanged DEF IInv, ResetInv
<1>. QED  BY <1>3, <1>4, <1>5, <1>6 DEF IInv

LEMMA UpdateKwdConfigStep ==
  ASSUME IInv, NEW s \in Streams, NEW sz \in 0 .. MaxSize, UpdateKwdConfig(s, sz)
  PROVE  IInv'
<1>. USE SizeAssumption
<1>. DEFINE mine == {r \in Readers : Owner[r] = s}
            u(r) == IF reader[r].unreadSize_ > sz THEN reader[r].unreadSize_ - sz
                                                  ELSE reader[r].unreadSize_
<1>1. /\ resetting = {} /\ resetting' = {} /\ got' = got
      /\ \A r \in mine : reader[r].state_ = "DISABLED"
      /\ reader' = [r \in Readers |-> IF r \in mine
           THEN [unreadSize_ |-> u(r) % bufferEnd_, readOffset_ |-> sz % bufferEnd_,
                 state_ |-> "DISABLED"]
           ELSE reader[r]]
      /\ start' = [r \in Readers |-> IF r \in mine THEN sz ELSE start[r]]
      /\ UNCHANGED <<buffer_, writeOffset_, written>>
  BY DEF UpdateKwdConfig
<1>2. sz \in Nat /\ sz % bufferEnd_ \in Cells
      /\ (sz < bufferEnd_ => sz % bufferEnd_ = sz)
  <2>1. sz \in Nat
    OBVIOUS
  <2>. QED  BY <2>1, Remainder
<1>3. ASSUME NEW r \in Readers PROVE u(r) % bufferEnd_ \in Nat
  <2>1. reader[r].unreadSize_ \in Nat
    BY DEF IInv, TypeOK
  <2>2. u(r) \in Nat
    BY <1>2, <2>1
  <2>. HIDE DEF u
  <2>. QED  BY <2>2, Remainder DEF Cells
<1>. HIDE DEF u
<1>4. \A r \in mine : /\ got[r] = <<>>
                      /\ reader'[r].state_ = "DISABLED" /\ start'[r] = sz
                      /\ reader'[r].readOffset_ = sz % bufferEnd_
  BY <1>1 DEF IInv, SyncInv, Synced
<1>5. \A r \in Readers \ mine : reader'[r] = reader[r] /\ start'[r] = start[r]
  BY <1>1
<1>. HIDE DEF mine
<1>6. TypeOK'
  <2>1. reader' \in [Readers -> [unreadSize_ : Nat, readOffset_ : Cells,
                       state_ : {"DISABLED", "PREPARED", "ENABLED"}]]
    BY <1>1, <1>2, <1>3 DEF IInv, TypeOK
  <2>2. start' \in [Readers -> Nat \cup {Unwritten}]
    BY <1>1, <1>2 DEF IInv, TypeOK
  <2>. QED  BY <1>1, <2>1, <2>2 DEF IInv, TypeOK, Cells
<1>7. SyncInv'
  BY <1>1, <1>4, <1>5, OthersStay DEF SyncInv
<1>8. StartInv'
  BY <1>1, <1>2, <1>4, <1>5 DEF IInv, StartInv
<1>9. RingInv' /\ ResetInv'
  BY <1>1, RingUnchanged DEF IInv, ResetInv
<1>. QED  BY <1>6, <1>7, <1>8, <1>9 DEF IInv

\* A reader that is reset holds nothing and its new state is well typed.
LEMMA ReaderResetStep ==
  ASSUME TypeOK, NEW r \in Readers, ReaderReset(r)
  PROVE  /\ reader' \in [Readers -> [unreadSize_ : Nat, readOffset_ : Cells,
                             state_ : {"DISABLED", "PREPARED", "ENABLED"}]]
         /\ start' \in [Readers -> Nat \cup {Unwritten}]
         /\ got' \in [Readers -> Seq(Nat)]
         /\ reader'[r].state_ = "DISABLED" /\ start'[r] = Unwritten /\ got'[r] = <<>>
         /\ \A q \in Readers \ {r} :
              reader'[q] = reader[q] /\ start'[q] = start[q] /\ got'[q] = got[q]
<1>1. 0 \in Cells
  BY SizeAssumption DEF Cells
<1>. QED  BY <1>1 DEF TypeOK, ReaderReset

LEMMA ResetReaderStep ==
  ASSUME IInv, NEW r \in Readers, ResetReader(r)
  PROVE  IInv'
<1>1. /\ resetting = {} /\ resetting' = {} /\ ReaderReset(r)
      /\ UNCHANGED <<buffer_, writeOffset_, written>>
  BY DEF ResetReader
<1>2. TypeOK'
  BY <1>1, ReaderResetStep DEF IInv, TypeOK, Cells
<1>3. SyncInv'
  BY <1>1, ReaderResetStep, OthersStay DEF IInv, SyncInv
<1>4. StartInv'
  BY ZenonT(40), <1>1, ReaderResetStep DEF IInv, StartInv
<1>5. RingInv' /\ ResetInv'
  BY <1>1, RingUnchanged DEF IInv, ResetInv
<1>. QED  BY <1>2, <1>3, <1>4, <1>5 DEF IInv

LEMMA ResetStep ==
  ASSUME IInv, Reset
  PROVE  IInv'
<1>1. /\ resetting' = Readers /\ writeOffset_' = 0 /\ written' = 0
      /\ buffer_' = [c \in Cells |-> Unwritten]
      /\ UNCHANGED <<reader, start, got>>
  BY DEF Reset
<1>2. TypeOK'
  BY <1>1, SizeAssumption DEF IInv, TypeOK, Cells
<1>3. RingInv'
  BY <1>1, SizeAssumption DEF RingInv, Base, Cells
<1>4. SyncInv' /\ StartInv' /\ ResetInv'
  BY <1>1 DEF SyncInv, StartInv, ResetInv
<1>. QED  BY <1>2, <1>3, <1>4 DEF IInv

LEMMA ResetNextStep ==
  ASSUME IInv, NEW r \in Readers, ResetNext(r)
  PROVE  IInv'
<1>1. /\ r \in resetting /\ resetting' = resetting \ {r} /\ ReaderReset(r)
      /\ UNCHANGED <<buffer_, writeOffset_, written>>
  BY DEF ResetNext
<1>2. TypeOK'
  BY <1>1, ReaderResetStep DEF IInv, TypeOK, Cells
<1>3. SyncInv'
  BY <1>1, ReaderResetStep, OthersStay DEF IInv, SyncInv
<1>4. StartInv'
  BY <1>1, ReaderResetStep DEF IInv, StartInv
<1>5. ResetInv'
  BY <1>1, ReaderResetStep DEF IInv, ResetInv
<1>6. RingInv'
  BY <1>1, RingUnchanged DEF IInv
<1>. QED  BY <1>2, <1>3, <1>4, <1>5, <1>6 DEF IInv

LEMMA NextIInv == IInv /\ [Next]_vars => IInv'
<1>. SUFFICES ASSUME IInv, [Next]_vars PROVE IInv'
  OBVIOUS
<1>1. CASE UNCHANGED vars
  BY <1>1 DEF vars, IInv, TypeOK, RingInv, Base, Cells, SyncInv, Synced, StartInv,
              ResetInv
<1>2. ASSUME NEW n \in 1 .. MaxSize, Write(n) PROVE IInv'
  BY <1>2, WriteStep
<1>3. ASSUME NEW n \in 1 .. MaxSize, NEW r \in Readers, Read(r, n) PROVE IInv'
  BY <1>3, ReadStep
<1>4. ASSUME NEW n \in 1 .. MaxSize, NEW r \in Readers, AdvanceReadOffset(r, n)
      PROVE  IInv'
  BY <1>4, AdvanceStep
<1>5. ASSUME NEW s \in Streams, NEW n \in 0 .. MaxSize, UpdateKwdConfig(s, n)
      PROVE  IInv'
  BY <1>5, UpdateKwdConfigStep
<1>6. ASSUME NEW r \in Readers, Announce(r, "PREPARED") \/ Announce(r, "ENABLED")
      PROVE  IInv'
  BY <1>6, AnnounceStep
<1>7. ASSUME NEW r \in Readers, Disable(r) PROVE IInv'
  BY <1>7, DisableStep
<1>8. ASSUME NEW r \in Readers, ResetReader(r) PROVE IInv'
  BY <1>8, ResetReaderStep
<1>9. ASSUME NEW r \in Readers, ResetNext(r) PROVE IInv'
  BY <1>9, ResetNextStep
<1>10. CASE Reset
  BY <1>10, ResetStep
<1>. QED
  BY <1>1, <1>2, <1>3, <1>4, <1>5, <1>6, <1>7, <1>8, <1>9, <1>10 DEF Next

(* Whatever a step makes a reader get follows what the reader got before.  *)
LEMMA GotStep ==
  ASSUME IInv, GotInv, [Next]_vars, NEW r \in Readers
  PROVE  \/ got'[r] = got[r] \/ got'[r] = <<>>
         \/ got'[r] # <<>> /\ Consecutive(got'[r]) /\ Consecutive(got[r] \o got'[r])
<1>. DEFINE Goal == \/ got'[r] = got[r] \/ got'[r] = <<>>
                    \/ /\ got'[r] # <<>> /\ Consecutive(got'[r])
                       /\ Consecutive(got[r] \o got'[r])
<1>1. got \in [Readers -> Seq(Nat)]
  BY DEF IInv, TypeOK
<1>2. CASE UNCHANGED got
  BY <1>2
<1>3. ASSUME NEW q \in Readers, ReaderReset(q) \/ Disable(q) PROVE Goal
  BY <1>1, <1>3 DEF ReaderReset, Disable
<1>4. ASSUME NEW size \in 1 .. MaxSize, NEW q \in Readers, Read(q, size) PROVE Goal
  <2>1. CASE reader[q].unreadSize_ = 0
    BY <1>4, <2>1 DEF Read
  <2>2. CASE reader[q].unreadSize_ # 0 /\ q # r
    BY <1>1, <1>4, <2>2 DEF Read
  <2>3. CASE reader[q].unreadSize_ # 0 /\ q = r
    <3>. DEFINE n == Smaller(size, Available(r))
                first == written - Available(r)
                before == got[r]
                after == got'[r]
    <3>1. /\ n \in 1 .. Available(r) /\ Available(r) \in 1 .. bufferEnd_
          /\ first \in Nat
          /\ got' = [got EXCEPT ![r] = [i \in 1 .. n |-> first + i - 1]]
      BY <1>4, <2>3, ReadReturns
    <3>2. n \in Nat /\ n >= 1
      BY <3>1, SizeAssumption
    <3>. HIDE DEF n
    <3>3. after = [i \in 1 .. n |-> first + i - 1]
      BY <1>1, <3>1
    <3>4. before # <<>> => before[Len(before)] + 1 = first
      <4>. SUFFICES ASSUME before # <<>> PROVE before[Len(before)] + 1 = first
        OBVIOUS
      <4>1. Synced(r) /\ reader[r].unreadSize_ # 0
        BY <1>4, <2>3 DEF IInv, SyncInv, Read
      <4>2. Available(r) = reader[r].unreadSize_
        BY <4>1, SyncedAvailable DEF IInv
      <4>3. before[Len(before)] + 1 + Available(r) = written
        BY <4>1, <4>2 DEF Synced
      <4>4. before[Len(before)] \in Nat
        BY <1>1
      <4>5. Available(r) \in Nat /\ written \in Nat
        BY <3>1, SizeAssumption DEF IInv, TypeOK
      <4>. HIDE DEF before
      <4>. QED  BY <4>3, <4>4, <4>5
    <3>5. before \in Seq(Nat) /\ Consecutive(before)
      BY <1>1 DEF GotInv
    <3>6. first \in Nat
      BY <3>1
    <3>. HIDE DEF before, after, first
    <3>7. after \in Seq(Nat) /\ Len(after) = n /\ after # <<>>
          /\ \A i \in 1 .. n : after[i] = first + i - 1
      BY <3>2, <3>3, <3>6
    <3>8. Consecutive(after)
      BY <3>2, <3>6, <3>7 DEF Consecutive
    <3>9. Consecutive(before \o after)
      <4>. SUFFICES ASSUME NEW i \in 1 .. Len(before \o after) - 1
                    PROVE  (before \o after)[i + 1] = (before \o after)[i] + 1
        BY DEF Consecutive
      <4>1. Len(before \o after) = Len(before) + n /\ Len(before) \in Nat
        <5>1. before \in Seq(Nat) /\ after \in Seq(Nat) /\ Len(after) = n
          BY <3>5, <3>7
        <5>. QED  BY <5>1, ConcatProperties, LenProperties
      <4>2. CASE i < Len(before)
        BY <3>5, <3>7, <4>1, <4>2 DEF Consecutive
      <4>3. CASE i = Len(before)
        <5>1. (before \o after)[i] = before[i] /\ (before \o after)[i + 1] = after[1]
          BY <3>2, <3>5, <3>7, <4>1, <4>3
        <5>2. before # <<>> /\ after[1] = first
          BY <3>2, <3>5, <3>6, <3>7, <4>1, <4>3
        <5>. QED  BY <3>4, <4>3, <5>1, <5>2
      <4>4. CASE i > Len(before)
        <5>. DEFINE j == i - Len(before)
        <5>1. j \in 1 .. n - 1 /\ j + 1 \in 1 .. n
          BY <3>2, <4>1, <4>4
        <5>2. (before \o after)[i] = after[j] /\ (before \o after)[i + 1] = after[j + 1]
          BY <3>2, <3>5, <3>7, <4>1, <4>4
        <5>. HIDE DEF j
        <5>. QED  BY <3>2, <3>6, <3>7, <5>1, <5>2
      <4>. QED  BY <4>1, <4>2, <4>3, <4>4
    <3>. QED  BY <2>3, <3>7, <3>8, <3>9 DEF after, before
  <2>. QED  BY <2>1, <2>2, <2>3
<1>5. \/ UNCHANGED got
      \/ \E q \in Readers : ReaderReset(q) \/ Disable(q)
      \/ \E size \in 1 .. MaxSize, q \in Readers : Read(q, size)
  BY DEF Next, vars, Write, Store, AdvanceReadOffset, UpdateKwdConfig, Announce,
         ResetReader, ResetNext, Reset
<1>. QED  BY <1>2, <1>3, <1>4, <1>5

LEMMA InitGotInv == Init => GotInv
BY DEF Init, GotInv, Consecutive

LEMMA NextGotInv == IInv /\ GotInv /\ [Next]_vars => GotInv'
<1>. SUFFICES ASSUME IInv, GotInv, [Next]_vars, NEW r \in Readers
              PROVE  Consecutive(got'[r])
  BY DEF GotInv, Consecutive
<1>1. Consecutive(<<>>)
  BY DEF Consecutive
<1>. QED  BY <1>1, GotStep DEF GotInv

-----------------------------------------------------------------------------
(* The inductive invariant holds of every behaviour of the ring.           *)
THEOREM Inductive == Spec => [](IInv /\ GotInv)
BY InitIInv, InitGotInv, NextIInv, NextGotInv, PTL DEF Spec

(* The offsets of the writer and of every reader stay inside the ring      *)
(* (PalRingBuffer::write, updateKwdConfig, PalRingBufferReader::read and   *)
(* advanceReadOffset), and every variable keeps its type.                  *)
THEOREM TypeCorrect == Spec => []TypeOK
<1>1. IInv => TypeOK
  BY DEF IInv
<1>. QED  BY <1>1, Inductive, PTL

(* What a reader that is reading has not read yet stays in the ring until  *)
(* it reads it (PalRingBuffer::getFreeSize), for every size of the ring,   *)
(* any number of readers and any sizes of writes and reads.                *)
THEOREM UnreadStays == Spec => []UnreadIntact
<1>1. IInv => UnreadIntact
  <2>. SUFFICES ASSUME IInv, NEW r \in Readers, got[r] # <<>>, resetting = {}
                PROVE  /\ reader[r].unreadSize_ <= written
                       /\ \A i \in 0 .. reader[r].unreadSize_ - 1 :
                            buffer_[Wrapped(reader[r].readOffset_ + i)]
                              = written - reader[r].unreadSize_ + i
    BY DEF UnreadIntact
  <2>1. Synced(r) /\ TypeOK /\ RingInv
    BY DEF IInv, SyncInv
  <2>2. CASE reader[r].unreadSize_ = 0
    BY <2>1, <2>2 DEF TypeOK
  <2>3. CASE reader[r].unreadSize_ # 0
    <3>1. /\ Available(r) = reader[r].unreadSize_
          /\ writeOffset_ > reader[r].readOffset_ \/ Base >= bufferEnd_
      BY <2>1, <2>3, SyncedAvailable
    <3>2. /\ Available(r) <= written
          /\ \A i \in 0 .. Available(r) - 1 :
               buffer_[Wrapped(reader[r].readOffset_ + i)]
                 = written - Available(r) + i
      BY <2>1, <3>1, CellsAvailable
    <3>. QED  BY <3>1, <3>2
  <2>. QED  BY <2>2, <2>3
<1>. QED  BY <1>1, Inductive, PTL

(* A reader reads the bytes in the order they were written, none lost,     *)
(* repeated or torn between two reads (PalRingBufferReader::read).         *)
THEOREM OrderedReads == Spec => ReadsInOrder
<1>1. IInv /\ GotInv /\ [Next]_vars
        => [\A r \in Readers : got'[r] # got[r] /\ got'[r] # <<>>
              => Consecutive(got[r] \o got'[r])]_vars
  BY GotStep
<1>. QED  BY <1>1, Inductive, PTL DEF Spec, ReadsInOrder
=============================================================================

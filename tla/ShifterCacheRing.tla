-------------------------- MODULE ShifterCacheRing --------------------------
(***************************************************************************)
(* Proofs about the ring of ShifterCache while no file is behind it: where *)
(* every byte is, that the searches of a seek end where they should, and   *)
(* that the ring keeps the promise of TimeShift.                           *)
(*                                                                         *)
(* RingInv, with Bookkeeping, is inductive.  It describes the ring from    *)
(* the tail backwards: the slot d slots behind the tail has the SlotSize   *)
(* bytes that end d - 1 slots before h_rb_offset.                          *)
(***************************************************************************)
EXTENDS ShifterCacheSafety

-----------------------------------------------------------------------------
(* The invariant                                                           *)

\* Seeks are performed only when a slot is full.
FullSeeks == "tailseek" \notin Env /\ "drainedseek" \notin Env

\* The cache is a ring only, and no seek is performed when no slot is full.
RingOnly == "file" \notin Env /\ FullSeeks

\* How many slots i is behind the tail; the tail is a whole turn behind.
Behind(i) == IF i < tail THEN tail - i ELSE tail - i + NSlots

\* At the end of the stream pop takes the partly filled tail as well.
Drained ==
  slot[tail].state \in {"POP", "RECYCLE"} /\ Len(slot[tail].data) < SlotSize

\* The offset at which the tail starts, and the one d slots before it.
Base == IF Drained THEN slot[tail].offset ELSE h_rb_offset
At(d) == Base - d * SlotSize

\* The tail has bytes of its own, not those of a turn ago.
TailFilled == slot[tail].state = "PART" \/ Drained

\* A slot with all the bytes from o on.
Whole(s, o) ==
  s.state \in {"FULL", "POP", "RECYCLE"} /\ s.offset = o
    /\ s.data = Bytes(o, SlotSize)

\* A slot that was never filled is as it was made.
Laid ==
  /\ \E k \in 0 .. Base : Base = k * SlotSize
  /\ \A i \in Slots :
       i # tail \/ ~TailFilled =>
         IF At(Behind(i)) >= 0 THEN Whole(slot[i], At(Behind(i)))
                               ELSE slot[i] = EmptySlot
  /\ TailFilled =>
       /\ slot[tail].offset = Base
       /\ slot[tail].data = Bytes(Base, h_offset - Base)
       /\ Base < h_offset /\ h_offset < Base + SlotSize
  /\ ~TailFilled => h_offset = Base

\* The reader is as many slots behind the tail as are full.
Reading ==
  /\ fslots \in 0 .. NSlots
  /\ \A i \in Slots : slot[i].state = "FULL" <=> Behind(i) <= fslots
  /\ head = IF Drained THEN NextSlot(tail) ELSE Backward(tail, fslots)

\* What the ring has of the stream.
Lowest ==
  l_rb_offset = Higher(0, At(IF TailFilled THEN NSlots - 1 ELSE NSlots))

\* Nothing is pushed once the stream has ended, and nothing sought once the
\* tail was taken.  Before a slot was filled a seek finds nothing.
Ended ==
  /\ is_eos => upstreamEos
  /\ op = "push" => ~upstreamEos /\ h_offset + left <= MaxOffset
  /\ h_offset <= MaxOffset
  /\ Drained => upstreamEos /\ fslots = 0 /\ h_rb_offset = h_offset
  /\ seek = "flushing" => fslots > 0 \/ h_rb_offset = 0

\* Nothing is recorded.
NoRecording ==
  ~is_recording /\ mig = "off" /\ op \in {"idle", "push", "join"}

RingInv == Laid /\ Reading /\ Lowest /\ Ended /\ NoRecording

-----------------------------------------------------------------------------
(* Slots counted backwards                                                 *)

\* Multiples of the slot size, one apart.
LEMMA Products ==
  ASSUME NEW d \in Int, NEW s \in Int
  PROVE  d * s \in Int /\ (d + 1) * s = d * s + s
  OBVIOUS

\* Multiples of the slot size are ordered as their factors are.
LEMMA ProductsOrdered ==
  ASSUME NEW d \in Int, NEW e \in Int, NEW s \in Nat \ {0}
  PROVE  /\ d < e => d * s + s <= e * s
         /\ d * s < e * s + s => d <= e
  OBVIOUS

\* Every offset below a multiple of the slot size is in one of the slots.
LEMMA Covering ==
  ASSUME NEW b \in Nat, NEW s \in Nat \ {0}, NEW o \in Int, o < b
  PROVE  \E d \in Nat \ {0} : b - d * s <= o /\ o < b - d * s + s
  <1> DEFINE q == (b - 1 - o) \div s
  <1>1. q \in Nat /\ q * s \in Nat /\ q * s <= b - 1 - o
          /\ b - 1 - o < q * s + s
    <2>1. b - 1 - o \in Nat
      OBVIOUS
    <2> DEFINE m == b - 1 - o
    <2> HIDE DEF m
    <2>2. m \in Nat
      BY <2>1 DEF m
    <2>3. m \div s \in Nat /\ (m \div s) * s \in Nat /\ (m \div s) * s <= m
            /\ m < (m \div s) * s + s
      BY <2>2
    <2> QED
      BY <2>3 DEF m
  <1> HIDE DEF q
  <1>2. (q + 1) * s = q * s + s
    BY <1>1, Products
  <1>3. q + 1 \in Nat \ {0}
    BY <1>1
  <1>4. b - (q + 1) * s <= o /\ o < b - (q + 1) * s + s
    BY <1>1, <1>2
  <1> QED
    BY <1>3, <1>4

\* Every slot is between 1 and NSlots slots behind the tail.
LEMMA BehindIn ==
  ASSUME tail \in Slots, NEW i \in Slots
  PROVE  /\ Behind(i) \in 1 .. NSlots
         /\ Behind(i) = NSlots <=> i = tail
         /\ Backward(tail, Behind(i)) = i
  BY CacheAssumption DEF Behind, Backward, Slots

\* Going back d slots from the tail leads d behind it.
LEMMA BehindBackward ==
  ASSUME tail \in Slots, NEW d \in 1 .. NSlots
  PROVE  Behind(Backward(tail, d)) = d /\ Backward(tail, d) \in Slots
  BY CacheAssumption DEF Behind, Backward, Slots

\* Two slots are not equally far behind.
LEMMA BehindInjective ==
  ASSUME tail \in Slots, NEW i \in Slots, NEW j \in Slots,
         Behind(i) = Behind(j)
  PROVE  i = j
  BY CacheAssumption DEF Behind, Slots

\* As the tail moves on, the slots fall one further behind.
LEMMA BehindNext ==
  ASSUME tail \in Slots, tail' = NextSlot(tail), NEW i \in Slots
  PROVE  Behind(i)' = IF i = tail THEN 1 ELSE Behind(i) + 1
  BY CacheAssumption DEF Behind, NextSlot, Forward, Slots

\* Going on from a slot is going less far back from the tail, once round at
\* the tail.
LEMMA ForwardBackward ==
  ASSUME tail \in Slots, NEW f \in 0 .. NSlots, NEW m \in 0 .. NSlots - 1
  PROVE  Forward(Backward(tail, f), m)
           = Backward(tail, IF m <= f THEN f - m ELSE NSlots + f - m)
  BY CacheAssumption DEF Forward, Backward, Slots

\* Going back twice is going back by the sum.
LEMMA BackwardBackward ==
  ASSUME tail \in Slots, NEW f \in 0 .. NSlots, NEW m \in 0 .. NSlots - f
  PROVE  Backward(Backward(tail, f), m) = Backward(tail, f + m)
  BY CacheAssumption DEF Backward, Slots

\* The slots at most d behind the tail are d slots.
LEMMA Nearest ==
  ASSUME tail \in Slots, NEW d \in 0 .. NSlots
  PROVE  Cardinality({i \in Slots : Behind(i) <= d}) = d
  <1> DEFINE T == {i \in Slots : Behind(i) <= d}
             f == [k \in 1 .. d |-> Backward(tail, k)]
  <1>1. \A k \in 1 .. d :
          Backward(tail, k) \in T /\ Behind(Backward(tail, k)) = k
    <2>1. \A k \in 1 .. d : k \in 1 .. NSlots /\ k <= d
      BY CacheAssumption
    <2> QED
      BY <2>1, BehindBackward
  <1>2. f \in [1 .. d -> T]
    BY <1>1
  <1>3. \A a, b \in 1 .. d : f[a] = f[b] => a = b
    BY <1>1
  <1>4. \A t \in T : \E k \in 1 .. d : f[k] = t
    BY BehindIn
  <1>5. f \in Bijection(1 .. d, T)
    BY <1>2, <1>3, <1>4 DEF Bijection, Injection, Surjection, IsInjective
  <1>6. ExistsBijection(1 .. d, T)
    BY <1>5 DEF ExistsBijection
  <1>7. IsFiniteSet(1 .. d) /\ Cardinality(1 .. d) = d
    <2>1. 1 \in Int /\ d \in Int
      OBVIOUS
    <2>2. /\ IsFiniteSet(1 .. d)
          /\ Cardinality(1 .. d) = IF 1 > d THEN 0 ELSE d - 1 + 1
      BY ONLY <2>1, FS_Interval
    <2> QED
      BY <2>2, CacheAssumption
  <1> HIDE DEF T
  <1>8. Cardinality(T) = Cardinality(1 .. d)
    BY ONLY <1>6, <1>7, FS_Bijection
  <1> QED
    BY <1>7, <1>8 DEF T

-----------------------------------------------------------------------------
(* Bytes                                                                   *)

\* Bytes of the stream that follow each other.
LEMMA BytesConcat ==
  ASSUME NEW a \in Int, NEW m \in Nat, NEW n \in Nat
  PROVE  Bytes(a, m) \o Bytes(a + m, n) = Bytes(a, m + n)
  <1>1. /\ Bytes(a, m) \in Seq(Int) /\ Len(Bytes(a, m)) = m
        /\ Bytes(a + m, n) \in Seq(Int) /\ Len(Bytes(a + m, n)) = n
        /\ Bytes(a, m + n) \in Seq(Int) /\ Len(Bytes(a, m + n)) = m + n
    BY BytesType
  <1>2. /\ Bytes(a, m) \o Bytes(a + m, n) \in Seq(Int)
        /\ Len(Bytes(a, m) \o Bytes(a + m, n)) = m + n
        /\ \A i \in 1 .. m + n :
             (Bytes(a, m) \o Bytes(a + m, n))[i]
               = IF i <= m THEN Bytes(a, m)[i] ELSE Bytes(a + m, n)[i - m]
    <2> DEFINE A == Bytes(a, m)
               B == Bytes(a + m, n)
    <2>1. A \in Seq(Int) /\ Len(A) = m /\ B \in Seq(Int) /\ Len(B) = n
      BY <1>1
    <2> HIDE DEF A, B
    <2>2. /\ A \o B \in Seq(Int) /\ Len(A \o B) = Len(A) + Len(B)
          /\ \A i \in 1 .. Len(A) + Len(B) :
               (A \o B)[i] = IF i <= Len(A) THEN A[i] ELSE B[i - Len(A)]
      BY ONLY <2>1, ConcatProperties
    <2> QED
      BY <2>1, <2>2 DEF A, B
  <1>3. \A i \in 1 .. m + n :
          (Bytes(a, m) \o Bytes(a + m, n))[i] = Bytes(a, m + n)[i]
    BY <1>2 DEF Bytes
  <1> QED
    BY <1>1, <1>2, <1>3, SeqEqual

\* No bytes are the empty sequence.
LEMMA NoBytes == \A a : Bytes(a, 0) = <<>>
  BY DEF Bytes

-----------------------------------------------------------------------------
(* What the invariant says of a state                                      *)

\* The ranges that arithmetic on the ring needs.
LEMMA RingTypes ==
  ASSUME TypeOK
  PROVE  /\ tail \in Slots /\ head \in Slots
         /\ slot \in [Slots -> SlotType]
         /\ h_offset \in Nat /\ l_rb_offset \in Nat /\ h_rb_offset \in Nat
         /\ fslots \in Int /\ left \in Nat
         /\ Base \in Nat
  BY DEF TypeOK, PlacesOK, SlotsOK, NumbersOK, ProgressOK, SlotType, Base

\* Slots that follow each other start SlotSize apart.
LEMMA AtFacts ==
  ASSUME TypeOK
  PROVE  /\ At(0) = Base
         /\ \A d \in Int : At(d) \in Int /\ At(d + 1) = At(d) - SlotSize
         /\ \A d, e \in Int : d < e => At(e) + SlotSize <= At(d)
  <1>1. Base \in Int /\ SlotSize \in Nat \ {0}
    BY RingTypes, CacheAssumption
  <1>2. 0 * SlotSize = 0
    BY <1>1
  <1>3. \A d \in Int :
          d * SlotSize \in Int /\ (d + 1) * SlotSize = d * SlotSize + SlotSize
    BY <1>1, Products
  <1>4. ASSUME NEW d \in Int, NEW e \in Int, d < e
        PROVE  d * SlotSize + SlotSize <= e * SlotSize
    BY <1>1, <1>4, ProductsOrdered
  <1>5. At(0) = Base
    BY <1>1, <1>2 DEF At
  <1>6. \A d \in Int : At(d) \in Int /\ At(d + 1) = At(d) - SlotSize
    BY <1>1, <1>3 DEF At
  <1>7. ASSUME NEW d \in Int, NEW e \in Int, d < e
        PROVE  At(e) + SlotSize <= At(d)
    <2>1. d * SlotSize \in Int /\ e * SlotSize \in Int
      BY <1>3
    <2> QED
      BY <1>1, <1>4, <1>7, <2>1 DEF At
  <1> QED
    BY <1>5, <1>6, <1>7

\* Slots begin at multiples of the slot size: none lies across offset 0.
LEMMA AtSign ==
  ASSUME TypeOK, Laid, NEW d \in Int
  PROVE  /\ At(d) > -SlotSize => At(d) >= 0
         /\ At(d) < 0 => At(d) <= -SlotSize
  <1>1. PICK k \in 0 .. Base : Base = k * SlotSize
    BY DEF Laid
  <1>2. k \in Int /\ SlotSize \in Nat \ {0} /\ d * SlotSize \in Int
          /\ k * SlotSize \in Int
    BY RingTypes, CacheAssumption, Products
  <1>3. CASE d <= k
    <2>1. d * SlotSize <= k * SlotSize
      <3>1. d = k \/ d < k
        BY <1>2, <1>3
      <3>2. d < k => d * SlotSize + SlotSize <= k * SlotSize
        BY <1>2, ProductsOrdered
      <3> QED
        BY <1>2, <3>1, <3>2
    <2> QED
      BY <1>1, <1>2, <2>1 DEF At
  <1>4. CASE k < d
    <2>1. k * SlotSize + SlotSize <= d * SlotSize
      BY <1>2, <1>4, ProductsOrdered
    <2> QED
      BY <1>1, <1>2, <2>1 DEF At
  <1> QED
    BY <1>2, <1>3, <1>4

\* What a filled slot has, and which offsets are in it.
LEMMA WholeFacts ==
  ASSUME NEW s, NEW o \in Int, Whole(s, o)
  PROVE  /\ s.state \in {"FULL", "POP", "RECYCLE"}
         /\ s.offset = o /\ Len(s.data) = SlotSize
         /\ s.data = Bytes(o, SlotSize)
         /\ SlotEnd(s) = o + SlotSize
         /\ \A x : Contains(s, x) <=> o <= x /\ x < o + SlotSize
  <1>1. Len(Bytes(o, SlotSize)) = SlotSize
    BY BytesType, CacheAssumption
  <1> QED
    BY <1>1 DEF Whole, SlotEnd, Contains

\* A slot that is not a filled tail has all its bytes or none.
LEMMA SlotKinds ==
  ASSUME TypeOK, Laid, NEW i \in Slots
  PROVE  \/ i = tail /\ TailFilled
         \/ At(Behind(i)) >= 0 /\ Whole(slot[i], At(Behind(i)))
         \/ At(Behind(i)) < 0 /\ slot[i] = EmptySlot
  <1>1. Behind(i) \in Int
    BY RingTypes, BehindIn, CacheAssumption
  <1>2. At(Behind(i)) \in Int
    BY <1>1, AtFacts
  <1> QED
    BY <1>2 DEF Laid

\* What a tail that is being filled has, and where it ends.
LEMMA TailFacts ==
  ASSUME TypeOK, Laid, TailFilled
  PROVE  /\ slot[tail].state \in {"PART", "POP", "RECYCLE"}
         /\ slot[tail].offset = Base
         /\ slot[tail].data = Bytes(Base, h_offset - Base)
         /\ Len(slot[tail].data) = h_offset - Base
         /\ SlotEnd(slot[tail]) = h_offset
         /\ Base < h_offset /\ h_offset < Base + SlotSize
  <1>1. /\ slot[tail].state \in {"PART", "POP", "RECYCLE"}
        /\ slot[tail].offset = Base
        /\ slot[tail].data = Bytes(Base, h_offset - Base)
        /\ Base < h_offset /\ h_offset < Base + SlotSize
    BY DEF Laid, TailFilled, Drained
  <1>2. Base \in Int /\ h_offset - Base \in Nat /\ h_offset \in Nat
    BY <1>1, RingTypes
  <1>3. Len(slot[tail].data) = h_offset - Base
    BY <1>1, <1>2, BytesType
  <1> QED
    BY <1>1, <1>2, <1>3 DEF SlotEnd

\* A slot that is full has all its bytes.
LEMMA FullWhole ==
  ASSUME TypeOK, Laid, NEW i \in Slots, slot[i].state = "FULL"
  PROVE  At(Behind(i)) >= 0 /\ Whole(slot[i], At(Behind(i)))
  <1>1. ~(i = tail /\ TailFilled)
    BY TailFacts
  <1>2. slot[i] # EmptySlot
    BY DEF EmptySlot
  <1> QED
    BY <1>1, <1>2, SlotKinds

\* As long as a slot is full, the reader is at one.
LEMMA HeadFull ==
  ASSUME TypeOK, RingInv, fslots > 0
  PROVE  /\ ~Drained /\ head = Backward(tail, fslots)
         /\ fslots \in 1 .. NSlots
         /\ Behind(head) = fslots
         /\ slot[head].state = "FULL"
         /\ At(fslots) >= 0 /\ Whole(slot[head], At(fslots))
  <1>1. ~Drained
    BY DEF RingInv, Ended
  <1>2. fslots \in 1 .. NSlots /\ head = Backward(tail, fslots)
    BY <1>1 DEF RingInv, Reading
  <1>3. Behind(head) = fslots /\ head \in Slots /\ tail \in Slots
    BY <1>2, RingTypes, BehindBackward
  <1>4. slot[head].state = "FULL"
    BY <1>2, <1>3 DEF RingInv, Reading
  <1> QED
    BY <1>1, <1>2, <1>3, <1>4, FullWhole DEF RingInv

\* A filled tail is not full.
LEMMA TailNotFull ==
  ASSUME TypeOK, RingInv, slot[tail].state # "FULL"
  PROVE  fslots \in 0 .. NSlots - 1
  <1>1. tail \in Slots /\ Behind(tail) = NSlots
    BY RingTypes, BehindIn
  <1> QED
    BY <1>1, CacheAssumption DEF RingInv, Reading

\* Where the reader goes on.
Going == IF Drained THEN h_offset ELSE At(fslots)

\* The reader is between the low end and the end of the stream.
LEMMA GoingBetween ==
  ASSUME TypeOK, RingInv
  PROVE  Going \in Nat /\ l_rb_offset <= Going /\ Going <= h_offset
  <1>1. /\ Base \in Nat /\ h_offset \in Nat /\ l_rb_offset \in Nat
        /\ NSlots \in Nat \ {0} /\ SlotSize \in Nat \ {0}
    BY RingTypes, CacheAssumption
  <1>2. Base <= h_offset
    BY <1>1, TailFacts DEF RingInv, Laid
  <1>3. fslots \in 0 .. NSlots /\ (TailFilled => fslots \in 0 .. NSlots - 1)
    BY TailFacts, TailNotFull DEF RingInv, Reading
  <1>4. \A d \in 0 .. NSlots :
          /\ At(d) \in Int /\ At(d) <= Base
          /\ At(d) <= At(fslots) <=> fslots <= d
    <2>1. \A d \in 0 .. NSlots : d \in Int
      OBVIOUS
    <2>2. fslots \in Int
      BY <1>3
    <2>3. ASSUME NEW d \in Int, NEW e \in Int
          PROVE  /\ At(d) \in Int /\ At(e) \in Int
                 /\ At(d) <= At(e) <=> e <= d
      <3>1. At(d) \in Int /\ At(e) \in Int
        BY AtFacts
      <3>2. /\ d < e => At(e) + SlotSize <= At(d)
            /\ e < d => At(d) + SlotSize <= At(e)
        BY AtFacts
      <3> QED
        BY <1>1, <3>1, <3>2
    <2>4. At(0) = Base
      BY AtFacts
    <2>5. ASSUME NEW d \in 0 .. NSlots
          PROVE  At(d) \in Int /\ At(d) <= Base
      <3>1. d \in Int /\ 0 <= d
        BY <1>1
      <3> QED
        BY <2>3, <2>4, <3>1
    <2>6. ASSUME NEW d \in 0 .. NSlots
          PROVE  At(d) <= At(fslots) <=> fslots <= d
      BY <2>1, <2>2, <2>3
    <2> QED
      BY <2>5, <2>6
  <1>5. At(fslots) >= 0 /\ At(fslots) <= Base /\ At(fslots) \in Int
    <2>1. CASE fslots = 0
      <3>1. At(fslots) = Base
        BY <2>1, AtFacts
      <3> QED
        BY <1>1, <3>1
    <2>2. CASE fslots > 0
      BY <1>3, <1>4, <2>2, HeadFull
    <2> QED
      BY <1>3, <2>1, <2>2
  <1>6. l_rb_offset <= At(fslots)
    <2> DEFINE low == IF TailFilled THEN NSlots - 1 ELSE NSlots
    <2>1. low \in 0 .. NSlots /\ fslots <= low
      BY <1>1, <1>3
    <2>2. l_rb_offset = Higher(0, At(low))
      BY DEF RingInv, Lowest
    <2> HIDE DEF low
    <2>3. At(low) \in Int /\ At(low) <= At(fslots)
      BY <1>4, <2>1
    <2> QED
      BY <1>5, <2>2, <2>3 DEF Higher
  <1> QED
    BY <1>1, <1>2, <1>5, <1>6 DEF Going

\* NextOffset reads the same off the slots.
LEMMA NextIs ==
  ASSUME TypeOK, RingInv
  PROVE  NextOffset = Going
  <1>1. CASE fslots > 0
    <2>1. /\ ~Drained /\ slot[head].state = "FULL"
          /\ Whole(slot[head], At(fslots))
      BY <1>1, HeadFull
    <2> QED
      BY <2>1 DEF NextOffset, Going, Whole
  <1>2. CASE fslots = 0
    <2>1. head \in Slots /\ tail \in Slots
      BY RingTypes
    <2>2. \A i \in Slots : slot[i].state # "FULL"
      <3>1. ASSUME NEW i \in Slots PROVE ~(Behind(i) <= 0)
        BY <2>1, BehindIn, CacheAssumption
      <3> QED
        BY <1>2, <3>1 DEF RingInv, Reading
    <2>3. \A i \in Slots : slot[i].state = "PART" => i = tail /\ ~Drained
      <3>1. ASSUME NEW i \in Slots, slot[i].state = "PART", i # tail
            PROVE  FALSE
        BY <3>1, SlotKinds DEF RingInv, Whole, EmptySlot
      <3> QED
        BY <3>1 DEF Drained
    <2>4. CASE Drained
      BY <2>1, <2>2, <2>3, <2>4 DEF NextOffset, Going, RingInv, Ended
    <2>5. CASE ~Drained
      <3>1. head = tail
        <4>1. head = Backward(tail, 0)
          BY <1>2, <2>5 DEF RingInv, Reading
        <4> QED
          BY <2>1, <4>1, CacheAssumption DEF Backward, Slots
      <3>2. Going = Base /\ Base = h_rb_offset
        BY <1>2, <2>5, AtFacts DEF Going, Base
      <3>3. slot[tail].state = "PART" => slot[tail].offset = Base
        BY TailFacts DEF TailFilled, RingInv
      <3> QED
        BY <2>1, <2>2, <3>1, <3>2, <3>3 DEF NextOffset
    <2> QED
      BY <2>4, <2>5
  <1> QED
    BY <1>1, <1>2 DEF RingInv, Reading

\* An offset of the ring's window is in one slot, and in no other.
Holds(d, o) ==
  /\ At(d) >= 0 /\ At(d) <= o /\ o < At(d) + SlotSize
  /\ d = NSlots => ~TailFilled
  /\ \A i \in Slots : Contains(slot[i], o) <=> Behind(i) = d

\* An offset below the tail, and not lost, is in a slot.
LEMMA Holder ==
  ASSUME TypeOK, RingInv, NEW o \in Int, l_rb_offset <= o, o < Base
  PROVE  \E d \in 1 .. NSlots : Holds(d, o)
  <1>1. /\ Base \in Nat /\ NSlots \in Nat \ {0} /\ SlotSize \in Nat \ {0}
        /\ l_rb_offset \in Nat /\ tail \in Slots
    BY RingTypes, CacheAssumption
  <1>2. PICK d \in Nat \ {0} :
          Base - d * SlotSize <= o /\ o < Base - d * SlotSize + SlotSize
    BY <1>1, Covering
  <1>3. At(d) <= o /\ o < At(d) + SlotSize /\ d \in Int /\ At(d) \in Int
    BY <1>2, AtFacts DEF At
  <1>4. At(d) >= 0
    <2>1. At(d) > -SlotSize
      BY <1>1, <1>3
    <2> QED
      BY <1>3, <2>1, AtSign DEF RingInv
  <1> DEFINE low == IF TailFilled THEN NSlots - 1 ELSE NSlots
  <1>5. low \in Int /\ low <= NSlots /\ (low = NSlots => ~TailFilled)
    BY <1>1
  <1>6. l_rb_offset = Higher(0, At(low))
    BY DEF RingInv, Lowest
  <1> HIDE DEF low
  <1>7. d <= low
    <2>1. At(low) \in Int /\ At(low) <= o
      <3>1. At(low) \in Int
        BY <1>5, AtFacts
      <3> QED
        BY <1>1, <1>6, <3>1 DEF Higher
    <2>2. low < d => At(d) + SlotSize <= At(low)
      BY <1>3, <1>5, AtFacts
    <2> QED
      BY <1>1, <1>3, <1>5, <2>1, <2>2
  <1>8. d \in 1 .. NSlots /\ (d = NSlots => ~TailFilled)
    BY <1>1, <1>5, <1>7
  <1>9. ASSUME NEW i \in Slots
        PROVE  Contains(slot[i], o) <=> Behind(i) = d
    <2>1. /\ Behind(i) \in 1 .. NSlots /\ Behind(i) \in Int
          /\ Behind(i) = NSlots <=> i = tail
      BY <1>1, BehindIn
    <2>2. CASE i = tail /\ TailFilled
      <3>1. slot[i].offset = Base
        BY <2>2, TailFacts DEF RingInv
      <3>2. ~Contains(slot[i], o)
        BY <1>1, <3>1 DEF Contains
      <3> QED
        BY <1>8, <2>1, <2>2, <3>2
    <2>3. CASE At(Behind(i)) >= 0 /\ Whole(slot[i], At(Behind(i)))
      <3>1. At(Behind(i)) \in Int
        BY <2>1, AtFacts
      <3>2. Contains(slot[i], o)
              <=> At(Behind(i)) <= o /\ o < At(Behind(i)) + SlotSize
        BY <2>3, <3>1, WholeFacts
      <3>3. /\ Behind(i) < d => At(d) + SlotSize <= At(Behind(i))
            /\ d < Behind(i) => At(Behind(i)) + SlotSize <= At(d)
        BY <1>3, <2>1, AtFacts
      <3> QED
        BY <1>1, <1>3, <2>1, <3>1, <3>2, <3>3
    <2>4. CASE At(Behind(i)) < 0 /\ slot[i] = EmptySlot
      <3>1. Contains(slot[i], o) <=> InvalidOffset <= o /\ o < InvalidOffset
        BY <2>4, CacheAssumption DEF Contains, SlotEnd, EmptySlot
      <3>2. ~Contains(slot[i], o)
        BY <3>1, CacheAssumption
      <3> QED
        BY <1>3, <1>4, <2>4, <3>2
    <2> QED
      BY <2>2, <2>3, <2>4, SlotKinds DEF RingInv
  <1> QED
    BY <1>3, <1>4, <1>8, <1>9 DEF Holds

-----------------------------------------------------------------------------
(* push                                                                    *)

\* What a push finds at the tail: a slot it may write to, with the bytes
\* since h_rb_offset; the bytes it recycles are the oldest.
Written == h_offset - h_rb_offset
Room == Lower(SlotSize - Written, left)

\* Push finds a tail that it may fill, after the bytes that it has.
LEMMA PushFinds ==
  ASSUME TypeOK, RingInv, PushSlot
  PROVE  /\ ~Drained /\ Base = h_rb_offset
         /\ slot[tail].state # "FULL"
         /\ Written \in 0 .. SlotSize - 1
         /\ Recycled(slot[tail]).data = Bytes(h_rb_offset, Written)
         /\ Len(Recycled(slot[tail]).data) = Written
         /\ LowAfterRecycle(slot[tail]) = Higher(0, At(NSlots - 1))
         /\ l_rb_offset <= LowAfterRecycle(slot[tail])
  <1>0. /\ NSlots \in Nat \ {0} /\ SlotSize \in Nat \ {0}
        /\ h_offset \in Nat /\ h_rb_offset \in Nat /\ l_rb_offset \in Nat
        /\ tail \in Slots /\ Behind(tail) = NSlots
        /\ MaxOffset \in Nat /\ InvalidOffset \in Nat
        /\ MaxOffset < InvalidOffset
    BY RingTypes, BehindIn, CacheAssumption
  <1>1. ~Drained /\ Base = h_rb_offset
    BY DEF PushSlot, RingInv, Ended, Base
  <1>2. slot[tail].state # "POP" /\ slot[tail].state # "FULL"
    BY AvailablePop DEF PushSlot
  <1>3. /\ At(NSlots) \in Int /\ At(NSlots - 1) \in Int
        /\ At(NSlots - 1) = At(NSlots) + SlotSize
        /\ At(NSlots) + SlotSize <= Base
    <2>1. NSlots \in Int /\ NSlots - 1 \in Int /\ 0 \in Int /\ 0 < NSlots
            /\ (NSlots - 1) + 1 = NSlots
      BY <1>0
    <2>2. At(NSlots) \in Int /\ At(NSlots - 1) \in Int
            /\ At((NSlots - 1) + 1) = At(NSlots - 1) - SlotSize
      BY <2>1, AtFacts
    <2>3. At(NSlots) + SlotSize <= At(0) /\ At(0) = Base
      BY <2>1, AtFacts
    <2> QED
      BY <1>0, <2>1, <2>2, <2>3
  <1>4. CASE TailFilled
    <2>1. slot[tail].state = "PART"
      BY <1>1, <1>4 DEF TailFilled
    <2>2. Recycled(slot[tail]) = slot[tail]
            /\ LowAfterRecycle(slot[tail]) = l_rb_offset
      BY <2>1 DEF Recycled, LowAfterRecycle
    <2>3. /\ slot[tail].data = Bytes(h_rb_offset, Written)
          /\ Len(slot[tail].data) = Written
          /\ h_rb_offset < h_offset /\ h_offset < h_rb_offset + SlotSize
      BY <1>1, <1>4, TailFacts DEF RingInv, Written
    <2>4. l_rb_offset = Higher(0, At(NSlots - 1))
      BY <1>4 DEF RingInv, Lowest
    <2>5. Written \in 0 .. SlotSize - 1
      BY <1>0, <2>3 DEF Written
    <2> QED
      BY <1>0, <1>1, <1>2, <2>2, <2>3, <2>4, <2>5
  <1>5. CASE ~TailFilled
    <2>1. h_offset = h_rb_offset /\ Written = 0
      BY <1>0, <1>1, <1>5 DEF RingInv, Laid, Written
    <2>2. l_rb_offset = Higher(0, At(NSlots))
      BY <1>5 DEF RingInv, Lowest
    <2>3. Recycled(slot[tail]) = EmptySlot
            /\ LowAfterRecycle(slot[tail]) = Higher(0, At(NSlots - 1))
      <3>1. CASE At(NSlots) >= 0 /\ Whole(slot[tail], At(NSlots))
        <4>1. /\ slot[tail].state = "RECYCLE" /\ slot[tail].offset = At(NSlots)
              /\ SlotEnd(slot[tail]) = At(NSlots) + SlotSize
          BY <1>2, <1>3, <3>1, WholeFacts
        <4>2. At(NSlots) # InvalidOffset
          <5>1. Base <= MaxOffset
            BY <1>1, <2>1 DEF RingInv, Ended
          <5> QED
            BY <1>0, <1>1, <1>3, <5>1
        <4> QED
          BY <1>0, <1>3, <3>1, <4>1, <4>2
             DEF Recycled, LowAfterRecycle, Higher
      <3>2. CASE At(NSlots) < 0 /\ slot[tail] = EmptySlot
        <4>1. At(NSlots) <= -SlotSize
          BY <1>0, <3>2, AtSign DEF RingInv
        <4>2. Higher(0, At(NSlots)) = 0 /\ Higher(0, At(NSlots - 1)) = 0
          BY <1>0, <1>3, <3>2, <4>1 DEF Higher
        <4> QED
          BY <2>2, <3>2, <4>2 DEF Recycled, LowAfterRecycle, EmptySlot
      <3> QED
        BY <1>0, <1>5, <3>1, <3>2, SlotKinds DEF RingInv
    <2>4. l_rb_offset <= LowAfterRecycle(slot[tail])
      BY <1>0, <1>3, <2>2, <2>3 DEF Higher
    <2>5. EmptySlot.data = <<>> /\ Len(EmptySlot.data) = 0
      BY DEF EmptySlot
    <2> QED
      BY <1>0, <1>1, <1>2, <2>1, <2>3, <2>4, <2>5, NoBytes
  <1> QED
    BY <1>4, <1>5

\* What a push leaves.
LEMMA PushWrites ==
  ASSUME TypeOK, RingInv, PushSlot
  PROVE  /\ Room \in Nat \ {0} /\ Room <= left
         /\ Written + Room <= SlotSize
         /\ slot' = [slot EXCEPT ![tail] =
                       [state  |-> IF Written + Room = SlotSize THEN "FULL"
                                                                ELSE "PART",
                        offset |-> h_rb_offset,
                        data   |-> Bytes(h_rb_offset, Written + Room)]]
         /\ l_rb_offset' = Higher(0, At(NSlots - 1))
         /\ l_rb_offset <= l_rb_offset'
         /\ h_offset' = h_rb_offset + (Written + Room)
         /\ h_offset' = h_offset + Room /\ left' = left - Room
         /\ op' \in {"idle", "push"}
         /\ IF Written + Room = SlotSize
              THEN /\ tail' = NextSlot(tail)
                   /\ h_rb_offset' = h_rb_offset + SlotSize
                   /\ fslots' = fslots + 1
              ELSE UNCHANGED <<tail, h_rb_offset, fslots>>
         /\ UNCHANGED <<head, recording, mig, is_eos, upstreamEos, seek, out>>
  <1>0. /\ SlotSize \in Nat \ {0} /\ left \in Nat
        /\ h_offset \in Nat /\ h_rb_offset \in Nat
    BY RingTypes, CacheAssumption
  <1>1. left > 0
    BY DEF PushSlot, TypeOK, ProgressOK
  <1> DEFINE t == Recycled(slot[tail])
             n == Lower(SlotSize - Len(t.data), left)
             d == t.data \o Bytes(h_offset, n)
  <1>2. /\ Written \in 0 .. SlotSize - 1
        /\ t.data = Bytes(h_rb_offset, Written) /\ Len(t.data) = Written
        /\ LowAfterRecycle(slot[tail]) = Higher(0, At(NSlots - 1))
        /\ l_rb_offset <= LowAfterRecycle(slot[tail])
    BY PushFinds
  <1>3. n = Room
    BY <1>2 DEF Room
  <1>4. /\ slot' = [slot EXCEPT ![tail] =
                      [state  |-> IF Len(d) = SlotSize THEN "FULL" ELSE "PART",
                       offset |-> h_rb_offset,
                       data   |-> d]]
        /\ l_rb_offset' = LowAfterRecycle(slot[tail])
        /\ h_offset' = h_offset + n
        /\ IF Len(d) = SlotSize
             THEN /\ tail' = NextSlot(tail)
                  /\ h_rb_offset' = h_rb_offset + SlotSize
                  /\ fslots' = fslots + 1
             ELSE UNCHANGED <<tail, h_rb_offset, fslots>>
        /\ left' = left - n /\ op' \in {"idle", "push"}
        /\ UNCHANGED <<head, recording, mig, is_eos, upstreamEos, seek, out>>
    BY DEF PushSlot, migrator, client
  <1> HIDE DEF t, n
  <1>5. Room \in Nat \ {0} /\ Room <= left /\ Written + Room <= SlotSize
    BY <1>0, <1>1, <1>2 DEF Room, Lower
  <1>6. d = Bytes(h_rb_offset, Written + Room)
    <2>1. h_offset = h_rb_offset + Written
      BY <1>0 DEF Written
    <2>2. Written \in Nat /\ Room \in Nat /\ h_rb_offset \in Int
      BY <1>0, <1>2, <1>5
    <2> QED
      BY <1>2, <1>3, <2>1, <2>2, BytesConcat
  <1> HIDE DEF d
  <1>7. Len(d) = Written + Room
    <2>1. Written + Room \in Nat /\ h_rb_offset \in Int
      BY <1>0, <1>2, <1>5
    <2> QED
      BY <1>6, <2>1, BytesType
  <1>8. h_offset' = h_rb_offset + (Written + Room)
    BY <1>0, <1>2, <1>3, <1>4, <1>5 DEF Written
  <1> QED
    BY <1>2, <1>3, <1>4, <1>5, <1>6, <1>7, <1>8

\* A push goes on only as far as it fits.
LEMMA PushKeepsEnded ==
  ASSUME TypeOK, RingInv, PushSlot, ~Drained'
  PROVE  Ended' /\ NoRecording'
  <1>1. /\ Room \in Nat \ {0} /\ Room <= left
        /\ h_offset' = h_offset + Room /\ left' = left - Room
        /\ op' \in {"idle", "push"}
        /\ UNCHANGED <<recording, mig, is_eos, upstreamEos, seek>>
    BY PushWrites
  <1>2. /\ op = "push" /\ ~upstreamEos /\ h_offset + left <= MaxOffset
        /\ is_eos => upstreamEos
        /\ seek = "flushing" => fslots > 0 \/ h_rb_offset = 0
    BY DEF PushSlot, RingInv, Ended
  <1>3. /\ \/ fslots' = fslots /\ h_rb_offset' = h_rb_offset
           \/ fslots' = fslots + 1
        /\ fslots \in Nat
    BY PushWrites, RingTypes DEF RingInv, Reading
  <1>4. Ended'
    <2>1. h_offset' <= MaxOffset /\ h_offset' + left' <= MaxOffset
      BY <1>1, <1>2, RingTypes, CacheAssumption
    <2>2. seek' = "flushing" => fslots' > 0 \/ h_rb_offset' = 0
      BY <1>1, <1>2, <1>3
    <2> QED
      BY <1>1, <1>2, <2>1, <2>2 DEF Ended
  <1>5. NoRecording'
    BY <1>1 DEF RingInv, NoRecording, recording
  <1> QED
    BY <1>4, <1>5

\* A push that fills the tail: everything is one slot further behind.
LEMMA PushFullRing ==
  ASSUME TypeOK, RingInv, PushSlot, Written + Room = SlotSize
  PROVE  RingInv' /\ Going' = Going
  <1>0. /\ NSlots \in Nat \ {0} /\ SlotSize \in Nat \ {0}
        /\ h_offset \in Nat /\ h_rb_offset \in Nat
        /\ tail \in Slots /\ slot \in [Slots -> SlotType]
        /\ fslots \in 0 .. NSlots - 1
        /\ Base = h_rb_offset
    BY RingTypes, CacheAssumption, PushFinds, TailNotFull
  <1>1. /\ slot' = [slot EXCEPT ![tail] =
                      [state  |-> "FULL",
                       offset |-> h_rb_offset,
                       data   |-> Bytes(h_rb_offset, SlotSize)]]
        /\ l_rb_offset' = Higher(0, At(NSlots - 1))
        /\ h_offset' = h_rb_offset + SlotSize
        /\ tail' = NextSlot(tail)
        /\ h_rb_offset' = h_rb_offset + SlotSize
        /\ fslots' = fslots + 1
        /\ head' = head
    BY PushWrites
  <1>2. Whole(slot'[tail], h_rb_offset) /\ slot'[tail].state = "FULL"
    BY <1>0, <1>1 DEF Whole
  <1>3. \A i \in Slots : i # tail => slot'[i] = slot[i]
    BY <1>0, <1>1
  <1>4. tail' \in Slots
    BY <1>0, <1>1, NextSlotIn
  <1>5. \A i \in Slots : i # tail =>
          IF At(Behind(i)) >= 0 THEN Whole(slot[i], At(Behind(i)))
                                ELSE slot[i] = EmptySlot
    BY DEF RingInv, Laid
  <1>6. ~Drained' /\ ~TailFilled'
    <2>1. CASE tail' = tail
      BY <1>2, <2>1 DEF Drained, TailFilled
    <2>2. CASE tail' # tail
      <3>1. slot'[tail'] = slot[tail']
        BY <1>3, <1>4, <2>2
      <3>2. Behind(tail') \in Int /\ At(Behind(tail')) \in Int
        <4>1. Behind(tail') \in Int
          BY <1>0, <1>4, BehindIn
        <4> QED
          BY <4>1, AtFacts
      <3>3. \/ slot[tail'] = EmptySlot
            \/ slot[tail'].state # "PART" /\ Len(slot[tail'].data) = SlotSize
        BY <1>4, <1>5, <2>2, <3>2, WholeFacts
      <3> QED
        BY <1>0, <3>1, <3>3 DEF Drained, TailFilled, EmptySlot
    <2> QED
      BY <2>1, <2>2
  <1>7. Base' = Base + SlotSize /\ Base' = h_rb_offset'
    BY <1>0, <1>1, <1>6 DEF Base
  <1>8. \A d \in Int : Base' - d * SlotSize = At(d - 1)
    <2>1. ASSUME NEW d \in Int PROVE Base' - d * SlotSize = At(d - 1)
      <3>1. (d - 1) * SlotSize \in Int
              /\ ((d - 1) + 1) * SlotSize = (d - 1) * SlotSize + SlotSize
        BY <1>0, Products
      <3>2. (d - 1) + 1 = d
        OBVIOUS
      <3> QED
        BY <1>0, <1>7, <3>1, <3>2 DEF At
    <2> QED
      BY <2>1
  <1>9. \A i \in Slots :
          /\ Behind(i) \in 1 .. NSlots
          /\ Behind(i)' = IF i = tail THEN 1 ELSE Behind(i) + 1
          /\ i # tail => Behind(i) < NSlots
          /\ Behind(i)' \in 1 .. NSlots
    <2>1. ASSUME NEW i \in Slots
          PROVE  /\ Behind(i) \in 1 .. NSlots
                 /\ Behind(i)' = IF i = tail THEN 1 ELSE Behind(i) + 1
                 /\ i # tail => Behind(i) < NSlots
      BY <1>0, <1>1, BehindIn, BehindNext
    <2> QED
      BY <1>0, <2>1
  <1>10. Laid'
    <2>1. \E k \in 0 .. Base' : Base' = k * SlotSize
      <3>1. PICK k \in 0 .. Base : Base = k * SlotSize
        BY DEF RingInv, Laid
      <3>2. (k + 1) * SlotSize = k * SlotSize + SlotSize
        BY <1>0, Products
      <3>3. Base' = (k + 1) * SlotSize
        BY <1>7, <3>1, <3>2
      <3>4. k + 1 \in 0 .. Base'
        BY <1>0, <1>7
      <3> QED
        BY <3>3, <3>4
    <2>2. ASSUME NEW i \in Slots
          PROVE  IF At(Behind(i))' >= 0 THEN Whole(slot'[i], At(Behind(i))')
                                        ELSE slot'[i] = EmptySlot
      <3>1. Behind(i)' \in Int /\ Behind(i) \in Int
        BY <1>0, <1>9
      <3>2. At(Behind(i))' = Base' - Behind(i)' * SlotSize
        BY DEF At
      <3>3. At(Behind(i))' = At(Behind(i)' - 1)
        BY <1>8, <3>1, <3>2
      <3>4. CASE i = tail
        <4>1. Behind(i)' - 1 = 0
          BY <1>9, <3>4
        <4>2. At(Behind(i))' = h_rb_offset
          BY <1>0, <3>3, <4>1, AtFacts
        <4> QED
          BY <1>0, <1>2, <3>4, <4>2
      <3>5. CASE i # tail
        <4>1. Behind(i)' - 1 = Behind(i)
          BY <1>9, <3>1, <3>5
        <4> QED
          BY <1>3, <1>5, <3>3, <3>5, <4>1
      <3> QED
        BY <3>4, <3>5
    <2>3. h_offset' = Base'
      BY <1>1, <1>7
    <2>4. \A i \in Slots :
            IF At(Behind(i))' >= 0 THEN Whole(slot'[i], At(Behind(i))')
                                   ELSE slot'[i] = EmptySlot
      BY <2>2
    <2> QED
      BY <1>6, <2>1, <2>3, <2>4 DEF Laid, Whole
  <1>11. Reading'
    <2>1. fslots' \in 0 .. NSlots
      BY <1>0, <1>1
    <2>2. \A i \in Slots : slot'[i].state = "FULL" <=> Behind(i)' <= fslots'
      <3>1. \A i \in Slots : slot[i].state = "FULL" <=> Behind(i) <= fslots
        BY DEF RingInv, Reading
      <3>2. ASSUME NEW i \in Slots
            PROVE  slot'[i].state = "FULL" <=> Behind(i)' <= fslots'
        <4>1. CASE i = tail
          BY <1>0, <1>1, <1>2, <1>9, <4>1
        <4>2. CASE i # tail
          BY <1>0, <1>1, <1>3, <1>9, <3>1, <4>2
        <4> QED
          BY <4>1, <4>2
      <3> QED
        BY <3>2
    <2>3. head' = Backward(tail', fslots')
      <3>1. head = Backward(tail, fslots)
        BY PushFinds DEF RingInv, Reading
      <3>2. Backward(NextSlot(tail), fslots + 1) = Backward(tail, fslots)
        BY <1>0 DEF Backward, NextSlot, Forward, Slots
      <3> QED
        BY <1>1, <3>1, <3>2
    <2> QED
      BY <1>6, <2>1, <2>2, <2>3 DEF Reading
  <1>12. Lowest'
    <2>1. At(NSlots)' = At(NSlots - 1)
      <3>1. At(NSlots)' = Base' - NSlots * SlotSize
        BY DEF At
      <3> QED
        BY <1>0, <1>8, <3>1
    <2> QED
      BY <1>1, <1>6, <2>1 DEF Lowest
  <1>13. Going' = Going
    <2>1. Going = At(fslots)
      BY PushFinds DEF Going
    <2>2. Going' = Base' - fslots' * SlotSize
      BY <1>6 DEF Going, At
    <2>3. fslots' \in Int /\ fslots' - 1 = fslots
      BY <1>0, <1>1
    <2> QED
      BY <1>8, <2>1, <2>2, <2>3
  <1> QED
    BY <1>6, <1>10, <1>11, <1>12, <1>13, PushKeepsEnded DEF RingInv

\* A push that does not fill the tail.
LEMMA PushPartRing ==
  ASSUME TypeOK, RingInv, PushSlot, Written + Room # SlotSize
  PROVE  RingInv' /\ Going' = Going
  <1>0. /\ NSlots \in Nat \ {0} /\ SlotSize \in Nat \ {0}
        /\ h_offset \in Nat /\ h_rb_offset \in Nat
        /\ tail \in Slots /\ slot \in [Slots -> SlotType]
        /\ fslots \in 0 .. NSlots - 1
        /\ Base = h_rb_offset
        /\ Written \in 0 .. SlotSize - 1
    BY RingTypes, CacheAssumption, PushFinds, TailNotFull
  <1>1. /\ slot' = [slot EXCEPT ![tail] =
                      [state  |-> "PART",
                       offset |-> h_rb_offset,
                       data   |-> Bytes(h_rb_offset, Written + Room)]]
        /\ l_rb_offset' = Higher(0, At(NSlots - 1))
        /\ h_offset' = h_rb_offset + (Written + Room)
        /\ UNCHANGED <<tail, h_rb_offset, fslots, head>>
        /\ Room \in Nat \ {0} /\ Written + Room <= SlotSize
    BY PushWrites
  <1>2. slot'[tail] = [state  |-> "PART",
                       offset |-> h_rb_offset,
                       data   |-> Bytes(h_rb_offset, Written + Room)]
    BY <1>0, <1>1
  <1>3. \A i \in Slots : i # tail => slot'[i] = slot[i]
    BY <1>0, <1>1
  <1>4. ~Drained' /\ TailFilled'
    BY <1>1, <1>2 DEF Drained, TailFilled
  <1>5. Base' = Base
    BY <1>0, <1>1, <1>4 DEF Base
  <1>6. \A i \in Slots : Behind(i)' = Behind(i)
    BY <1>1 DEF Behind
  <1>7. \A d : At(d)' = At(d)
    BY <1>5 DEF At
  <1>8. \A i \in Slots : At(Behind(i))' = At(Behind(i))
    BY <1>5, <1>6 DEF At
  <1>9. Laid'
    <2>1. \E k \in 0 .. Base' : Base' = k * SlotSize
      BY <1>5 DEF RingInv, Laid
    <2>2. \A i \in Slots : i # tail =>
            IF At(Behind(i))' >= 0 THEN Whole(slot'[i], At(Behind(i))')
                                   ELSE slot'[i] = EmptySlot
      BY <1>3, <1>8 DEF RingInv, Laid
    <2>3. /\ slot'[tail].offset = Base'
          /\ slot'[tail].data = Bytes(Base', h_offset' - Base')
          /\ Base' < h_offset' /\ h_offset' < Base' + SlotSize
      <3>1. Base' = h_rb_offset /\ h_offset' - Base' = Written + Room
        BY <1>0, <1>1, <1>5
      <3>2. Base' < h_offset' /\ h_offset' < Base' + SlotSize
        BY <1>0, <1>1, <3>1
      <3> QED
        BY <1>2, <3>1, <3>2
    <2> QED
      BY <1>1, <1>4, <2>1, <2>2, <2>3 DEF Laid, Whole
  <1>10. Reading'
    <2>1. \A i \in Slots : slot[i].state = "FULL" <=> Behind(i) <= fslots
      BY DEF RingInv, Reading
    <2>2. slot[tail].state # "FULL"
      BY PushFinds
    <2>3. \A i \in Slots : slot'[i].state = "FULL" <=> Behind(i)' <= fslots'
      BY <1>1, <1>2, <1>3, <1>6, <2>1, <2>2
    <2>4. head = Backward(tail, fslots) /\ fslots \in 0 .. NSlots
      BY PushFinds DEF RingInv, Reading
    <2> QED
      BY <1>1, <1>4, <2>3, <2>4 DEF Reading
  <1>11. Lowest'
    BY <1>1, <1>4, <1>7 DEF Lowest
  <1>12. Going' = Going
    <2>1. Going = At(fslots)
      BY PushFinds DEF Going
    <2> QED
      BY <1>1, <1>4, <1>5, <2>1 DEF Going, At
  <1> QED
    BY <1>4, <1>9, <1>10, <1>11, <1>12, PushKeepsEnded DEF RingInv

-----------------------------------------------------------------------------
(* pop and the release of a buffer                                         *)

\* pop takes the oldest full slot or, at the end of the stream, the tail.
PopsFull ==
  /\ fslots > 0 /\ slot[head].state = "FULL"
  /\ fslots' = fslots - 1 /\ UNCHANGED h_rb_offset
PopsTail ==
  /\ is_eos /\ ~Drained /\ head = tail /\ fslots = 0
  /\ slot[tail].state = "PART"
  /\ fslots' = fslots /\ h_rb_offset' = SlotEnd(slot[tail])

\* What both do.
Pops ==
  /\ seek # "flushing"
  /\ slot' = [slot EXCEPT ![head].state = "POP"]
  /\ head' = NextSlot(head)
  /\ out'.offset = slot[head].offset /\ out'.data = slot[head].data
  /\ UNCHANGED <<tail, h_offset, l_rb_offset, recording, mig, op, left, is_eos,
                 upstreamEos, seek>>

\* Pop takes a full slot, or at the end of the stream the tail.
LEMMA PopKinds ==
  ASSUME TypeOK, RingInv, Pop
  PROVE  Pops /\ (PopsFull \/ PopsTail)
  <1>0. /\ NSlots \in Nat \ {0} /\ tail \in Slots /\ head \in Slots
        /\ fslots \in Int
    BY RingTypes, CacheAssumption
  <1>1. ~is_recording
    BY DEF RingInv, NoRecording
  <1>2. Pops
    <2>1. UNCHANGED call
      BY <1>1 DEF Pop
    <2> QED
      BY <2>1 DEF Pop, CanPop, Pops, migrator, call
  <1>3. CASE slot[head].state = "FULL"
    <2>1. fslots > 0
      <3>1. Behind(head) >= 1
        BY <1>0, BehindIn
      <3>2. Behind(head) <= fslots /\ Behind(head) \in Int
        BY <1>0, <1>3, BehindIn DEF RingInv, Reading
      <3> QED
        BY <1>0, <3>1, <3>2
    <2>2. fslots' = fslots - 1 /\ h_rb_offset' = h_rb_offset
      BY <1>3 DEF Pop
    <2> QED
      BY <1>2, <1>3, <2>1, <2>2 DEF PopsFull
  <1>4. CASE slot[head].state # "FULL"
    <2>1. is_eos /\ slot[head].state = "PART"
      BY <1>4 DEF Pop
    <2>2. head = tail
      <3>1. ~Whole(slot[head], At(Behind(head))) /\ slot[head] # EmptySlot
        BY <2>1 DEF Whole, EmptySlot
      <3> QED
        BY <1>0, <3>1, SlotKinds DEF RingInv
    <2>3. ~Drained
      BY <2>1, <2>2 DEF Drained
    <2>4. fslots = 0
      <3>1. fslots \in 0 .. NSlots /\ ~(fslots > 0)
        BY <1>4, HeadFull DEF RingInv, Reading
      <3> QED
        BY <1>0, <3>1
    <2>5. fslots' = fslots /\ h_rb_offset' = SlotEnd(slot[tail])
      BY <1>0, <2>1, <2>2 DEF Pop
    <2> QED
      BY <1>2, <2>1, <2>2, <2>3, <2>4, <2>5 DEF PopsTail
  <1> QED
    BY <1>3, <1>4

\* A pop of a full slot delivers its bytes and moves the reader on.
LEMMA PopFullRing ==
  ASSUME TypeOK, RingInv, Pops, PopsFull
  PROVE  /\ RingInv'
         /\ Going = slot[head].offset /\ Going' = Going + SlotSize
         /\ Going' <= h_offset /\ slot[head].data = Bytes(Going, SlotSize)
  <1>0. /\ NSlots \in Nat \ {0} /\ SlotSize \in Nat \ {0}
        /\ tail \in Slots /\ head \in Slots /\ slot \in [Slots -> SlotType]
    BY RingTypes, CacheAssumption
  <1>1. /\ ~Drained /\ head = Backward(tail, fslots)
        /\ fslots \in 1 .. NSlots
        /\ Behind(head) = fslots
        /\ Whole(slot[head], At(fslots)) /\ At(fslots) >= 0
    BY HeadFull DEF PopsFull
  <1>2. /\ \A i \in Slots : i # head => slot'[i] = slot[i]
        /\ slot'[head].state = "POP"
        /\ slot'[head].offset = slot[head].offset
        /\ slot'[head].data = slot[head].data
    BY <1>0 DEF Pops, SlotType
  <1>3. Whole(slot'[head], At(fslots))
    BY <1>1, <1>2 DEF Whole
  <1>4. UNCHANGED <<tail, h_offset, h_rb_offset, l_rb_offset>>
    BY DEF Pops, PopsFull
  <1>5. ~Drained' /\ (TailFilled' <=> TailFilled)
          /\ (TailFilled => slot'[tail] = slot[tail])
    <2>1. CASE head = tail
      <3>1. Len(slot'[tail].data) = SlotSize
        <4>1. At(fslots) \in Int
          BY <1>1, AtFacts
        <4> QED
          BY <1>3, <2>1, <4>1, WholeFacts
      <3>2. ~TailFilled
        BY <2>1, TailFacts DEF RingInv, PopsFull
      <3> QED
        BY <1>0, <1>2, <1>4, <2>1, <3>1, <3>2 DEF Drained, TailFilled
    <2>2. CASE head # tail
      BY <1>0, <1>1, <1>2, <1>4, <2>2 DEF Drained, TailFilled
    <2> QED
      BY <2>1, <2>2
  <1>6. Base' = Base
    BY <1>1, <1>4, <1>5 DEF Base
  <1>7. \A i \in Slots : Behind(i)' = Behind(i)
    BY <1>4 DEF Behind
  <1>8. \A d : At(d)' = At(d)
    BY <1>6 DEF At
  <1>9. \A i \in Slots : At(Behind(i))' = At(Behind(i))
    BY <1>6, <1>7 DEF At
  <1>10. Laid'
    <2>1. \E k \in 0 .. Base' : Base' = k * SlotSize
      BY <1>6 DEF RingInv, Laid
    <2>2. \A i \in Slots : i # tail \/ ~TailFilled =>
            IF At(Behind(i))' >= 0 THEN Whole(slot'[i], At(Behind(i))')
                                   ELSE slot'[i] = EmptySlot
      <3>1. ASSUME NEW i \in Slots, i # tail \/ ~TailFilled
            PROVE  IF At(Behind(i)) >= 0 THEN Whole(slot'[i], At(Behind(i)))
                                         ELSE slot'[i] = EmptySlot
        <4>1. CASE i = head
          BY <1>1, <1>3, <4>1
        <4>2. CASE i # head
          BY <1>2, <3>1, <4>2 DEF RingInv, Laid
        <4> QED
          BY <4>1, <4>2
      <3> QED
        BY <1>9, <3>1
    <2>3. /\ TailFilled =>
               /\ slot'[tail].offset = Base'
               /\ slot'[tail].data = Bytes(Base', h_offset' - Base')
               /\ Base' < h_offset' /\ h_offset' < Base' + SlotSize
          /\ ~TailFilled => h_offset' = Base'
      BY <1>4, <1>5, <1>6 DEF RingInv, Laid
    <2> QED
      BY <1>4, <1>5, <2>1, <2>2, <2>3 DEF Laid, Whole
  <1>11. Reading'
    <2>1. \A i \in Slots : slot[i].state = "FULL" <=> Behind(i) <= fslots
      BY DEF RingInv, Reading
    <2>2. fslots' = fslots - 1 /\ fslots' \in 0 .. NSlots
      BY <1>0, <1>1 DEF PopsFull
    <2>3. ASSUME NEW i \in Slots
          PROVE  slot'[i].state = "FULL" <=> Behind(i) <= fslots'
      <3>1. Behind(i) \in Int
        BY <1>0, BehindIn
      <3>2. CASE i = head
        BY <1>1, <1>2, <2>2, <3>2
      <3>3. CASE i # head
        <4>1. Behind(i) # fslots
          BY <1>0, <1>1, <3>3, BehindInjective
        <4> QED
          BY <1>1, <1>2, <2>1, <2>2, <3>1, <3>3, <4>1
      <3> QED
        BY <3>2, <3>3
    <2>4. head' = Backward(tail', fslots')
      <3>1. head' = NextSlot(Backward(tail, fslots))
        BY <1>1 DEF Pops
      <3> QED
        BY <1>0, <1>1, <1>4, <2>2, <3>1
           DEF NextSlot, Forward, Backward, Slots
    <2> QED
      BY <1>5, <1>7, <2>2, <2>3, <2>4 DEF Reading
  <1>12. Lowest'
    BY <1>4, <1>5, <1>8 DEF RingInv, Lowest
  <1>13. Ended' /\ NoRecording'
    <2>1. seek' # "flushing"
      BY DEF Pops
    <2>2. UNCHANGED <<is_recording, mig, op, left, is_eos, upstreamEos, seek,
                      h_offset>>
      BY DEF Pops, recording
    <2>3. NoRecording'
      BY <2>2 DEF RingInv, NoRecording
    <2> QED
      BY <1>5, <2>1, <2>2, <2>3 DEF RingInv, Ended
  <1>14. Going = slot[head].offset /\ slot[head].data = Bytes(Going, SlotSize)
    BY <1>1 DEF Going, Whole
  <1>15. Going' = Going + SlotSize /\ Going' <= h_offset
    <2>1. Going = At(fslots)
      BY <1>1 DEF Going
    <2>2. Going' = Base - (fslots - 1) * SlotSize
      BY <1>5, <1>6 DEF Going, At, PopsFull
    <2>3. /\ fslots - 1 \in Int /\ (fslots - 1) + 1 = fslots
          /\ 0 <= fslots - 1
      BY <1>0, <1>1
    <2>4. /\ At(fslots - 1) \in Int
          /\ At((fslots - 1) + 1) = At(fslots - 1) - SlotSize
      BY <2>3, AtFacts
    <2>5. Going' = At(fslots - 1)
      BY <2>2 DEF At
    <2>6. At(fslots - 1) <= Base
      <3>1. 0 < fslots - 1 => At(fslots - 1) + SlotSize <= At(0)
        BY <2>3, AtFacts
      <3>2. At(0) = Base /\ Base \in Nat
        BY AtFacts, RingTypes
      <3> QED
        BY <1>0, <2>3, <2>4, <3>1, <3>2
    <2>7. Base <= h_offset /\ Base \in Nat /\ h_offset \in Nat
      BY RingTypes, TailFacts DEF RingInv, Laid
    <2> QED
      BY <1>0, <2>1, <2>3, <2>4, <2>5, <2>6, <2>7
  <1> QED
    BY <1>10, <1>11, <1>12, <1>13, <1>14, <1>15 DEF RingInv

\* A pop of the tail delivers the rest and leaves the ring drained.
LEMMA PopTailRing ==
  ASSUME TypeOK, RingInv, Pops, PopsTail
  PROVE  /\ RingInv'
         /\ Going = slot[head].offset /\ Going' = h_offset
         /\ Going < Going'
         /\ slot[head].data = Bytes(Going, Going' - Going)
  <1>0. /\ NSlots \in Nat \ {0} /\ SlotSize \in Nat \ {0}
        /\ tail \in Slots /\ slot \in [Slots -> SlotType]
        /\ h_offset \in Nat /\ Base \in Nat
    BY RingTypes, CacheAssumption
  <1>1. /\ ~Drained /\ head = tail /\ fslots = 0 /\ is_eos
        /\ TailFilled
    BY DEF PopsTail, TailFilled
  <1>2. /\ slot[tail].offset = Base
        /\ slot[tail].data = Bytes(Base, h_offset - Base)
        /\ Len(slot[tail].data) = h_offset - Base
        /\ SlotEnd(slot[tail]) = h_offset
        /\ Base < h_offset /\ h_offset < Base + SlotSize
    BY <1>1, TailFacts DEF RingInv
  <1>3. /\ \A i \in Slots : i # tail => slot'[i] = slot[i]
        /\ slot'[tail].state = "POP"
        /\ slot'[tail].offset = slot[tail].offset
        /\ slot'[tail].data = slot[tail].data
    BY <1>0, <1>1 DEF Pops, SlotType
  <1>4. UNCHANGED <<tail, h_offset, l_rb_offset>>
          /\ h_rb_offset' = h_offset /\ fslots' = 0
    BY <1>1, <1>2 DEF Pops, PopsTail
  <1>5. Drained' /\ TailFilled'
    <2>1. Len(slot'[tail].data) < SlotSize
      BY <1>0, <1>2, <1>3
    <2> QED
      BY <1>3, <1>4, <2>1 DEF Drained, TailFilled
  <1>6. Base' = Base
    BY <1>2, <1>3, <1>4, <1>5 DEF Base
  <1>7. \A i \in Slots : Behind(i)' = Behind(i)
    BY <1>4 DEF Behind
  <1>8. \A d : At(d)' = At(d)
    BY <1>6 DEF At
  <1>9. \A i \in Slots : At(Behind(i))' = At(Behind(i))
    BY <1>6, <1>7 DEF At
  <1>10. Laid'
    <2>1. \E k \in 0 .. Base' : Base' = k * SlotSize
      BY <1>6 DEF RingInv, Laid
    <2>2. \A i \in Slots : i # tail =>
            IF At(Behind(i))' >= 0 THEN Whole(slot'[i], At(Behind(i))')
                                   ELSE slot'[i] = EmptySlot
      BY <1>3, <1>9 DEF RingInv, Laid
    <2>3. /\ slot'[tail].offset = Base'
          /\ slot'[tail].data = Bytes(Base', h_offset' - Base')
          /\ Base' < h_offset' /\ h_offset' < Base' + SlotSize
      BY <1>2, <1>3, <1>4, <1>6
    <2> QED
      BY <1>4, <1>5, <2>1, <2>2, <2>3 DEF Laid, Whole
  <1>11. Reading'
    <2>1. \A i \in Slots : Behind(i) \in 1 .. NSlots
      BY <1>0, BehindIn
    <2>2. \A i \in Slots : slot[i].state # "FULL"
      BY <1>0, <1>1, <2>1 DEF RingInv, Reading
    <2>3. \A i \in Slots : slot'[i].state # "FULL"
      BY <1>3, <2>2
    <2>4. head' = NextSlot(tail')
      BY <1>1, <1>4 DEF Pops
    <2> QED
      BY <1>0, <1>4, <1>5, <1>7, <2>1, <2>3, <2>4 DEF Reading
  <1>12. Lowest'
    BY <1>1, <1>4, <1>5, <1>8 DEF RingInv, Lowest
  <1>13. UNCHANGED <<is_recording, mig, op, left, is_eos, upstreamEos, seek>>
           /\ seek # "flushing"
    BY DEF Pops, recording
  <1>14. NoRecording'
    BY <1>13 DEF RingInv, NoRecording
  <1>15. Ended'
    BY <1>1, <1>4, <1>13 DEF RingInv, Ended
  <1>16. Going = Base /\ Going' = h_offset
    BY <1>1, <1>4, <1>5, AtFacts DEF Going
  <1> QED
    BY <1>1, <1>2, <1>10, <1>11, <1>12, <1>14, <1>15, <1>16 DEF RingInv

\* A buffer that comes back leaves its slot as it was, to be sought again.
LEMMA ReleaseRing ==
  ASSUME TypeOK, HeldIsPop, RingInv, NEW r \in Slots, Release(r)
  PROVE  RingInv' /\ Going' = Going
  <1>0. tail \in Slots /\ slot \in [Slots -> SlotType]
    BY RingTypes
  <1>1. slot[r].state = "POP"
    BY DEF Release, HeldIsPop
  <1>2. /\ \A i \in Slots : i # r => slot'[i] = slot[i]
        /\ slot'[r].state = "RECYCLE"
        /\ slot'[r].offset = slot[r].offset
        /\ slot'[r].data = slot[r].data
    BY <1>0 DEF Release, SlotType
  <1>3. UNCHANGED <<head, tail, fslots, h_offset, h_rb_offset, l_rb_offset>>
    BY DEF Release, offsets
  <1>4. (Drained' <=> Drained) /\ (TailFilled' <=> TailFilled)
    <2>1. CASE r = tail
      BY <1>1, <1>2, <1>3, <2>1 DEF Drained, TailFilled
    <2>2. CASE r # tail
      BY <1>0, <1>2, <1>3, <2>2 DEF Drained, TailFilled
    <2> QED
      BY <2>1, <2>2
  <1>5. /\ slot'[tail].offset = slot[tail].offset
        /\ slot'[tail].data = slot[tail].data
    BY <1>0, <1>2
  <1>6. Base' = Base
    BY <1>3, <1>4, <1>5 DEF Base
  <1>7. \A i \in Slots : Behind(i)' = Behind(i)
    BY <1>3 DEF Behind
  <1>8. \A d : At(d)' = At(d)
    BY <1>6 DEF At
  <1>9. \A i \in Slots : At(Behind(i))' = At(Behind(i))
    BY <1>6, <1>7 DEF At
  <1>10. Laid'
    <2>1. \E k \in 0 .. Base' : Base' = k * SlotSize
      BY <1>6 DEF RingInv, Laid
    <2>2. ASSUME NEW i \in Slots, i # tail \/ ~TailFilled
          PROVE  IF At(Behind(i)) >= 0 THEN Whole(slot'[i], At(Behind(i)))
                                       ELSE slot'[i] = EmptySlot
      <3>1. IF At(Behind(i)) >= 0 THEN Whole(slot[i], At(Behind(i)))
                                  ELSE slot[i] = EmptySlot
        BY <2>2 DEF RingInv, Laid
      <3>2. CASE i = r
        BY <1>1, <1>2, <3>1, <3>2 DEF Whole, EmptySlot
      <3>3. CASE i # r
        BY <1>2, <3>1, <3>3
      <3> QED
        BY <3>2, <3>3
    <2>3. \A i \in Slots : i # tail \/ ~TailFilled =>
            IF At(Behind(i))' >= 0 THEN Whole(slot'[i], At(Behind(i))')
                                   ELSE slot'[i] = EmptySlot
      BY <1>9, <2>2
    <2>4. /\ TailFilled =>
               /\ slot'[tail].offset = Base'
               /\ slot'[tail].data = Bytes(Base', h_offset' - Base')
               /\ Base' < h_offset' /\ h_offset' < Base' + SlotSize
          /\ ~TailFilled => h_offset' = Base'
      BY <1>3, <1>5, <1>6 DEF RingInv, Laid
    <2> QED
      BY <1>3, <1>4, <2>1, <2>3, <2>4 DEF Laid, Whole
  <1>11. Reading'
    <2>1. \A i \in Slots : slot'[i].state = "FULL" <=> slot[i].state = "FULL"
      BY <1>1, <1>2
    <2> QED
      BY <1>3, <1>4, <1>7, <2>1 DEF RingInv, Reading
  <1>12. Lowest'
    BY <1>3, <1>4, <1>8 DEF RingInv, Lowest
  <1>13. Ended' /\ NoRecording'
    <2>1. UNCHANGED <<is_recording, mig, op, left, is_eos, upstreamEos, seek>>
      BY DEF Release, recording, migrator, call
    <2>2. NoRecording'
      BY <2>1 DEF RingInv, NoRecording
    <2> QED
      BY <1>3, <1>4, <2>1, <2>2 DEF RingInv, Ended
  <1>14. Going' = Going
    BY <1>3, <1>4, <1>6 DEF Going, At
  <1> QED
    BY <1>10, <1>11, <1>12, <1>13, <1>14 DEF RingInv

-----------------------------------------------------------------------------
(* seek                                                                    *)

\* What a seek within the ring does: the reader is at the slot that is d slots
\* behind the tail, and all the slots from there to the tail are full.
RolledTo(d) ==
  /\ \A i \in Slots :
       slot'[i] \in {slot[i], RolledBack(slot[i]), RolledForward(slot[i])}
  /\ \A i \in Slots : slot'[i].state = "FULL" <=> Behind(i) <= d
  /\ head' = Backward(tail, d)
  /\ UNCHANGED <<tail, offsets, recording, mig, op, left>>
  /\ SeekDone

\* A seek in the ring is performed with a slot full, every buffer back and
\* nothing being recorded; one slot has the offset.
LEMMA SeekStart ==
  ASSUME TypeOK, HeldIsPop, RingInv, CanSeek, InRing
  PROVE  /\ op = "idle" /\ fslots > 0 /\ ~Drained /\ ~DiskUsable
         /\ SeekOffset \in Nat
         /\ \A i \in Slots : slot[i].state # "POP"
         /\ \E d \in 1 .. NSlots : Holds(d, SeekOffset)
  <1>1. /\ op = "idle" /\ held = {} /\ want \in Nat /\ ~DiskUsable
        /\ fslots > 0 \/ h_rb_offset = 0
    BY DEF CanSeek, RingInv, Ended, NoRecording, DiskUsable, TypeOK, ProgressOK
  <1>3. SeekOffset \in Nat
    BY <1>1, RingTypes DEF SeekOffset, Higher, Lower
  <1>f. fslots > 0
    <2>1. SeekOffset < h_rb_offset
      BY DEF InRing
    <2> HIDE DEF SeekOffset
    <2> QED
      BY <1>1, <1>3, <2>1
  <1>2. ~Drained
    BY <1>f, HeadFull
  <1>4. \A i \in Slots : slot[i].state # "POP"
    BY <1>1 DEF HeldIsPop
  <1>5. \E d \in 1 .. NSlots : Holds(d, SeekOffset)
    <2>1. Base = h_rb_offset
      BY <1>2 DEF Base
    <2>2. SeekOffset \in Int /\ l_rb_offset <= SeekOffset /\ SeekOffset < Base
      BY <1>3, <2>1 DEF InRing
    <2> HIDE DEF SeekOffset
    <2> QED
      BY <2>2, Holder
  <1> QED
    BY <1>1, <1>f, <1>2, <1>3, <1>4, <1>5

\* A seek over a slot leaves its bytes and its offset.
LEMMA RollKept ==
  ASSUME NEW s, NEW r \in {s, RolledBack(s), RolledForward(s)},
         s \in SlotType
  PROVE  /\ r.offset = s.offset /\ r.data = s.data
         /\ \A o : Whole(s, o) => Whole(r, o)
         /\ s.state \notin {"FULL", "RECYCLE"} => r = s
         /\ s.state \in {"FULL", "RECYCLE"} => r.state \in {"FULL", "RECYCLE"}
         /\ s = EmptySlot => r = EmptySlot
  BY DEF RolledBack, RolledForward, Whole, SlotType, EmptySlot

\* The ring after a seek to the slot d behind the tail.
LEMMA RolledRing ==
  ASSUME TypeOK, RingInv, NEW d \in 1 .. NSlots, RolledTo(d), Accounting',
         fslots > 0, ~Drained
  PROVE  RingInv' /\ Going' = At(d)
  <1>0. /\ NSlots \in Nat \ {0} /\ SlotSize \in Nat \ {0}
        /\ tail \in Slots /\ slot \in [Slots -> SlotType]
        /\ \A i \in Slots : slot[i] \in SlotType
    BY RingTypes, CacheAssumption
  <1>1. \A i \in Slots :
          /\ slot'[i].offset = slot[i].offset /\ slot'[i].data = slot[i].data
          /\ \A o : Whole(slot[i], o) => Whole(slot'[i], o)
          /\ slot[i].state \notin {"FULL", "RECYCLE"} => slot'[i] = slot[i]
          /\ slot[i].state \in {"FULL", "RECYCLE"} =>
               slot'[i].state \in {"FULL", "RECYCLE"}
          /\ slot[i] = EmptySlot => slot'[i] = EmptySlot
    BY <1>0, RollKept DEF RolledTo
  <1>2. UNCHANGED <<tail, h_offset, h_rb_offset, l_rb_offset>>
    BY DEF RolledTo, offsets
  <1>3. slot[tail].state \in {"FULL", "RECYCLE"} =>
          ~TailFilled /\ Len(slot[tail].data) = SlotSize
    <2>1. SUFFICES ASSUME slot[tail].state \in {"FULL", "RECYCLE"}
                   PROVE  ~TailFilled /\ Len(slot[tail].data) = SlotSize
      OBVIOUS
    <2>2. ~TailFilled /\ slot[tail] # EmptySlot
      BY <2>1 DEF TailFilled, EmptySlot
    <2>3. At(Behind(tail)) \in Int
      <3>1. Behind(tail) \in Int
        BY <1>0, BehindIn
      <3> QED
        BY <3>1, AtFacts
    <2> QED
      BY <1>0, <2>2, <2>3, SlotKinds, WholeFacts DEF RingInv
  <1>4. ~Drained' /\ (TailFilled' <=> TailFilled)
    <2>1. CASE slot[tail].state \in {"FULL", "RECYCLE"}
      <3>1. /\ slot'[tail].state \in {"FULL", "RECYCLE"}
            /\ slot'[tail].data = slot[tail].data
        BY <1>0, <1>1, <2>1
      <3> QED
        BY <1>0, <1>2, <1>3, <2>1, <3>1 DEF Drained, TailFilled
    <2>2. CASE slot[tail].state \notin {"FULL", "RECYCLE"}
      BY <1>0, <1>1, <1>2, <2>2 DEF Drained, TailFilled
    <2> QED
      BY <2>1, <2>2
  <1>5. Base' = Base
    BY <1>2, <1>4 DEF Base
  <1>6. \A i \in Slots : Behind(i)' = Behind(i)
    BY <1>2 DEF Behind
  <1>7. \A e : At(e)' = At(e)
    BY <1>5 DEF At
  <1>8. \A i \in Slots : At(Behind(i))' = At(Behind(i))
    BY <1>5, <1>6 DEF At
  <1>9. Laid'
    <2>1. \E k \in 0 .. Base' : Base' = k * SlotSize
      BY <1>5 DEF RingInv, Laid
    <2>2. \A i \in Slots : i # tail \/ ~TailFilled =>
            IF At(Behind(i))' >= 0 THEN Whole(slot'[i], At(Behind(i))')
                                   ELSE slot'[i] = EmptySlot
      BY <1>1, <1>8 DEF RingInv, Laid
    <2>3. /\ TailFilled =>
               /\ slot'[tail].offset = Base'
               /\ slot'[tail].data = Bytes(Base', h_offset' - Base')
               /\ Base' < h_offset' /\ h_offset' < Base' + SlotSize
          /\ ~TailFilled => h_offset' = Base'
      BY <1>0, <1>1, <1>2, <1>5 DEF RingInv, Laid
    <2> QED
      BY <1>2, <1>4, <2>1, <2>2, <2>3 DEF Laid, Whole
  <1>10. fslots' = d
    <2>1. FullSlots' = {i \in Slots : Behind(i) <= d}
      BY DEF RolledTo, FullSlots
    <2>2. Cardinality({i \in Slots : Behind(i) <= d}) = d
      <3>1. d \in 0 .. NSlots
        BY <1>0
      <3> QED
        BY <1>0, <3>1, Nearest
    <2> QED
      BY <2>1, <2>2 DEF Accounting
  <1>11. Reading'
    <2>1. fslots' \in 0 .. NSlots
      BY <1>0, <1>10
    <2>2. \A i \in Slots : slot'[i].state = "FULL" <=> Behind(i)' <= fslots'
      BY <1>6, <1>10 DEF RolledTo
    <2>3. head' = Backward(tail', fslots')
      BY <1>2, <1>10 DEF RolledTo
    <2> QED
      BY <1>4, <2>1, <2>2, <2>3 DEF Reading
  <1>12. Lowest'
    BY <1>2, <1>4, <1>7 DEF RingInv, Lowest
  <1>13. Ended' /\ NoRecording'
    <2>1. UNCHANGED <<is_recording, mig, op, left, upstreamEos>>
            /\ seek' = "none" /\ is_eos' = FALSE
      BY DEF RolledTo, recording, SeekDone
    <2>2. NoRecording'
      BY <2>1 DEF RingInv, NoRecording
    <2> QED
      BY <1>2, <1>4, <2>1, <2>2 DEF RingInv, Ended
  <1>14. Going' = At(d)
    BY <1>4, <1>5, <1>10 DEF Going, At
  <1> QED
    BY <1>9, <1>11, <1>12, <1>13, <1>14 DEF RingInv

\* The offset is where the reader is: nothing moves.
LEMMA SeekHeadRolls ==
  ASSUME TypeOK, HeldIsPop, RingInv, SeekHead
  PROVE  \E d \in 1 .. NSlots : Holds(d, SeekOffset) /\ RolledTo(d)
  <1>1. CanSeek /\ InRing /\ Contains(slot[head], SeekOffset)
    BY DEF SeekHead
  <1>2. PICK d \in 1 .. NSlots : Holds(d, SeekOffset)
    BY <1>1, SeekStart
  <1>3. /\ head = Backward(tail, fslots) /\ Behind(head) = fslots
        /\ slot[head].state = "FULL" /\ head \in Slots
        /\ slot \in [Slots -> SlotType]
    BY <1>1, SeekStart, HeadFull, RingTypes
  <1>4. d = fslots
    BY <1>1, <1>2, <1>3 DEF Holds
  <1>5. slot' = slot
    <2>1. RolledBack(slot[head]) = slot[head]
      BY <1>3 DEF RolledBack
    <2> QED
      BY <1>3, <2>1 DEF SeekHead
  <1>6. \A i \in Slots : slot'[i].state = "FULL" <=> Behind(i) <= d
    BY <1>4, <1>5 DEF RingInv, Reading
  <1>7. head' = Backward(tail, d)
    BY <1>3, <1>4 DEF SeekHead
  <1> QED
    BY <1>2, <1>5, <1>6, <1>7 DEF SeekHead, RolledTo, migrator, call

\* Ahead of the reader is the slot that has the offset, and the distance is
\* the number of full slots that are given up.
LEMMA FutureIs ==
  ASSUME TypeOK, HeldIsPop, RingInv, SeekAhead
  PROVE  \E d \in 1 .. fslots - 1 :
           Holds(d, SeekOffset) /\ FutureDistances = {fslots - d}
  <1>1. /\ CanSeek /\ InRing /\ ~Contains(slot[head], SeekOffset)
        /\ slot[head].offset <= SeekOffset
    BY DEF SeekAhead
  <1>0. /\ NSlots \in Nat \ {0} /\ SlotSize \in Nat \ {0}
        /\ tail \in Slots /\ SeekOffset \in Nat
    BY <1>1, SeekStart, RingTypes, CacheAssumption
  <1>2. PICK d \in 1 .. NSlots : Holds(d, SeekOffset)
    BY <1>1, SeekStart
  <1>3. /\ head = Backward(tail, fslots) /\ Behind(head) = fslots
        /\ head \in Slots /\ fslots \in 1 .. NSlots
        /\ Whole(slot[head], At(fslots))
    BY <1>1, SeekStart, HeadFull, RingTypes
  <1> HIDE DEF SeekOffset
  <1>4. d < fslots
    <2>1. d \in Int /\ fslots \in Int
      BY <1>0, <1>3
    <2>2. At(d) \in Int /\ At(fslots) \in Int
            /\ (fslots < d => At(d) + SlotSize <= At(fslots))
      BY <2>1, AtFacts
    <2>3. slot[head].offset = At(fslots)
      BY <1>3 DEF Whole
    <2>4. d # fslots
      BY <1>1, <1>2, <1>3 DEF Holds
    <2>5. ~(fslots < d)
      BY <1>0, <1>1, <1>2, <2>2, <2>3 DEF Holds
    <2> QED
      BY <2>1, <2>4, <2>5
  <1>5. ASSUME NEW m \in 1 .. NSlots - 1
        PROVE  Contains(slot[Forward(head, m)], SeekOffset) <=> m = fslots - d
    <2> DEFINE b == IF m < fslots THEN fslots - m ELSE NSlots + fslots - m
    <2>1. b \in 1 .. NSlots /\ (b = d <=> m = fslots - d)
      BY <1>0, <1>3, <1>4
    <2>2. Forward(head, m) = Backward(tail, b)
      BY <1>0, <1>3 DEF Forward, Backward, Slots
    <2> HIDE DEF b
    <2>3. Behind(Backward(tail, b)) = b /\ Backward(tail, b) \in Slots
      BY <1>0, <2>1, BehindBackward
    <2> QED
      BY <1>2, <2>1, <2>2, <2>3 DEF Holds
  <1>6. fslots - d \in 1 .. NSlots - 1
    BY <1>0, <1>3, <1>4
  <1>7. FutureDistances = {fslots - d}
    BY <1>5, <1>6 DEF FutureDistances
  <1>8. d \in 1 .. fslots - 1
    BY <1>0, <1>3, <1>4
  <1> QED
    BY <1>2, <1>7, <1>8

\* The search ahead ends at a slot that has the offset.
LEMMA SeekFutureRolls ==
  ASSUME TypeOK, HeldIsPop, RingInv, SeekFuture
  PROVE  \E d \in 1 .. NSlots : Holds(d, SeekOffset) /\ RolledTo(d)
  <1>1. SeekAhead /\ CanSeek /\ InRing
    BY DEF SeekFuture, SeekAhead
  <1>2. PICK d \in 1 .. fslots - 1 :
          Holds(d, SeekOffset) /\ FutureDistances = {fslots - d}
    BY <1>1, FutureIs
  <1>3. /\ head = Backward(tail, fslots) /\ Behind(head) = fslots
        /\ head \in Slots /\ tail \in Slots /\ fslots \in 1 .. NSlots
        /\ slot \in [Slots -> SlotType]
    BY <1>1, SeekStart, HeadFull, RingTypes
  <1>0. NSlots \in Nat \ {0}
    BY CacheAssumption
  <1> DEFINE target == Backward(tail, d)
             skipped == {Forward(head, e) : e \in 0 .. (fslots - d) - 1}
  <1>4. /\ \A i \in Slots :
             slot'[i] = IF i \in skipped THEN RolledForward(slot[i])
                        ELSE IF i = target THEN RolledBack(slot[i])
                        ELSE slot[i]
        /\ head' = target
    <2>1. Forward(head, fslots - d) = target
      BY <1>0, <1>3 DEF Forward, Backward, Slots
    <2>2. \E n \in {fslots - d} :
            /\ slot' = [i \in Slots |->
                          IF i \in {Forward(head, e) : e \in 0 .. n - 1}
                            THEN RolledForward(slot[i])
                          ELSE IF i = Forward(head, n) THEN RolledBack(slot[i])
                          ELSE slot[i]]
            /\ head' = Forward(head, n)
      BY <1>2 DEF SeekFuture
    <2>3. /\ slot' = [i \in Slots |->
                        IF i \in skipped THEN RolledForward(slot[i])
                        ELSE IF i = Forward(head, fslots - d)
                          THEN RolledBack(slot[i])
                        ELSE slot[i]]
          /\ head' = Forward(head, fslots - d)
      BY <2>2
    <2> HIDE DEF skipped, target
    <2> QED
      BY <2>1, <2>3
  <1>5. ASSUME NEW i \in Slots
        PROVE  i \in skipped <=> d < Behind(i) /\ Behind(i) <= fslots
    <2>1. Behind(i) \in 1 .. NSlots /\ Backward(tail, Behind(i)) = i
      BY <1>3, BehindIn
    <2>2. ASSUME NEW e \in 0 .. (fslots - d) - 1
          PROVE  Behind(Forward(head, e)) = fslots - e
      <3>1. Forward(head, e) = Backward(tail, fslots - e)
        BY <1>0, <1>3 DEF Forward, Backward, Slots
      <3>2. fslots - e \in 1 .. NSlots
        BY <1>0, <1>3
      <3> QED
        BY <1>3, <3>1, <3>2, BehindBackward
    <2>3. ASSUME i \in skipped
          PROVE  d < Behind(i) /\ Behind(i) <= fslots
      <3>1. PICK e \in 0 .. (fslots - d) - 1 : i = Forward(head, e)
        BY <2>3
      <3>2. Behind(i) = fslots - e
        BY <2>2, <3>1
      <3> QED
        BY <1>0, <1>3, <3>2
    <2>4. ASSUME d < Behind(i), Behind(i) <= fslots
          PROVE  i \in skipped
      <3>1. fslots - Behind(i) \in 0 .. (fslots - d) - 1
        BY <1>0, <1>3, <2>1, <2>4
      <3>2. Forward(head, fslots - Behind(i)) = Backward(tail, Behind(i))
        <4> DEFINE b == Behind(i)
        <4>1. b \in 1 .. NSlots /\ b <= fslots
          BY <2>1, <2>4
        <4> HIDE DEF b
        <4>2. Forward(head, fslots - b) = Backward(tail, b)
          BY <1>0, <1>3, <4>1 DEF Forward, Backward, Slots
        <4> QED
          BY <4>2 DEF b
      <3> QED
        BY <2>1, <3>1, <3>2
    <2> QED
      BY <2>3, <2>4
  <1>6. \A i \in Slots : slot[i].state = "FULL" <=> Behind(i) <= fslots
    BY DEF RingInv, Reading
  <1>7. Behind(target) = d /\ target \in Slots
    <2>1. d \in 1 .. NSlots
      BY <1>0, <1>3
    <2> QED
      BY <1>3, <2>1, BehindBackward
  <1> HIDE DEF target, skipped
  <1>8. ASSUME NEW i \in Slots
        PROVE  slot'[i].state = "FULL" <=> Behind(i) <= d
    <2>1. Behind(i) \in Int
      BY <1>3, BehindIn
    <2>2. CASE i \in skipped
      BY <1>4, <1>5, <2>1, <2>2, RollFull
    <2>3. CASE i = target
      BY <1>3, <1>4, <1>5, <1>6, <1>7, <2>1, <2>3, RollFull
    <2>4. CASE i \notin skipped /\ i # target
      BY <1>3, <1>4, <1>5, <1>6, <2>1, <2>4
    <2> QED
      BY <2>2, <2>3, <2>4
  <1>9. head' = Backward(tail, d)
    BY <1>4 DEF target
  <1>10. \A i \in Slots :
           slot'[i] \in {slot[i], RolledBack(slot[i]), RolledForward(slot[i])}
    BY <1>4
  <1>11. UNCHANGED <<tail, offsets, recording, mig, op, left>> /\ SeekDone
    BY DEF SeekFuture, migrator, call
  <1>12. d \in 1 .. NSlots
    BY <1>0, <1>3
  <1> QED
    BY <1>2, <1>8, <1>9, <1>10, <1>11, <1>12 DEF RolledTo

\* Behind the reader the slots can be rolled back as far as the one that has
\* the offset, where the search ends.
LEMMA PastIs ==
  ASSUME TypeOK, HeldIsPop, RingInv, SeekBehind
  PROVE  \E d \in fslots + 1 .. NSlots :
           /\ Holds(d, SeekOffset)
           /\ CanRollback(slot[Backward(tail, d)])
           /\ d - fslots \in PastDistances
           /\ \A m \in PastDistances : d - fslots <= m
  <1>1. CanSeek /\ InRing /\ SeekOffset < slot[head].offset
    BY DEF SeekBehind
  <1>0. /\ NSlots \in Nat \ {0} /\ SlotSize \in Nat \ {0}
        /\ tail \in Slots /\ SeekOffset \in Nat
    BY <1>1, SeekStart, RingTypes, CacheAssumption
  <1>2. PICK d \in 1 .. NSlots : Holds(d, SeekOffset)
    BY <1>1, SeekStart
  <1>3. /\ head = Backward(tail, fslots)
        /\ head \in Slots /\ fslots \in 1 .. NSlots
        /\ slot[head].offset = At(fslots)
    BY <1>1, SeekStart, HeadFull, RingTypes DEF Whole
  <1>n. /\ \A i \in Slots : slot[i].state # "POP"
        /\ ~Drained
    BY <1>1, SeekStart
  <1> HIDE DEF SeekOffset
  <1>4. fslots < d
    <2>1. d \in Int /\ fslots \in Int
      BY <1>0, <1>3
    <2>2. At(d) \in Int /\ At(fslots) \in Int
            /\ (d < fslots => At(fslots) + SlotSize <= At(d))
      BY <2>1, AtFacts
    <2>3. At(d) <= SeekOffset /\ SeekOffset < At(fslots)
      BY <1>1, <1>2, <1>3 DEF Holds
    <2>4. d # fslots
      BY <1>0, <2>2, <2>3
    <2> QED
      BY <1>0, <2>1, <2>2, <2>3, <2>4
  <1>5. ASSUME NEW e \in fslots .. d
        PROVE  CanRollback(slot[Backward(tail, e)])
    <2>1. e \in 1 .. NSlots /\ e \in Int
      BY <1>0, <1>3
    <2> DEFINE i == Backward(tail, e)
    <2>2. Behind(i) = e /\ i \in Slots
      BY <1>0, <2>1, BehindBackward
    <2> HIDE DEF i
    <2>3. At(e) >= 0
      <3>1. At(e) \in Int /\ At(d) \in Int
              /\ (e < d => At(d) + SlotSize <= At(e))
        BY <1>2, <2>1, AtFacts
      <3>2. At(d) >= 0
        BY <1>2 DEF Holds
      <3> QED
        BY <1>0, <2>1, <3>1, <3>2
    <2>4. ~(i = tail /\ TailFilled)
      <3>1. i = tail => e = NSlots
        BY <1>0, <2>2, BehindIn
      <3>2. e = NSlots => ~TailFilled
        BY <1>0, <1>2 DEF Holds
      <3> QED
        BY <3>1, <3>2
    <2>5. Whole(slot[i], At(e))
      <3>1. At(e) \in Int
        BY <2>1, AtFacts
      <3> QED
        BY <2>2, <2>3, <2>4, <3>1, SlotKinds DEF RingInv
    <2>6. slot[i].state # "POP"
      BY <1>n, <2>2
    <2> QED
      BY <2>5, <2>6 DEF Whole, CanRollback, i
  <1>6. ASSUME NEW m \in 1 .. NSlots, m <= d - fslots
        PROVE  m \in PastDistances <=> m = d - fslots
    <2>1. fslots + m \in fslots .. d /\ fslots + m \in 1 .. NSlots
            /\ m \in 0 .. NSlots - fslots /\ fslots \in 0 .. NSlots
      BY <1>0, <1>3, <1>4, <1>6
    <2>2. Backward(head, m) = Backward(tail, fslots + m)
      BY <1>0, <1>3, <2>1, BackwardBackward
    <2>3. CanRollback(slot[Backward(head, m)])
      BY <1>5, <2>1, <2>2
    <2>4. Contains(slot[Backward(head, m)], SeekOffset) <=> fslots + m = d
      <3>1. Behind(Backward(tail, fslots + m)) = fslots + m
              /\ Backward(tail, fslots + m) \in Slots
        BY <1>0, <2>1, BehindBackward
      <3> QED
        BY <1>2, <2>2, <3>1 DEF Holds
    <2>5. fslots + m = d <=> m = d - fslots
      BY <1>0, <1>3
    <2> QED
      BY <2>3, <2>4, <2>5 DEF PastDistances
  <1>7. d - fslots \in PastDistances
    <2>1. d - fslots \in 1 .. NSlots /\ d - fslots <= d - fslots
      BY <1>0, <1>3, <1>4
    <2> QED
      BY <1>6, <2>1
  <1>8. ASSUME NEW m \in PastDistances
        PROVE  d - fslots <= m
    <2>1. m \in 1 .. NSlots
      BY DEF PastDistances
    <2>2. m <= d - fslots => m = d - fslots
      BY <1>6, <2>1
    <2> QED
      BY <1>0, <1>3, <2>1, <2>2
  <1>9. CanRollback(slot[Backward(tail, d)])
    <2>1. d \in fslots .. d
      BY <1>3, <1>4
    <2> QED
      BY <1>5, <2>1
  <1>10. d \in fslots + 1 .. NSlots
    BY <1>0, <1>3, <1>4
  <1> QED
    BY <1>2, <1>7, <1>8, <1>9, <1>10

\* The search back ends at a slot that has the offset.
LEMMA SeekPastRolls ==
  ASSUME TypeOK, HeldIsPop, RingInv, SeekPast
  PROVE  \E d \in 1 .. NSlots : Holds(d, SeekOffset) /\ RolledTo(d)
  <1>1. SeekBehind /\ CanSeek /\ InRing
    BY DEF SeekPast, SeekBehind
  <1>0. NSlots \in Nat \ {0}
    BY CacheAssumption
  <1>2. PICK d \in fslots + 1 .. NSlots :
          /\ Holds(d, SeekOffset)
          /\ CanRollback(slot[Backward(tail, d)])
          /\ d - fslots \in PastDistances
          /\ \A m \in PastDistances : d - fslots <= m
    BY <1>1, PastIs
  <1>3. /\ head = Backward(tail, fslots)
        /\ head \in Slots /\ tail \in Slots /\ fslots \in 1 .. NSlots
        /\ slot \in [Slots -> SlotType]
    BY <1>1, SeekStart, HeadFull, RingTypes
  <1> DEFINE visited == {Backward(head, e) : e \in 0 .. d - fslots}
  <1>4. Backward(head, d - fslots) = Backward(tail, d)
    <2>1. d - fslots \in 0 .. NSlots - fslots /\ fslots + (d - fslots) = d
            /\ fslots \in 0 .. NSlots
      BY <1>0, <1>3
    <2> QED
      BY <1>3, <2>1, BackwardBackward
  <1>5. /\ \A i \in Slots :
             slot'[i] = IF i \in visited THEN RolledBack(slot[i]) ELSE slot[i]
        /\ head' = Backward(tail, d)
    <2>1. PICK n \in PastDistances :
            /\ \A m \in PastDistances : n <= m
            /\ slot' = [i \in Slots |->
                          IF i \in {Backward(head, e) : e \in 0 .. n}
                            THEN RolledBack(slot[i]) ELSE slot[i]]
            /\ head' = IF CanRollback(slot[Backward(head, n)])
                         THEN Backward(head, n)
                         ELSE NextSlot(Backward(head, n))
      BY DEF SeekPast
    <2>2. n = d - fslots
      <3>1. n \in 1 .. NSlots
        BY DEF PastDistances
      <3>2. n <= d - fslots /\ d - fslots <= n
        BY <1>2, <2>1
      <3> QED
        BY <1>0, <1>3, <3>1, <3>2
    <2>3. head' = Backward(tail, d)
      BY <1>2, <1>4, <2>1, <2>2
    <2> QED
      BY <2>1, <2>2, <2>3
  <1>6. ASSUME NEW i \in Slots
        PROVE  i \in visited <=> fslots <= Behind(i) /\ Behind(i) <= d
    <2>1. Behind(i) \in 1 .. NSlots /\ Backward(tail, Behind(i)) = i
      BY <1>3, BehindIn
    <2>2. ASSUME NEW e \in 0 .. d - fslots
          PROVE  /\ Backward(head, e) = Backward(tail, fslots + e)
                 /\ Behind(Backward(head, e)) = fslots + e
      <3>1. fslots + e \in 1 .. NSlots /\ e \in 0 .. NSlots - fslots
              /\ fslots \in 0 .. NSlots
        BY <1>0, <1>3
      <3>2. Backward(head, e) = Backward(tail, fslots + e)
        BY <1>3, <3>1, BackwardBackward
      <3> QED
        BY <1>3, <3>1, <3>2, BehindBackward
    <2>3. ASSUME i \in visited
          PROVE  fslots <= Behind(i) /\ Behind(i) <= d
      <3>1. PICK e \in 0 .. d - fslots : i = Backward(head, e)
        BY <2>3
      <3>2. Behind(i) = fslots + e
        BY <2>2, <3>1
      <3> QED
        BY <1>0, <1>3, <3>2
    <2>4. ASSUME fslots <= Behind(i), Behind(i) <= d
          PROVE  i \in visited
      <3>1. Behind(i) - fslots \in 0 .. d - fslots
              /\ fslots + (Behind(i) - fslots) = Behind(i)
        BY <1>0, <1>3, <2>1, <2>4
      <3>2. Backward(head, Behind(i) - fslots)
              = Backward(tail, fslots + (Behind(i) - fslots))
        BY <2>2, <3>1
      <3>3. Backward(head, Behind(i) - fslots) = i
        BY <2>1, <3>1, <3>2
      <3> QED
        BY <3>1, <3>3
    <2> QED
      BY <2>3, <2>4
  <1>7. \A i \in Slots : slot[i].state = "FULL" <=> Behind(i) <= fslots
    BY DEF RingInv, Reading
  <1> HIDE DEF visited
  <1>8. ASSUME NEW i \in Slots
        PROVE  slot'[i].state = "FULL" <=> Behind(i) <= d
    <2>1. Behind(i) \in 1 .. NSlots /\ Behind(i) \in Int
      BY <1>3, BehindIn
    <2>2. CASE i \in visited
      <3>1. CanRollback(slot[i])
        <4>1. CASE Behind(i) = fslots
          BY <1>3, <1>7, <4>1 DEF CanRollback
        <4>2. CASE Behind(i) # fslots
          <5>1. Behind(i) - fslots \in 1 .. NSlots
                  /\ Behind(i) - fslots <= d - fslots
            BY <1>0, <1>3, <1>6, <2>1, <2>2, <4>2
          <5>2. Backward(head, Behind(i) - fslots) = i
            <6>1. Behind(i) - fslots \in 0 .. NSlots - fslots
                    /\ fslots + (Behind(i) - fslots) = Behind(i)
                    /\ fslots \in 0 .. NSlots
              BY <1>0, <1>3, <2>1, <5>1
            <6>2. Backward(tail, Behind(i)) = i
              BY <1>3, BehindIn
            <6> QED
              BY <1>3, <6>1, <6>2, BackwardBackward
          <5>3. CASE Behind(i) = d
            <6>1. Backward(tail, d) = i
              BY <1>3, <5>3, BehindIn
            <6> QED
              BY <1>2, <6>1
          <5>4. CASE Behind(i) # d
            <6>1. ~(d - fslots <= Behind(i) - fslots)
              BY <1>0, <1>3, <2>1, <5>1, <5>4
            <6>2. Behind(i) - fslots \notin PastDistances
              BY <1>2, <6>1
            <6> QED
              BY <5>1, <5>2, <6>2 DEF PastDistances
          <5> QED
            BY <5>3, <5>4
        <4> QED
          BY <4>1, <4>2
      <3> QED
        BY <1>5, <1>6, <2>2, <3>1, RollFull DEF CanRollback
    <2>3. CASE i \notin visited
      BY <1>3, <1>5, <1>6, <1>7, <2>1, <2>3
    <2> QED
      BY <2>2, <2>3
  <1>9. \A i \in Slots :
          slot'[i] \in {slot[i], RolledBack(slot[i]), RolledForward(slot[i])}
    BY <1>5
  <1>10. UNCHANGED <<tail, offsets, recording, mig, op, left>> /\ SeekDone
    BY DEF SeekPast, migrator, call
  <1>11. d \in 1 .. NSlots
    BY <1>0, <1>3
  <1> QED
    BY <1>2, <1>5, <1>8, <1>9, <1>10, <1>11 DEF RolledTo

-----------------------------------------------------------------------------
(* Every step                                                              *)

\* The steps that leave the ring alone, when there is no file.
QuietKept ==
  /\ UNCHANGED <<ring, offsets>>
  /\ out' \in {out, NoBuffer}

\* What is said of the calls survives when the ring is left alone, a new call
\* is a push that fits, and a seek is not begun when the ring was emptied.
LEMMA CallKept ==
  ASSUME TypeOK, RingInv, UNCHANGED <<ring, offsets>>,
         UNCHANGED <<is_recording, mig>>,
         op' \in {"idle", "push", "join"},
         upstreamEos => upstreamEos', is_eos' => upstreamEos',
         op' = "push" => ~upstreamEos' /\ h_offset + left' <= MaxOffset,
         seek' = "flushing" => fslots > 0 \/ h_rb_offset = 0
  PROVE  Ended' /\ NoRecording'
  <1>1. Drained' <=> Drained
    BY DEF Drained, ring
  <1>2. NoRecording'
    BY DEF RingInv, NoRecording
  <1>3. Ended'
    BY <1>1 DEF RingInv, Ended, ring, offsets
  <1> QED
    BY <1>2, <1>3

\* A recording begins.
Begins == PushOverflow \/ ExplicitStart

\* Without a file none does.
LEMMA NeverBegins ==
  ASSUME RingOnly
  PROVE  ~Begins
  BY DEF RingOnly, Begins, HasFile, PushOverflow, ExplicitStart

\* What the actions in Quiet keep of the ring until a recording begins.
LEMMA QuietSteps ==
  ASSUME TypeOK, RingInv, Quiet, ~Begins,
         FullSeeks \/ fslots > 0 \/ h_rb_offset = 0
  PROVE  QuietKept /\ Ended' /\ NoRecording'
  <1>1. /\ ~is_recording /\ mig = "off" /\ op \in {"idle", "push", "join"}
        /\ is_eos => upstreamEos
        /\ op = "push" => ~upstreamEos /\ h_offset + left <= MaxOffset
        /\ seek = "flushing" => fslots > 0 \/ h_rb_offset = 0
    BY DEF RingInv, NoRecording, Ended
  <1>r. is_recording = FALSE
    BY <1>1 DEF TypeOK, FlagsOK
  <1>2. ~PushOverflow /\ ~ExplicitStart
    BY DEF Begins
  <1> USE DEF call, client, recording, migrator, QuietKept
  <1>3. CASE PushDrop \/ StopJoin \/ StopRecording
    <2>1. /\ UNCHANGED <<ring, offsets>> /\ UNCHANGED <<is_recording, mig>>
          /\ op' \in {"idle", "push", "join"} /\ op' # "push"
          /\ UNCHANGED <<upstreamEos, is_eos, seek, out>>
      <3>1. CASE PushDrop
        BY <1>1, <3>1 DEF PushDrop
      <3>2. CASE StopJoin
        BY <1>1, <1>r, <3>2 DEF StopJoin
      <3>3. CASE StopRecording
        BY <1>1, <3>3 DEF StopRecording
      <3> QED
        BY <1>3, <3>1, <3>2, <3>3
    <2> QED
      BY <1>1, <2>1, CallKept
  <1>4. CASE PushOverflow \/ PushSpill \/ Migrate \/ ExplicitStart
    BY <1>1, <1>2, <1>4
       DEF PushOverflow, PushSpill, ExplicitStart, Migrate, MigrateStart,
           MigrateSkip, MigrateSlot, MigrateAbort, MigrateFinish
  <1>5. ASSUME NEW n \in PushSizes, PushStart(n) \/ PushDisk(n)
        PROVE  QuietKept /\ Ended' /\ NoRecording'
    <2>1. /\ UNCHANGED <<ring, offsets>> /\ UNCHANGED <<is_recording, mig>>
          /\ op' = "push" /\ left' = n /\ ~upstreamEos
          /\ h_offset + n <= MaxOffset
          /\ UNCHANGED <<upstreamEos, is_eos, seek, out>>
      BY <1>1, <1>5 DEF PushStart, PushDisk, CanPush
    <2> QED
      BY <1>1, <2>1, CallKept
  <1>6. CASE Eos
    <2>1. /\ UNCHANGED <<ring, offsets>> /\ UNCHANGED <<is_recording, mig>>
          /\ op = "idle" /\ op' = op /\ upstreamEos' /\ is_eos'
          /\ UNCHANGED <<seek, out>>
      BY <1>6 DEF Eos
    <2> QED
      BY <1>1, <2>1, CallKept
  <1>7. CASE SeekFlush
    <2>1. /\ UNCHANGED <<ring, offsets>> /\ UNCHANGED <<is_recording, mig>>
          /\ op = "idle" /\ op' = op /\ (fslots > 0 \/ h_rb_offset = 0)
          /\ UNCHANGED <<upstreamEos, is_eos, out>>
      BY <1>2, <1>7 DEF SeekFlush, FullSeeks
    <2> QED
      BY <1>1, <2>1, CallKept
  <1>8. CASE SeekNothing
    <2>1. /\ UNCHANGED <<ring, offsets>> /\ UNCHANGED <<is_recording, mig>>
          /\ op = "idle" /\ op' = op /\ seek' = "none" /\ is_eos' = FALSE
          /\ upstreamEos' = upstreamEos /\ out' = NoBuffer
      BY <1>8 DEF SeekNothing, SeekDone, CanSeek
    <2> QED
      BY <1>1, <2>1, CallKept
  <1>9. CASE \E o \in SeekOffsets : SeekCheck(o)
    <2>1. /\ UNCHANGED <<ring, offsets>> /\ UNCHANGED <<is_recording, mig>>
          /\ op' = op /\ left' = left /\ seek' = "checked"
          /\ UNCHANGED <<upstreamEos, is_eos, out>>
      BY <1>9 DEF SeekCheck
    <2> QED
      BY <1>1, <2>1, CallKept
  <1>10. CASE Discard \/ SetAutoremove \/ UNCHANGED vars
    <2>1. /\ UNCHANGED <<ring, offsets>> /\ UNCHANGED <<is_recording, mig>>
          /\ op' = op /\ left' = left
          /\ UNCHANGED <<upstreamEos, is_eos, seek, out>>
      BY <1>10 DEF Discard, SetAutoremove, vars
    <2> QED
      BY <1>1, <2>1, CallKept
  <1> QED
    BY <1>3, <1>4, <1>5, <1>6, <1>7, <1>8, <1>9, <1>10 DEF Quiet

\* That is all the invariant speaks of.
LEMMA QuietRingKept ==
  ASSUME RingInv, QuietKept, Ended', NoRecording'
  PROVE  RingInv' /\ Going' = Going
  <1> USE DEF QuietKept, ring, offsets
  <1>1. (Drained' <=> Drained) /\ (TailFilled' <=> TailFilled)
    BY DEF Drained, TailFilled
  <1>2. Base' = Base
    BY <1>1 DEF Base
  <1>3. /\ \A i \in Slots : Behind(i)' = Behind(i)
        /\ \A d : At(d)' = At(d)
        /\ \A i \in Slots : At(Behind(i))' = At(Behind(i))
    BY <1>2 DEF Behind, At
  <1>4. Laid'
    BY <1>1, <1>2, <1>3 DEF RingInv, Laid, Whole
  <1>5. Reading'
    BY <1>1, <1>3 DEF RingInv, Reading
  <1>6. Lowest'
    BY <1>1, <1>3 DEF RingInv, Lowest
  <1>7. Going' = Going
    BY <1>1, <1>2 DEF Going, At
  <1> QED
    BY <1>4, <1>5, <1>6, <1>7 DEF RingInv

\* Without a file there is no refill and no seek into one.
LEMMA NoDisk ==
  ASSUME TypeOK, HeldIsPop, RingInv
  PROVE  ~ReloadSlot /\ ~ReloadStop /\ ~SeekDisk
  <1>1. op # "reload" /\ ~DiskUsable
    BY DEF RingInv, NoRecording, DiskUsable
  <1> QED
    BY <1>1 DEF ReloadSlot, ReloadStop, SeekDisk

\* Each seek ends at a slot that has the offset.
LEMMA SeekRolls ==
  ASSUME TypeOK, HeldIsPop, RingInv, SeekHead \/ SeekFuture \/ SeekPast
  PROVE  \E d \in 1 .. NSlots : Holds(d, SeekOffset) /\ RolledTo(d)
  BY SeekHeadRolls, SeekFutureRolls, SeekPastRolls

\* The invariant after a seek.
LEMMA SeekRing ==
  ASSUME TypeOK, HeldIsPop, RingInv, Accounting',
         SeekHead \/ SeekFuture \/ SeekPast
  PROVE  RingInv'
  <1>1. fslots > 0 /\ ~Drained
    BY SeekStart DEF SeekHead, SeekFuture, SeekAhead, SeekPast, SeekBehind
  <1> QED
    BY <1>1, SeekRolls, RolledRing

\* Every step keeps the invariant until a recording begins.
LEMMA RingStep ==
  ASSUME Bookkeeping, RingInv, [Next]_vars, ~Begins,
         FullSeeks \/ fslots > 0 \/ h_rb_offset = 0
  PROVE  RingInv'
  <1>1. TypeOK /\ HeldIsPop /\ Accounting'
    BY AccountingStep DEF Bookkeeping
  <1>2. CASE PushSlot
    BY <1>1, <1>2, PushFullRing, PushPartRing
  <1>3. CASE Pop
    BY <1>1, <1>3, PopKinds, PopFullRing, PopTailRing
  <1>4. CASE \E i \in Slots : Release(i)
    BY <1>1, <1>4, ReleaseRing
  <1>5. CASE SeekHead \/ SeekFuture \/ SeekPast
    BY <1>1, <1>5, SeekRing
  <1>6. CASE Quiet
    BY <1>1, <1>6, QuietSteps, QuietRingKept
  <1> QED
    BY <1>1, <1>2, <1>3, <1>4, <1>5, <1>6, Steps, NoDisk

\* A new ring: no slot was ever filled.
LEMMA RingInit ==
  ASSUME Init
  PROVE  RingInv
  <1>0. /\ NSlots \in Nat \ {0} /\ SlotSize \in Nat \ {0} /\ 0 \in Slots
        /\ MaxOffset \in Nat
    BY CacheAssumption DEF Slots
  <1>1. /\ slot = [i \in Slots |-> EmptySlot] /\ head = 0 /\ tail = 0
        /\ fslots = 0 /\ h_offset = 0 /\ l_rb_offset = 0 /\ h_rb_offset = 0
        /\ op = "idle" /\ ~is_eos /\ seek = "none" /\ ~is_recording
        /\ mig = "off"
    BY DEF Init
  <1>2. ~Drained /\ ~TailFilled
    BY <1>0, <1>1 DEF Drained, TailFilled, EmptySlot
  <1>3. Base = 0
    BY <1>1, <1>2 DEF Base
  <1>4. \A i \in Slots : Behind(i) \in 1 .. NSlots
    BY <1>0, <1>1, BehindIn
  <1>5. \A d \in 1 .. NSlots : At(d) < 0 /\ At(d) \in Int
    <2>1. ASSUME NEW d \in 1 .. NSlots PROVE At(d) < 0 /\ At(d) \in Int
      <3>1. d \in Int /\ 0 \in Int /\ 0 < d
        BY <1>0
      <3>2. 0 * SlotSize + SlotSize <= d * SlotSize /\ 0 * SlotSize = 0
              /\ d * SlotSize \in Int
        BY <1>0, <3>1, ProductsOrdered, Products
      <3> QED
        BY <1>0, <1>3, <3>2 DEF At
    <2> QED
      BY <2>1
  <1>6. Laid
    <2>1. 0 * SlotSize = 0 /\ 0 \in 0 .. Base
      BY <1>0, <1>3
    <2>2. \A i \in Slots : ~(At(Behind(i)) >= 0) /\ slot[i] = EmptySlot
      BY <1>1, <1>4, <1>5
    <2> QED
      BY <1>1, <1>2, <1>3, <2>1, <2>2 DEF Laid
  <1>7. Reading
    <2>1. \A i \in Slots : slot[i].state # "FULL" /\ ~(Behind(i) <= fslots)
      BY <1>0, <1>1, <1>4 DEF EmptySlot
    <2>2. Backward(0, 0) = 0
      BY DEF Backward
    <2> QED
      BY <1>0, <1>1, <1>2, <2>1, <2>2 DEF Reading
  <1>8. Lowest
    <2>1. NSlots \in 1 .. NSlots
      BY <1>0
    <2>2. Higher(0, At(NSlots)) = 0
      BY <1>5, <2>1 DEF Higher
    <2> QED
      BY <1>1, <1>2, <2>2 DEF Lowest
  <1>9. Ended /\ NoRecording
    BY <1>0, <1>1, <1>2 DEF Ended, NoRecording
  <1> QED
    BY <1>6, <1>7, <1>8, <1>9 DEF RingInv

\* The inductive invariant holds always.
LEMMA RingHolds ==
  ASSUME RingOnly
  PROVE  Spec => [](Bookkeeping /\ RingInv)
  <1>1. Init => Bookkeeping /\ RingInv
    BY BookkeepingInit, RingInit
  <1>2. Bookkeeping /\ RingInv /\ [Next]_vars => (Bookkeeping /\ RingInv)'
    BY BookkeepingStep, RingStep, NeverBegins DEF RingOnly
  <1> QED
    BY <1>1, <1>2, PTL DEF Spec

-----------------------------------------------------------------------------
(* The theorems                                                            *)

\* What is in a slot are the bytes from its offset on.
LEMMA SlotLabel ==
  ASSUME TypeOK, RingInv, NEW i \in Slots, slot[i].state # "EMPTY"
  PROVE  slot[i].data = Bytes(slot[i].offset, Len(slot[i].data))
  <1>1. CASE i = tail /\ TailFilled
    BY <1>1, TailFacts DEF RingInv
  <1>2. CASE Whole(slot[i], At(Behind(i)))
    <2>1. Behind(i) \in Int
      BY RingTypes, BehindIn, CacheAssumption
    <2>2. At(Behind(i)) \in Int
      BY <2>1, AtFacts
    <2> QED
      BY <1>2, <2>2, WholeFacts
  <1>3. slot[i] # EmptySlot
    BY DEF EmptySlot
  <1> QED
    BY <1>1, <1>2, <1>3, SlotKinds DEF RingInv

\* The number a byte carries is the one its slot's offset says, whatever has
\* been pushed, popped, returned, rewound and pushed over again.
THEOREM LabelsTrueAlways ==
  ASSUME RingOnly
  PROVE  Spec => []LabelsTrue
  <1>1. Bookkeeping /\ RingInv => LabelsTrue
    BY SlotLabel DEF Bookkeeping, LabelsTrue
  <1> QED
    BY <1>1, RingHolds, PTL

\* Every offset between the oldest one and the newest is in a slot.
THEOREM RingHasOffsetAlways ==
  ASSUME RingOnly
  PROVE  Spec => []RingHasOffset
  <1>1. ASSUME TypeOK, RingInv, NEW o \in l_rb_offset .. h_offset - 1
        PROVE  \E i \in Slots :
                 slot[i].state # "EMPTY" /\ Contains(slot[i], o)
    <2>0. /\ tail \in Slots /\ Base \in Nat /\ h_offset \in Nat
          /\ l_rb_offset \in Nat /\ o \in Int
          /\ l_rb_offset <= o /\ o < h_offset
      BY <1>1, RingTypes
    <2>1. CASE o < Base
      <3>1. PICK d \in 1 .. NSlots : Holds(d, o)
        BY <1>1, <2>0, <2>1, Holder
      <3>2. Behind(Backward(tail, d)) = d /\ Backward(tail, d) \in Slots
        BY <2>0, BehindBackward
      <3>3. Contains(slot[Backward(tail, d)], o)
        BY <3>1, <3>2 DEF Holds
      <3>4. slot[Backward(tail, d)].state # "EMPTY"
        <4>1. ~(Backward(tail, d) = tail /\ TailFilled)
          <5>1. Backward(tail, d) = tail => d = NSlots
            BY <2>0, <3>2, BehindIn
          <5> QED
            BY <3>1, <5>1 DEF Holds
        <4>2. At(d) >= 0 /\ At(d) \in Int
          <5>1. d \in Int
            BY CacheAssumption
          <5> QED
            BY <1>1, <3>1, <5>1, AtFacts DEF Holds
        <4>3. Whole(slot[Backward(tail, d)], At(d))
          BY <1>1, <3>2, <4>1, <4>2, SlotKinds DEF RingInv
        <4> QED
          BY <4>3 DEF Whole
      <3> QED
        BY <3>2, <3>3, <3>4
    <2>2. CASE ~(o < Base)
      <3>1. TailFilled
        BY <1>1, <2>0, <2>2 DEF RingInv, Laid
      <3>2. /\ slot[tail].state # "EMPTY" /\ slot[tail].offset = Base
            /\ SlotEnd(slot[tail]) = h_offset
        BY <1>1, <3>1, TailFacts DEF RingInv
      <3> QED
        BY <2>0, <2>2, <3>2 DEF Contains
    <2> QED
      BY <2>1, <2>2
  <1>2. Bookkeeping /\ RingInv => RingHasOffset
    BY <1>1 DEF Bookkeeping, RingHasOffset
  <1> QED
    BY <1>2, RingHolds, PTL

\* pop finds a full slot whenever the cache does not report itself empty.
THEOREM PopNullOnlyWhenEmptyAlways ==
  ASSUME RingOnly
  PROVE  Spec => []PopNullOnlyWhenEmpty
  <1>1. Bookkeeping /\ RingInv => PopNullOnlyWhenEmpty
    BY HeadFull DEF Bookkeeping, PopNullOnlyWhenEmpty
  <1> QED
    BY <1>1, RingHolds, PTL

\* The two search loops of a seek, which have no bound of their own, end.
THEOREM SearchEndsAlways ==
  ASSUME RingOnly
  PROVE  Spec => []SearchEnds
  <1>1. Bookkeeping /\ RingInv => SearchEnds
    BY FutureIs, PastIs DEF Bookkeeping, SearchEnds
  <1> QED
    BY <1>1, RingHolds, PTL

\* A seek to an offset in the ring leaves the head on the full slot with it.
THEOREM SeekLandsAlways ==
  ASSUME RingOnly
  PROVE  Spec => SeekLands
  <1> DEFINE Lands ==
        CanSeek /\ Seek /\ InRing /\ SeekOffset = want =>
          /\ slot'[head'].state = "FULL"
          /\ slot'[head'].offset <= want
          /\ want < slot'[head'].offset + Len(slot'[head'].data)
  <1>1. ASSUME Bookkeeping, RingInv, CanSeek, Seek, InRing, SeekOffset = want
        PROVE  /\ slot'[head'].state = "FULL"
               /\ slot'[head'].offset <= want
               /\ want < slot'[head'].offset + Len(slot'[head'].data)
    <2>1. SeekHead \/ SeekFuture \/ SeekPast
      BY <1>1 DEF Seek, SeekDisk, SeekNothing
    <2>2. TypeOK /\ HeldIsPop
      BY <1>1 DEF Bookkeeping
    <2>3. PICK d \in 1 .. NSlots : Holds(d, SeekOffset) /\ RolledTo(d)
      BY <1>1, <2>1, <2>2, SeekRolls
    <2>4. tail \in Slots /\ slot \in [Slots -> SlotType]
      BY <2>2, RingTypes
    <2>5. Behind(Backward(tail, d)) = d /\ Backward(tail, d) \in Slots
      BY <2>4, BehindBackward
    <2> DEFINE h == Backward(tail, d)
    <2>6. Contains(slot[h], want)
      BY <1>1, <2>3, <2>5 DEF Holds
    <2>7. d <= d
      BY CacheAssumption
    <2>8. slot'[h].state = "FULL" /\ head' = h
      BY <2>3, <2>5, <2>7 DEF RolledTo
    <2>9. slot[h] \in SlotType
            /\ slot'[h] \in
                 {slot[h], RolledBack(slot[h]), RolledForward(slot[h])}
      BY <2>3, <2>4, <2>5 DEF RolledTo
    <2> HIDE DEF h
    <2>10. slot'[h].offset = slot[h].offset /\ slot'[h].data = slot[h].data
      BY <2>9, RollKept
    <2> QED
      BY <2>6, <2>8, <2>10 DEF Contains, SlotEnd
  <1>2. Bookkeeping /\ RingInv /\ [Next]_vars => [Lands]_vars
    BY <1>1
  <1> QED
    BY <1>2, RingHolds, PTL DEF Spec, SeekLands

-----------------------------------------------------------------------------
(* The ring implements TimeShift                                           *)

\* A push forgets only what the reader is past.
LEMMA PushPromise ==
  ASSUME TypeOK, RingInv, PushSlot
  PROVE  /\ h_offset' > h_offset /\ l_rb_offset' >= l_rb_offset
         /\ l_rb_offset' <= Going
         /\ Going' = Going /\ out' = out
  <1>1. /\ Room \in Nat \ {0} /\ h_offset' = h_offset + Room
        /\ l_rb_offset <= l_rb_offset'
        /\ l_rb_offset' = Higher(0, At(NSlots - 1))
        /\ out' = out
    BY PushWrites
  <1>2. Going' = Going
    BY PushFullRing, PushPartRing
  <1>3. Going \in Nat /\ Going = At(fslots) /\ fslots \in 0 .. NSlots - 1
    BY GoingBetween, PushFinds, TailNotFull DEF Going
  <1>4. h_offset \in Nat /\ l_rb_offset \in Nat /\ NSlots \in Nat \ {0}
          /\ SlotSize \in Nat \ {0}
    BY RingTypes, CacheAssumption
  <1>5. At(NSlots - 1) \in Int /\ At(NSlots - 1) <= Going
    <2>1. fslots \in Int /\ NSlots - 1 \in Int
      BY <1>3, <1>4
    <2>2. At(NSlots - 1) \in Int
            /\ (fslots < NSlots - 1 => At(NSlots - 1) + SlotSize <= At(fslots))
      BY <2>1, AtFacts
    <2> QED
      BY <1>3, <1>4, <2>1, <2>2
  <1>6. l_rb_offset' <= Going /\ l_rb_offset' \in Nat
    BY <1>1, <1>3, <1>5 DEF Higher
  <1> QED
    BY <1>1, <1>2, <1>4, <1>6

\* A pop delivers what follows.
LEMMA PopPromise ==
  ASSUME TypeOK, RingInv, Pop
  PROVE  /\ Going' > Going /\ Going' <= h_offset
         /\ out'.offset = Going
         /\ out'.data = Bytes(Going, Going' - Going)
         /\ UNCHANGED <<h_offset, l_rb_offset>>
  <1>1. /\ out'.offset = slot[head].offset /\ out'.data = slot[head].data
        /\ UNCHANGED <<h_offset, l_rb_offset>>
    BY PopKinds DEF Pops
  <1>2. Going \in Nat /\ h_offset \in Nat /\ SlotSize \in Nat \ {0}
    BY GoingBetween, RingTypes, CacheAssumption
  <1>3. CASE PopsFull
    <2>1. /\ Going = slot[head].offset /\ Going' = Going + SlotSize
          /\ Going' <= h_offset /\ slot[head].data = Bytes(Going, SlotSize)
      BY <1>3, PopKinds, PopFullRing
    <2>2. Going' - Going = SlotSize
      BY <1>2, <2>1
    <2> QED
      BY <1>1, <1>2, <2>1, <2>2
  <1>4. CASE PopsTail
    <2>1. /\ Going = slot[head].offset /\ Going' = h_offset
          /\ Going < Going'
          /\ slot[head].data = Bytes(Going, Going' - Going)
      BY <1>4, PopKinds, PopTailRing
    <2> QED
      BY <1>1, <1>2, <2>1
  <1> QED
    BY <1>3, <1>4, PopKinds

\* A seek moves the reader within the window.
LEMMA SeekPromise ==
  ASSUME TypeOK, HeldIsPop, RingInv, Accounting', RingInv', TypeOK',
         SeekHead \/ SeekFuture \/ SeekPast
  PROVE  /\ Going' >= l_rb_offset /\ Going' <= h_offset
         /\ out' = NoBuffer
         /\ UNCHANGED <<h_offset, l_rb_offset>>
  <1>1. fslots > 0 /\ ~Drained
    BY SeekStart DEF SeekHead, SeekFuture, SeekAhead, SeekPast, SeekBehind
  <1>2. PICK d \in 1 .. NSlots : Holds(d, SeekOffset) /\ RolledTo(d)
    BY SeekRolls
  <1>3. Going' = At(d)
    BY <1>1, <1>2, RolledRing
  <1>4. UNCHANGED <<h_offset, l_rb_offset>> /\ out' = NoBuffer
    BY <1>2 DEF RolledTo, SeekDone, offsets
  <1>5. /\ d \in Int /\ NSlots \in Nat \ {0} /\ SlotSize \in Nat \ {0}
        /\ Base \in Nat /\ h_offset \in Nat /\ l_rb_offset \in Nat
        /\ Base <= h_offset
    BY CacheAssumption, RingTypes, TailFacts DEF RingInv, Laid
  <1>6. At(d) \in Int /\ At(d) <= Base
    <2>1. 0 < d /\ 0 \in Int
      BY <1>5
    <2>2. At(d) \in Int /\ At(d) + SlotSize <= At(0) /\ At(0) = Base
      BY <1>5, <2>1, AtFacts
    <2> QED
      BY <1>5, <2>2
  <1>7. l_rb_offset <= At(d)
    <2> DEFINE low == IF TailFilled THEN NSlots - 1 ELSE NSlots
    <2>1. low \in Int /\ d <= low
      BY <1>2, <1>5 DEF Holds
    <2>2. l_rb_offset = Higher(0, At(low))
      BY DEF RingInv, Lowest
    <2> HIDE DEF low
    <2>3. At(low) \in Int /\ (d < low => At(low) + SlotSize <= At(d))
      BY <1>5, <2>1, AtFacts
    <2>4. At(d) >= 0
      BY <1>2 DEF Holds
    <2> QED
      BY <1>5, <1>6, <2>1, <2>2, <2>3, <2>4 DEF Higher
  <1> QED
    BY <1>3, <1>4, <1>5, <1>6, <1>7

\* The buffer that was delivered last, as TimeShift sees it.
Delivered == [offset |-> out.offset, data |-> out.data]
promised == <<h_offset, l_rb_offset, NextOffset, Delivered>>

\* A step that moves the reader as Going moves keeps the promise.
LEMMA PromiseStep ==
  ASSUME RingOnly, Bookkeeping, RingInv, Bookkeeping', RingInv',
         NextOffset' = Going', [Next]_vars
  PROVE  [Promise!Next]_promised
  <1>0. TypeOK /\ HeldIsPop /\ Accounting' /\ TypeOK'
    BY DEF Bookkeeping
  <1>n. NextOffset = Going
    BY <1>0, NextIs
  <1> HIDE DEF NextOffset
  <1>1. CASE PushSlot
    <2>1. Promise!Write
      BY <1>0, <1>1, <1>n, PushPromise DEF Promise!Write
    <2> QED
      BY <2>1 DEF Promise!Next
  <1>2. CASE Pop
    <2>1. Promise!Deliver
      BY <1>0, <1>2, <1>n, PopPromise DEF Promise!Deliver, Bytes
    <2> QED
      BY <2>1 DEF Promise!Next
  <1>3. CASE SeekHead \/ SeekFuture \/ SeekPast
    <2>1. Promise!Jump
      BY <1>0, <1>3, <1>n, SeekPromise
         DEF Promise!Jump, Promise!Nothing, NoBuffer, NoOffset
    <2> QED
      BY <2>1 DEF Promise!Next
  <1>4. CASE \E i \in Slots : Release(i)
    <2>1. Going' = Going
      BY <1>0, <1>4, ReleaseRing
    <2>2. UNCHANGED <<h_offset, l_rb_offset, out>>
      BY <1>4 DEF Release, offsets
    <2> QED
      BY <1>n, <2>1, <2>2 DEF promised, Delivered
  <1>5. CASE Quiet
    <2>1. /\ Going' = Going /\ UNCHANGED <<h_offset, l_rb_offset>>
          /\ out' \in {out, NoBuffer}
      BY <1>0, <1>5, NeverBegins, QuietSteps, QuietRingKept
         DEF RingOnly, QuietKept, offsets
    <2>2. CASE out' = out
      BY <1>n, <2>1, <2>2 DEF promised, Delivered
    <2>3. CASE out' = NoBuffer
      <3>1. Promise!Jump
        BY <1>0, <1>n, <2>1, <2>3, GoingBetween
           DEF Promise!Jump, Promise!Nothing, NoBuffer, NoOffset
      <3> QED
        BY <3>1 DEF Promise!Next
    <2> QED
      BY <2>1, <2>2, <2>3
  <1> QED
    BY <1>0, <1>1, <1>2, <1>3, <1>4, <1>5, Steps, NoDisk

\* The ring implements TimeShift, whatever the number of slots, their size and
\* the buffers pushed: an unread byte is never overwritten, every byte is
\* delivered in order and under its own offset, and a seek stays in the window.
THEOREM KeepsItsPromise ==
  ASSUME RingOnly
  PROVE  Spec => KeepsPromise
  <1>1. Init => Promise!Init
    BY CacheAssumption
       DEF Init, Promise!Init, Promise!Nothing, NextOffset, EmptySlot,
           NoBuffer, NoOffset, Slots
  <1>2. Bookkeeping /\ RingInv => NextOffset = Going
    BY NextIs DEF Bookkeeping
  <1>3. (Bookkeeping /\ RingInv)' => (NextOffset = Going)'
    BY <1>2, PTL
  <1>4. /\ Bookkeeping /\ RingInv /\ (Bookkeeping /\ RingInv)'
        /\ [Next]_vars
        => [Promise!Next]_promised
    BY <1>3, PromiseStep
  <1>5. Spec => [](Bookkeeping /\ RingInv)
    BY RingHolds
  <1>6. Spec => Promise!Init /\ [][Promise!Next]_promised
    BY <1>1, <1>4, <1>5, PTL DEF Spec
  <1> QED
    BY <1>6 DEF KeepsPromise, Promise!Spec, promised, Delivered

=============================================================================

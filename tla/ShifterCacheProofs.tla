------------------------- MODULE ShifterCacheProofs -------------------------
(***************************************************************************)
(* Theorems about ShifterCache, for every value of its constants.          *)
(***************************************************************************)
EXTENDS ShifterCache, FiniteSetTheorems, SequenceTheorems, TLAPS

-----------------------------------------------------------------------------
(* The operators the model is built from                                   *)

\* Counting slots forward stays in the ring.
LEMMA ForwardIn ==
  ASSUME NEW i \in Slots, NEW d \in 0 .. NSlots
  PROVE  Forward(i, d) \in Slots
  BY CacheAssumption DEF Forward, Slots

\* Counting slots backward stays in the ring.
LEMMA BackwardIn ==
  ASSUME NEW i \in Slots, NEW d \in 0 .. NSlots
  PROVE  Backward(i, d) \in Slots
  BY CacheAssumption DEF Backward, Slots

\* The slot after the last is the first.
LEMMA NextSlotIn ==
  ASSUME NEW i \in Slots
  PROVE  NextSlot(i) \in Slots
  BY CacheAssumption, ForwardIn DEF NextSlot

\* Going forward by different distances leads to different slots.
LEMMA ForwardInjective ==
  ASSUME NEW i \in Slots, NEW d \in 0 .. NSlots - 1, NEW e \in 0 .. NSlots - 1,
         Forward(i, d) = Forward(i, e)
  PROVE  d = e
  BY CacheAssumption DEF Forward, Slots

\* The lower of two numbers is neither above the one nor the other.
LEMMA LowerType ==
  ASSUME NEW a \in Nat, NEW b \in Nat
  PROVE  Lower(a, b) \in Nat /\ Lower(a, b) <= a /\ Lower(a, b) <= b
  BY DEF Lower

\* As many bytes as were asked for.
LEMMA BytesType ==
  ASSUME NEW from \in Int, NEW n \in Nat
  PROVE  Bytes(from, n) \in Seq(Int) /\ Len(Bytes(from, n)) = n
  BY DEF Bytes

\* A file that is written stays a file.
LEMMA WriteAtType ==
  ASSUME NEW f \in Seq(Int), NEW pos \in Int, NEW d \in Seq(Int)
  PROVE  WriteAt(f, pos, d) \in Seq(Int)
  <1> DEFINE n == Higher(Len(f), pos + Len(d))
  <1>1. n \in Nat
    BY DEF Higher
  <1>2. \A i \in 1 .. n : WriteAt(f, pos, d)[i] \in Int
    BY <1>1 DEF WriteAt, Hole
  <1> QED
    BY <1>1, <1>2 DEF WriteAt

\* The bits that g_bit_storage counts, 1 or more.
LEMMA BitStorageType ==
  ASSUME NEW n \in Int
  PROVE  BitStorage(n) \in Nat /\ BitStorage(n) > 0
  <1>1. IsFiniteSet(1 .. n)
    BY FS_Interval
  <1>2. IsFiniteSet({b \in 1 .. n : 2^b <= n})
    BY <1>1, FS_Subset
  <1> QED
    BY <1>2, FS_CardinalityType DEF BitStorage

\* Subtraction of gsize never gives less than 0.
LEMMA MinusType ==
  ASSUME NEW a \in Int, NEW b \in Int
  PROVE  Minus(a, b) \in Nat
  BY CacheAssumption DEF Minus

\* Bytes appended to bytes.
LEMMA ConcatType ==
  ASSUME NEW a \in Seq(Int), NEW b \in Seq(Int)
  PROVE  a \o b \in Seq(Int) /\ Len(a \o b) = Len(a) + Len(b)
  BY ConcatProperties

\* A read inside the file returns all the bytes it was asked for.
LEMMA SubSeqInt ==
  ASSUME NEW f \in Seq(Int), NEW p \in Nat, NEW k \in Nat, p + k <= Len(f)
  PROVE  /\ SubSeq(f, p + 1, p + k) \in Seq(Int)
         /\ Len(SubSeq(f, p + 1, p + k)) = k
  <1>1. \A i \in p + 1 .. p + k : f[i] \in Int
    BY ElementOfSeq
  <1> QED
    BY <1>1, SubSeqProperties

-----------------------------------------------------------------------------
(* Slots                                                                   *)

\* Recycling a slot drops bytes and adds none.
LEMMA RecycledType ==
  ASSUME NEW s \in SlotType
  PROVE  Recycled(s) \in SlotType /\ Len(Recycled(s).data) <= Len(s.data)
  BY CacheAssumption DEF Recycled, SlotType, EmptySlot, States

\* A seek over a slot changes its state only.
LEMMA RolledType ==
  ASSUME NEW s \in SlotType
  PROVE  /\ RolledBack(s) \in SlotType /\ RolledForward(s) \in SlotType
         /\ RolledBack(s).data = s.data /\ RolledForward(s).data = s.data
  BY DEF RolledBack, RolledForward, SlotType, States

\* A slot ends at an offset.
LEMMA SlotEndType ==
  ASSUME NEW s \in SlotType
  PROVE  SlotEnd(s) \in Nat
  BY DEF SlotEnd, SlotType

\* Recycling a slot moves the low end to an offset.
LEMMA LowType ==
  ASSUME NEW s \in SlotType, l_rb_offset \in Nat
  PROVE  LowAfterRecycle(s) \in Nat
  BY SlotEndType DEF LowAfterRecycle

-----------------------------------------------------------------------------
(* Type correctness                                                        *)

\* The cache as it is made.
LEMMA InitType == Init => TypeOK
  <1> SUFFICES ASSUME Init PROVE TypeOK
    OBVIOUS
  <1>1. EmptySlot \in SlotType /\ Len(EmptySlot.data) <= SlotSize
    BY CacheAssumption DEF EmptySlot, SlotType, States
  <1>2. SlotsOK
    BY <1>1 DEF Init, SlotsOK
  <1>3. PlacesOK
    BY CacheAssumption DEF Init, PlacesOK, Slots, NoSlot
  <1>4. NumbersOK
    BY CacheAssumption DEF Init, NumbersOK
  <1>5. FlagsOK
    BY DEF Init, FlagsOK
  <1>6. ProgressOK
    BY DEF Init, ProgressOK
  <1>7. OutOK
    BY DEF Init, OutOK, NoBuffer
  <1> QED
    BY <1>2, <1>3, <1>4, <1>5, <1>6, <1>7 DEF TypeOK

\* What a call to the disk leaves.
LEMMA DiskWriteType ==
  ASSUME TypeOK, NEW n \in Nat, DiskWrite(n)
  PROVE  /\ file' \in Seq(Int) /\ w_dk_pos' \in Int
         /\ h_offset' \in Nat /\ h_dk_offset' \in Nat
  <1> USE DEF TypeOK, NumbersOK
  <1>1. CASE /\ file' = WriteAt(file, w_dk_pos, Bytes(h_offset, n))
             /\ w_dk_pos' = w_dk_pos + n
             /\ h_offset' = h_offset + n
             /\ h_dk_offset' = h_offset'
    <2>1. Bytes(h_offset, n) \in Seq(Int)
      BY BytesType
    <2>2. file' \in Seq(Int)
      BY <1>1, <2>1, WriteAtType
    <2> QED
      BY <1>1, <2>2
  <1>2. CASE /\ h_offset' \in {h_offset, h_offset + n}
             /\ h_dk_offset' = IF h_offset' = h_offset THEN h_dk_offset
                                                       ELSE h_offset'
             /\ UNCHANGED <<file, w_dk_pos>>
    BY <1>2
  <1> QED
    BY <1>1, <1>2 DEF DiskWrite

\* Start of a recording, which push, seek and the application use.
LEMMA StartRecordingType ==
  ASSUME TypeOK, StartRecording
  PROVE  /\ m_dk_offset' \in Nat /\ l_dk_offset' \in Nat /\ w_dk_pos' \in Int
         /\ is_recording' \in BOOLEAN /\ thread' \in BOOLEAN
         /\ refcount' \in Int
         /\ mig' \in {"off", "new", "run", "done"}
         /\ migLeft' \in Nat /\ migSlot' \in Slots
         /\ (mig' \in {"new", "run"} => thread')
  <1> USE DEF TypeOK, NumbersOK, PlacesOK, FlagsOK, ProgressOK, StartRecording
  <1>1. CASE thread \/ stop_recording
    BY <1>1 DEF migrator
  <1>2. CASE ~(thread \/ stop_recording)
    <2>1. 0 \in Slots /\ NSlots \in Nat
      BY CacheAssumption DEF Slots
    <2> QED
      BY <1>2, <2>1
  <1> QED
    BY <1>1, <1>2

\* Start of the loop that refills the ring.
LEMMA StartReloadType ==
  ASSUME NEW d, NEW n \in Int, StartReload(d, n)
  PROVE  op' = "reload" /\ drain' = d /\ left' \in Nat /\ left' > 0
  BY CacheAssumption, BitStorageType DEF StartReload

\* A read from the file fits the slot it is for.
LEMMA ReadSizeType ==
  ASSUME TypeOK
  PROVE  ReadSize \in Nat /\ ReadSize <= SlotSize
  BY CacheAssumption, MinusType DEF ReadSize, Lower, TypeOK, NumbersOK

\* A slot refilled from the file is not longer than a slot.
LEMMA ReloadSlotType ==
  ASSUME TypeOK, ReloadSlot
  PROVE  TypeOK'
  <1> USE DEF TypeOK, ring, offsets, disk, recording, migrator, call, client
  <1>a. ReadSize \in Nat /\ ReadSize <= SlotSize
    BY ReadSizeType
  <1>b. Refilled \in SlotType /\ Len(Refilled.data) <= SlotSize
    <2> DEFINE d == SubSeq(file, r_dk_pos + 1, r_dk_pos + ReadSize)
    <2>1. r_dk_pos \in Nat /\ file \in Seq(Int) /\ h_rb_offset \in Nat
      BY DEF NumbersOK
    <2>2. r_dk_pos + ReadSize <= Len(file)
      BY DEF ReloadSlot, CanRead
    <2>3. d \in Seq(Int) /\ Len(d) = ReadSize
      BY <1>a, <2>1, <2>2, SubSeqInt
    <2> QED
      BY <1>a, <2>1, <2>3 DEF Refilled, SlotType, States
  <1>c. LowAfterRecycle(slot[tail]) \in Nat
    BY LowType DEF SlotsOK, PlacesOK, NumbersOK
  <1>1. SlotsOK'
    BY <1>a, <1>b DEF ReloadSlot, SlotsOK, SlotType, States
  <1>2. PlacesOK'
    BY NextSlotIn DEF ReloadSlot, PlacesOK
  <1>3. NumbersOK'
    BY <1>a, <1>c DEF ReloadSlot, NumbersOK
  <1>4. FlagsOK'
    BY DEF ReloadSlot, FlagsOK
  <1>5. ProgressOK'
    BY DEF ReloadSlot, ProgressOK
  <1>6. OutOK'
    BY DEF ReloadSlot, OutOK
  <1> QED
    BY <1>1, <1>2, <1>3, <1>4, <1>5, <1>6

\* The refill that ends recycles the tail once more.
LEMMA ReloadStopType ==
  ASSUME TypeOK, ReloadStop
  PROVE  TypeOK'
  <1> USE DEF TypeOK, ring, offsets, disk, recording, migrator, call, client
  <1>a. /\ Recycled(slot[tail]) \in SlotType
        /\ Len(Recycled(slot[tail]).data) <= SlotSize
    BY RecycledType, CacheAssumption DEF SlotsOK, PlacesOK, SlotType
  <1>b. LowAfterRecycle(slot[tail]) \in Nat
    BY LowType DEF SlotsOK, PlacesOK, NumbersOK
  <1>1. SlotsOK'
    BY <1>a DEF ReloadStop, SlotsOK
  <1>2. NumbersOK'
    BY <1>b DEF ReloadStop, NumbersOK
  <1>3. PlacesOK'
    BY DEF ReloadStop, PlacesOK
  <1>4. FlagsOK'
    BY DEF ReloadStop, FlagsOK
  <1>5. ProgressOK'
    BY DEF ReloadStop, ProgressOK
  <1>6. OutOK'
    BY DEF ReloadStop, OutOK
  <1> QED
    BY <1>1, <1>2, <1>3, <1>4, <1>5, <1>6

\* What a push copies fits the rest of the tail slot.
LEMMA PushSlotType ==
  ASSUME TypeOK, PushSlot
  PROVE  TypeOK'
  <1> USE DEF TypeOK, ring, offsets, disk, recording, migrator, call, client
  <1> DEFINE t == Recycled(slot[tail])
             n == Lower(SlotSize - Len(t.data), left)
             d == t.data \o Bytes(h_offset, n)
             s == [state  |-> IF Len(d) = SlotSize THEN "FULL" ELSE "PART",
                   offset |-> h_rb_offset,
                   data   |-> d]
  <1>t. t \in SlotType /\ Len(t.data) \in Nat /\ Len(t.data) <= SlotSize
    BY RecycledType, CacheAssumption DEF SlotsOK, PlacesOK, SlotType
  <1>a. n \in Nat /\ n <= left /\ Len(t.data) + n <= SlotSize
    <2>1. left \in Nat
      BY DEF ProgressOK
    <2>2. SlotSize - Len(t.data) \in Nat /\ SlotSize \in Nat
      BY <1>t, CacheAssumption
    <2> HIDE DEF t
    <2>3. n \in Nat /\ n <= SlotSize - Len(t.data) /\ n <= left
      BY <2>1, <2>2, LowerType
    <2> QED
      BY <1>t, <2>3, CacheAssumption
  <1>o. h_offset \in Nat /\ h_rb_offset \in Nat
    BY DEF NumbersOK
  <1>b. s \in SlotType /\ Len(s.data) <= SlotSize
    <2> HIDE DEF t, n
    <2>1. Bytes(h_offset, n) \in Seq(Int) /\ Len(Bytes(h_offset, n)) = n
      BY <1>a, <1>o, BytesType
    <2>2. d \in Seq(Int) /\ Len(d) = Len(t.data) + n
      BY <1>t, <2>1, ConcatType DEF SlotType
    <2> HIDE DEF d
    <2> QED
      BY <1>a, <1>o, <2>2 DEF SlotType, States
  <1>c. LowAfterRecycle(slot[tail]) \in Nat
    BY LowType DEF SlotsOK, PlacesOK, NumbersOK
  <1>d. /\ l_rb_offset' = LowAfterRecycle(slot[tail])
        /\ h_offset' = h_offset + n
        /\ h_rb_offset' \in {h_rb_offset, h_rb_offset + SlotSize}
        /\ fslots' \in {fslots, fslots + 1}
        /\ UNCHANGED <<disk, refcount>>
    BY DEF PushSlot
  <1>1. SlotsOK'
    BY <1>a, <1>b DEF PushSlot, SlotsOK
  <1>2. PlacesOK'
    BY NextSlotIn DEF PushSlot, PlacesOK
  <1>3. NumbersOK'
    BY <1>a, <1>c, <1>d, CacheAssumption DEF NumbersOK
  <1>4. ProgressOK'
    BY <1>a DEF PushSlot, ProgressOK
  <1>5. FlagsOK'
    BY DEF PushSlot, FlagsOK
  <1>6. OutOK'
    BY DEF PushSlot, OutOK
  <1> QED
    BY <1>1, <1>2, <1>3, <1>4, <1>5, <1>6

\* A push that finds the ring full starts the recording.
LEMMA PushOverflowType ==
  ASSUME TypeOK, PushOverflow
  PROVE  TypeOK'
  <1> USE DEF TypeOK, ring, offsets, disk, recording, migrator, call, client
  <1>1. PlacesOK'
    BY StartRecordingType DEF PushOverflow, PlacesOK
  <1>2. NumbersOK'
    BY StartRecordingType DEF PushOverflow, NumbersOK
  <1>3. FlagsOK'
    BY StartRecordingType DEF PushOverflow, FlagsOK
  <1>4. ProgressOK'
    BY StartRecordingType DEF PushOverflow, ProgressOK
  <1>5. SlotsOK'
    BY DEF PushOverflow, SlotsOK
  <1>6. OutOK'
    BY DEF PushOverflow, OutOK
  <1> QED
    BY <1>1, <1>2, <1>3, <1>4, <1>5, <1>6

\* A push that goes on in the file.
LEMMA PushSpillType ==
  ASSUME TypeOK, PushSpill
  PROVE  TypeOK'
  <1> USE DEF TypeOK, ring, offsets, disk, recording, migrator, call, client
  <1>a. /\ file' \in Seq(Int) /\ w_dk_pos' \in Int
        /\ h_offset' \in Nat /\ h_dk_offset' \in Nat
    BY DiskWriteType DEF PushSpill, ProgressOK
  <1>1. NumbersOK'
    BY <1>a DEF PushSpill, NumbersOK
  <1>2. SlotsOK'
    BY DEF PushSpill, SlotsOK
  <1>3. PlacesOK'
    BY DEF PushSpill, PlacesOK
  <1>4. FlagsOK'
    BY DEF PushSpill, FlagsOK
  <1>5. ProgressOK'
    BY DEF PushSpill, ProgressOK
  <1>6. OutOK'
    BY DEF PushSpill, OutOK
  <1> QED
    BY <1>1, <1>2, <1>3, <1>4, <1>5, <1>6

\* A push to the file only.
LEMMA PushDiskType ==
  ASSUME TypeOK, NEW n \in PushSizes, PushDisk(n)
  PROVE  TypeOK'
  <1> USE DEF TypeOK, ring, offsets, disk, recording, migrator, call, client
  <1>a. /\ file' \in Seq(Int) /\ w_dk_pos' \in Int
        /\ h_offset' \in Nat /\ h_dk_offset' \in Nat
    BY DiskWriteType, CacheAssumption DEF PushDisk
  <1>b. \/ UNCHANGED <<op, left, drain>>
        \/ op' = "reload" /\ drain' \in BOOLEAN /\ left' \in Nat /\ left' > 0
    <2>1. CASE StartReload(FALSE, 0)
      <3>1. op' = "reload" /\ drain' = FALSE /\ left' \in Nat /\ left' > 0
        BY <2>1, BitStorageType, CacheAssumption DEF StartReload
      <3> QED
        BY <3>1
    <2>2. CASE UNCHANGED <<op, left, drain>>
      BY <2>2
    <2> QED
      BY <2>1, <2>2 DEF PushDisk
  <1>1. NumbersOK'
    BY <1>a DEF PushDisk, NumbersOK
  <1>2. FlagsOK'
    BY <1>b DEF PushDisk, FlagsOK
  <1>3. ProgressOK'
    BY <1>b DEF PushDisk, ProgressOK
  <1>4. SlotsOK'
    BY DEF PushDisk, SlotsOK
  <1>5. PlacesOK'
    BY DEF PushDisk, PlacesOK
  <1>6. OutOK'
    BY DEF PushDisk, OutOK
  <1> QED
    BY <1>1, <1>2, <1>3, <1>4, <1>5, <1>6

\* A push that begins.
LEMMA PushStartType ==
  ASSUME TypeOK, NEW n \in PushSizes, PushStart(n)
  PROVE  TypeOK'
  <1> USE DEF TypeOK, ring, offsets, disk, recording, migrator, call, client
  <1>1. ProgressOK'
    BY CacheAssumption DEF PushStart, ProgressOK
  <1>2. SlotsOK'
    BY DEF PushStart, SlotsOK
  <1>3. PlacesOK'
    BY DEF PushStart, PlacesOK
  <1>4. NumbersOK'
    BY DEF PushStart, NumbersOK
  <1>5. FlagsOK'
    BY DEF PushStart, FlagsOK
  <1>6. OutOK'
    BY DEF PushStart, OutOK
  <1> QED
    BY <1>1, <1>2, <1>3, <1>4, <1>5, <1>6


\* A pop takes the slot at the head and moves on, or stays.
LEMMA PopType ==
  ASSUME TypeOK, Pop
  PROVE  TypeOK'
  <1> USE DEF TypeOK, ring, offsets, disk, recording, migrator, call, client
  <1>s. /\ slot[head] \in SlotType
        /\ \A q \in SlotType : [q EXCEPT !.state = "POP"] \in SlotType
    BY DEF SlotsOK, PlacesOK, SlotType, States
  <1>e. SlotEnd(slot[head]) \in Nat
    BY <1>s, SlotEndType
  <1>r. \/ UNCHANGED <<op, left, drain>>
        \/ op' = "reload" /\ drain' = is_eos /\ left' \in Nat /\ left' > 0
    <2> DEFINE full == IF is_eos /\ slot[head].state = "PART" THEN fslots + 1
                       ELSE fslots
               rest == NSlots - (full - 1)
    <2>1. rest \in Int
      BY CacheAssumption DEF NumbersOK
    <2> HIDE DEF full
    <2>2. CASE StartReload(is_eos, full - 1)
      <3>1. op' = "reload" /\ drain' = is_eos
        BY <2>2 DEF StartReload
      <3>2. left' = IF is_eos THEN 1 ELSE BitStorage(rest)
        BY <2>2 DEF StartReload
      <3> HIDE DEF rest
      <3>3. BitStorage(rest) \in Nat /\ BitStorage(rest) > 0
        BY <2>1, BitStorageType
      <3>4. left' \in Nat /\ left' > 0
        BY <3>2, <3>3
      <3> QED
        BY <3>1, <3>4
    <2>3. CASE UNCHANGED call
      BY <2>3
    <2>4. StartReload(is_eos, full - 1) \/ UNCHANGED call
      BY DEF Pop, full
    <2> QED
      BY <2>2, <2>3, <2>4
  <1>1. SlotsOK'
    BY <1>s DEF Pop, PlacesOK, SlotsOK
  <1>2. PlacesOK'
    BY NextSlotIn DEF Pop, PlacesOK
  <1>3. NumbersOK'
    BY <1>e DEF Pop, NumbersOK
  <1>4. FlagsOK'
    BY <1>r DEF Pop, FlagsOK
  <1>5. ProgressOK'
    BY <1>r DEF Pop, ProgressOK
  <1>6. OutOK'
    BY <1>s DEF Pop, PlacesOK, FlagsOK, SlotType, OutOK
  <1> QED
    BY <1>1, <1>2, <1>3, <1>4, <1>5, <1>6

\* A slot comes back from downstream.
LEMMA ReleaseType ==
  ASSUME TypeOK, NEW i \in Slots, Release(i)
  PROVE  TypeOK'
  <1> USE DEF TypeOK, ring, offsets, disk, recording, migrator, call, client
  <1>s. \A q \in SlotType : [q EXCEPT !.state = "RECYCLE"] \in SlotType
    BY DEF SlotType, States
  <1>1. SlotsOK'
    BY <1>s DEF Release, PlacesOK, SlotsOK
  <1>2. PlacesOK'
    BY DEF Release, PlacesOK
  <1>3. NumbersOK'
    BY DEF Release, NumbersOK
  <1>4. FlagsOK'
    BY DEF Release, FlagsOK
  <1>5. ProgressOK'
    BY DEF Release, ProgressOK
  <1>6. OutOK'
    BY DEF Release, OutOK
  <1> QED
    BY <1>1, <1>2, <1>3, <1>4, <1>5, <1>6

\* Sets of slots are finite.
LEMMA CardinalityInt ==
  ASSUME NEW P \in SUBSET Slots
  PROVE  IsFiniteSet(P) /\ Cardinality(P) \in Nat
  <1>1. IsFiniteSet(Slots)
    BY CacheAssumption, FS_Interval DEF Slots
  <1> QED
    BY <1>1, FS_Subset, FS_CardinalityType

\* What a seek adds to fslots, and what it takes.
LEMMA RegainedType ==
  ASSUME NEW P \in SUBSET Slots
  PROVE  Regained(P) \in Nat /\ GivenUp(P) \in Nat
  BY CardinalityInt DEF Regained, GivenUp

\* A seek to where the head is.
LEMMA SeekHeadType ==
  ASSUME TypeOK, SeekHead
  PROVE  TypeOK'
  <1> USE DEF TypeOK, ring, offsets, disk, recording, migrator, call, client
  <1>s. /\ RolledBack(slot[head]) \in SlotType
        /\ RolledBack(slot[head]).data = slot[head].data
    BY RolledType DEF SlotsOK, PlacesOK
  <1>f. Regained({head}) \in Nat
    BY RegainedType DEF PlacesOK
  <1>1. SlotsOK'
    BY <1>s DEF SeekHead, SlotsOK
  <1>2. PlacesOK'
    BY DEF SeekHead, SeekDone, PlacesOK
  <1>3. NumbersOK'
    BY <1>f DEF SeekHead, NumbersOK
  <1>4. FlagsOK'
    BY DEF SeekHead, SeekDone, FlagsOK
  <1>5. ProgressOK'
    BY DEF SeekHead, SeekDone, ProgressOK
  <1>6. OutOK'
    BY DEF SeekHead, SeekDone, NoBuffer, OutOK
  <1> QED
    BY <1>1, <1>2, <1>3, <1>4, <1>5, <1>6

\* A seek to an offset that is nowhere changes nothing.
LEMMA SeekNothingType ==
  ASSUME TypeOK, SeekNothing
  PROVE  TypeOK'
  <1> USE DEF TypeOK, ring, offsets, disk, recording, migrator, call, client
  <1>1. PlacesOK'
    BY DEF SeekNothing, SeekDone, PlacesOK
  <1>2. FlagsOK'
    BY DEF SeekNothing, SeekDone, FlagsOK
  <1>3. ProgressOK'
    BY DEF SeekNothing, SeekDone, ProgressOK
  <1>4. OutOK'
    BY DEF SeekNothing, SeekDone, NoBuffer, OutOK
  <1>5. SlotsOK'
    BY DEF SeekNothing, SlotsOK
  <1>6. NumbersOK'
    BY DEF SeekNothing, NumbersOK
  <1> QED
    BY <1>1, <1>2, <1>3, <1>4, <1>5, <1>6

\* A seek ahead passes full slots.
LEMMA SeekFutureType ==
  ASSUME TypeOK, SeekFuture
  PROVE  TypeOK'
  <1> USE DEF TypeOK, ring, offsets, disk, recording, migrator, call, client
  <1>r. \A q \in SlotType :
          /\ RolledBack(q) \in SlotType /\ RolledForward(q) \in SlotType
          /\ RolledBack(q).data = q.data /\ RolledForward(q).data = q.data
    BY RolledType
  <1>p. PICK n \in FutureDistances :
          LET target == Forward(head, n)
              skipped == {Forward(head, d) : d \in 0 .. n - 1}
          IN /\ slot' = [i \in Slots |->
                           IF i \in skipped THEN RolledForward(slot[i])
                           ELSE IF i = target THEN RolledBack(slot[i])
                           ELSE slot[i]]
             /\ fslots' = fslots - GivenUp(skipped) + Regained({target})
             /\ head' = target
    BY DEF SeekFuture
  <1> DEFINE target == Forward(head, n)
             skipped == {Forward(head, d) : d \in 0 .. n - 1}
  <1>n. n \in 1 .. NSlots - 1
    BY DEF FutureDistances
  <1>t. head' = target /\ target \in Slots
    BY <1>p, <1>n, ForwardIn, CacheAssumption DEF PlacesOK
  <1>k. skipped \subseteq Slots
    BY <1>n, ForwardIn, CacheAssumption DEF PlacesOK
  <1>f. fslots' \in Int
    <2>1. GivenUp(skipped) \in Nat /\ Regained({target}) \in Nat
      BY <1>k, <1>t, RegainedType
    <2>2. fslots \in Int
      BY DEF NumbersOK
    <2>3. fslots' = fslots - GivenUp(skipped) + Regained({target})
      BY <1>p
    <2> QED
      BY <2>1, <2>2, <2>3
  <1>s. SlotsOK'
    <2>1. \A i \in Slots : slot'[i] \in
            {slot[i], RolledForward(slot[i]), RolledBack(slot[i])}
      BY <1>p
    <2>2. slot' = [i \in Slots |-> slot'[i]]
      BY <1>p
    <2>3. \A i \in Slots : slot[i] \in SlotType /\ Len(slot[i].data) <= SlotSize
      BY DEF SlotsOK
    <2>4. \A i \in Slots : slot'[i] \in SlotType /\ slot'[i].data = slot[i].data
      BY <1>r, <2>1, <2>3
    <2> QED
      BY <2>2, <2>3, <2>4 DEF SlotsOK
  <1>1. SlotsOK'
    BY <1>s
  <1>2. PlacesOK'
    BY <1>t DEF SeekFuture, SeekDone, PlacesOK
  <1>3. NumbersOK'
    BY <1>f DEF SeekFuture, NumbersOK
  <1>4. FlagsOK'
    BY DEF SeekFuture, SeekDone, FlagsOK
  <1>5. ProgressOK'
    BY DEF SeekFuture, SeekDone, ProgressOK
  <1>6. OutOK'
    BY DEF SeekFuture, SeekDone, NoBuffer, OutOK
  <1> QED
    BY <1>1, <1>2, <1>3, <1>4, <1>5, <1>6

\* A seek back takes slots back.
LEMMA SeekPastType ==
  ASSUME TypeOK, SeekPast
  PROVE  TypeOK'
  <1> USE DEF TypeOK, ring, offsets, disk, recording, migrator, call, client
  <1>r. \A q \in SlotType :
          RolledBack(q) \in SlotType /\ RolledBack(q).data = q.data
    BY RolledType
  <1>p. PICK n \in PastDistances :
          LET visited == {Backward(head, d) : d \in 0 .. n}
              stop == Backward(head, n)
          IN /\ slot' = [i \in Slots |->
                           IF i \in visited THEN RolledBack(slot[i])
                           ELSE slot[i]]
             /\ fslots' = fslots + Regained(visited)
             /\ head' = IF CanRollback(slot[stop]) THEN stop
                        ELSE NextSlot(stop)
    BY DEF SeekPast
  <1> DEFINE visited == {Backward(head, d) : d \in 0 .. n}
             stop == Backward(head, n)
  <1>n. n \in 1 .. NSlots
    BY DEF PastDistances
  <1>t. head' \in Slots
    <2>1. stop \in Slots
      BY <1>n, BackwardIn, CacheAssumption DEF PlacesOK
    <2>2. NextSlot(stop) \in Slots
      BY <2>1, NextSlotIn
    <2> QED
      BY <1>p, <2>1, <2>2
  <1>k. visited \subseteq Slots
    BY <1>n, BackwardIn, CacheAssumption DEF PlacesOK
  <1>f. fslots' \in Int
    <2>1. Regained(visited) \in Nat
      BY <1>k, RegainedType
    <2>2. fslots \in Int
      BY DEF NumbersOK
    <2>3. fslots' = fslots + Regained(visited)
      BY <1>p
    <2> QED
      BY <2>1, <2>2, <2>3
  <1>s. SlotsOK'
    <2>1. \A i \in Slots : slot'[i] \in {slot[i], RolledBack(slot[i])}
      BY <1>p
    <2>2. slot' = [i \in Slots |-> slot'[i]]
      BY <1>p
    <2>3. \A i \in Slots : slot[i] \in SlotType /\ Len(slot[i].data) <= SlotSize
      BY DEF SlotsOK
    <2>4. \A i \in Slots : slot'[i] \in SlotType /\ slot'[i].data = slot[i].data
      BY <1>r, <2>1, <2>3
    <2> QED
      BY <2>2, <2>3, <2>4 DEF SlotsOK
  <1>1. SlotsOK'
    BY <1>s
  <1>2. PlacesOK'
    BY <1>t DEF SeekPast, SeekDone, PlacesOK
  <1>3. NumbersOK'
    BY <1>f DEF SeekPast, NumbersOK
  <1>4. FlagsOK'
    BY DEF SeekPast, SeekDone, FlagsOK
  <1>5. ProgressOK'
    BY DEF SeekPast, SeekDone, ProgressOK
  <1>6. OutOK'
    BY DEF SeekPast, SeekDone, NoBuffer, OutOK
  <1> QED
    BY <1>1, <1>2, <1>3, <1>4, <1>5, <1>6

\* A seek into the file empties the ring and reads from a position.
LEMMA SeekDiskType ==
  ASSUME TypeOK, SeekDisk
  PROVE  TypeOK'
  <1> USE DEF TypeOK, ring, offsets, disk, recording, migrator, call, client
  <1>s. EmptySlot \in SlotType /\ Len(EmptySlot.data) <= SlotSize
    BY CacheAssumption DEF EmptySlot, SlotType, States
  <1>o. SeekOffset \in Nat /\ Minus(SeekOffset, l_dk_offset) \in Nat
    <2>1. want \in Nat
      BY DEF SeekDisk, CanSeek, ProgressOK
    <2>2. SeekOffset \in Nat
      BY <2>1 DEF SeekOffset, Higher, Lower, NumbersOK
    <2>3. SeekOffset \in Int /\ l_dk_offset \in Int
      BY <2>2 DEF NumbersOK
    <2>4. Minus(SeekOffset, l_dk_offset) \in Nat
      BY ONLY <2>3, MinusType
    <2> QED
      BY <2>2, <2>4
  <1>r. op' = "reload" /\ drain' = FALSE /\ left' \in Nat /\ left' > 0
    BY BitStorageType, CacheAssumption DEF SeekDisk, StartReload
  <1>1. SlotsOK'
    BY <1>s DEF SeekDisk, SlotsOK
  <1>2. PlacesOK'
    BY CacheAssumption DEF SeekDisk, SeekDone, Slots, PlacesOK
  <1>3. NumbersOK'
    BY <1>o DEF SeekDisk, NumbersOK
  <1>4. FlagsOK'
    BY <1>r DEF SeekDisk, SeekDone, FlagsOK
  <1>5. ProgressOK'
    BY <1>r DEF SeekDisk, SeekDone, ProgressOK
  <1>6. OutOK'
    BY DEF SeekDisk, SeekDone, NoBuffer, OutOK
  <1> QED
    BY <1>1, <1>2, <1>3, <1>4, <1>5, <1>6

\* The application starts the recording.
LEMMA ExplicitStartType ==
  ASSUME TypeOK, ExplicitStart
  PROVE  TypeOK'
  <1> USE DEF TypeOK, ring, offsets, disk, recording, migrator, call, client
  <1>1. PlacesOK'
    BY StartRecordingType DEF ExplicitStart, PlacesOK
  <1>2. NumbersOK'
    BY StartRecordingType DEF ExplicitStart, NumbersOK
  <1>3. FlagsOK'
    BY StartRecordingType DEF ExplicitStart, FlagsOK
  <1>4. ProgressOK'
    BY StartRecordingType DEF ExplicitStart, ProgressOK
  <1>5. SlotsOK'
    BY DEF ExplicitStart, SlotsOK
  <1>6. OutOK'
    BY DEF ExplicitStart, OutOK
  <1> QED
    BY <1>1, <1>2, <1>3, <1>4, <1>5, <1>6

\* The thread writes a slot to the file.
LEMMA MigrateSlotType ==
  ASSUME TypeOK, MigrateSlot
  PROVE  TypeOK'
  <1> USE DEF TypeOK, ring, offsets, disk, recording, migrator, call, client
  <1>f. file' \in Seq(Int) /\ m_dk_pos' \in Nat
    <2>1. /\ slot[migSlot].data \in Seq(Int)
          /\ file \in Seq(Int) /\ m_dk_pos \in Nat
      BY DEF SlotsOK, PlacesOK, NumbersOK, SlotType
    <2>2. CASE /\ file' = WriteAt(file, m_dk_pos, slot[migSlot].data)
               /\ m_dk_pos' = m_dk_pos + Len(slot[migSlot].data)
      BY <2>1, <2>2, WriteAtType
    <2>3. CASE UNCHANGED <<file, m_dk_pos>>
      BY <2>1, <2>3
    <2> QED
      BY <2>2, <2>3 DEF MigrateSlot
  <1>1. PlacesOK'
    BY NextSlotIn DEF MigrateSlot, MigrateNext, PlacesOK
  <1>2. NumbersOK'
    BY <1>f DEF MigrateSlot, NumbersOK
  <1>3. ProgressOK'
    BY DEF MigrateSlot, MigrateNext, ProgressOK
  <1>4. SlotsOK'
    BY DEF MigrateSlot, SlotsOK
  <1>5. FlagsOK'
    BY DEF MigrateSlot, FlagsOK
  <1>6. OutOK'
    BY DEF MigrateSlot, OutOK
  <1> QED
    BY <1>1, <1>2, <1>3, <1>4, <1>5, <1>6

\* Without a file the rest of a push is dropped.
LEMMA PushDropType ==
  ASSUME TypeOK, PushDrop
  PROVE  TypeOK'
  <1> USE DEF TypeOK, ring, offsets, disk, recording, migrator, call, client
  <1>1. SlotsOK'
    BY DEF PushDrop, SlotsOK
  <1>2. PlacesOK'
    BY DEF PushDrop, PlacesOK
  <1>3. NumbersOK'
    BY DEF PushDrop, NumbersOK
  <1>4. FlagsOK'
    BY DEF PushDrop, FlagsOK
  <1>5. ProgressOK'
    BY DEF PushDrop, ProgressOK
  <1>6. OutOK'
    BY DEF PushDrop, OutOK
  <1> QED
    BY <1>1, <1>2, <1>3, <1>4, <1>5, <1>6

\* The end of the stream.
LEMMA EosType ==
  ASSUME TypeOK, Eos
  PROVE  TypeOK'
  <1> USE DEF TypeOK, ring, offsets, disk, recording, migrator, call, client
  <1>1. SlotsOK'
    BY DEF Eos, SlotsOK
  <1>2. PlacesOK'
    BY DEF Eos, PlacesOK
  <1>3. NumbersOK'
    BY DEF Eos, NumbersOK
  <1>4. FlagsOK'
    BY DEF Eos, FlagsOK
  <1>5. ProgressOK'
    BY DEF Eos, ProgressOK
  <1>6. OutOK'
    BY DEF Eos, OutOK
  <1> QED
    BY <1>1, <1>2, <1>3, <1>4, <1>5, <1>6

\* has_offset, from the application's thread.
LEMMA SeekCheckType ==
  ASSUME TypeOK, NEW o \in SeekOffsets, SeekCheck(o)
  PROVE  TypeOK'
  <1> USE DEF TypeOK, ring, offsets, disk, recording, migrator, call, client
  <1>1. SlotsOK'
    BY DEF SeekCheck, SlotsOK
  <1>2. PlacesOK'
    BY DEF SeekCheck, PlacesOK
  <1>3. NumbersOK'
    BY DEF SeekCheck, NumbersOK
  <1>4. FlagsOK'
    BY DEF SeekCheck, FlagsOK
  <1>5. ProgressOK'
    BY CacheAssumption DEF SeekCheck, ProgressOK
  <1>6. OutOK'
    BY DEF SeekCheck, OutOK
  <1> QED
    BY <1>1, <1>2, <1>3, <1>4, <1>5, <1>6

\* The flush between the check and the seek.
LEMMA SeekFlushType ==
  ASSUME TypeOK, SeekFlush
  PROVE  TypeOK'
  <1> USE DEF TypeOK, ring, offsets, disk, recording, migrator, call, client
  <1>1. SlotsOK'
    BY DEF SeekFlush, SlotsOK
  <1>2. PlacesOK'
    BY DEF SeekFlush, PlacesOK
  <1>3. NumbersOK'
    BY DEF SeekFlush, NumbersOK
  <1>4. FlagsOK'
    BY DEF SeekFlush, FlagsOK
  <1>5. ProgressOK'
    BY DEF SeekFlush, ProgressOK
  <1>6. OutOK'
    BY DEF SeekFlush, OutOK
  <1> QED
    BY <1>1, <1>2, <1>3, <1>4, <1>5, <1>6

\* The recording is told to stop.
LEMMA StopRecordingType ==
  ASSUME TypeOK, StopRecording
  PROVE  TypeOK'
  <1> USE DEF TypeOK, ring, offsets, disk, recording, migrator, call, client
  <1>1. SlotsOK'
    BY DEF StopRecording, SlotsOK
  <1>2. PlacesOK'
    BY DEF StopRecording, PlacesOK
  <1>3. NumbersOK'
    BY DEF StopRecording, NumbersOK
  <1>4. FlagsOK'
    BY DEF StopRecording, FlagsOK
  <1>5. ProgressOK'
    BY DEF StopRecording, ProgressOK
  <1>6. OutOK'
    BY DEF StopRecording, OutOK
  <1> QED
    BY <1>1, <1>2, <1>3, <1>4, <1>5, <1>6

\* The thread is joined.
LEMMA StopJoinType ==
  ASSUME TypeOK, StopJoin
  PROVE  TypeOK'
  <1> USE DEF TypeOK, ring, offsets, disk, recording, migrator, call, client
  <1>1. SlotsOK'
    BY DEF StopJoin, SlotsOK
  <1>2. PlacesOK'
    BY DEF StopJoin, PlacesOK
  <1>3. NumbersOK'
    BY DEF StopJoin, NumbersOK
  <1>4. FlagsOK'
    BY DEF StopJoin, FlagsOK
  <1>5. ProgressOK'
    BY DEF StopJoin, ThreadEnded, ProgressOK
  <1>6. OutOK'
    BY DEF StopJoin, OutOK
  <1> QED
    BY <1>1, <1>2, <1>3, <1>4, <1>5, <1>6

\* The element drops its reference.
LEMMA DiscardType ==
  ASSUME TypeOK, Discard
  PROVE  TypeOK'
  <1> USE DEF TypeOK, ring, offsets, disk, recording, migrator, call, client
  <1>1. SlotsOK'
    BY DEF Discard, SlotsOK
  <1>2. PlacesOK'
    BY DEF Discard, PlacesOK
  <1>3. NumbersOK'
    BY DEF Discard, NumbersOK
  <1>4. FlagsOK'
    BY DEF Discard, FlagsOK
  <1>5. ProgressOK'
    BY DEF Discard, ProgressOK
  <1>6. OutOK'
    BY DEF Discard, OutOK
  <1> QED
    BY <1>1, <1>2, <1>3, <1>4, <1>5, <1>6

\* The application changes what becomes of the file.
LEMMA SetAutoremoveType ==
  ASSUME TypeOK, SetAutoremove
  PROVE  TypeOK'
  <1> USE DEF TypeOK, ring, offsets, disk, recording, migrator, call, client
  <1>1. SlotsOK'
    BY DEF SetAutoremove, SlotsOK
  <1>2. PlacesOK'
    BY DEF SetAutoremove, PlacesOK
  <1>3. NumbersOK'
    BY DEF SetAutoremove, NumbersOK
  <1>4. FlagsOK'
    BY DEF SetAutoremove, FlagsOK
  <1>5. ProgressOK'
    BY DEF SetAutoremove, ProgressOK
  <1>6. OutOK'
    BY DEF SetAutoremove, OutOK
  <1> QED
    BY <1>1, <1>2, <1>3, <1>4, <1>5, <1>6

\* The thread begins at the tail.
LEMMA MigrateStartType ==
  ASSUME TypeOK, MigrateStart
  PROVE  TypeOK'
  <1> USE DEF TypeOK, ring, offsets, disk, recording, migrator, call, client
  <1>1. SlotsOK'
    BY DEF MigrateStart, SlotsOK
  <1>2. PlacesOK'
    BY DEF MigrateStart, MigrationFirst, PlacesOK
  <1>3. NumbersOK'
    BY DEF MigrateStart, NumbersOK
  <1>4. FlagsOK'
    BY DEF MigrateStart, FlagsOK
  <1>5. ProgressOK'
    BY DEF MigrateStart, ProgressOK
  <1>6. OutOK'
    BY DEF MigrateStart, OutOK
  <1> QED
    BY <1>1, <1>2, <1>3, <1>4, <1>5, <1>6

\* The thread passes a slot that is empty.
LEMMA MigrateSkipType ==
  ASSUME TypeOK, MigrateSkip
  PROVE  TypeOK'
  <1> USE DEF TypeOK, ring, offsets, disk, recording, migrator, call, client
  <1>1. SlotsOK'
    BY DEF MigrateSkip, SlotsOK
  <1>2. PlacesOK'
    BY NextSlotIn DEF MigrateSkip, MigrateNext, PlacesOK
  <1>3. NumbersOK'
    BY DEF MigrateSkip, NumbersOK
  <1>4. FlagsOK'
    BY DEF MigrateSkip, FlagsOK
  <1>5. ProgressOK'
    BY DEF MigrateSkip, MigrateNext, ProgressOK
  <1>6. OutOK'
    BY DEF MigrateSkip, OutOK
  <1> QED
    BY <1>1, <1>2, <1>3, <1>4, <1>5, <1>6

\* The thread finds that the recording was stopped.
LEMMA MigrateAbortType ==
  ASSUME TypeOK, MigrateAbort
  PROVE  TypeOK'
  <1> USE DEF TypeOK, ring, offsets, disk, recording, migrator, call, client
  <1>1. SlotsOK'
    BY DEF MigrateAbort, SlotsOK
  <1>2. PlacesOK'
    BY DEF MigrateAbort, PlacesOK
  <1>3. NumbersOK'
    BY DEF MigrateAbort, NumbersOK
  <1>4. FlagsOK'
    BY DEF MigrateAbort, FlagsOK
  <1>5. ProgressOK'
    BY DEF MigrateAbort, ProgressOK
  <1>6. OutOK'
    BY DEF MigrateAbort, OutOK
  <1> QED
    BY <1>1, <1>2, <1>3, <1>4, <1>5, <1>6

\* The thread comes to its end.
LEMMA MigrateFinishType ==
  ASSUME TypeOK, MigrateFinish
  PROVE  TypeOK'
  <1> USE DEF TypeOK, ring, offsets, disk, recording, migrator, call, client
  <1>1. SlotsOK'
    BY DEF MigrateFinish, SlotsOK
  <1>2. PlacesOK'
    BY DEF MigrateFinish, PlacesOK
  <1>3. NumbersOK'
    BY DEF MigrateFinish, NumbersOK
  <1>4. FlagsOK'
    BY DEF MigrateFinish, FlagsOK
  <1>5. ProgressOK'
    BY DEF MigrateFinish, ProgressOK
  <1>6. OutOK'
    BY DEF MigrateFinish, OutOK
  <1> QED
    BY <1>1, <1>2, <1>3, <1>4, <1>5, <1>6

\* A step of something else changes nothing.
LEMMA StutterType ==
  ASSUME TypeOK, UNCHANGED vars
  PROVE  TypeOK'
  <1> USE DEF TypeOK, vars, ring, offsets, disk, recording, migrator, call, client
  <1>1. SlotsOK'
    BY DEF SlotsOK
  <1>2. PlacesOK'
    BY DEF PlacesOK
  <1>3. NumbersOK'
    BY DEF NumbersOK
  <1>4. FlagsOK'
    BY DEF FlagsOK
  <1>5. ProgressOK'
    BY DEF ProgressOK
  <1>6. OutOK'
    BY DEF OutOK
  <1> QED
    BY <1>1, <1>2, <1>3, <1>4, <1>5, <1>6

\* Every step keeps every variable in its range.
LEMMA StepType ==
  ASSUME TypeOK, [Next]_vars
  PROVE  TypeOK'
  <1>1. CASE Continue
    BY <1>1, PushSlotType, PushOverflowType, PushSpillType, PushDropType,
       ReloadSlotType, ReloadStopType, StopJoinType DEF Continue
  <1>2. CASE Migrate
    BY <1>2, MigrateStartType, MigrateSkipType, MigrateSlotType,
       MigrateAbortType, MigrateFinishType DEF Migrate
  <1>3. CASE Begin
    <2>1. CASE \E n \in PushSizes : PushStart(n) \/ PushDisk(n)
      BY <2>1, PushStartType, PushDiskType
    <2>2. CASE \E i \in Slots : Release(i)
      BY <2>2, ReleaseType
    <2>3. CASE \E o \in SeekOffsets : SeekCheck(o)
      BY <2>3, SeekCheckType
    <2>4. CASE Seek
      BY <2>4, SeekHeadType, SeekFutureType, SeekPastType, SeekDiskType,
         SeekNothingType DEF Seek
    <2>5. CASE Pop \/ Eos \/ SeekFlush
      BY <2>5, PopType, EosType, SeekFlushType
    <2>6. CASE ExplicitStart \/ StopRecording \/ Discard \/ SetAutoremove
      BY <2>6, ExplicitStartType, StopRecordingType, DiscardType,
         SetAutoremoveType
    <2> QED
      BY <1>3, <2>1, <2>2, <2>3, <2>4, <2>5, <2>6 DEF Begin
  <1>4. CASE UNCHANGED vars
    BY <1>4, StutterType
  <1> QED
    BY <1>1, <1>2, <1>3, <1>4 DEF Next

\* Whatever the number of slots, the slot size, the buffers pushed and the
\* environment, every variable stays in its range and no slot overflows.
THEOREM TypeCorrect == Spec => []TypeOK
  <1>1. Init => TypeOK
    BY InitType
  <1>2. TypeOK /\ [Next]_vars => TypeOK'
    BY StepType
  <1> QED
    BY <1>1, <1>2, PTL DEF Spec

=============================================================================

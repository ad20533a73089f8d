-------------------------- MODULE ShifterCacheFile --------------------------
(***************************************************************************)
(* Proofs about the recording file of ShifterCache: that pushes and the    *)
(* migration thread, which write it from both ends, make an image of the   *)
(* stream, that a file that is kept is complete, and that refills read     *)
(* what they label.                                                        *)
(*                                                                         *)
(* FileInv, with Bookkeeping, is inductive.  Until the recording begins    *)
(* the ring is as RingInv says; when it begins every slot is full or has   *)
(* been read, and none changes before the thread has written it.           *)
(***************************************************************************)
EXTENDS ShifterCacheRing

-----------------------------------------------------------------------------
(* The invariant                                                           *)

\* There is a file, the recording begins when a push finds the ring full, its
\* writes succeed, and the viewer stays a full slot behind until the ring is in
\* the file.
FileOnly == HasFile /\ Env \cap {"explicit", "diskfail", "underrun"} = {}

\* How many bytes the ring has when the recording begins.
RingSize == NSlots * SlotSize

\* Nothing has been recorded: the ring is right, and once a slot was filled
\* one is full.
UnrecordedOK ==
  mig = "off" =>
    /\ RingInv
    /\ ~thread /\ ~is_rb_migrated
    /\ file = <<>> /\ m_dk_pos = 0 /\ h_dk_offset = InvalidOffset
    /\ h_rb_offset > 0 => fslots > 0

\* The file f is that of a stream from the offset `from' on, of which the
\* thread has written the first `migrated' bytes and pushes those from
\* RingSize up to `end'.  The rest is missing, or a hole.
ImageOf(f, from, migrated, end) ==
  /\ migrated <= Len(f) /\ Len(f) <= end
  /\ Len(f) < end => end = RingSize
  /\ \A p \in 1 .. Len(f) :
       \/ f[p] = from + p - 1
       \/ f[p] = Hole /\ migrated < p /\ p <= RingSize

\* Since the recording began bytes go to the file only, which is that of the
\* stream from where the ring began.
RecordedOK ==
  mig # "off" =>
    /\ op # "push" /\ (is_recording \/ ~owned)
    /\ \A i \in Slots : slot[i].state # "PART"
    /\ op = "spill" => h_offset + left <= MaxOffset
    /\ h_offset <= MaxOffset /\ h_dk_offset \in {InvalidOffset, h_offset}
    /\ w_dk_pos >= RingSize /\ m_dk_offset + w_dk_pos = h_offset
    /\ ImageOf(file, m_dk_offset, m_dk_pos, w_dk_pos)

\* Where the slot d behind the tail begins while the ring is written to the
\* file.
Kept(d) == m_dk_offset + (NSlots - d) * SlotSize

\* While the thread runs every slot has the bytes that follow those of the
\* slots before it, and the thread is at the slot that goes to m_dk_pos.
MigratingOK ==
  mig \in {"new", "run"} =>
    /\ ~is_rb_migrated /\ op # "reload" /\ fslots > 0
    /\ \A i \in Slots :
         Whole(slot[i], Kept(Behind(i)))
    /\ migLeft \in 0 .. NSlots
    /\ m_dk_pos = (NSlots - migLeft) * SlotSize
    /\ mig = "new" => migLeft = NSlots
    /\ mig = "run" /\ migLeft > 0 => migSlot = Backward(tail, migLeft)

\* A recording is told to stop by a call that the end of the cache follows.
StopIsLast == stop_recording => op = "join" \/ ~owned

\* A thread that gives up does so for a file that is not kept; otherwise the
\* whole ring is in the file.
MigratedOK ==
  /\ StopIsLast
  /\ mig = "done" => is_rb_migrated \/ (autoremove /\ stop_recording)
  /\ is_rb_migrated =>
       mig = "done" /\ m_dk_pos = RingSize /\ l_dk_offset = m_dk_offset

FileInv == UnrecordedOK /\ RecordedOK /\ MigratingOK /\ MigratedOK

-----------------------------------------------------------------------------
(* What is written to the file                                             *)

\* The ring has bytes.
LEMMA RingSizeType == RingSize \in Nat /\ RingSize > 0
  <1>1. NSlots \in Nat \ {0} /\ SlotSize \in Nat \ {0}
    BY CacheAssumption
  <1>2. 0 \in Int /\ 0 < NSlots /\ 0 * SlotSize = 0
    BY <1>1
  <1>3. 0 * SlotSize + SlotSize <= NSlots * SlotSize
          /\ NSlots * SlotSize \in Int
    BY ONLY <1>1, <1>2, ProductsOrdered, Products
  <1> QED
    BY <1>1, <1>2, <1>3 DEF RingSize

\* The file g is f with n bytes of the stream, from `from' on, after pos.
Overwrites(g, f, pos, from, n) ==
  /\ g \in Seq(Int)
  /\ Len(g) = Higher(Len(f), pos + n)
  /\ \A p \in 1 .. Len(g) :
       /\ pos < p /\ p <= pos + n => g[p] = from + p - pos - 1
       /\ ~(pos < p /\ p <= pos + n) =>
            g[p] = IF p <= Len(f) THEN f[p] ELSE Hole

\* Where the file is written and where it is not.
LEMMA WriteAtIs ==
  ASSUME NEW f \in Seq(Int), NEW pos \in Nat, NEW from \in Int, NEW n \in Nat
  PROVE  Overwrites(WriteAt(f, pos, Bytes(from, n)), f, pos, from, n)
  <1> DEFINE g == WriteAt(f, pos, Bytes(from, n))
  <1> DEFINE d == Bytes(from, n)
  <1>1. d \in Seq(Int) /\ Len(d) = n
    BY BytesType
  <1>2. \A k \in 1 .. n : d[k] = from + k - 1
    BY DEF Bytes
  <1>3. g \in Seq(Int)
    BY <1>1, WriteAtType
  <1>d. g = WriteAt(f, pos, d)
    OBVIOUS
  <1> HIDE DEF d, g
  <1>4. Higher(Len(f), pos + n) \in Nat
    BY DEF Higher
  <1>5. g = [i \in 1 .. Higher(Len(f), pos + n) |->
                  IF pos < i /\ i <= pos + n THEN d[i - pos]
                  ELSE IF i <= Len(f) THEN f[i] ELSE Hole]
    BY <1>1, <1>d DEF WriteAt
  <1>6. Len(g) = Higher(Len(f), pos + n)
    BY <1>3, <1>4, <1>5
  <1>7. \A p \in 1 .. Higher(Len(f), pos + n) :
          pos < p /\ p <= pos + n => d[p - pos] = from + p - pos - 1
    BY <1>2, <1>4
  <1>8. \A p \in 1 .. Higher(Len(f), pos + n) :
          /\ pos < p /\ p <= pos + n =>
               g[p] = from + p - pos - 1
          /\ ~(pos < p /\ p <= pos + n) =>
               g[p] = IF p <= Len(f) THEN f[p] ELSE Hole
    BY <1>5, <1>7
  <1> QED
    BY <1>3, <1>6, <1>8 DEF Overwrites, g

\* A push appends what follows, after a gap if the thread has not yet written
\* the ring.
LEMMA PushExtendsImage ==
  ASSUME NEW f \in Seq(Int), NEW from \in Nat, NEW k \in Nat, NEW end \in Nat,
         NEW n \in Nat, ImageOf(f, from, k, end), RingSize <= end
  PROVE  ImageOf(WriteAt(f, end, Bytes(from + end, n)), from, k, end + n)
  <1> DEFINE b == from + end
             g == WriteAt(f, end, Bytes(b, n))
  <1>0. RingSize \in Nat /\ Len(f) \in Nat /\ b \in Int
    BY RingSizeType
  <1>b. b = from + end
    OBVIOUS
  <1>g. g = WriteAt(f, end, Bytes(b, n))
    OBVIOUS
  <1> HIDE DEF b, g
  <1>1. /\ Len(g) = Higher(Len(f), end + n)
        /\ \A p \in 1 .. Len(g) :
             /\ end < p /\ p <= end + n => g[p] = b + p - end - 1
             /\ ~(end < p /\ p <= end + n) =>
                  g[p] = IF p <= Len(f) THEN f[p] ELSE Hole
    <2>1. Overwrites(WriteAt(f, end, Bytes(b, n)), f, end, b, n)
      BY <1>0, WriteAtIs
    <2> QED
      BY <1>g, <2>1 DEF Overwrites
  <1>2. /\ k <= Len(f) /\ Len(f) <= end
        /\ Len(f) < end => end = RingSize
        /\ \A p \in 1 .. Len(f) :
             \/ f[p] = from + p - 1
             \/ f[p] = Hole /\ k < p /\ p <= RingSize
    BY DEF ImageOf
  <1>3. Len(g) = end + n
    BY <1>0, <1>1, <1>2 DEF Higher
  <1>4. ASSUME NEW p \in 1 .. Len(g)
        PROVE  \/ g[p] = from + p - 1
               \/ g[p] = Hole /\ k < p /\ p <= RingSize
    <2>1. CASE end < p
      BY <1>b, <1>1, <1>3, <2>1
    <2>2. CASE p <= Len(f)
      <3>1. g[p] = f[p] /\ p \in 1 .. Len(f)
        BY <1>0, <1>1, <1>2, <2>2
      <3> QED
        BY <1>2, <3>1
    <2>3. CASE Len(f) < p /\ p <= end
      <3>1. g[p] = Hole /\ end = RingSize
        BY <1>0, <1>1, <1>2, <2>3
      <3> QED
        BY <1>0, <1>2, <2>3, <3>1
    <2> QED
      BY <1>0, <1>3, <2>1, <2>2, <2>3
  <1>5. k <= Len(g)
    BY <1>0, <1>2, <1>3
  <1> QED
    BY <1>3, <1>4, <1>5 DEF ImageOf, g, b

\* The thread writes the next slot over what is missing.
LEMMA SlotExtendsImage ==
  ASSUME NEW f \in Seq(Int), NEW from \in Nat, NEW k \in Nat, NEW end \in Nat,
         ImageOf(f, from, k, end), k + SlotSize <= RingSize, RingSize <= end
  PROVE  ImageOf(WriteAt(f, k, Bytes(from + k, SlotSize)), from, k + SlotSize,
                 end)
  <1> DEFINE b == from + k
             g == WriteAt(f, k, Bytes(b, SlotSize))
  <1>0. RingSize \in Nat /\ Len(f) \in Nat /\ SlotSize \in Nat
          /\ b \in Int
    BY RingSizeType, CacheAssumption
  <1>b. b = from + k
    OBVIOUS
  <1>g. g = WriteAt(f, k, Bytes(b, SlotSize))
    OBVIOUS
  <1> HIDE DEF b, g
  <1>1. /\ Len(g) = Higher(Len(f), k + SlotSize)
        /\ \A p \in 1 .. Len(g) :
             /\ k < p /\ p <= k + SlotSize => g[p] = b + p - k - 1
             /\ ~(k < p /\ p <= k + SlotSize) =>
                  g[p] = IF p <= Len(f) THEN f[p] ELSE Hole
    <2>1. Overwrites(WriteAt(f, k, Bytes(b, SlotSize)), f, k, b, SlotSize)
      BY <1>0, WriteAtIs
    <2> QED
      BY <1>g, <2>1 DEF Overwrites
  <1>2. /\ k <= Len(f) /\ Len(f) <= end
        /\ Len(f) < end => end = RingSize
        /\ \A p \in 1 .. Len(f) :
             \/ f[p] = from + p - 1
             \/ f[p] = Hole /\ k < p /\ p <= RingSize
    BY DEF ImageOf
  <1>3. /\ Len(g) \in Nat /\ Len(f) <= Len(g) /\ k + SlotSize <= Len(g)
        /\ Len(g) = Len(f) \/ Len(g) = k + SlotSize
    BY <1>0, <1>1 DEF Higher
  <1>4. ASSUME NEW p \in 1 .. Len(g)
        PROVE  \/ g[p] = from + p - 1
               \/ g[p] = Hole /\ k + SlotSize < p /\ p <= RingSize
    <2>1. CASE k < p /\ p <= k + SlotSize
      BY <1>0, <1>b, <1>1, <2>1
    <2>2. CASE ~(k < p /\ p <= k + SlotSize)
      <3>1. p \in 1 .. Len(f)
        BY <1>0, <1>2, <1>3, <2>2
      <3>2. g[p] = f[p]
        BY <1>1, <2>2, <3>1
      <3> QED
        BY <1>0, <1>2, <2>2, <3>1, <3>2
    <2> QED
      BY <2>1, <2>2
  <1>5. Len(g) <= end /\ (Len(g) < end => end = RingSize)
    BY <1>0, <1>2, <1>3
  <1> QED
    BY <1>3, <1>4, <1>5 DEF ImageOf, g, b

\* With the whole ring in it the file is the stream.
LEMMA WholeImage ==
  ASSUME NEW f \in Seq(Int), NEW from \in Nat, NEW end \in Nat,
         ImageOf(f, from, RingSize, end), RingSize <= end
  PROVE  f = Bytes(from, end)
  <1>1. /\ Len(f) = end
        /\ \A p \in 1 .. Len(f) : f[p] = from + p - 1
    BY RingSizeType DEF ImageOf
  <1>2. f = [p \in 1 .. Len(f) |-> f[p]]
    OBVIOUS
  <1> QED
    BY <1>1, <1>2 DEF Bytes

-----------------------------------------------------------------------------
(* Before the recording                                                    *)

\* A full slot is counted.
LEMMA SomeFull ==
  TypeOK /\ Accounting /\ (\E i \in Slots : slot[i].state = "FULL")
    => fslots > 0
  <1> SUFFICES ASSUME TypeOK, Accounting,
                      NEW i \in Slots, slot[i].state = "FULL"
               PROVE  fslots > 0
    OBVIOUS
  <1>1. FullSlots \in SUBSET Slots /\ {i} \subseteq FullSlots
    BY DEF FullSlots
  <1>2. IsFiniteSet(FullSlots) /\ Cardinality(FullSlots) \in Nat
    BY <1>1, CardinalityInt
  <1>3. Cardinality({i}) <= Cardinality(FullSlots) /\ Cardinality({i}) = 1
    BY <1>1, <1>2, FS_Subset, FS_Singleton
  <1> QED
    BY <1>2, <1>3 DEF Accounting

\* What a step leaves alone before the recording begins.
LEMMA NothingFiled ==
  ASSUME TypeOK, HeldIsPop, RingInv, ~thread, [Next]_vars, ~Begins
  PROVE  /\ UNCHANGED <<file, m_dk_pos, h_dk_offset, is_rb_migrated>>
         /\ ~thread'
  <1>1. ~is_recording /\ mig = "off" /\ op \in {"idle", "push", "join"}
    BY DEF RingInv, NoRecording
  <1>r. is_recording = FALSE /\ ~DiskUsable
    BY <1>1 DEF TypeOK, FlagsOK, DiskUsable
  <1> USE DEF disk, recording
  <1>2. CASE PushSlot
    BY <1>2 DEF PushSlot
  <1>11. CASE \E i \in Slots : Release(i)
    BY <1>11 DEF Release
  <1>3. CASE Pop
    BY <1>3 DEF Pop
  <1>4. CASE SeekHead \/ SeekFuture \/ SeekPast
    BY <1>4 DEF SeekHead, SeekFuture, SeekPast
  <1>5. CASE PushDrop \/ StopJoin \/ StopRecording \/ Eos \/ SeekFlush
    BY <1>5 DEF PushDrop, StopJoin, StopRecording, Eos, SeekFlush
  <1>6. CASE SeekNothing \/ Discard \/ SetAutoremove \/ UNCHANGED vars
    BY <1>6 DEF SeekNothing, Discard, SetAutoremove, vars
  <1>7. CASE \E o \in SeekOffsets : SeekCheck(o)
    BY <1>7 DEF SeekCheck
  <1>8. CASE \E n \in PushSizes : PushStart(n) \/ PushDisk(n)
    <2>1. \A n : ~PushDisk(n)
      BY <1>r DEF PushDisk
    <2>2. PICK n \in PushSizes : PushStart(n)
      BY <1>8, <2>1
    <2> QED
      BY <2>2 DEF PushStart
  <1>9. ~PushSpill /\ ~Migrate
    BY <1>1 DEF PushSpill, Migrate, MigrateStart, MigrateSkip, MigrateSlot,
                MigrateAbort, MigrateFinish
  <1>10. ~PushOverflow /\ ~ExplicitStart
    BY DEF Begins
  <1> QED
    BY <1>2, <1>3, <1>4, <1>5, <1>6, <1>7, <1>8, <1>9, <1>10, <1>11,
       Steps, NoDisk
       DEF Quiet

\* Until the ring is in the file the viewer leaves a full slot.
LEMMA OneStaysFull ==
  ASSUME "underrun" \notin Env, HasFile, TypeOK, HeldIsPop, Accounting',
         TypeOK', RingInv, ~is_rb_migrated, h_rb_offset > 0 => fslots > 0,
         [Next]_vars, h_rb_offset' > 0
  PROVE  fslots' > 0
  <1>0. fslots \in Nat /\ TypeOK' /\ Accounting'
    BY RingTypes DEF RingInv, Reading
  <1>1. CASE PushSlot
    BY <1>0, <1>1, PushWrites
  <1>2. CASE Pop
    <2>1. fslots > 1
      BY <1>2 DEF Pop, CanPop
    <2>2. Pops /\ (PopsFull \/ PopsTail)
      BY <1>2, PopKinds
    <2> QED
      BY <1>0, <2>1, <2>2 DEF PopsFull, PopsTail
  <1>3. CASE SeekHead \/ SeekFuture \/ SeekPast
    <2>1. PICK d \in 1 .. NSlots : RolledTo(d)
      BY <1>3, SeekRolls
    <2>2. /\ Backward(tail, d) \in Slots
          /\ Behind(Backward(tail, d)) = d /\ d \in Int
      BY RingTypes, BehindBackward
    <2>3. slot'[Backward(tail, d)].state = "FULL"
      BY <2>1, <2>2 DEF RolledTo
    <2>4. (TypeOK /\ Accounting /\ (\E i \in Slots : slot[i].state = "FULL")
             => fslots > 0)'
      BY SomeFull, PTL
    <2> QED
      BY <1>0, <2>2, <2>3, <2>4
  <1>4. CASE UNCHANGED <<fslots, h_rb_offset>>
    BY <1>4
  <1>5. CASE \E i \in Slots : Release(i)
    BY <1>4, <1>5 DEF Release, offsets
  <1>6. CASE Quiet
    <2>1. h_rb_offset' = h_rb_offset
      BY <1>6, NoDisk DEF Quiet, PushOverflow, PushSpill, PushDrop, StopJoin,
         Migrate, MigrateStart, MigrateSkip, MigrateSlot, MigrateAbort,
         MigrateFinish, PushStart, PushDisk, Eos, SeekFlush, SeekNothing,
         SeekCheck, ExplicitStart, StopRecording, Discard, SetAutoremove,
         offsets, vars
    <2> QED
      BY <1>4, <1>6, <2>1, QuietRing
  <1> QED
    BY <1>1, <1>2, <1>3, <1>5, <1>6, Steps, NoDisk

\* No call is made after the one that stops the recording.
LEMMA StopStaysLast ==
  ASSUME CallOwned, StopIsLast, [Next]_vars
  PROVE  StopIsLast'
  <1> DEFINE Same == UNCHANGED <<stop_recording, op, owned>>
             Busy == /\ stop_recording' = stop_recording
                     /\ op # "join" /\ (op = "idle" => owned)
             Last == op' = "join" \/ ~owned'
  <1> USE DEF recording, call, client
  <1>1. CASE ReloadSlot \/ ReloadStop
    <2>1. Busy
      BY <1>1 DEF ReloadSlot, ReloadStop
    <2> QED
      BY <2>1 DEF StopIsLast, CallOwned
  <1>2. CASE PushSlot \/ PushOverflow \/ PushSpill \/ PushDrop
    <2>1. Busy
      BY <1>2 DEF PushSlot, PushOverflow, PushSpill, PushDrop
    <2> QED
      BY <2>1 DEF StopIsLast, CallOwned
  <1>3. CASE Pop \/ Eos \/ SeekFlush \/ ExplicitStart \/ SetAutoremove
    <2>1. Busy
      BY <1>3 DEF Pop, CanPop, Eos, SeekFlush, ExplicitStart, SetAutoremove
    <2> QED
      BY <2>1 DEF StopIsLast, CallOwned
  <1>4. CASE \E n \in PushSizes : PushStart(n) \/ PushDisk(n)
    <2>1. PICK n \in PushSizes : PushStart(n) \/ PushDisk(n)
      BY <1>4
    <2>2. Busy
      BY <2>1 DEF PushStart, PushDisk, CanPush
    <2> QED
      BY <2>2 DEF StopIsLast, CallOwned
  <1>5. CASE Seek
    <2>1. Busy
      BY <1>5 DEF Seek, SeekHead, SeekFuture, SeekAhead, SeekPast, SeekBehind,
                  SeekDisk, SeekNothing, CanSeek
    <2> QED
      BY <2>1 DEF StopIsLast, CallOwned
  <1>6. CASE StopJoin \/ StopRecording \/ Discard
    <2>1. Last
      BY <1>6 DEF StopJoin, StopRecording, Discard
    <2> QED
      BY <2>1 DEF StopIsLast
  <1>7. CASE Migrate \/ UNCHANGED vars
    <2>1. Same
      BY <1>7 DEF Migrate, MigrateStart, MigrateSkip, MigrateSlot,
                  MigrateAbort, MigrateFinish, vars
    <2> QED
      BY <2>1 DEF StopIsLast
  <1>8. CASE \E i \in Slots : Release(i)
    <2>1. Same
      BY <1>8 DEF Release
    <2> QED
      BY <2>1 DEF StopIsLast
  <1>9. CASE \E o \in SeekOffsets : SeekCheck(o)
    <2>1. Same
      BY <1>9 DEF SeekCheck
    <2> QED
      BY <2>1 DEF StopIsLast
  <1> QED
    BY <1>1, <1>2, <1>3, <1>4, <1>5, <1>6, <1>7, <1>8, <1>9
       DEF Next, Continue, Begin

-----------------------------------------------------------------------------
(* The recording begins                                                    *)

\* The ring that a push finds full: no slot is being filled and none is empty.
LEMMA RingIsFull ==
  ASSUME TypeOK, RingInv, PushOverflow
  PROVE  /\ ~Drained /\ h_offset = Base /\ h_rb_offset = Base
         /\ \A i \in Slots : Whole(slot[i], At(Behind(i)))
         /\ l_rb_offset = At(NSlots) /\ At(NSlots) >= 0
  <1>0. /\ NSlots \in Nat \ {0} /\ SlotSize \in Nat \ {0}
        /\ tail \in Slots /\ Behind(tail) = NSlots /\ Base \in Nat
        /\ slot \in [Slots -> SlotType]
    BY RingTypes, BehindIn, CacheAssumption
  <1>1. ~Drained
    BY DEF PushOverflow, RingInv, Ended
  <1>2. slot[tail].state \in {"FULL", "POP"}
    <2>1. ~Available(Recycled(slot[tail])) /\ slot[tail].state \in States
      BY <1>0 DEF PushOverflow, SlotType
    <2>2. slot[tail].state # "RECYCLE"
      BY <2>1 DEF Recycled, Available, EmptySlot
    <2>3. Recycled(slot[tail]) = slot[tail]
      BY <2>2 DEF Recycled
    <2> QED
      BY <2>1, <2>2, <2>3 DEF Available, States
  <1>3. ~TailFilled
    BY <1>1, <1>2 DEF TailFilled
  <1>4. h_offset = Base /\ h_rb_offset = Base
    BY <1>1, <1>3 DEF RingInv, Laid, Base
  <1>5. \A d \in Int : At(d) \in Int
    BY AtFacts
  <1>6. At(NSlots) >= 0
    <2>1. slot[tail] # EmptySlot
      BY <1>2 DEF EmptySlot
    <2> QED
      BY <1>0, <1>3, <2>1, SlotKinds DEF RingInv
  <1>7. ASSUME NEW i \in Slots
        PROVE  Whole(slot[i], At(Behind(i)))
    <2>1. Behind(i) \in 1 .. NSlots
      BY <1>0, BehindIn
    <2>2. At(Behind(i)) >= 0
      <3>1. Behind(i) \in Int /\ NSlots \in Int
        BY <1>0, <2>1
      <3>2. Behind(i) < NSlots => At(NSlots) + SlotSize <= At(Behind(i))
        BY <3>1, AtFacts
      <3>3. Behind(i) < NSlots \/ Behind(i) = NSlots
        BY <1>0, <2>1
      <3> QED
        BY <1>0, <1>5, <1>6, <3>1, <3>2, <3>3
    <2> QED
      BY <1>3, <2>2 DEF RingInv, Laid
  <1>8. l_rb_offset = At(NSlots)
    <2>1. l_rb_offset = Higher(0, At(NSlots))
      BY <1>3 DEF RingInv, Lowest
    <2> QED
      BY <1>0, <1>5, <1>6, <2>1 DEF Higher
  <1> QED
    BY <1>1, <1>4, <1>6, <1>7, <1>8

\* An empty file is that of a stream of which nothing has been written.
LEMMA NothingWritten ==
  ASSUME NEW from \in Nat
  PROVE  ImageOf(<<>>, from, 0, RingSize)
  BY RingSizeType DEF ImageOf

\* Starting the recording sets the file's positions for the ring as it is.
LEMMA BeginsRight ==
  ASSUME Bookkeeping, TypeOK', RingInv, StopIsLast, ~thread, ~is_rb_migrated,
         file = <<>>, m_dk_pos = 0, h_dk_offset = InvalidOffset,
         h_rb_offset > 0 => fslots > 0, PushOverflow
  PROVE  RecordedOK' /\ MigratingOK' /\ MigratedOK' /\ mig' = "new"
  <1>t. TypeOK /\ CallOwned
    BY DEF Bookkeeping
  <1>0. /\ NSlots \in Nat \ {0} /\ SlotSize \in Nat \ {0}
        /\ tail \in Slots /\ Base \in Nat /\ h_offset \in Nat
        /\ left \in Nat /\ l_rb_offset \in Nat
    BY <1>t, RingTypes, CacheAssumption
  <1>1. /\ h_offset = Base /\ h_rb_offset = Base
        /\ \A i \in Slots : Whole(slot[i], At(Behind(i)))
        /\ l_rb_offset = At(NSlots)
    BY <1>t, RingIsFull
  <1>2. ~stop_recording /\ op = "push" /\ owned
    BY <1>t DEF PushOverflow, CallOwned, StopIsLast
  <1>3. /\ m_dk_offset' = l_rb_offset /\ w_dk_pos' = h_offset - l_rb_offset
        /\ is_recording' = TRUE /\ mig' = "new" /\ migLeft' = NSlots
    BY <1>2 DEF PushOverflow, StartRecording
  <1>4. /\ op' = "spill"
        /\ UNCHANGED <<slot, head, tail, fslots, h_offset, h_dk_offset, file>>
        /\ UNCHANGED <<m_dk_pos, is_rb_migrated, stop_recording, left, owned>>
    BY DEF PushOverflow, ring, offsets, client
  <1>5. At(NSlots) = Base - RingSize
    BY <1>0 DEF At, RingSize
  <1>6. RingSize \in Nat /\ RingSize > 0
    BY RingSizeType
  <1>7. w_dk_pos' = RingSize /\ m_dk_offset' + w_dk_pos' = h_offset'
    BY <1>0, <1>1, <1>3, <1>4, <1>5, <1>6
  <1>8. ImageOf(file, m_dk_offset, m_dk_pos, w_dk_pos)'
    <2>1. ImageOf(<<>>, m_dk_offset', 0, RingSize)
      BY <1>0, <1>3, NothingWritten
    <2> QED
      BY <1>4, <1>7, <2>1
  <1>9. \A i \in Slots : Behind(i)' = Behind(i) /\ Behind(i) \in 1 .. NSlots
    BY <1>0, <1>4, BehindIn DEF Behind
  <1>10. ASSUME NEW i \in Slots
         PROVE  Whole(slot[i], Kept(Behind(i)))'
    <2>1. /\ Behind(i) \in Int /\ Base \in Int /\ NSlots \in Int
          /\ SlotSize \in Int
      BY <1>0, <1>9
    <2>2. (NSlots - Behind(i)) * SlotSize
            = NSlots * SlotSize - Behind(i) * SlotSize
      BY ONLY <2>1
    <2>3. NSlots * SlotSize \in Int /\ Behind(i) * SlotSize \in Int
      BY <2>1, Products
    <2>4. m_dk_offset' + (NSlots - Behind(i)) * SlotSize = At(Behind(i))
      BY <1>1, <1>3, <2>1, <2>2, <2>3 DEF At
    <2> QED
      BY <1>1, <1>4, <1>9, <2>4 DEF Kept, Whole
  <1>11. \A i \in Slots : slot'[i].state # "PART"
    BY <1>1, <1>4 DEF Whole
  <1>12. RecordedOK'
    <2>1. h_offset + left <= MaxOffset /\ h_offset <= MaxOffset
      BY <1>2 DEF RingInv, Ended
    <2>2. w_dk_pos' >= RingSize'
      BY <1>6, <1>7 DEF RingSize
    <2> QED
      BY <1>3, <1>4, <1>7, <1>8, <1>11, <2>1, <2>2 DEF RecordedOK
  <1>13. MigratingOK'
    <2>1. h_rb_offset > 0
      BY <1>0, <1>1, <1>3, <1>4, <1>5, <1>6, <1>7
    <2>2. fslots' > 0
      BY <1>2, <1>4, <2>1
    <2>3. NSlots \in 0 .. NSlots /\ 0 = (NSlots - NSlots) * SlotSize
      BY <1>0
    <2> QED
      BY <1>3, <1>4, <1>10, <2>2, <2>3 DEF MigratingOK, Kept
  <1>14. MigratedOK'
    BY <1>2, <1>3, <1>4 DEF MigratedOK, StopIsLast
  <1> QED
    BY <1>3, <1>12, <1>13, <1>14

-----------------------------------------------------------------------------
(* Since the recording began                                               *)

\* No push goes to the ring, and the recording does not begin again.
LEMMA RingIsClosed ==
  ASSUME FileOnly, RecordedOK, mig # "off"
  PROVE  /\ ~PushSlot /\ ~PushOverflow /\ ~PushDrop /\ ~ExplicitStart
         /\ \A n : ~PushStart(n)
  <1>1. op # "push" /\ (is_recording \/ ~owned) /\ "explicit" \notin Env
    BY DEF RecordedOK, FileOnly
  <1> QED
    BY <1>1 DEF PushSlot, PushOverflow, PushDrop, ExplicitStart, PushStart,
                CanPush

\* The steps that write to the file, and those of the thread, are the only
\* ones that change what is said of it.
FileKept ==
  UNCHANGED <<h_offset, l_dk_offset, h_dk_offset, m_dk_offset, file, w_dk_pos,
              m_dk_pos, is_rb_migrated, mig, migLeft, migSlot>>

\* So every step does one or the other.
LEMMA RecordingSteps ==
  ASSUME FileOnly, RecordedOK, mig # "off", [Next]_vars
  PROVE  \/ PushSpill \/ \E n \in PushSizes : PushDisk(n)
         \/ Migrate
         \/ FileKept
  <1> USE DEF FileKept, offsets, disk, recording, migrator
  <1>1. CASE ReloadSlot \/ ReloadStop \/ StopJoin \/ Pop
    BY <1>1 DEF ReloadSlot, ReloadStop, StopJoin, Pop
  <1>2. CASE \E i \in Slots : Release(i)
    BY <1>2 DEF Release
  <1>3. CASE Eos \/ SeekFlush \/ StopRecording \/ Discard \/ SetAutoremove
               \/ UNCHANGED vars
    BY <1>3 DEF Eos, SeekFlush, StopRecording, Discard, SetAutoremove, vars
  <1>4. CASE \E o \in SeekOffsets : SeekCheck(o)
    BY <1>4 DEF SeekCheck
  <1>5. CASE Seek
    BY <1>5 DEF Seek, SeekHead, SeekFuture, SeekPast, SeekDisk, SeekNothing
  <1> QED
    BY <1>1, <1>2, <1>3, <1>4, <1>5, RingIsClosed DEF Next, Continue, Begin

\* What is said of the calls.
LEMMA RecordingCalls ==
  ASSUME FileOnly, TypeOK, CallOwned, RecordedOK, mig # "off", [Next]_vars
  PROVE  /\ op' # "push" /\ (is_recording' \/ ~owned')
         /\ op' = "spill" => op = "spill" /\ left' = left
  <1>1. op # "push" /\ (is_recording \/ ~owned)
    BY DEF RecordedOK
  <1> DEFINE Same == UNCHANGED <<op, left, is_recording, owned>>
             Moves == /\ op' \in {"idle", "reload", "join"}
                      /\ is_recording' = is_recording /\ owned' = owned
             Ends == owned' = FALSE /\ op' = "idle"
  <1>s. Same \/ Moves \/ Ends =>
          /\ op' # "push" /\ (is_recording' \/ ~owned')
          /\ op' = "spill" => op = "spill" /\ left' = left
    BY <1>1
  <1> USE DEF recording, call, client
  <1>2. CASE ReloadSlot \/ ReloadStop \/ PushSpill
    <2>1. Moves
      BY <1>2 DEF ReloadSlot, ReloadStop, PushSpill
    <2> QED
      BY <1>s, <2>1
  <1>3. CASE StopJoin \/ Discard
    <2>1. Ends
      BY <1>3 DEF StopJoin, Discard
    <2> QED
      BY <1>s, <2>1
  <1>4. CASE \E n \in PushSizes : PushDisk(n)
    <2>1. PICK n \in PushSizes : PushDisk(n)
      BY <1>4
    <2>2. Moves
      BY <2>1 DEF PushDisk, CanPush, StartReload
    <2> QED
      BY <1>s, <2>2
  <1>5. CASE Pop
    <2>1. Moves
      BY <1>5 DEF Pop, CanPop, StartReload
    <2> QED
      BY <1>s, <2>1
  <1>6. CASE Seek
    <2>1. Moves
      BY <1>6 DEF Seek, SeekHead, SeekFuture, SeekAhead, SeekPast, SeekBehind,
                  SeekDisk, SeekNothing, CanSeek, StartReload, SeekDone
    <2> QED
      BY <1>s, <2>1
  <1>7. CASE Eos \/ SeekFlush \/ StopRecording \/ SetAutoremove
    <2>1. Moves
      BY <1>7 DEF Eos, SeekFlush, StopRecording, SetAutoremove
    <2> QED
      BY <1>s, <2>1
  <1>8. CASE Migrate \/ UNCHANGED vars
    <2>1. Same
      BY <1>8 DEF Migrate, MigrateStart, MigrateSkip, MigrateSlot,
                  MigrateAbort, MigrateFinish, vars
    <2> QED
      BY <1>s, <2>1
  <1>9. CASE \E i \in Slots : Release(i)
    <2>1. Same
      BY <1>9 DEF Release
    <2> QED
      BY <1>s, <2>1
  <1>10. CASE \E o \in SeekOffsets : SeekCheck(o)
    <2>1. Same
      BY <1>10 DEF SeekCheck
    <2> QED
      BY <1>s, <2>1
  <1> QED
    BY <1>2, <1>3, <1>4, <1>5, <1>6, <1>7, <1>8, <1>9, <1>10, RingIsClosed
       DEF Next, Continue, Begin

\* What the steps do to a slot: they refill it, or change its state.
LEMMA SlotSteps ==
  ASSUME FileOnly, TypeOK, HeldIsPop, RecordedOK, mig # "off", [Next]_vars,
         NEW i \in Slots
  PROVE  \/ slot'[i] \in {slot[i], RolledBack(slot[i]), RolledForward(slot[i])}
         \/ /\ slot'[i].state \in {"POP", "RECYCLE"}
            /\ slot'[i] = [slot[i] EXCEPT !.state = slot'[i].state]
            /\ slot[i].state # "EMPTY"
         \/ /\ ReloadSlot \/ ReloadStop \/ SeekDisk
            /\ slot'[i] \in {EmptySlot, Refilled}
  <1>0. slot \in [Slots -> SlotType] /\ head \in Slots /\ tail \in Slots
    BY RingTypes
  <1>1. CASE ReloadSlot \/ ReloadStop
    BY <1>0, <1>1 DEF ReloadSlot, ReloadStop, Recycled
  <1>2. CASE SeekDisk
    BY <1>0, <1>2 DEF SeekDisk
  <1>3. CASE SeekHead
    BY <1>0, <1>3 DEF SeekHead
  <1>4. CASE SeekFuture
    BY <1>0, <1>4 DEF SeekFuture
  <1>5. CASE SeekPast
    BY <1>0, <1>5 DEF SeekPast
  <1>6. CASE Pop
    <2>1. /\ slot' = [slot EXCEPT ![head].state = "POP"]
          /\ slot[head].state \in {"FULL", "PART"}
      BY <1>6, PopHeld
    <2> QED
      BY <1>0, <2>1 DEF SlotType
  <1>7. CASE \E r \in Slots : Release(r)
    <2>1. PICK r \in Slots : Release(r)
      BY <1>7
    <2>2. slot' = [slot EXCEPT ![r].state = "RECYCLE"] /\ slot[r].state = "POP"
      BY <2>1 DEF Release, HeldIsPop
    <2> QED
      BY <1>0, <2>2 DEF SlotType
  <1>8. CASE Quiet
    BY <1>8, QuietRing
  <1> QED
    BY <1>1, <1>2, <1>3, <1>4, <1>5, <1>6, <1>7, <1>8, Steps, RingIsClosed

\* No slot is ever partly filled again.
LEMMA NoPartStays ==
  ASSUME FileOnly, TypeOK, HeldIsPop, RecordedOK, mig # "off", [Next]_vars,
         NEW i \in Slots
  PROVE  slot'[i].state # "PART"
  <1>1. slot[i].state # "PART"
    BY DEF RecordedOK
  <1>2. /\ RolledBack(slot[i]).state # "PART"
        /\ RolledForward(slot[i]).state # "PART"
        /\ EmptySlot.state # "PART" /\ Refilled.state # "PART"
    <2>1. slot[i] \in SlotType
      BY RingTypes
    <2> QED
      BY <1>1, <2>1
         DEF RolledBack, RolledForward, EmptySlot, Refilled, SlotType
  <1> QED
    BY <1>1, <1>2, SlotSteps

\* What is said of offsets, positions and the file itself.
PlacesKept ==
  /\ h_offset <= MaxOffset /\ h_dk_offset \in {InvalidOffset, h_offset}
  /\ w_dk_pos >= RingSize /\ m_dk_offset + w_dk_pos = h_offset
  /\ ImageOf(file, m_dk_offset, m_dk_pos, w_dk_pos)

\* A write of a push appends to the file.
LEMMA DiskWritePlaces ==
  ASSUME FileOnly, TypeOK, PlacesKept, NEW n \in Nat, DiskWrite(n),
         h_offset + n <= MaxOffset, UNCHANGED <<m_dk_offset, m_dk_pos>>
  PROVE  PlacesKept'
  <1>0. /\ RingSize \in Nat /\ h_offset \in Nat /\ m_dk_offset \in Nat
        /\ m_dk_pos \in Nat /\ w_dk_pos \in Int /\ file \in Seq(Int)
        /\ MaxOffset \in Nat
    BY RingSizeType, CacheAssumption DEF TypeOK, NumbersOK
  <1>1. /\ w_dk_pos >= RingSize /\ m_dk_offset + w_dk_pos = h_offset
        /\ ImageOf(file, m_dk_offset, m_dk_pos, w_dk_pos)
    BY DEF PlacesKept
  <1>2. /\ file' = WriteAt(file, w_dk_pos, Bytes(h_offset, n))
        /\ w_dk_pos' = w_dk_pos + n /\ h_offset' = h_offset + n
        /\ h_dk_offset' = h_offset'
    BY DEF DiskWrite, FileOnly
  <1>3. w_dk_pos \in Nat
    BY <1>0, <1>1
  <1>4. ImageOf(WriteAt(file, w_dk_pos, Bytes(m_dk_offset + w_dk_pos, n)),
                m_dk_offset, m_dk_pos, w_dk_pos + n)
    BY <1>0, <1>1, <1>3, PushExtendsImage
  <1>5. ImageOf(file, m_dk_offset, m_dk_pos, w_dk_pos)'
    BY <1>1, <1>2, <1>4 DEF ImageOf, RingSize
  <1>6. w_dk_pos' >= RingSize'
    BY <1>0, <1>1, <1>2 DEF RingSize
  <1>7. m_dk_offset' + w_dk_pos' = h_offset'
    BY <1>0, <1>1, <1>2
  <1> QED
    BY <1>0, <1>2, <1>5, <1>6, <1>7 DEF PlacesKept

\* The thread at work finds a slot with all its bytes, which are those that
\* belong at m_dk_pos.
LEMMA ThreadFinds ==
  ASSUME TypeOK, MigratingOK, mig = "run", migLeft > 0
  PROVE  /\ migLeft \in 1 .. NSlots
         /\ Behind(migSlot) = migLeft /\ migSlot = Backward(tail, migLeft)
         /\ Whole(slot[migSlot], m_dk_offset + m_dk_pos)
         /\ m_dk_pos + SlotSize = (NSlots - (migLeft - 1)) * SlotSize
         /\ m_dk_pos + SlotSize <= RingSize
  <1>0. NSlots \in Nat \ {0} /\ SlotSize \in Nat \ {0} /\ tail \in Slots
    BY RingTypes, CacheAssumption
  <1>1. /\ migLeft \in 0 .. NSlots /\ m_dk_pos = (NSlots - migLeft) * SlotSize
        /\ migSlot = Backward(tail, migLeft)
        /\ \A i \in Slots : Whole(slot[i], Kept(Behind(i)))
    BY DEF MigratingOK
  <1>2. migLeft \in 1 .. NSlots
    BY <1>0, <1>1
  <1>3. Behind(migSlot) = migLeft /\ migSlot \in Slots
    BY <1>0, <1>1, <1>2, BehindBackward
  <1>4. Whole(slot[migSlot], m_dk_offset + m_dk_pos)
    BY <1>1, <1>3 DEF Kept
  <1>5. m_dk_pos + SlotSize = (NSlots - (migLeft - 1)) * SlotSize
    <2>1. NSlots - migLeft \in Int /\ SlotSize \in Int
            /\ NSlots - (migLeft - 1) = (NSlots - migLeft) + 1
      BY <1>0, <1>2
    <2>2. ((NSlots - migLeft) + 1) * SlotSize
            = (NSlots - migLeft) * SlotSize + SlotSize
      BY <2>1, Products
    <2> QED
      BY <1>1, <2>1, <2>2
  <1>6. m_dk_pos + SlotSize <= RingSize
    <2>1. /\ NSlots - migLeft \in Int /\ NSlots \in Int
          /\ NSlots - migLeft < NSlots
      BY <1>0, <1>2
    <2>2. (NSlots - migLeft) * SlotSize + SlotSize <= NSlots * SlotSize
      BY <1>0, <2>1, ProductsOrdered
    <2> QED
      BY <1>1, <2>2 DEF RingSize
  <1> QED
    BY <1>1, <1>2, <1>3, <1>4, <1>5, <1>6

\* It writes them.
LEMMA MigrateSlotPlaces ==
  ASSUME FileOnly, TypeOK, PlacesKept, MigratingOK, MigrateSlot
  PROVE  PlacesKept' /\ m_dk_pos' = m_dk_pos + SlotSize
  <1>0. /\ RingSize \in Nat /\ h_offset \in Nat /\ m_dk_offset \in Nat
        /\ m_dk_pos \in Nat /\ w_dk_pos \in Int /\ file \in Seq(Int)
        /\ SlotSize \in Nat \ {0}
    BY RingSizeType, CacheAssumption DEF TypeOK, NumbersOK
  <1>1. /\ w_dk_pos >= RingSize /\ m_dk_offset + w_dk_pos = h_offset
        /\ ImageOf(file, m_dk_offset, m_dk_pos, w_dk_pos)
    BY DEF PlacesKept
  <1>2. /\ Whole(slot[migSlot], m_dk_offset + m_dk_pos)
        /\ m_dk_pos + SlotSize <= RingSize
    BY ThreadFinds DEF MigrateSlot
  <1>3. /\ slot[migSlot].data = Bytes(m_dk_offset + m_dk_pos, SlotSize)
        /\ Len(slot[migSlot].data) = SlotSize
    <2>1. m_dk_offset + m_dk_pos \in Int
      BY <1>0
    <2> QED
      BY <1>2, <2>1, WholeFacts
  <1>4. /\ file' = WriteAt(file, m_dk_pos, slot[migSlot].data)
        /\ m_dk_pos' = m_dk_pos + Len(slot[migSlot].data)
        /\ UNCHANGED <<h_offset, h_dk_offset, m_dk_offset, w_dk_pos>>
    BY DEF MigrateSlot, FileOnly, offsets
  <1>5. w_dk_pos \in Nat
    BY <1>0, <1>1
  <1>6. ImageOf(WriteAt(file, m_dk_pos,
                        Bytes(m_dk_offset + m_dk_pos, SlotSize)),
                m_dk_offset, m_dk_pos + SlotSize, w_dk_pos)
    BY <1>0, <1>1, <1>2, <1>5, SlotExtendsImage
  <1>7. ImageOf(file, m_dk_offset, m_dk_pos, w_dk_pos)'
    BY <1>3, <1>4, <1>6 DEF ImageOf, RingSize
  <1> QED
    BY <1>1, <1>3, <1>4, <1>7 DEF PlacesKept, RingSize

\* What the file has stays what it should be.
LEMMA RecordedStep ==
  ASSUME FileOnly, Bookkeeping, RecordedOK, MigratingOK, mig # "off",
         [Next]_vars
  PROVE  RecordedOK' /\ mig' # "off"
  <1>0. TypeOK /\ HeldIsPop /\ CallOwned
    BY DEF Bookkeeping
  <1>1. PlacesKept /\ (op = "spill" => h_offset + left <= MaxOffset)
    BY DEF RecordedOK, PlacesKept
  <1>2. /\ op' # "push" /\ (is_recording' \/ ~owned')
        /\ op' = "spill" => op = "spill" /\ left' = left
    BY <1>0, RecordingCalls
  <1>3. \A i \in Slots : slot'[i].state # "PART"
    BY <1>0, NoPartStays
  <1>4. /\ PlacesKept'
        /\ op' = "spill" => h_offset' + left' <= MaxOffset
        /\ mig' # "off"
    <2>1. CASE PushSpill
      <3>1. left \in Nat
        BY <1>0, RingTypes
      <3>2. DiskWrite(left) /\ UNCHANGED <<m_dk_offset, m_dk_pos>>
        BY <2>1 DEF PushSpill
      <3>3. h_offset + left <= MaxOffset /\ op' = "idle" /\ mig' = mig
        BY <1>1, <2>1 DEF PushSpill, migrator
      <3> QED
        BY <1>0, <1>1, <3>1, <3>2, <3>3, DiskWritePlaces
    <2>2. CASE \E n \in PushSizes : PushDisk(n)
      <3>1. PICK n \in PushSizes : PushDisk(n)
        BY <2>2
      <3>2. n \in Nat /\ DiskWrite(n) /\ UNCHANGED <<m_dk_offset, m_dk_pos>>
              /\ h_offset + n <= MaxOffset /\ op = "idle" /\ mig' = mig
        BY <3>1, CacheAssumption DEF PushDisk, CanPush, migrator
      <3> QED
        BY <1>0, <1>1, <1>2, <3>2, DiskWritePlaces
    <2>3. CASE MigrateSlot
      <3>1. UNCHANGED <<op, left, h_offset, mig>>
        BY <2>3 DEF MigrateSlot, call, offsets
      <3> QED
        BY <1>0, <1>1, <2>3, <3>1, MigrateSlotPlaces
    <2>4. CASE MigrateStart \/ MigrateSkip \/ MigrateAbort \/ MigrateFinish
      <3>1. /\ UNCHANGED <<h_offset, h_dk_offset, m_dk_offset, file, w_dk_pos>>
            /\ UNCHANGED <<m_dk_pos, op, left>> /\ mig' # "off"
        BY <2>4 DEF MigrateStart, MigrateSkip, MigrateAbort, MigrateFinish,
                    offsets, disk, call
      <3> QED
        BY <1>1, <3>1 DEF PlacesKept, ImageOf, RingSize
    <2>5. CASE FileKept
      BY <1>1, <1>2, <2>5 DEF PlacesKept, FileKept, ImageOf, RingSize
    <2> QED
      BY <2>1, <2>2, <2>3, <2>4, <2>5, RecordingSteps DEF Migrate
  <1> QED
    BY <1>2, <1>3, <1>4 DEF RecordedOK, PlacesKept

-----------------------------------------------------------------------------
(* While the thread runs                                                   *)

\* Nothing is refilled before the ring is in the file.
LEMMA NoRefill ==
  ASSUME MigratingOK, mig \in {"new", "run"}
  PROVE  ~DiskUsable /\ ~ReloadSlot /\ ~ReloadStop /\ ~SeekDisk
  BY DEF MigratingOK, DiskUsable, ReloadSlot, ReloadStop, SeekDisk

\* A seek leaves a full slot where it ends.
LEMMA SeekFindsFull ==
  ASSUME TypeOK, HeldIsPop, MigratingOK, mig \in {"new", "run"},
         SeekHead \/ SeekFuture \/ SeekPast
  PROVE  \E i \in Slots : slot'[i].state = "FULL"
  <1>0. /\ slot \in [Slots -> SlotType] /\ head \in Slots
        /\ NSlots \in Nat \ {0}
    BY RingTypes, CacheAssumption
  <1>1. held = {}
    BY DEF SeekHead, SeekFuture, SeekAhead, SeekPast, SeekBehind, CanSeek
  <1>2. \A i \in Slots : slot[i].state \in {"FULL", "RECYCLE"}
    BY <1>1 DEF HeldIsPop, MigratingOK, Whole
  <1>3. \A i \in Slots : RolledBack(slot[i]).state = "FULL"
    BY <1>2, RollFull
  <1>4. CASE SeekHead
    <2>1. slot'[head] = RolledBack(slot[head])
      BY <1>0, <1>4 DEF SeekHead
    <2> QED
      BY <1>0, <1>3, <2>1
  <1>5. CASE SeekFuture
    <2>1. PICK n \in 1 .. NSlots - 1 :
            slot' = [i \in Slots |->
                       IF i \in {Forward(head, d) : d \in 0 .. n - 1}
                         THEN RolledForward(slot[i])
                       ELSE IF i = Forward(head, n) THEN RolledBack(slot[i])
                       ELSE slot[i]]
      BY <1>5 DEF SeekFuture, FutureDistances
    <2>2. Forward(head, n) \in Slots
      BY <1>0 DEF Forward, Slots
    <2>3. Forward(head, n) \notin {Forward(head, d) : d \in 0 .. n - 1}
      BY <1>0 DEF Forward, Slots
    <2>4. slot'[Forward(head, n)] = RolledBack(slot[Forward(head, n)])
      BY <2>1, <2>2, <2>3
    <2> QED
      BY <1>3, <2>2, <2>4
  <1>6. CASE SeekPast
    <2>1. PICK n \in 1 .. NSlots :
            slot' = [i \in Slots |->
                       IF i \in {Backward(head, d) : d \in 0 .. n}
                         THEN RolledBack(slot[i]) ELSE slot[i]]
      BY <1>6 DEF SeekPast, PastDistances
    <2>2. 0 \in 0 .. n /\ Backward(head, 0) = head
      BY <1>0 DEF Backward, Slots
    <2>3. slot'[head] = RolledBack(slot[head])
      BY <1>0, <2>1, <2>2
    <2> QED
      BY <1>0, <1>3, <2>3
  <1> QED
    BY <1>4, <1>5, <1>6

\* The viewer leaves a full slot.
LEMMA OneLeftFull ==
  ASSUME FileOnly, TypeOK, HeldIsPop, TypeOK', Accounting', RecordedOK,
         MigratingOK, mig \in {"new", "run"}, [Next]_vars
  PROVE  fslots' > 0
  <1>0. fslots > 0 /\ fslots \in Int
    BY RingTypes DEF MigratingOK
  <1>1. CASE Pop
    <2>1. HasFile /\ ~is_rb_migrated /\ "underrun" \notin Env
      BY DEF MigratingOK, FileOnly
    <2>2. fslots > 1
      BY <1>1, <2>1 DEF Pop, CanPop
    <2>3. fslots' \in {fslots, fslots - 1}
      BY <1>0, <1>1 DEF Pop
    <2> QED
      BY <1>0, <2>2, <2>3
  <1>2. CASE SeekHead \/ SeekFuture \/ SeekPast
    <2>1. (TypeOK /\ Accounting /\ (\E i \in Slots : slot[i].state = "FULL")
             => fslots > 0)'
      BY SomeFull, PTL
    <2> QED
      BY <1>2, <2>1, SeekFindsFull
  <1>3. CASE \E i \in Slots : Release(i)
    <2>1. fslots' = fslots
      BY <1>3 DEF Release
    <2> QED
      BY <1>0, <2>1
  <1>4. CASE Quiet
    BY <1>0, <1>4, QuietRing
  <1> QED
    BY <1>1, <1>2, <1>3, <1>4, Steps, NoRefill, RingIsClosed

\* The tail stays where it is.
LEMMA TailStays ==
  ASSUME FileOnly, RecordedOK, MigratingOK, mig \in {"new", "run"},
         [Next]_vars
  PROVE  UNCHANGED <<tail, m_dk_offset>>
  <1> USE DEF ring, disk
  <1>1. CASE PushSpill \/ StopJoin \/ Pop
    BY <1>1 DEF PushSpill, StopJoin, Pop
  <1>2. CASE \E i \in Slots : Release(i)
    BY <1>2 DEF Release
  <1>3. CASE Eos \/ SeekFlush \/ StopRecording \/ Discard \/ SetAutoremove
               \/ UNCHANGED vars
    BY <1>3 DEF Eos, SeekFlush, StopRecording, Discard, SetAutoremove, vars
  <1>4. CASE \E o \in SeekOffsets : SeekCheck(o)
    BY <1>4 DEF SeekCheck
  <1>5. CASE Seek
    BY <1>5, NoRefill DEF Seek, SeekHead, SeekFuture, SeekPast, SeekNothing
  <1>6. CASE \E n \in PushSizes : PushDisk(n)
    BY <1>6 DEF PushDisk
  <1>7. CASE Migrate
    BY <1>7 DEF Migrate, MigrateStart, MigrateSkip, MigrateSlot, MigrateAbort,
                MigrateFinish
  <1> QED
    BY <1>1, <1>2, <1>3, <1>4, <1>5, <1>6, <1>7, RingIsClosed, NoRefill
       DEF Next, Continue, Begin

\* No call begins a refill.
LEMMA NoRefillBegins ==
  ASSUME FileOnly, TypeOK, RecordedOK, MigratingOK, mig \in {"new", "run"},
         [Next]_vars
  PROVE  op' # "reload"
  <1>0. op # "reload" /\ fslots > 0 /\ ~is_rb_migrated
    BY DEF MigratingOK
  <1> USE DEF call, client
  <1>1. CASE PushSpill \/ StopJoin
    BY <1>1 DEF PushSpill, StopJoin
  <1>2. CASE Pop
    BY <1>0, <1>2 DEF Pop
  <1>3. CASE \E i \in Slots : Release(i)
    BY <1>0, <1>3 DEF Release
  <1>4. CASE Eos \/ SeekFlush \/ StopRecording \/ Discard \/ SetAutoremove
               \/ UNCHANGED vars
    BY <1>0, <1>4 DEF Eos, SeekFlush, StopRecording, Discard, SetAutoremove,
                      vars
  <1>5. CASE \E o \in SeekOffsets : SeekCheck(o)
    BY <1>0, <1>5 DEF SeekCheck
  <1>6. CASE Seek
    BY <1>0, <1>6, NoRefill DEF Seek, SeekHead, SeekFuture, SeekPast,
                                SeekNothing
  <1>7. CASE \E n \in PushSizes : PushDisk(n)
    <2>1. fslots # 0
      BY <1>0, RingTypes
    <2> QED
      BY <1>0, <1>7, <2>1 DEF PushDisk
  <1>8. CASE Migrate
    BY <1>0, <1>8 DEF Migrate, MigrateStart, MigrateSkip, MigrateSlot,
                      MigrateAbort, MigrateFinish
  <1> QED
    BY <1>1, <1>2, <1>3, <1>4, <1>5, <1>6, <1>7, <1>8, RingIsClosed, NoRefill
       DEF Next, Continue, Begin

\* Every slot keeps the bytes it had when the recording began.
LEMMA BytesStay ==
  ASSUME FileOnly, TypeOK, HeldIsPop, RecordedOK, MigratingOK,
         mig \in {"new", "run"}, [Next]_vars, NEW i \in Slots
  PROVE  Whole(slot[i], Kept(Behind(i)))'
  <1> DEFINE o == Kept(Behind(i))
  <1>1. Whole(slot[i], o) /\ slot[i] \in SlotType
    BY RingTypes DEF MigratingOK
  <1>2. o' = o
    BY TailStays DEF Kept, Behind
  <1>3. Whole(slot'[i], o)
    <2>1. CASE slot'[i] \in
                 {slot[i], RolledBack(slot[i]), RolledForward(slot[i])}
      BY <1>1, <2>1, RollKept
    <2>2. CASE /\ slot'[i].state \in {"POP", "RECYCLE"}
               /\ slot'[i] = [slot[i] EXCEPT !.state = slot'[i].state]
      BY <1>1, <2>2 DEF Whole, SlotType
    <2> QED
      BY <2>1, <2>2, SlotSteps, NoRefill
  <1> QED
    BY <1>2, <1>3 DEF Whole

\* The thread moves on to the slot that follows.
LEMMA MigratingStep ==
  ASSUME FileOnly, TypeOK, HeldIsPop, TypeOK', Accounting', PlacesKept,
         RecordedOK, MigratingOK, mig # "off", [Next]_vars
  PROVE  MigratingOK'
  <1>0. /\ NSlots \in Nat \ {0} /\ SlotSize \in Nat \ {0} /\ tail \in Slots
        /\ Backward(tail, NSlots) = tail
    BY RingTypes, CacheAssumption DEF Backward, Slots
  <1>s. SUFFICES ASSUME mig' \in {"new", "run"}
                 PROVE  MigratingOK'
    BY DEF MigratingOK
  <1>1. CASE mig = "done"
    <2>1. ~Migrate
      BY <1>1 DEF Migrate, MigrateStart, MigrateSkip, MigrateSlot,
                  MigrateAbort, MigrateFinish
    <2>2. mig' = mig
      <3>1. PushSpill \/ (\E n \in PushSizes : PushDisk(n)) => mig' = mig
        BY DEF PushSpill, PushDisk, migrator
      <3> QED
        BY <2>1, <3>1, RecordingSteps DEF FileKept
    <2> QED
      BY <1>1, <1>s, <2>2
  <1>2. CASE mig \in {"new", "run"}
    <2>0. /\ ~is_rb_migrated /\ migLeft \in 0 .. NSlots
          /\ m_dk_pos = (NSlots - migLeft) * SlotSize
          /\ mig = "new" => migLeft = NSlots
          /\ mig = "run" /\ migLeft > 0 => migSlot = Backward(tail, migLeft)
          /\ \A i \in Slots : slot[i].state # "EMPTY"
      BY <1>2 DEF MigratingOK, Whole
    <2>1. /\ op' # "reload" /\ fslots' > 0 /\ tail' = tail
          /\ \A i \in Slots : Whole(slot[i], Kept(Behind(i)))'
      BY <1>2, NoRefillBegins, OneLeftFull, TailStays, BytesStay
    <2>2. /\ ~is_rb_migrated' /\ migLeft' \in 0 .. NSlots
          /\ m_dk_pos' = (NSlots - migLeft') * SlotSize
          /\ mig' = "new" => migLeft' = NSlots
          /\ mig' = "run" /\ migLeft' > 0 =>
               migSlot' = Backward(tail, migLeft')
      <3>1. CASE MigrateStart
        <4>1. /\ mig' = "run" /\ migSlot' = tail /\ migLeft' = NSlots
              /\ UNCHANGED <<is_rb_migrated, m_dk_pos, migLeft>>
          BY <2>0, <3>1 DEF MigrateStart, MigrationFirst, recording, disk
        <4> QED
          BY <1>0, <2>0, <4>1
      <3>2. CASE MigrateSlot
        <4>1. /\ mig = "run" /\ migLeft > 0 /\ mig' = mig
              /\ migLeft' = migLeft - 1 /\ migSlot' = NextSlot(migSlot)
              /\ is_rb_migrated' = is_rb_migrated
          BY <3>2 DEF MigrateSlot, MigrateNext, recording
        <4>2. /\ migLeft \in 1 .. NSlots /\ migSlot = Backward(tail, migLeft)
              /\ m_dk_pos + SlotSize = (NSlots - (migLeft - 1)) * SlotSize
          BY <4>1, ThreadFinds
        <4>3. m_dk_pos' = m_dk_pos + SlotSize
          BY <3>2, MigrateSlotPlaces
        <4>4. migLeft - 1 \in 0 .. NSlots
          BY <1>0, <4>2
        <4>5. NextSlot(Backward(tail, migLeft)) = Backward(tail, migLeft - 1)
          BY <1>0, <4>2 DEF NextSlot, Forward, Backward, Slots
        <4> QED
          BY <2>0, <4>1, <4>2, <4>3, <4>4, <4>5
      <3>3. ~MigrateSkip /\ ~MigrateAbort /\ ~MigrateFinish
        <4>1. migSlot \in Slots
          BY DEF TypeOK, PlacesOK
        <4> QED
          BY <1>s, <2>0, <4>1 DEF MigrateSkip, MigrateAbort, MigrateFinish
      <3>4. CASE FileKept \/ PushSpill \/ \E n \in PushSizes : PushDisk(n)
        <4>1. UNCHANGED <<is_rb_migrated, mig, migLeft, migSlot, m_dk_pos>>
          BY <3>4 DEF FileKept, PushSpill, PushDisk, recording, migrator
        <4> QED
          BY <2>0, <4>1
      <3> QED
        BY <3>1, <3>2, <3>3, <3>4, RecordingSteps DEF Migrate
    <2> QED
      BY <2>1, <2>2 DEF MigratingOK
  <1> QED
    BY <1>1, <1>2 DEF TypeOK, ProgressOK

\* Once the recording is told to stop it stays so, and whether the file is kept
\* is settled.
LEMMA StopStays ==
  ASSUME StopIsLast, stop_recording, [Next]_vars
  PROVE  stop_recording' /\ autoremove' = autoremove
  <1> USE DEF recording
  <1>1. CASE Continue
    BY <1>1 DEF Continue, PushSlot, PushOverflow, PushSpill, PushDrop,
                ReloadSlot, ReloadStop, StopJoin
  <1>2. CASE Migrate
    BY <1>2 DEF Migrate, MigrateStart, MigrateSkip, MigrateSlot, MigrateAbort,
                MigrateFinish
  <1>3. CASE \E n \in PushSizes : PushStart(n) \/ PushDisk(n)
    BY <1>3 DEF PushStart, PushDisk
  <1>4. CASE Pop \/ Eos \/ SeekFlush \/ ExplicitStart \/ StopRecording
               \/ Discard \/ UNCHANGED vars
    BY <1>4 DEF Pop, Eos, SeekFlush, ExplicitStart, StopRecording, Discard,
                vars
  <1>5. CASE \E i \in Slots : Release(i)
    BY <1>5 DEF Release
  <1>6. CASE \E o \in SeekOffsets : SeekCheck(o)
    BY <1>6 DEF SeekCheck
  <1>7. CASE Seek
    BY <1>7 DEF Seek, SeekHead, SeekFuture, SeekPast, SeekDisk, SeekNothing
  <1>8. CASE SetAutoremove
    BY <1>8 DEF SetAutoremove, StopIsLast
  <1> QED
    BY <1>1, <1>2, <1>3, <1>4, <1>5, <1>6, <1>7, <1>8 DEF Next, Begin

\* The thread gives up for a file that is not kept, or ends with the ring in
\* the file.
LEMMA MigratedStep ==
  ASSUME FileOnly, TypeOK, CallOwned, PlacesKept, RecordedOK, MigratingOK,
         MigratedOK, mig # "off", [Next]_vars
  PROVE  MigratedOK'
  <1>0. StopIsLast /\ StopIsLast'
    BY StopStaysLast DEF MigratedOK
  <1>1. /\ mig = "done" => is_rb_migrated \/ (autoremove /\ stop_recording)
        /\ is_rb_migrated =>
             mig = "done" /\ m_dk_pos = RingSize /\ l_dk_offset = m_dk_offset
    BY DEF MigratedOK
  <1>2. CASE MigrateStart \/ MigrateSkip \/ MigrateSlot
    <2>1. ~is_rb_migrated /\ mig' # "done" /\ is_rb_migrated' = is_rb_migrated
      BY <1>1, <1>2 DEF MigrateStart, MigrateSkip, MigrateSlot, recording
    <2> QED
      BY <1>0, <2>1 DEF MigratedOK
  <1>3. CASE MigrateAbort
    <2>1. /\ ~is_rb_migrated /\ is_rb_migrated' = is_rb_migrated
          /\ autoremove' /\ stop_recording'
      BY <1>1, <1>3 DEF MigrateAbort, Aborts, recording
    <2> QED
      BY <1>0, <2>1 DEF MigratedOK
  <1>4. CASE MigrateFinish
    <2>1. /\ mig = "run" /\ migLeft = 0
          /\ m_dk_pos = (NSlots - migLeft) * SlotSize
      BY <1>4 DEF MigrateFinish, MigratingOK
    <2>2. m_dk_pos = RingSize
      BY <2>1, CacheAssumption DEF RingSize
    <2>3. /\ l_dk_offset' = m_dk_offset' /\ m_dk_pos' = m_dk_pos
          /\ is_rb_migrated' /\ mig' = "done"
      BY <1>4 DEF MigrateFinish
    <2> QED
      BY <1>0, <2>2, <2>3 DEF MigratedOK, RingSize
  <1>5. CASE FileKept \/ PushSpill \/ \E n \in PushSizes : PushDisk(n)
    <2>1. UNCHANGED <<is_rb_migrated, mig, m_dk_pos, l_dk_offset, m_dk_offset>>
      BY <1>5 DEF FileKept, PushSpill, PushDisk, recording, migrator
    <2>2. autoremove /\ stop_recording => autoremove' /\ stop_recording'
      BY <1>0, StopStays
    <2> QED
      BY <1>0, <1>1, <2>1, <2>2 DEF MigratedOK, RingSize
  <1> QED
    BY <1>2, <1>3, <1>4, <1>5, RecordingSteps DEF Migrate

-----------------------------------------------------------------------------
(* Every step                                                              *)

\* Every step keeps the invariant.
LEMMA FileStep ==
  ASSUME FileOnly, Bookkeeping, FileInv, [Next]_vars
  PROVE  FileInv'
  <1>0. /\ TypeOK /\ HeldIsPop /\ CallOwned /\ TypeOK' /\ Accounting'
        /\ UnrecordedOK /\ RecordedOK /\ MigratingOK /\ MigratedOK
        /\ StopIsLast
    BY BookkeepingStep DEF Bookkeeping, FileInv, MigratedOK
  <1>1. CASE mig = "off" /\ PushOverflow
    <2>1. RecordedOK' /\ MigratingOK' /\ MigratedOK' /\ mig' = "new"
      BY <1>0, <1>1, BeginsRight DEF UnrecordedOK
    <2> QED
      BY <2>1 DEF FileInv, UnrecordedOK
  <1>2. CASE mig = "off" /\ ~PushOverflow
    <2>1. ~Begins /\ HasFile /\ "underrun" \notin Env
      BY <1>2 DEF FileOnly, Begins, ExplicitStart
    <2>2. /\ RingInv /\ ~thread /\ ~is_rb_migrated /\ file = <<>>
          /\ m_dk_pos = 0 /\ h_dk_offset = InvalidOffset
          /\ h_rb_offset > 0 => fslots > 0
      BY <1>0, <1>2 DEF UnrecordedOK
    <2>3. RingInv'
      <3>1. fslots > 0 \/ h_rb_offset = 0
        BY <1>0, <2>2, RingTypes
      <3> QED
        BY <2>1, <2>2, <3>1, RingStep
    <2>4. /\ UNCHANGED <<file, m_dk_pos, h_dk_offset, is_rb_migrated>>
          /\ ~thread'
      BY <1>0, <2>1, <2>2, NothingFiled
    <2>5. h_rb_offset' > 0 => fslots' > 0
      BY <1>0, <2>1, <2>2, OneStaysFull
    <2>6. UnrecordedOK'
      BY <2>2, <2>3, <2>4, <2>5 DEF UnrecordedOK
    <2>7. mig' = "off"
      BY <2>3 DEF RingInv, NoRecording
    <2>8. StopIsLast'
      BY <1>0, StopStaysLast
    <2> QED
      BY <2>2, <2>4, <2>6, <2>7, <2>8
         DEF FileInv, RecordedOK, MigratingOK, MigratedOK
  <1>3. CASE mig # "off"
    <2>1. RecordedOK' /\ mig' # "off"
      BY <1>0, <1>3, RecordedStep
    <2>2. PlacesKept
      BY <1>0, <1>3 DEF RecordedOK, PlacesKept
    <2>3. MigratingOK' /\ MigratedOK'
      BY <1>0, <1>3, <2>2, MigratingStep, MigratedStep
    <2> QED
      BY <2>1, <2>3 DEF FileInv, UnrecordedOK
  <1> QED
    BY <1>1, <1>2, <1>3

\* A new cache has no file.
LEMMA FileInit ==
  ASSUME Init
  PROVE  FileInv
  <1>1. RingInv
    BY RingInit
  <1>2. /\ ~thread /\ ~is_rb_migrated /\ file = <<>> /\ m_dk_pos = 0
        /\ h_dk_offset = InvalidOffset /\ h_rb_offset = 0 /\ mig = "off"
        /\ ~stop_recording
    BY DEF Init
  <1> QED
    BY <1>1, <1>2 DEF FileInv, UnrecordedOK, RecordedOK, MigratingOK,
                      MigratedOK, StopIsLast

\* The inductive invariant holds always.
LEMMA FileHolds ==
  ASSUME FileOnly
  PROVE  Spec => [](Bookkeeping /\ FileInv)
  <1>1. Init => Bookkeeping /\ FileInv
    BY BookkeepingInit, FileInit
  <1>2. Bookkeeping /\ FileInv /\ [Next]_vars => (Bookkeeping /\ FileInv)'
    BY BookkeepingStep, FileStep
  <1> QED
    BY <1>1, <1>2, PTL DEF Spec

-----------------------------------------------------------------------------
(* The theorems                                                            *)

\* What the file has when the ring is in it: the stream, without a gap.
LEMMA WholeFile ==
  ASSUME TypeOK, RecordedOK, MigratedOK, is_rb_migrated
  PROVE  /\ mig = "done" /\ l_dk_offset = m_dk_offset
         /\ w_dk_pos \in Nat /\ m_dk_offset + w_dk_pos = h_offset
         /\ file = Bytes(m_dk_offset, w_dk_pos)
  <1>1. /\ mig = "done" /\ m_dk_pos = RingSize /\ l_dk_offset = m_dk_offset
        /\ w_dk_pos >= RingSize /\ m_dk_offset + w_dk_pos = h_offset
        /\ ImageOf(file, m_dk_offset, m_dk_pos, w_dk_pos)
    BY DEF RecordedOK, MigratedOK
  <1>2. /\ w_dk_pos \in Int /\ m_dk_offset \in Nat /\ file \in Seq(Int)
        /\ RingSize \in Nat
    BY RingSizeType DEF TypeOK, NumbersOK
  <1>3. w_dk_pos \in Nat
    BY <1>1, <1>2
  <1>4. file = Bytes(m_dk_offset, w_dk_pos)
    BY <1>1, <1>2, <1>3, WholeImage
  <1> QED
    BY <1>1, <1>3, <1>4

\* A stretch of the stream.
LEMMA BytesSub ==
  ASSUME NEW from \in Int, NEW n \in Nat, NEW k \in Nat, NEW m \in Nat,
         k + m <= n
  PROVE  /\ SubSeq(Bytes(from, n), k + 1, k + m) = Bytes(from + k, m)
         /\ Len(Bytes(from + k, m)) = m
  <1> DEFINE s == Bytes(from, n)
             g == SubSeq(s, k + 1, k + m)
             b == Bytes(from + k, m)
  <1>1. s \in Seq(Int) /\ Len(s) = n /\ b \in Seq(Int) /\ Len(b) = m
    BY BytesType
  <1>2. \A p \in 1 .. n : s[p] = from + p - 1
    BY DEF Bytes
  <1>3. \A p \in 1 .. m : b[p] = from + k + p - 1
    BY DEF Bytes
  <1>d. g = SubSeq(s, k + 1, k + m)
    OBVIOUS
  <1> HIDE DEF s, g, b
  <1>4. g \in Seq(Int) /\ Len(g) = m /\ \A p \in 1 .. m : g[p] = s[k + p]
    BY <1>1, <1>d
  <1>5. \A p \in 1 .. m : g[p] = b[p]
    BY <1>1, <1>2, <1>3, <1>4
  <1>6. g = b
    BY <1>1, <1>4, <1>5, SeqEqual
  <1> QED
    BY <1>1, <1>6 DEF g, s, b

\* Pushes and the migration thread write no byte where another belongs.
THEOREM FileImageAlways ==
  ASSUME FileOnly
  PROVE  Spec => []FileImage
  <1>1. ASSUME TypeOK, FileInv, NEW p \in DOMAIN file
        PROVE  \/ file[p] = m_dk_offset + p - 1
               \/ file[p] = Hole /\ ~is_rb_migrated
    <2>1. /\ UnrecordedOK /\ RecordedOK /\ MigratedOK
          /\ p \in 1 .. Len(file) /\ file # <<>>
      BY <1>1 DEF FileInv, TypeOK, NumbersOK
    <2>2. mig # "off"
      BY <2>1 DEF UnrecordedOK
    <2>3. \/ file[p] = m_dk_offset + p - 1
          \/ file[p] = Hole /\ m_dk_pos < p /\ p <= RingSize
      BY <2>1, <2>2 DEF RecordedOK, ImageOf
    <2>4. is_rb_migrated => m_dk_pos = RingSize
      BY <2>1 DEF MigratedOK
    <2> QED
      BY <2>1, <2>3, <2>4, RingSizeType
  <1>2. Bookkeeping /\ FileInv => FileImage
    BY <1>1 DEF Bookkeeping, FileImage
  <1> QED
    BY <1>2, FileHolds, PTL

\* A file that is kept has the whole stream.
THEOREM KeptFileCompleteAlways ==
  ASSUME FileOnly
  PROVE  Spec => []KeptFileComplete
  <1>1. ASSUME TypeOK, FileInv, mig = "done", ~autoremove
        PROVE  file = Bytes(m_dk_offset, h_offset - m_dk_offset)
    <2>1. RecordedOK /\ MigratedOK /\ is_rb_migrated
      BY <1>1 DEF FileInv, MigratedOK
    <2>2. /\ w_dk_pos \in Nat /\ m_dk_offset + w_dk_pos = h_offset
          /\ file = Bytes(m_dk_offset, w_dk_pos) /\ m_dk_offset \in Nat
      BY <1>1, <2>1, WholeFile DEF TypeOK, NumbersOK
    <2>3. h_offset - m_dk_offset = w_dk_pos
      BY <2>2
    <2> QED
      BY <2>2, <2>3
  <1>2. Bookkeeping /\ FileInv => KeptFileComplete
    BY <1>1 DEF Bookkeeping, KeptFileComplete
  <1> QED
    BY <1>2, FileHolds, PTL

\* An offset that has_offset accepts of the file is in it, where a seek looks.
THEOREM DiskHasOffsetAlways ==
  ASSUME FileOnly
  PROVE  Spec => []DiskHasOffset
  <1>1. ASSUME TypeOK, FileInv, NEW o \in SeekOffsets, DiskUsable,
               h_dk_offset # InvalidOffset, HasOffset(o)
        PROVE  /\ o - l_dk_offset + 1 \in DOMAIN file
               /\ file[o - l_dk_offset + 1] = o
    <2>1. is_rb_migrated /\ RecordedOK /\ MigratedOK /\ o \in Int
      BY <1>1, CacheAssumption DEF FileInv, DiskUsable
    <2>2. /\ mig = "done" /\ l_dk_offset = m_dk_offset /\ w_dk_pos \in Nat
          /\ m_dk_offset + w_dk_pos = h_offset /\ m_dk_offset \in Nat
          /\ file = Bytes(m_dk_offset, w_dk_pos)
      BY <1>1, <2>1, WholeFile DEF TypeOK, NumbersOK
    <2>3. l_dk_offset <= o /\ o < h_offset
      BY <1>1, <2>1, <2>2 DEF HasOffset, RecordedOK
    <2>4. o - l_dk_offset + 1 \in 1 .. w_dk_pos
      BY <2>1, <2>2, <2>3
    <2> QED
      BY <2>1, <2>2, <2>4 DEF Bytes
  <1>2. Bookkeeping /\ FileInv => DiskHasOffset
    BY <1>1 DEF Bookkeeping, DiskHasOffset
  <1> QED
    BY <1>2, FileHolds, PTL

\* Where a seek into the file reads from is the offset it seeks to.
LEMMA SeekDiskAligned ==
  ASSUME FileOnly, TypeOK, FileInv, SeekDisk
  PROVE  h_rb_offset' = l_dk_offset + r_dk_pos'
  <1>1. DiskUsable /\ seek = "flushing"
    BY DEF SeekDisk, CanSeek
  <1>2. is_rb_migrated /\ RecordedOK /\ MigratedOK
    BY <1>1 DEF FileInv, DiskUsable
  <1>3. /\ mig = "done" /\ l_dk_offset \in Nat /\ w_dk_pos \in Nat
        /\ l_dk_offset + w_dk_pos = h_offset /\ want \in Nat
    BY <1>1, <1>2, WholeFile DEF TypeOK, NumbersOK, ProgressOK
  <1>4. /\ h_offset \in Nat /\ h_offset < InvalidOffset
        /\ InvalidOffset \in Nat /\ h_dk_offset \in {InvalidOffset, h_offset}
    BY <1>2, <1>3, RingTypes, CacheAssumption DEF RecordedOK
  <1>5. SeekOffset = Higher(Lower(want, h_dk_offset), l_dk_offset)
    BY <1>1 DEF SeekOffset
  <1>6. /\ SeekOffset \in Nat /\ l_dk_offset <= SeekOffset
        /\ SeekOffset <= InvalidOffset
    BY <1>3, <1>4, <1>5 DEF Higher, Lower
  <1> HIDE DEF SeekOffset
  <1>7. Minus(SeekOffset, l_dk_offset) = SeekOffset - l_dk_offset
    <2> DEFINE d == SeekOffset - l_dk_offset
               w == InvalidOffset + 1
    <2>1. d \in Nat /\ w \in Nat \ {0} /\ d < w
      BY <1>3, <1>4, <1>6
    <2> HIDE DEF d, w
    <2>2. d % w = d
      BY <2>1
    <2> QED
      BY <2>2 DEF Minus, d, w
  <1>8. r_dk_pos' = SeekOffset - l_dk_offset /\ h_rb_offset' = SeekOffset
    BY <1>7 DEF SeekDisk
  <1> QED
    BY <1>3, <1>6, <1>8

\* A refill of an aligned ring labels the bytes with their offset.
LEMMA ReloadAligned ==
  ASSUME FileOnly, TypeOK, FileInv, Aligned, ReloadSlot
  PROVE  /\ h_rb_offset' = l_dk_offset + r_dk_pos'
         /\ slot'[tail].data = Bytes(slot'[tail].offset, Len(slot'[tail].data))
         /\ \A i \in Slots : i # tail => slot'[i] = slot[i]
  <1>1. is_rb_migrated /\ h_rb_offset = l_dk_offset + r_dk_pos
          /\ RecordedOK /\ MigratedOK
    BY DEF Aligned, FileInv
  <1>2. /\ l_dk_offset \in Nat /\ r_dk_pos \in Nat /\ w_dk_pos \in Nat
        /\ file = Bytes(l_dk_offset, w_dk_pos)
        /\ Len(file) = w_dk_pos
    BY <1>1, WholeFile, BytesType DEF TypeOK, NumbersOK
  <1>3. ReadSize \in Nat /\ r_dk_pos + ReadSize <= Len(file)
    BY ReadSizeType DEF ReloadSlot, CanRead
  <1>4. /\ slot' = [slot EXCEPT ![tail] = Refilled]
        /\ h_rb_offset' = h_rb_offset + ReadSize
        /\ r_dk_pos' = r_dk_pos + ReadSize
    BY DEF ReloadSlot
  <1>5. slot \in [Slots -> SlotType] /\ tail \in Slots
    BY RingTypes
  <1> HIDE DEF ReadSize
  <1>6. h_rb_offset' = l_dk_offset + r_dk_pos'
    BY <1>1, <1>2, <1>3, <1>4
  <1>7. /\ SubSeq(file, r_dk_pos + 1, r_dk_pos + ReadSize)
             = Bytes(l_dk_offset + r_dk_pos, ReadSize)
        /\ Len(Bytes(l_dk_offset + r_dk_pos, ReadSize)) = ReadSize
    BY <1>2, <1>3, BytesSub
  <1>8. slot'[tail].data = Bytes(slot'[tail].offset, Len(slot'[tail].data))
    BY <1>1, <1>4, <1>5, <1>7 DEF Refilled
  <1> QED
    BY <1>4, <1>5, <1>6, <1>8

\* Nothing else moves the ring or the position in the file.
LEMMA OthersAligned ==
  ASSUME FileOnly, RecordedOK, mig # "off", TypeOK,
         [Next]_vars, ~ReloadSlot, ~SeekDisk
  PROVE  UNCHANGED <<h_rb_offset, r_dk_pos>>
  <1> USE DEF offsets, disk
  <1>1. CASE ReloadStop \/ PushSpill \/ StopJoin
    BY <1>1 DEF ReloadStop, PushSpill, StopJoin
  <1>2. CASE Pop
    <2>1. slot[head].state # "PART"
      BY RingTypes DEF RecordedOK
    <2> QED
      BY <1>2, <2>1 DEF Pop
  <1>3. CASE \E i \in Slots : Release(i)
    BY <1>3 DEF Release
  <1>4. CASE Eos \/ SeekFlush \/ StopRecording \/ Discard \/ SetAutoremove
               \/ UNCHANGED vars
    BY <1>4 DEF Eos, SeekFlush, StopRecording, Discard, SetAutoremove, vars
  <1>5. CASE \E o \in SeekOffsets : SeekCheck(o)
    BY <1>5 DEF SeekCheck
  <1>6. CASE Seek
    BY <1>6 DEF Seek, SeekHead, SeekFuture, SeekPast, SeekNothing
  <1>7. CASE \E n \in PushSizes : PushDisk(n)
    BY <1>7 DEF PushDisk
  <1>8. CASE Migrate
    BY <1>8 DEF Migrate, MigrateStart, MigrateSkip, MigrateSlot, MigrateAbort,
                MigrateFinish
  <1> QED
    BY <1>1, <1>2, <1>3, <1>4, <1>5, <1>6, <1>7, <1>8, RingIsClosed
       DEF Next, Continue, Begin

\* With the ring in the file, the file's window keeps its low end.
LEMMA WindowStays ==
  ASSUME FileOnly, RecordedOK, MigratedOK, is_rb_migrated, [Next]_vars
  PROVE  UNCHANGED <<is_rb_migrated, l_dk_offset>>
  <1>1. mig = "done"
    BY DEF MigratedOK
  <1>2. ~Migrate
    BY <1>1 DEF Migrate, MigrateStart, MigrateSkip, MigrateSlot, MigrateAbort,
                MigrateFinish
  <1>3. PushSpill \/ (\E n \in PushSizes : PushDisk(n))
          => UNCHANGED <<is_rb_migrated, l_dk_offset>>
    BY DEF PushSpill, PushDisk, recording
  <1> QED
    BY <1>1, <1>2, <1>3, RecordingSteps DEF FileKept

\* Once a seek has aligned the ring with the file they stay so, and a refilled
\* slot carries the bytes of its label.
THEOREM AlignedStaysAlways ==
  ASSUME FileOnly
  PROVE  Spec => AlignedStays
  <1> DEFINE Stays ==
        Aligned =>
          /\ Aligned'
          /\ \A i \in Slots : slot'[i].state = "FULL" /\ slot[i].state # "FULL"
                                /\ r_dk_pos' # r_dk_pos =>
               slot'[i].data = Bytes(slot'[i].offset, Len(slot'[i].data))
  <1>1. ASSUME TypeOK, FileInv, [Next]_vars, Aligned
        PROVE  Aligned' /\ \A i \in Slots :
                 slot'[i].state = "FULL" /\ slot[i].state # "FULL"
                   /\ r_dk_pos' # r_dk_pos =>
                 slot'[i].data = Bytes(slot'[i].offset, Len(slot'[i].data))
    <2>1. /\ is_rb_migrated /\ h_rb_offset = l_dk_offset + r_dk_pos
          /\ RecordedOK /\ MigratedOK
      BY <1>1 DEF Aligned, FileInv
    <2>2. UNCHANGED <<is_rb_migrated, l_dk_offset>> /\ mig # "off"
      BY <1>1, <2>1, WindowStays DEF MigratedOK
    <2>3. CASE ReloadSlot
      <3>1. /\ h_rb_offset' = l_dk_offset + r_dk_pos'
            /\ slot'[tail].data
                 = Bytes(slot'[tail].offset, Len(slot'[tail].data))
            /\ \A i \in Slots : i # tail => slot'[i] = slot[i]
        BY <1>1, <2>3, ReloadAligned
      <3> QED
        BY <2>1, <2>2, <3>1 DEF Aligned
    <2>4. CASE SeekDisk
      <3>1. h_rb_offset' = l_dk_offset + r_dk_pos'
        BY <1>1, <2>4, SeekDiskAligned
      <3>2. \A i \in Slots : slot'[i].state # "FULL"
        BY <2>4 DEF SeekDisk, EmptySlot
      <3> QED
        BY <2>1, <2>2, <3>1, <3>2 DEF Aligned
    <2>5. CASE ~ReloadSlot /\ ~SeekDisk
      <3>1. UNCHANGED <<h_rb_offset, r_dk_pos>>
        BY <1>1, <2>1, <2>2, <2>5, OthersAligned
      <3> QED
        BY <2>1, <2>2, <3>1 DEF Aligned
    <2> QED
      BY <2>3, <2>4, <2>5
  <1>2. Bookkeeping /\ FileInv /\ [Next]_vars => [Stays]_vars
    BY <1>1 DEF Bookkeeping
  <1> QED
    BY <1>2, FileHolds, PTL DEF Spec, AlignedStays

=============================================================================

------------------------- MODULE ShifterCacheSafety -------------------------
(***************************************************************************)
(* Proofs of the safety properties of ShifterCache that hold in every      *)
(* environment: a slot is in state POP exactly while its buffer is         *)
(* downstream, the bytes of such a buffer stay, the counter of full slots  *)
(* and the reference count are exact.                                      *)
(*                                                                         *)
(* They are proved together, as the inductive invariant Bookkeeping: a     *)
(* release counts right only if the slot it recycles was not full, which   *)
(* HeldIsPop tells; a reference is dropped only once, because a call under *)
(* the FLOW lock runs only while the element owns the cache (CallOwned).   *)
(***************************************************************************)
EXTENDS ShifterCacheProofs

CallOwned == op # "idle" => owned

Bookkeeping == TypeOK /\ HeldIsPop /\ Accounting /\ RefExact /\ CallOwned

-----------------------------------------------------------------------------
(* Slots that are downstream                                               *)

\* What every step but a pop and a release leaves alone.
HeldUntouched ==
  /\ held' = held
  /\ \A i \in Slots : /\ slot'[i].state = "POP" <=> slot[i].state = "POP"
                      /\ slot[i].state = "POP" => slot'[i] = slot[i]

\* Neither seek nor recycling touches a slot that is downstream.
LEMMA RollPop ==
  ASSUME NEW s
  PROVE  /\ RolledBack(s).state = "POP" <=> s.state = "POP"
         /\ RolledForward(s).state = "POP" <=> s.state = "POP"
         /\ Recycled(s).state = "POP" <=> s.state = "POP"
         /\ s.state = "POP" => RolledBack(s) = s /\ RolledForward(s) = s
                                 /\ Recycled(s) = s
  BY DEF RolledBack, RolledForward, Recycled, EmptySlot

\* A slot that may be written is neither downstream nor unread.
LEMMA AvailablePop ==
  ASSUME NEW s, Available(Recycled(s))
  PROVE  s.state # "POP" /\ s.state # "FULL"
  BY DEF Available, Recycled, EmptySlot

\* The refill writes to slots that are available only.
LEMMA ReloadSlotHeld ==
  ASSUME TypeOK, ReloadSlot
  PROVE  HeldUntouched
  <1>1. slot[tail].state # "POP"
    BY AvailablePop DEF ReloadSlot, CanRead
  <1>2. slot' = [slot EXCEPT ![tail] = Refilled] /\ held' = held
    BY DEF ReloadSlot, client
  <1>3. Refilled.state = "FULL"
    BY DEF Refilled
  <1> QED
    BY <1>1, <1>2, <1>3 DEF TypeOK, SlotsOK, PlacesOK, HeldUntouched

\* The refill that ends recycles the tail only when it is back.
LEMMA ReloadStopHeld ==
  ASSUME TypeOK, ReloadStop
  PROVE  HeldUntouched
  <1>1. slot' = [slot EXCEPT ![tail] = Recycled(slot[tail])] /\ held' = held
    BY DEF ReloadStop, client
  <1> QED
    BY <1>1, RollPop DEF TypeOK, SlotsOK, PlacesOK, HeldUntouched

\* Push writes to the tail only when it is available.
LEMMA PushSlotHeld ==
  ASSUME TypeOK, PushSlot
  PROVE  HeldUntouched
  <1>1. slot[tail].state # "POP"
    BY AvailablePop DEF PushSlot
  <1>2. /\ slot' = [slot EXCEPT ![tail] = slot'[tail]] /\ held' = held
        /\ slot'[tail].state \in {"FULL", "PART"}
    BY DEF PushSlot, client, TypeOK, SlotsOK, PlacesOK
  <1> QED
    BY <1>1, <1>2 DEF TypeOK, SlotsOK, PlacesOK, HeldUntouched

\* A seek inside the head's slot leaves one downstream as it is.
LEMMA SeekHeadHeld ==
  ASSUME TypeOK, SeekHead
  PROVE  HeldUntouched
  <1>1. slot' = [slot EXCEPT ![head] = RolledBack(slot[head])] /\ held' = held
    BY DEF SeekHead, SeekDone
  <1> QED
    BY <1>1, RollPop DEF TypeOK, SlotsOK, PlacesOK, HeldUntouched

\* Passing slots leaves those downstream as they are.
LEMMA SeekFutureHeld ==
  ASSUME TypeOK, SeekFuture
  PROVE  HeldUntouched
  <1>1. \A i \in Slots : slot'[i] \in
          {slot[i], RolledForward(slot[i]), RolledBack(slot[i])}
    BY DEF SeekFuture
  <1>2. held' = held
    BY DEF SeekFuture, SeekDone
  <1> QED
    BY <1>1, <1>2, RollPop DEF HeldUntouched

\* Taking slots back leaves those downstream as they are.
LEMMA SeekPastHeld ==
  ASSUME TypeOK, SeekPast
  PROVE  HeldUntouched
  <1>1. \A i \in Slots : slot'[i] \in {slot[i], RolledBack(slot[i])}
    BY DEF SeekPast
  <1>2. held' = held
    BY DEF SeekPast, SeekDone
  <1> QED
    BY <1>1, <1>2, RollPop DEF HeldUntouched

\* The ring is emptied for a refill only when nothing is downstream.
LEMMA SeekDiskHeld ==
  ASSUME TypeOK, HeldIsPop, SeekDisk
  PROVE  HeldUntouched
  <1>1. held = {} /\ held' = held
    BY DEF SeekDisk, SeekDone, CanSeek
  <1>2. \A i \in Slots : slot'[i].state = "EMPTY"
    BY DEF SeekDisk, EmptySlot
  <1> QED
    BY <1>1, <1>2 DEF HeldIsPop, HeldUntouched

\* Actions that leave slots and downstream alone.
LEMMA QuietHeld ==
  ASSUME UNCHANGED <<slot, held>>
  PROVE  HeldUntouched
  BY DEF HeldUntouched

\* The steps that touch neither a slot, the counter nor what is downstream.
Quiet ==
  \/ PushOverflow \/ PushSpill \/ PushDrop \/ StopJoin
  \/ Migrate
  \/ \E n \in PushSizes : PushStart(n) \/ PushDisk(n)
  \/ Eos \/ SeekFlush \/ SeekNothing
  \/ \E o \in SeekOffsets : SeekCheck(o)
  \/ ExplicitStart \/ StopRecording \/ Discard \/ SetAutoremove
  \/ UNCHANGED vars

\* The actions in Quiet are such.
LEMMA QuietRing ==
  ASSUME Quiet
  PROVE  UNCHANGED <<slot, held, fslots>>
  <1> USE DEF ring, client
  <1>1. CASE PushOverflow \/ PushSpill \/ PushDrop \/ StopJoin
    BY <1>1 DEF PushOverflow, PushSpill, PushDrop, StopJoin
  <1>2. CASE Migrate
    BY <1>2 DEF Migrate, MigrateStart, MigrateSkip, MigrateSlot, MigrateAbort,
                MigrateFinish
  <1>3. CASE \E n \in PushSizes : PushStart(n) \/ PushDisk(n)
    BY <1>3 DEF PushStart, PushDisk
  <1>4. CASE Eos \/ SeekFlush \/ SeekNothing
    BY <1>4 DEF Eos, SeekFlush, SeekNothing, SeekDone
  <1>5. CASE \E o \in SeekOffsets : SeekCheck(o)
    BY <1>5 DEF SeekCheck
  <1>6. CASE ExplicitStart \/ StopRecording \/ Discard \/ SetAutoremove
    BY <1>6 DEF ExplicitStart, StopRecording, Discard, SetAutoremove
  <1>7. CASE UNCHANGED vars
    BY <1>7 DEF vars
  <1> QED
    BY <1>1, <1>2, <1>3, <1>4, <1>5, <1>6, <1>7 DEF Quiet

\* The steps as the proofs below take them apart.
LEMMA Steps ==
  ASSUME [Next]_vars
  PROVE  \/ ReloadSlot \/ ReloadStop \/ PushSlot
         \/ SeekHead \/ SeekFuture \/ SeekPast \/ SeekDisk
         \/ Pop \/ \E i \in Slots : Release(i)
         \/ Quiet
  BY DEF Next, Continue, Begin, Seek, Quiet

\* Only pop and release change what is downstream.
LEMMA StepHeld ==
  ASSUME TypeOK, HeldIsPop, [Next]_vars
  PROVE  \/ HeldUntouched
         \/ Pop
         \/ \E i \in Slots : Release(i)
  BY Steps, ReloadSlotHeld, ReloadStopHeld, PushSlotHeld, SeekHeadHeld,
     SeekFutureHeld, SeekPastHeld, SeekDiskHeld, QuietRing, QuietHeld

\* Pop gives one slot with data, the head, downstream.
LEMMA PopHeld ==
  ASSUME TypeOK, Pop
  PROVE  /\ slot' = [slot EXCEPT ![head].state = "POP"]
         /\ held' = held \cup {head}
         /\ slot[head].state \in {"FULL", "PART"}
         /\ head \in Slots /\ slot \in [Slots -> SlotType]
  BY DEF Pop, TypeOK, SlotsOK, PlacesOK

\* Every step keeps slots in POP and buffers downstream together.
LEMMA HeldIsPopStep ==
  ASSUME TypeOK, HeldIsPop, [Next]_vars
  PROVE  HeldIsPop'
  <1>1. CASE HeldUntouched
    BY <1>1 DEF HeldUntouched, HeldIsPop
  <1>2. CASE Pop
    BY <1>2, PopHeld DEF HeldIsPop, SlotType
  <1>3. ASSUME NEW i \in Slots, Release(i) PROVE HeldIsPop'
    BY <1>3 DEF Release, TypeOK, SlotsOK, SlotType, HeldIsPop
  <1> QED
    BY <1>1, <1>2, <1>3, StepHeld

\* No step changes a slot that is downstream before and after it.
LEMMA HeldBytesStep ==
  ASSUME TypeOK, HeldIsPop, [Next]_vars
  PROVE  \A i \in held \cap held' :
           slot'[i].data = slot[i].data /\ slot'[i].offset = slot[i].offset
  <1>0. held \subseteq Slots
    BY DEF TypeOK, PlacesOK
  <1>1. CASE HeldUntouched
    BY <1>0, <1>1 DEF HeldUntouched, HeldIsPop
  <1>2. CASE Pop
    <2>1. slot[head] \in SlotType
      BY <1>2, PopHeld
    <2>2. slot'[head].data = slot[head].data
            /\ slot'[head].offset = slot[head].offset
      BY <1>2, <2>1, PopHeld DEF SlotType
    <2>3. \A i \in Slots : i # head => slot'[i] = slot[i]
      BY <1>2, PopHeld
    <2> QED
      BY <1>0, <2>2, <2>3
  <1>3. ASSUME NEW i \in Slots, Release(i)
        PROVE  \A j \in held \cap held' : slot'[j] = slot[j]
    BY <1>0, <1>3 DEF Release, TypeOK, SlotsOK
  <1> QED
    BY <1>1, <1>2, <1>3, StepHeld

-----------------------------------------------------------------------------
(* The counter of full slots                                               *)

\* One slot more.
LEMMA CountAdd ==
  ASSUME NEW P \in SUBSET Slots, NEW x \in Slots, x \notin P
  PROVE  Cardinality(P \cup {x}) = Cardinality(P) + 1
  BY CardinalityInt, FS_AddElement

\* One slot less.
LEMMA CountRemove ==
  ASSUME NEW P \in SUBSET Slots, NEW x \in P
  PROVE  Cardinality(P \ {x}) = Cardinality(P) - 1
  BY CardinalityInt, FS_RemoveElement

\* Slots of two sets that have none in common.
LEMMA CountDisjoint ==
  ASSUME NEW P \in SUBSET Slots, NEW Q \in SUBSET Slots, P \cap Q = {}
  PROVE  Cardinality(P \cup Q) = Cardinality(P) + Cardinality(Q)
  <1>1. /\ IsFiniteSet(P) /\ Cardinality(P) \in Nat
        /\ IsFiniteSet(Q) /\ Cardinality(Q) \in Nat
    BY CardinalityInt
  <1>2. Cardinality(P \cup Q)
          = Cardinality(P) + Cardinality(Q) - Cardinality(P \cap Q)
    BY <1>1, FS_Union
  <1>3. Cardinality(P \cap Q) = 0
    BY FS_EmptySet
  <1> QED
    BY <1>1, <1>2, <1>3

\* Slots of a set without those of a part of it.
LEMMA CountWithin ==
  ASSUME NEW P \in SUBSET Slots, NEW Q \in SUBSET P
  PROVE  Cardinality(P \ Q) = Cardinality(P) - Cardinality(Q)
  <1>1. Q \in SUBSET Slots /\ P \ Q \in SUBSET Slots
    OBVIOUS
  <1>2. (P \ Q) \cup Q = P /\ (P \ Q) \cap Q = {}
    OBVIOUS
  <1>3. Cardinality(P) = Cardinality(P \ Q) + Cardinality(Q)
    BY <1>1, <1>2, CountDisjoint
  <1>4. Cardinality(P) \in Nat /\ Cardinality(Q) \in Nat
          /\ Cardinality(P \ Q) \in Nat
    BY <1>1, CardinalityInt
  <1> QED
    BY <1>3, <1>4

\* Full slots are slots.
LEMMA FullIn == FullSlots \in SUBSET Slots
  BY DEF FullSlots

\* A slot that is refilled counts as full at once.
LEMMA ReloadSlotCount ==
  ASSUME TypeOK, Accounting, ReloadSlot
  PROVE  Accounting'
  <1>1. tail \in Slots /\ tail \notin FullSlots
    BY AvailablePop DEF ReloadSlot, CanRead, FullSlots, TypeOK, PlacesOK
  <1>2. FullSlots' = FullSlots \cup {tail}
    <2>1. slot' = [slot EXCEPT ![tail] = Refilled] /\ Refilled.state = "FULL"
      BY DEF ReloadSlot, Refilled
    <2> QED
      BY <1>1, <2>1 DEF FullSlots, TypeOK, SlotsOK
  <1>3. fslots' = fslots + 1
    BY DEF ReloadSlot
  <1>4. Cardinality(FullSlots \cup {tail}) = Cardinality(FullSlots) + 1
    BY <1>1, FullIn, CountAdd
  <1> QED
    BY <1>2, <1>3, <1>4 DEF Accounting

\* The refill that ends leaves the count alone.
LEMMA ReloadStopCount ==
  ASSUME TypeOK, Accounting, ReloadStop
  PROVE  Accounting'
  <1>1. slot' = [slot EXCEPT ![tail] = Recycled(slot[tail])]
    BY DEF ReloadStop
  <1>2. Recycled(slot[tail]).state = "FULL" <=> slot[tail].state = "FULL"
    BY DEF Recycled, EmptySlot
  <1>3. FullSlots' = FullSlots
    BY <1>1, <1>2 DEF FullSlots, TypeOK, SlotsOK, PlacesOK
  <1> QED
    BY <1>3 DEF ReloadStop, Accounting

\* A slot counts when push has filled it, not before.
LEMMA PushSlotCount ==
  ASSUME TypeOK, Accounting, PushSlot
  PROVE  Accounting'
  <1>1. tail \in Slots /\ tail \notin FullSlots
    BY AvailablePop DEF PushSlot, FullSlots, TypeOK, PlacesOK
  <1>2. slot \in [Slots -> SlotType]
    BY DEF TypeOK, SlotsOK
  <1>3. \/ slot'[tail].state = "FULL" /\ fslots' = fslots + 1
        \/ slot'[tail].state = "PART" /\ fslots' = fslots
    BY <1>1, <1>2 DEF PushSlot
  <1>4. slot' = [slot EXCEPT ![tail] = slot'[tail]]
    BY <1>1, <1>2 DEF PushSlot
  <1>5. CASE slot'[tail].state = "FULL" /\ fslots' = fslots + 1
    <2>1. FullSlots' = FullSlots \cup {tail}
      BY <1>1, <1>2, <1>4, <1>5 DEF FullSlots
    <2>2. Cardinality(FullSlots \cup {tail}) = Cardinality(FullSlots) + 1
      BY <1>1, FullIn, CountAdd
    <2> QED
      BY <1>5, <2>1, <2>2 DEF Accounting
  <1>6. CASE slot'[tail].state = "PART" /\ fslots' = fslots
    <2>1. FullSlots' = FullSlots
      BY <1>1, <1>2, <1>4, <1>6 DEF FullSlots
    <2> QED
      BY <1>6, <2>1 DEF Accounting
  <1> QED
    BY <1>3, <1>5, <1>6

\* Pop takes a full slot and counts it, or the tail and does not.
LEMMA PopCount ==
  ASSUME TypeOK, Accounting, Pop
  PROVE  Accounting'
  <1>1. /\ slot' = [slot EXCEPT ![head].state = "POP"]
        /\ head \in Slots /\ slot \in [Slots -> SlotType]
    BY PopHeld
  <1>2. slot'[head].state = "POP" /\ \A i \in Slots \ {head} : slot'[i] = slot[i]
    BY <1>1 DEF SlotType
  <1>3. FullSlots' = FullSlots \ {head}
    BY <1>1, <1>2 DEF FullSlots
  <1>n. fslots \in Int
    BY DEF TypeOK, NumbersOK
  <1>4. CASE slot[head].state = "FULL"
    <2>1. fslots' = fslots - 1
      BY <1>4, <1>n DEF Pop
    <2>2. head \in FullSlots
      BY <1>1, <1>4 DEF FullSlots
    <2>3. Cardinality(FullSlots \ {head}) = Cardinality(FullSlots) - 1
      BY <2>2, FullIn, CountRemove
    <2> QED
      BY <1>3, <2>1, <2>3 DEF Accounting
  <1>5. CASE slot[head].state = "PART"
    <2>1. fslots' = fslots
      <3>1. is_eos
        BY <1>5 DEF Pop
      <3> QED
        BY <1>5, <1>n, <3>1 DEF Pop
    <2>2. FullSlots \ {head} = FullSlots
      BY <1>5 DEF FullSlots
    <2> QED
      BY <1>3, <2>1, <2>2 DEF Accounting
  <1> QED
    BY <1>4, <1>5, PopHeld

\* A slot that comes back was not counted.
LEMMA ReleaseCount ==
  ASSUME TypeOK, HeldIsPop, Accounting, NEW i \in Slots, Release(i)
  PROVE  Accounting'
  <1>1. slot[i].state = "POP" /\ slot' = [slot EXCEPT ![i].state = "RECYCLE"]
    BY DEF Release, HeldIsPop
  <1>2. FullSlots' = FullSlots
    BY <1>1 DEF FullSlots, TypeOK, SlotsOK, SlotType
  <1> QED
    BY <1>2 DEF Release, Accounting

\* Taken back, a recycled slot is full again; passed, none is.
LEMMA RollFull ==
  ASSUME NEW s
  PROVE  /\ RolledBack(s).state = "FULL" <=> s.state \in {"FULL", "RECYCLE"}
         /\ RolledForward(s).state # "FULL"
  BY DEF RolledBack, RolledForward

\* Rolling the slots of P back adds the ones that were recyclable.
LEMMA RegainCount ==
  ASSUME NEW P \in SUBSET Slots, NEW F \in SUBSET FullSlots
  PROVE  Cardinality(F \cup {i \in P : slot[i].state = "RECYCLE"})
           = Cardinality(F) + Regained(P)
  <1> DEFINE R == {i \in P : slot[i].state = "RECYCLE"}
  <1>1. R \in SUBSET Slots /\ F \in SUBSET Slots /\ F \cap R = {}
    BY FullIn DEF FullSlots
  <1>2. Cardinality(F \cup R) = Cardinality(F) + Cardinality(R)
    BY <1>1, CountDisjoint
  <1> QED
    BY <1>2 DEF Regained

\* A head slot that a seek made full again is counted.
LEMMA SeekHeadCount ==
  ASSUME TypeOK, Accounting, SeekHead
  PROVE  Accounting'
  <1>1. /\ slot' = [slot EXCEPT ![head] = RolledBack(slot[head])]
        /\ fslots' = fslots + Regained({head})
        /\ head \in Slots /\ slot \in [Slots -> SlotType]
    BY DEF SeekHead, TypeOK, PlacesOK, SlotsOK
  <1>2. FullSlots' = FullSlots \cup {i \in {head} : slot[i].state = "RECYCLE"}
    BY <1>1, RollFull DEF FullSlots
  <1>3. Cardinality(FullSlots') = Cardinality(FullSlots) + Regained({head})
    BY <1>1, <1>2, RegainCount
  <1> QED
    BY <1>1, <1>3 DEF Accounting

\* A seek back adds the slots that it made full again.
LEMMA SeekPastCount ==
  ASSUME TypeOK, Accounting, SeekPast
  PROVE  Accounting'
  <1>p. PICK n \in PastDistances :
          LET visited == {Backward(head, d) : d \in 0 .. n}
          IN /\ slot' = [i \in Slots |->
                           IF i \in visited THEN RolledBack(slot[i])
                           ELSE slot[i]]
             /\ fslots' = fslots + Regained(visited)
    BY DEF SeekPast
  <1> DEFINE visited == {Backward(head, d) : d \in 0 .. n}
             regained == {i \in visited : slot[i].state = "RECYCLE"}
  <1>1. visited \in SUBSET Slots
    BY BackwardIn, CacheAssumption DEF PastDistances, TypeOK, PlacesOK
  <1>2. \A i \in Slots :
          slot'[i] = IF i \in visited THEN RolledBack(slot[i]) ELSE slot[i]
    BY <1>p
  <1>3. fslots' = fslots + Regained(visited)
    BY <1>p
  <1> HIDE DEF visited
  <1>4. FullSlots' = FullSlots \cup regained
    BY <1>1, <1>2, RollFull DEF FullSlots
  <1>5. Cardinality(FullSlots \cup regained)
          = Cardinality(FullSlots) + Regained(visited)
    BY <1>1, RegainCount
  <1> QED
    BY <1>3, <1>4, <1>5 DEF Accounting

\* The slot that is sought is none of those that are skipped on the way.
LEMMA SeekFutureCount ==
  ASSUME TypeOK, Accounting, SeekFuture
  PROVE  Accounting'
  <1>p. PICK n \in FutureDistances :
          LET target == Forward(head, n)
              skipped == {Forward(head, d) : d \in 0 .. n - 1}
          IN /\ slot' = [i \in Slots |->
                           IF i \in skipped THEN RolledForward(slot[i])
                           ELSE IF i = target THEN RolledBack(slot[i])
                           ELSE slot[i]]
             /\ fslots' = fslots - GivenUp(skipped) + Regained({target})
    BY DEF SeekFuture
  <1> DEFINE target == Forward(head, n)
             skipped == {Forward(head, d) : d \in 0 .. n - 1}
             given == {i \in skipped : slot[i].state = "FULL"}
             kept == FullSlots \ given
             regained == {i \in {target} : slot[i].state = "RECYCLE"}
  <1>n. n \in 1 .. NSlots - 1 /\ head \in Slots
    BY DEF FutureDistances, TypeOK, PlacesOK
  <1>1. target \in Slots /\ skipped \in SUBSET Slots
    BY <1>n, ForwardIn, CacheAssumption
  <1>2. target \notin skipped
    BY <1>n, ForwardInjective, CacheAssumption
  <1>3. \A i \in Slots :
          slot'[i] = IF i \in skipped THEN RolledForward(slot[i])
                     ELSE IF i = target THEN RolledBack(slot[i])
                     ELSE slot[i]
    BY <1>p
  <1>4. fslots' = fslots - GivenUp(skipped) + Regained({target})
    BY <1>p
  <1> HIDE DEF target, skipped
  <1>5. FullSlots' = kept \cup regained
    BY <1>1, <1>2, <1>3, RollFull DEF FullSlots
  <1>6. Cardinality(kept \cup regained) = Cardinality(kept) + Regained({target})
    <2>1. {target} \in SUBSET Slots /\ kept \in SUBSET FullSlots
      BY <1>1
    <2> HIDE DEF kept
    <2> QED
      BY <2>1, RegainCount
  <1>7. Cardinality(kept) = Cardinality(FullSlots) - GivenUp(skipped)
    <2>1. given \in SUBSET FullSlots
      BY <1>1 DEF FullSlots
    <2>2. GivenUp(skipped) = Cardinality(given)
      BY DEF GivenUp
    <2> HIDE DEF given
    <2> QED
      BY <2>1, <2>2, FullIn, CountWithin
  <1> QED
    BY <1>4, <1>5, <1>6, <1>7 DEF Accounting

\* With the ring reset no slot is full and none is counted.
LEMMA SeekDiskCount ==
  ASSUME TypeOK, SeekDisk
  PROVE  Accounting'
  <1>1. FullSlots' = {}
    BY DEF SeekDisk, EmptySlot, FullSlots
  <1> QED
    BY <1>1, FS_EmptySet DEF SeekDisk, Accounting

\* Every step keeps fslots the number of full slots.
LEMMA AccountingStep ==
  ASSUME TypeOK, HeldIsPop, Accounting, [Next]_vars
  PROVE  Accounting'
  <1>1. CASE Quiet
    BY <1>1, QuietRing DEF FullSlots, Accounting
  <1> QED
    BY <1>1, Steps, ReloadSlotCount, ReloadStopCount, PushSlotCount, PopCount,
       ReleaseCount, SeekHeadCount, SeekPastCount, SeekFutureCount,
       SeekDiskCount

-----------------------------------------------------------------------------
(* The reference count                                                     *)

Migrating == mig \in {"new", "run"}

\* What the steps that neither take nor drop a reference leave alone.
RefsUntouched ==
  /\ UNCHANGED <<refcount, held, owned>>
  /\ Migrating' <=> Migrating

\* Where no holder comes or goes the count stays right.
LEMMA RefsKept ==
  ASSUME RefExact, RefsUntouched
  PROVE  RefExact'
  BY DEF RefExact, RefsUntouched, Migrating

\* Calls that push or refill take and drop no reference.
LEMMA RefsUntouchedCalls ==
  ASSUME ReloadSlot \/ ReloadStop \/ PushSlot \/ PushSpill \/ PushDrop
           \/ \E n \in PushSizes : PushStart(n) \/ PushDisk(n)
  PROVE  RefsUntouched
  BY DEF ReloadSlot, ReloadStop, PushSlot, PushSpill, PushDrop, PushStart,
         PushDisk, client, migrator, RefsUntouched, Migrating

\* Seeks and the end of the stream take and drop no reference.
LEMMA RefsUntouchedSeek ==
  ASSUME Seek \/ Eos \/ SeekFlush \/ \E o \in SeekOffsets : SeekCheck(o)
  PROVE  RefsUntouched
  BY DEF Seek, SeekHead, SeekFuture, SeekPast, SeekDisk, SeekNothing, SeekDone,
         Eos, SeekFlush, SeekCheck, client, migrator, RefsUntouched, Migrating

\* Nor does the thread at work, or the order to stop it.
LEMMA RefsUntouchedOther ==
  ASSUME MigrateStart \/ MigrateSkip \/ MigrateSlot \/ StopRecording
           \/ SetAutoremove \/ UNCHANGED vars
  PROVE  RefsUntouched
  BY DEF MigrateStart, MigrateSkip, MigrateSlot, MigrateNext, StopRecording,
         SetAutoremove, vars, client, migrator, RefsUntouched, Migrating

\* The reference that start takes is the thread's.
LEMMA StartRecordingRefs ==
  ASSUME TypeOK, RefExact, StartRecording, UNCHANGED client
  PROVE  RefExact'
  <1>1. CASE thread \/ stop_recording
    BY <1>1, RefsKept DEF StartRecording, client, migrator, RefsUntouched,
                          Migrating
  <1>2. CASE ~(thread \/ stop_recording)
    <2>1. mig \notin {"new", "run"} /\ mig' = "new"
            /\ refcount' = refcount + 1
      BY <1>2 DEF StartRecording, TypeOK, ProgressOK
    <2>2. owned' = owned /\ held' = held
      BY DEF client
    <2>3. Cardinality(held) \in Nat
      BY CardinalityInt DEF TypeOK, PlacesOK
    <2> QED
      BY <2>1, <2>2, <2>3 DEF RefExact
  <1> QED
    BY <1>1, <1>2

\* The reference that pop takes is the buffer's.
LEMMA PopRefs ==
  ASSUME TypeOK, HeldIsPop, RefExact, Pop
  PROVE  RefExact'
  <1>1. head \in Slots /\ head \notin held /\ held \in SUBSET Slots
    BY PopHeld DEF HeldIsPop, TypeOK, PlacesOK
  <1>2. /\ held' = held \cup {head} /\ refcount' = refcount + 1
        /\ UNCHANGED <<owned, mig>>
    BY DEF Pop, migrator
  <1>3. Cardinality(held') = Cardinality(held) + 1 /\ Cardinality(held) \in Nat
    BY <1>1, <1>2, CountAdd, CardinalityInt
  <1> QED
    BY <1>2, <1>3 DEF RefExact

\* The reference of a buffer is dropped with it.
LEMMA ReleaseRefs ==
  ASSUME TypeOK, RefExact, NEW i \in Slots, Release(i)
  PROVE  RefExact'
  <1>1. i \in held /\ held \in SUBSET Slots
    BY DEF Release, TypeOK, PlacesOK
  <1>2. /\ held' = held \ {i} /\ refcount' = refcount - 1
        /\ UNCHANGED <<owned, mig>>
    BY DEF Release, migrator
  <1>3. Cardinality(held') = Cardinality(held) - 1 /\ Cardinality(held) \in Nat
    BY <1>1, <1>2, CountRemove, CardinalityInt
  <1> QED
    BY <1>2, <1>3 DEF RefExact

\* The element drops its reference.
LEMMA DisownRefs ==
  ASSUME TypeOK, RefExact, CallOwned, StopJoin \/ Discard
  PROVE  RefExact'
  <1>1. owned /\ ~owned'
    BY DEF StopJoin, Discard, CallOwned
  <1>2. refcount' = refcount - 1 /\ UNCHANGED <<held, mig>>
    BY DEF StopJoin, Discard, migrator
  <1>3. Cardinality(held) \in Nat
    BY CardinalityInt DEF TypeOK, PlacesOK
  <1> QED
    BY <1>1, <1>2, <1>3 DEF RefExact

\* The migration thread drops its own.
LEMMA MigrateEndRefs ==
  ASSUME TypeOK, RefExact, MigrateAbort \/ MigrateFinish
  PROVE  RefExact'
  <1>1. mig = "run" /\ mig' = "done" /\ refcount' = refcount - 1
    BY DEF MigrateAbort, MigrateFinish
  <1>2. held' = held /\ owned' = owned
    BY DEF MigrateAbort, MigrateFinish, client
  <1>3. Cardinality(held) \in Nat
    BY CardinalityInt DEF TypeOK, PlacesOK
  <1> QED
    BY <1>1, <1>2, <1>3 DEF RefExact

\* Every step keeps the count the number of holders.
LEMMA RefExactStep ==
  ASSUME TypeOK, HeldIsPop, RefExact, CallOwned, [Next]_vars
  PROVE  RefExact'
  <1>1. CASE PushOverflow
    BY <1>1, StartRecordingRefs DEF PushOverflow
  <1>2. CASE ExplicitStart
    BY <1>2, StartRecordingRefs DEF ExplicitStart
  <1>3. CASE Pop \/ \E i \in Slots : Release(i)
    BY <1>3, PopRefs, ReleaseRefs
  <1>4. CASE StopJoin \/ Discard \/ MigrateAbort \/ MigrateFinish
    BY <1>4, DisownRefs, MigrateEndRefs
  <1>5. CASE RefsUntouched
    BY <1>5, RefsKept
  <1> QED
    BY <1>1, <1>2, <1>3, <1>4, <1>5, RefsUntouchedCalls, RefsUntouchedSeek,
       RefsUntouchedOther DEF Next, Continue, Migrate, Begin

-----------------------------------------------------------------------------
(* A call runs only on a cache that the element owns                       *)

\* A call is begun by the element, and only its end gives the cache up.
LEMMA CallOwnedStep ==
  ASSUME CallOwned, [Next]_vars
  PROVE  CallOwned'
  <1> USE DEF CallOwned, call, client
  <1>1. CASE PushSlot \/ PushOverflow \/ PushSpill \/ PushDrop
               \/ ReloadSlot \/ ReloadStop
    BY <1>1 DEF PushSlot, PushOverflow, PushSpill, PushDrop, ReloadSlot,
                ReloadStop
  <1>2. CASE StopJoin \/ Discard
    BY <1>2 DEF StopJoin, Discard
  <1>3. CASE Migrate
    BY <1>3 DEF Migrate, MigrateStart, MigrateSkip, MigrateSlot, MigrateAbort,
                MigrateFinish
  <1>4. CASE \E n \in PushSizes : PushStart(n) \/ PushDisk(n)
    <2>1. owned
      BY <1>4 DEF PushStart, PushDisk, CanPush
    <2>2. owned' = owned
      BY <1>4 DEF PushStart, PushDisk
    <2> QED
      BY <2>1, <2>2
  <1>5. CASE Pop \/ \E i \in Slots : Release(i)
    BY <1>5 DEF Pop, CanPop, Release
  <1>6. CASE Seek
    BY <1>6 DEF Seek, SeekHead, SeekFuture, SeekPast, SeekDisk, SeekNothing,
                CanSeek, SeekDone
  <1>7. CASE Eos \/ SeekFlush \/ \E o \in SeekOffsets : SeekCheck(o)
    BY <1>7 DEF Eos, SeekFlush, SeekCheck
  <1>8. CASE ExplicitStart \/ StopRecording \/ SetAutoremove
    BY <1>8 DEF ExplicitStart, StopRecording, SetAutoremove
  <1>9. CASE UNCHANGED vars
    BY <1>9 DEF vars
  <1> QED
    BY <1>1, <1>2, <1>3, <1>4, <1>5, <1>6, <1>7, <1>8, <1>9
       DEF Next, Continue, Begin

-----------------------------------------------------------------------------
(* The theorems                                                            *)

\* A cache that was made has one holder and no slot in use.
LEMMA BookkeepingInit == Init => Bookkeeping
  <1> SUFFICES ASSUME Init PROVE Bookkeeping
    OBVIOUS
  <1>1. TypeOK
    BY InitType
  <1>2. HeldIsPop /\ FullSlots = {}
    BY DEF Init, EmptySlot, HeldIsPop, FullSlots
  <1>3. Accounting /\ RefExact
    BY <1>2, FS_EmptySet DEF Init, Accounting, RefExact
  <1>4. CallOwned
    BY DEF Init, CallOwned
  <1> QED
    BY <1>1, <1>2, <1>3, <1>4 DEF Bookkeeping

\* Every step keeps slots, counter and references together.
LEMMA BookkeepingStep == Bookkeeping /\ [Next]_vars => Bookkeeping'
  BY StepType, HeldIsPopStep, AccountingStep, RefExactStep, CallOwnedStep
     DEF Bookkeeping

\* The inductive invariant holds always.
LEMMA BookkeepingHolds == Spec => []Bookkeeping
  BY BookkeepingInit, BookkeepingStep, PTL DEF Spec

\* A slot is in state POP exactly while the buffer that wraps its memory is
\* downstream or about to be returned: no push, refill or seek takes it.
THEOREM HeldIsPopAlways == Spec => []HeldIsPop
  <1>1. Bookkeeping => HeldIsPop
    BY DEF Bookkeeping
  <1> QED
    BY <1>1, BookkeepingHolds, PTL

\* fslots is the number of full slots after every step of every call, so that
\* is_empty and fullness report what the ring holds.
THEOREM AccountingAlways == Spec => []Accounting
  <1>1. Bookkeeping => Accounting
    BY DEF Bookkeeping
  <1> QED
    BY <1>1, BookkeepingHolds, PTL

\* The reference count is the number of those that hold a reference: the
\* element, the buffers downstream and the migration thread.
THEOREM RefExactAlways == Spec => []RefExact
  <1>1. Bookkeeping => RefExact
    BY DEF Bookkeeping
  <1> QED
    BY <1>1, BookkeepingHolds, PTL

\* Nothing writes to the memory of a buffer while downstream has it.
THEOREM HeldBytesStay == Spec => HeldBytesStable
  <1>1. Bookkeeping /\ [Next]_vars =>
          [\A i \in held \cap held' :
             slot'[i].data = slot[i].data
               /\ slot'[i].offset = slot[i].offset]_vars
    BY HeldBytesStep DEF Bookkeeping
  <1> QED
    BY <1>1, BookkeepingHolds, PTL DEF Spec, HeldBytesStable

=============================================================================

---------------------------- MODULE ShifterCache ----------------------------
(***************************************************************************)
(* GstShifterCache (src/src/flucache.c): the ring buffer of fixed-size     *)
(* slots that shifts a live byte stream in time, and the recording file    *)
(* the ring overflows into, driven by the element that owns it             *)
(* (src/src/flutsbase.c).                                                  *)
(*                                                                         *)
(* Who runs concurrently.  push, pop, seek and start/stop_recording run    *)
(* under the element's FLOW lock, one at a time; `op' names the call that  *)
(* is in progress and each of its loop iterations is one action, because   *)
(* three others interleave with it: downstream threads that release        *)
(* buffers (Release), the migration thread, and the unlocked has_offset of *)
(* a seek handler (SeekCheck).                                             *)
(*                                                                         *)
(* A byte is modelled by the value h_offset had when it was accepted, so a *)
(* buffer is right exactly when it carries the numbers its label says.     *)
(* This module follows one cache from gst_shifter_cache_new to the end.    *)
(***************************************************************************)
EXTENDS Integers, Sequences, FiniteSets

CONSTANTS
  NSlots,         \* cache->nslots
  SlotSize,       \* CACHE_SLOT_SIZE
  PushSizes,      \* sizes of the buffers upstream pushes
  MaxOffset,      \* bound: upstream pushes nothing that would exceed it
  SeekOffsets,    \* offsets the application seeks to
  InvalidOffset,  \* INVALID_OFFSET, (guint64) -1, which no stream reaches
  Env             \* what the environment may do, a subset of EnvOptions

\* "file"          a filename template was given and the file could be opened
\* "explicit"      the application sends shifter-start-recording
\* "diskfail"      a write to the file may fail
\* "eos"           upstream may end the stream
\* "stop"          the element may be stopped
\* "flush"         a FLUSH_STOP from upstream may discard the cache
\* "tailseek"      the application may seek when no slot is full and the head
\*                 is at a slot that is empty or being filled
\* "drainedseek"   ... and when the head is at a slot read a turn ago
\* "underrun"      the viewer may drain the ring before it is migrated to a file
EnvOptions == {"file", "explicit", "diskfail", "eos", "stop", "flush",
               "tailseek", "drainedseek", "underrun"}

ASSUME CacheAssumption ==
  /\ NSlots \in Nat \ {0}
  /\ SlotSize \in Nat \ {0}
  /\ PushSizes \subseteq Nat \ {0}
  /\ MaxOffset \in Nat
  /\ InvalidOffset \in Nat /\ MaxOffset < InvalidOffset
  /\ SeekOffsets \subseteq 0 .. InvalidOffset - 1
  /\ Env \subseteq EnvOptions

VARIABLES
  slot,           \* cache->slots: state, offset and the bytes written so far
  head, tail,     \* slot to pop next, slot to fill next
  fslots,         \* number of FULL slots, as the code counts them
  h_offset,       \* highest offset accepted
  l_rb_offset, h_rb_offset,               \* window of the ring buffer
  l_dk_offset, h_dk_offset, m_dk_offset,  \* window of the file, migrated from
  need_discont,
  file,           \* contents of the recording file
  w_dk_pos, r_dk_pos, m_dk_pos,           \* positions in the file
  is_recording, is_rb_migrated, stop_recording,
  thread,         \* cache->thread # NULL
  autoremove,
  refcount,
  mig, migLeft, migSlot,                  \* the migration thread
  op, left, drain, ret,                   \* the call under the FLOW lock
  owned,          \* ts->cache is this cache
  held,           \* slots whose buffer is downstream
  is_eos,         \* ts->is_eos
  upstreamEos,    \* upstream has ended the stream
  seek, want,     \* progress and target of a seek event
  out             \* the buffer delivered last since the last seek

ring == <<slot, head, tail, fslots>>
offsets == <<h_offset, l_rb_offset, h_rb_offset>>
disk == <<l_dk_offset, h_dk_offset, m_dk_offset, file, w_dk_pos, r_dk_pos,
          m_dk_pos>>
recording == <<is_recording, is_rb_migrated, stop_recording, thread>>
migrator == <<mig, migLeft, migSlot>>
call == <<op, left, drain, ret>>
client == <<owned, held, is_eos, upstreamEos, seek, want, out>>
vars == <<ring, offsets, disk, recording, migrator, call, client,
          need_discont, autoremove, refcount>>

-----------------------------------------------------------------------------
(* Values                                                                  *)

Slots == 0 .. NSlots - 1
NoSlot == NSlots
NoOffset == -1
Hole == -1        \* a byte of the file that was never written
NoBuffer == [offset |-> NoOffset, data |-> <<>>, discont |-> FALSE]

States == {"EMPTY", "PART", "FULL", "POP", "RECYCLE"}

Lower(a, b) == IF a <= b THEN a ELSE b
Higher(a, b) == IF a >= b THEN a ELSE b

\* Mistake: the index is wrapped one slot too late.
ForwardLate(i, d) == IF i + d <= NSlots THEN i + d ELSE i + d - NSlots
Forward(i, d) == IF i + d < NSlots THEN i + d ELSE i + d - NSlots
Backward(i, d) == IF i >= d THEN i - d ELSE i - d + NSlots
NextSlot(i) == Forward(i, 1)

\* The n bytes accepted when h_offset was `from'.
Bytes(from, n) == [i \in 1 .. n |-> from + i - 1]

\* The file after d was written at position pos; a gap reads as holes.
WriteAt(f, pos, d) ==
  [i \in 1 .. Higher(Len(f), pos + Len(d)) |->
     IF pos < i /\ i <= pos + Len(d) THEN d[i - pos]
     ELSE IF i <= Len(f) THEN f[i]
     ELSE Hole]

\* Subtraction of two gsize values.
Minus(a, b) == (a - b) % (InvalidOffset + 1)

\* g_bit_storage: the number of bits that n takes, 1 for 0.
BitStorage(n) == 1 + Cardinality({b \in 1 .. n : 2^b <= n})

EmptySlot == [state |-> "EMPTY", offset |-> InvalidOffset, data |-> <<>>]
SlotEnd(s) == s.offset + Len(s.data)

\* Mistake: the first offset of the next slot counts as in this one.
ContainsEnd(s, o) == s.offset <= o /\ o <= SlotEnd(s)
Contains(s, o) == s.offset <= o /\ o < SlotEnd(s)
Available(s) == s.state \in {"EMPTY", "PART"}

-----------------------------------------------------------------------------
(* gst_shifter_cache_recycle, _rollback and _rollforward of one slot       *)

\* Mistakes: the bytes stay; a slot downstream, a slot not yet read is taken.
RecycledDirty(s) ==
  IF s.state = "RECYCLE" THEN [EmptySlot EXCEPT !.data = s.data] ELSE s
RecycledHeld(s) == IF s.state \in {"RECYCLE", "POP"} THEN EmptySlot ELSE s
RecycledUnread(s) == IF s.state \in {"RECYCLE", "FULL"} THEN EmptySlot ELSE s
Recycled(s) == IF s.state = "RECYCLE" THEN EmptySlot ELSE s

\* l_rb_offset after a recycle of slot s.  Mistake: it stays.
LowForgotten(s) == l_rb_offset
LowAfterRecycle(s) ==
  IF s.state = "RECYCLE" /\ s.offset # InvalidOffset
    THEN SlotEnd(s) ELSE l_rb_offset

\* Mistake below: the slot is not marked full again.
CanRollback(s) == s.state \in {"RECYCLE", "FULL"}
RolledBackNot(s) == s
RolledBack(s) == IF s.state = "RECYCLE" THEN [s EXCEPT !.state = "FULL"] ELSE s
RolledForward(s) ==
  IF s.state = "FULL" THEN [s EXCEPT !.state = "RECYCLE"] ELSE s

\* How many of the slots of S a rollback makes FULL, a rollforward unmakes.
Regained(S) == Cardinality({i \in S : slot[i].state = "RECYCLE"})
\* Mistake: slots that were not full are counted as well.
GivenUpAll(S) == Cardinality(S)
GivenUp(S) == Cardinality({i \in S : slot[i].state = "FULL"})

-----------------------------------------------------------------------------
(* gst_shifter_cache_new                                                   *)

Init ==
  /\ slot = [i \in Slots |-> EmptySlot]
  /\ head = 0 /\ tail = 0 /\ fslots = 0
  /\ h_offset = 0 /\ l_rb_offset = 0 /\ h_rb_offset = 0
  /\ l_dk_offset = InvalidOffset
  /\ h_dk_offset = InvalidOffset
  /\ m_dk_offset = InvalidOffset
  /\ need_discont = TRUE
  /\ file = <<>>
  /\ w_dk_pos = 0 /\ r_dk_pos = 0 /\ m_dk_pos = 0
  /\ is_recording = FALSE /\ is_rb_migrated = FALSE /\ stop_recording = FALSE
  /\ thread = FALSE
  /\ autoremove \in BOOLEAN
  /\ refcount = 1
  /\ mig = "off" /\ migLeft = 0 /\ migSlot = 0
  /\ op = "idle" /\ left = 0 /\ drain = FALSE /\ ret = NoSlot
  /\ owned = TRUE /\ held = {}
  /\ is_eos = FALSE /\ upstreamEos = FALSE
  /\ seek = "none" /\ want = NoOffset
  /\ out = NoBuffer

-----------------------------------------------------------------------------
(* The recording file                                                      *)

HasFile == "file" \in Env

\* gst_shifter_cache_disk_write of n bytes: the positions advance together
\* unless the write fails; a failed lseek leaves everything alone.
DiskWrite(n) ==
  \/ /\ file' = WriteAt(file, w_dk_pos, Bytes(h_offset, n))
     /\ w_dk_pos' = w_dk_pos + n
     /\ h_offset' = h_offset + n
     /\ h_dk_offset' = h_offset'
  \/ /\ "diskfail" \in Env
     /\ h_offset' \in {h_offset, h_offset + n}
     /\ h_dk_offset' = IF h_offset' = h_offset THEN h_dk_offset ELSE h_offset'
     /\ UNCHANGED <<file, w_dk_pos>>

\* gst_shifter_cache_start_recording, with a file; nothing but the FLOW lock
\* and the cache lock is held, and the new thread owns a reference.
StartRecording ==
  IF thread \/ stop_recording
    THEN UNCHANGED <<m_dk_offset, l_dk_offset, w_dk_pos, is_recording, thread,
                     refcount, migrator>>
    ELSE /\ m_dk_offset' = l_rb_offset
         /\ l_dk_offset' = h_offset
         /\ w_dk_pos' = h_offset - l_rb_offset
         /\ is_recording' = TRUE
         /\ thread' = TRUE
         /\ refcount' = refcount + 1
         /\ mig' = "new" /\ migLeft' = NSlots /\ migSlot' = 0

-----------------------------------------------------------------------------
(* gst_shifter_cache_reload: refill the tail from the file, one slot per   *)
(* iteration; `left' iterations remain.                                    *)

\* What disk_read would read now.
ReadSize == Lower(Minus(w_dk_pos, r_dk_pos), SlotSize)

CanRead(s) ==
  /\ ReadSize > 0
  /\ drain \/ ReadSize = SlotSize
  /\ Available(s)
  /\ r_dk_pos + ReadSize <= Len(file)

\* The slot that a refill makes of the tail.  Mistake: read one byte early.
RefilledEarly ==
  [state  |-> "FULL",
   offset |-> h_rb_offset,
   data   |-> SubSeq(file, Higher(r_dk_pos, 1), r_dk_pos + ReadSize - 1)]
Refilled ==
  [state  |-> "FULL",
   offset |-> h_rb_offset,
   data   |-> SubSeq(file, r_dk_pos + 1, r_dk_pos + ReadSize)]

\* The call, made when `full' slots are full.
StartReload(draining, full) ==
  /\ op' = "reload"
  /\ drain' = draining
  /\ left' = IF draining THEN 1 ELSE BitStorage(NSlots - full)

\* The iteration that fills the tail slot.
ReloadSlot ==
  /\ op = "reload" /\ CanRead(Recycled(slot[tail]))
  /\ slot' = [slot EXCEPT ![tail] = Refilled]
  /\ l_rb_offset' = LowAfterRecycle(slot[tail])
  /\ h_rb_offset' = h_rb_offset + ReadSize
  /\ r_dk_pos' = r_dk_pos + ReadSize
  /\ tail' = NextSlot(tail)
  /\ fslots' = fslots + 1
  /\ left' = left - 1
  /\ op' = IF left = 1 THEN "idle" ELSE "reload"
  /\ ret' = IF left = 1 THEN NoSlot ELSE ret
  /\ UNCHANGED <<head, h_offset, l_dk_offset, h_dk_offset, m_dk_offset, file,
                 w_dk_pos, m_dk_pos, recording, migrator, drain, client,
                 need_discont, autoremove, refcount>>

\* The iteration that finds nothing to read, which ends the loop; the tail
\* slot was recycled all the same.
ReloadStop ==
  /\ op = "reload" /\ ~CanRead(Recycled(slot[tail]))
  /\ slot' = [slot EXCEPT ![tail] = Recycled(@)]
  /\ l_rb_offset' = LowAfterRecycle(slot[tail])
  /\ op' = "idle" /\ left' = 0 /\ ret' = NoSlot
  /\ UNCHANGED <<head, tail, fslots, h_offset, h_rb_offset, disk, recording,
                 migrator, drain, client, need_discont, autoremove, refcount>>

-----------------------------------------------------------------------------
(* gst_shifter_cache_push, called by the chain function                    *)

\* What gst_flutsbase_push requires of a call that reaches the cache.
CanPush(n) ==
  /\ op = "idle" /\ owned
  /\ ~upstreamEos /\ ~is_eos
  /\ h_offset + n <= MaxOffset

\* Not recording: the bytes go to the ring, slot by slot.
PushStart(n) ==
  /\ CanPush(n) /\ ~is_recording
  /\ op' = "push" /\ left' = n
  /\ UNCHANGED <<ring, offsets, disk, recording, migrator, drain, ret, client,
                 need_discont, autoremove, refcount>>

\* One iteration: recycle the tail, write as much as fits, move on when full.
PushSlot ==
  LET t == Recycled(slot[tail])
      n == Lower(SlotSize - Len(t.data), left)
      d == t.data \o Bytes(h_offset, n)
      full == Len(d) = SlotSize
  IN /\ op = "push" /\ Available(t)
     /\ slot' = [slot EXCEPT ![tail] =
                   [state  |-> IF full THEN "FULL" ELSE "PART",
                    offset |-> h_rb_offset,
                    data   |-> d]]
     /\ l_rb_offset' = LowAfterRecycle(slot[tail])
     /\ h_offset' = h_offset + n
     /\ IF full
          THEN /\ tail' = NextSlot(tail)
               /\ h_rb_offset' = h_rb_offset + SlotSize
               /\ fslots' = fslots + 1
          ELSE UNCHANGED <<tail, h_rb_offset, fslots>>
     /\ left' = left - n
     /\ op' = IF left = n THEN "idle" ELSE "push"
     /\ UNCHANGED <<head, disk, recording, migrator, drain, ret, client,
                    need_discont, autoremove, refcount>>

\* The tail is still full or downstream: recording starts and the rest will
\* be written to the file.
PushOverflow ==
  /\ op = "push" /\ ~Available(Recycled(slot[tail])) /\ HasFile
  /\ StartRecording
  /\ op' = "spill"
  /\ UNCHANGED <<ring, offsets, h_dk_offset, file, r_dk_pos, m_dk_pos,
                 is_rb_migrated, stop_recording, left, drain, ret, client,
                 need_discont, autoremove>>

PushSpill ==
  /\ op = "spill"
  /\ DiskWrite(left)
  /\ op' = "idle" /\ left' = 0
  /\ UNCHANGED <<ring, l_rb_offset, h_rb_offset, l_dk_offset, m_dk_offset,
                 r_dk_pos, m_dk_pos, recording, migrator, drain, ret, client,
                 need_discont, autoremove, refcount>>

\* Without a file the rest of the buffer is dropped.
PushDrop ==
  /\ op = "push" /\ ~Available(Recycled(slot[tail])) /\ ~HasFile
  /\ op' = "idle" /\ left' = 0
  /\ UNCHANGED <<ring, offsets, disk, recording, migrator, drain, ret, client,
                 need_discont, autoremove, refcount>>

\* Recording: the bytes go to the file, and an empty ring is refilled from it
\* whether or not the migration has finished.
PushDisk(n) ==
  /\ CanPush(n) /\ is_recording
  /\ DiskWrite(n)
  /\ IF fslots = 0 THEN StartReload(FALSE, 0) ELSE UNCHANGED <<op, left, drain>>
  /\ UNCHANGED <<ring, l_rb_offset, h_rb_offset, l_dk_offset, m_dk_offset,
                 r_dk_pos, m_dk_pos, recording, migrator, ret, client,
                 need_discont, autoremove, refcount>>

-----------------------------------------------------------------------------
(* gst_shifter_cache_pop, called by the loop task                          *)

\* The loop waits while the cache is empty and the stream goes on, and does
\* not run between the flush of a seek and its end.  Without "underrun" the
\* viewer stays a full slot behind until the ring is in the file.
CanPop ==
  /\ op = "idle" /\ owned
  /\ seek # "flushing"
  /\ fslots > 0 \/ is_eos
  /\ "underrun" \in Env \/ fslots > 1 \/ is_rb_migrated \/ ~HasFile

\* With drain the partial head slot counts as full.
Pop ==
  LET s == slot[head]
      drained == is_eos /\ s.state = "PART"
      full == IF drained THEN fslots + 1 ELSE fslots
  IN /\ CanPop /\ (s.state = "FULL" \/ drained)
     /\ slot' = [slot EXCEPT ![head].state = "POP"]
     /\ h_rb_offset' = IF drained THEN SlotEnd(s) ELSE h_rb_offset
     /\ fslots' = full - 1
     /\ refcount' = refcount + 1
     /\ held' = held \cup {head}
     /\ out' = [offset |-> s.offset, data |-> s.data, discont |-> need_discont]
     /\ need_discont' = FALSE
     /\ head' = NextSlot(head)
     /\ IF is_recording /\ is_rb_migrated
          THEN StartReload(is_eos, full - 1) /\ ret' = head
          ELSE UNCHANGED call
     /\ UNCHANGED <<tail, h_offset, l_rb_offset, disk, recording, migrator,
                    owned, is_eos, upstreamEos, seek, want, autoremove>>

\* Downstream drops a buffer: _slot_meta_free.  The buffer that pop is about
\* to return is not downstream yet.
Release(i) ==
  /\ i \in held /\ i # ret
  /\ slot' = [slot EXCEPT ![i].state = "RECYCLE"]
  /\ held' = held \ {i}
  /\ refcount' = refcount - 1
  /\ UNCHANGED <<head, tail, fslots, offsets, disk, recording, migrator, call,
                 owned, is_eos, upstreamEos, seek, want, out, need_discont,
                 autoremove>>

\* The EOS event on the sink pad.
Eos ==
  /\ "eos" \in Env
  /\ op = "idle" /\ owned /\ ~upstreamEos
  /\ upstreamEos' = TRUE /\ is_eos' = TRUE
  /\ UNCHANGED <<ring, offsets, disk, recording, migrator, call, owned, held,
                 seek, want, out, need_discont, autoremove, refcount>>

-----------------------------------------------------------------------------
(* A flushing seek: gst_flutsbase_handle_seek and gst_shifter_cache_seek   *)

DiskUsable == is_recording /\ is_rb_migrated

HasOffset(o) ==
  IF DiskUsable THEN l_dk_offset <= o /\ o < h_dk_offset
                ELSE l_rb_offset <= o /\ o < h_offset

\* The handler asks the cache without the FLOW lock, so a push may be in the
\* middle; an offset that is not there fails the seek at once.
SeekCheck(o) ==
  /\ owned /\ seek = "none"
  /\ HasOffset(o)
  /\ seek' = "checked" /\ want' = o
  /\ UNCHANGED <<ring, offsets, disk, recording, migrator, call, owned, held,
                 is_eos, upstreamEos, out, need_discont, autoremove, refcount>>

\* FLUSH_START goes downstream and the loop task is paused.  Bound: by Env,
\* where the head is.
SeekFlush ==
  /\ op = "idle" /\ owned /\ seek = "checked"
  /\ \/ fslots > 0
     \/ "tailseek" \in Env /\ slot[head].state \in {"EMPTY", "PART"}
     \/ "drainedseek" \in Env
  /\ seek' = "flushing"
  /\ UNCHANGED <<ring, offsets, disk, recording, migrator, call, owned, held,
                 is_eos, upstreamEos, want, out, need_discont, autoremove,
                 refcount>>

\* Where the cache will look: the target clamped to what it has.
SeekOffset ==
  IF DiskUsable
    THEN Higher(Lower(want, h_dk_offset), l_dk_offset)
    ELSE Higher(Lower(want, h_rb_offset), l_rb_offset)

InRing == l_rb_offset <= SeekOffset /\ SeekOffset < h_rb_offset

\* The call, once flushing has brought every buffer back.  Mistake: the call
\* does not wait for them.
CanSeekEarly == op = "idle" /\ owned /\ seek = "flushing"
CanSeek == op = "idle" /\ owned /\ seek = "flushing" /\ held = {}

\* What the handler does after the call.
SeekDone ==
  /\ seek' = "none" /\ want' = NoOffset
  /\ is_eos' = FALSE
  /\ out' = NoBuffer
  /\ UNCHANGED <<owned, held, upstreamEos>>

\* The offset is in the head slot, which may have been popped and returned.
SeekHead ==
  /\ CanSeek /\ InRing /\ Contains(slot[head], SeekOffset)
  /\ slot' = [slot EXCEPT ![head] = RolledBack(@)]
  /\ fslots' = fslots + Regained({head})
  /\ SeekDone
  /\ UNCHANGED <<head, tail, offsets, disk, recording, migrator, call,
                 need_discont, autoremove, refcount>>

\* How far ahead of the head the offset is found.
FutureDistances ==
  {d \in 1 .. NSlots - 1 : Contains(slot[Forward(head, d)], SeekOffset)}

SeekAhead ==
  CanSeek /\ InRing /\ ~Contains(slot[head], SeekOffset)
    /\ slot[head].offset <= SeekOffset

SeekFuture ==
  /\ SeekAhead
  /\ \E n \in FutureDistances :
       LET target == Forward(head, n)
           skipped == {Forward(head, d) : d \in 0 .. n - 1}
       IN /\ \A m \in FutureDistances : n <= m
          /\ slot' = [i \in Slots |->
                        IF i \in skipped THEN RolledForward(slot[i])
                        ELSE IF i = target THEN RolledBack(slot[i])
                        ELSE slot[i]]
          /\ fslots' = fslots - GivenUp(skipped) + Regained({target})
          /\ head' = target
  /\ SeekDone
  /\ UNCHANGED <<tail, offsets, disk, recording, migrator, call, need_discont,
                 autoremove, refcount>>

\* Going backwards the loop stops before a slot that cannot be rolled back,
\* or at the one that holds the offset.
PastDistances ==
  {d \in 1 .. NSlots : \/ ~CanRollback(slot[Backward(head, d)])
                       \/ Contains(slot[Backward(head, d)], SeekOffset)}

SeekBehind == CanSeek /\ InRing /\ SeekOffset < slot[head].offset

SeekPast ==
  /\ SeekBehind
  /\ \E n \in PastDistances :
       LET visited == {Backward(head, d) : d \in 0 .. n}
           stop == Backward(head, n)
       IN /\ \A m \in PastDistances : n <= m
          /\ slot' = [i \in Slots |->
                        IF i \in visited THEN RolledBack(slot[i]) ELSE slot[i]]
          /\ fslots' = fslots + Regained(visited)
          /\ head' = IF CanRollback(slot[stop]) THEN stop ELSE NextSlot(stop)
  /\ SeekDone
  /\ UNCHANGED <<tail, offsets, disk, recording, migrator, call, need_discont,
                 autoremove, refcount>>

\* gst_shifter_cache_flush, then refill from the file at the offset.
SeekDisk ==
  /\ CanSeek /\ ~InRing /\ DiskUsable
  /\ slot' = [i \in Slots |-> EmptySlot]
  /\ head' = 0 /\ tail' = 0 /\ fslots' = 0
  /\ need_discont' = TRUE
  /\ r_dk_pos' = Minus(SeekOffset, l_dk_offset)
  /\ h_rb_offset' = SeekOffset /\ l_rb_offset' = SeekOffset
  /\ StartReload(FALSE, 0)
  /\ SeekDone
  /\ UNCHANGED <<h_offset, l_dk_offset, h_dk_offset, m_dk_offset, file,
                 w_dk_pos, m_dk_pos, recording, migrator, ret, autoremove,
                 refcount>>

\* Neither in the ring nor on a usable disk: the call changes nothing.
SeekNothing ==
  /\ CanSeek /\ ~InRing /\ ~DiskUsable
  /\ SeekDone
  /\ UNCHANGED <<ring, offsets, disk, recording, migrator, call, need_discont,
                 autoremove, refcount>>

Seek == \/ SeekHead \/ SeekFuture \/ SeekPast \/ SeekDisk \/ SeekNothing

-----------------------------------------------------------------------------
(* Recording on request, and the end of the cache                          *)

\* The shifter-start-recording event.
ExplicitStart ==
  /\ "explicit" \in Env /\ HasFile
  /\ op = "idle" /\ owned /\ ~thread
  /\ StartRecording
  /\ UNCHANGED <<ring, offsets, h_dk_offset, file, r_dk_pos, m_dk_pos,
                 is_rb_migrated, stop_recording, call, client, need_discont,
                 autoremove>>

\* gst_shifter_cache_stop_recording, from gst_flutsbase_stop: the FLOW lock is
\* held until the migration thread has been joined.
StopRecording ==
  /\ "stop" \in Env
  /\ op = "idle" /\ owned
  /\ stop_recording' = TRUE
  /\ op' = "join"
  /\ UNCHANGED <<ring, offsets, disk, is_recording, is_rb_migrated, thread,
                 migrator, left, drain, ret, client, need_discont, autoremove,
                 refcount>>

\* Mistake: the thread is expected to have migrated the ring.
ThreadEndedMigrated == ~thread \/ is_rb_migrated
ThreadEnded == ~thread \/ mig = "done"

\* The thread has ended; the element drops its reference.
StopJoin ==
  /\ op = "join" /\ ThreadEnded
  /\ thread' = FALSE /\ is_recording' = FALSE
  /\ owned' = FALSE /\ refcount' = refcount - 1
  /\ op' = "idle"
  /\ UNCHANGED <<ring, offsets, disk, is_rb_migrated, stop_recording, migrator,
                 left, drain, ret, held, is_eos, upstreamEos, seek, want, out,
                 need_discont, autoremove>>

\* FLUSH_STOP from upstream: gst_flutsbase_start replaces the cache, and no
\* one joins the thread.
Discard ==
  /\ "flush" \in Env
  /\ op = "idle" /\ owned
  /\ owned' = FALSE /\ refcount' = refcount - 1
  /\ UNCHANGED <<ring, offsets, disk, recording, migrator, call, held, is_eos,
                 upstreamEos, seek, want, out, need_discont, autoremove>>

\* The recording-remove property is set on the running element.
SetAutoremove ==
  /\ op = "idle" /\ owned
  /\ autoremove' = ~autoremove
  /\ UNCHANGED <<ring, offsets, disk, recording, migrator, call, client,
                 need_discont, refcount>>

-----------------------------------------------------------------------------
(* gst_shifter_cache_migration_thread                                      *)

\* The oldest slot comes first.  Mistake: the next to be popped does.
MigrationFirstHead == head
MigrationFirst == tail

\* The thread reads the tail when it first runs, not when it was created.
MigrateStart ==
  /\ mig = "new"
  /\ mig' = "run" /\ migSlot' = MigrationFirst
  /\ UNCHANGED <<ring, offsets, disk, recording, migLeft, call, client,
                 need_discont, autoremove, refcount>>

\* Mistake: a file that will be kept is abandoned too.
AbortsAlways == stop_recording
Aborts == stop_recording /\ autoremove

\* Mistake: the loop counter is not advanced.
MigrateNextStuck == migLeft' = migLeft /\ migSlot' = NextSlot(migSlot)
MigrateNext == migLeft' = migLeft - 1 /\ migSlot' = NextSlot(migSlot)

MigrateSkip ==
  /\ mig = "run" /\ migLeft > 0 /\ slot[migSlot].state = "EMPTY"
  /\ MigrateNext
  /\ UNCHANGED <<ring, offsets, disk, recording, mig, call, client,
                 need_discont, autoremove, refcount>>

\* One slot is appended; a failed write leaves its place to the next slot.
MigrateSlot ==
  /\ mig = "run" /\ migLeft > 0 /\ slot[migSlot].state # "EMPTY" /\ ~Aborts
  /\ MigrateNext
  /\ \/ /\ file' = WriteAt(file, m_dk_pos, slot[migSlot].data)
        /\ m_dk_pos' = m_dk_pos + Len(slot[migSlot].data)
     \/ "diskfail" \in Env /\ UNCHANGED <<file, m_dk_pos>>
  /\ UNCHANGED <<ring, offsets, l_dk_offset, h_dk_offset, m_dk_offset, w_dk_pos,
                 r_dk_pos, recording, mig, call, client, need_discont,
                 autoremove, refcount>>

\* Mistake: the early exit keeps the reference of the thread.
MigrateAbortLeak ==
  /\ mig = "run" /\ migLeft > 0 /\ slot[migSlot].state # "EMPTY" /\ Aborts
  /\ mig' = "done"
  /\ UNCHANGED <<ring, offsets, disk, recording, migLeft, migSlot, call, client,
                 need_discont, autoremove, refcount>>

MigrateAbort ==
  /\ mig = "run" /\ migLeft > 0 /\ slot[migSlot].state # "EMPTY" /\ Aborts
  /\ mig' = "done" /\ refcount' = refcount - 1
  /\ UNCHANGED <<ring, offsets, disk, recording, migLeft, migSlot, call, client,
                 need_discont, autoremove>>

MigrateFinish ==
  /\ mig = "run" /\ migLeft = 0
  /\ l_dk_offset' = m_dk_offset
  /\ is_rb_migrated' = TRUE
  /\ mig' = "done" /\ refcount' = refcount - 1
  /\ UNCHANGED <<ring, offsets, h_dk_offset, m_dk_offset, file, w_dk_pos,
                 r_dk_pos, m_dk_pos, is_recording, stop_recording, thread,
                 migLeft, migSlot, call, client, need_discont, autoremove>>

-----------------------------------------------------------------------------

\* The calls in progress, which nothing outside can hold back for ever ...
Continue == PushSlot \/ PushOverflow \/ PushSpill \/ PushDrop
              \/ ReloadSlot \/ ReloadStop \/ StopJoin

\* ... the migration thread ...
Migrate == MigrateStart \/ MigrateSkip \/ MigrateSlot \/ MigrateAbort
             \/ MigrateFinish

\* ... and what the element, the application and the peers start.
Begin ==
  \/ \E n \in PushSizes : PushStart(n) \/ PushDisk(n)
  \/ Pop
  \/ \E i \in Slots : Release(i)
  \/ Eos
  \/ \E o \in SeekOffsets : SeekCheck(o)
  \/ SeekFlush
  \/ Seek
  \/ ExplicitStart \/ StopRecording \/ Discard \/ SetAutoremove

Next == Continue \/ Migrate \/ Begin

Spec == Init /\ [][Next]_vars

\* Threads that have work are scheduled, a call under the FLOW lock runs to
\* its end, and downstream drops every buffer it is given some time.
Fairness ==
  /\ WF_vars(Continue)
  /\ WF_vars(Migrate)
  /\ \A i \in Slots : WF_vars(Release(i))

FairSpec == Spec /\ Fairness

-----------------------------------------------------------------------------
(* Properties of every configuration                                       *)

SlotType == [state : States, offset : Nat, data : Seq(Int)]

SlotsOK ==
  /\ slot \in [Slots -> SlotType]
  /\ \A i \in Slots : Len(slot[i].data) <= SlotSize

PlacesOK ==
  /\ head \in Slots /\ tail \in Slots /\ migSlot \in Slots
  /\ ret \in Slots \cup {NoSlot}
  /\ held \subseteq Slots

NumbersOK ==
  /\ fslots \in Int /\ refcount \in Int
  /\ h_offset \in Nat /\ l_rb_offset \in Nat /\ h_rb_offset \in Nat
  /\ l_dk_offset \in Nat /\ h_dk_offset \in Nat /\ m_dk_offset \in Nat
  /\ w_dk_pos \in Int /\ r_dk_pos \in Nat /\ m_dk_pos \in Nat
  /\ file \in Seq(Int)

FlagsOK ==
  /\ need_discont \in BOOLEAN /\ autoremove \in BOOLEAN
  /\ is_recording \in BOOLEAN /\ is_rb_migrated \in BOOLEAN
  /\ stop_recording \in BOOLEAN /\ thread \in BOOLEAN
  /\ drain \in BOOLEAN /\ owned \in BOOLEAN
  /\ is_eos \in BOOLEAN /\ upstreamEos \in BOOLEAN

\* A loop that runs has an iteration left, a seek that runs has a target, and
\* a migration thread that runs is known to the cache.
ProgressOK ==
  /\ op \in {"idle", "push", "spill", "reload", "join"}
  /\ left \in Nat
  /\ op \in {"push", "spill", "reload"} => left > 0
  /\ seek \in {"none", "checked", "flushing"}
  /\ want \in Nat \cup {NoOffset}
  /\ seek # "none" => want \in Nat
  /\ mig \in {"off", "new", "run", "done"}
  /\ migLeft \in Nat
  /\ mig \in {"new", "run"} => thread

OutOK == out \in [offset : Nat \cup {NoOffset}, data : Seq(Int),
                  discont : BOOLEAN]

\* Every variable is in its range, and no slot overflows.
TypeOK == SlotsOK /\ PlacesOK /\ NumbersOK /\ FlagsOK /\ ProgressOK /\ OutOK

FullSlots == {i \in Slots : slot[i].state = "FULL"}

\* fslots, which push, pop, drain, refills and every slot a seek rolls over
\* adjust one by one under the FLOW lock, is the number of full slots after
\* each of them, a push or refill in progress included, while buffers come
\* back (without the lock) and change what the next of them finds.
Accounting == fslots = Cardinality(FullSlots)

\* A slot is in state POP exactly while a buffer that wraps its memory is
\* downstream or about to be returned: neither a seek nor a refill takes it.
HeldIsPop == \A i \in Slots : i \in held <=> slot[i].state = "POP"

\* One reference for the element, one for each buffer downstream and one for
\* the migration thread, whatever the order they are dropped in: the memory
\* the buffers and the thread read is freed when the last of them is done.
RefExact ==
  refcount = Cardinality(held) + (IF owned THEN 1 ELSE 0)
                               + (IF mig \in {"new", "run"} THEN 1 ELSE 0)

\* The bytes of a buffer do not change under the downstream that holds it,
\* though it shares its memory with the slot.
HeldBytesStable ==
  [][\A i \in held \cap held' :
       slot'[i].data = slot[i].data /\ slot'[i].offset = slot[i].offset]_vars

-----------------------------------------------------------------------------
(* Properties of the ring buffer                                           *)

\* Every byte a slot holds is the byte its offset says: buffers are labelled
\* with the slot's offset and the player's position is read off them.
LabelsTrue ==
  \A i \in Slots : slot[i].state # "EMPTY" =>
     slot[i].data = Bytes(slot[i].offset, Len(slot[i].data))

\* Where playback goes on: at the head slot, or with the next byte to come.
NextOffset ==
  IF slot[head].state \in {"FULL", "PART"} THEN slot[head].offset
                                           ELSE h_rb_offset

\* What the ring promises its client: an unread byte is never overwritten.
\* TimeShift states the promise, and what delivery and seeks do to it.
Promise == INSTANCE TimeShift WITH
             written <- h_offset, oldest <- l_rb_offset, next <- NextOffset,
             delivered <- [offset |-> out.offset, data |-> out.data]
KeepsPromise == Promise!Spec

\* Every offset between the oldest one and the newest is in one of the slots,
\* whatever has been pushed, popped, returned or rewound.
RingHasOffset ==
  owned => \A o \in l_rb_offset .. h_offset - 1 :
             \E i \in Slots : slot[i].state # "EMPTY" /\ Contains(slot[i], o)

\* pop finds a buffer whenever the cache does not report itself empty, the
\* condition on which the loop task calls it.
PopNullOnlyWhenEmpty ==
  op = "idle" /\ seek # "flushing" /\ fslots > 0 => slot[head].state = "FULL"

\* The two search loops of seek, which have no bound of their own, find what
\* they look for: the FLOW lock is held while they run.
SearchEnds == /\ SeekAhead => FutureDistances # {}
              /\ SeekBehind => PastDistances # {}

\* A seek to an offset in the ring leaves the head on the full slot with it.
SeekLands ==
  [][CanSeek /\ Seek /\ InRing /\ SeekOffset = want =>
       /\ slot'[head'].state = "FULL"
       /\ slot'[head'].offset <= want
       /\ want < slot'[head'].offset + Len(slot'[head'].data)]_vars

-----------------------------------------------------------------------------
(* Properties of the recording file                                        *)

\* The file is an image of the stream from the offset the migration started
\* at: pushes append to it from the end while the migration thread fills its
\* beginning, and neither writes a byte where another belongs.
FileImage ==
  \A p \in DOMAIN file :
    \/ file[p] = m_dk_offset + p - 1
    \/ file[p] = Hole /\ ~is_rb_migrated

\* A file that outlives the cache (recording-remove is off) holds the whole
\* stream from the oldest byte the ring had when recording began.
KeptFileComplete ==
  refcount = 0 /\ mig = "done" /\ ~autoremove =>
    file = Bytes(m_dk_offset, h_offset - m_dk_offset)

\* The file position the next refill reads is the one of the offset the
\* refilled slot will be labelled with.
Aligned == is_rb_migrated /\ h_rb_offset = l_dk_offset + r_dk_pos

\* Once a seek has aligned them, refills, pops and pushes keep them so, and a
\* refilled slot carries the bytes of its label.
AlignedStays ==
  [][Aligned =>
       /\ Aligned'
       /\ \A i \in Slots : slot'[i].state = "FULL" /\ slot[i].state # "FULL"
                             /\ r_dk_pos' # r_dk_pos =>
            slot'[i].data = Bytes(slot'[i].offset, Len(slot'[i].data))]_vars

\* An offset that has_offset accepts of a usable file is in the file, at the
\* position a seek to it reads from.  Before the first write after recording
\* began h_dk_offset is INVALID_OFFSET and has_offset accepts any offset.
DiskHasOffset ==
  \A o \in SeekOffsets :
    owned /\ DiskUsable /\ h_dk_offset # InvalidOffset /\ HasOffset(o) =>
      o - l_dk_offset + 1 \in DOMAIN file /\ file[o - l_dk_offset + 1] = o

-----------------------------------------------------------------------------
(* Liveness, under FairSpec                                                *)

\* gst_flutsbase_stop waits for the migration thread with the FLOW lock held,
\* and returns.
StopCompletes == (op = "join") ~> ~owned

\* A cache the element has dropped is freed in the end: no reference leaks.
CacheFreed == ~owned ~> refcount = 0

\* A migration ends, and the file is in use or the cache on its way out.
MigrationEnds == thread ~> (DiskUsable \/ ~owned \/ op = "join")
=============================================================================

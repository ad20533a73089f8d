# gst-fluendo-timeshift in TLA+

The repository holds a GStreamer plugin that shifts a live stream in time. An
element (`flutsbase`) puts a ring buffer (`flucache`) between an upstream that
cannot wait and a downstream that may pause or seek back. When the viewer falls
behind by more than the ring holds, the cache continues in a recording file.
Around it, an indexer and a seeker translate time positions into byte offsets.

This directory models the ring buffer with its file (`ShifterCache`), the
threads of the element around it (`FluTSBase`), and the translation between time
and bytes by index, indexer and seeker together with a cache (`TimeShiftBin`),
and the first calls on an index that no lock protects (`IndexId`). It
checks them with TLC on small instances, and proves with TLAPS what matters
most for every size.

To check a run: `tlc -config <run>.cfg <module>.tla`, with the modules and
configurations of the table "Runs". To check the proofs:
`tlapm ShifterCacheProofs.tla`, `tlapm ShifterCacheSafety.tla`,
`tlapm ShifterCacheRing.tla`, `tlapm ShifterCacheFile.tla`,
`tlapm FluTSBaseProofs.tla`, `tlapm TimeShiftProofs.tla`,
`tlapm TimeShiftLookups.tla`, `tlapm IndexIdProofs.tla`.

## Inventory

Paths are relative to `src/src/`.

| component | state | operations | talks to |
|---|---|---|---|
| **GstShifterCache** `flucache.c` | slots (state, offset, bytes), head, tail, fslots; offsets of the ring and of the file; file positions; recording flags; migration thread; reference count | push, pop, release of a buffer, has_offset, seek, start/stop_recording, migration thread, ref/unref | called by the element under its FLOW lock; buffers downstream point into its memory; the migration thread shares slots and file |
| **GstFluTSBase** `flutsbase.c` | srcresult, sinkresult, is_eos, unexpected, need_newsegment, stream_start_event, recording_started, the cache, FLOW lock and the condition `buffer_add` | loop task, chain, EOS, SEGMENT, STREAM_START, FLUSH_START, FLUSH_STOP, seek, shifter-start-recording, activation of both pads, state change, queries, properties | upstream's thread, the source pad's task, the application's thread; bus messages |
| **GstFluTSIndex / GstFluTSMemIndex** `flutsindex.c`, `flutsmemindex.c` | entries (time, bytes), one sorted tree per format | add association, exact/before/after lookup | written by the indexer, read by the seeker, no lock |
| **GstTimeShiftTsIndexer** `gsttimeshifttsindexer.c` | PCR pid, delta, byte count, base time, time of the last entry | transform_ip (look for a PCR, add at most one entry per buffer), start, properties | index; passes buffers on; the bin sets its PCR pid |
| **GstTimeShiftSeeker** `gsttimeshiftseeker.c` | index, timestamp_next_buffer | TIME seek to BYTES seek, BYTES SEGMENT to TIME SEGMENT, timestamp of the buffer after it, duration and seeking queries | index; the cache element upstream of it |
| **GstFluTSMPEGBin** `flutsmpegbin.c` | links only | links parser, indexer, cache, seeker; gives indexer and seeker one index; hands the PCR pid of a "pmt" message to the indexer | |
| subclasses, plugin entry `flutsmpeg.c`, `flutsfake.c`, `flutimeshift.c` | none | pad templates, registration | |

What is hard, by component, and what makes each correct:

- *Cache.* Downstream threads release buffers at any time, the migration thread
  reads slots and writes the file while pushes append to it, and `has_offset`
  is asked without the lock. Correct: every byte comes out once, in order and
  under its own offset; a slot that is downstream is never refilled; the counter
  of full slots and the reference count are exact; the file is an image of the
  stream; the search loops of a seek end.
- *Element.* Five threads meet at one lock and one condition variable. The loop
  gives the lock up to push a buffer and keeps it to push an event. Correct:
  nothing that was popped before a flush comes out after it, a SEGMENT precedes
  the data, EOS comes after everything, no wakeup is lost, every handler that
  waits for the loop returns, nobody uses the cache when it is dropped.
- *Index.* Upstream's thread inserts while the loop and the application search,
  without a lock. Correct: a lookup returns the nearest of all entries on the
  side asked for, and all calls use the id under which the entries are kept,
  though the first of them makes it.
- *Indexer.* It counts bytes on its own and runs ahead of the cache. Correct: an
  entry leads to the packet whose PCR it has; times of entries grow with their
  offsets, whatever the PCR does; no PCR is far from an entry.
- *Seeker.* It translates twice per seek, up and down, with the cache moving
  between. Correct: playback after a TIME seek starts at or before the target;
  SEGMENT, timestamp and duration tell the time of data that is there.

`PROJECT.json` lists the hazards line by line, with the property that covers
each one or the reason why none does.

## Modules

### ShifterCache (`flucache.c`, driven as `flutsbase.c` drives it)

| in the model | in the code |
|---|---|
| `slot`, `head`, `tail`, `fslots` | `cache->slots`, `head`, `tail`, `fslots` |
| `h_offset`, `l_rb_offset`, `h_rb_offset`, `l_dk_offset`, `h_dk_offset`, `m_dk_offset` | the fields of the same names |
| `file`, `w_dk_pos`, `r_dk_pos`, `m_dk_pos` | the recording file and its three positions |
| `op`, `left`, `drain`, `ret` | which call holds the FLOW lock, and its loop variables |
| `mig`, `migLeft`, `migSlot` | the migration thread and its loop |
| `held` | slots whose GstBuffer has not been freed |
| `out` | the buffer delivered last |

A call is one action where it is one atomic piece and several where it loops
over slots (`PushSlot`, `ReloadSlot`, `MigrateSlot`), because releases, the
migration thread and the unlocked `has_offset` come between the iterations.
`Release` is the free function of the buffer's meta. The identity of a byte is
the value of `h_offset` when it was accepted, so a buffer is right exactly if
its data are the numbers that its offset announces.

`Env` says what the surroundings may do: a file, an explicit start of the
recording, failing writes, EOS, stop, flush, seeks when no slot is full, a
viewer that drains the ring before it is in the file (`underrun`). Seeks when no
slot is full are of two kinds. With `tailseek` the head slot is empty or partly
filled: the search then starts right, and `cache_ring` has them. With
`drainedseek` it may also be a slot that was read, and still has the offset of
the oldest slot. Leaving out `drainedseek`, or `underrun` where there is a file,
is a restriction: with them the code
misbehaves, as the violation runs and the hazards tell. So is leaving out the
explicit start where the file's content is checked (`cache_recording`): it may
come while the tail slot is partly filled, and the migration, which starts at
the tail, then puts the newest bytes first (`flucache.c:609`); with `"explicit"`
in `Env`, and no seeks, TLC finds `KeptFileComplete` violated. Upstream does not go on
after EOS, since its pad is then at EOS for good.

Idealised: the file is a sequence of bytes (buffering of `FILE*` against
`lseek` is not modelled), and `g_thread_create` does not fail. The cache is
created with `nslots = size / CACHE_SLOT_SIZE`, which rounds down, while the
comment at `flucache.c:463` says "rounded up"; nothing depends on it.

### TimeShift (abstract)

What a time-shifting buffer promises: a window of the stream that grows at one
end and is forgotten at the other, never past the reader; a reader that gets
the bytes in order and can jump within the window. `KeepsPromise` of
`ShifterCache` is its specification under a refinement mapping that computes
the window from the offsets and the reader's position from the head slot.

### FluTSBase (`flutsbase.c`)

One action is one section under the FLOW lock, or one call made without it.

| in the model | in the code |
|---|---|
| `LoopWait`, `LoopFlushed`, `LoopPop` | `gst_flutsbase_loop` up to the pop, after `g_cond_wait` too |
| `LoopStreamStart`, `LoopSegment`, `LoopEos` | events pushed with the lock held |
| `LoopPush`, `LoopPushed` | `gst_pad_push` without the lock, and its result |
| `LoopLastEos` | EOS pushed after an error at EOS, without the lock |
| `Chain`, `StreamStart`, `Eos`, `Segment` | chain and serialized events |
| `FlushStart` ... `FlushResume` | FLUSH_START and FLUSH_STOP in their steps |
| `SeekCheck` ... `SeekResume` | `gst_flutsbase_handle_seek` in its steps |
| `Activate`, `ActivateSink`, `Deactivate`, `StopTask`, `JoinTask`, `Stop` | state change and the activation of the pads |
| `woken` | `buffer_add` was signalled while the loop waited |
| `Unlocked` | nobody keeps the FLOW lock over a push: only the loop does |

The cache is counted in slots here: `head` and `tail` are those of the ring
without the wrapping, and their difference is `fslots`. Once recording, how much
of the file a refill brings back is left open; seeks in a file are not modelled.
A seek goes to the slot of its target (`Repositioned`), except when everything
was read and the slot to fill next is the oldest one (`StaleHead`):
`gst_shifter_cache_seek` then makes only the slot of its target readable
(`flucache.c:941-959`). If that is not the newest slot, the reader is `astray`, a
history variable. From then on a pop may find any slot or nothing, a push may be
stopped by any slot, and each seek may leave any number of slots readable:
`ShifterCache` has what happens exactly. A pop that finds nothing ends the loop
with GST_FLOW_ERROR, as `no_item` does.

GStreamer's part is external: a flushing pad refuses data and events, a
pad at EOS refuses buffers, pausing or stopping a task waits for its iteration,
a seek is serialized with state changes by the element's state lock, and
FLUSH_STOP with data by the sink pad's stream lock.

`Scenarios` is a set of sets of environment options; the first state chooses
one. Spurious wakeups of `g_cond_wait` are not modelled; the loop tests its
condition again, so one changes nothing.

### TimeIndex (`flutsindex.c`, `flutsmemindex.c`)

| in the model | in the code |
|---|---|
| `associations` | `memindex->associations` |
| `byTime`, `byBytes` | the trees of the formats TIME and BYTES; a node has the entry that comparisons read (key) and the one a hit returns (value), as in a GTree |
| `AddEntry`, `AddTime`, `AddBytes` | `gst_flutsmemindex_add_association`: the list, then one tree after the other |
| `Towards`, `Visited`, `Search` | `mem_index_compare`, `mem_index_search`, `gst_flutsmemindex_get_assoc_entry` |
| `Answers(f, v, torn)` | a lookup BEFORE; torn: while the tree is being changed it may miss any node |

The tree is the balanced one of its values (the shape of a GTree depends on the
order of insertions, but a search that goes the right way at each node finds
the same). Both comparisons of the code are turned around, greater values on
the left, and cancel out; `LookupsNearest` checks what comes of it against a
definition over the set of associations.

### TsIndexer (`gsttimeshifttsindexer.c`)

| in the model | in the code |
|---|---|
| `pcr_pid`, `delta`, `own_index`, `base_time`, `last_time`, `current_offset` | the fields of the same names; None is GST_CLOCK_TIME_NONE |
| `Examined` | `get_pcr`: a lone packet is looked at, of several the last is not |
| `Tells` | `parse_pcr`: with delta -1 only random access points, after the first PCR |
| `BaseTime`, `TimeOf`, `Due`, `Found`, `Collected` | `collect_time`: at most one entry per buffer, for the first PCR that is due |
| `TransformIp`, `IndexerStart` | the handlers |
| `SetPcrPid` | `gst_flumpegshifter_bin_handle_message` |

Offsets count packets of one size. A PCR is `Tick` nanoseconds, which is
integer in the model and 11111.1 in the code (rounding down keeps the order).
Times are signed as `GST_CLOCK_DIFF` and the index take them.

### TimeShiftSeeker (`gsttimeshiftseeker.c`)

The conversions as operators on the answer of a lookup: `BytesToStreamTime`,
`LastOffset` and `LastTime` (`get_last_time`), `FromEnd` and `SeekOffset`
(`seek`). `NoTime` is GST_CLOCK_TIME_NONE. It is no number here, so that it is
neither before nor after a time: as the unsigned start of a SEGMENT it is past
all times, and only where the code adds to it and looks the sum up as a gint64
(`FromEnd`) it is -1. `Margin` is the 1000000 bytes that `get_last_time` stays away from the
end. `timestamp_next_buffer` is the field. The warning "Bytes->time conversion
inaccurate" (`gsttimeshiftseeker.c:236`) comes when the offset does match, not
when it does not; it changes nothing else and is left out.

### TimeShiftBin (`flutsmpegbin.c`: the composition)

| in the model | in the code |
|---|---|
| `Pmt` | the "pmt" message of the parser, from upstream's thread |
| `ChainCollect`, `ChainAddTime`, `ChainAddBytes`, `ChainPush` | upstream's thread: `transform_ip` of the indexer, insertion in its steps, `gst_shifter_cache_push` |
| `LoopPop`, `LoopSegment`, `LoopPush` | the loop task: pop, SEGMENT through the seeker under the FLOW lock, buffer through the seeker without it |
| `SeekSet`, `SeekEnd`, `SeekEndFound`, `SeekFind` | `transform_seek_event`: from the start, or from the end by way of a duration query and a lookup; then the lookup of the target |
| `SeekCheck`, `SeekReposition` | `gst_flutsbase_handle_seek`: `has_offset` without the lock, then flush, `gst_shifter_cache_seek` and resume |
| `AskDuration`, `TellDuration`, `HearDuration` | the duration query in TIME |
| `Restart` | to READY and up again |
| `content`, `oldest`, `next` | what the cache has been given, the window's low end, the slot that is popped next |

The cache is the ring of `ShifterCache` without a recording file, reduced to
what that module is shown to promise and to the slots its seek arrives at; the
element is `FluTSBase` reduced to pop, seek and flush. `goal`, `segment` and
`stamp` record what the application wanted and downstream was told. A seek is not
performed while the ring is `Wrapped`, that is, everything was read and the next
slot to fill is the oldest one: there the ring does not do what a seek should
(`cache_drained_seek`).

`Scenarios` chooses, in the first state, what the environment does: PCRs that
jump either way, entries at random access points, buffers of several packets,
a PCR pid that is late, an upstream that overruns the ring, a restart, and
lookups that overlap an insertion.

### IndexId (`flutsindex.c`: `get_id`, `get_writer_id`)

`TimeIndex` begins when the index has its id. `IndexId` is how it gets there: an
action is one access of a thread to what the threads share.

| in the model | in the code |
|---|---|
| `id`, `last_id`, `writers` | the fields of the index; it is its own and only writer |
| `id_index` | the ids in `memindex->id_index`, those that have trees |
| `GetId`, `Return` | `gst_flutsindex_get_id`: both reads of `index->id` |
| `Reset` to `Insert` | `gst_flutsindex_get_writer_id`, which works in `index->id` itself |
| `Again` | `*id` read where a build may keep the value it wrote: the threads race, so either can happen |
| `Associate`, `LookUp` | what a caller does with the id: an entry for an id without trees is found by nobody |

Calls on the hash tables are taken as one access; two at a time could also
destroy the table, which the model leaves out.

### The proofs

| module | extends | proves about |
|---|---|---|
| `ShifterCacheProofs` | `ShifterCache` | types |
| `ShifterCacheSafety` | `ShifterCacheProofs` | slots, counter and references |
| `ShifterCacheRing` | `ShifterCacheSafety` | order and place of every byte, and the refinement of `TimeShift` |
| `ShifterCacheFile` | `ShifterCacheRing` | the recording file |
| `FluTSBaseProofs` | `FluTSBase` | all safety properties of the element |
| `TimeShiftProofs` | `TimeShiftBin` | entries and seeks |
| `TimeShiftLookups` | `TimeShiftProofs` | the search of a tree, and what lookups answer |
| `IndexIdProofs` | `IndexId` | the id of the index |

See "Proofs" below.

## Runs

Every passing run is finite because the stream
is (`MaxOffset`, `MaxSlots`, `MaxPackets`); deadlock is not checked because a stream that has
come to its bound and a cache that has been freed stop.

| run | shows |
|---|---|
| `cache_ring` | without a file, for every order of pushes, pops, releases, rewinds and a stop, with seeks when no slot is full but the head slot is empty or being filled: `LabelsTrue` (slots hold the bytes their offsets announce), `RingHasOffset` (what has_offset accepts is there), `PopNullOnlyWhenEmpty`, `SearchEnds` (search loops of a seek end), `SeekLands`, `KeepsPromise` (implements `TimeShift`) |
| `cache_lifecycle` | file, seeks, EOS, stop and flush in any order: `TypeOK`, `Accounting` (fslots), `HeldIsPop`, `RefExact`, `HeldBytesStable` |
| `cache_recording` | pushes append while the thread migrates: `FileImage`, `KeptFileComplete` (a file that is kept is complete after stop), `DiskHasOffset`, `AlignedStays` (read position and label move together) |
| `cache_liveness` | `StopCompletes` (the join returns), `CacheFreed`, `MigrationEnds` |
| `element` | five scenarios: `TypeOK`, `StopsQuiet`, `InOrder`, `SegmentFirst`, `EosComplete` (these three until a seek goes astray), `RecordingPaired`, and `Plays` (likewise), `EosDelivered`, `SeekReturns`, `StopReturns`, `FlushReturns` |
| `time_seek` | seven scenarios of the bin: `TypeOK`, `LookupsNearest`, `Spaced` (times of entries grow with offsets by delta or more, whatever the PCR does), `AlignedUndisturbed` (an entry has the time of the packet at its offset), `SeekNotAfter` (the SEGMENT after a TIME seek starts at or before its target, or tells no time because there is no entry at or before the slot, or because its lookup ran into an insertion), `SegmentTrue`, `StampIsStart` (the first buffer has the time the SEGMENT told), `DurationReached` (there is data at the duration told), `EntriesClose` (no PCR is delta or more after an entry) |
| `index_id` | upstream and two readers call first: `FoundAlone` (when the call that resolves the id is alone every entry is found later) |

Runs that end with a counterexample, each a disagreement of the code with what
its comments say:

| run | what happens |
|---|---|
| `cache_refill_labels` | recording starts without a seek; `r_dk_pos` is 0, so the ring is refilled with the beginning of the file under the offsets of its end (`flucache.c:727`) |
| `cache_drained_seek` | everything was read, to the end of the last slot of the window: head and tail are at one slot, which was read and still has the oldest offset. A seek takes that slot for the place of the reader, so its target is "in current head" or "in the future" (`flucache.c:941-959`); only the slot of the target becomes full, those after it stay RECYCLE. When it is popped and another slot has been filled, the head is at a slot that was read, and pop finds nothing though the cache is not empty |
| `element_error` | downstream fails; the loop stops for good, `sinkresult` stays OK, and data is accepted on with nobody told (`flutsbase.c:309`) |
| `element_seek_eos` | downstream keeps an EOS in preroll; the loop holds the FLOW lock and the seek cannot flush it out (`flutsbase.c:259`) |
| `time_seek_restart` | after READY and up again the index keeps the entries of the old cache, and the indexer counts on while the new cache counts from 0: entries lead to other data (`gsttimeshifttsindexer.c:277`) |

### Bounds

- `NSlots = 4`: the least number of slots the element's property allows
  (`flutsbase.c:39`). Wrapping, rewinding and a slot downstream in the middle
  all happen with four.
- `SlotSize = 2` and pushes of 1 and 3 bytes: slots are left partly filled, and
  one push spans slots.
- `MaxOffset` between 9 and 13: the ring of 8 bytes wraps, and the file grows
  past what migrated.
- `InvalidOffset = 31`: also the modulus of `gsize` subtraction; above every
  offset that is reached.
- `NSlots = 2`, `MaxSlots = 4` in `FluTSBase`: slots are recycled, lost and
  filed, and the loop empties the ring; what matters there is the interleaving.
- `TimeShiftBin`: `NSlots = 2`, `SlotSize = 2` and `MaxPackets = 5`: the window
  moves, and a slot is partly filled. `MaxSize = 3`: the least size with a packet
  that is looked at after another and one that is not. `Deltas = {4}` with
  `Tick = 2`: every second PCR of a steady stream is due. `Jumps = {3}` once: back
  below the first PCR, and forth past delta. `Margin = 1`: the margin reaches
  into the entries and below 0. `Targets = {1, 4}`: before the second entry and
  on it.

- `IndexId`: three threads, the most that a bin has, and two entries, one that
  may be lost in the race and one after it.

### Fairness

`ShifterCache`: a call that has begun goes on (`Continue`), so does the
migration thread, and downstream eventually releases each buffer it holds.
Nothing says that upstream pushes or that the viewer plays.

`FluTSBase`: the loop task goes on, except while downstream holds what it was
pushed in a scenario where it may (`preroll`); the handlers of flush, seek and
state change go on; upstream ends a flush it began. Weak fairness suffices for
the lock, because the loop releases it on every iteration and the stream is
bounded. Upstream need not push, end or flush.

### What the runs leave out on purpose

`SegmentFirst` is for scenarios without a flush of upstream: FLUSH_STOP does not
set `need_newsegment`, so after it no SEGMENT is sent. Seeks once upstream has
ended are in no passing scenario: the seek clears `is_eos` and the EOS is never
sent again. No scenario has a flush of upstream together with a seek or a stop:
both restart the task another waits for. No scenario has an explicit start of
the recording together with a stop, since a recording that no later push
announced is then stopped without having been started. No seek is under way when
the element is stopped (the state lock of the element orders the two), so the
unlocked read of `ts->cache` in `handle_seek` is not covered. No scenario has a
file and seeks. In `element` a file
leaves `EosComplete` saying nothing of what the file still holds. Each is in
the hazards, at its line.

Once a seek has gone astray (`StaleHead` above), `InOrder` and `EosComplete` make
no claim, nor does `Plays`, and `SegmentFirst` only that there was a SEGMENT: the
code does not deliver in order there, and
may end the stream early or with an error. `EosDelivered`, `SeekReturns`,
`StopReturns`, `StopsQuiet` and `TypeOK` hold there too. `TimeShiftBin` leaves
such seeks out (`Wrapped`).

`AlignedUndisturbed`, `SegmentTrue` and `DurationReached` are for streams of
which the cache loses nothing and for one run of the elements: otherwise the
indexer's count and the cache's part (`time_seek_restart`), and nothing brings
them together again. `SegmentTrue` and `StampIsStart` are for lookups that do
not overlap an insertion. `SeekNotAfter` is also about those that do: such a
lookup may miss every entry, and then the SEGMENT starts at GST_CLOCK_TIME_NONE,
as it does after a seek to the first entry when the slot begins before that
entry, for instance because the PCR pid was late.
`EntriesClose` is for a PCR that does not jump and buffers of one packet: after
a jump back the indexer waits until the old time is passed, and of a larger
buffer it makes one entry. `Spaced` and `SeekNotAfter` are not for
delta -1, where entries are made at every random access point, in whatever
order times come. A seek whose target leaves the window between
`has_offset` and the reposition goes to the oldest byte, so `SeekNotAfter`
makes no claim about it.

`FoundAlone` is for a call that resolves the id while no other begins. In a bin
whose first buffers have a PCR that is indexed, upstream resolves it before the
loop has anything to play; when the PCR pid comes late, or the application asks
for a duration early, the calls race. With `Scenarios = {"race"}` TLC finds
`EntriesFound` violated: the loop has set `index->id` and not yet made its trees,
upstream adds an entry under it, and the entry is in no tree (`flutsindex.c:37`,
`flutsmemindex.c:256`). No run shows it and no property covers it.

## Proofs

### The cache

Assumption: `CacheAssumption`, that is, at least one slot, slots and pushes of at
least one byte, a stream that ends before INVALID_OFFSET (2^64 - 1 bytes), and
no seek to INVALID_OFFSET. The theorems are for every number and
size of slots and every stream length; those of this section for every `Env`.

- `ShifterCacheProofs!TypeCorrect`: `Spec => []TypeOK`. `TypeOK` bounds indices
  to the ring, data to the slot size, offsets and counters to their ranges. Its
  conjunction is in named parts (`SlotsOK`, `PlacesOK`, `NumbersOK`, `FlagsOK`,
  `ProgressOK`, `OutOK`), and the proof has one lemma per action.
- `ShifterCacheSafety!HeldIsPopAlways`, `AccountingAlways`, `RefExactAlways`,
  `HeldBytesStay`.

None of those three invariants is inductive alone. A release counts rightly
only if the slot it recycles was not full, which `HeldIsPop` tells. A seek may
drop and count slots only if none is downstream. A reference is dropped once
only because a call under the FLOW lock runs while the element owns the cache
(`CallOwned`), and starting a recording adds one only because the thread of an
earlier one has been joined or never existed (in `TypeOK`). So they are proved together as
`Bookkeeping == TypeOK /\ HeldIsPop /\ Accounting /\ RefExact /\ CallOwned`.

### The ring

`ShifterCacheRing` proves, for every size, that a cache without a file is right:
`LabelsTrueAlways`, `RingHasOffsetAlways`, `PopNullOnlyWhenEmptyAlways`,
`SearchEndsAlways`, `SeekLandsAlways`, and `KeepsItsPromise`, which is
`Spec => Promise!Spec`: the ring implements `TimeShift`.

They have one hypothesis, `RingOnly`: none of `"file"`, `"drainedseek"` and
`"tailseek"` is in
`Env`. The first two are needed: with a file the ring is refilled under wrong
offsets (`cache_refill_labels`), and a seek that starts from a slot that was read
makes the wrong slots full (`cache_drained_seek`): the properties do not hold
then. Without `"tailseek"` the hypothesis is stronger than need be; of those
seeks there is the run `cache_ring` only. What
is left of `Env`, that is EOS, stop and flush in any combination, is free.

No property of the ring is inductive: `LabelsTrue` does not say at which offset
the next slot will be filled, nor `RingHasOffset` which slot will be lost by it. The
invariant `RingInv` says where every byte is, counted backwards from the tail:

- `Laid`: the slot d behind the tail (`Behind`) has the `SlotSize` bytes that
  start d slots before `Base`, the offset at which the tail starts, or was never
  filled; a tail that is being filled has the bytes from `Base` to `h_offset`.
- `Reading`: the slots that are full are the `fslots` ones behind the tail, and
  the head is the first of them. So a pop takes the oldest unread bytes, the
  search ahead of a seek meets every unread slot before it comes to the tail, and
  the search back every slot that was read and not yet refilled.
- `Lowest`: `l_rb_offset` is where the oldest slot starts.
- `Ended`: after EOS nothing is pushed, and a seek is performed only while a slot is
  full, or before one was ever filled. It is what confines `Drained`, the state in which pop has taken the tail
  itself and the head has passed it: then nothing is left to read.
- `NoRecording`: the parts of the state that a file needs do not change.

It is proved together with `Bookkeeping`: push refills a slot only if it is not
downstream, and a seek that makes slots full again must count them rightly. The
slots are counted modulo `NSlots` and offsets in multiples of `SlotSize`, both
constants; lemmas on products and on going back d slots (`Products`,
`Covering`, `BackwardBackward`, ...) keep the provers from that arithmetic.

The refinement maps the reader's place to `NextOffset`. It equals `Going`, the
start of the slot `fslots` behind the tail, in every state of the invariant;
`Going` moves only at a pop, to the end of what it delivers, and at a seek, to
the slot that holds the offset. `PromiseStep` takes each step to `Write` (a slot
filled by push), `Deliver` (pop), `Jump` (seek) or a stutter (all others).

### The file

`ShifterCacheFile` proves, for every size, the four properties of the recording
file: `FileImageAlways`, `KeptFileCompleteAlways`, `DiskHasOffsetAlways` and
`AlignedStaysAlways`.

They have one hypothesis, `FileOnly`: `Env` has `"file"` and none of
`"explicit"`, `"diskfail"` and `"underrun"`. It leaves a recording that begins
because a push finds the ring full, with EOS, stop, flush and seeks, and with
`recording-remove` set, at any time. Each of the three is a hazard of the code:
an explicit start may come while the tail is partly filled, so that the thread
writes the newest bytes first (`flucache.c:609`); a failed write moves all later
ones (`flucache.c:382`); a viewer that drains the ring makes push refill it from
the file over slots which the thread has not written (`flucache.c:824`). With
any of them added to the `Env` of `cache_recording`, TLC finds each of the four
properties violated. A seek with no slot full (`"tailseek"`, `"drainedseek"`) does
no harm here:
the viewer leaves a full slot, so it can only come before one was ever filled,
and then finds nothing.

That a file is complete is decided before there is one: the thread writes
slot after slot from the tail on, and it is right only because the ring was
then in order, with no gap and no partly filled slot. So the invariant `FileInv`
hands over from one phase to the next:

- `UnrecordedOK`: until a recording begins, the ring is as `RingInv` says, and
  nothing of the file is in use.
- `BeginsRight`, a lemma: a push that finds its tail unavailable finds every slot
  whole (`RingIsFull`), so that the oldest byte is the tail's first one, and
  `w_dk_pos` leaves exactly the place that the ring needs.
- `RecordedOK`: since then no push goes to the ring, and the file is the image
  (`ImageOf`) of the stream of which the thread has written `m_dk_pos` bytes; only
  between there and the size of the ring may bytes be missing or be holes.
- `MigratingOK`: while the thread runs each slot keeps the bytes it had, though it
  may be popped, released or sought over, the tail does not move, and the slot the
  thread is at is the one whose bytes belong at `m_dk_pos`. A full slot is left, so
  no refill begins.
- `MigratedOK`: a thread that is done has written the ring, or was told to stop with
  a file that is removed; neither changes afterwards, since the stop is
  the last call (`StopIsLast`) and so `recording-remove` cannot be set after it.

`PushExtendsImage` and `SlotExtendsImage` say that a write at either end keeps
`ImageOf`. They do not mention each other's progress, so their order does not
matter. For `AlignedStays`, the image makes a refill read the bytes of its
label (`BytesSub`), and the `gsize` subtraction of a seek does not wrap, because
the target was clamped to the file's window.

### The element

Assumption: `ElementAssumption`, that is, at least one slot, no scenario with a
flush of upstream together with a seek or a stop, and none with a file and seeks
(see "What the runs leave out on
purpose"). For every number of slots, every bound on what upstream pushes and every
set of scenarios, `FluTSBaseProofs` has `TypeCorrect`, `StopsQuietAlways`,
`InOrderAlways`, `SegmentFirstAlways`, `EosCompleteAlways` and
`RecordingPairedAlways`. The last has the hypothesis that no scenario has an
explicit start of the recording and a stop: a recording that no push announced is
then stopped without having been started.

The invariant `IInv` has, besides the types:

- `ThreadsOK`: where the threads can be together. A handler that has waited for
  the loop finds it idle, and the loop does not begin again before the handler is
  done. `StopsQuiet` alone does not say why the task is still stopped when the
  cache is dropped.
- `WindowOK`: the slot in the loop's hand is the last one popped, unless a seek went
  astray, and while nothing goes to the file the window is not longer than the
  ring.
- `NewOK`: nothing was pushed while upstream's pad is being activated, so the loop,
  which may run by then, has not moved.
- `OrderOK`: unless downstream is being flushed or a seek went astray, the loop has in hand what is due,
  or will pop it next. `InOrder` speaks of the push only; the buffer was popped
  several steps and one unlock earlier. For EOS, that there was nothing left when it
  decided to send it, and that the lock it kept lets nothing in.
- `SegmentOK`: a SEGMENT that is out starts at or before what comes next, unless a
  seek went astray.
- `RecordOK`: a recording that pushes began has been announced.

### The bin

Assumptions: `BinAssumption`, that is, a slot and a buffer of at least one
packet, a margin of at least one (the code's is 1000000 bytes), and ranges that
are sets of numbers; and `NoTimeAssumption`, that NONE is not among them. The theorems are for every number and
size of slots, every stream length, buffers of every size, and a PCR that
comes and jumps as it likes.

- `TimeShiftProofs!TypeCorrect`: `Spec => []TypeOK`.
- `EntriesSpaced`: `Spec => []Spaced`.
- `EntriesTrue`: `Spec => []AlignedUndisturbed`.

They follow from one inductive invariant, `IInv`, which has one lemma per
action. Its parts, and why each is needed:

- `IndexOK`: a node of either tree stands under its value and holds entries of
  the index, also between the two insertions. So whatever a lookup that overlaps
  an insertion returns is an entry at or below the value it was asked for
  (`LookupBelow`), though perhaps not the nearest.
- `OrderOK` and `SpacingOK`: an entry lies below the indexer's count, there is one
  per offset, and no time exceeds the last one. `Spaced` alone does not tell that
  the next entry comes after all others.
- `AlignOK`: the entries match `Stream`, the packets of the cache followed by those
  of the buffer on its way to it. `AlignedUndisturbed` alone says nothing of an
  entry whose packet the cache does not have yet, and the push would break it.
- `WindowOK`: the reader's offset is a multiple of `SlotSize` inside the window. A
  seek rounds its offset down to a slot, so the reader goes on at or before the
  entry that was found.
- `GoalOK`: follows a seek from the lookup over the check to the SEGMENT. Until the
  SEGMENT is made there is an entry, not later than the target, at or after the
  reader; if the SEGMENT's own lookup finds an entry it is at or before the reader,
  and by `Spaced` it is not later either. That it finds one if there is one
  is left to `SeeksNotAfter` below.

### The index and its lookups

`TimeShiftLookups!SearchNearest`: in the tree of any
finite set of values, a search returns the entry of the value, or
the nearest one on the side that was asked for, and nothing only if there is none.
A search is recursive and no induction over its data can be carried out here;
the proof does without. Lemma `Walk` gives what `Visited` does at one node by
showing that the recursive function exists; `VisitedNearest` then takes a smallest
tree on which a search would fail and finds a smaller one below its root.

With it the module proves what the answers mean to the bin, under the
assumptions of "The bin": `LookupsFindNearest` (`LookupsNearest`), `SegmentsTrue`
(`SegmentTrue`), `SeeksNotAfter` (`SeekNotAfter`, from `GoalOK` and `StampOK`), `StampsAreStarts` (`StampIsStart`), `DurationsReached`
(`DurationReached`) and `EntriesAreClose` (`EntriesClose`). `IInv` knows that an
answer is an entry; that it is the nearest, and still the right one some steps later,
takes a second invariant, `LInv`:

- `TreesOK`: only the entry that is being inserted may be missing from a tree, and
  trees are finite.
- `AheadOK`: an entry is made before the cache has its packet, so insertions
  between the two lookups of SEGMENT and buffer change neither answer.
- `StampOK`: the time of a SEGMENT stays that of the last entry at or before the
  buffer until the buffer is pushed; a seek in between makes a new SEGMENT first.
  If there is no entry, the SEGMENT tells no time, and only then.
- `ToldOK`: the duration is looked up before the end of what the cache has. Here the
  margin must not be 0, or the lookup could find an entry whose packet is not there.
- `CloseOK`: the last entry covers all PCRs up to the next one.

### The id of the index

Assumption: `IdAssumption`. For every set of threads and number of entries,
`IndexIdProofs` has `TypeCorrect` and `EntriesFoundAlone`
(`Spec => []FoundAlone`). `FoundAlone` says nothing of a thread
that has read the id and not used it, nor of how far the one that resolves it
has come; `AloneOK` adds both: the others are out until the id has its trees.

### Only model-checked

All of liveness: `StopCompletes`, `CacheFreed` and `MigrationEnds` of the cache,
`Plays`, `EosDelivered`, `SeekReturns`, `StopReturns` and `FlushReturns` of the
element. The prover does not do liveness under fairness.

## Not modelled

Queries, properties and logging of the element (the queries read what the model
has; the properties are set before it starts, except autoremove, which is an
action). The 32-bit `cur_bytes`, which only a query reports.

Of the index: the search for an entry that has flags (every caller passes
none). Of the seeker: the stop of a seek, which players leave open; BYTES seeks and reverse
rates, which pass through; the case without an index, which the bin always
sets. Of the composition: the recording file, EOS and the flush of upstream,
which `ShifterCache` and `FluTSBase` have.

Subclasses and plugin entry have no behaviour of their own. The example players
are not part of the plugin.

## Plan

Every safety property of the runs that pass is proved. Left is to carry the
theorems about the ring over to a cache with a file, as far as they hold there:
`RingHasOffset` until the ring is refilled, `PopNullOnlyWhenEmpty` and
`SearchEnds` while the thread runs. `MigratingOK` has what is in each slot then; it
would need the order of the states as well, as `Reading` has it.

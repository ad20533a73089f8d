---------------------------- MODULE TimeShiftBin ----------------------------
(***************************************************************************)
(* The elements as GstFluMPEGShifterBin links them (src/src/               *)
(* flutsmpegbin.c): parser, indexer, cache element, seeker, with one index *)
(* that the indexer writes and the seeker reads.                           *)
(*                                                                         *)
(* Upstream's thread runs the indexer and then fills the cache, the loop   *)
(* task of the cache element pushes through the seeker, and the            *)
(* application seeks and asks from a thread of its own.  Only the cache    *)
(* element has a lock: index and indexer have none.                        *)
(*                                                                         *)
(* The cache is a ring without a file, as TimeShift promises it.  A slot   *)
(* holds SlotSize packets (the code's slots are not a multiple of packets: *)
(* a slot here begins with the first whole one).                           *)
(***************************************************************************)
EXTENDS TsIndexer, TimeShiftSeeker

CONSTANTS
  NSlots, SlotSize,
  MaxPackets,   \* bound: upstream sends no more packets than this
  MaxSize,      \* bound: packets of a buffer
  Deltas,       \* settings of the indexer's delta, other than -1
  Targets,      \* times the application seeks to
  Ends,         \* and times before the end
  MaxJumps,     \* bound: discontinuities of the PCR
  Jumps,        \* how far a discontinuity or wrap of the PCR goes, either way
  Scenarios     \* what the environment may do, one subset of EnvOptions each

\* "seek"     the application seeks, and asks for the duration
\* "jump"     the PCR jumps
\* "rap"      the indexer's delta is -1
\* "blocks"   buffers have up to MaxSize packets, not one
\* "latepmt"  data comes before the PCR pid is known
\* "overrun"  upstream fills the ring beyond the reader
\* "restart"  the elements go to READY and up again
\* "race"     lookups may overlap an insertion
EnvOptions == {"seek", "jump", "rap", "blocks", "latepmt", "overrun",
               "restart", "race"}

ASSUME BinAssumption ==
  /\ NSlots \in Nat \ {0} /\ SlotSize \in Nat \ {0}
  /\ MaxPackets \in Nat /\ MaxSize \in Nat \ {0}
  /\ MaxJumps \in Nat /\ Margin \in Nat \ {0}
  /\ Deltas \subseteq Nat
  /\ Targets \subseteq Int /\ Ends \subseteq Nat /\ Jumps \subseteq Nat
  /\ Scenarios \subseteq SUBSET EnvOptions

VARIABLES
  env,                   \* the scenario, which does not change
  clock, jumps,          \* the last PCR sent, discontinuities so far
  chain, data, entry,    \* upstream's thread, its buffer and its new entry
  content,               \* the packets given to the cache since it started
  oldest,                \* offset of the oldest packet in the ring
  next,                  \* offset of the slot that is popped next
  loop, buffer,          \* the loop task and the offset of its buffer
  need_newsegment,
  app, target, len, want,  \* the application's seek or query
  goal,                  \* target of the seek whose buffer is due, if any
  segment,               \* start of the SEGMENT whose buffer is due
  stamp                  \* time of the last buffer, while it is downstream

upstream == <<clock, jumps, chain, data, entry>>
cache == <<content, oldest, next>>
playing == <<loop, buffer, need_newsegment, timestamp_next_buffer>>
asking == <<app, target, len, want, goal>>
told == <<segment, stamp>>
vars == <<env, index, indexer, upstream, cache, playing, asking, told>>

Init ==
  /\ env \in Scenarios
  /\ delta \in IF "rap" \in env THEN {-1} ELSE Deltas
  /\ IndexInit /\ IndexerInit
  /\ clock = 1 /\ jumps = 0 /\ chain = "idle" /\ data = <<>> /\ entry = {}
  /\ content = <<>> /\ oldest = 0 /\ next = 0
  /\ loop = "idle" /\ buffer = 0
  /\ need_newsegment = TRUE /\ timestamp_next_buffer = FALSE
  /\ app = "idle" /\ target = 0 /\ len = 0 /\ want = NoOffset /\ goal = {}
  /\ segment = NoTime /\ stamp = NoTime

-----------------------------------------------------------------------------
(* Upstream's thread: parser, indexer, cache                               *)

\* A buffer of n packets.  Those of P have a PCR, one more than the one
\* before, those of R the random access flag; the clock may jump ahead of it.
BufferOf(n, P, R, j) ==
  [i \in 1 .. n |->
     [pcr |-> IF i \in P THEN clock + j + Cardinality({k \in P : k <= i})
              ELSE None,
      rap |-> i \in R]]

Size(n) == n = 1 \/ ("blocks" \in env /\ n <= MaxSize)

\* The parser posts "pmt" from upstream's thread.
Pmt ==
  /\ chain = "idle" /\ ~pcr_pid
  /\ SetPcrPid
  /\ UNCHANGED <<env, index, upstream, cache, playing, asking, told>>

\* The indexer looks at a buffer.
ChainCollect ==
  /\ chain = "idle"
  /\ pcr_pid \/ "latepmt" \in env
  /\ \E n \in 1 .. MaxSize, j \in Jumps \cup {-k : k \in Jumps} \cup {0} :
       \E P \in SUBSET (1 .. n) : \E R \in SUBSET P :
         /\ Size(n) /\ current_offset + n <= MaxPackets
         /\ j # 0 => "jump" \in env /\ jumps < MaxJumps /\ P # {}
         /\ clock + j >= 0
         /\ delta # -1 => R = {}
         /\ data' = BufferOf(n, P, R, j)
         /\ clock' = clock + j + Cardinality(P)
         /\ jumps' = IF j # 0 THEN jumps + 1 ELSE jumps
  /\ entry' = Collected(data')
  /\ TransformIp(data')
  /\ IF entry' = {} THEN chain' = "push" /\ UNCHANGED index
     ELSE chain' = "index" /\ \E e \in entry' : AddEntry(e)
  /\ UNCHANGED <<env, cache, playing, asking, told>>

ChainAddTime ==
  /\ chain = "index"
  /\ \E e \in entry : AddTime(e)
  /\ UNCHANGED <<env, indexer, upstream, cache, playing, asking, told>>

ChainAddBytes ==
  /\ chain = "index"
  /\ \E e \in entry : AddBytes(e)
  /\ chain' = "push"
  /\ UNCHANGED <<env, indexer, clock, jumps, data, entry, cache, playing,
                 asking, told>>

\* Slots from the one in the loop's hand on are not given up.
Reader == IF loop = "idle" THEN next ELSE buffer
\* Mistake: slots that were not read are taken as well.
RoomUnread == NSlots * SlotSize
Room == Reader + NSlots * SlotSize - Len(content)

Least(a, b) == IF a <= b THEN a ELSE b
Most(a, b) == IF a >= b THEN a ELSE b

\* gst_shifter_cache_push: what does not fit is lost.
ChainPush ==
  /\ chain = "push"
  /\ "overrun" \in env \/ Len(data) <= Room
  /\ content' = content \o SubSeq(data, 1, Least(Len(data), Room))
  /\ LET slots == (Len(content') + SlotSize - 1) \div SlotSize
     IN oldest' = Most(oldest, (slots - NSlots) * SlotSize)
  /\ chain' = "idle" /\ data' = <<>> /\ entry' = {}
  /\ UNCHANGED <<env, index, indexer, clock, jumps, next, playing, asking,
                 told>>

-----------------------------------------------------------------------------
(* The loop task: cache element, seeker                                    *)

Before(f, v) == Answers(f, v, "race" \in env)

LoopPop ==
  /\ loop = "idle"
  /\ next + SlotSize <= Len(content)
  /\ buffer' = next
  /\ next' = next + SlotSize
  /\ loop' = IF need_newsegment THEN "segment" ELSE "push"
  /\ stamp' = NoTime
  /\ UNCHANGED <<env, index, indexer, upstream, content, oldest,
                 need_newsegment, timestamp_next_buffer, asking, segment>>

\* gst_time_shift_seeker_transform_segment_event.
LoopSegment ==
  /\ loop = "segment"
  /\ \E found \in Before("bytes", buffer) :
       segment' = BytesToStreamTime(found, buffer)
  /\ timestamp_next_buffer' = TRUE
  /\ need_newsegment' = FALSE
  /\ loop' = "push"
  /\ UNCHANGED <<env, index, indexer, upstream, cache, buffer, asking, stamp>>

\* gst_time_shift_seeker_transform_ip.
\* Mistake: the time of the end of the buffer.
LoopPushEnd ==
  /\ loop = "push"
  /\ IF timestamp_next_buffer
     THEN \E found \in Before("bytes", next) :
            stamp' = BytesToStreamTime(found, next)
     ELSE UNCHANGED stamp
  /\ timestamp_next_buffer' = FALSE
  /\ loop' = "idle" /\ buffer' = 0
  /\ segment' = NoTime /\ goal' = {}
  /\ UNCHANGED <<env, index, indexer, upstream, cache, need_newsegment, app,
                 target, len, want>>
LoopPush ==
  /\ loop = "push"
  /\ IF timestamp_next_buffer
     THEN \E found \in Before("bytes", buffer) :
            stamp' = BytesToStreamTime(found, buffer)
     ELSE UNCHANGED stamp
  /\ timestamp_next_buffer' = FALSE
  /\ loop' = "idle" /\ buffer' = 0
  /\ segment' = NoTime /\ goal' = {}
  /\ UNCHANGED <<env, index, indexer, upstream, cache, need_newsegment, app,
                 target, len, want>>

-----------------------------------------------------------------------------
(* The application                                                         *)

SeekSet ==
  /\ app = "idle" /\ "seek" \in env
  /\ target' \in Targets
  /\ app' = "find"
  /\ UNCHANGED <<env, index, indexer, upstream, cache, playing, len, want,
                 goal, told>>

\* The duration in bytes is that of the cache, asked first.
SeekEnd ==
  /\ app = "idle" /\ "seek" \in env
  /\ \E d \in Ends : target' = -d
  /\ len' = Len(content)
  /\ app' = "end"
  /\ UNCHANGED <<env, index, indexer, upstream, cache, playing, want, goal,
                 told>>
SeekEndFound ==
  /\ app = "end"
  /\ \E found \in Before("bytes", LastOffset(len)) :
       target' = FromEnd(LastTime(found), target)
  /\ app' = "find" /\ len' = 0
  /\ UNCHANGED <<env, index, indexer, upstream, cache, playing, want, goal,
                 told>>

AskDuration ==
  /\ app = "idle" /\ "seek" \in env
  /\ len' = Len(content)
  /\ app' = "duration"
  /\ UNCHANGED <<env, index, indexer, upstream, cache, playing, target, want,
                 goal, told>>
TellDuration ==
  /\ app = "duration"
  /\ \E found \in Before("bytes", LastOffset(len)) : target' = LastTime(found)
  /\ app' = "told" /\ len' = 0
  /\ UNCHANGED <<env, index, indexer, upstream, cache, playing, want, goal,
                 told>>
HearDuration ==
  /\ app = "told"
  /\ app' = "idle" /\ target' = 0
  /\ UNCHANGED <<env, index, indexer, upstream, cache, playing, len, want,
                 goal, told>>

\* gst_time_shift_seeker_seek looks for the target.
SeekFind ==
  /\ app = "find"
  /\ \E found \in Before("time", target) : want' = SeekOffset(found)
  /\ app' = "check"
  /\ UNCHANGED <<env, index, indexer, upstream, cache, playing, target, len,
                 goal, told>>

\* gst_flutsbase_handle_seek asks the cache before it takes the lock.
SeekCheck ==
  /\ app = "check"
  /\ IF want # NoOffset /\ want >= oldest /\ want < Len(content)
     THEN app' = "reposition" /\ UNCHANGED <<target, want>>
     ELSE app' = "idle" /\ target' = 0 /\ want' = NoOffset
  /\ UNCHANGED <<env, index, indexer, upstream, cache, playing, len, goal,
                 told>>

\* The slots before this one are full.
Filled == (Len(content) \div SlotSize) * SlotSize

\* gst_shifter_cache_seek goes to the beginning of a full slot.
\* Mistake: it goes to the end of it.
ReachedAfter(offset) == (offset \div SlotSize + 1) * SlotSize
Reached(offset) == (offset \div SlotSize) * SlotSize

\* Everything was read and the next slot to fill is the oldest of the ring
\* again: gst_shifter_cache_seek, which starts from that slot, then makes only
\* the slot of the target readable (ShifterCache's run cache_drained_seek).
Wrapped ==
  /\ next = Filled /\ Filled = Len(content)
  /\ oldest + NSlots * SlotSize = Filled

\* The rest of gst_flutsbase_handle_seek.  FLUSH_START makes the loop give up
\* what it pushes.  A target in the slot being filled leaves the cache as it
\* is; one that has left the ring meanwhile means its oldest packet.
\* Bound: no seek on a ring that is Wrapped.
SeekReposition ==
  /\ app = "reposition"
  /\ loop # "segment" /\ ~Wrapped
  /\ LET offset == Most(want, oldest)
     IN next' = IF offset < Filled THEN Reached(offset) ELSE next
  /\ loop' = "idle" /\ buffer' = 0
  /\ need_newsegment' = TRUE
  /\ goal' = IF want < oldest THEN {} ELSE {target}
  /\ segment' = NoTime
  /\ app' = "idle" /\ target' = 0 /\ want' = NoOffset
  /\ UNCHANGED <<env, index, indexer, upstream, content, oldest,
                 timestamp_next_buffer, len, stamp>>

-----------------------------------------------------------------------------
(* Down to READY and up again: the cache is new, the indexer starts        *)

Restart ==
  /\ "restart" \in env
  /\ chain = "idle" /\ loop = "idle" /\ app = "idle" /\ content # <<>>
  /\ IndexerStart
  /\ content' = <<>> /\ oldest' = 0 /\ next' = 0
  /\ need_newsegment' = TRUE
  /\ goal' = {}
  /\ stamp' = NoTime
  /\ UNCHANGED <<env, upstream, loop, buffer, timestamp_next_buffer, app,
                 target, len, want, segment>>

Next ==
  \/ Pmt \/ ChainCollect \/ ChainAddTime \/ ChainAddBytes \/ ChainPush
  \/ LoopPop \/ LoopSegment \/ LoopPush
  \/ SeekSet \/ SeekEnd \/ SeekEndFound \/ AskDuration \/ TellDuration \/ HearDuration
  \/ SeekFind \/ SeekCheck \/ SeekReposition
  \/ Restart

Spec == Init /\ [][Next]_vars

-----------------------------------------------------------------------------
(* Properties                                                              *)

Packets(s) == \A i \in DOMAIN s : s[i] \in Packet

\* Every variable stays in its range: offsets do not pass what they count,
\* nodes of the trees stay under their values, and the window is a window.
TypeOK ==
  /\ env \in Scenarios
  /\ associations \subseteq Entry
  /\ \A f \in Formats : \A v \in DOMAIN Tree(f) :
       Tree(f)[v] \in Node /\ Tree(f)[v].key[f] = v
  /\ inserting \in Formats \cup {"none"}
  /\ inserting # "none" <=> chain = "index"
  /\ pcr_pid \in BOOLEAN /\ delta \in Deltas \cup {-1} /\ own_index = FALSE
  /\ base_time \in Nat \cup {None} /\ last_time \in Int
  /\ current_offset \in 0 .. MaxPackets
  /\ clock \in Nat /\ jumps \in 0 .. MaxJumps
  /\ chain \in {"idle", "index", "push"}
  /\ Packets(data) /\ Packets(content)
  /\ entry \subseteq Entry /\ (chain = "index" => entry # {})
  /\ oldest \in 0 .. Len(content) /\ next \in 0 .. Len(content)
  /\ oldest <= Reader
  /\ loop \in {"idle", "segment", "push"} /\ buffer \in Nat
  /\ need_newsegment \in BOOLEAN /\ timestamp_next_buffer \in BOOLEAN
  /\ app \in {"idle", "end", "duration", "told",
              "find", "check", "reposition"}
  /\ target \in Int \cup {NoTime} /\ goal \subseteq Int
  /\ len \in 0 .. MaxPackets /\ want \in Nat \cup {NoOffset}
  /\ segment \in Int \cup {NoTime} /\ stamp \in Int \cup {NoTime}

\* A lookup returns the nearest entry on the side it was asked for, among all
\* that were ever added, and NULL only when there is none: whatever the order
\* in which times come, also when a time or offset was there before.  It is
\* asked after each insertion (flutsmemindex.c:294).
LookupsNearest ==
  chain = "push" /\ entry # {} =>
    AnswersNearest(byTime, "time") /\ AnswersNearest(byBytes, "bytes")

\* However the PCR jumps, times of entries grow with their offsets, by delta
\* or more (gsttimeshifttsindexer.c, collect_time): the two trees of the
\* index have one order, on which every conversion and back relies.
Spaced ==
  delta # -1 =>
    \A e, o \in associations :
      e.bytes < o.bytes => e.time >= 0 /\ e.time + delta <= o.time

\* The packet at offset i-1 of the cache is the time that is asked for.
IsAt(i, time) ==
  /\ content[i].pcr # None
  /\ MPEGTIME_TO_GSTTIME(content[i].pcr) - base_time = time

\* An entry tells the time of the packet that the cache has at the offset of
\* the entry: the indexer's count of bytes is the cache's.
EntriesAligned ==
  \A e \in associations :
    e.bytes < Len(content) => IsAt(e.bytes + 1, e.time)

\* No packet is lost between indexer and cache, and no new cache starts to
\* count from 0 while the indexer goes on.
Undisturbed == env \cap {"overrun", "restart"} = {}

\* EntriesAligned, as long as the cache takes all that the indexer has seen,
\* for buffers of any size and a PCR that comes late or jumps.
AlignedUndisturbed == Undisturbed => EntriesAligned

\* After a TIME seek the SEGMENT does not start after the target, as long as
\* the offset found was still in the ring when the seek was performed: over
\* both lookups, the two elements between them and all that upstream adds
\* meanwhile.  It starts at GST_CLOCK_TIME_NONE (bytes_to_stream_time), which
\* is no start at all, only where the slot begins before the first entry, or
\* where the lookup ran into an insertion and missed what it was to find.
SeekNotAfter ==
  delta # -1 /\ ~need_newsegment =>
    \A t \in goal :
      IF segment = NoTime
      THEN "race" \in env \/ \A e \in associations : e.bytes > buffer
      ELSE segment <= t

\* The SEGMENT that announces a buffer tells the time of the last entry at or
\* before its first packet: a packet with that PCR is there and no entry lies
\* between.  No time is told only if there is no entry yet
\* (gst_time_shift_seeker_bytes_to_stream_time).
SegmentTrue ==
  Undisturbed /\ "race" \notin env /\ loop = "push" /\ timestamp_next_buffer =>
    LET upTo == {e \in associations : e.bytes <= buffer}
        last == {e \in upTo : \A o \in upTo : o.bytes <= e.bytes}
    IN IF upTo = {} THEN segment = IF buffer = 0 THEN 0 ELSE NoTime
       ELSE \A e \in last : segment = e.time /\ IsAt(e.bytes + 1, segment)

\* The first buffer after a SEGMENT carries the time at which the SEGMENT
\* starts, though upstream may index more between the two lookups and a seek
\* may come between the two pushes (transform_segment_event, transform_ip).
StampIsStart ==
  [][("race" \notin env /\ timestamp_next_buffer /\ ~timestamp_next_buffer')
       => stamp' = segment]_vars

\* There is data at the duration that is told: a packet with that time has
\* come by then, though entries are made before the cache has their packets
\* (gst_time_shift_seeker_get_last_time).
DurationReached ==
  Undisturbed /\ app = "told" /\ target # NoTime =>
    \E i \in DOMAIN content : IsAt(i, target)

\* A seek loses less than delta: for each PCR that came, there is an entry at
\* most delta before it.  True of a PCR that never jumps, in buffers of one
\* packet as the parser sends them (gsttimeshifttsindexer.c, collect_time).
EntriesClose ==
  env \cap {"jump", "blocks", "latepmt", "overrun", "restart"} = {} /\ delta > 0 =>
    \A i \in DOMAIN content : content[i].pcr # None =>
      \E e \in associations :
        /\ e.time + base_time <= MPEGTIME_TO_GSTTIME(content[i].pcr)
        /\ MPEGTIME_TO_GSTTIME(content[i].pcr) < e.time + base_time + delta

=============================================================================

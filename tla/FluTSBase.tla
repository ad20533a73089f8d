----------------------------- MODULE FluTSBase ------------------------------
(***************************************************************************)
(* GstFluTSBase (src/src/flutsbase.c): the element around the cache.  Its  *)
(* threads are upstream (chain and serialized events), the thread that     *)
(* sends FLUSH_START, the loop task of the source pad, the application     *)
(* that seeks, and the one that changes the element's state.               *)
(*                                                                         *)
(* One action is one section under the FLOW lock, or one call without it.  *)
(* Only the loop keeps the lock over a call that can block: while it       *)
(* pushes an event downstream.  gst_pad_pause_task and gst_pad_stop_task   *)
(* wait for the iteration of the loop to end.                              *)
(*                                                                         *)
(* The cache is what TimeShift promises of the ring, counted in slots:     *)
(* slots oldest to tail-1 are full, the loop pops head, and the tail slot  *)
(* may be partly filled.  Once recording, data goes to the file, and how   *)
(* much of it a refill brings back is left open: ShifterCache says it.     *)
(* So is what the ring gives after a seek that leaves full slots away from *)
(* the head (astray): how many slots are full is then all that is known.   *)
(***************************************************************************)
EXTENDS Integers

CONSTANTS
  NSlots,      \* slots of the ring buffer
  MaxSlots,    \* bound: upstream pushes no more than this many slots
  SeekSlots,   \* slots the application seeks to
  Scenarios    \* what the environment may do, one subset of EnvOptions each

\* "eos"       upstream ends the stream
\* "seek"      the application seeks, at times when upstream has not ended
\* "lateseek"  the application also seeks when upstream has ended
\* "flush"     upstream flushes
\* "stop"      the element goes back to READY, once
\* "file"      a recording template is set
\* "explicit"  the application asks for the recording
\* "downeos"   downstream wants no more data
\* "downerror" downstream fails
\* "preroll"   downstream may hold a buffer or an EOS until it is flushed
\* "flush" goes with neither "seek" nor "stop": a flush restarts the task that
\* those wait for.  Nor does "file" go with "seek": what a seek finds in a file
\* is a matter of the cache.
EnvOptions == {"eos", "seek", "lateseek", "flush", "stop", "file", "explicit",
               "downeos", "downerror", "preroll"}

ASSUME ElementAssumption ==
  /\ NSlots \in Nat \ {0}
  /\ MaxSlots \in Nat
  /\ SeekSlots \subseteq Nat
  /\ Scenarios \subseteq SUBSET EnvOptions
  /\ \A s \in Scenarios :
       /\ "flush" \in s => s \cap {"seek", "stop"} = {}
       /\ "seek" \in s => "file" \notin s

VARIABLES
  env,                        \* the scenario, which does not change
  srcresult, sinkresult, is_eos, unexpected,
  need_newsegment, stream_start_event,
  alive,                      \* ts->cache # NULL
  oldest, head, tail, part,   \* the ring; part: the tail slot has bytes
  filed,                      \* slots of the file that are not in the ring
  astray,                     \* history: a seek has left the head on a slot
                              \* with read slots between it and the tail
  recording,                  \* gst_shifter_cache_is_recording
  recording_started, posted,  \* the last recording message of the element
  task,                       \* state of the source pad's task
  loop, buffer, pushed,       \* where its loop is, its buffer, what came back
  woken,                      \* buffer_add was signalled while it waited
  seek, want,                 \* the seek handler
  flush,                      \* upstream's flush
  state,                      \* the element's state and its changes
  upstreamEos,                \* the sink pad has seen EOS
  srcFlushing,                \* the source pad is flushing
  segment, eosSent, due,      \* downstream: segment start, EOS, next slot
  told                        \* the application was told of an error

flow == <<srcresult, sinkresult, is_eos, unexpected>>
events == <<need_newsegment, stream_start_event>>
window == <<oldest, head, tail, part, filed, astray>>
cache == <<alive, window, recording>>
messages == <<recording_started, posted>>
looping == <<loop, buffer, pushed, woken>>
seeking == <<seek, want>>
downstream == <<srcFlushing, segment, eosSent, due>>
vars == <<env, flow, events, cache, messages, task, looping, seeking, flush,
          state, upstreamEos, downstream, told>>

None == -1

-----------------------------------------------------------------------------
(* The cache                                                               *)

\* tail - head slots are full: head to tail-1, or any when astray.
IsEmpty == head >= tail

Higher(a, b) == IF a >= b THEN a ELSE b

\* gst_flutsbase_start: a cache without content.
NewCache ==
  /\ alive' = TRUE
  /\ oldest' = 0 /\ head' = 0 /\ tail' = 0 /\ part' = FALSE /\ filed' = 0
  /\ astray' = FALSE
  /\ recording' = FALSE /\ recording_started' = FALSE

\* The oldest slot left when slots up to t have been filled and, if p, slot t
\* is being filled: it takes the place of an older one.
LowEnd(t, p) == Higher(oldest, IF p THEN t - NSlots + 1 ELSE t - NSlots)

\* The slot the loop has in hand is downstream and cannot be taken.
InHand == loop \in {"stream_start", "segment", "push"}
Room(t, p) == LowEnd(t, p) <= IF InHand THEN buffer ELSE head

\* What remains of a push that would leave slots up to t full and, if p, the
\* next one partly filled.  When astray a full slot may be in the way anywhere.
Fitting(t, p) ==
  LET some == {<<t, p>>} \cup (IF t > tail THEN {<<t, FALSE>>} ELSE {})
                \cup {<<tail, part>>}
  IN IF astray THEN {f \in some : LowEnd(f[1], f[2]) <= head}
     ELSE IF Room(t, p) THEN {<<t, p>>}
     ELSE IF t > tail /\ Room(t, FALSE) THEN {<<t, FALSE>>}
     ELSE {<<tail, part>>}

\* A push of one buffer: what does not fit begins the file or is lost.
CachePush(t, p) ==
  \E fits \in Fitting(t, p) :
    /\ tail' = fits[1] /\ part' = fits[2]
    /\ oldest' = LowEnd(fits[1], fits[2])
    /\ recording' = ("file" \in env /\ fits # <<t, p>>)
    /\ filed' = IF recording' THEN 1 ELSE 0
    /\ UNCHANGED <<head, astray>>

\* A push to the file, which refills an empty ring.
CacheRecord ==
  \E k \in 0 .. filed + 1 :
    /\ k > 0 => IsEmpty
    /\ tail' = tail + k /\ filed' = filed + 1 - k
    /\ part' = (part /\ k = 0)
    /\ UNCHANGED <<oldest, head, recording, astray>>

\* The slots a pop may find at the head: a full one or, with drain, the one
\* that is partly filled.
Poppable(drain) ==
  {s \in oldest .. tail :
     /\ s < tail \/ (drain /\ part)
     /\ IF astray THEN s = tail \/ ~IsEmpty ELSE s = head}

\* A pop of slot s.  Mistake: a drained slot leaves the tail where it was.
CachePopTail(s) ==
  \E k \in 0 .. filed :
    /\ buffer' = s
    /\ head' = head + 1
    /\ tail' = tail + k /\ filed' = filed - k
    /\ part' = (part /\ s < tail /\ k = 0)
    /\ UNCHANGED <<alive, oldest, recording, astray>>
CachePop(s) ==
  \E k \in 0 .. filed :
    /\ buffer' = s
    /\ head' = head + 1
    /\ tail' = Higher(tail, s + 1) + k /\ filed' = filed - k
    /\ part' = (part /\ s < tail /\ k = 0)
    /\ UNCHANGED <<alive, oldest, recording, astray>>

\* The cache is popped until it gives nothing: nothing is left unless astray.
CacheDrain(drain) ==
  LET end == IF drain /\ part THEN tail + 1 ELSE tail
  IN \E last \in {end} \cup (IF astray THEN {tail} ELSE {}),
        left \in 0 .. IF astray THEN tail - head ELSE 0, k \in 0 .. filed :
       /\ tail' = last + k /\ head' = last + k - left /\ filed' = filed - k
       /\ part' = (part /\ last = tail /\ k = 0)
       /\ due' = head'
       /\ UNCHANGED <<alive, oldest, recording, astray>>

-----------------------------------------------------------------------------

Init ==
  /\ env \in Scenarios
  /\ srcresult = "FLUSHING" /\ sinkresult = "FLUSHING"
  /\ is_eos = FALSE /\ unexpected = FALSE
  /\ need_newsegment = TRUE /\ stream_start_event = FALSE
  /\ alive = FALSE /\ recording = FALSE
  /\ oldest = 0 /\ head = 0 /\ tail = 0 /\ part = FALSE /\ filed = 0
  /\ astray = FALSE
  /\ recording_started = FALSE /\ posted = "none"
  /\ task = "stopped"
  /\ loop = "idle" /\ buffer = None /\ pushed = "OK" /\ woken = FALSE
  /\ seek = "none" /\ want = None
  /\ flush = "none"
  /\ state = "ready"
  /\ upstreamEos = FALSE
  /\ srcFlushing = TRUE /\ segment = None /\ eosSent = FALSE /\ due = None
  /\ told = FALSE

-----------------------------------------------------------------------------
(* The FLOW lock and its condition variable                                *)

\* The loop keeps the lock while it pushes an event.
Unlocked == loop \notin {"stream_start", "segment", "eos"}

\* FLOW_SIGNAL_ADD
SignalAdd == woken' = (woken \/ loop = "wait")

\* gst_pad_pause_task, up to the point where it waits.
PauseTask == task' = IF task = "started" THEN "paused" ELSE task

\* What both pads' activation and the end of a flush reset.
AcceptData ==
  /\ srcresult' = "OK" /\ sinkresult' = "OK"
  /\ is_eos' = FALSE /\ unexpected' = FALSE

RefuseData == srcresult' = "FLUSHING" /\ sinkresult' = "FLUSHING"

-----------------------------------------------------------------------------
(* gst_flutsbase_loop and gst_flutsbase_pop                                *)

\* out_flushing: the task pauses.  At EOS the application is told of an error
\* and downstream is sent EOS, without the lock.
GiveUp(result) ==
  /\ srcresult' = result
  /\ PauseTask
  /\ IF is_eos /\ result = "ERROR"
       THEN told' = TRUE /\ loop' = "last_eos"
       ELSE loop' = "idle" /\ UNCHANGED told

\* Is the loop at the place where it looks at srcresult and at the cache?
AtTop == \/ loop = "idle" /\ task = "started"
         \/ loop = "wait" /\ woken

LoopFlushed ==
  /\ AtTop /\ srcresult # "OK"
  /\ GiveUp(srcresult)
  /\ woken' = FALSE
  /\ UNCHANGED <<env, sinkresult, is_eos, unexpected, events, cache, messages,
                 buffer, pushed, seeking, flush, state, upstreamEos,
                 downstream>>

\* FLOW_WAIT_ADD_CHECK
LoopWait ==
  /\ AtTop /\ srcresult = "OK" /\ IsEmpty /\ ~is_eos
  /\ loop' = "wait" /\ woken' = FALSE
  /\ UNCHANGED <<env, flow, events, cache, messages, task, buffer, pushed,
                 seeking, flush, state, upstreamEos, downstream, told>>

\* What is pushed first: STREAM_START, SEGMENT or the buffer.
FirstPush(streamStart) ==
  IF streamStart THEN "stream_start"
  ELSE IF need_newsegment THEN "segment"
  ELSE "push"

\* The pop finds a buffer.  Mistake: it does not drain at EOS.
PopItemNoDrain ==
  /\ \E s \in Poppable(FALSE) : CachePop(s)
  /\ loop' = FirstPush(stream_start_event)
  /\ UNCHANGED <<srcresult, task, told>>
PopItem ==
  /\ \E s \in Poppable(is_eos) : CachePop(s)
  /\ loop' = FirstPush(stream_start_event)
  /\ UNCHANGED <<srcresult, task, told>>

\* no_item: at EOS the loop goes on to send it, and otherwise gives up.
PopNothingNoDrain ==
  /\ astray \/ Poppable(FALSE) = {}
  /\ UNCHANGED <<cache, buffer>>
  /\ IF is_eos THEN loop' = "eos" /\ UNCHANGED <<srcresult, task, told>>
               ELSE GiveUp("ERROR")
PopNothing ==
  /\ astray \/ Poppable(is_eos) = {}
  /\ UNCHANGED <<cache, buffer>>
  /\ IF is_eos THEN loop' = "eos" /\ UNCHANGED <<srcresult, task, told>>
               ELSE GiveUp("ERROR")

LoopPopNoDrain ==
  /\ AtTop /\ srcresult = "OK" /\ (is_eos \/ ~IsEmpty)
  /\ woken' = FALSE
  /\ PopItemNoDrain \/ PopNothingNoDrain
  /\ UNCHANGED <<env, sinkresult, is_eos, unexpected, events, messages, pushed,
                 seeking, flush, state, upstreamEos, downstream>>
LoopPop ==
  /\ AtTop /\ srcresult = "OK" /\ (is_eos \/ ~IsEmpty)
  /\ woken' = FALSE
  /\ PopItem \/ PopNothing
  /\ UNCHANGED <<env, sinkresult, is_eos, unexpected, events, messages, pushed,
                 seeking, flush, state, upstreamEos, downstream>>

\* The events fail on a flushing pad; the buffer in hand is not given back.
LoopEventFails ==
  /\ loop \in {"stream_start", "segment"} /\ srcFlushing
  /\ stream_start_event' = (stream_start_event /\ loop # "stream_start")
  /\ GiveUp("FLUSHING")
  /\ UNCHANGED <<env, sinkresult, is_eos, unexpected, need_newsegment, cache,
                 messages, buffer, pushed, woken, seeking, flush, state,
                 upstreamEos, downstream>>

LoopStreamStart ==
  /\ loop = "stream_start" /\ ~srcFlushing
  /\ stream_start_event' = FALSE
  /\ loop' = FirstPush(FALSE)
  /\ UNCHANGED <<env, flow, need_newsegment, cache, messages, task, buffer,
                 pushed, woken, seeking, flush, state, upstreamEos, downstream,
                 told>>

LoopSegment ==
  /\ loop = "segment" /\ ~srcFlushing
  /\ segment' = buffer
  /\ need_newsegment' = FALSE
  /\ loop' = "push"
  /\ UNCHANGED <<env, flow, stream_start_event, cache, messages, task, buffer,
                 pushed, woken, seeking, flush, state, upstreamEos,
                 srcFlushing, eosSent, due, told>>

\* gst_pad_push, without the lock.  A pad that has sent EOS refuses buffers.
PushResults ==
  IF srcFlushing THEN {"FLUSHING"}
  ELSE IF eosSent THEN {"EOS"}
  ELSE {"OK"} \cup (IF "downeos" \in env THEN {"EOS"} ELSE {})
              \cup (IF "downerror" \in env THEN {"ERROR"} ELSE {})

LoopPush ==
  /\ loop = "push"
  /\ pushed' \in PushResults
  /\ due' = IF pushed' = "OK" THEN buffer + 1 ELSE due
  /\ loop' = "pushed"
  /\ UNCHANGED <<env, flow, events, cache, messages, task, buffer, woken,
                 seeking, flush, state, upstreamEos, srcFlushing, segment,
                 eosSent, told>>

\* The lock is taken again and srcresult looked at before the result.
LoopPushed ==
  /\ loop = "pushed"
  /\ IF srcresult # "OK" THEN GiveUp("FLUSHING")
     ELSE IF pushed \in {"OK", "EOS"}
       THEN loop' = "idle" /\ UNCHANGED <<srcresult, task, told>>
       ELSE GiveUp(pushed)
  /\ IF srcresult = "OK" /\ pushed = "EOS"
       THEN CacheDrain(is_eos) /\ unexpected' = TRUE
       ELSE UNCHANGED <<unexpected, cache, due>>
  /\ UNCHANGED <<env, sinkresult, is_eos, events, messages, buffer, pushed,
                 woken, seeking, flush, state, upstreamEos, srcFlushing,
                 segment, eosSent>>

\* no_item: EOS is pushed with the lock held and the task pauses.
LoopEos ==
  /\ loop = "eos"
  /\ eosSent' = (eosSent \/ ~srcFlushing)
  /\ loop' = "idle"
  /\ PauseTask
  /\ UNCHANGED <<env, flow, events, cache, messages, buffer, pushed, woken,
                 seeking, flush, state, upstreamEos, srcFlushing, segment, due,
                 told>>

LoopLastEos ==
  /\ loop = "last_eos"
  /\ eosSent' = (eosSent \/ ~srcFlushing)
  /\ loop' = "idle"
  /\ UNCHANGED <<env, flow, events, cache, messages, task, buffer, pushed,
                 woken, seeking, flush, state, upstreamEos, srcFlushing,
                 segment, due, told>>

Loop == \/ LoopFlushed \/ LoopWait \/ LoopPop
        \/ LoopEventFails \/ LoopStreamStart \/ LoopSegment
        \/ LoopPush \/ LoopPushed \/ LoopEos \/ LoopLastEos

-----------------------------------------------------------------------------
(* Upstream: gst_flutsbase_chain, gst_flutsbase_sink_event                 *)

\* Upstream's thread has the stream lock of the active sink pad.
Upstream == state = "paused" /\ flush \notin {"stopping", "resuming"}

\* gst_flutsbase_push.  A refused buffer changes nothing.
Accepts ==
  /\ Upstream /\ ~upstreamEos /\ Unlocked
  /\ sinkresult = "OK" /\ ~is_eos /\ ~unexpected
  /\ tail + filed < MaxSlots

\* Mistake: the recording is looked at before the push.
PostStartedBefore ==
  IF ~recording_started /\ recording
    THEN recording_started' = TRUE /\ posted' = "started"
    ELSE UNCHANGED messages

PostStarted ==
  IF ~recording_started /\ recording'
    THEN recording_started' = TRUE /\ posted' = "started"
    ELSE UNCHANGED messages

\* Mistake: the loop is not signalled.
ChainUnsignalled(t, p) ==
  /\ Accepts
  /\ IF recording THEN t = tail /\ p = part /\ CacheRecord
     ELSE /\ t \in {tail, tail + 1}
          /\ t > tail \/ (p /\ ~part)
          /\ CachePush(t, p)
  /\ PostStarted
  /\ UNCHANGED <<env, flow, events, alive, task, looping, seeking, flush,
                 state, upstreamEos, downstream, told>>

Chain(t, p) ==
  /\ Accepts
  /\ IF recording THEN t = tail /\ p = part /\ CacheRecord
     ELSE /\ t \in {tail, tail + 1}
          /\ t > tail \/ (p /\ ~part)
          /\ CachePush(t, p)
  /\ SignalAdd
  /\ PostStarted
  /\ UNCHANGED <<env, flow, events, alive, task, loop, buffer, pushed, seeking,
                 flush, state, upstreamEos, downstream, told>>

StreamStart ==
  /\ Upstream /\ ~upstreamEos /\ tail = 0 /\ ~part /\ ~stream_start_event
  /\ stream_start_event' = TRUE
  /\ UNCHANGED <<env, flow, need_newsegment, cache, messages, task, looping,
                 seeking, flush, state, upstreamEos, downstream, told>>

\* Mistake: nothing wakes the loop.
EosUnsignalled ==
  /\ "eos" \in env /\ Upstream /\ ~upstreamEos /\ Unlocked
  /\ seek = "none" \/ "lateseek" \in env
  /\ upstreamEos' = TRUE /\ is_eos' = TRUE
  /\ UNCHANGED <<env, srcresult, sinkresult, unexpected, events, cache,
                 messages, task, looping, seeking, flush, state,
                 downstream, told>>

Eos ==
  /\ "eos" \in env /\ Upstream /\ ~upstreamEos /\ Unlocked
  /\ seek = "none" \/ "lateseek" \in env
  /\ upstreamEos' = TRUE /\ is_eos' = TRUE
  /\ SignalAdd
  /\ UNCHANGED <<env, srcresult, sinkresult, unexpected, events, cache,
                 messages, task, loop, buffer, pushed, seeking, flush, state,
                 downstream, told>>

Segment ==
  /\ Upstream /\ ~upstreamEos /\ Unlocked /\ unexpected
  /\ unexpected' = FALSE
  /\ UNCHANGED <<env, srcresult, sinkresult, is_eos, events, cache, messages,
                 task, looping, seeking, flush, state, upstreamEos, downstream,
                 told>>

\* FLUSH_START goes downstream first, without the lock.
FlushStart ==
  /\ "flush" \in env /\ state = "paused" /\ flush = "none"
  /\ srcFlushing' = TRUE
  /\ flush' = "starting"
  /\ UNCHANGED <<env, flow, events, cache, messages, task, looping, seeking,
                 state, upstreamEos, segment, eosSent, due, told>>

\* Mistake: the loop is not signalled.
FlushRefuseUnsignalled ==
  /\ flush = "starting" /\ Unlocked
  /\ RefuseData
  /\ flush' = "pausing"
  /\ UNCHANGED <<env, is_eos, unexpected, events, cache, messages, task,
                 looping, seeking, state, upstreamEos, downstream, told>>

FlushRefuse ==
  /\ flush = "starting" /\ Unlocked
  /\ RefuseData
  /\ SignalAdd
  /\ flush' = "pausing"
  /\ UNCHANGED <<env, is_eos, unexpected, events, cache, messages, task, loop,
                 buffer, pushed, seeking, state, upstreamEos, downstream, told>>

FlushPause ==
  /\ flush = "pausing"
  /\ PauseTask
  /\ flush' = "waiting"
  /\ UNCHANGED <<env, flow, events, cache, messages, looping, seeking, state,
                 upstreamEos, downstream, told>>

FlushPaused ==
  /\ flush = "waiting" /\ loop = "idle"
  /\ flush' = "flushed"
  /\ UNCHANGED <<env, flow, events, cache, messages, task, looping, seeking,
                 state, upstreamEos, downstream, told>>

\* FLUSH_STOP: downstream first; the sink pad forgets EOS.
FlushStop ==
  /\ flush = "flushed"
  /\ srcFlushing' = FALSE /\ segment' = None /\ eosSent' = FALSE
  /\ due' = None
  /\ upstreamEos' = FALSE
  /\ flush' = "stopping"
  /\ UNCHANGED <<env, flow, events, cache, messages, task, looping, seeking,
                 state, told>>

FlushNewCache ==
  /\ flush = "stopping" /\ Unlocked
  /\ NewCache
  /\ flush' = "resuming"
  /\ UNCHANGED <<env, flow, events, posted, task, looping, seeking, state,
                 upstreamEos, downstream, told>>

FlushResume ==
  /\ flush = "resuming" /\ Unlocked
  /\ AcceptData
  /\ stream_start_event' = FALSE
  /\ task' = "started"
  /\ due' = 0
  /\ flush' = "none"
  /\ UNCHANGED <<env, need_newsegment, cache, messages, looping, seeking, state,
                 upstreamEos, srcFlushing, segment, eosSent, told>>

FlushOn == FlushRefuse \/ FlushPause \/ FlushPaused
             \/ FlushNewCache \/ FlushResume

-----------------------------------------------------------------------------
(* The application: gst_flutsbase_handle_seek and custom events            *)

\* The offset is looked up without the lock; a seek that fails changes
\* nothing.  Events are refused by a flushing pad.
SeekCheck(o) ==
  /\ "seek" \in env /\ state = "paused" /\ seek = "none"
  /\ ~upstreamEos \/ "lateseek" \in env
  /\ ~srcFlushing
  /\ oldest <= o /\ (o < tail \/ (o = tail /\ part))
  /\ seek' = "checked" /\ want' = o
  /\ UNCHANGED <<env, flow, events, cache, messages, task, looping, flush,
                 state, upstreamEos, downstream, told>>

\* Mistake: the loop is not signalled.
SeekFlushUnsignalled ==
  /\ seek = "checked" /\ Unlocked
  /\ srcFlushing' = TRUE
  /\ srcresult' = "FLUSHING"
  /\ seek' = "pausing"
  /\ UNCHANGED <<env, sinkresult, is_eos, unexpected, events, cache, messages,
                 task, looping, want, flush, state, upstreamEos, segment,
                 eosSent, due, told>>

SeekFlush ==
  /\ seek = "checked" /\ Unlocked
  /\ srcFlushing' = TRUE
  /\ srcresult' = "FLUSHING"
  /\ SignalAdd
  /\ seek' = "pausing"
  /\ UNCHANGED <<env, sinkresult, is_eos, unexpected, events, cache, messages,
                 task, loop, buffer, pushed, want, flush, state, upstreamEos,
                 segment, eosSent, due, told>>

SeekPause ==
  /\ seek = "pausing"
  /\ PauseTask
  /\ seek' = "waiting"
  /\ UNCHANGED <<env, flow, events, cache, messages, looping, want, flush,
                 state, upstreamEos, downstream, told>>

\* The loop is idle: FLUSH_STOP.  Mistake: it is sent without waiting.
FlushedDownstream ==
  /\ srcFlushing' = FALSE /\ segment' = None /\ eosSent' = FALSE
  /\ due' = None
SeekPausedEarly ==
  /\ seek = "waiting"
  /\ FlushedDownstream
  /\ seek' = "flushed"
  /\ UNCHANGED <<env, flow, events, cache, messages, task, looping, want, flush,
                 state, upstreamEos, told>>
SeekPaused ==
  /\ seek = "waiting" /\ loop = "idle"
  /\ FlushedDownstream
  /\ seek' = "flushed"
  /\ UNCHANGED <<env, flow, events, cache, messages, task, looping, want, flush,
                 state, upstreamEos, told>>

\* gst_shifter_cache_seek: an offset that was recycled is clamped, and one that
\* is in the slot that is being filled is not in the ring.
InRing == Higher(oldest, want) < tail
SeekTarget == IF InRing THEN Higher(oldest, want) ELSE head

\* The ring is drained and its head, next to be filled, still has the offset of
\* the oldest slot.  The search then goes from the oldest slot to the target
\* and makes that one full, not those between it and the tail.
StaleHead == IsEmpty /\ ~part /\ oldest + NSlots = tail

\* Where the head is left: as many slots from the tail as are full then.
Repositioned ==
  /\ astray' = (astray \/ (InRing /\ StaleHead /\ SeekTarget < tail - 1))
  /\ head' \in IF ~InRing THEN {head}
               ELSE IF astray THEN oldest .. tail
               ELSE IF StaleHead THEN {tail - 1}
               ELSE {SeekTarget}

\* The loop starts again at the target.  Mistake: no segment is due.
SeekResumeNoSegment ==
  /\ seek = "flushed" /\ Unlocked
  /\ Repositioned /\ due' = SeekTarget
  /\ srcresult' = "OK" /\ is_eos' = FALSE /\ unexpected' = FALSE
  /\ task' = "started"
  /\ seek' = "none" /\ want' = None
  /\ UNCHANGED <<env, sinkresult, events, alive, oldest, tail, part, filed,
                 recording, messages, looping, flush, state, upstreamEos, srcFlushing,
                 segment, eosSent, told>>
SeekResume ==
  /\ seek = "flushed" /\ Unlocked
  /\ Repositioned /\ due' = SeekTarget
  /\ srcresult' = "OK" /\ is_eos' = FALSE /\ unexpected' = FALSE
  /\ need_newsegment' = TRUE
  /\ task' = "started"
  /\ seek' = "none" /\ want' = None
  /\ UNCHANGED <<env, sinkresult, stream_start_event, alive, oldest, tail, part,
                 filed, recording, messages, looping, flush, state, upstreamEos,
                 srcFlushing, segment, eosSent, told>>

SeekOn == SeekFlush \/ SeekPause \/ SeekPaused \/ SeekResume

\* shifter-start-recording
ExplicitStart ==
  /\ {"explicit", "file"} \subseteq env /\ state = "paused" /\ ~srcFlushing
  /\ Unlocked /\ ~recording
  /\ recording' = TRUE
  /\ UNCHANGED <<env, flow, events, alive, window, messages, task, looping,
                 seeking, flush, state, upstreamEos, downstream, told>>

-----------------------------------------------------------------------------
(* gst_flutsbase_change_state and the activation of the pads               *)

\* READY to PAUSED: start, then the source pad.
Activate ==
  /\ state = "ready" /\ Unlocked
  /\ NewCache
  /\ AcceptData
  /\ stream_start_event' = FALSE
  /\ task' = "started"
  /\ srcFlushing' = FALSE /\ segment' = None /\ eosSent' = FALSE /\ due' = 0
  /\ upstreamEos' = FALSE
  /\ state' = "activating"
  /\ UNCHANGED <<env, need_newsegment, posted, looping, seeking, flush, told>>

\* ... and the sink pad.
ActivateSink ==
  /\ state = "activating" /\ Unlocked
  /\ AcceptData
  /\ state' = "paused"
  /\ UNCHANGED <<env, events, cache, messages, task, looping, seeking, flush,
                 upstreamEos, downstream, told>>

\* PAUSED to READY.  Downstream is there already, and the source pad is set
\* flushing before its function is called.
Deactivate ==
  /\ "stop" \in env /\ state = "paused" /\ seek = "none"
  /\ srcFlushing' = TRUE
  /\ state' = "deactivating"
  /\ UNCHANGED <<env, flow, events, cache, messages, task, looping, seeking,
                 flush, upstreamEos, segment, eosSent, due, told>>

\* Mistake: the loop is not signalled.
StopTaskUnsignalled ==
  /\ state = "deactivating" /\ Unlocked
  /\ RefuseData
  /\ task' = "stopped"
  /\ state' = "joining"
  /\ UNCHANGED <<env, is_eos, unexpected, events, cache, messages, looping,
                 seeking, flush, upstreamEos, downstream, told>>

StopTask ==
  /\ state = "deactivating" /\ Unlocked
  /\ RefuseData
  /\ SignalAdd
  /\ task' = "stopped"
  /\ state' = "joining"
  /\ UNCHANGED <<env, is_eos, unexpected, events, cache, messages, loop, buffer,
                 pushed, seeking, flush, upstreamEos, downstream, told>>

\* Mistake: nobody waits for the loop.
JoinTaskEarly ==
  /\ state = "joining"
  /\ state' = "stopping"
  /\ UNCHANGED <<env, flow, events, cache, messages, task, looping, seeking,
                 flush, upstreamEos, downstream, told>>

JoinTask ==
  /\ state = "joining" /\ loop = "idle"
  /\ state' = "stopping"
  /\ UNCHANGED <<env, flow, events, cache, messages, task, looping, seeking,
                 flush, upstreamEos, downstream, told>>

\* The sink pad is deactivated, when no event of upstream is being handled,
\* and gst_flutsbase_stop drops the cache.
Stop ==
  /\ state = "stopping" /\ Unlocked /\ flush \notin {"stopping", "resuming"}
  /\ RefuseData
  /\ stream_start_event' = FALSE
  /\ posted' = IF recording THEN "stopped" ELSE posted
  /\ alive' = FALSE /\ recording' = FALSE
  /\ due' = None
  /\ state' = "stopped"
  /\ UNCHANGED <<env, is_eos, unexpected, need_newsegment, window,
                 recording_started, task, looping, seeking, flush, upstreamEos,
                 srcFlushing, segment, eosSent, told>>

StateOn == Activate \/ ActivateSink \/ StopTask \/ JoinTask \/ Stop

-----------------------------------------------------------------------------

Next ==
  \/ Loop
  \/ \E t \in 0 .. MaxSlots, p \in BOOLEAN : Chain(t, p)
  \/ StreamStart \/ Eos \/ Segment
  \/ FlushStart \/ FlushOn \/ FlushStop
  \/ \E o \in SeekSlots : SeekCheck(o)
  \/ SeekOn \/ ExplicitStart
  \/ Deactivate \/ StateOn

Spec == Init /\ [][Next]_vars

\* Downstream gives back what it is pushed, unless it may hold it and is not
\* being flushed.
Served == loop \in {"push", "eos"} => "preroll" \notin env \/ srcFlushing

\* The loop task and every call that has begun go on, and upstream ends a
\* flush it began.
Fairness ==
  /\ WF_vars(Loop /\ Served)
  /\ WF_vars(FlushOn) /\ WF_vars(FlushStop)
  /\ WF_vars(SeekOn)
  /\ WF_vars(StateOn)

FairSpec == Spec /\ Fairness

-----------------------------------------------------------------------------
(* Safety                                                                  *)

Results == {"OK", "FLUSHING", "EOS", "ERROR"}

\* Every variable is in its range, and the loop's position is in the window.
TypeOK ==
  /\ env \in Scenarios
  /\ srcresult \in Results \ {"EOS"} /\ sinkresult \in {"OK", "FLUSHING"}
  /\ is_eos \in BOOLEAN /\ unexpected \in BOOLEAN
  /\ need_newsegment \in BOOLEAN /\ stream_start_event \in BOOLEAN
  /\ alive \in BOOLEAN /\ recording \in BOOLEAN /\ part \in BOOLEAN
  /\ astray \in BOOLEAN
  /\ oldest \in Nat /\ head \in Nat /\ tail \in Nat /\ filed \in Nat
  /\ oldest <= head /\ head <= tail
  /\ recording_started \in BOOLEAN /\ posted \in {"none", "started", "stopped"}
  /\ task \in {"started", "paused", "stopped"}
  /\ loop \in {"idle", "wait", "stream_start", "segment", "push", "pushed",
               "eos", "last_eos"}
  /\ loop \in {"stream_start", "segment", "push"} => buffer \in Nat
  /\ buffer \in Nat \cup {None} /\ pushed \in Results /\ woken \in BOOLEAN
  /\ seek \in {"none", "checked", "pausing", "waiting", "flushed"}
  /\ want \in Nat \cup {None}
  /\ seek # "none" => want \in Nat
  /\ flush \in {"none", "starting", "pausing", "waiting", "flushed",
                "stopping", "resuming"}
  /\ state \in {"ready", "activating", "paused", "deactivating", "joining",
                "stopping", "stopped"}
  /\ upstreamEos \in BOOLEAN /\ srcFlushing \in BOOLEAN
  /\ eosSent \in BOOLEAN /\ told \in BOOLEAN
  /\ segment \in Nat \cup {None} /\ due \in Nat \cup {None}

Deliver == loop = "push" /\ loop' = "pushed" /\ pushed' = "OK"

\* Downstream gets the slots in order from where the last flush, of upstream
\* or of a seek, put it: no buffer that the loop popped before a flush comes
\* out after it, and none is skipped, until a seek goes astray.
InOrder == [][Deliver /\ ~astray => buffer = due]_vars

\* No buffer goes downstream before a SEGMENT, not after a seek either, and it
\* starts at or before the buffer until a seek goes astray.  (After a flush of
\* upstream there is none, since need_newsegment is not set again.)
SegmentFirst ==
  [][Deliver /\ "flush" \notin env =>
       segment # None /\ (segment <= buffer \/ astray)]_vars

\* When the loop sends EOS everything upstream pushed has been delivered, the
\* slot that was being filled included, unless a seek went astray: then the EOS
\* may come early.
EosComplete ==
  [][loop = "eos" /\ eosSent' /\ ~eosSent /\ ~astray =>
       due = tail /\ ~part]_vars

\* Nobody is using the cache when stop drops it.
StopsQuiet == ~alive => task # "started" /\ loop = "idle" /\ seek = "none"

\* The application hears of the end of a recording only if it heard of its
\* beginning.
RecordingPaired ==
  [][posted' = "stopped" /\ posted # "stopped" => posted = "started"]_vars

\* When the loop has given up because of an error, upstream or the application
\* is told: data is not accepted as if nothing had happened.
ErrorKnown ==
  [][srcresult = "ERROR" /\ ~told => UNCHANGED <<tail, part>>]_vars

-----------------------------------------------------------------------------
(* Liveness, under FairSpec                                                *)

\* A slot that is full and next in line is played, or the player goes
\* elsewhere: no wakeup is lost between the threads that change the cache and
\* the flow state and the loop that waits for them.  (A downstream that holds
\* a buffer may hold it for ever, and a loop that a seek led astray may find
\* nothing to pop.)
Plays ==
  \A k \in 0 .. MaxSlots :
    (due = k /\ k < tail /\ "preroll" \notin env)
      ~> (due # k \/ srcresult = "ERROR" \/ eosSent \/ astray)

\* The end of the stream reaches downstream, unless the stream is flushed, the
\* element stopped or downstream in error.
EosDelivered ==
  (upstreamEos /\ state = "paused" /\ flush = "none")
    ~> (eosSent \/ state # "paused" \/ flush # "none" \/ srcresult = "ERROR")

\* A seek that found its offset comes back: the loop it waits for pauses,
\* whatever it was doing (gst_flutsbase_handle_seek).
SeekReturns == seek = "checked" ~> seek = "none"

\* The change to READY comes back: the loop ends although it may have been
\* asleep or pushing (gst_flutsbase_src_activate).
StopReturns == state = "deactivating" ~> state = "stopped"

\* A flush of upstream comes to its end, with the loop running again or the
\* element stopped (gst_flutsbase_sink_event).
FlushReturns == flush = "starting" ~> flush = "none"
=============================================================================

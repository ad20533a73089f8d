-------------------------- MODULE FluTSBaseProofs --------------------------
(***************************************************************************)
(* Proofs about FluTSBase, for every size of the ring, every bound on what *)
(* upstream pushes, every set of offsets and every set of scenarios that   *)
(* ElementAssumption allows.                                               *)
(*                                                                         *)
(* The invariant IInv has seven parts.  TypesOK is the type invariant, cut *)
(* by owner of the variables so that a step is about few of them.  The     *)
(* others say where the threads can be together, how long the window is,   *)
(* what the loop finds while upstream is not there yet, and what lies      *)
(* between the loop and downstream.  Each action has a lemma, and in it    *)
(* each part that the action disturbs has a step.                          *)
(***************************************************************************)
EXTENDS FluTSBase, TLAPS

-----------------------------------------------------------------------------
(* TypeOK in parts                                                         *)

\* The flow of data and the messages.
FlowTypes ==
  /\ env \in Scenarios
  /\ srcresult \in Results \ {"EOS"} /\ sinkresult \in {"OK", "FLUSHING"}
  /\ is_eos \in BOOLEAN /\ unexpected \in BOOLEAN
  /\ need_newsegment \in BOOLEAN /\ stream_start_event \in BOOLEAN
  /\ recording_started \in BOOLEAN /\ posted \in {"none", "started", "stopped"}
  /\ upstreamEos \in BOOLEAN /\ told \in BOOLEAN

\* The cache, with the loop's position in its window.
CacheTypes ==
  /\ alive \in BOOLEAN /\ recording \in BOOLEAN /\ part \in BOOLEAN
  /\ astray \in BOOLEAN
  /\ oldest \in Nat /\ head \in Nat /\ tail \in Nat /\ filed \in Nat
  /\ oldest <= head /\ head <= tail

\* The loop task, and its buffer.
LoopTypes ==
  /\ task \in {"started", "paused", "stopped"}
  /\ loop \in {"idle", "wait", "stream_start", "segment", "push", "pushed",
               "eos", "last_eos"}
  /\ InHand => buffer \in Nat
  /\ buffer \in Nat \cup {None} /\ pushed \in Results /\ woken \in BOOLEAN

\* The handlers of seeks, flushes and state changes.
HandlerTypes ==
  /\ seek \in {"none", "checked", "pausing", "waiting", "flushed"}
  /\ want \in Nat \cup {None}
  /\ seek # "none" => want \in Nat
  /\ flush \in {"none", "starting", "pausing", "waiting", "flushed",
                "stopping", "resuming"}
  /\ state \in {"ready", "activating", "paused", "deactivating", "joining",
                "stopping", "stopped"}

\* What downstream has been sent.
DownstreamTypes ==
  /\ srcFlushing \in BOOLEAN /\ eosSent \in BOOLEAN
  /\ segment \in Nat \cup {None} /\ due \in Nat \cup {None}

\* All of TypeOK.
TypesOK ==
  FlowTypes /\ CacheTypes /\ LoopTypes /\ HandlerTypes /\ DownstreamTypes

(* The invariant                                                           *)

\* Where the threads can be together.  A handler that has waited for the loop
\* finds it idle, and the loop does not begin again before the handler is done.
ThreadsOK ==
  /\ flush # "none" => "flush" \in env /\ state = "paused"
  /\ seek # "none" => "seek" \in env /\ state = "paused"
  /\ state \in {"deactivating", "joining", "stopping", "stopped"} =>
       "stop" \in env
  /\ alive <=> state \notin {"ready", "stopped"}
  /\ state \in {"ready", "joining", "stopping", "stopped"} => task = "stopped"
  /\ state \in {"ready", "stopping", "stopped"} => loop = "idle"
  /\ seek \in {"waiting", "flushed"} => task # "started"
  /\ seek = "flushed" => loop = "idle"
  /\ seek \in {"pausing", "waiting"} => srcFlushing
  /\ loop = "last_eos" => task # "started"
  /\ flush \in {"waiting", "flushed", "stopping", "resuming"} =>
       task # "started"
  /\ flush \in {"flushed", "stopping", "resuming"} => loop = "idle"

\* The loop's slot is the last one popped, unless astray, and as long as nothing
\* goes to the file the window is not longer than the ring.
WindowOK ==
  /\ InHand /\ ~astray => head = buffer + 1
  /\ alive /\ ~recording =>
       filed = 0 /\ tail + (IF part THEN 1 ELSE 0) <= oldest + NSlots

\* Nothing has been pushed when the loop is running and upstream is not yet.
NewOK ==
  /\ state = "activating" =>
       /\ head = 0 /\ tail = 0 /\ ~part
       /\ loop \in {"idle", "wait"} /\ srcresult = "OK" /\ ~is_eos
  /\ flush = "resuming" => head = 0

\* The loop pops next.
Ready == \/ loop = "idle" /\ task = "started"
         \/ loop = "wait"
         \/ loop = "pushed" /\ pushed = "OK"

\* Unless downstream is being flushed or a seek has gone astray, the loop has in
\* hand what is due, or will pop it next.
OrderOK ==
  ~srcFlushing /\ ~astray =>
    /\ InHand => buffer = due
    /\ srcresult = "OK" /\ Ready => head = due
    /\ loop = "eos" => head = due /\ head = tail /\ ~part

\* Once one is out there is a SEGMENT, which starts at or before what comes
\* next unless a seek has gone astray.
SegmentOK ==
  /\ loop = "push" => ~need_newsegment
  /\ loop = "segment" => need_newsegment
  /\ state \in {"ready", "activating"} => need_newsegment
  /\ "flush" \notin env /\ ~need_newsegment /\ ~srcFlushing
       /\ seek # "flushed" =>
       /\ segment # None
       /\ astray \/ segment <= IF InHand THEN buffer ELSE head

\* A recording that pushes began has been announced.
RecordOK ==
  "explicit" \notin env /\ alive =>
    /\ recording <=> recording_started
    /\ recording => posted = "started"

\* The inductive invariant.
IInv ==
  TypesOK /\ ThreadsOK /\ WindowOK /\ NewOK /\ OrderOK /\ SegmentOK /\ RecordOK

-----------------------------------------------------------------------------
(* The operations of the cache                                             *)

\* A pop finds the head, unless astray, and the window is not empty then.
LEMMA PoppableSlot ==
  ASSUME CacheTypes, NEW s \in Poppable(is_eos)
  PROVE  /\ s \in Nat /\ oldest <= s /\ s <= tail
         /\ s < tail => head < tail
         /\ s = tail => is_eos /\ part
         /\ ~astray => s = head
  BY DEF CacheTypes, Poppable, IsEmpty

\* A pop keeps the position of the loop in the window.
LEMMA CachePopTypes ==
  ASSUME CacheTypes, NEW s \in Poppable(is_eos), CachePop(s)
  PROVE  CacheTypes'
<1>1. PICK k \in 0 .. filed :
        /\ head' = head + 1
        /\ tail' = Higher(tail, s + 1) + k /\ filed' = filed - k
        /\ part' = (part /\ s < tail /\ k = 0)
        /\ UNCHANGED <<alive, oldest, recording, astray>>
  BY DEF CachePop
<1>2. s \in Nat /\ s <= tail /\ (s < tail => head < tail)
  BY PoppableSlot
<1>3. head + 1 <= Higher(tail, s + 1) /\ Higher(tail, s + 1) \in Nat
  BY <1>2 DEF CacheTypes, Higher
<1>. HIDE DEF Higher
<1>. QED
  BY <1>1, <1>3 DEF CacheTypes

\* So does the drain: what is popped with it is dropped.
LEMMA CacheDrainTypes ==
  ASSUME CacheTypes, is_eos \in BOOLEAN, CacheDrain(is_eos)
  PROVE  CacheTypes'
<1>. DEFINE end == IF is_eos /\ part THEN tail + 1 ELSE tail
            most == IF astray THEN tail - head ELSE 0
<1>1. end \in Nat /\ tail <= end /\ most \in Nat /\ most <= tail - head
  BY DEF CacheTypes
<1>2. PICK last \in {end} \cup (IF astray THEN {tail} ELSE {}),
           left \in 0 .. most, k \in 0 .. filed :
        /\ tail' = last + k /\ head' = last + k - left
        /\ filed' = filed - k
        /\ part' = (part /\ last = tail /\ k = 0)
        /\ UNCHANGED <<alive, oldest, recording, astray>>
  BY DEF CacheDrain
<1>3. last \in Nat /\ tail <= last
  BY <1>1, <1>2 DEF CacheTypes
<1>. HIDE DEF end, most
<1>. QED
  BY <1>1, <1>2, <1>3 DEF CacheTypes

\* A push to the file changes the window only when the window is empty.
LEMMA CacheRecordTypes ==
  ASSUME CacheTypes, CacheRecord, UNCHANGED alive
  PROVE  CacheTypes'
<1>1. PICK k \in 0 .. filed + 1 :
        /\ tail' = tail + k /\ filed' = filed + 1 - k
        /\ part' = (part /\ k = 0)
        /\ UNCHANGED <<oldest, head, recording, astray>>
  BY DEF CacheRecord
<1>. QED
  BY <1>1 DEF CacheTypes

\* The oldest slot never goes back, and the ring holds what is left.
LEMMA LowEndBounds ==
  ASSUME CacheTypes, NEW t \in Nat, NEW p \in BOOLEAN
  PROVE  /\ LowEnd(t, p) \in Nat /\ oldest <= LowEnd(t, p)
         /\ t + (IF p THEN 1 ELSE 0) <= LowEnd(t, p) + NSlots
  BY ElementAssumption DEF CacheTypes, LowEnd, Higher

\* A push that fits takes no slot the loop has still to pop.
LEMMA RoomBound ==
  ASSUME IInv, ~astray, NEW t \in Nat, NEW p \in BOOLEAN, Room(t, p)
  PROVE  LowEnd(t, p) <= head
<1>1. LowEnd(t, p) \in Nat
  BY LowEndBounds DEF IInv, TypesOK
<1>. QED
  BY <1>1 DEF IInv, TypesOK, WindowOK, LoopTypes, CacheTypes, Room

\* As long as nothing goes to the file the window as it is fits.
LEMMA WindowFits ==
  ASSUME IInv, alive, ~recording
  PROVE  LowEnd(tail, part) <= head
  BY ElementAssumption
     DEF IInv, TypesOK, CacheTypes, WindowOK, LowEnd, Higher

\* A push to the ring leaves slots up to tail' full, whether everything fits,
\* only the slot that it fills, or nothing.
LEMMA CachePushWindow ==
  ASSUME IInv, alive, ~recording, NEW t \in {tail, tail + 1},
         NEW p \in BOOLEAN, CachePush(t, p)
  PROVE  /\ tail' \in Nat /\ part' \in BOOLEAN /\ tail <= tail'
         /\ oldest' = LowEnd(tail', part') /\ LowEnd(tail', part') <= head
         /\ recording' \in BOOLEAN /\ filed' \in Nat
         /\ ~recording' => filed' = 0
         /\ head' = head /\ astray' = astray
<1>0. PICK fits \in Fitting(t, p) :
        /\ tail' = fits[1] /\ part' = fits[2]
        /\ oldest' = LowEnd(fits[1], fits[2])
        /\ recording' = ("file" \in env /\ fits # <<t, p>>)
        /\ filed' = IF recording' THEN 1 ELSE 0
        /\ UNCHANGED <<head, astray>>
  BY DEF CachePush
<1>f. /\ fits \in {<<t, p>>, <<t, FALSE>>, <<tail, part>>}
      /\ \/ astray /\ LowEnd(fits[1], fits[2]) <= head
         \/ ~astray /\ Room(t, p) /\ fits = <<t, p>>
         \/ ~astray /\ Room(t, FALSE) /\ fits = <<t, FALSE>>
         \/ fits = <<tail, part>>
  BY DEF Fitting
<1>1. /\ \/ astray /\ LowEnd(tail', part') <= head
         \/ ~astray /\ Room(t, p) /\ tail' = t /\ part' = p
         \/ ~astray /\ Room(t, FALSE) /\ tail' = t /\ part' = FALSE
         \/ tail' = tail /\ part' = part
      /\ oldest' = LowEnd(tail', part') /\ head' = head /\ astray' = astray
      /\ recording' \in BOOLEAN /\ filed' = IF recording' THEN 1 ELSE 0
      /\ tail' \in {t, tail} /\ part' \in {p, FALSE, part}
  <2>1. /\ \/ tail' = t /\ part' = p /\ fits = <<t, p>>
           \/ tail' = t /\ part' = FALSE /\ fits = <<t, FALSE>>
           \/ tail' = tail /\ part' = part /\ fits = <<tail, part>>
        /\ fits[1] = tail' /\ fits[2] = part'
    <3>1. CASE fits = <<t, p>>
      BY <1>0, <3>1
    <3>2. CASE fits = <<t, FALSE>>
      BY <1>0, <3>2
    <3>3. CASE fits = <<tail, part>>
      BY <1>0, <3>3
    <3>. QED
      BY <1>f, <3>1, <3>2, <3>3
  <2>2. oldest' = LowEnd(tail', part')
    BY <1>0, <2>1, Zenon
  <2>3. recording' \in BOOLEAN
    BY <1>0
  <2>4. \/ astray /\ LowEnd(tail', part') <= head
        \/ ~astray /\ Room(t, p) /\ tail' = t /\ part' = p
        \/ ~astray /\ Room(t, FALSE) /\ tail' = t /\ part' = FALSE
        \/ tail' = tail /\ part' = part
    <3>1. CASE astray /\ LowEnd(fits[1], fits[2]) <= head
      BY <2>1, <3>1, Zenon
    <3>2. CASE ~astray /\ Room(t, p) /\ fits = <<t, p>>
      BY <1>0, <3>2
    <3>3. CASE ~astray /\ Room(t, FALSE) /\ fits = <<t, FALSE>>
      BY <1>0, <3>3
    <3>4. CASE fits = <<tail, part>>
      BY <1>0, <3>4
    <3>. QED
      BY <1>f, <3>1, <3>2, <3>3, <3>4
  <2>. QED
    BY <1>0, <2>1, <2>2, <2>3, <2>4
<1>2. tail \in Nat /\ part \in BOOLEAN /\ t \in Nat /\ tail <= t
  BY DEF IInv, TypesOK, CacheTypes
<1>3. tail' \in Nat /\ part' \in BOOLEAN /\ tail <= tail'
  <2>1. tail' \in {t, tail} /\ part' \in {p, FALSE, part}
    BY <1>1
  <2>2. tail' \in Nat /\ tail <= tail'
    BY <1>2, <2>1
  <2>3. part' \in BOOLEAN
    BY <1>2, <2>1
  <2>. QED
    BY <2>2, <2>3
<1>4. LowEnd(tail', part') <= head
  BY <1>1, <1>2, RoomBound, WindowFits
<1>. QED
  BY <1>1, <1>3, <1>4

\* The window after a push to the ring.
LEMMA CachePushTypes ==
  ASSUME IInv, alive, ~recording, NEW t \in {tail, tail + 1},
         NEW p \in BOOLEAN, CachePush(t, p), UNCHANGED alive
  PROVE  /\ CacheTypes'
         /\ tail' + (IF part' THEN 1 ELSE 0) <= oldest' + NSlots
<1>1. CacheTypes
  BY DEF IInv, TypesOK
<1>2. /\ tail' \in Nat /\ part' \in BOOLEAN /\ tail <= tail' /\ head' = head
      /\ oldest' = LowEnd(tail', part') /\ LowEnd(tail', part') <= head
      /\ recording' \in BOOLEAN /\ filed' \in Nat /\ astray' = astray
  BY CachePushWindow
<1>3. /\ LowEnd(tail', part') \in Nat
      /\ tail' + (IF part' THEN 1 ELSE 0) <= LowEnd(tail', part') + NSlots
  BY <1>1, <1>2, LowEndBounds
<1>. QED
  BY <1>1, <1>2, <1>3 DEF CacheTypes

-----------------------------------------------------------------------------
(* The invariant holds at the beginning                                    *)

\* The element as it is made, nothing active and nothing pushed.
LEMMA InitInv == Init => IInv
<1>. SUFFICES ASSUME Init
              PROVE  IInv
  OBVIOUS
<1>1. TypesOK
  <2>1. FlowTypes /\ LoopTypes
    BY DEF Init, FlowTypes, LoopTypes, InHand, None, Results
  <2>2. CacheTypes
    BY 0 <= 0 DEF Init, CacheTypes
  <2>3. HandlerTypes /\ DownstreamTypes
    BY DEF Init, HandlerTypes, DownstreamTypes, None
  <2>. QED
    BY <2>1, <2>2, <2>3 DEF TypesOK
<1>2. ThreadsOK /\ WindowOK /\ NewOK /\ OrderOK /\ SegmentOK /\ RecordOK
  BY DEF Init, ThreadsOK, WindowOK, NewOK, OrderOK, SegmentOK, RecordOK,
         InHand, Ready
<1>. QED
  BY <1>1, <1>2 DEF IInv

-----------------------------------------------------------------------------
(* ... and every action keeps it                                           *)

\* The loop gives up at its top: srcresult is not OK, so nothing is due.
LEMMA LoopFlushedInv == IInv /\ LoopFlushed => IInv'
<1>. SUFFICES ASSUME IInv, LoopFlushed
              PROVE  IInv'
  OBVIOUS
<1>1. FlowTypes'
  BY DEF IInv, TypesOK, FlowTypes, LoopFlushed, GiveUp, Results, events,
     messages
<1>2. LoopTypes'
  BY DEF IInv, TypesOK, LoopTypes, LoopFlushed, AtTop, GiveUp, PauseTask,
     None, Results, InHand
<1>3. ThreadsOK'
  BY DEF IInv, ThreadsOK, LoopFlushed, AtTop, GiveUp, PauseTask, cache,
     seeking, downstream
<1>4. WindowOK'
  BY DEF IInv, WindowOK, LoopFlushed, AtTop, GiveUp, InHand, cache, window
<1>5. NewOK'
  BY DEF IInv, NewOK, LoopFlushed, AtTop, GiveUp, cache, window
<1>6. OrderOK'
  BY DEF IInv, OrderOK, LoopFlushed, AtTop, GiveUp, PauseTask, InHand, Ready,
     cache, downstream, window
<1>7. SegmentOK'
  BY DEF IInv, SegmentOK, LoopFlushed, AtTop, GiveUp, InHand, None, cache,
     events, seeking, downstream, window
<1>8. CacheTypes' /\ HandlerTypes' /\ DownstreamTypes' /\ RecordOK'
  BY DEF IInv, TypesOK, CacheTypes, HandlerTypes, DownstreamTypes, RecordOK,
     LoopFlushed, cache, messages, seeking, downstream, window
<1>. QED
  BY <1>1, <1>2, <1>3, <1>4, <1>5, <1>6, <1>7, <1>8 DEF IInv, TypesOK

\* The loop waits: what is due is still what it will pop.
LEMMA LoopWaitInv == IInv /\ LoopWait => IInv'
<1>. SUFFICES ASSUME IInv, LoopWait
              PROVE  IInv'
  OBVIOUS
<1>1. LoopTypes'
  BY DEF IInv, TypesOK, LoopTypes, LoopWait, AtTop, None, Results, InHand
<1>2. ThreadsOK'
  BY DEF IInv, ThreadsOK, LoopWait, AtTop, cache, seeking, downstream
<1>3. WindowOK'
  BY DEF IInv, WindowOK, LoopWait, AtTop, IsEmpty, InHand, cache, window
<1>4. NewOK'
  BY DEF IInv, NewOK, LoopWait, AtTop, IsEmpty, cache, flow, window
<1>5. OrderOK'
  BY DEF IInv, OrderOK, LoopWait, AtTop, IsEmpty, InHand, Ready, cache, flow,
     downstream, window
<1>6. SegmentOK'
  BY DEF IInv, SegmentOK, LoopWait, AtTop, IsEmpty, InHand, None, cache,
     events, seeking, downstream, window
<1>7. FlowTypes' /\ CacheTypes' /\ HandlerTypes' /\ DownstreamTypes' /\
       RecordOK'
  BY DEF IInv, TypesOK, FlowTypes, CacheTypes, HandlerTypes, DownstreamTypes,
     RecordOK, LoopWait, cache, flow, events, messages, seeking, downstream,
     window
<1>. QED
  BY <1>1, <1>2, <1>3, <1>4, <1>5, <1>6, <1>7 DEF IInv, TypesOK

\* The loop finds the slot that is due, or any slot when astray.
LEMMA PopItemInv ==
  ASSUME IInv, LoopPop, PopItem
  PROVE  IInv'
<1>0. PICK s \in Poppable(is_eos) : CachePop(s)
  BY DEF PopItem
<1>s. /\ s \in Nat /\ s <= tail /\ (s < tail => head < tail)
      /\ s = tail => is_eos /\ part
      /\ ~astray => s = head
  BY PoppableSlot DEF IInv, TypesOK
<1>w. /\ head' = head + 1 /\ buffer' = s /\ UNCHANGED <<oldest, alive>>
      /\ UNCHANGED <<recording, astray>>
      /\ srcresult' = srcresult /\ loop' = FirstPush(stream_start_event)
      /\ task' = task /\ told' = told
  BY <1>0 DEF CachePop, PopItem
<1>1. CacheTypes'
  BY <1>0, CachePopTypes DEF IInv, TypesOK
<1>2. LoopTypes'
  BY <1>s, <1>w DEF IInv, TypesOK, LoopTypes, LoopPop, FirstPush, InHand
<1>3. ThreadsOK'
  BY <1>w DEF IInv, ThreadsOK, LoopPop, AtTop, FirstPush, seeking, downstream
<1>4. WindowOK'
  <2>1. InHand' /\ ~astray' => head' = buffer' + 1
    BY <1>s, <1>w
  <2>2. ASSUME alive, ~recording
        PROVE  filed' = 0 /\ tail' + (IF part' THEN 1 ELSE 0) <= oldest + NSlots
    <3>1. filed = 0 /\ tail + (IF part THEN 1 ELSE 0) <= oldest + NSlots
      BY <2>2 DEF IInv, WindowOK
    <3>2. PICK k \in 0 .. filed :
            /\ tail' = Higher(tail, s + 1) + k /\ filed' = filed - k
            /\ part' = (part /\ s < tail /\ k = 0)
      BY <1>0 DEF CachePop
    <3>3. tail \in Nat /\ oldest \in Nat /\ NSlots \in Nat
      BY ElementAssumption DEF IInv, TypesOK, CacheTypes
    <3>k. k = 0
      BY <3>1, <3>2
    <3>4. k = 0 /\ filed' = 0
      BY <3>1, <3>2, <3>k
    <3>5. CASE s < tail
      <4>1. part' = part
        BY <3>2, <3>4, <3>5 DEF IInv, TypesOK, CacheTypes
      <4>2. tail' = tail
        BY <1>s, <3>2, <3>3, <3>4, <3>5 DEF Higher
      <4>. QED
        BY <3>1, <3>4, <4>1, <4>2
    <3>6. CASE s = tail
      <4>0. ~(s < tail)
        BY <3>3, <3>6
      <4>a. part
        BY <1>s, <3>6
      <4>b. ~part'
        BY <3>2, <4>0
      <4>1. part /\ ~part'
        BY <4>a, <4>b
      <4>2. tail' = tail + 1
        BY <3>2, <3>3, <3>4, <3>6 DEF Higher
      <4>. QED
        BY <3>1, <3>4, <4>1, <4>2
    <3>. QED
      BY <1>s, <3>3, <3>5, <3>6
  <2>. QED
    BY <1>w, <2>1, <2>2 DEF WindowOK
<1>5. NewOK'
  <2>1. state # "activating"
    BY <1>s DEF IInv, NewOK, TypesOK, CacheTypes
  <2>2. flush # "resuming"
    BY DEF IInv, ThreadsOK, LoopPop, AtTop
  <2>. QED
    BY <2>1, <2>2 DEF NewOK, LoopPop
<1>6. OrderOK'
  BY <1>s, <1>w DEF IInv, OrderOK, LoopPop, AtTop, FirstPush, InHand, Ready,
     flow, downstream
<1>7. SegmentOK'
  BY <1>s, <1>w DEF IInv, SegmentOK, LoopPop, AtTop, FirstPush, InHand, None,
     events, seeking, downstream
<1>8. FlowTypes' /\ HandlerTypes' /\ DownstreamTypes' /\ RecordOK'
  BY <1>w DEF IInv, TypesOK, FlowTypes, HandlerTypes, DownstreamTypes,
     RecordOK, LoopPop, events, messages, seeking, downstream
<1>. QED
  BY <1>1, <1>2, <1>3, <1>4, <1>5, <1>6, <1>7, <1>8 DEF IInv, TypesOK

\* The loop finds nothing: at EOS nothing is left, and otherwise a seek has gone
\* astray, for the cache is not empty.
LEMMA PopNothingInv ==
  ASSUME IInv, LoopPop, PopNothing
  PROVE  IInv'
<1>0. /\ UNCHANGED <<cache, buffer>> /\ woken' = FALSE
      /\ \/ /\ is_eos /\ loop' = "eos"
            /\ UNCHANGED <<srcresult, task, told>>
         \/ ~is_eos /\ GiveUp("ERROR")
  BY DEF PopNothing, LoopPop
<1>e. ~astray => head = tail /\ ~(is_eos /\ part)
  <2>. SUFFICES ASSUME ~astray
                PROVE  head = tail /\ ~(is_eos /\ part)
    OBVIOUS
  <2>1. head \notin Poppable(is_eos)
    BY DEF PopNothing
  <2>. QED
    BY <2>1 DEF Poppable, IInv, TypesOK, CacheTypes
<1>f. ~is_eos => astray
  BY <1>e DEF LoopPop, IsEmpty, IInv, TypesOK, CacheTypes
<1>1. FlowTypes'
  BY <1>0 DEF IInv, TypesOK, FlowTypes, LoopPop, GiveUp, Results, events,
     messages
<1>2. LoopTypes'
  BY <1>0 DEF IInv, TypesOK, LoopTypes, LoopPop, GiveUp, PauseTask, InHand
<1>3. ThreadsOK'
  BY <1>0 DEF IInv, ThreadsOK, LoopPop, AtTop, GiveUp, PauseTask, cache,
     seeking, downstream
<1>4. WindowOK'
  BY <1>0 DEF IInv, WindowOK, GiveUp, InHand, cache, window
<1>5. NewOK'
  <2>1. state # "activating"
    BY DEF IInv, NewOK, LoopPop, IsEmpty, TypesOK, CacheTypes
  <2>. QED
    BY <1>0, <2>1 DEF IInv, NewOK, LoopPop, cache, window
<1>6. OrderOK'
  BY <1>0, <1>e, <1>f DEF IInv, OrderOK, LoopPop, AtTop, InHand, Ready, cache,
     window, downstream
<1>7. SegmentOK'
  BY <1>0 DEF IInv, SegmentOK, LoopPop, AtTop, GiveUp, InHand, cache, window,
     events, seeking, downstream
<1>8. CacheTypes' /\ HandlerTypes' /\ DownstreamTypes' /\ RecordOK'
  BY <1>0 DEF IInv, TypesOK, CacheTypes, HandlerTypes, DownstreamTypes,
     RecordOK, LoopPop, cache, window, messages, seeking, downstream
<1>. QED
  BY <1>1, <1>2, <1>3, <1>4, <1>5, <1>6, <1>7, <1>8 DEF IInv, TypesOK

\* The loop pops.
LEMMA LoopPopInv == IInv /\ LoopPop => IInv'
  BY PopItemInv, PopNothingInv DEF LoopPop

\* A pad that refuses the event is flushing, so nothing is due downstream.
LEMMA LoopEventFailsInv == IInv /\ LoopEventFails => IInv'
<1>. SUFFICES ASSUME IInv, LoopEventFails
              PROVE  IInv'
  OBVIOUS
<1>1. FlowTypes'
  BY DEF IInv, TypesOK, FlowTypes, LoopEventFails, GiveUp, Results, messages
<1>2. LoopTypes'
  BY DEF IInv, TypesOK, LoopTypes, LoopEventFails, GiveUp, PauseTask, None,
     Results, InHand
<1>3. ThreadsOK'
  BY DEF IInv, ThreadsOK, LoopEventFails, GiveUp, PauseTask, cache, seeking,
     downstream
<1>4. WindowOK'
  BY DEF IInv, WindowOK, LoopEventFails, GiveUp, InHand, cache, window
<1>5. NewOK'
  BY DEF IInv, NewOK, LoopEventFails, GiveUp, cache, window
<1>6. OrderOK'
  BY DEF IInv, OrderOK, LoopEventFails, GiveUp, PauseTask, InHand, Ready,
     cache, downstream, window
<1>7. SegmentOK'
  BY DEF IInv, SegmentOK, LoopEventFails, GiveUp, InHand, None, cache,
     seeking, downstream, window
<1>8. CacheTypes' /\ HandlerTypes' /\ DownstreamTypes' /\ RecordOK'
  BY DEF IInv, TypesOK, CacheTypes, HandlerTypes, DownstreamTypes, RecordOK,
     LoopEventFails, cache, messages, seeking, downstream, window
<1>. QED
  BY <1>1, <1>2, <1>3, <1>4, <1>5, <1>6, <1>7, <1>8 DEF IInv, TypesOK

\* STREAM_START is out and the buffer in hand is still the one that is due.
LEMMA LoopStreamStartInv == IInv /\ LoopStreamStart => IInv'
<1>. SUFFICES ASSUME IInv, LoopStreamStart
              PROVE  IInv'
  OBVIOUS
<1>1. FlowTypes'
  BY DEF IInv, TypesOK, FlowTypes, LoopStreamStart, FirstPush, Results, flow,
     messages
<1>2. LoopTypes'
  BY DEF IInv, TypesOK, LoopTypes, LoopStreamStart, FirstPush, None, Results,
     InHand
<1>3. ThreadsOK'
  BY DEF IInv, ThreadsOK, LoopStreamStart, FirstPush, cache, seeking,
     downstream
<1>4. WindowOK'
  BY DEF IInv, WindowOK, LoopStreamStart, FirstPush, InHand, cache, window
<1>5. NewOK'
  BY DEF IInv, NewOK, LoopStreamStart, FirstPush, cache, flow, window
<1>6. OrderOK'
  BY DEF IInv, OrderOK, LoopStreamStart, FirstPush, InHand, Ready, cache,
     flow, downstream, window
<1>7. SegmentOK'
  BY DEF IInv, SegmentOK, LoopStreamStart, FirstPush, InHand, None, cache,
     seeking, downstream, window
<1>8. CacheTypes' /\ HandlerTypes' /\ DownstreamTypes' /\ RecordOK'
  BY DEF IInv, TypesOK, CacheTypes, HandlerTypes, DownstreamTypes, RecordOK,
     LoopStreamStart, cache, messages, seeking, downstream, window
<1>. QED
  BY <1>1, <1>2, <1>3, <1>4, <1>5, <1>6, <1>7, <1>8 DEF IInv, TypesOK

\* The SEGMENT starts at the buffer in hand.
LEMMA LoopSegmentInv == IInv /\ LoopSegment => IInv'
<1>. SUFFICES ASSUME IInv, LoopSegment
              PROVE  IInv'
  OBVIOUS
<1>1. FlowTypes'
  BY DEF IInv, TypesOK, FlowTypes, LoopSegment, Results, flow, messages
<1>2. LoopTypes'
  BY DEF IInv, TypesOK, LoopTypes, LoopSegment, None, Results, InHand
<1>3. DownstreamTypes'
  BY DEF IInv, TypesOK, DownstreamTypes, LoopTypes, LoopSegment, None,
     Results, InHand
<1>4. ThreadsOK'
  BY DEF IInv, ThreadsOK, LoopSegment, cache, seeking
<1>5. WindowOK'
  BY DEF IInv, WindowOK, LoopSegment, InHand, cache, window
<1>6. NewOK'
  BY DEF IInv, NewOK, LoopSegment, cache, flow, window
<1>7. OrderOK'
  BY DEF IInv, OrderOK, LoopSegment, InHand, Ready, cache, flow, window
<1>8. SegmentOK'
  BY DEF IInv, TypesOK, LoopTypes, ThreadsOK, NewOK, SegmentOK, LoopSegment,
         InHand, None
<1>9. CacheTypes' /\ HandlerTypes' /\ RecordOK'
  BY DEF IInv, TypesOK, CacheTypes, HandlerTypes, RecordOK, LoopSegment,
     cache, messages, seeking, window
<1>. QED
  BY <1>1, <1>2, <1>3, <1>4, <1>5, <1>6, <1>7, <1>8, <1>9 DEF IInv, TypesOK

\* A buffer that downstream takes was due; the slot after it is what the loop
\* pops next.
LEMMA LoopPushInv == IInv /\ LoopPush => IInv'
<1>. SUFFICES ASSUME IInv, LoopPush
              PROVE  IInv'
  OBVIOUS
<1>1. LoopTypes'
  BY DEF IInv, TypesOK, LoopTypes, LoopPush, PushResults, None, Results,
     InHand
<1>2. DownstreamTypes'
  BY DEF IInv, TypesOK, DownstreamTypes, LoopTypes, LoopPush, PushResults,
     None, Results, InHand
<1>3. ThreadsOK'
  BY DEF IInv, ThreadsOK, LoopPush, PushResults, cache, seeking
<1>4. WindowOK'
  BY DEF IInv, WindowOK, LoopPush, PushResults, InHand, cache, window
<1>5. NewOK'
  BY DEF IInv, NewOK, LoopPush, PushResults, cache, flow, window
<1>6. OrderOK'
  BY DEF IInv, TypesOK, OrderOK, LoopTypes, WindowOK, LoopPush, PushResults,
     InHand, Ready, None, Results, cache, flow, window
<1>7. SegmentOK'
  BY DEF IInv, TypesOK, SegmentOK, LoopTypes, WindowOK, DownstreamTypes,
     LoopPush, PushResults, InHand, None, Results, cache, events, seeking,
     window
<1>8. FlowTypes' /\ CacheTypes' /\ HandlerTypes' /\ RecordOK'
  BY DEF IInv, TypesOK, FlowTypes, CacheTypes, HandlerTypes, RecordOK,
     LoopPush, cache, flow, events, messages, seeking, window
<1>. QED
  BY <1>1, <1>2, <1>3, <1>4, <1>5, <1>6, <1>7, <1>8 DEF IInv, TypesOK

\* What downstream says: go on, drop everything, or give up.
LEMMA LoopPushedInv == IInv /\ LoopPushed => IInv'
<1>. SUFFICES ASSUME IInv, LoopPushed
              PROVE  IInv'
  OBVIOUS
<1>1. FlowTypes'
  <2>1. srcresult' \in Results \ {"EOS"}
    BY DEF IInv, TypesOK, FlowTypes, LoopTypes, LoopPushed, GiveUp, Results
  <2>2. told' \in BOOLEAN /\ unexpected' \in BOOLEAN
    BY DEF IInv, TypesOK, FlowTypes, LoopPushed, GiveUp
  <2>. QED
    BY <2>1, <2>2 DEF IInv, TypesOK, FlowTypes, LoopPushed, events, messages
<1>2. CacheTypes'
  <2>1. CASE srcresult = "OK" /\ pushed = "EOS"
    BY <2>1, CacheDrainTypes DEF IInv, TypesOK, FlowTypes, LoopPushed
  <2>2. CASE ~(srcresult = "OK" /\ pushed = "EOS")
    BY <2>2 DEF IInv, TypesOK, CacheTypes, LoopPushed, cache, window
  <2>. QED
    BY <2>1, <2>2
<1>3. LoopTypes'
  BY DEF IInv, TypesOK, LoopTypes, LoopPushed, GiveUp, PauseTask, None,
     Results, InHand
<1>4. DownstreamTypes'
  BY DEF IInv, TypesOK, DownstreamTypes, CacheTypes, LoopPushed, CacheDrain,
     None, cache, window
<1>5. ThreadsOK'
  BY DEF IInv, ThreadsOK, LoopPushed, GiveUp, PauseTask, CacheDrain, cache,
     seeking
<1>6. WindowOK'
  BY DEF IInv, TypesOK, WindowOK, CacheTypes, LoopPushed, GiveUp, CacheDrain,
     InHand, cache, window
<1>7. NewOK'
  BY DEF IInv, TypesOK, NewOK, ThreadsOK, CacheTypes, LoopPushed, GiveUp,
     PauseTask, CacheDrain, cache, seeking, window
<1>8. OrderOK'
  BY DEF IInv, OrderOK, LoopPushed, GiveUp, PauseTask, CacheDrain, InHand,
     Ready, cache, window
<1>9. SegmentOK'
  BY DEF IInv, TypesOK, SegmentOK, CacheTypes, DownstreamTypes, LoopPushed,
     GiveUp, CacheDrain, InHand, None, cache, events, seeking, window
<1>10. HandlerTypes' /\ RecordOK'
  BY DEF IInv, TypesOK, HandlerTypes, RecordOK, LoopPushed, cache, messages,
     seeking, CacheDrain, window
<1>. QED
  BY <1>1, <1>2, <1>3, <1>4, <1>5, <1>6, <1>7, <1>8, <1>9, <1>10 DEF IInv,
     TypesOK

\* EOS is out and the loop pauses.
LEMMA LoopEosInv == IInv /\ LoopEos => IInv'
<1>. SUFFICES ASSUME IInv, LoopEos
              PROVE  IInv'
  OBVIOUS
<1>1. LoopTypes'
  BY DEF IInv, TypesOK, LoopTypes, LoopEos, PauseTask, None, Results, InHand
<1>2. DownstreamTypes'
  BY DEF IInv, TypesOK, DownstreamTypes, LoopEos, None
<1>3. ThreadsOK'
  BY DEF IInv, ThreadsOK, LoopEos, PauseTask, cache, seeking
<1>4. WindowOK'
  BY DEF IInv, WindowOK, LoopEos, InHand, cache, window
<1>5. NewOK'
  BY DEF IInv, NewOK, LoopEos, cache, flow, window
<1>6. OrderOK'
  BY DEF IInv, OrderOK, LoopEos, PauseTask, InHand, Ready, cache, flow,
     window
<1>7. SegmentOK'
  BY DEF IInv, SegmentOK, LoopEos, InHand, None, cache, events, seeking,
     window
<1>8. FlowTypes' /\ CacheTypes' /\ HandlerTypes' /\ RecordOK'
  BY DEF IInv, TypesOK, FlowTypes, CacheTypes, HandlerTypes, RecordOK,
     LoopEos, cache, flow, events, messages, seeking, window
<1>. QED
  BY <1>1, <1>2, <1>3, <1>4, <1>5, <1>6, <1>7, <1>8 DEF IInv, TypesOK

\* The EOS that follows an error is out; the loop has paused already.
LEMMA LoopLastEosInv == IInv /\ LoopLastEos => IInv'
<1>. SUFFICES ASSUME IInv, LoopLastEos
              PROVE  IInv'
  OBVIOUS
<1>1. LoopTypes'
  BY DEF IInv, TypesOK, LoopTypes, LoopLastEos, None, Results, InHand
<1>2. DownstreamTypes'
  BY DEF IInv, TypesOK, DownstreamTypes, LoopLastEos, None
<1>3. ThreadsOK'
  BY DEF IInv, ThreadsOK, LoopLastEos, cache, seeking
<1>4. WindowOK'
  BY DEF IInv, WindowOK, LoopLastEos, InHand, cache, window
<1>5. NewOK'
  BY DEF IInv, NewOK, LoopLastEos, cache, flow, window
<1>6. OrderOK'
  BY DEF IInv, OrderOK, ThreadsOK, LoopLastEos, InHand, Ready, cache, flow,
     seeking, window
<1>7. SegmentOK'
  BY DEF IInv, SegmentOK, LoopLastEos, InHand, None, cache, events, seeking,
     window
<1>8. FlowTypes' /\ CacheTypes' /\ HandlerTypes' /\ RecordOK'
  BY DEF IInv, TypesOK, FlowTypes, CacheTypes, HandlerTypes, RecordOK,
     LoopLastEos, cache, flow, events, messages, seeking, window
<1>. QED
  BY <1>1, <1>2, <1>3, <1>4, <1>5, <1>6, <1>7, <1>8 DEF IInv, TypesOK

\* Upstream pushes a buffer: the window grows at its end, and at its beginning
\* loses only what the loop is done with.
LEMMA ChainInv ==
  ASSUME IInv, NEW t \in 0 .. MaxSlots, NEW p \in BOOLEAN, Chain(t, p)
  PROVE  IInv'
<1>1. FlowTypes'
  BY DEF IInv, TypesOK, FlowTypes, Chain, CachePush, Higher, Accepts,
     PostStarted, InHand, Results, flow, events, messages
<1>2. CacheTypes'
  <2>1. CASE recording
    BY <2>1, CacheRecordTypes DEF IInv, TypesOK, Chain
  <2>2. CASE ~recording
    BY <2>2, CachePushTypes DEF IInv, ThreadsOK, Chain, Accepts, Upstream
  <2>. QED
    BY <2>1, <2>2
<1>3. LoopTypes'
  BY DEF IInv, TypesOK, LoopTypes, Chain, CachePush, Higher, Room, Accepts,
     Unlocked, SignalAdd, InHand, None, Results
<1>4. WindowOK'
  <2>1. CASE recording
    BY <2>1 DEF IInv, WindowOK, Chain, CacheRecord, InHand
  <2>2. CASE ~recording
    <3>1. alive /\ UNCHANGED <<alive, loop, buffer>>
      BY DEF IInv, ThreadsOK, Chain, Accepts, Upstream
    <3>2. t \in {tail, tail + 1} /\ CachePush(t, p)
      BY <2>2 DEF Chain
    <3>. QED
      BY <2>2, <3>1, <3>2, CachePushWindow, CachePushTypes
         DEF IInv, WindowOK, InHand
  <2>. QED
    BY <2>1, <2>2
<1>5. NewOK'
  BY DEF IInv, NewOK, Chain, CacheRecord, CachePush, Higher, Room, Accepts,
     Unlocked, Upstream, SignalAdd, IsEmpty, InHand, flow
<1>6. OrderOK'
  BY DEF IInv, OrderOK, Chain, CacheRecord, CachePush, Higher, Room, Accepts,
     Unlocked, SignalAdd, IsEmpty, InHand, Ready, flow, downstream
<1>7. SegmentOK'
  <2>1. UNCHANGED <<head, astray>>
    BY DEF Chain, CacheRecord, CachePush
  <2>. QED
    BY <2>1 DEF IInv, SegmentOK, Chain, events, seeking, downstream, InHand
<1>8. RecordOK'
  BY DEF IInv, RecordOK, Chain, CacheRecord, CachePush, Higher, PostStarted,
     InHand, messages
<1>9. HandlerTypes' /\ DownstreamTypes' /\ ThreadsOK'
  BY DEF IInv, TypesOK, HandlerTypes, DownstreamTypes, ThreadsOK, Chain,
     seeking, downstream, CachePush
<1>. QED
  BY <1>1, <1>2, <1>3, <1>4, <1>5, <1>6, <1>7, <1>8, <1>9 DEF IInv, TypesOK

\* STREAM_START of upstream is kept for the loop.
LEMMA StreamStartInv == IInv /\ StreamStart => IInv'
<1>. SUFFICES ASSUME IInv, StreamStart
              PROVE  IInv'
  OBVIOUS
<1>1. FlowTypes'
  BY DEF IInv, TypesOK, FlowTypes, StreamStart, Results, flow, messages
<1>2. CacheTypes' /\ LoopTypes' /\ HandlerTypes' /\ DownstreamTypes' /\
       ThreadsOK' /\ WindowOK' /\ NewOK' /\ OrderOK' /\ SegmentOK' /\
       RecordOK'
  BY DEF IInv, TypesOK, CacheTypes, LoopTypes, HandlerTypes, DownstreamTypes,
     ThreadsOK, WindowOK, NewOK, OrderOK, SegmentOK, RecordOK, InHand, Ready,
     StreamStart, cache, flow, messages, looping, seeking, downstream, window
<1>. QED
  BY <1>1, <1>2 DEF IInv, TypesOK

\* EOS of upstream.  The sink pad is active, so the element is not new.
LEMMA EosInv == IInv /\ Eos => IInv'
<1>. SUFFICES ASSUME IInv, Eos
              PROVE  IInv'
  OBVIOUS
<1>1. FlowTypes'
  BY DEF IInv, TypesOK, FlowTypes, Eos, Results, events, messages
<1>2. LoopTypes'
  BY DEF IInv, TypesOK, LoopTypes, Eos, SignalAdd, Unlocked, None, Results,
     InHand
<1>3. NewOK'
  BY DEF IInv, NewOK, Eos, SignalAdd, Unlocked, Upstream, cache, window
<1>4. CacheTypes' /\ HandlerTypes' /\ DownstreamTypes' /\ ThreadsOK' /\
       WindowOK' /\ OrderOK' /\ SegmentOK' /\ RecordOK'
  BY DEF IInv, TypesOK, CacheTypes, HandlerTypes, DownstreamTypes, ThreadsOK,
     WindowOK, OrderOK, SegmentOK, RecordOK, InHand, Ready, Eos, cache, events,
     messages, seeking, downstream, window
<1>. QED
  BY <1>1, <1>2, <1>3, <1>4 DEF IInv, TypesOK

\* SEGMENT of upstream.
LEMMA SegmentInv == IInv /\ Segment => IInv'
<1>. SUFFICES ASSUME IInv, Segment
              PROVE  IInv'
  OBVIOUS
<1>1. FlowTypes'
  BY DEF IInv, TypesOK, FlowTypes, Segment, Results, events, messages
<1>2. CacheTypes' /\ LoopTypes' /\ HandlerTypes' /\ DownstreamTypes' /\
       ThreadsOK' /\ WindowOK' /\ NewOK' /\ OrderOK' /\ SegmentOK' /\
       RecordOK'
  BY DEF IInv, TypesOK, CacheTypes, LoopTypes, HandlerTypes, DownstreamTypes,
     ThreadsOK, WindowOK, NewOK, OrderOK, SegmentOK, RecordOK, InHand, Ready,
     Segment, cache, events, messages, looping, seeking, downstream, window
<1>. QED
  BY <1>1, <1>2 DEF IInv, TypesOK

\* FLUSH_START is downstream: nothing is due any more.
LEMMA FlushStartInv == IInv /\ FlushStart => IInv'
<1>. SUFFICES ASSUME IInv, FlushStart
              PROVE  IInv'
  OBVIOUS
<1>1. HandlerTypes'
  BY DEF IInv, TypesOK, HandlerTypes, FlushStart, None, seeking
<1>2. DownstreamTypes'
  BY DEF IInv, TypesOK, DownstreamTypes, FlushStart, None
<1>3. ThreadsOK'
  BY DEF IInv, ThreadsOK, FlushStart, cache, looping, seeking
<1>4. NewOK'
  BY DEF IInv, NewOK, FlushStart, cache, flow, looping, window
<1>5. OrderOK'
  BY DEF IInv, OrderOK, FlushStart, InHand, Ready, cache, flow, looping,
     window
<1>6. SegmentOK'
  BY DEF IInv, SegmentOK, FlushStart, InHand, None, cache, events, looping,
     seeking, window
<1>7. FlowTypes' /\ CacheTypes' /\ LoopTypes' /\ WindowOK' /\ RecordOK'
  BY DEF IInv, TypesOK, FlowTypes, CacheTypes, LoopTypes, WindowOK, RecordOK,
     InHand, FlushStart, cache, flow, events, messages, looping, window
<1>. QED
  BY <1>1, <1>2, <1>3, <1>4, <1>5, <1>6, <1>7 DEF IInv, TypesOK

\* The data flow is stopped and the loop told.
LEMMA FlushRefuseInv == IInv /\ FlushRefuse => IInv'
<1>. SUFFICES ASSUME IInv, FlushRefuse
              PROVE  IInv'
  OBVIOUS
<1>1. FlowTypes'
  BY DEF IInv, TypesOK, FlowTypes, FlushRefuse, RefuseData, Results, events,
     messages
<1>2. LoopTypes'
  BY DEF IInv, TypesOK, LoopTypes, FlushRefuse, SignalAdd, Unlocked, None,
     Results, InHand
<1>3. HandlerTypes'
  BY DEF IInv, TypesOK, HandlerTypes, FlushRefuse, None, seeking
<1>4. ThreadsOK'
  BY DEF IInv, ThreadsOK, FlushRefuse, SignalAdd, Unlocked, cache, seeking,
     downstream
<1>5. NewOK'
  BY DEF IInv, NewOK, ThreadsOK, FlushRefuse, SignalAdd, Unlocked,
     RefuseData, cache, seeking, downstream, window
<1>6. OrderOK'
  BY DEF IInv, OrderOK, FlushRefuse, SignalAdd, Unlocked, RefuseData, InHand,
     Ready, cache, downstream, window
<1>7. CacheTypes' /\ DownstreamTypes' /\ WindowOK' /\ SegmentOK' /\
       RecordOK'
  BY DEF IInv, TypesOK, CacheTypes, DownstreamTypes, WindowOK, SegmentOK,
     RecordOK, InHand, FlushRefuse, cache, events, messages, seeking,
     downstream, window
<1>. QED
  BY <1>1, <1>2, <1>3, <1>4, <1>5, <1>6, <1>7 DEF IInv, TypesOK

\* The task is paused; the loop may still be in its last iteration.
LEMMA FlushPauseInv == IInv /\ FlushPause => IInv'
<1>. SUFFICES ASSUME IInv, FlushPause
              PROVE  IInv'
  OBVIOUS
<1>1. LoopTypes'
  BY DEF IInv, TypesOK, LoopTypes, FlushPause, PauseTask, None, Results,
     InHand, looping
<1>2. HandlerTypes'
  BY DEF IInv, TypesOK, HandlerTypes, FlushPause, None, seeking
<1>3. ThreadsOK'
  BY DEF IInv, ThreadsOK, FlushPause, PauseTask, cache, looping, seeking,
     downstream
<1>4. NewOK'
  BY DEF IInv, NewOK, FlushPause, cache, flow, looping, window
<1>5. OrderOK'
  BY DEF IInv, OrderOK, FlushPause, PauseTask, InHand, Ready, cache, flow,
     looping, downstream, window
<1>6. FlowTypes' /\ CacheTypes' /\ DownstreamTypes' /\ WindowOK' /\
       SegmentOK' /\ RecordOK'
  BY DEF IInv, TypesOK, FlowTypes, CacheTypes, DownstreamTypes, WindowOK,
     SegmentOK, RecordOK, InHand, FlushPause, cache, flow, events, messages,
     looping, seeking, downstream, window
<1>. QED
  BY <1>1, <1>2, <1>3, <1>4, <1>5, <1>6 DEF IInv, TypesOK

\* The loop is idle.
LEMMA FlushPausedInv == IInv /\ FlushPaused => IInv'
<1>. SUFFICES ASSUME IInv, FlushPaused
              PROVE  IInv'
  OBVIOUS
<1>1. HandlerTypes'
  BY DEF IInv, TypesOK, HandlerTypes, FlushPaused, None, seeking
<1>2. ThreadsOK'
  BY DEF IInv, ThreadsOK, FlushPaused, cache, looping, seeking, downstream
<1>3. NewOK'
  BY DEF IInv, NewOK, FlushPaused, cache, flow, looping, window
<1>4. FlowTypes' /\ CacheTypes' /\ LoopTypes' /\ DownstreamTypes' /\
       WindowOK' /\ OrderOK' /\ SegmentOK' /\ RecordOK'
  BY DEF IInv, TypesOK, FlowTypes, CacheTypes, LoopTypes, DownstreamTypes,
     WindowOK, OrderOK, SegmentOK, RecordOK, InHand, Ready, FlushPaused, cache,
     flow, events, messages, looping, seeking, downstream, window
<1>. QED
  BY <1>1, <1>2, <1>3, <1>4 DEF IInv, TypesOK

\* FLUSH_STOP is downstream.  The loop is idle and paused, so it has nothing in
\* hand that is not due.
LEMMA FlushStopInv == IInv /\ FlushStop => IInv'
<1>. SUFFICES ASSUME IInv, FlushStop
              PROVE  IInv'
  OBVIOUS
<1>1. FlowTypes'
  BY DEF IInv, TypesOK, FlowTypes, FlushStop, None, Results, flow, events,
     messages
<1>2. HandlerTypes'
  BY DEF IInv, TypesOK, HandlerTypes, FlushStop, None, seeking
<1>3. DownstreamTypes'
  BY DEF IInv, TypesOK, DownstreamTypes, FlushStop, None
<1>4. ThreadsOK'
  BY ElementAssumption DEF IInv, TypesOK, ThreadsOK, FlowTypes, FlushStop,
     None, Results, cache, flow, events, messages, looping, seeking
<1>5. NewOK'
  BY DEF IInv, NewOK, FlushStop, None, cache, flow, looping, window
<1>6. OrderOK'
  BY DEF IInv, OrderOK, ThreadsOK, FlushStop, None, InHand, Ready, cache,
     flow, looping, seeking, window
<1>7. SegmentOK'
  BY DEF IInv, SegmentOK, ThreadsOK, FlushStop, None, InHand, cache, events,
     looping, seeking, window
<1>8. CacheTypes' /\ LoopTypes' /\ WindowOK' /\ RecordOK'
  BY DEF IInv, TypesOK, CacheTypes, LoopTypes, WindowOK, RecordOK, InHand,
     FlushStop, cache, messages, looping, window
<1>. QED
  BY <1>1, <1>2, <1>3, <1>4, <1>5, <1>6, <1>7, <1>8 DEF IInv, TypesOK

\* The cache of the new stream is empty.
LEMMA FlushNewCacheInv == IInv /\ FlushNewCache => IInv'
<1>. SUFFICES ASSUME IInv, FlushNewCache
              PROVE  IInv'
  OBVIOUS
<1>1. FlowTypes'
  BY DEF IInv, TypesOK, FlowTypes, FlushNewCache, NewCache, Results, flow,
     events
<1>2. CacheTypes'
  BY 0 <= 0 DEF IInv, TypesOK, CacheTypes, FlushNewCache, NewCache
<1>3. HandlerTypes'
  BY DEF IInv, TypesOK, HandlerTypes, FlushNewCache, None, seeking
<1>4. ThreadsOK'
  BY DEF IInv, ThreadsOK, FlushNewCache, Unlocked, NewCache, looping,
     seeking, downstream
<1>5. WindowOK'
  BY ElementAssumption, 0 <= 0 DEF IInv, WindowOK, ThreadsOK, FlushNewCache,
     Unlocked, NewCache, InHand, looping, seeking, downstream
<1>6. NewOK'
  BY DEF IInv, NewOK, FlushNewCache, Unlocked, NewCache, flow, looping
<1>7. OrderOK'
  BY 0 <= 0 DEF IInv, OrderOK, ThreadsOK, FlushNewCache, Unlocked, NewCache,
     InHand, Ready, flow, looping, seeking, downstream
<1>8. SegmentOK'
  BY 0 <= 0 DEF IInv, SegmentOK, ThreadsOK, FlushNewCache, Unlocked,
     NewCache, InHand, None, events, looping, seeking, downstream
<1>9. RecordOK'
  BY DEF IInv, RecordOK, FlushNewCache, NewCache
<1>10. LoopTypes' /\ DownstreamTypes'
  BY DEF IInv, TypesOK, LoopTypes, DownstreamTypes, InHand, FlushNewCache,
     looping, downstream
<1>. QED
  BY <1>1, <1>2, <1>3, <1>4, <1>5, <1>6, <1>7, <1>8, <1>9, <1>10 DEF IInv,
     TypesOK

\* The loop runs again, from slot 0 of the new cache.  No seek and no change of
\* state has waited for it: they do not go with a flush.
LEMMA FlushResumeInv == IInv /\ FlushResume => IInv'
<1>. SUFFICES ASSUME IInv, FlushResume
              PROVE  IInv'
  OBVIOUS
<1>1. FlowTypes'
  BY DEF IInv, TypesOK, FlowTypes, FlushResume, AcceptData, Results, messages
<1>2. LoopTypes'
  BY DEF IInv, TypesOK, LoopTypes, FlushResume, Unlocked, None, Results,
     InHand, looping
<1>3. HandlerTypes'
  BY DEF IInv, TypesOK, HandlerTypes, FlushResume, None, seeking
<1>4. DownstreamTypes'
  BY DEF IInv, TypesOK, DownstreamTypes, FlushResume, Unlocked, None
<1>5. ThreadsOK'
  BY ElementAssumption DEF IInv, TypesOK, ThreadsOK, FlowTypes, FlushResume,
     Unlocked, AcceptData, Results, cache, messages, looping, seeking
<1>6. NewOK'
  BY DEF IInv, NewOK, FlushResume, Unlocked, AcceptData, cache, looping,
     window
<1>7. OrderOK'
  BY DEF IInv, OrderOK, ThreadsOK, NewOK, FlushResume, Unlocked, AcceptData,
     InHand, Ready, cache, looping, seeking, window
<1>8. CacheTypes' /\ WindowOK' /\ SegmentOK' /\ RecordOK'
  BY DEF IInv, TypesOK, CacheTypes, WindowOK, SegmentOK, RecordOK, InHand,
     FlushResume, cache, messages, looping, seeking, window
<1>. QED
  BY <1>1, <1>2, <1>3, <1>4, <1>5, <1>6, <1>7, <1>8 DEF IInv, TypesOK

\* A seek finds its offset.
LEMMA SeekCheckInv ==
  ASSUME IInv, NEW o \in SeekSlots, SeekCheck(o)
  PROVE  IInv'
<1>1. HandlerTypes'
  BY ElementAssumption DEF IInv, TypesOK, HandlerTypes, SeekCheck, None
<1>2. ThreadsOK'
  BY DEF IInv, ThreadsOK, SeekCheck, cache, looping, downstream
<1>3. SegmentOK'
  BY DEF IInv, SegmentOK, SeekCheck, InHand, None, cache, events, looping,
     downstream, window
<1>4. FlowTypes' /\ CacheTypes' /\ LoopTypes' /\ DownstreamTypes' /\
       WindowOK' /\ NewOK' /\ OrderOK' /\ RecordOK'
  BY DEF IInv, TypesOK, FlowTypes, CacheTypes, LoopTypes, DownstreamTypes,
     WindowOK, NewOK, OrderOK, RecordOK, InHand, Ready, SeekCheck, cache, flow,
     events, messages, looping, downstream, window
<1>. QED
  BY <1>1, <1>2, <1>3, <1>4 DEF IInv, TypesOK

\* FLUSH_START of the seek.
LEMMA SeekFlushInv == IInv /\ SeekFlush => IInv'
<1>. SUFFICES ASSUME IInv, SeekFlush
              PROVE  IInv'
  OBVIOUS
<1>1. FlowTypes'
  BY DEF IInv, TypesOK, FlowTypes, SeekFlush, Results, events, messages
<1>2. LoopTypes'
  BY DEF IInv, TypesOK, LoopTypes, SeekFlush, SignalAdd, Unlocked, None,
     Results, InHand
<1>3. HandlerTypes'
  BY DEF IInv, TypesOK, HandlerTypes, SeekFlush, None
<1>4. DownstreamTypes'
  BY DEF IInv, TypesOK, DownstreamTypes, SeekFlush, Unlocked, None
<1>5. ThreadsOK'
  BY DEF IInv, ThreadsOK, SeekFlush, SignalAdd, Unlocked, cache
<1>6. NewOK'
  BY DEF IInv, NewOK, ThreadsOK, SeekFlush, SignalAdd, Unlocked, cache,
     window
<1>7. OrderOK'
  BY DEF IInv, OrderOK, SeekFlush, SignalAdd, Unlocked, InHand, Ready, cache,
     window
<1>8. SegmentOK'
  BY DEF IInv, SegmentOK, SeekFlush, SignalAdd, Unlocked, InHand, None,
     cache, events, window
<1>9. CacheTypes' /\ WindowOK' /\ RecordOK'
  BY DEF IInv, TypesOK, CacheTypes, WindowOK, RecordOK, InHand, SeekFlush,
     cache, messages, window
<1>. QED
  BY <1>1, <1>2, <1>3, <1>4, <1>5, <1>6, <1>7, <1>8, <1>9 DEF IInv, TypesOK

\* The task is paused; the loop may still be in its last iteration.
LEMMA SeekPauseInv == IInv /\ SeekPause => IInv'
<1>. SUFFICES ASSUME IInv, SeekPause
              PROVE  IInv'
  OBVIOUS
<1>1. LoopTypes'
  BY DEF IInv, TypesOK, LoopTypes, SeekPause, PauseTask, None, Results,
     InHand, looping
<1>2. HandlerTypes'
  BY DEF IInv, TypesOK, HandlerTypes, SeekPause, None
<1>3. ThreadsOK'
  BY DEF IInv, ThreadsOK, SeekPause, PauseTask, cache, looping, downstream
<1>4. OrderOK'
  BY DEF IInv, OrderOK, SeekPause, PauseTask, InHand, Ready, cache, flow,
     looping, downstream, window
<1>5. SegmentOK'
  BY DEF IInv, SegmentOK, SeekPause, InHand, None, cache, events, looping,
     downstream, window
<1>6. FlowTypes' /\ CacheTypes' /\ DownstreamTypes' /\ WindowOK' /\ NewOK'
       /\ RecordOK'
  BY DEF IInv, TypesOK, FlowTypes, CacheTypes, DownstreamTypes, WindowOK,
     NewOK, RecordOK, InHand, SeekPause, cache, flow, events, messages, looping,
     downstream, window
<1>. QED
  BY <1>1, <1>2, <1>3, <1>4, <1>5, <1>6 DEF IInv, TypesOK

\* FLUSH_STOP of the seek, when the loop is idle.
LEMMA SeekPausedInv == IInv /\ SeekPaused => IInv'
<1>. SUFFICES ASSUME IInv, SeekPaused
              PROVE  IInv'
  OBVIOUS
<1>1. HandlerTypes'
  BY DEF IInv, TypesOK, HandlerTypes, SeekPaused, None
<1>2. DownstreamTypes'
  BY DEF IInv, TypesOK, DownstreamTypes, SeekPaused, FlushedDownstream, None
<1>3. ThreadsOK'
  BY DEF IInv, ThreadsOK, SeekPaused, FlushedDownstream, None, cache, looping
<1>4. OrderOK'
  BY DEF IInv, OrderOK, ThreadsOK, SeekPaused, FlushedDownstream, None,
     InHand, Ready, cache, flow, looping, window
<1>5. SegmentOK'
  BY DEF IInv, SegmentOK, SeekPaused, FlushedDownstream, None, InHand, cache,
     events, looping, window
<1>6. FlowTypes' /\ CacheTypes' /\ LoopTypes' /\ WindowOK' /\ NewOK' /\
       RecordOK'
  BY DEF IInv, TypesOK, FlowTypes, CacheTypes, LoopTypes, WindowOK, NewOK,
     RecordOK, InHand, SeekPaused, cache, flow, events, messages, looping,
     window
<1>. QED
  BY <1>1, <1>2, <1>3, <1>4, <1>5, <1>6 DEF IInv, TypesOK

\* The loop runs again, from the slot sought, and a SEGMENT is due.
LEMMA SeekResumeInv == IInv /\ SeekResume => IInv'
<1>. SUFFICES ASSUME IInv, SeekResume
              PROVE  IInv'
  OBVIOUS
<1>1. FlowTypes'
  BY DEF IInv, TypesOK, FlowTypes, SeekResume, None, Results, messages
<1>t. /\ SeekTarget \in Nat /\ oldest <= SeekTarget /\ SeekTarget <= tail
      /\ SeekTarget = tail => head = tail
  BY DEF IInv, TypesOK, CacheTypes, HandlerTypes, ThreadsOK, SeekResume,
     SeekTarget, InRing, Higher
<1>h. /\ head' \in Nat /\ oldest <= head' /\ head' <= tail
      /\ astray' \in BOOLEAN
      /\ ~astray' => ~astray /\ head' = SeekTarget
  <2>1. astray' \in BOOLEAN
    BY DEF SeekResume, Repositioned
  <2>2. \/ head' = head \/ head' \in oldest .. tail
        \/ head' = SeekTarget
        \/ StaleHead /\ head' = tail - 1
    BY DEF SeekResume, Repositioned
  <2>3. StaleHead => oldest <= tail - 1 /\ tail - 1 \in Nat
    BY ElementAssumption DEF StaleHead, IInv, TypesOK, CacheTypes
  <2>4. head' \in Nat /\ oldest <= head' /\ head' <= tail
    BY <1>t, <2>2, <2>3 DEF IInv, TypesOK, CacheTypes
  <2>5. ASSUME ~astray'
        PROVE  ~astray /\ head' = SeekTarget
    <3>1. ~astray /\ ~(InRing /\ StaleHead /\ SeekTarget < tail - 1)
      BY <2>5 DEF SeekResume, Repositioned
    <3>2. CASE ~InRing
      BY <3>1, <3>2 DEF SeekResume, Repositioned, SeekTarget
    <3>3. CASE InRing /\ StaleHead
      <4>1. SeekTarget < tail
        BY <3>3 DEF SeekTarget, InRing
      <4>2. SeekTarget = tail - 1
        BY <1>t, <3>1, <3>3, <4>1 DEF IInv, TypesOK, CacheTypes
      <4>. QED
        BY <3>1, <3>3, <4>2 DEF SeekResume, Repositioned
    <3>4. CASE InRing /\ ~StaleHead
      BY <3>1, <3>4 DEF SeekResume, Repositioned
    <3>. QED
      BY <3>1, <3>2, <3>3, <3>4
  <2>. QED
    BY <2>1, <2>4, <2>5
<1>2. CacheTypes'
  BY <1>h DEF IInv, TypesOK, CacheTypes, SeekResume
<1>3. LoopTypes'
  BY DEF IInv, TypesOK, LoopTypes, SeekResume, Unlocked, None, Results,
     InHand, looping
<1>4. HandlerTypes'
  BY DEF IInv, TypesOK, HandlerTypes, SeekResume, SeekTarget, None
<1>5. DownstreamTypes'
  BY <1>t DEF IInv, TypesOK, DownstreamTypes, SeekResume
<1>6. ThreadsOK'
  BY ElementAssumption DEF IInv, TypesOK, ThreadsOK, FlowTypes, SeekResume,
     Unlocked, None, Results, messages, looping
<1>7. WindowOK'
  BY DEF IInv, TypesOK, WindowOK, ThreadsOK, CacheTypes, SeekResume,
     Unlocked, SeekTarget, None, InHand, looping
<1>8. NewOK'
  BY ElementAssumption DEF IInv, TypesOK, NewOK, ThreadsOK, FlowTypes,
     SeekResume, Unlocked, SeekTarget, None, Results, messages, looping
<1>9. OrderOK'
  BY <1>h DEF IInv, OrderOK, ThreadsOK, SeekResume, InHand, looping
<1>10. SegmentOK'
  BY DEF IInv, SegmentOK, ThreadsOK, SeekResume, Unlocked, SeekTarget, None,
     InHand, looping
<1>11. RecordOK'
  BY DEF IInv, RecordOK, SeekResume, messages
<1>. QED
  BY <1>1, <1>2, <1>3, <1>4, <1>5, <1>6, <1>7, <1>8, <1>9, <1>10, <1>11 DEF
     IInv, TypesOK

\* The application starts a recording, which nothing announces.
LEMMA ExplicitStartInv == IInv /\ ExplicitStart => IInv'
<1>. SUFFICES ASSUME IInv, ExplicitStart
              PROVE  IInv'
  OBVIOUS
<1>1. CacheTypes'
  BY DEF IInv, TypesOK, CacheTypes, ExplicitStart, window
<1>2. WindowOK'
  BY DEF IInv, WindowOK, ExplicitStart, Unlocked, InHand, window, looping
<1>3. RecordOK'
  BY DEF IInv, RecordOK, ExplicitStart, messages
<1>4. FlowTypes' /\ LoopTypes' /\ HandlerTypes' /\ DownstreamTypes' /\
       ThreadsOK' /\ NewOK' /\ OrderOK' /\ SegmentOK'
  BY DEF IInv, TypesOK, FlowTypes, LoopTypes, HandlerTypes, DownstreamTypes,
     ThreadsOK, NewOK, OrderOK, SegmentOK, InHand, Ready, ExplicitStart, window,
     flow, events, messages, looping, seeking, downstream
<1>. QED
  BY <1>1, <1>2, <1>3, <1>4 DEF IInv, TypesOK

\* A new cache, and the loop begins before the sink pad is active.
LEMMA ActivateInv == IInv /\ Activate => IInv'
<1>. SUFFICES ASSUME IInv, Activate
              PROVE  IInv'
  OBVIOUS
<1>1. FlowTypes'
  BY DEF IInv, TypesOK, FlowTypes, Activate, AcceptData, NewCache, None,
     Results
<1>2. CacheTypes'
  BY 0 <= 0 DEF IInv, TypesOK, CacheTypes, Activate, NewCache, None
<1>3. LoopTypes'
  BY DEF IInv, TypesOK, LoopTypes, Activate, Unlocked, None, Results, InHand,
     looping
<1>4. HandlerTypes'
  BY DEF IInv, TypesOK, HandlerTypes, Activate, None, seeking
<1>5. DownstreamTypes'
  BY DEF IInv, TypesOK, DownstreamTypes, Activate, Unlocked, None
<1>6. ThreadsOK'
  BY DEF IInv, ThreadsOK, Activate, Unlocked, NewCache, None, looping,
     seeking
<1>7. WindowOK'
  BY ElementAssumption, 0 <= 0 DEF IInv, WindowOK, ThreadsOK, Activate,
     Unlocked, NewCache, None, InHand, looping, seeking
<1>8. NewOK'
  BY 0 <= 0 DEF IInv, NewOK, ThreadsOK, Activate, Unlocked, AcceptData,
     NewCache, None, looping, seeking
<1>9. OrderOK'
  BY 0 <= 0 DEF IInv, OrderOK, ThreadsOK, Activate, Unlocked, AcceptData,
     NewCache, None, InHand, Ready, looping, seeking
<1>10. SegmentOK'
  BY DEF IInv, SegmentOK, Activate, Unlocked, NewCache, None, InHand,
     looping, seeking
<1>11. RecordOK'
  BY DEF IInv, RecordOK, Activate, NewCache, None
<1>. QED
  BY <1>1, <1>2, <1>3, <1>4, <1>5, <1>6, <1>7, <1>8, <1>9, <1>10, <1>11 DEF
     IInv, TypesOK

\* The sink pad is active.  Nothing has been pushed, so what is due is still
\* slot 0.
LEMMA ActivateSinkInv == IInv /\ ActivateSink => IInv'
<1>. SUFFICES ASSUME IInv, ActivateSink
              PROVE  IInv'
  OBVIOUS
<1>1. FlowTypes'
  BY DEF IInv, TypesOK, FlowTypes, ActivateSink, AcceptData, Results, events,
     messages
<1>2. HandlerTypes'
  BY DEF IInv, TypesOK, HandlerTypes, ActivateSink, None, seeking
<1>3. ThreadsOK'
  BY DEF IInv, ThreadsOK, ActivateSink, Unlocked, cache, looping, seeking,
     downstream
<1>4. NewOK'
  BY DEF IInv, NewOK, ActivateSink, Unlocked, AcceptData, cache, looping,
     window
<1>5. OrderOK'
  BY DEF IInv, OrderOK, NewOK, ActivateSink, Unlocked, AcceptData, InHand,
     Ready, cache, looping, downstream, window
<1>6. SegmentOK'
  BY DEF IInv, SegmentOK, ActivateSink, Unlocked, InHand, None, cache,
     events, looping, seeking, downstream, window
<1>7. CacheTypes' /\ LoopTypes' /\ DownstreamTypes' /\ WindowOK' /\
       RecordOK'
  BY DEF IInv, TypesOK, CacheTypes, LoopTypes, DownstreamTypes, WindowOK,
     RecordOK, InHand, ActivateSink, cache, messages, looping, downstream,
     window
<1>. QED
  BY <1>1, <1>2, <1>3, <1>4, <1>5, <1>6, <1>7 DEF IInv, TypesOK

\* The source pad is flushing before the loop is told.
LEMMA DeactivateInv == IInv /\ Deactivate => IInv'
<1>. SUFFICES ASSUME IInv, Deactivate
              PROVE  IInv'
  OBVIOUS
<1>1. HandlerTypes'
  BY DEF IInv, TypesOK, HandlerTypes, Deactivate, None, seeking
<1>2. DownstreamTypes'
  BY DEF IInv, TypesOK, DownstreamTypes, Deactivate, None
<1>3. ThreadsOK'
  BY ElementAssumption DEF IInv, TypesOK, ThreadsOK, FlowTypes, Deactivate,
     Results, cache, flow, events, messages, looping, seeking
<1>4. NewOK'
  BY DEF IInv, NewOK, Deactivate, cache, flow, looping, window
<1>5. OrderOK'
  BY DEF IInv, OrderOK, Deactivate, InHand, Ready, cache, flow, looping,
     window
<1>6. SegmentOK'
  BY DEF IInv, SegmentOK, Deactivate, InHand, None, cache, events, looping,
     seeking, window
<1>7. FlowTypes' /\ CacheTypes' /\ LoopTypes' /\ WindowOK' /\ RecordOK'
  BY DEF IInv, TypesOK, FlowTypes, CacheTypes, LoopTypes, WindowOK, RecordOK,
     InHand, Deactivate, cache, flow, events, messages, looping, window
<1>. QED
  BY <1>1, <1>2, <1>3, <1>4, <1>5, <1>6, <1>7 DEF IInv, TypesOK

\* The data flow is stopped, the loop told and the task stopped.
LEMMA StopTaskInv == IInv /\ StopTask => IInv'
<1>. SUFFICES ASSUME IInv, StopTask
              PROVE  IInv'
  OBVIOUS
<1>1. FlowTypes'
  BY DEF IInv, TypesOK, FlowTypes, StopTask, RefuseData, Results, events,
     messages
<1>2. LoopTypes'
  BY DEF IInv, TypesOK, LoopTypes, StopTask, SignalAdd, Unlocked, None,
     Results, InHand
<1>3. HandlerTypes'
  BY DEF IInv, TypesOK, HandlerTypes, StopTask, None, seeking
<1>4. ThreadsOK'
  BY DEF IInv, ThreadsOK, StopTask, SignalAdd, Unlocked, cache, seeking,
     downstream
<1>5. NewOK'
  BY DEF IInv, NewOK, StopTask, SignalAdd, Unlocked, RefuseData, cache,
     window
<1>6. OrderOK'
  BY DEF IInv, OrderOK, StopTask, SignalAdd, Unlocked, RefuseData, InHand,
     Ready, cache, downstream, window
<1>7. SegmentOK'
  BY DEF IInv, SegmentOK, StopTask, SignalAdd, Unlocked, InHand, None, cache,
     events, seeking, downstream, window
<1>8. CacheTypes' /\ DownstreamTypes' /\ WindowOK' /\ RecordOK'
  BY DEF IInv, TypesOK, CacheTypes, DownstreamTypes, WindowOK, RecordOK,
     InHand, StopTask, cache, messages, downstream, window
<1>. QED
  BY <1>1, <1>2, <1>3, <1>4, <1>5, <1>6, <1>7, <1>8 DEF IInv, TypesOK

\* The loop is idle.
LEMMA JoinTaskInv == IInv /\ JoinTask => IInv'
<1>. SUFFICES ASSUME IInv, JoinTask
              PROVE  IInv'
  OBVIOUS
<1>1. HandlerTypes'
  BY DEF IInv, TypesOK, HandlerTypes, JoinTask, None, seeking
<1>2. ThreadsOK'
  BY DEF IInv, ThreadsOK, JoinTask, cache, looping, seeking, downstream
<1>3. NewOK'
  BY DEF IInv, NewOK, JoinTask, cache, flow, looping, window
<1>4. SegmentOK'
  BY DEF IInv, SegmentOK, JoinTask, InHand, None, cache, events, looping,
     seeking, downstream, window
<1>5. FlowTypes' /\ CacheTypes' /\ LoopTypes' /\ DownstreamTypes' /\
       WindowOK' /\ OrderOK' /\ RecordOK'
  BY DEF IInv, TypesOK, FlowTypes, CacheTypes, LoopTypes, DownstreamTypes,
     WindowOK, OrderOK, RecordOK, InHand, Ready, JoinTask, cache, flow, events,
     messages, looping, downstream, window
<1>. QED
  BY <1>1, <1>2, <1>3, <1>4, <1>5 DEF IInv, TypesOK

\* The cache is dropped.
LEMMA StopInv == IInv /\ Stop => IInv'
<1>. SUFFICES ASSUME IInv, Stop
              PROVE  IInv'
  OBVIOUS
<1>1. FlowTypes'
  BY DEF IInv, TypesOK, FlowTypes, Stop, RefuseData, None, Results
<1>2. CacheTypes'
  BY DEF IInv, TypesOK, CacheTypes, Stop, None, window
<1>3. HandlerTypes'
  BY DEF IInv, TypesOK, HandlerTypes, Stop, None, seeking
<1>4. DownstreamTypes'
  BY DEF IInv, TypesOK, DownstreamTypes, Stop, Unlocked, None
<1>5. ThreadsOK'
  BY DEF IInv, ThreadsOK, Stop, Unlocked, None, looping, seeking
<1>6. WindowOK'
  BY DEF IInv, WindowOK, Stop, Unlocked, None, InHand, window, looping
<1>7. NewOK'
  BY DEF IInv, NewOK, Stop, Unlocked, RefuseData, None, window, looping
<1>8. OrderOK'
  BY DEF IInv, OrderOK, ThreadsOK, Stop, Unlocked, RefuseData, None, InHand,
     Ready, window, looping, seeking
<1>9. SegmentOK'
  BY DEF IInv, SegmentOK, Stop, Unlocked, None, InHand, window, looping,
     seeking
<1>10. RecordOK'
  BY DEF IInv, RecordOK, Stop, None
<1>11. LoopTypes'
  BY DEF IInv, TypesOK, LoopTypes, InHand, Stop, looping
<1>. QED
  BY <1>1, <1>2, <1>3, <1>4, <1>5, <1>6, <1>7, <1>8, <1>9, <1>10, <1>11 DEF
     IInv, TypesOK

-----------------------------------------------------------------------------
(* The invariant of the specification                                      *)

\* Every step keeps the invariant.
LEMMA NextInv == IInv /\ [Next]_vars => IInv'
<1>. SUFFICES ASSUME IInv, [Next]_vars
              PROVE  IInv'
  OBVIOUS
<1>1. CASE Loop
  BY <1>1, LoopFlushedInv, LoopWaitInv, LoopPopInv, LoopEventFailsInv,
     LoopStreamStartInv, LoopSegmentInv, LoopPushInv, LoopPushedInv,
     LoopEosInv, LoopLastEosInv
     DEF Loop
<1>2. CASE \E t \in 0 .. MaxSlots, p \in BOOLEAN : Chain(t, p)
  BY <1>2, ChainInv
<1>3. CASE StreamStart \/ Eos \/ Segment
  BY <1>3, StreamStartInv, EosInv, SegmentInv
<1>4. CASE FlushStart \/ FlushOn \/ FlushStop
  BY <1>4, FlushStartInv, FlushRefuseInv, FlushPauseInv, FlushPausedInv,
     FlushNewCacheInv, FlushResumeInv, FlushStopInv
     DEF FlushOn
<1>5. CASE (\E o \in SeekSlots : SeekCheck(o)) \/ SeekOn \/ ExplicitStart
  BY <1>5, SeekCheckInv, SeekFlushInv, SeekPauseInv, SeekPausedInv,
     SeekResumeInv, ExplicitStartInv
     DEF SeekOn
<1>6. CASE Deactivate \/ StateOn
  BY <1>6, DeactivateInv, ActivateInv, ActivateSinkInv, StopTaskInv,
     JoinTaskInv, StopInv
     DEF StateOn
<1>7. CASE UNCHANGED vars
  <2>1. TypesOK'
    BY <1>7
       DEF IInv, TypesOK, FlowTypes, CacheTypes, LoopTypes, HandlerTypes,
           DownstreamTypes, InHand, vars, flow, events, cache, window,
           messages, looping, seeking, downstream
  <2>2. /\ ThreadsOK' /\ WindowOK' /\ NewOK' /\ OrderOK' /\ SegmentOK'
        /\ RecordOK'
    BY <1>7
       DEF IInv, ThreadsOK, WindowOK, NewOK, OrderOK, SegmentOK, RecordOK,
           InHand, Ready, vars, flow, events, cache, window, messages,
           looping, seeking, downstream
  <2>. QED
    BY <2>1, <2>2 DEF IInv
<1>. QED
  BY <1>1, <1>2, <1>3, <1>4, <1>5, <1>6, <1>7 DEF Next

\* Every state the element can be in satisfies the invariant.
THEOREM Invariant == Spec => []IInv
  BY InitInv, NextInv, PTL DEF Spec

-----------------------------------------------------------------------------
(* Which action it is                                                      *)

\* Only the push of the loop delivers a buffer.
LEMMA DeliverIsPush == Next /\ Deliver => LoopPush
<1>. SUFFICES ASSUME Next, Deliver
              PROVE  LoopPush
  OBVIOUS
<1>1. loop = "push" /\ loop' = "pushed"
  BY DEF Deliver
<1>2. CASE Loop
  BY <1>1, <1>2
     DEF Loop, LoopFlushed, AtTop, LoopWait, LoopPop, LoopEventFails,
         LoopStreamStart, LoopSegment, LoopPushed, LoopEos, LoopLastEos
<1>3. ~ \E t \in 0 .. MaxSlots, p \in BOOLEAN : Chain(t, p)
  BY <1>1 DEF Chain
<1>4. ~(StreamStart \/ Eos \/ Segment)
  BY <1>1 DEF StreamStart, Eos, Segment, looping
<1>5. ~(FlushStart \/ FlushOn \/ FlushStop)
  BY <1>1
     DEF FlushStart, FlushOn, FlushRefuse, FlushPause, FlushPaused,
         FlushNewCache, FlushResume, FlushStop, looping
<1>6. ~((\E o \in SeekSlots : SeekCheck(o)) \/ SeekOn \/ ExplicitStart)
  BY <1>1
     DEF SeekCheck, SeekOn, SeekFlush, SeekPause, SeekPaused, SeekResume,
         ExplicitStart, looping
<1>7. ~(Deactivate \/ StateOn)
  BY <1>1
     DEF Deactivate, StateOn, Activate, ActivateSink, StopTask, JoinTask,
         Stop, looping
<1>. QED
  BY <1>2, <1>3, <1>4, <1>5, <1>6, <1>7 DEF Next

\* EOS that was not sent before is sent by the loop, and to a pad that is not
\* flushing.
LEMMA EosIsSent == Next /\ eosSent' /\ ~eosSent => ~srcFlushing
<1>. SUFFICES ASSUME Next, eosSent', ~eosSent
              PROVE  ~srcFlushing
  OBVIOUS
<1>1. CASE Loop
  BY <1>1
     DEF Loop, LoopFlushed, LoopWait, LoopPop, LoopEventFails,
         LoopStreamStart, LoopSegment, LoopPush, LoopPushed, LoopEos,
         LoopLastEos, downstream
<1>2. ~ \E t \in 0 .. MaxSlots, p \in BOOLEAN : Chain(t, p)
  BY DEF Chain, downstream
<1>3. ~(StreamStart \/ Eos \/ Segment)
  BY DEF StreamStart, Eos, Segment, downstream
<1>4. ~(FlushStart \/ FlushOn \/ FlushStop)
  BY DEF FlushStart, FlushOn, FlushRefuse, FlushPause, FlushPaused,
         FlushNewCache, FlushResume, FlushStop, downstream
<1>5. ~((\E o \in SeekSlots : SeekCheck(o)) \/ SeekOn \/ ExplicitStart)
  BY DEF SeekCheck, SeekOn, SeekFlush, SeekPause, SeekPaused, SeekResume,
         FlushedDownstream, ExplicitStart, downstream
<1>6. ~(Deactivate \/ StateOn)
  BY DEF Deactivate, StateOn, Activate, ActivateSink, StopTask, JoinTask,
         Stop, downstream
<1>. QED
  BY <1>1, <1>2, <1>3, <1>4, <1>5, <1>6 DEF Next

\* The end of a recording is posted by gst_flutsbase_stop, if there is one.
LEMMA StoppedIsPosted ==
  Next /\ posted' = "stopped" /\ posted # "stopped" => Stop /\ recording
<1>. SUFFICES ASSUME Next, posted' = "stopped", posted # "stopped"
              PROVE  Stop /\ recording
  OBVIOUS
<1>1. ~Loop
  BY DEF Loop, LoopFlushed, LoopWait, LoopPop, LoopEventFails,
         LoopStreamStart, LoopSegment, LoopPush, LoopPushed, LoopEos,
         LoopLastEos, messages
<1>2. ~ \E t \in 0 .. MaxSlots, p \in BOOLEAN : Chain(t, p)
  BY DEF Chain, PostStarted, messages
<1>3. ~(StreamStart \/ Eos \/ Segment)
  BY DEF StreamStart, Eos, Segment, messages
<1>4. ~(FlushStart \/ FlushOn \/ FlushStop)
  BY DEF FlushStart, FlushOn, FlushRefuse, FlushPause, FlushPaused,
         FlushNewCache, FlushResume, FlushStop, messages
<1>5. ~((\E o \in SeekSlots : SeekCheck(o)) \/ SeekOn \/ ExplicitStart)
  BY DEF SeekCheck, SeekOn, SeekFlush, SeekPause, SeekPaused, SeekResume,
         ExplicitStart, messages
<1>6. CASE Deactivate \/ StateOn
  BY <1>6
     DEF Deactivate, StateOn, Activate, ActivateSink, StopTask, JoinTask,
         Stop, messages
<1>. QED
  BY <1>1, <1>2, <1>3, <1>4, <1>5, <1>6 DEF Next

-----------------------------------------------------------------------------
(* What it gives                                                           *)

\* Type correctness: every variable stays in its range, and the loop's
\* position in the window of the cache (flutsbase.c, whose counters and flags
\* these are).
THEOREM TypeCorrect == Spec => []TypeOK
<1>1. IInv => TypeOK
  BY DEF IInv, TypesOK, FlowTypes, CacheTypes, LoopTypes, HandlerTypes,
         DownstreamTypes, InHand, TypeOK
<1>. QED
  BY <1>1, Invariant, PTL

\* gst_flutsbase_stop drops the cache only when the loop is idle and will not
\* begin again, and no seek is on its way.
THEOREM StopsQuietAlways == Spec => []StopsQuiet
<1>1. IInv => StopsQuiet
  BY DEF IInv, TypesOK, HandlerTypes, ThreadsOK, StopsQuiet
<1>. QED
  BY <1>1, Invariant, PTL

\* Downstream gets the slots in order, from where the last flush or seek put
\* it: gst_flutsbase_loop never pushes a buffer it popped before a flush after
\* it, and never skips one.  A seek that goes astray ends it.
THEOREM InOrderAlways == Spec => InOrder
<1>1. IInv /\ [Next]_vars => [Deliver /\ ~astray => buffer = due]_vars
  <2>. SUFFICES ASSUME IInv, Next, Deliver, ~astray
                PROVE  buffer = due
    OBVIOUS
  <2>1. LoopPush
    BY DeliverIsPush
  <2>2. ~srcFlushing
    BY <2>1 DEF LoopPush, PushResults, Deliver
  <2>. QED
    BY <2>1, <2>2 DEF IInv, OrderOK, InHand, LoopPush
<1>. QED
  BY <1>1, Invariant, PTL DEF Spec, InOrder

\* gst_flutsbase_loop pushes no buffer before a SEGMENT, and the SEGMENT starts
\* at or before the buffer until a seek goes astray.
THEOREM SegmentFirstAlways == Spec => SegmentFirst
<1>1. IInv /\ [Next]_vars =>
        [Deliver /\ "flush" \notin env =>
           segment # None /\ (segment <= buffer \/ astray)]_vars
  <2>. SUFFICES ASSUME IInv, Next, Deliver, "flush" \notin env
                PROVE  segment # None /\ (segment <= buffer \/ astray)
    OBVIOUS
  <2>1. LoopPush
    BY DeliverIsPush
  <2>2. ~srcFlushing /\ loop = "push"
    BY <2>1 DEF LoopPush, PushResults, Deliver
  <2>. QED
    BY <2>2 DEF IInv, SegmentOK, ThreadsOK, InHand
<1>. QED
  BY <1>1, Invariant, PTL DEF Spec, SegmentFirst

\* When gst_flutsbase_loop sends EOS, everything upstream pushed is out, the
\* slot that was being filled included, unless a seek has gone astray.
THEOREM EosCompleteAlways == Spec => EosComplete
<1>1. IInv /\ [Next]_vars =>
        [loop = "eos" /\ eosSent' /\ ~eosSent /\ ~astray =>
           due = tail /\ ~part]_vars
  <2>. SUFFICES ASSUME IInv, Next, loop = "eos", eosSent', ~eosSent, ~astray
                PROVE  due = tail /\ ~part
    OBVIOUS
  <2>1. ~srcFlushing
    BY EosIsSent
  <2>. QED
    BY <2>1 DEF IInv, OrderOK
<1>. QED
  BY <1>1, Invariant, PTL DEF Spec, EosComplete

\* When no application both asks for a recording and stops the element, the
\* end of a recording is posted (gst_flutsbase_stop) only after its beginning
\* (gst_flutsbase_push).
THEOREM RecordingPairedAlways ==
  ASSUME \A s \in Scenarios : ~({"explicit", "stop"} \subseteq s)
  PROVE  Spec => RecordingPaired
<1>1. IInv /\ [Next]_vars =>
        [posted' = "stopped" /\ posted # "stopped" => posted = "started"]_vars
  <2>. SUFFICES ASSUME IInv, Next, posted' = "stopped", posted # "stopped"
                PROVE  posted = "started"
    OBVIOUS
  <2>1. Stop /\ recording
    BY StoppedIsPosted
  <2>2. alive /\ "stop" \in env /\ env \in Scenarios
    BY <2>1 DEF IInv, TypesOK, FlowTypes, ThreadsOK, Stop
  <2>. QED
    BY <2>1, <2>2 DEF IInv, RecordOK
<1>. QED
  BY <1>1, Invariant, PTL DEF Spec, RecordingPaired
=============================================================================

--------------------------- MODULE TimeShiftProofs --------------------------
(***************************************************************************)
(* Proofs about TimeShiftBin, for every size of the ring and its slots,    *)
(* every length of the stream and every behaviour of its PCR.              *)
(*                                                                         *)
(* IInv is inductive.  It has one part for each of: the trees of the       *)
(* index, the indexer, upstream's thread, the insertion under way, the     *)
(* window of the cache, the loop and the application; then the order of    *)
(* the entries, their alignment with the packets, and what is known of a   *)
(* seek while it is on its way.                                            *)
(***************************************************************************)
EXTENDS TimeShiftBin, SequenceTheorems, FiniteSetTheorems, TLAPS

-----------------------------------------------------------------------------
(* The invariant                                                           *)

\* Each node stands under its value and holds entries of the index.
NodesOK(tree, f) ==
  \A v \in DOMAIN tree :
    /\ tree[v] \in Node
    /\ tree[v].key[f] = v /\ tree[v].value[f] = v
    /\ tree[v].key \in associations /\ tree[v].value \in associations

IndexOK ==
  /\ associations \subseteq Entry
  /\ NodesOK(byTime, "time")
  /\ NodesOK(byBytes, "bytes")

IndexerOK ==
  /\ pcr_pid \in BOOLEAN /\ delta \in Deltas \cup {-1} /\ own_index = FALSE
  /\ base_time \in Nat \cup {None} /\ last_time \in Int
  /\ current_offset \in 0 .. MaxPackets

UpstreamOK ==
  /\ env \in Scenarios
  /\ clock \in Nat /\ jumps \in 0 .. MaxJumps
  /\ chain \in {"idle", "index", "push"}
  /\ data \in Seq(Packet) /\ content \in Seq(Packet)
  /\ chain = "idle" => data = <<>>
  /\ Len(content) + Len(data) <= current_offset

InsertOK ==
  /\ inserting \in Formats \cup {"none"}
  /\ inserting # "none" <=> chain = "index"
  /\ entry \subseteq associations
  /\ chain = "index" => entry # {}

Slotted(n) == \E k \in Nat : n = k * SlotSize

WindowOK ==
  /\ Slotted(oldest) /\ Slotted(next) /\ Slotted(buffer)
  /\ oldest <= Reader /\ next <= Len(content)
  /\ Len(content) <= oldest + NSlots * SlotSize
  /\ loop # "idle" => next = buffer + SlotSize

PlayOK ==
  /\ loop \in {"idle", "segment", "push"}
  /\ need_newsegment \in BOOLEAN /\ timestamp_next_buffer \in BOOLEAN
  /\ loop = "segment" => need_newsegment
  /\ app \in {"idle", "end", "duration", "told",
              "find", "check", "reposition"}
  /\ target \in Int \cup {NoTime} /\ goal \subseteq Int
  /\ app # "told" => target \in Int
  /\ len \in 0 .. MaxPackets /\ want \in Nat \cup {NoOffset}
  /\ segment \in Int \cup {NoTime} /\ stamp \in Int \cup {NoTime}

\* Entries are of bytes that the indexer has seen, one entry per offset.
OrderOK ==
  /\ \A e \in associations : e.bytes \in 0 .. current_offset - 1
  /\ \A e, o \in associations : e.bytes = o.bytes => e.time = o.time
  /\ base_time = None => associations = {}

\* Times lie between zero and that of the last entry.
SpacingOK ==
  delta # -1 =>
    /\ base_time = None <=> last_time = None
    /\ base_time # None => last_time \in Nat
    /\ \A e \in associations : e.time \in 0 .. last_time
    /\ Spaced

\* The packets of the cache and the one on its way to it.
Stream == content \o data

AlignOK ==
  Undisturbed =>
    /\ current_offset = Len(content) + Len(data)
    /\ \A e \in associations :
         /\ Stream[e.bytes + 1].pcr # None
         /\ MPEGTIME_TO_GSTTIME(Stream[e.bytes + 1].pcr) - base_time = e.time

\* The offset that a seek has found, and the place where the loop goes on
\* after it, are not after an entry that is not after the target.  What the
\* SEGMENT tells after that is not after the target, if it is a time.
GoalOK ==
  delta # -1 =>
    /\ app \in {"check", "reposition"} /\ want # NoOffset =>
         \E e \in associations : e.bytes = want /\ e.time <= target
    /\ \A t \in goal :
         IF need_newsegment
         THEN \E e \in associations : Reader <= e.bytes /\ e.time <= t
         ELSE segment = NoTime \/ segment <= t

TypesOK ==
  IndexOK /\ IndexerOK /\ UpstreamOK /\ InsertOK /\ WindowOK /\ PlayOK
IInv == TypesOK /\ OrderOK /\ SpacingOK /\ AlignOK /\ GoalOK

-----------------------------------------------------------------------------
(* Slots and their multiples                                               *)

\* A quotient, multiplied again.
LEMMA Quotient ==
  ASSUME NEW n \in Nat, NEW s \in Nat \ {0}
  PROVE  /\ n \div s \in Nat
         /\ (n \div s) * s \in Nat
         /\ (n \div s) * s <= n
         /\ n < (n \div s) * s + s
  OBVIOUS

\* Multiples are ordered as their factors.
LEMMA Multiples ==
  ASSUME NEW k \in Int, NEW m \in Int, NEW s \in Nat \ {0},
         k * s < m * s + s
  PROVE  k <= m /\ k * s <= m * s
  OBVIOUS

\* A multiple of the slot size is a natural number.
LEMMA SlottedNat ==
  ASSUME NEW n, Slotted(n)
  PROVE  n \in Nat
  BY BinAssumption DEF Slotted

\* The end of a slot begins the next.
LEMMA SlottedNext ==
  ASSUME NEW n, Slotted(n)
  PROVE  Slotted(n + SlotSize)
<1>1. PICK k \in Nat : n = k * SlotSize
  BY DEF Slotted
<1>2. n + SlotSize = (k + 1) * SlotSize
  BY <1>1, BinAssumption
<1>. QED
  BY <1>2 DEF Slotted

\* The slot that an offset is in: no multiple between them.
LEMMA ReachedSlot ==
  ASSUME NEW n \in Nat
  PROVE  /\ Slotted(Reached(n))
         /\ Reached(n) \in Nat /\ Reached(n) <= n
         /\ \A m : Slotted(m) /\ m <= n => m <= Reached(n)
<1>1. n \div SlotSize \in Nat /\ Reached(n) \in Nat /\ Reached(n) <= n
      /\ n < Reached(n) + SlotSize
  BY Quotient, BinAssumption DEF Reached
<1>2. ASSUME NEW m, Slotted(m), m <= n
      PROVE  m <= Reached(n)
  <2>1. PICK k \in Nat : m = k * SlotSize
    BY <1>2 DEF Slotted
  <2>2. k * SlotSize < (n \div SlotSize) * SlotSize + SlotSize
    <3>1. k * SlotSize \in Nat
      BY BinAssumption
    <3>. QED
      BY <1>1, <1>2, <2>1, <3>1, BinAssumption DEF Reached
  <2>. QED
    BY <1>1, <2>1, <2>2, Multiples, BinAssumption DEF Reached
<1>. QED
  BY <1>1, <1>2 DEF Slotted, Reached

-----------------------------------------------------------------------------
(* Lookups                                                                 *)

\* What a lookup BEFORE finds is an entry of the index at or below the value,
\* and one entry at most, also in a tree that is being changed.
LEMMA LookupBelow ==
  ASSUME IndexOK, NEW f \in Formats, NEW v \in Int, NEW torn \in BOOLEAN,
         NEW found \in Answers(f, v, torn), found # {}
  PROVE  Of(found) \in associations /\ Of(found) \in Entry /\ Of(found)[f] <= v
<1>1. NodesOK(Tree(f), f) /\ associations \subseteq Entry
  BY DEF IndexOK, Formats, Tree
<1>2. Of(found) \in found
  BY DEF Of
<1>3. \A w \in DOMAIN Tree(f) : w \in Int
  <2>1. \A e \in Entry : e[f] \in Int
    BY DEF Entry, Formats
  <2>. QED
    BY <1>1, <2>1 DEF NodesOK, Node
<1>4. \E w \in DOMAIN Tree(f) :
        w <= v /\ found \subseteq {Tree(f)[w].key, Tree(f)[w].value}
  <2>1. CASE found = Search(Tree(f), "before", v)
    <3>1. Visited(Tree(f), v) \subseteq DOMAIN Tree(f)
      BY DEF Visited
    <3>2. CASE v \in Visited(Tree(f), v)
      BY <1>3, <2>1, <3>1, <3>2 DEF Search
    <3>3. CASE v \notin Visited(Tree(f), v)
      <4>1. found = {Tree(f)[w].key : w \in Lower(Visited(Tree(f), v), v)}
        BY <2>1, <3>3 DEF Search
      <4>2. PICK w \in Lower(Visited(Tree(f), v), v) : TRUE
        BY <4>1
      <4>3. \A u \in Lower(Visited(Tree(f), v), v) :
              u \in DOMAIN Tree(f) /\ u < v /\ u = w
        BY <1>3, <3>1, <4>2 DEF Lower
      <4>. QED
        BY <1>3, <4>1, <4>2, <4>3
    <3>. QED
      BY <3>2, <3>3
  <2>2. CASE found # Search(Tree(f), "before", v)
    BY <1>3, <2>2 DEF Answers
  <2>. QED
    BY <2>1, <2>2
<1>. QED
  BY <1>1, <1>2, <1>4 DEF NodesOK

\* An index that grows by insertion keeps its nodes.
LEMMA NodesGrow ==
  ASSUME NEW tree, NEW f \in Formats, NodesOK(tree, f), NEW e \in associations,
         associations \subseteq Entry
  PROVE  NodesOK(IndexFormat(tree, f, e), f)
<1>. DEFINE new == IndexFormat(tree, f, e)
<1>1. DOMAIN new = DOMAIN tree \cup {e[f]}
  BY DEF IndexFormat
<1>2. ASSUME NEW v \in DOMAIN new
      PROVE  /\ new[v] \in Node
             /\ new[v].key[f] = v /\ new[v].value[f] = v
             /\ new[v].key \in associations /\ new[v].value \in associations
  <2>1. CASE v # e[f]
    BY <1>1, <2>1 DEF IndexFormat, NodesOK
  <2>2. CASE v = e[f]
    <3>1. new[v] = [key |-> IF v \in DOMAIN tree THEN tree[v].key ELSE e,
                    value |-> e]
      BY <1>1, <2>2 DEF IndexFormat
    <3>. QED
      BY <2>2, <3>1 DEF NodesOK, Node
  <2>. QED
    BY <2>1, <2>2
<1>. QED
  BY <1>2 DEF NodesOK

-----------------------------------------------------------------------------
(* The indexer looks at a buffer                                           *)

\* A buffer of upstream is a sequence of packets, and its PCRs move the clock.
LEMMA BufferPackets ==
  ASSUME clock \in Nat, NEW n \in Nat, NEW P \in SUBSET (1 .. n),
         NEW R \in SUBSET P, NEW j \in Int, clock + j >= 0
  PROVE  /\ BufferOf(n, P, R, j) \in Seq(Packet)
         /\ Len(BufferOf(n, P, R, j)) = n
         /\ clock + j + Cardinality(P) \in Nat
<1>1. \A T \in SUBSET (1 .. n) : Cardinality(T) \in Nat
  <2>1. IsFiniteSet(1 .. n)
    BY FS_Interval
  <2>2. \A T \in SUBSET (1 .. n) : IsFiniteSet(T)
    BY <2>1, FS_Subset
  <2>. QED
    BY <2>2, FS_CardinalityType
<1>2. \A i \in 1 .. n : Cardinality({k \in P : k <= i}) \in Nat
  BY <1>1
<1>3. \A i \in 1 .. n : BufferOf(n, P, R, j)[i] \in Packet
  BY <1>2 DEF BufferOf, Packet
<1>. QED
  BY <1>1, <1>3 DEF BufferOf

\* A buffer adds no entry, or the entry of one of its packets that is due.
LEMMA BufferEntry ==
  ASSUME IndexerOK, NEW buf \in Seq(Packet), TransformIp(buf)
  PROVE  \/ /\ Collected(buf) = {}
            /\ UNCHANGED <<base_time, last_time>>
         \/ \E i \in 1 .. Len(buf) :
              /\ Collected(buf) = {EntryAt(buf, i)}
              /\ buf[i].pcr \in Nat /\ buf[i].pcr # None
              /\ Due(TimeOf(buf[i]))
              /\ base_time' = BaseTime(buf[i])
              /\ last_time' = TimeOf(buf[i])
<1>1. CASE /\ Collected(buf) = {}
           /\ UNCHANGED <<base_time, last_time>>
  BY <1>1
<1>2. ASSUME NEW i \in Found(buf), pcr_pid,
             base_time' = BaseTime(buf[i]), last_time' = TimeOf(buf[i])
      PROVE  \E k \in 1 .. Len(buf) :
               /\ Collected(buf) = {EntryAt(buf, k)}
               /\ buf[k].pcr \in Nat /\ buf[k].pcr # None
               /\ Due(TimeOf(buf[k]))
               /\ base_time' = BaseTime(buf[k])
               /\ last_time' = TimeOf(buf[k])
  <2>1. Examined(buf) \subseteq 1 .. Len(buf)
    <3>1. Len(buf) \in Nat
      OBVIOUS
    <3>2. CASE Len(buf) = 1
      BY <3>2 DEF Examined
    <3>3. CASE Len(buf) # 1
      BY <3>1, <3>3 DEF Examined
    <3>. QED
      BY <3>2, <3>3
  <2>2. i \in 1 .. Len(buf) /\ Tells(buf[i]) /\ Due(TimeOf(buf[i]))
    BY <2>1 DEF Found
  <2>3. Found(buf) = {i}
    BY <2>1 DEF Found
  <2>4. Collected(buf) = {EntryAt(buf, i)}
    BY <1>2, <2>3 DEF Collected
  <2>5. buf[i] \in Packet
    BY <2>2
  <2>6. buf[i].pcr \in Nat /\ buf[i].pcr # None
    BY <2>2, <2>5 DEF Packet, Tells
  <2>. QED
    BY <1>2, <2>2, <2>4, <2>6
<1>. QED
  BY <1>1, <1>2 DEF TransformIp

\* The whole step: the buffer is counted, and its entry is in the list.
LEMMA CollectStep ==
  ASSUME IInv, ChainCollect
  PROVE  /\ chain = "idle" /\ data = <<>> /\ data' \in Seq(Packet)
         /\ current_offset' = current_offset + Len(data')
         /\ current_offset' \in 0 .. MaxPackets
         /\ clock' \in Nat /\ jumps' \in 0 .. MaxJumps
         /\ UNCHANGED <<env, settings, byTime, byBytes, cache, playing,
                        asking, told>>
         /\ \/ /\ entry' = {} /\ chain' = "push"
               /\ UNCHANGED <<associations, inserting, base_time, last_time>>
            \/ \E i \in 1 .. Len(data') :
                 /\ entry' = {EntryAt(data', i)}
                 /\ associations' = associations \cup {EntryAt(data', i)}
                 /\ inserting' = "time" /\ chain' = "index"
                 /\ data'[i].pcr \in Nat /\ data'[i].pcr # None
                 /\ Due(TimeOf(data'[i]))
                 /\ base_time' = BaseTime(data'[i])
                 /\ last_time' = TimeOf(data'[i])
<1>. USE DEF IInv, TypesOK
<1>1. PICK n \in 1 .. MaxSize, j \in Jumps \cup {-k : k \in Jumps} \cup {0} :
      \E P \in SUBSET (1 .. n) : \E R \in SUBSET P :
        /\ current_offset + n <= MaxPackets
        /\ j # 0 => jumps < MaxJumps
        /\ clock + j >= 0
        /\ data' = BufferOf(n, P, R, j)
        /\ clock' = clock + j + Cardinality(P)
        /\ jumps' = IF j # 0 THEN jumps + 1 ELSE jumps
  BY DEF ChainCollect
<1>2. n \in Nat /\ j \in Int
  BY BinAssumption
<1>3. data' \in Seq(Packet) /\ Len(data') = n /\ clock' \in Nat
  <2>1. PICK P \in SUBSET (1 .. n) : \E R \in SUBSET P :
          /\ clock + j >= 0
          /\ data' = BufferOf(n, P, R, j)
          /\ clock' = clock + j + Cardinality(P)
    BY <1>1
  <2>. QED
    BY <1>2, <2>1, BufferPackets DEF UpstreamOK
<1>4. /\ entry' = Collected(data')
      /\ TransformIp(data')
      /\ IF entry' = {} THEN chain' = "push" /\ UNCHANGED index
         ELSE chain' = "index" /\ \E e \in entry' : AddEntry(e)
      /\ UNCHANGED <<env, cache, playing, asking, told>>
      /\ chain = "idle" /\ data = <<>>
  BY DEF ChainCollect, UpstreamOK
<1>5. current_offset' = current_offset + Len(data') /\ UNCHANGED settings
  BY <1>4 DEF TransformIp
<1>6. current_offset' \in 0 .. MaxPackets
  BY <1>1, <1>2, <1>3, <1>5, BinAssumption DEF IndexerOK
<1>7. jumps' \in 0 .. MaxJumps
  BY <1>1, BinAssumption DEF UpstreamOK
<1>8. CASE Collected(data') = {} /\ UNCHANGED <<base_time, last_time>>
  BY <1>3, <1>4, <1>5, <1>6, <1>7, <1>8 DEF index
<1>9. ASSUME NEW i \in 1 .. Len(data'),
             Collected(data') = {EntryAt(data', i)},
             data'[i].pcr \in Nat, data'[i].pcr # None,
             Due(TimeOf(data'[i])),
             base_time' = BaseTime(data'[i]), last_time' = TimeOf(data'[i])
      PROVE  /\ UNCHANGED <<byTime, byBytes>>
             /\ entry' = {EntryAt(data', i)}
             /\ associations' = associations \cup {EntryAt(data', i)}
             /\ inserting' = "time" /\ chain' = "index"
  BY <1>4, <1>9 DEF AddEntry
<1>10. \/ Collected(data') = {} /\ UNCHANGED <<base_time, last_time>>
       \/ \E i \in 1 .. Len(data') :
            /\ Collected(data') = {EntryAt(data', i)}
            /\ data'[i].pcr \in Nat /\ data'[i].pcr # None
            /\ Due(TimeOf(data'[i]))
            /\ base_time' = BaseTime(data'[i])
            /\ last_time' = TimeOf(data'[i])
  BY <1>3, <1>4, BufferEntry
<1>. QED
  BY <1>3, <1>4, <1>5, <1>6, <1>7, <1>8, <1>9, <1>10

-----------------------------------------------------------------------------
(* Every step keeps the invariant                                          *)

\* Nothing is cached, indexed or asked for at first.
LEMMA InitInv == Init => IInv
<1>. SUFFICES ASSUME Init
              PROVE  IInv
  OBVIOUS
<1>. USE DEF Init, IndexInit, IndexerInit
<1>1. Slotted(0)
  BY BinAssumption DEF Slotted
<1>2. IndexOK
  BY DEF IndexOK, NodesOK, EmptyTree
<1>3. IndexerOK
  <2>1. 0 \in 0 .. MaxPackets /\ delta \in Deltas \cup {-1}
    BY BinAssumption
  <2>2. base_time = -1 /\ last_time = -1 /\ current_offset = 0
    BY DEF None
  <2>3. pcr_pid \in BOOLEAN /\ own_index = FALSE
    OBVIOUS
  <2>. HIDE DEF Init
  <2>. QED
    BY <2>1, <2>2, <2>3 DEF IndexerOK, None
<1>7. UpstreamOK
  BY BinAssumption DEF UpstreamOK
<1>8. InsertOK
  BY DEF InsertOK, Formats
<1>4. WindowOK
  BY <1>1, BinAssumption DEF WindowOK, Reader
<1>5. PlayOK
  <2>1. 0 \in 0 .. MaxPackets
    BY BinAssumption
  <2>2. segment = NoTime /\ stamp = NoTime /\ want = -1
    BY DEF NoOffset
  <2>3. /\ loop = "idle" /\ app = "idle"
        /\ target = 0 /\ goal = {} /\ len = 0
    OBVIOUS
  <2>4. need_newsegment \in BOOLEAN /\ timestamp_next_buffer \in BOOLEAN
    OBVIOUS
  <2>. HIDE DEF Init
  <2>. QED
    BY <2>1, <2>2, <2>3, <2>4 DEF PlayOK, NoOffset
<1>6. OrderOK /\ SpacingOK /\ AlignOK /\ GoalOK
  BY DEF OrderOK, SpacingOK, Spaced, AlignOK, GoalOK, None
<1>. QED
  BY <1>2, <1>3, <1>4, <1>5, <1>6, <1>7, <1>8 DEF IInv, TypesOK

\* The PMT sets the PCR pid, and nothing else.
LEMMA PmtInv == IInv /\ Pmt => IInv'
<1>. SUFFICES ASSUME IInv, Pmt
              PROVE  IInv'
  OBVIOUS
<1>. USE DEF IInv, TypesOK, Pmt, SetPcrPid, index, upstream, cache, playing,
             asking, told, progress
<1>1. IndexOK' /\ IndexerOK' /\ UpstreamOK' /\ InsertOK' /\ PlayOK'
  BY DEF IndexOK, NodesOK, IndexerOK, UpstreamOK, InsertOK, PlayOK
<1>2. WindowOK'
  BY DEF WindowOK, Reader
<1>3. OrderOK' /\ SpacingOK' /\ GoalOK'
  BY DEF OrderOK, SpacingOK, Spaced, GoalOK, Reader
<1>4. AlignOK'
  BY DEF AlignOK, Undisturbed, Stream
<1>. QED
  BY <1>1, <1>2, <1>3, <1>4

\* The new entry comes after all others, in bytes and, but for delta -1, in
\* time.
LEMMA ChainCollectInv == IInv /\ ChainCollect => IInv'
<1>. SUFFICES ASSUME IInv, ChainCollect
              PROVE  IInv'
  OBVIOUS
<1>1. /\ chain = "idle" /\ data = <<>> /\ data' \in Seq(Packet)
      /\ current_offset' = current_offset + Len(data')
      /\ current_offset' \in 0 .. MaxPackets
      /\ clock' \in Nat /\ jumps' \in 0 .. MaxJumps
      /\ UNCHANGED <<env, settings, byTime, byBytes, cache, playing,
                     asking, told>>
  BY CollectStep
<1>2. /\ pcr_pid' = pcr_pid /\ delta' = delta /\ own_index' = own_index
      /\ UNCHANGED <<content, oldest, next, loop, buffer, need_newsegment,
                     timestamp_next_buffer, app, target, len, want, goal,
                     segment, stamp>>
  BY <1>1 DEF settings, cache, playing, asking, told
<1>3. WindowOK' /\ PlayOK'
  BY <1>2 DEF IInv, TypesOK, WindowOK, PlayOK, Reader
<1>4. Len(data') \in Nat /\ current_offset \in Nat
  BY <1>1 DEF IInv, TypesOK, IndexerOK
<1>5. CASE /\ entry' = {} /\ chain' = "push"
           /\ UNCHANGED <<associations, inserting, base_time, last_time>>
  <2>1. IndexOK'
    BY <1>1, <1>5 DEF IInv, TypesOK, IndexOK, NodesOK
  <2>2. IndexerOK'
    BY <1>1, <1>2, <1>5 DEF IInv, TypesOK, IndexerOK
  <2>3. UpstreamOK' /\ InsertOK'
    BY <1>1, <1>2, <1>4, <1>5 DEF IInv, TypesOK, UpstreamOK, InsertOK
  <2>4. OrderOK'
    BY <1>1, <1>4, <1>5 DEF IInv, OrderOK
  <2>5. SpacingOK'
    BY <1>2, <1>5 DEF IInv, SpacingOK, Spaced
  <2>6. GoalOK'
    BY <1>2, <1>5 DEF IInv, GoalOK, Reader
  <2>7. AlignOK'
    <3>. SUFFICES ASSUME Undisturbed
                  PROVE  AlignOK'
      BY <1>1 DEF AlignOK, Undisturbed
    <3>1. current_offset' = Len(content') + Len(data')
      BY <1>1, <1>2 DEF IInv, AlignOK
    <3>2. ASSUME NEW e \in associations
          PROVE  Stream'[e.bytes + 1] = Stream[e.bytes + 1]
      <4>1. e.bytes + 1 \in 1 .. Len(content) /\ content \in Seq(Packet)
        BY <1>1, <1>4 DEF IInv, TypesOK, UpstreamOK, AlignOK, OrderOK
      <4>. QED
        BY <1>1, <1>2, <4>1 DEF Stream
    <3>. QED
      BY <1>5, <3>1, <3>2 DEF IInv, AlignOK
  <2>. QED
    BY <1>3, <2>1, <2>2, <2>3, <2>4, <2>5, <2>6, <2>7 DEF IInv, TypesOK
<1>6. ASSUME NEW i \in 1 .. Len(data'),
             entry' = {EntryAt(data', i)},
             associations' = associations \cup {EntryAt(data', i)},
             inserting' = "time", chain' = "index",
             data'[i].pcr \in Nat, data'[i].pcr # None,
             Due(TimeOf(data'[i])),
             base_time' = BaseTime(data'[i]),
             last_time' = TimeOf(data'[i])
      PROVE  IInv'
  <2>. DEFINE new == EntryAt(data', i)
  <2>1. /\ base_time' \in Nat
        /\ base_time # None => base_time' = base_time
        /\ TimeOf(data'[i]) = MPEGTIME_TO_GSTTIME(data'[i].pcr) - base_time'
        /\ TimeOf(data'[i]) \in Int
        /\ base_time = None => TimeOf(data'[i]) = 0
    BY <1>6 DEF BaseTime, TimeOf, MPEGTIME_TO_GSTTIME, Tick,
                IInv, TypesOK, IndexerOK
  <2>2. /\ new \in Entry /\ new.time = last_time'
        /\ new.bytes = current_offset + (i - 1)
        /\ new.bytes \in current_offset .. current_offset' - 1
    BY <1>1, <1>4, <1>6, <2>1 DEF EntryAt, Entry
  <2>3. IndexOK'
    <3>1. associations' \subseteq Entry
      BY <1>6, <2>2 DEF IInv, TypesOK, IndexOK
    <3>2. NodesOK(byTime, "time")' /\ NodesOK(byBytes, "bytes")'
      BY <1>1, <1>6 DEF IInv, TypesOK, IndexOK, NodesOK
    <3>. QED
      BY <3>1, <3>2 DEF IndexOK
  <2>4. IndexerOK'
    BY <1>1, <1>2, <1>6, <2>1 DEF IInv, TypesOK, IndexerOK
  <2>5. UpstreamOK' /\ InsertOK'
    BY <1>1, <1>2, <1>4, <1>6
    DEF IInv, TypesOK, UpstreamOK, InsertOK, Formats
  <2>6. OrderOK'
    <3>1. \A e \in associations :
            e.bytes \in 0 .. current_offset' - 1 /\ e.bytes < new.bytes
      BY <1>1, <1>4, <2>2 DEF IInv, OrderOK
    <3>. QED
      BY <1>4, <1>6, <2>1, <2>2, <3>1 DEF IInv, OrderOK, None
  <2>7. SpacingOK'
    <3>. SUFFICES ASSUME delta # -1
                  PROVE  SpacingOK'
      BY <1>2 DEF SpacingOK
    <3>1. delta \in Nat
      BY BinAssumption DEF IInv, TypesOK, IndexerOK
    <3>2. last_time' \in Nat
          /\ \A e \in associations :
               e.time \in Nat /\ e.time + delta <= last_time'
      <4>1. CASE base_time = None
        BY <1>6, <2>1, <4>1 DEF IInv, OrderOK
      <4>2. CASE base_time # None
        <5>1. last_time \in Nat /\ last_time # None
          BY <4>2 DEF IInv, SpacingOK, None
        <5>2. last_time' - last_time >= delta
          BY <1>6, <5>1 DEF Due
        <5>. QED
          BY <1>6, <2>1, <3>1, <5>1, <5>2 DEF IInv, SpacingOK
      <4>. QED
        BY <4>1, <4>2
    <3>3. \A e \in associations' : e.time \in 0 .. last_time'
      BY <1>6, <2>2, <3>1, <3>2
    <3>4. Spaced'
      <4>1. ASSUME NEW e \in associations', NEW o \in associations',
                   e.bytes < o.bytes
            PROVE  e.time >= 0 /\ e.time + delta <= o.time
        <5>1. \A a \in associations :
                a.bytes \in Nat /\ a.bytes < current_offset
          BY <1>4 DEF IInv, OrderOK
        <5>2. CASE e = new
          BY <1>4, <1>6, <2>2, <4>1, <5>1, <5>2
        <5>3. CASE e # new /\ o = new
          BY <1>6, <2>2, <3>2, <5>3
        <5>4. CASE e # new /\ o # new
          BY <1>6, <4>1, <5>4 DEF IInv, SpacingOK, Spaced
        <5>. QED
          BY <5>2, <5>3, <5>4
      <4>. QED
        BY <1>2, <4>1 DEF Spaced
    <3>. QED
      BY <2>1, <3>2, <3>3, <3>4 DEF SpacingOK, None
  <2>8. GoalOK'
    BY <1>2, <1>6 DEF IInv, GoalOK, Reader
  <2>9. AlignOK'
    <3>. SUFFICES ASSUME Undisturbed
                  PROVE  AlignOK'
      BY <1>1 DEF AlignOK, Undisturbed
    <3>1. /\ current_offset = Len(content)
          /\ current_offset' = Len(content') + Len(data')
      BY <1>1, <1>2, <1>4 DEF IInv, AlignOK
    <3>2. content \in Seq(Packet) /\ Stream' = content \o data'
      BY <1>2 DEF IInv, TypesOK, UpstreamOK, Stream
    <3>3. ASSUME NEW e \in associations
          PROVE  /\ Stream'[e.bytes + 1].pcr # None
                 /\ MPEGTIME_TO_GSTTIME(Stream'[e.bytes + 1].pcr) - base_time'
                      = e.time
      <4>1. e.bytes + 1 \in 1 .. Len(content)
        BY <1>4, <3>1 DEF IInv, OrderOK
      <4>2. Stream'[e.bytes + 1] = Stream[e.bytes + 1]
        BY <1>1, <3>2, <4>1 DEF Stream
      <4>3. base_time' = base_time
        BY <2>1 DEF IInv, OrderOK
      <4>. QED
        BY <4>2, <4>3 DEF IInv, AlignOK
    <3>4. Stream'[new.bytes + 1] = data'[i]
      BY <1>1, <2>2, <3>1, <3>2
    <3>. QED
      BY <1>6, <2>1, <2>2, <3>1, <3>3, <3>4 DEF AlignOK
  <2>. QED
    BY <1>3, <2>3, <2>4, <2>5, <2>6, <2>7, <2>8, <2>9 DEF IInv, TypesOK
<1>. QED
  BY <1>5, <1>6, CollectStep

\* An insertion moves no entry, and nothing else.
LEMMA ChainAddInv == IInv /\ (ChainAddTime \/ ChainAddBytes) => IInv'
<1>. SUFFICES ASSUME IInv, ChainAddTime \/ ChainAddBytes
              PROVE  IInv'
  OBVIOUS
<1>1. /\ chain = "index"
      /\ UNCHANGED <<env, indexer, clock, jumps, data, entry, cache, playing,
                     asking, told, associations>>
  BY DEF ChainAddTime, ChainAddBytes, AddTime, AddBytes, upstream
<1>2. /\ UNCHANGED <<pcr_pid, delta, own_index, base_time, last_time,
                     current_offset>>
      /\ UNCHANGED <<content, oldest, next, loop, buffer, need_newsegment,
                     timestamp_next_buffer, app, target, len, want, goal,
                     segment, stamp>>
  BY <1>1 DEF indexer, settings, progress, cache, playing, asking, told
<1>3. IndexOK' /\ InsertOK' /\ chain' \in {"index", "push"}
  <2>1. CASE ChainAddTime
    <3>1. PICK e \in entry : AddTime(e)
      BY <2>1 DEF ChainAddTime
    <3>2. NodesOK(IndexFormat(byTime, "time", e), "time")
      BY <3>1, NodesGrow DEF IInv, TypesOK, IndexOK, InsertOK, Formats
    <3>3. NodesOK(byTime, "time")'
      BY <1>1, <3>1, <3>2 DEF AddTime, NodesOK
    <3>4. NodesOK(byBytes, "bytes")'
      BY <1>1, <3>1 DEF IInv, TypesOK, IndexOK, AddTime, NodesOK
    <3>. QED
      BY <1>1, <2>1, <3>1, <3>3, <3>4
      DEF IInv, TypesOK, IndexOK, InsertOK, Formats, AddTime, ChainAddTime,
          upstream
  <2>2. CASE ChainAddBytes
    <3>1. PICK e \in entry : AddBytes(e)
      BY <2>2 DEF ChainAddBytes
    <3>2. NodesOK(IndexFormat(byBytes, "bytes", e), "bytes")
      BY <3>1, NodesGrow DEF IInv, TypesOK, IndexOK, InsertOK, Formats
    <3>3. NodesOK(byBytes, "bytes")'
      BY <1>1, <3>1, <3>2 DEF AddBytes, NodesOK
    <3>4. NodesOK(byTime, "time")'
      BY <1>1, <3>1 DEF IInv, TypesOK, IndexOK, AddBytes, NodesOK
    <3>. QED
      BY <1>1, <2>2, <3>1, <3>3, <3>4
      DEF IInv, TypesOK, IndexOK, InsertOK, Formats, AddBytes, ChainAddBytes
  <2>. QED
    BY <2>1, <2>2
<1>4. IndexerOK' /\ PlayOK'
  BY <1>2 DEF IInv, TypesOK, IndexerOK, PlayOK
<1>5. UpstreamOK' /\ WindowOK'
  BY <1>1, <1>2, <1>3 DEF IInv, TypesOK, UpstreamOK, WindowOK, Reader
<1>6. OrderOK' /\ SpacingOK' /\ GoalOK'
  BY <1>1, <1>2 DEF IInv, OrderOK, SpacingOK, Spaced, GoalOK, Reader
<1>7. AlignOK'
  BY <1>1, <1>2 DEF IInv, AlignOK, Undisturbed, Stream
<1>. QED
  BY <1>3, <1>4, <1>5, <1>6, <1>7 DEF IInv, TypesOK

\* The cache takes what there is room for. The window then begins with a slot
\* that the reader is not past, and is not longer than the ring.
LEMMA PushWindow ==
  ASSUME IInv, ChainPush
  PROVE  /\ Room \in Nat
         /\ content' \in Seq(Packet)
         /\ Len(content') = Len(content) + Least(Len(data), Room)
         /\ Slotted(oldest') /\ oldest' <= Reader
         /\ Len(content') <= oldest' + NSlots * SlotSize
<1>. DEFINE S == SlotSize
            ring == NSlots * SlotSize
            k == Least(Len(data), Room)
            n == Len(content')
            slots == (n + S - 1) \div S
<1>1. S \in Nat \ {0} /\ NSlots \in Nat /\ ring \in Nat
  BY BinAssumption
<1>2. /\ Slotted(Reader) /\ Reader \in Nat /\ oldest \in Nat
      /\ Slotted(oldest) /\ oldest <= Reader
      /\ Len(content) <= oldest + ring
  BY SlottedNat DEF IInv, TypesOK, WindowOK, Reader
<1>3. /\ content \in Seq(Packet) /\ data \in Seq(Packet)
      /\ Len(content) \in Nat /\ Len(data) \in Nat
  BY DEF IInv, TypesOK, UpstreamOK
<1>4. Room = Reader + ring - Len(content) /\ Room \in Nat
  BY <1>1, <1>2, <1>3 DEF Room
<1>5. k \in 0 .. Len(data) /\ k <= Room
  BY <1>3, <1>4 DEF Least
<1>6. /\ SubSeq(data, 1, k) \in Seq(Packet)
      /\ Len(SubSeq(data, 1, k)) = k
  BY <1>3, <1>5
<1>7. /\ content' \in Seq(Packet) /\ n = Len(content) + k
      /\ n \in Nat /\ n <= Reader + ring
  <2>1. content' = content \o SubSeq(data, 1, k)
    BY DEF ChainPush
  <2>2. content' \in Seq(Packet) /\ n = Len(content) + k
    BY <1>3, <1>6, <2>1
  <2>. HIDE DEF n, k
  <2>. QED
    BY <1>1, <1>2, <1>3, <1>4, <1>5, <2>2
<1>8. /\ slots \in Nat /\ slots * S \in Nat
      /\ n <= slots * S /\ slots * S < n + S
  <2>. HIDE DEF n
  <2>1. n + S - 1 \in Nat
    BY <1>1, <1>7
  <2>2. /\ slots \in Nat /\ slots * S \in Nat
        /\ slots * S <= n + S - 1 /\ n + S - 1 < slots * S + S
    BY <1>1, <2>1, Quotient
  <2>. HIDE DEF slots
  <2>. DEFINE filled == slots * S
  <2>3. filled \in Nat /\ filled <= n + S - 1 /\ n + S - 1 < filled + S
    BY <2>2
  <2>4. n <= filled /\ filled < n + S
    <3>. HIDE DEF filled
    <3>. QED
      BY <1>1, <1>7, <2>3
  <2>. QED
    BY <2>2, <2>4
<1>9. (slots - NSlots) * S \in Int /\ (slots - NSlots) * S = slots * S - ring
  BY <1>1, <1>8
<1>10. oldest' = Most(oldest, (slots - NSlots) * S)
  BY DEF ChainPush
<1>11. (slots - NSlots) * S <= Reader
  <2>1. PICK r \in Nat : Reader = r * S
    BY <1>2 DEF Slotted
  <2>2. (r + NSlots) * S = r * S + ring
    BY <1>1
  <2>3. slots * S < (r + NSlots) * S + S
    BY <1>1, <1>2, <1>7, <1>8, <2>1, <2>2
  <2>4. slots * S <= (r + NSlots) * S
    BY <1>1, <1>8, <2>3, Multiples
  <2>. QED
    BY <1>1, <1>8, <1>9, <2>1, <2>2, <2>4
<1>12. Slotted(oldest')
  <2>1. CASE oldest >= (slots - NSlots) * S
    BY <1>2, <1>10, <2>1 DEF Most
  <2>2. CASE ~ (oldest >= (slots - NSlots) * S)
    <3>1. 0 * S < (slots - NSlots) * S + S
      BY <1>1, <1>2, <1>9, <2>2
    <3>2. slots - NSlots \in Nat
      BY <1>1, <1>8, <3>1, Multiples
    <3>. QED
      BY <1>10, <2>2, <3>2 DEF Most, Slotted
  <2>. QED
    BY <2>1, <2>2
<1>13. oldest' <= Reader /\ n <= oldest' + ring
  <2>. DEFINE low == (slots - NSlots) * S
  <2>1. low \in Int /\ n <= low + ring /\ low <= Reader
    BY <1>1, <1>7, <1>8, <1>9, <1>11
  <2>2. oldest' = Most(oldest, low)
    BY <1>10
  <2>. HIDE DEF low, n, ring
  <2>. QED
    BY <1>1, <1>2, <1>7, <2>1, <2>2 DEF Most
<1>. QED
  BY <1>4, <1>7, <1>12, <1>13

\* A push appends the buffer; the reader stays in the window.
LEMMA ChainPushInv == IInv /\ ChainPush => IInv'
<1>. SUFFICES ASSUME IInv, ChainPush
              PROVE  IInv'
  OBVIOUS
<1>1. /\ chain = "push" /\ chain' = "idle" /\ data' = <<>> /\ entry' = {}
      /\ content' = content \o SubSeq(data, 1, Least(Len(data), Room))
      /\ UNCHANGED <<env, index, indexer, clock, jumps, next, playing, asking,
                     told>>
  BY DEF ChainPush
<1>2. /\ UNCHANGED <<associations, byTime, byBytes, inserting>>
      /\ UNCHANGED <<pcr_pid, delta, own_index, base_time, last_time,
                     current_offset>>
      /\ UNCHANGED <<next, loop, buffer, need_newsegment,
                     timestamp_next_buffer, app, target, len, want, goal,
                     segment, stamp>>
  BY <1>1 DEF index, indexer, settings, progress, cache, playing, asking, told
<1>3. /\ Room \in Nat /\ content' \in Seq(Packet)
      /\ Len(content') = Len(content) + Least(Len(data), Room)
      /\ Slotted(oldest') /\ oldest' <= Reader
      /\ Len(content') <= oldest' + NSlots * SlotSize
  BY PushWindow
<1>4. /\ content \in Seq(Packet) /\ data \in Seq(Packet)
      /\ current_offset \in Nat /\ Len(data) \in Nat /\ Len(content) \in Nat
  BY DEF IInv, TypesOK, UpstreamOK, IndexerOK
<1>5. Least(Len(data), Room) \in 0 .. Len(data)
  BY <1>3, <1>4 DEF Least
<1>6. IndexOK' /\ IndexerOK' /\ InsertOK' /\ PlayOK'
  BY <1>1, <1>2 DEF IInv, TypesOK, IndexOK, NodesOK, IndexerOK, InsertOK, PlayOK
<1>7. UpstreamOK'
  BY <1>1, <1>2, <1>3, <1>4, <1>5 DEF IInv, TypesOK, UpstreamOK
<1>8. WindowOK'
  <2>1. Reader' = Reader /\ next \in Nat
    BY <1>2, SlottedNat DEF Reader, IInv, TypesOK, WindowOK
  <2>. QED
    BY <1>2, <1>3, <1>4, <1>5, <2>1 DEF IInv, TypesOK, WindowOK
<1>9. OrderOK' /\ SpacingOK' /\ GoalOK'
  BY <1>2 DEF IInv, OrderOK, SpacingOK, Spaced, GoalOK, Reader
<1>10. AlignOK'
  <2>. SUFFICES ASSUME Undisturbed
                PROVE  AlignOK'
    BY <1>1 DEF AlignOK, Undisturbed
  <2>1. Least(Len(data), Room) = Len(data)
    BY <1>3, <1>4 DEF ChainPush, Undisturbed, Least
  <2>2. SubSeq(data, 1, Len(data)) = data
    BY <1>4, SubSeqFull
  <2>3. content' = Stream
    BY <1>1, <2>1, <2>2 DEF Stream
  <2>4. Stream' = Stream
    BY <1>1, <1>3, <2>3 DEF Stream
  <2>5. current_offset' = Len(content') + Len(data')
    BY <1>1, <1>2, <1>3, <1>4, <2>1 DEF IInv, AlignOK
  <2>. QED
    BY <1>2, <2>4, <2>5 DEF IInv, AlignOK
<1>. QED
  BY <1>6, <1>7, <1>8, <1>9, <1>10 DEF IInv, TypesOK

\* The loop and the application change nothing that upstream has made.
LEMMA Untouched ==
  ASSUME IInv, UNCHANGED <<env, index, indexer, upstream, content>>
  PROVE  /\ IndexOK' /\ IndexerOK' /\ UpstreamOK' /\ InsertOK'
         /\ OrderOK' /\ SpacingOK' /\ AlignOK'
<1>1. /\ UNCHANGED <<associations, byTime, byBytes, inserting>>
      /\ UNCHANGED <<pcr_pid, delta, own_index, base_time, last_time,
                     current_offset>>
      /\ UNCHANGED <<env, clock, jumps, chain, data, entry, content>>
  BY DEF index, indexer, settings, progress, upstream
<1>2. IndexOK' /\ IndexerOK' /\ UpstreamOK' /\ InsertOK'
  BY <1>1 DEF IInv, TypesOK, IndexOK, NodesOK, IndexerOK, UpstreamOK, InsertOK
<1>3. OrderOK' /\ SpacingOK'
  BY <1>1 DEF IInv, OrderOK, SpacingOK, Spaced
<1>4. AlignOK'
  BY <1>1 DEF IInv, AlignOK, Undisturbed, Stream
<1>. QED
  BY <1>2, <1>3, <1>4

\* A pop takes the slot at the reader, which then is the loop's buffer.
LEMMA LoopPopInv == IInv /\ LoopPop => IInv'
<1>. SUFFICES ASSUME IInv, LoopPop
              PROVE  IInv'
  OBVIOUS
<1>1. /\ loop = "idle" /\ next + SlotSize <= Len(content)
      /\ buffer' = next /\ next' = next + SlotSize
      /\ loop' = IF need_newsegment THEN "segment" ELSE "push"
      /\ stamp' = NoTime
      /\ UNCHANGED <<content, oldest, need_newsegment, timestamp_next_buffer,
                     app, target, len, want, goal, segment, associations,
                     delta>>
  BY DEF LoopPop, asking, index, indexer, settings
<1>2. /\ IndexOK' /\ IndexerOK' /\ UpstreamOK' /\ InsertOK'
      /\ OrderOK' /\ SpacingOK' /\ AlignOK'
  BY Untouched DEF LoopPop
<1>3. Reader' = Reader
  BY <1>1 DEF Reader
<1>4. WindowOK'
  BY <1>1, <1>3, SlottedNext DEF IInv, TypesOK, WindowOK, Slotted
<1>5. PlayOK'
  BY <1>1 DEF IInv, TypesOK, PlayOK
<1>6. GoalOK'
  BY <1>1, <1>3 DEF IInv, GoalOK
<1>. QED
  BY <1>2, <1>4, <1>5, <1>6 DEF IInv, TypesOK

\* What BytesToStreamTime and its like return.
LEMMA TimeFound ==
  ASSUME IInv, NEW v \in Int, NEW found \in Before("bytes", v)
  PROVE  /\ BytesToStreamTime(found, v) \in Int \cup {NoTime}
         /\ LastTime(found) \in Int \cup {NoTime}
         /\ found # {} =>
              /\ Of(found) \in associations /\ Of(found).bytes <= v
              /\ BytesToStreamTime(found, v) = Of(found).time
<1>1. CASE found = {}
  BY <1>1 DEF BytesToStreamTime, LastTime
<1>2. CASE found # {}
  <2>1. Of(found) \in associations /\ Of(found) \in Entry /\ Of(found).bytes <= v
    <3>1. ("race" \in env) \in BOOLEAN
      OBVIOUS
    <3>2. found \in Answers("bytes", v, "race" \in env) /\ IndexOK
      BY DEF Before, IInv, TypesOK
    <3>. QED
      BY <1>2, <3>1, <3>2, LookupBelow DEF Formats
  <2>. QED
    BY <1>2, <2>1 DEF BytesToStreamTime, LastTime, Entry
<1>. QED
  BY <1>1, <1>2

\* The SEGMENT after a seek is looked up at or before the offset that the seek
\* has found: its time is not later, since times grow with offsets.
LEMMA LoopSegmentInv == IInv /\ LoopSegment => IInv'
<1>. SUFFICES ASSUME IInv, LoopSegment
              PROVE  IInv'
  OBVIOUS
<1>1. /\ loop = "segment" /\ loop' = "push"
      /\ timestamp_next_buffer' = TRUE /\ need_newsegment' = FALSE
      /\ UNCHANGED <<content, oldest, next, buffer, stamp, app, target, len,
                     want, goal, associations, delta>>
  BY DEF LoopSegment, cache, asking, index, indexer, settings
<1>2. /\ IndexOK' /\ IndexerOK' /\ UpstreamOK' /\ InsertOK'
      /\ OrderOK' /\ SpacingOK' /\ AlignOK'
  BY Untouched DEF LoopSegment, cache
<1>3. WindowOK'
  BY <1>1 DEF IInv, TypesOK, WindowOK, Reader, Slotted
<1>4. buffer \in Nat
  BY SlottedNat DEF IInv, TypesOK, WindowOK
<1>5. PICK found \in Before("bytes", buffer) :
        segment' = BytesToStreamTime(found, buffer)
  BY DEF LoopSegment
<1>6. /\ segment' \in Int \cup {NoTime}
      /\ found # {} => /\ Of(found) \in associations
                       /\ Of(found).bytes <= buffer
                       /\ segment' = Of(found).time
  BY <1>4, <1>5, TimeFound
<1>7. PlayOK'
  BY <1>1, <1>6 DEF IInv, TypesOK, PlayOK
<1>8. ASSUME delta # -1, NEW t \in goal, need_newsegment
      PROVE  segment' = NoTime \/ segment' <= t
  <2>1. PICK e \in associations : buffer <= e.bytes /\ e.time <= t
    BY <1>1, <1>8 DEF IInv, GoalOK, Reader
  <2>2. t \in Int /\ e.time \in Nat /\ e.bytes \in Nat /\ e \in Entry
    BY <1>8 DEF IInv, TypesOK, PlayOK, SpacingOK, OrderOK, IndexOK
  <2>3. CASE found = {}
    BY <1>5, <2>1, <2>2, <2>3 DEF BytesToStreamTime
  <2>4. CASE found # {}
    <3>. DEFINE o == Of(found)
    <3>1. o \in associations /\ o.bytes <= buffer /\ segment' = o.time
      BY <1>6, <2>4
    <3>2. o.bytes \in Nat /\ o.time \in Nat
      BY <1>8, <3>1 DEF IInv, SpacingOK, OrderOK
    <3>3. delta \in Nat
      BY <1>8, BinAssumption DEF IInv, TypesOK, IndexerOK
    <3>4. CASE o.bytes = e.bytes
      BY <2>1, <2>2, <3>1, <3>2, <3>4 DEF IInv, OrderOK
    <3>5. CASE o.bytes # e.bytes
      <4>1. o.bytes < e.bytes
        BY <1>4, <2>1, <2>2, <3>1, <3>2, <3>5
      <4>2. o.time + delta <= e.time
        BY <1>8, <2>1, <3>1, <4>1 DEF IInv, SpacingOK, Spaced
      <4>. QED
        BY <2>1, <2>2, <3>1, <3>2, <3>3, <4>2
    <3>. QED
      BY <3>4, <3>5
  <2>. QED
    BY <2>3, <2>4
<1>9. need_newsegment
  BY <1>1 DEF IInv, TypesOK, PlayOK
<1>10. GoalOK'
  BY <1>1, <1>8, <1>9 DEF IInv, GoalOK
<1>. QED
  BY <1>2, <1>3, <1>7, <1>10 DEF IInv, TypesOK

\* A push downstream ends the loop's turn and the seek that the SEGMENT met.
LEMMA LoopPushInv == IInv /\ LoopPush => IInv'
<1>. SUFFICES ASSUME IInv, LoopPush
              PROVE  IInv'
  OBVIOUS
<1>1. /\ loop = "push" /\ loop' = "idle" /\ buffer' = 0
      /\ segment' = NoTime /\ goal' = {} /\ timestamp_next_buffer' = FALSE
      /\ UNCHANGED <<content, oldest, next, need_newsegment, app, target, len,
                     want, associations, delta>>
  BY DEF LoopPush, cache, index, indexer, settings
<1>2. /\ IndexOK' /\ IndexerOK' /\ UpstreamOK' /\ InsertOK'
      /\ OrderOK' /\ SpacingOK' /\ AlignOK'
  BY Untouched DEF LoopPush, cache
<1>3. WindowOK'
  <2>1. Slotted(0)
    BY BinAssumption DEF Slotted
  <2>2. oldest <= next
    BY <1>1, SlottedNat, BinAssumption DEF IInv, TypesOK, WindowOK, Reader
  <2>. QED
    BY <1>1, <2>1, <2>2 DEF IInv, TypesOK, WindowOK, Reader, Slotted
<1>4. stamp' \in Int \cup {NoTime}
  <2>1. buffer \in Nat /\ stamp \in Int \cup {NoTime}
    BY SlottedNat DEF IInv, TypesOK, WindowOK, PlayOK
  <2>. QED
    BY <2>1, TimeFound DEF LoopPush
<1>5. PlayOK'
  <2>1. timestamp_next_buffer' \in BOOLEAN
    BY <1>1
  <2>2. /\ loop' = "idle" /\ segment' = NoTime /\ goal' = {}
        /\ need_newsegment' = need_newsegment
    BY <1>1
  <2>3. UNCHANGED <<app, target, len, want>>
    BY <1>1
  <2>. QED
    BY <1>4, <2>1, <2>2, <2>3 DEF IInv, TypesOK, PlayOK
<1>6. GoalOK'
  BY <1>1 DEF IInv, GoalOK
<1>. QED
  BY <1>2, <1>3, <1>5, <1>6 DEF IInv, TypesOK

\* Before an offset has been found, the application's steps touch its own
\* variables only.
LEMMA AskInv ==
  IInv /\ (SeekSet \/ SeekEnd \/ SeekEndFound \/ AskDuration \/ TellDuration
             \/ HearDuration)
    => IInv'
<1>. SUFFICES ASSUME IInv, SeekSet \/ SeekEnd \/ SeekEndFound \/ AskDuration
                             \/ TellDuration \/ HearDuration
              PROVE  IInv'
  OBVIOUS
<1>. DEFINE Lasting == <<content, oldest, next, loop, buffer, need_newsegment,
                         timestamp_next_buffer, want, goal, segment, stamp,
                         associations, delta>>
<1>1. UNCHANGED <<env, index, indexer, upstream, cache, playing, want, goal,
                  told>>
  BY DEF SeekSet, SeekEnd, SeekEndFound, AskDuration, TellDuration,
         HearDuration
<1>2. UNCHANGED Lasting
  BY <1>1 DEF index, indexer, settings, cache, playing, told
<1>3. /\ IndexOK' /\ IndexerOK' /\ UpstreamOK' /\ InsertOK'
      /\ OrderOK' /\ SpacingOK' /\ AlignOK'
  BY <1>1, Untouched DEF cache
<1>4. WindowOK'
  BY <1>2 DEF IInv, TypesOK, WindowOK, Reader, Slotted
<1>5. /\ Len(content) \in 0 .. MaxPackets /\ len \in 0 .. MaxPackets
      /\ app # "told" => target \in Int
      /\ 0 \in 0 .. MaxPackets
  BY BinAssumption DEF IInv, TypesOK, UpstreamOK, IndexerOK, PlayOK
<1>6. LastOffset(len) \in Int
  BY <1>5, BinAssumption DEF LastOffset
<1>7. \A found \in Before("bytes", LastOffset(len)) :
        LastTime(found) \in Int \cup {NoTime}
  BY <1>6, TimeFound
<1>8. /\ app' \in {"find", "end", "duration", "told", "idle"}
      /\ target' \in Int \cup {NoTime}
      /\ app' # "told" => target' \in Int
      /\ len' \in 0 .. MaxPackets
  <2>1. CASE SeekSet
    BY <1>5, <2>1, BinAssumption DEF SeekSet
  <2>2. CASE SeekEnd
    BY <1>5, <2>2, BinAssumption DEF SeekEnd
  <2>3. CASE SeekEndFound
    BY <1>5, <1>7, <2>3 DEF SeekEndFound, FromEnd
  <2>4. CASE AskDuration
    BY <1>5, <2>4 DEF AskDuration
  <2>5. CASE TellDuration
    BY <1>5, <1>7, <2>5 DEF TellDuration
  <2>6. CASE HearDuration
    BY <1>5, <2>6 DEF HearDuration
  <2>. QED
    BY <2>1, <2>2, <2>3, <2>4, <2>5, <2>6
<1>9. PlayOK'
  BY <1>2, <1>8 DEF IInv, TypesOK, PlayOK
<1>10. GoalOK'
  BY <1>2, <1>8 DEF IInv, GoalOK, Reader
<1>. QED
  BY <1>3, <1>4, <1>9, <1>10 DEF IInv, TypesOK

\* The offset found is that of an entry which is not after the target.
LEMMA SeekFindInv == IInv /\ SeekFind => IInv'
<1>. SUFFICES ASSUME IInv, SeekFind
              PROVE  IInv'
  OBVIOUS
<1>1. /\ app' = "check"
      /\ UNCHANGED <<content, oldest, next, loop, buffer, need_newsegment,
                     timestamp_next_buffer, target, len, goal, segment,
                     stamp, associations, delta>>
  BY DEF SeekFind, index, indexer, settings, cache, playing, told
<1>2. /\ IndexOK' /\ IndexerOK' /\ UpstreamOK' /\ InsertOK'
      /\ OrderOK' /\ SpacingOK' /\ AlignOK'
  BY Untouched DEF SeekFind, cache
<1>3. WindowOK'
  BY <1>1 DEF IInv, TypesOK, WindowOK, Reader, Slotted
<1>4. PICK found \in Before("time", target) : want' = SeekOffset(found)
  BY DEF SeekFind
<1>5. want' # NoOffset =>
        \E e \in associations : e.bytes = want' /\ e.time <= target
  <2>1. CASE found = {}
    BY <1>4, <2>1 DEF SeekOffset
  <2>2. CASE found # {}
    <3>1. ("race" \in env) \in BOOLEAN
      OBVIOUS
    <3>2. target \in Int /\ IndexOK
          /\ found \in Answers("time", target, "race" \in env)
      BY DEF Before, IInv, TypesOK, PlayOK
    <3>3. Of(found) \in associations /\ Of(found).time <= target
      BY <2>2, <3>1, <3>2, LookupBelow DEF Formats
    <3>. QED
      BY <1>4, <2>2, <3>3 DEF SeekOffset
  <2>. QED
    BY <2>1, <2>2
<1>6. want' \in Nat \cup {NoOffset}
  BY <1>5 DEF IInv, OrderOK
<1>7. PlayOK'
  BY <1>1, <1>6 DEF IInv, TypesOK, PlayOK
<1>8. GoalOK'
  BY <1>1, <1>5 DEF IInv, GoalOK, Reader
<1>. QED
  BY <1>2, <1>3, <1>7, <1>8 DEF IInv, TypesOK

\* has_offset refuses an offset or lets the seek go on with it.
LEMMA SeekCheckInv == IInv /\ SeekCheck => IInv'
<1>. SUFFICES ASSUME IInv, SeekCheck
              PROVE  IInv'
  OBVIOUS
<1>1. /\ app = "check"
      /\ \/ app' = "reposition" /\ UNCHANGED <<target, want>>
         \/ app' = "idle" /\ target' = 0 /\ want' = NoOffset
      /\ UNCHANGED <<content, oldest, next, loop, buffer, need_newsegment,
                     timestamp_next_buffer, len, goal, segment, stamp,
                     associations, delta>>
  BY DEF SeekCheck, index, indexer, settings, cache, playing, told
<1>2. /\ IndexOK' /\ IndexerOK' /\ UpstreamOK' /\ InsertOK'
      /\ OrderOK' /\ SpacingOK' /\ AlignOK'
  BY Untouched DEF SeekCheck, cache
<1>3. WindowOK'
  BY <1>1 DEF IInv, TypesOK, WindowOK, Reader, Slotted
<1>4. PlayOK'
  BY <1>1 DEF IInv, TypesOK, PlayOK
<1>5. GoalOK'
  BY <1>1 DEF IInv, GoalOK, Reader
<1>. QED
  BY <1>2, <1>3, <1>4, <1>5 DEF IInv, TypesOK

\* The loop goes on at the slot of the offset found, or where it was, before
\* it: no slot that is full lies after that slot and before the reader.
LEMMA SeekRepositionInv == IInv /\ SeekReposition => IInv'
<1>. SUFFICES ASSUME IInv, SeekReposition
              PROVE  IInv'
  OBVIOUS
<1>. DEFINE offset == Most(want, oldest)
<1>1. /\ app = "reposition" /\ app' = "idle" /\ target' = 0
      /\ want' = NoOffset /\ loop' = "idle" /\ buffer' = 0
      /\ need_newsegment' = TRUE /\ segment' = NoTime
      /\ goal' = IF want < oldest THEN {} ELSE {target}
      /\ next' = IF offset < Filled THEN Reached(offset) ELSE next
      /\ UNCHANGED <<content, oldest, timestamp_next_buffer, len, stamp,
                     associations, delta>>
  BY DEF SeekReposition, index, indexer, settings
<1>2. /\ IndexOK' /\ IndexerOK' /\ UpstreamOK' /\ InsertOK'
      /\ OrderOK' /\ SpacingOK' /\ AlignOK'
  BY Untouched DEF SeekReposition
<1>3. /\ Slotted(oldest) /\ Slotted(next)
      /\ oldest \in Nat /\ next \in Nat /\ Len(content) \in Nat
      /\ oldest <= next /\ next <= Len(content)
  <2>1. Slotted(oldest) /\ Slotted(next) /\ Slotted(buffer)
        /\ Len(content) \in Nat
    BY DEF IInv, TypesOK, WindowOK, UpstreamOK
  <2>. QED
    BY <2>1, SlottedNat, BinAssumption DEF IInv, TypesOK, WindowOK, Reader
<1>4. want \in Int /\ offset \in Nat /\ oldest <= offset /\ want <= offset
  BY <1>3 DEF Most, IInv, TypesOK, PlayOK, NoOffset
<1>5. /\ Filled \in Nat /\ Filled <= Len(content) /\ next <= Filled
  BY <1>3, ReachedSlot DEF Filled, Reached
<1>6. /\ Slotted(Reached(offset)) /\ Reached(offset) \in Nat
      /\ Reached(offset) <= offset /\ oldest <= Reached(offset)
  BY <1>3, <1>4, ReachedSlot
<1>7. /\ Slotted(next') /\ next' \in Nat /\ oldest <= next'
      /\ next' <= Len(content) /\ next' <= offset
  <2>1. CASE offset < Filled
    BY <1>1, <1>3, <1>4, <1>5, <1>6, <2>1
  <2>2. CASE ~ (offset < Filled)
    BY <1>1, <1>3, <1>4, <1>5, <2>2
  <2>. QED
    BY <2>1, <2>2
<1>8. WindowOK'
  <2>1. Slotted(0) /\ Reader' = next'
    BY <1>1, BinAssumption DEF Slotted, Reader
  <2>. QED
    BY <1>1, <1>7, <2>1 DEF IInv, TypesOK, WindowOK, Slotted
<1>9. PlayOK'
  <2>1. need_newsegment' = TRUE /\ need_newsegment' \in BOOLEAN
    BY <1>1
  <2>2. goal' \subseteq Int
    BY <1>1 DEF IInv, TypesOK, PlayOK
  <2>3. /\ app' = "idle" /\ target' = 0 /\ want' = -1 /\ loop' = "idle"
        /\ segment' = NoTime
        /\ UNCHANGED <<timestamp_next_buffer, len, stamp>>
    BY <1>1 DEF NoOffset
  <2>. QED
    BY <2>1, <2>2, <2>3 DEF IInv, TypesOK, PlayOK, NoOffset
<1>10. GoalOK'
  <2>. SUFFICES ASSUME delta # -1, NEW t \in goal'
                PROVE  \E e \in associations : next' <= e.bytes /\ e.time <= t
    BY <1>1 DEF GoalOK, Reader
  <2>1. t = target /\ ~ (want < oldest)
    BY <1>1
  <2>2. want \in Nat /\ want # NoOffset /\ offset = want
    BY <1>3, <1>4, <2>1 DEF Most, NoOffset
  <2>3. PICK e \in associations : e.bytes = want /\ e.time <= target
    BY <1>1, <2>2 DEF IInv, GoalOK
  <2>. QED
    BY <1>7, <2>1, <2>2, <2>3
<1>. QED
  BY <1>2, <1>8, <1>9, <1>10 DEF IInv, TypesOK

\* A restart empties the cache and keeps entries and count: a scenario that
\* has it is not Undisturbed.
LEMMA RestartInv == IInv /\ Restart => IInv'
<1>. SUFFICES ASSUME IInv, Restart
              PROVE  IInv'
  OBVIOUS
<1>1. /\ "restart" \in env /\ chain = "idle" /\ loop = "idle" /\ app = "idle"
      /\ content' = <<>> /\ oldest' = 0 /\ next' = 0
      /\ need_newsegment' = TRUE /\ goal' = {} /\ stamp' = NoTime
      /\ UNCHANGED <<env, upstream, loop, buffer, timestamp_next_buffer, app,
                     target, len, want, segment>>
  BY DEF Restart
<1>2. /\ UNCHANGED <<associations, byTime, byBytes, inserting, pcr_pid, delta,
                     base_time, last_time, current_offset>>
      /\ own_index' = FALSE
  BY DEF Restart, IndexerStart, progress, IInv, TypesOK, IndexerOK
<1>3. IndexOK' /\ IndexerOK' /\ InsertOK' /\ OrderOK' /\ SpacingOK'
  BY <1>1, <1>2 DEF IInv, TypesOK, IndexOK, NodesOK, IndexerOK, InsertOK,
                    OrderOK, SpacingOK, Spaced, upstream
<1>4. UpstreamOK'
  BY <1>1, <1>2 DEF IInv, TypesOK, UpstreamOK, IndexerOK, upstream
<1>5. WindowOK'
  <2>1. Slotted(0)
    BY BinAssumption DEF Slotted
  <2>2. 0 <= 0 + NSlots * SlotSize
    BY BinAssumption
  <2>. QED
    BY <1>1, <2>1, <2>2 DEF IInv, TypesOK, WindowOK, Reader, Slotted
<1>6. PlayOK'
  <2>1. need_newsegment' = TRUE /\ need_newsegment' \in BOOLEAN
    BY <1>1
  <2>2. goal' = {} /\ stamp' = NoTime
        /\ UNCHANGED <<loop, timestamp_next_buffer, app, target, len, want,
                       segment>>
    BY <1>1
  <2>. QED
    BY <2>1, <2>2 DEF IInv, TypesOK, PlayOK
<1>7. GoalOK' /\ AlignOK'
  BY <1>1 DEF GoalOK, AlignOK, Undisturbed
<1>. QED
  BY <1>3, <1>4, <1>5, <1>6, <1>7 DEF IInv, TypesOK

\* Every action keeps the invariant.
LEMMA NextInv == IInv /\ [Next]_vars => IInv'
<1>. SUFFICES ASSUME IInv, [Next]_vars
              PROVE  IInv'
  OBVIOUS
<1>1. CASE UNCHANGED vars
  <2>1. /\ UNCHANGED <<env, index, indexer, upstream, content>>
        /\ UNCHANGED <<oldest, next, loop, buffer, need_newsegment,
                       timestamp_next_buffer, app, target, len, want, goal,
                       segment, stamp, associations, delta>>
    BY <1>1 DEF vars, index, indexer, settings, cache, playing, asking, told
  <2>2. /\ IndexOK' /\ IndexerOK' /\ UpstreamOK' /\ InsertOK'
        /\ OrderOK' /\ SpacingOK' /\ AlignOK'
    BY <2>1, Untouched
  <2>3. WindowOK' /\ PlayOK' /\ GoalOK'
    BY <2>1 DEF IInv, TypesOK, WindowOK, PlayOK, GoalOK, Reader, Slotted
  <2>. QED
    BY <2>2, <2>3 DEF IInv, TypesOK
<1>2. CASE Next
  BY <1>2, PmtInv, ChainCollectInv, ChainAddInv, ChainPushInv, LoopPopInv,
     LoopSegmentInv, LoopPushInv, AskInv, SeekFindInv, SeekCheckInv,
     SeekRepositionInv, RestartInv
  DEF Next
<1>. QED
  BY <1>1, <1>2

-----------------------------------------------------------------------------
(* Theorems                                                                *)

\* The invariant holds in every state, for every value of the constants.
LEMMA Invariant == Spec => []IInv
<1>. QED
  BY InitInv, NextInv, PTL DEF Spec

\* The variables of indexer, index, cache, loop and application stay in their
\* ranges, and the reader in the window, for every size of the ring.
THEOREM TypeCorrect == Spec => []TypeOK
<1>1. IInv => TypeOK
  <2>. SUFFICES ASSUME IInv
                PROVE  TypeOK
    OBVIOUS
  <2>1. \A f \in Formats : \A v \in DOMAIN Tree(f) :
          Tree(f)[v] \in Node /\ Tree(f)[v].key[f] = v
    BY DEF IInv, TypesOK, IndexOK, NodesOK, Formats, Tree
  <2>2. /\ env \in Scenarios /\ associations \subseteq Entry
        /\ inserting \in Formats \cup {"none"}
        /\ inserting # "none" <=> chain = "index"
        /\ entry \subseteq Entry /\ (chain = "index" => entry # {})
    BY DEF IInv, TypesOK, IndexOK, UpstreamOK, InsertOK
  <2>3. /\ pcr_pid \in BOOLEAN /\ delta \in Deltas \cup {-1}
        /\ own_index = FALSE
        /\ base_time \in Nat \cup {None} /\ last_time \in Int
        /\ current_offset \in 0 .. MaxPackets
    BY DEF IInv, TypesOK, IndexerOK
  <2>4. /\ clock \in Nat /\ jumps \in 0 .. MaxJumps
        /\ chain \in {"idle", "index", "push"}
        /\ Packets(data) /\ Packets(content)
    BY DEF IInv, TypesOK, UpstreamOK, Packets
  <2>5. /\ oldest \in 0 .. Len(content) /\ next \in 0 .. Len(content)
        /\ oldest <= Reader /\ buffer \in Nat
    <3>1. /\ oldest \in Nat /\ next \in Nat /\ buffer \in Nat
          /\ Len(content) \in Nat
      BY SlottedNat DEF IInv, TypesOK, WindowOK, UpstreamOK
    <3>2. oldest <= Reader /\ Reader <= next /\ next <= Len(content)
      BY <3>1, BinAssumption DEF IInv, TypesOK, WindowOK, Reader
    <3>3. Reader \in Nat
      BY <3>1 DEF Reader
    <3>. QED
      BY <3>1, <3>2, <3>3
  <2>6. /\ loop \in {"idle", "segment", "push"}
        /\ need_newsegment \in BOOLEAN /\ timestamp_next_buffer \in BOOLEAN
        /\ app \in {"idle", "end", "duration", "told",
                    "find", "check", "reposition"}
        /\ target \in Int \cup {NoTime} /\ goal \subseteq Int
        /\ len \in 0 .. MaxPackets /\ want \in Nat \cup {NoOffset}
        /\ segment \in Int \cup {NoTime} /\ stamp \in Int \cup {NoTime}
    BY DEF IInv, TypesOK, PlayOK
  <2>. QED
    BY <2>1, <2>2, <2>3, <2>4, <2>5, <2>6 DEF TypeOK
<1>. QED
  BY <1>1, Invariant, PTL

\* However the PCR jumps or wraps, times of entries grow with their offsets,
\* by delta or more: what Due of the indexer is for.
THEOREM EntriesSpaced == Spec => []Spaced
<1>1. IInv => Spaced
  BY DEF IInv, SpacingOK, Spaced
<1>. QED
  BY <1>1, Invariant, PTL

\* As long as the cache loses nothing, each entry has the time of the packet
\* that the cache has at its offset: the indexer's count is the cache's, for
\* buffers of every size.
THEOREM EntriesTrue == Spec => []AlignedUndisturbed
<1>1. IInv => AlignedUndisturbed
  <2>. SUFFICES ASSUME IInv, Undisturbed,
                       NEW e \in associations, e.bytes < Len(content)
                PROVE  IsAt(e.bytes + 1, e.time)
    BY DEF AlignedUndisturbed, EntriesAligned
  <2>1. /\ content \in Seq(Packet) /\ data \in Seq(Packet)
        /\ e.bytes + 1 \in 1 .. Len(content)
    BY DEF IInv, TypesOK, UpstreamOK, IndexerOK, OrderOK
  <2>2. Stream[e.bytes + 1] = content[e.bytes + 1]
    BY <2>1 DEF Stream
  <2>. QED
    BY <2>2 DEF IInv, AlignOK, IsAt
<1>. QED
  BY <1>1, Invariant, PTL

=============================================================================

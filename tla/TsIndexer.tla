----------------------------- MODULE TsIndexer ------------------------------
(***************************************************************************)
(* GstTimeShiftTsIndexer (src/src/gsttimeshifttsindexer.c): counts the     *)
(* bytes of an MPEG-TS stream on their way to the cache and relates the    *)
(* clock references (PCR) found in them to their offsets.                  *)
(*                                                                         *)
(* Offsets count packets.  A packet has a PCR or None, and the random      *)
(* access flag or not.  A PCR counts units of Tick nanoseconds.            *)
(***************************************************************************)
EXTENDS TimeIndex, Sequences

VARIABLES
  pcr_pid,        \* the PCR pid is known
  delta,          \* time between entries; -1: at random access points
  own_index,      \* the index is the indexer's own
  base_time,      \* time of the first PCR, or None
  last_time,      \* time of the last entry, or None
  current_offset  \* bytes seen

settings == <<pcr_pid, delta, own_index>>
progress == <<base_time, last_time, current_offset>>
indexer == <<settings, progress>>

None == -1
Tick == 2
Packet == [pcr : Nat \cup {None}, rap : BOOLEAN]

IndexerInit ==
  /\ pcr_pid = FALSE
  /\ own_index = FALSE
  /\ base_time = None /\ last_time = None /\ current_offset = 0

-----------------------------------------------------------------------------

\* get_pcr looks at a buffer of one packet; of a larger one it does not look
\* at the last packet.
Examined(buf) == IF Len(buf) = 1 THEN {1} ELSE 1 .. Len(buf) - 1

\* parse_pcr: with delta -1 only random access points tell the time, once
\* there has been a first PCR.
Tells(packet) ==
  /\ packet.pcr # None
  /\ delta = -1 /\ base_time # None => packet.rap

MPEGTIME_TO_GSTTIME(pcr) == Tick * pcr

\* The first PCR is time zero.
BaseTime(packet) ==
  IF base_time = None THEN MPEGTIME_TO_GSTTIME(packet.pcr) ELSE base_time
TimeOf(packet) == MPEGTIME_TO_GSTTIME(packet.pcr) - BaseTime(packet)

\* Mistake: an entry only when more than delta has passed.
DueLater(time) ==
  \/ last_time = None
  \/ delta = -1
  \/ time - last_time > delta
\* Mistake: the distance is taken without its sign, as of unsigned times.
DueEitherWay(time) ==
  \/ last_time = None
  \/ delta = -1
  \/ time - last_time >= delta
  \/ last_time - time >= delta
Due(time) ==
  \/ last_time = None
  \/ delta = -1
  \/ time - last_time >= delta

\* gst_time_shift_ts_indexer_collect_time stops at the first PCR that is due.
Found(buf) ==
  LET due == {i \in Examined(buf) : Tells(buf[i]) /\ Due(TimeOf(buf[i]))}
  IN {i \in due : \A j \in due : i <= j}

\* Mistake: the offset of the entry is that of the buffer.
EntryAtBuffer(buf, i) == [time |-> TimeOf(buf[i]), bytes |-> current_offset]
EntryAt(buf, i) ==
  [time |-> TimeOf(buf[i]), bytes |-> current_offset + (i - 1)]

\* The entries that a buffer gives the index: at most one.
Collected(buf) ==
  IF pcr_pid THEN {EntryAt(buf, i) : i \in Found(buf)} ELSE {}

\* gst_time_shift_ts_indexer_transform_ip, but for the index itself.
TransformIp(buf) ==
  /\ current_offset' = current_offset + Len(buf)
  /\ UNCHANGED settings
  /\ \/ /\ Collected(buf) = {}
        /\ UNCHANGED <<base_time, last_time>>
     \/ \E i \in Found(buf) :
          /\ pcr_pid
          /\ base_time' = BaseTime(buf[i])
          /\ last_time' = TimeOf(buf[i])

\* gst_time_shift_ts_indexer_start: an index of its own is destroyed and made
\* again.  The index it makes is not marked as its own.
IndexerStart ==
  /\ IF own_index
     THEN associations' = {} /\ byTime' = EmptyTree /\ byBytes' = EmptyTree
     ELSE UNCHANGED <<associations, byTime, byBytes>>
  /\ own_index' = FALSE
  /\ UNCHANGED <<inserting, pcr_pid, delta, progress>>

\* gst_flumpegshifter_bin_handle_message sets the pid of the "pmt" message.
SetPcrPid ==
  /\ pcr_pid' = TRUE
  /\ UNCHANGED <<delta, own_index, progress>>

=============================================================================

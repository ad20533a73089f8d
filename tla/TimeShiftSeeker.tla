--------------------------- MODULE TimeShiftSeeker --------------------------
(***************************************************************************)
(* GstTimeShiftSeeker (src/src/gsttimeshiftseeker.c): downstream of the    *)
(* cache, it turns TIME seeks into BYTES seeks on their way up and BYTES   *)
(* segments into TIME segments on their way down.                          *)
(*                                                                         *)
(* Its conversions are operators on the answer of a lookup BEFORE: the set *)
(* of the entry found, or {}.                                              *)
(***************************************************************************)
EXTENDS TimeIndex

CONSTANTS
  Margin,   \* the last bytes, too fresh to be the end (1000000)
  NoTime    \* GST_CLOCK_TIME_NONE: no time, neither early nor late

ASSUME NoTimeAssumption == NoTime \notin Int

VARIABLE timestamp_next_buffer

NoOffset == -1

Of(found) == CHOOSE e \in found : TRUE

\* gst_time_shift_seeker_bytes_to_stream_time.
\* Mistake: where there is no entry is the beginning.
BytesToStreamTimeZero(found, offset) ==
  IF found # {} THEN Of(found).time ELSE 0
BytesToStreamTime(found, offset) ==
  IF found # {} THEN Of(found).time ELSE IF offset = 0 THEN 0 ELSE NoTime

\* gst_time_shift_seeker_get_last_time: where it looks, and what it returns.
\* Mistake: it looks at the end of the stream.
LastOffsetEnd(len) == len
LastOffset(len) == len - Margin
LastTime(found) == IF found # {} THEN Of(found).time ELSE NoTime

\* gst_time_shift_seeker_seek with GST_SEEK_TYPE_END: the time to look for.
\* The lookup takes it for a gint64, in which GST_CLOCK_TIME_NONE is -1.
FromEnd(last, start) == (IF last = NoTime THEN -1 ELSE last) + start

\* gst_time_shift_seeker_seek: the offset of the seek that goes upstream.
SeekOffset(found) == IF found # {} THEN Of(found).bytes ELSE NoOffset

=============================================================================

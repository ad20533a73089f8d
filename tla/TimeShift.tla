----------------------------- MODULE TimeShift ------------------------------
(***************************************************************************)
(* What a time-shifting buffer promises the element that uses it, with     *)
(* nothing said of slots, threads or files: a window of the stream that    *)
(* grows at the end and is forgotten at the beginning, and a reader that   *)
(* is given every byte of the window from where it is, in order and under  *)
(* its own offset.  ShifterCache is shown to implement it.                 *)
(***************************************************************************)
EXTENDS Integers, Sequences

VARIABLES
  written,    \* how many bytes have been accepted
  oldest,     \* the oldest one still kept
  next,       \* the one the reader gets next
  delivered   \* the last buffer it got, or Nothing

Nothing == [offset |-> -1, data |-> <<>>]

Init == written = 0 /\ oldest = 0 /\ next = 0 /\ delivered = Nothing

\* Bytes are accepted; room for them is made only by forgetting bytes that
\* the reader is past.
Write ==
  /\ written' > written
  /\ oldest' >= oldest /\ oldest' <= next
  /\ UNCHANGED <<next, delivered>>

\* The reader gets the bytes that follow.
Deliver ==
  /\ next' > next /\ next' <= written
  /\ delivered' = [offset |-> next,
                   data   |-> [i \in 1 .. next' - next |-> next + i - 1]]
  /\ UNCHANGED <<written, oldest>>

\* The reader moves within the window.
Jump ==
  /\ next' >= oldest /\ next' <= written
  /\ delivered' = Nothing
  /\ UNCHANGED <<written, oldest>>

Next == Write \/ Deliver \/ Jump

Spec == Init /\ [][Next]_<<written, oldest, next, delivered>>
=============================================================================

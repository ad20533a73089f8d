------------------------------ MODULE TimeIndex -----------------------------
(***************************************************************************)
(* GstFluTSIndex with its only implementation, GstFluTSMemIndex            *)
(* (src/src/flutsindex.c, flutsmemindex.c): associations of a stream time  *)
(* with a byte offset, and one balanced tree per format.                   *)
(*                                                                         *)
(* An answer of a lookup is the set of the entry found, {} for NULL.       *)
(* Every caller asks without flags, so the search for an entry that has    *)
(* them is left out.  One writer uses an index, itself, under one id.      *)
(***************************************************************************)
EXTENDS Integers, FiniteSets

VARIABLES
  associations,  \* memindex->associations, the entries ever added
  byTime,        \* the tree of GST_FORMAT_TIME
  byBytes,       \* the tree of GST_FORMAT_BYTES
  inserting      \* the format whose tree is being changed, or "none"

index == <<associations, byTime, byBytes, inserting>>

Entry == [time : Int, bytes : Int]
Formats == {"time", "bytes"}

-----------------------------------------------------------------------------
(* The trees                                                               *)

\* A tree is a function of the values it knows.  Its nodes hold an entry as
\* the key that searches compare and one as the value that a hit returns.
EmptyTree == [v \in {} |-> {}]
Node == [key : Entry, value : Entry]

\* Insertion: g_tree_insert replaces the value of an equal key, not the key.
IndexFormat(tree, f, e) ==
  [v \in DOMAIN tree \cup {e[f]} |->
     IF v # e[f] THEN tree[v]
     ELSE [key |-> IF v \in DOMAIN tree THEN tree[v].key ELSE e, value |-> e]]

\* The root of a balanced tree of the values S.
Root(S) ==
  CHOOSE r \in S : Cardinality({v \in S : v > r}) = Cardinality(S) \div 2

\* mem_index_compare puts greater values on the left.
LeftOf(r, S) == {v \in S : v > r}
RightOf(r, S) == {v \in S : v < r}

\* Where mem_index_search goes from a node of value r: left when r is less.
\* Mistake: the sign of the comparison is turned around.
TowardsAway(r, v, S) == IF r < v THEN RightOf(r, S) ELSE LeftOf(r, S)
Towards(r, v, S) == IF r < v THEN LeftOf(r, S) ELSE RightOf(r, S)

\* The values that a search for v looks at.
Visited(tree, v) ==
  LET walk[S \in SUBSET DOMAIN tree] ==
        IF S = {} THEN {}
        ELSE LET r == Root(S)
             IN {r} \cup IF r = v THEN {} ELSE walk[Towards(r, v, S)]
  IN {w \in DOMAIN tree : w \in walk[DOMAIN tree]}

\* What the search remembers on its way: the nearest value on either side.
Lower(seen, v) == {w \in seen : w < v /\ \A u \in seen : u < v => u <= w}
Higher(seen, v) == {w \in seen : w > v /\ \A u \in seen : u > v => u >= w}

\* gst_flutsmemindex_get_assoc_entry.
Search(tree, method, v) ==
  LET seen == Visited(tree, v)
      near == CASE method = "before" -> Lower(seen, v)
                [] method = "after" -> Higher(seen, v)
                [] OTHER -> {}
  IN IF v \in seen THEN {tree[v].value} ELSE {tree[w].key : w \in near}

-----------------------------------------------------------------------------
(* The index                                                               *)

IndexInit ==
  /\ associations = {}
  /\ byTime = EmptyTree
  /\ byBytes = EmptyTree
  /\ inserting = "none"

\* gst_flutsmemindex_add_association lists the entry and then indexes its
\* values one by one, the time first.
AddEntry(e) ==
  /\ associations' = associations \cup {e}
  /\ inserting' = "time"
  /\ UNCHANGED <<byTime, byBytes>>
AddTime(e) ==
  /\ inserting = "time"
  /\ byTime' = IndexFormat(byTime, "time", e)
  /\ inserting' = "bytes"
  /\ UNCHANGED <<associations, byBytes>>
AddBytes(e) ==
  /\ inserting = "bytes"
  /\ byBytes' = IndexFormat(byBytes, "bytes", e)
  /\ inserting' = "none"
  /\ UNCHANGED <<associations, byTime>>

Tree(f) == IF f = "time" THEN byTime ELSE byBytes

\* The answers of gst_flutsindex_get_assoc_entry, method BEFORE.  Nothing
\* locks the index: a search of a tree that is being changed (torn) may miss
\* any of its nodes.
Answers(f, v, torn) ==
  {Search(Tree(f), "before", v)} \cup
    IF torn /\ inserting = f
    THEN {{}} \cup {{Tree(f)[w].key} : w \in {w \in DOMAIN Tree(f) : w < v}}
    ELSE {}

-----------------------------------------------------------------------------
(* What the index promises                                                 *)

\* The entries that are right answers, told from the associations alone.
Right(f, method, v) ==
  LET on == {e \in associations : e[f] = v}
      below == {e \in associations : e[f] < v}
      above == {e \in associations : e[f] > v}
  IN CASE on # {} -> on
       [] on = {} /\ method = "before" ->
            {e \in below : \A o \in below : o[f] <= e[f]}
       [] on = {} /\ method = "after" ->
            {e \in above : \A o \in above : o[f] >= e[f]}
       [] OTHER -> {}

\* The values at and around those that are in the index.
Around(f) == UNION {{e[f] - 1, e[f], e[f] + 1} : e \in associations}

\* A search in tree finds one of the nearest associations on the side asked
\* for, and finds nothing only when there is none.
AnswersNearest(tree, f) ==
  \A method \in {"exact", "before", "after"}, v \in Around(f) :
    LET found == Search(tree, method, v)
    IN /\ found \subseteq Right(f, method, v)
       /\ Cardinality(found) = IF Right(f, method, v) = {} THEN 0 ELSE 1

=============================================================================

------------------------------- MODULE IndexId ------------------------------
(***************************************************************************)
(* How a GstFluTSIndex comes by its id (src/src/flutsindex.c): the first   *)
(* call that adds an entry or looks one up resolves it, and nothing locks  *)
(* the index.  Upstream adds entries, the other threads look them up.      *)
(*                                                                         *)
(* One action is one access to what the threads share.  A call on a hash   *)
(* table is one access.                                                    *)
(***************************************************************************)
EXTENDS Integers

CONSTANTS
  Threads,     \* those that use the index
  Upstream,    \* the one of them that adds entries
  MaxEntries,  \* bound: entries that it adds
  Scenarios    \* subset of {"alone", "race"}

\* "alone"  no call begins while the id is being resolved
\* "race"   calls begin at any time
ASSUME IdAssumption ==
  /\ Upstream \in Threads
  /\ MaxEntries \in Nat
  /\ Scenarios \subseteq {"alone", "race"}

VARIABLES
  env,             \* the scenario, which does not change
  id, last_id,     \* the fields of the index
  writers,         \* the ids in the hash table of writers: one or none
  id_index,        \* the ids that GstFluTSMemIndex has trees for
  pc, mine,        \* where each thread is, and the id it has in hand
  added,           \* entries added so far
  trees            \* the ids of the trees that hold them; None: no tree

fields == <<id, last_id>>
tables == <<writers, id_index>>
entries == <<added, trees>>
vars == <<env, fields, tables, pc, mine, entries>>

None == -1

Init ==
  /\ env \in Scenarios
  /\ id = None /\ last_id = 0
  /\ writers = {} /\ id_index = {}
  /\ pc = [t \in Threads |-> "out"] /\ mine = [t \in Threads |-> None]
  /\ added = 0 /\ trees = {}

-----------------------------------------------------------------------------
(* gst_flutsindex_get_id, gst_flutsindex_get_writer_id                     *)

\* The thread is within gst_flutsindex_get_writer_id.
Resolving(t) == pc[t] \notin {"out", "return", "use"}

Goes(t, from, to) ==
  pc[t] = from /\ pc' = [pc EXCEPT ![t] = to]

MayCall(t) ==
  /\ t = Upstream => added < MaxEntries
  /\ env = "alone" => \A o \in Threads : ~Resolving(o)

\* Mistake: the id that is there is not looked at.
GetIdAnew(t) ==
  /\ MayCall(t)
  /\ Goes(t, "out", "reset")
  /\ UNCHANGED <<env, fields, tables, mine, entries>>

GetId(t) ==
  /\ MayCall(t)
  /\ Goes(t, "out", IF id = None THEN "reset" ELSE "return")
  /\ UNCHANGED <<env, fields, tables, mine, entries>>

\* The result is written through a pointer to the field of the index.
Reset(t) ==
  /\ Goes(t, "reset", "lookup")
  /\ id' = None
  /\ UNCHANGED <<env, last_id, tables, mine, entries>>

LookupCached(t) ==
  /\ Goes(t, "lookup", "cached")
  /\ \E n \in writers : mine' = [mine EXCEPT ![t] = n]
  /\ UNCHANGED <<env, fields, tables, entries>>

SetCached(t) ==
  /\ Goes(t, "cached", "return")
  /\ id' = mine[t]
  /\ UNCHANGED <<env, last_id, tables, mine, entries>>

LookupNew(t) ==
  /\ Goes(t, "lookup", "allocate")
  /\ writers = {}
  /\ UNCHANGED <<env, fields, tables, mine, entries>>

\* *id = ++index->last_id reads the field, writes it, and writes *id.
Allocate(t) ==
  /\ Goes(t, "allocate", "count")
  /\ mine' = [mine EXCEPT ![t] = last_id + 1]
  /\ UNCHANGED <<env, fields, tables, entries>>

Count(t) ==
  /\ Goes(t, "count", "set")
  /\ last_id' = mine[t]
  /\ UNCHANGED <<env, id, tables, mine, entries>>

SetNew(t) ==
  /\ Goes(t, "set", "add")
  /\ id' = mine[t]
  /\ UNCHANGED <<env, last_id, tables, mine, entries>>

\* Where the code says *id again, a build may use the value it has written or
\* read it.
Again(t) == {mine[t], id}

\* gst_flutsindex_add_id makes trees for the id.  It refuses None.
AddId(t) ==
  /\ Goes(t, "add", "insert")
  /\ \E n \in Again(t) \ {None} :
       /\ mine' = [mine EXCEPT ![t] = n]
       /\ id_index' = id_index \cup {n}
  /\ UNCHANGED <<env, fields, writers, entries>>

AddIdRefused(t) ==
  /\ Goes(t, "add", "entry")
  /\ None \in Again(t)
  /\ UNCHANGED <<env, fields, tables, mine, entries>>

\* "index is probably not writable, make an entry anyway"
MakeEntry(t) ==
  /\ Goes(t, "entry", "insert")
  /\ \E n \in Again(t) : mine' = [mine EXCEPT ![t] = n]
  /\ UNCHANGED <<env, fields, tables, entries>>

Insert(t) ==
  /\ Goes(t, "insert", "return")
  /\ writers' = {mine[t]}
  /\ UNCHANGED <<env, fields, id_index, mine, entries>>

\* return index->id reads the field once more.
Return(t) ==
  /\ Goes(t, "return", "use")
  /\ mine' = [mine EXCEPT ![t] = id]
  /\ UNCHANGED <<env, fields, tables, entries>>

-----------------------------------------------------------------------------
(* gst_flutsindex_add_associationv, gst_flutsindex_get_assoc_entry_full    *)

Forgets(t) == mine' = [mine EXCEPT ![t] = None]

\* An entry for an id without trees is found by nobody.
Associate ==
  /\ Goes(Upstream, "use", "out")
  /\ added' = added + 1
  /\ trees' = trees \cup
       {IF mine[Upstream] \in id_index THEN mine[Upstream] ELSE None}
  /\ Forgets(Upstream)
  /\ UNCHANGED <<env, fields, tables>>

LookUp(t) ==
  /\ t # Upstream
  /\ Goes(t, "use", "out")
  /\ Forgets(t)
  /\ UNCHANGED <<env, fields, tables, entries>>

Resolve(t) ==
  \/ Reset(t) \/ LookupCached(t) \/ SetCached(t) \/ LookupNew(t)
  \/ Allocate(t) \/ Count(t) \/ SetNew(t)
  \/ AddId(t) \/ AddIdRefused(t) \/ MakeEntry(t) \/ Insert(t)

Next ==
  \/ \E t \in Threads : GetId(t) \/ Resolve(t) \/ Return(t) \/ LookUp(t)
  \/ Associate

Spec == Init /\ [][Next]_vars

-----------------------------------------------------------------------------
(* Properties                                                              *)

Places == {"out", "reset", "lookup", "cached", "allocate", "count", "set",
           "add", "entry", "insert", "return", "use"}

Ids == Nat \ {0}

\* Ids are positive wherever they are kept, or None, and a thread that
\* allocates one has it in hand: nothing takes the zero of last_id for an id,
\* and only None has no trees.
TypeOK ==
  /\ env \in Scenarios
  /\ id \in Ids \cup {None} /\ last_id \in Nat
  /\ writers \subseteq Ids \cup {None} /\ id_index \subseteq Ids
  /\ pc \in [Threads -> Places] /\ mine \in [Threads -> Ids \cup {None}]
  /\ \A t \in Threads : pc[t] \in {"count", "set"} => mine[t] # None
  /\ added \in 0 .. MaxEntries /\ trees \subseteq Ids \cup {None}
  /\ pc[Upstream] # "out" => added < MaxEntries

\* Every entry is in the trees that a lookup goes to from now on: between the
\* first call and the last, all calls have used one id ("Before entries can be
\* added to the index, a writer should obtain a unique id").  It does not hold
\* when calls race.
EntriesFound ==
  (\A t \in Threads : ~Resolving(t)) => trees \subseteq {id}

\* EntriesFound, as long as the call that resolves the id is alone: a call that
\* began before it or begins after it finds the id that all others use.
FoundAlone == env = "alone" => EntriesFound

=============================================================================

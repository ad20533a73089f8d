---------------------------- MODULE IndexIdProofs ---------------------------
(***************************************************************************)
(* Proofs about IndexId, for every set of threads and number of entries.   *)
(***************************************************************************)
EXTENDS IndexId, TLAPS

-----------------------------------------------------------------------------
(* The fields and the tables                                               *)

\* Every step keeps the ranges.
LEMMA TypeStep == TypeOK /\ [Next]_vars => TypeOK'
<1>. SUFFICES ASSUME TypeOK, [Next]_vars
              PROVE  TypeOK'
  OBVIOUS
<1>. USE IdAssumption DEF TypeOK, Places, Ids, None, fields, tables, entries
<1>1. ASSUME NEW t \in Threads, GetId(t)
      PROVE  TypeOK'
  BY <1>1 DEF GetId, MayCall, Goes
<1>2. ASSUME NEW t \in Threads, Resolve(t)
      PROVE  TypeOK'
  <2>1. CASE Reset(t)
    BY <2>1 DEF Reset, Goes
  <2>2. CASE LookupCached(t)
    BY <2>2 DEF LookupCached, Goes
  <2>3. CASE SetCached(t)
    BY <2>3 DEF SetCached, Goes
  <2>4. CASE LookupNew(t)
    BY <2>4 DEF LookupNew, Goes
  <2>5. CASE Allocate(t)
    BY <2>5 DEF Allocate, Goes
  <2>6. CASE Count(t)
    BY <2>6 DEF Count, Goes
  <2>7. CASE SetNew(t)
    BY <2>7 DEF SetNew, Goes
  <2>8. CASE AddId(t)
    BY <2>8 DEF AddId, Again, Goes
  <2>9. CASE AddIdRefused(t)
    BY <2>9 DEF AddIdRefused, Goes
  <2>10. CASE MakeEntry(t)
    BY <2>10 DEF MakeEntry, Again, Goes
  <2>11. CASE Insert(t)
    BY <2>11 DEF Insert, Goes
  <2>. QED
    BY <1>2, <2>1, <2>2, <2>3, <2>4, <2>5, <2>6, <2>7, <2>8, <2>9, <2>10,
       <2>11 DEF Resolve
<1>3. ASSUME NEW t \in Threads, Return(t)
      PROVE  TypeOK'
  BY <1>3 DEF Return, Goes
<1>4. ASSUME NEW t \in Threads, LookUp(t)
      PROVE  TypeOK'
  BY <1>4 DEF LookUp, Goes, Forgets
<1>5. CASE Associate
  <2>1. trees' \subseteq Ids \cup {None}
    BY <1>5 DEF Associate
  <2>2. added < MaxEntries /\ added' = added + 1
    BY <1>5 DEF Associate, Goes
  <2>3. added' \in 0 .. MaxEntries
    BY <2>2
  <2>. QED
    BY <1>5, <2>1, <2>3 DEF Associate, Goes, Forgets
<1>6. CASE UNCHANGED vars
  BY <1>6 DEF vars
<1>. QED
  BY <1>1, <1>2, <1>3, <1>4, <1>5, <1>6 DEF Next

\* The first state has them.
LEMMA TypeInit == Init => TypeOK
  BY IdAssumption DEF Init, TypeOK, Places, Ids, None

\* The fields, the tables and what threads have in hand stay in their ranges,
\* for every set of threads.
THEOREM TypeCorrect == Spec => []TypeOK
  BY TypeInit, TypeStep, PTL DEF Spec

-----------------------------------------------------------------------------
(* A call that resolves the id alone                                       *)

\* No id has been given out.
Fresh == id = None /\ writers = {} /\ id_index = {} /\ trees = {}

\* How far the thread that resolves the id has come, and what the others have
\* in hand once it has come to the end.
AloneOK ==
  env = "alone" =>
    /\ \A s, t \in Threads : Resolving(s) => t = s \/ pc[t] = "out"
    /\ \A t \in Threads :
         /\ pc[t] \notin {"cached", "entry"}
         /\ pc[t] \in {"reset", "lookup", "allocate", "count", "set"} => Fresh
         /\ pc[t] = "add" => id # None /\ mine[t] = id /\ trees = {}
         /\ pc[t] = "insert" => id \in id_index /\ trees = {}
         /\ pc[t] = "return" => id # None
         /\ pc[t] = "use" => id # None /\ mine[t] = id
    /\ (\A t \in Threads : ~Resolving(t)) =>
         IF id = None THEN Fresh ELSE id \in id_index /\ trees \subseteq {id}

IInv == TypeOK /\ AloneOK

\* Every step keeps AloneOK: a call that begins finds nobody resolving the id,
\* and resolves it only when no other call is under way.
LEMMA AloneStep == IInv /\ [Next]_vars => AloneOK'
<1>. SUFFICES ASSUME TypeOK, AloneOK, [Next]_vars, env = "alone"
              PROVE  AloneOK'
  <2>1. [Next]_vars => env' = env
    BY DEF Next, Resolve, vars, GetId, Return, LookUp, Associate, Reset,
           LookupCached, SetCached, LookupNew, Allocate, Count, SetNew, AddId,
           AddIdRefused, MakeEntry, Insert
  <2>. QED
    BY <2>1 DEF IInv, AloneOK
<1>. USE DEF TypeOK, Ids, None, AloneOK, Resolving, Fresh, Places, Goes, fields,
             tables, entries
<1>1. ASSUME NEW t \in Threads, GetId(t)
      PROVE  AloneOK'
  BY <1>1 DEF GetId, MayCall
<1>2. ASSUME NEW t \in Threads, Resolve(t)
      PROVE  AloneOK'
  <2>1. CASE Reset(t)
    BY <2>1 DEF Reset
  <2>2. CASE LookupCached(t)
    BY <2>2 DEF LookupCached
  <2>3. CASE SetCached(t)
    BY <2>3 DEF SetCached
  <2>4. CASE LookupNew(t)
    BY <2>4 DEF LookupNew
  <2>5. CASE Allocate(t)
    BY <2>5 DEF Allocate
  <2>6. CASE Count(t)
    BY <2>6 DEF Count
  <2>7. CASE SetNew(t)
    BY <2>7 DEF SetNew
  <2>8. CASE AddId(t)
    BY <2>8 DEF AddId, Again
  <2>9. CASE AddIdRefused(t)
    BY <2>9 DEF AddIdRefused, Again
  <2>10. CASE MakeEntry(t)
    BY <2>10 DEF MakeEntry, Again
  <2>11. CASE Insert(t)
    BY <2>11 DEF Insert
  <2>. QED
    BY <1>2, <2>1, <2>2, <2>3, <2>4, <2>5, <2>6, <2>7, <2>8, <2>9, <2>10,
       <2>11 DEF Resolve
<1>3. ASSUME NEW t \in Threads, Return(t)
      PROVE  AloneOK'
  BY <1>3 DEF Return
<1>4. ASSUME NEW t \in Threads, LookUp(t)
      PROVE  AloneOK'
  BY <1>4 DEF LookUp, Forgets
<1>5. CASE Associate
  <2>1. /\ Upstream \in Threads /\ pc[Upstream] = "use"
        /\ pc' = [pc EXCEPT ![Upstream] = "out"]
        /\ mine' = [mine EXCEPT ![Upstream] = None]
        /\ id' = id /\ id_index' = id_index /\ writers' = writers
    BY <1>5, IdAssumption DEF Associate, Forgets
  <2>2. \A t \in Threads : ~Resolving(t)
    BY <2>1
  <2>3. id \in id_index /\ trees \subseteq {id} /\ mine[Upstream] = id
    BY <2>1, <2>2
  <2>4. trees' \subseteq {id}
    BY <1>5, <2>3 DEF Associate
  <2>. QED
    BY <2>1, <2>2, <2>3, <2>4
<1>6. CASE UNCHANGED vars
  BY <1>6 DEF vars
<1>. QED
  BY <1>1, <1>2, <1>3, <1>4, <1>5, <1>6 DEF Next

\* When the call that resolves the id is alone, every entry is in the trees
\* that later lookups go to, whatever the number of threads and of entries.
THEOREM EntriesFoundAlone == Spec => []FoundAlone
<1>1. Init => AloneOK
  BY DEF Init, AloneOK, Resolving, Fresh, None
<1>2. IInv /\ [Next]_vars => IInv'
  BY TypeStep, AloneStep DEF IInv
<1>3. IInv => FoundAlone
  BY DEF IInv, AloneOK, FoundAlone, EntriesFound, Fresh
<1>. QED
  BY <1>1, <1>2, <1>3, TypeInit, PTL DEF Spec, IInv

=============================================================================

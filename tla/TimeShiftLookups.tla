--------------------------- MODULE TimeShiftLookups -------------------------
(***************************************************************************)
(* More proofs about TimeShiftBin: what a search of a tree of the index    *)
(* finds, and what the answers mean.                                       *)
(*                                                                         *)
(* A search returns the node of the value itself, or else the nearest one  *)
(* on the side asked for, though it goes down one path of the tree only.   *)
(* Visited defines that path by a recursive function.  Walk builds the     *)
(* function explicitly, so that CHOOSE finds it; VisitedNearest argues by  *)
(* the smallest part of the tree in which the search could miss a node.    *)
(*                                                                         *)
(* IInv of TimeShiftProofs knows that an answer is some entry at or below  *)
(* the value asked for.  LInv adds that nothing which matters is missing   *)
(* from the trees, so that, with SearchNearest, the answer is the nearest  *)
(* entry.                                                                  *)
(***************************************************************************)
EXTENDS TimeShiftProofs, FunctionTheorems, WellFoundedInduction

-----------------------------------------------------------------------------
(* The root of a tree                                                      *)

\* Of some subsets of a finite set, one is smallest.
LEMMA SmallestSubset ==
  ASSUME NEW D, IsFiniteSet(D), NEW T \in SUBSET SUBSET D, T # {}
  PROVE  \E X \in T : \A Y \in T : Y \subseteq X => Y = X
<1>. DEFINE R == StrictSubsetOrdering(D)
<1>1. IsWellFoundedOn(R, SUBSET D)
  BY FS_StrictSubsetOrderingWellFounded, FS_FiniteSubsetsOfFinite
<1>2. \E X \in T : \A Y \in T : ~ (<<Y, X>> \in R)
  BY <1>1, WFMin
<1>. QED
  BY <1>2 DEF StrictSubsetOrdering

\* Every rank is taken: of n integers, one has exactly k above it, k < n.
LEMMA Ranked ==
  ASSUME NEW S \in SUBSET Int, IsFiniteSet(S), NEW k \in Nat,
         k < Cardinality(S)
  PROVE  \E r \in S : Cardinality({v \in S : v > r}) = k
<1>. DEFINE above(r) == {v \in S : v > r}
            n == Cardinality(S)
            ranks == 0 .. n - 1
            rank == [r \in S |-> Cardinality(above(r))]
<1>1. n \in Nat /\ n # 0
  BY FS_CardinalityType
<1>2. \A r \in S : /\ IsFiniteSet(above(r)) /\ Cardinality(above(r)) \in Nat
                   /\ Cardinality(above(r)) < n
  <2>. TAKE r \in S
  <2>1. above(r) \in SUBSET S /\ r \notin above(r)
    OBVIOUS
  <2>2. /\ IsFiniteSet(above(r)) /\ Cardinality(above(r)) <= n
        /\ Cardinality(above(r)) # n
    BY <2>1, FS_Subset
  <2>3. Cardinality(above(r)) \in Nat
    BY <2>2, FS_CardinalityType
  <2>. QED
    BY <1>1, <2>2, <2>3
<1>3. rank \in [S -> ranks]
  BY <1>1, <1>2
<1>4. \A r, s \in S : r < s => rank[r] # rank[s]
  <2>. SUFFICES ASSUME NEW r \in S, NEW s \in S, r < s
                PROVE  rank[r] # rank[s]
    OBVIOUS
  <2>1. above(s) \in SUBSET above(r) /\ s \in above(r) /\ s \notin above(s)
    <3>1. ASSUME NEW u \in S, u > s
          PROVE  u > r
      BY <3>1
    <3>2. s > r /\ ~(s > s)
      OBVIOUS
    <3>. QED
      BY <3>1, <3>2
  <2>2. Cardinality(above(r)) # Cardinality(above(s))
    BY <1>2, <2>1, FS_Subset
  <2>. QED
    BY <2>2
<1>5. rank \in Injection(S, ranks)
  <2>1. \A r, s \in S : rank[r] = rank[s] => r = s
    BY <1>4
  <2>. QED
    BY <1>3, <2>1, Fun_IsInj
<1>6. IsFiniteSet(ranks) /\ Cardinality(ranks) = n
  <2>. HIDE DEF n
  <2>1. n - 1 \in Int /\ ~(0 > n - 1) /\ (n - 1) - 0 + 1 = n
    BY <1>1
  <2>. QED
    BY <2>1, FS_Interval
<1>7. rank \in Surjection(S, ranks)
  BY <1>5, <1>6, FS_Injection
<1>8. k \in ranks
  BY <1>1
<1>9. \E r \in S : rank[r] = k
  BY <1>7, <1>8 DEF Surjection
<1>. QED
  BY <1>9

\* A tree that is not empty has a root (Root: half of its values are above).
LEMMA RootIn ==
  ASSUME NEW S \in SUBSET Int, IsFiniteSet(S), S # {}
  PROVE  Root(S) \in S
<1>1. Cardinality(S) \in Nat /\ Cardinality(S) # 0
  BY FS_CardinalityType, FS_EmptySet
<1>2. Cardinality(S) \div 2 \in Nat /\ Cardinality(S) \div 2 < Cardinality(S)
  BY <1>1
<1>3. \E r \in S :
        Cardinality({v \in S : v > r}) = Cardinality(S) \div 2
  BY <1>2, Ranked
<1>. QED
  BY <1>3 DEF Root

-----------------------------------------------------------------------------
(* The path of a search                                                    *)

\* With a subtree that a search for v goes on from, F has the next one.
Closed(F, v) ==
  \A X \in F : X # {} /\ Root(X) # v => Towards(Root(X), v, X) \in F

\* The subtrees through which a search for v passes, S the first.
Path(D, v, S) ==
  {X \in SUBSET D :
     \A F \in SUBSET SUBSET D : S \in F /\ Closed(F, v) => X \in F}

\* Either side of a tree is a part of it (mem_index_search).
LEMMA TowardsSubset ==
  ASSUME NEW r, NEW v, NEW S
  PROVE  Towards(r, v, S) \in SUBSET S
  BY DEF Towards, LeftOf, RightOf

\* A path goes on until the tree is empty or its root is v.
LEMMA PathStep ==
  ASSUME NEW D, NEW v, NEW S \in SUBSET D
  PROVE  Path(D, v, S) =
           IF S = {} \/ Root(S) = v THEN {S}
           ELSE {S} \cup Path(D, v, Towards(Root(S), v, S))
<1>. DEFINE T == Towards(Root(S), v, S)
<1>1. S \in Path(D, v, S)
  BY DEF Path
<1>2. T \in SUBSET D
  BY TowardsSubset
<1>3. CASE S = {} \/ Root(S) = v
  <2>1. {S} \in SUBSET SUBSET D /\ Closed({S}, v)
    BY <1>3 DEF Closed
  <2>2. Path(D, v, S) \subseteq {S}
    BY <2>1 DEF Path
  <2>. QED
    BY <1>1, <1>3, <2>2
<1>4. CASE S # {} /\ Root(S) # v
  <2>. DEFINE F == {S} \cup Path(D, v, T)
  <2>1. F \in SUBSET SUBSET D
    BY DEF Path
  <2>2. T \in Path(D, v, T)
    BY <1>2 DEF Path
  <2>3. ASSUME NEW X \in Path(D, v, T), X # {}, Root(X) # v
        PROVE  Towards(Root(X), v, X) \in Path(D, v, T)
    <3>1. Towards(Root(X), v, X) \in SUBSET D
      BY TowardsSubset DEF Path
    <3>. QED
      BY <2>3, <3>1 DEF Path, Closed
  <2>4. Closed(F, v)
    BY <2>2, <2>3 DEF Closed
  <2>5. Path(D, v, S) \subseteq F
    BY <2>1, <2>4 DEF Path
  <2>6. Path(D, v, T) \subseteq Path(D, v, S)
    BY <1>4 DEF Path, Closed
  <2>. QED
    BY <1>1, <1>4, <2>5, <2>6
<1>. QED
  BY <1>3, <1>4

\* walk meets the recursive definition inside Visited.
IsWalk(walk, tree, v) ==
  walk = [S \in SUBSET DOMAIN tree |->
            IF S = {} THEN {}
            ELSE LET r == Root(S)
                 IN {r} \cup IF r = v THEN {} ELSE walk[Towards(r, v, S)]]

\* The recursive definition inside Visited has a solution.
LEMMA Walk ==
  ASSUME NEW tree, NEW v
  PROVE  \E W : IsWalk(W, tree, v)
<1>. DEFINE D == DOMAIN tree
            W == [S \in SUBSET D |->
                    {Root(X) : X \in Path(D, v, S) \ {{}}}]
            value(S) == IF S = {} THEN {}
                        ELSE {Root(S)} \cup IF Root(S) = v THEN {}
                                            ELSE W[Towards(Root(S), v, S)]
<1>1. ASSUME NEW S \in SUBSET D
      PROVE  W[S] = value(S)
  <2>1. Towards(Root(S), v, S) \in SUBSET D
    BY TowardsSubset
  <2>2. \A T \in SUBSET D : W[T] = {Root(X) : X \in Path(D, v, T) \ {{}}}
    OBVIOUS
  <2>. HIDE DEF W
  <2>3. CASE S = {}
    <3>1. Path(D, v, S) \ {{}} = {}
      BY <2>3, PathStep
    <3>. QED
      BY <2>2, <2>3, <3>1
  <2>4. CASE S # {} /\ Root(S) = v
    <3>1. Path(D, v, S) = {S}
      BY <2>4, PathStep
    <3>2. W[S] = {Root(X) : X \in {S}}
      BY <2>2, <2>4, <3>1
    <3>. QED
      BY <2>4, <3>2
  <2>5. CASE S # {} /\ Root(S) # v
    <3>. DEFINE T == Towards(Root(S), v, S)
    <3>1. Path(D, v, S) = {S} \cup Path(D, v, T)
      BY <2>5, PathStep
    <3>2. W[S] = {Root(S)} \cup {Root(X) : X \in Path(D, v, T) \ {{}}}
      BY <2>2, <2>5, <3>1
    <3>. QED
      BY <2>1, <2>2, <2>5, <3>2
  <2>. QED
    BY <2>3, <2>4, <2>5
<1>2. IsWalk(W, tree, v)
  BY <1>1 DEF IsWalk
<1>. QED
  BY <1>2

\* No value of S is between w and v.
Nearest(w, v, S) ==
  /\ w \in S
  /\ \/ w = v
     \/ w < v /\ ~ \E u \in S : w < u /\ u <= v
     \/ w > v /\ ~ \E u \in S : v <= u /\ u < w

\* The search for v looks at the nearest values on both sides, and at v: when
\* it turns away from a side, the root it leaves is nearer than all of that
\* side (mem_index_search).
LEMMA VisitedNearest ==
  ASSUME NEW tree, DOMAIN tree \subseteq Int, IsFiniteSet(DOMAIN tree),
         NEW v \in Int, NEW w, Nearest(w, v, DOMAIN tree)
  PROVE  w \in Visited(tree, v)
<1>. DEFINE D == DOMAIN tree
            walk[S \in SUBSET DOMAIN tree] ==
              IF S = {} THEN {}
              ELSE LET r == Root(S)
                   IN {r} \cup IF r = v THEN {} ELSE walk[Towards(r, v, S)]
            found(S) == \A x \in S : Nearest(x, v, S) => x \in walk[S]
<1>1. Visited(tree, v) = {x \in D : x \in walk[D]}
  BY DEF Visited
<1>2. walk = [S \in SUBSET DOMAIN tree |->
                IF S = {} THEN {}
                ELSE LET r == Root(S)
                     IN {r} \cup IF r = v THEN {} ELSE walk[Towards(r, v, S)]]
  <2>1. PICK W : IsWalk(W, tree, v)
    BY Walk
  <2>. QED
    BY <2>1 DEF IsWalk
<1>. HIDE DEF walk
<1>3. ASSUME NEW S \in SUBSET D,
             \A T \in SUBSET S : T # S => found(T)
      PROVE  found(S)
  <2>. SUFFICES ASSUME NEW x \in S, Nearest(x, v, S)
                PROVE  x \in walk[S]
    OBVIOUS
  <2>. DEFINE r == Root(S)
              T == Towards(r, v, S)
  <2>1. r \in S /\ S \subseteq Int
    <3>1. IsFiniteSet(S)
      BY FS_Subset
    <3>. QED
      BY <3>1, RootIn
  <2>2. walk[S] = {r} \cup IF r = v THEN {} ELSE walk[T]
    BY <1>2
  <2>3. CASE x = r
    BY <2>2, <2>3
  <2>4. CASE x # r
    <3>1. r # v /\ x \in T /\ Nearest(x, v, T) /\ r \notin T
      BY <2>1, <2>4 DEF Nearest, Towards, LeftOf, RightOf
    <3>2. T \in SUBSET S /\ T # S
      BY <2>1, <3>1, TowardsSubset
    <3>3. x \in walk[T]
      BY <1>3, <3>1, <3>2
    <3>. QED
      BY <2>2, <3>1, <3>3
  <2>. QED
    BY <2>3, <2>4
<1>4. \A S \in SUBSET D : found(S)
  <2>. DEFINE lost == {S \in SUBSET D : ~ found(S)}
  <2>. HIDE DEF found
  <2>1. SUFFICES ASSUME lost # {} PROVE FALSE
    OBVIOUS
  <2>2. PICK S \in lost : \A T \in lost : T \subseteq S => T = S
    <3>1. lost \in SUBSET SUBSET D
      OBVIOUS
    <3>. HIDE DEF lost
    <3>. QED
      BY <2>1, <3>1, SmallestSubset
  <2>3. \A T \in SUBSET S : T # S => found(T)
    BY <2>2
  <2>. QED
    BY <1>3, <2>2, <2>3
<1>. QED
  BY <1>1, <1>4 DEF Nearest

-----------------------------------------------------------------------------
(* The answers                                                             *)

\* A finite set of integers has a greatest one.
LEMMA Greatest ==
  ASSUME NEW S \in SUBSET Int, IsFiniteSet(S), S # {}
  PROVE  \E r \in S : \A u \in S : u <= r
<1>1. Cardinality(S) \in Nat /\ 0 < Cardinality(S)
  BY FS_CardinalityType, FS_EmptySet
<1>2. PICK r \in S : Cardinality({u \in S : u > r}) = 0
  BY <1>1, Ranked
<1>3. {u \in S : u > r} = {}
  <2>1. IsFiniteSet({u \in S : u > r})
    BY FS_Subset
  <2>. QED
    BY <1>2, <2>1, FS_EmptySet
<1>. QED
  BY <1>3

\* A finite set of integers has a smallest one.
LEMMA Smallest ==
  ASSUME NEW S \in SUBSET Int, IsFiniteSet(S), S # {}
  PROVE  \E r \in S : \A u \in S : u >= r
<1>1. Cardinality(S) \in Nat /\ 0 < Cardinality(S)
  BY FS_CardinalityType, FS_EmptySet
<1>2. PICK r \in S : Cardinality({u \in S : u > r}) = Cardinality(S) - 1
  BY <1>1, Ranked
<1>3. {u \in S : u > r} = S \ {r}
  <2>1. IsFiniteSet(S \ {r}) /\ Cardinality(S \ {r}) = Cardinality(S) - 1
    BY FS_RemoveElement
  <2>2. {u \in S : u > r} \in SUBSET (S \ {r})
    OBVIOUS
  <2>. QED
    BY <1>2, <2>1, <2>2, FS_Subset
<1>. QED
  BY <1>3

\* There is one nearest value on a side that has values.
LEMMA Sides ==
  ASSUME NEW D \in SUBSET Int, IsFiniteSet(D), NEW v \in Int
  PROVE  /\ (\E u \in D : u < v) => \E w : Lower(D, v) = {w}
         /\ (\E u \in D : u > v) => \E w : Higher(D, v) = {w}
<1>1. ASSUME NEW u \in D, u < v
      PROVE  \E w : Lower(D, v) = {w}
  <2>. DEFINE below == {x \in D : x < v}
  <2>1. below \in SUBSET Int /\ IsFiniteSet(below) /\ below # {}
    BY <1>1, FS_Subset
  <2>2. PICK w \in below : \A x \in below : x <= w
    BY <2>1, Greatest
  <2>3. w \in Lower(D, v)
    BY <2>2 DEF Lower
  <2>4. ASSUME NEW x \in Lower(D, v)
        PROVE  x = w
    <3>1. x \in Int /\ w \in Int /\ x <= w /\ w <= x
      BY <2>2 DEF Lower
    <3>. QED
      BY <3>1
  <2>. QED
    BY <2>3, <2>4
<1>2. ASSUME NEW u \in D, u > v
      PROVE  \E w : Higher(D, v) = {w}
  <2>. DEFINE above == {x \in D : x > v}
  <2>1. above \in SUBSET Int /\ IsFiniteSet(above) /\ above # {}
    BY <1>2, FS_Subset
  <2>2. PICK w \in above : \A x \in above : x >= w
    BY <2>1, Smallest
  <2>3. w \in Higher(D, v)
    BY <2>2 DEF Higher
  <2>4. ASSUME NEW x \in Higher(D, v)
        PROVE  x = w
    <3>1. x \in Int /\ w \in Int /\ x <= w /\ w <= x
      BY <2>2 DEF Higher
    <3>. QED
      BY <3>1
  <2>. QED
    BY <2>3, <2>4
<1>. QED
  BY <1>1, <1>2

\* What a search remembers is what the whole tree would have told.
LEMMA SidesVisited ==
  ASSUME NEW tree, DOMAIN tree \in SUBSET Int, IsFiniteSet(DOMAIN tree),
         NEW v \in Int, v \notin DOMAIN tree
  PROVE  /\ Lower(Visited(tree, v), v) = Lower(DOMAIN tree, v)
         /\ Higher(Visited(tree, v), v) = Higher(DOMAIN tree, v)
<1>. DEFINE D == DOMAIN tree
            seen == Visited(tree, v)
<1>1. seen \in SUBSET D
  BY DEF Visited
<1>2. ASSUME NEW w \in Lower(D, v)
      PROVE  w \in seen
  <2>1. w \in D /\ w < v /\ \A u \in D : u < v => u <= w
    BY DEF Lower
  <2>2. Nearest(w, v, D)
    BY <2>1 DEF Nearest
  <2>. QED
    BY <2>2, VisitedNearest
<1>3. ASSUME NEW w \in Higher(D, v)
      PROVE  w \in seen
  <2>1. w \in D /\ w > v /\ \A u \in D : u > v => u >= w
    BY DEF Higher
  <2>2. Nearest(w, v, D)
    BY <2>1 DEF Nearest
  <2>. QED
    BY <2>2, VisitedNearest
<1>4. Lower(seen, v) = Lower(D, v)
  <2>1. Lower(D, v) \subseteq Lower(seen, v)
    BY <1>1, <1>2 DEF Lower
  <2>2. ASSUME NEW w \in Lower(seen, v)
        PROVE  w \in Lower(D, v)
    <3>1. w \in D /\ w < v
      BY <1>1 DEF Lower
    <3>2. PICK x : Lower(D, v) = {x}
      BY <3>1, Sides
    <3>3. x \in seen /\ x < v /\ x \in D
      BY <1>2, <3>2 DEF Lower
    <3>4. x <= w /\ w <= x
      BY <3>1, <3>2, <3>3 DEF Lower
    <3>. QED
      BY <3>1, <3>2, <3>3, <3>4
  <2>. QED
    BY <2>1, <2>2
<1>5. Higher(seen, v) = Higher(D, v)
  <2>1. Higher(D, v) \subseteq Higher(seen, v)
    BY <1>1, <1>3 DEF Higher
  <2>2. ASSUME NEW w \in Higher(seen, v)
        PROVE  w \in Higher(D, v)
    <3>1. w \in D /\ w > v
      BY <1>1 DEF Higher
    <3>2. PICK x : Higher(D, v) = {x}
      BY <3>1, Sides
    <3>3. x \in seen /\ x > v /\ x \in D
      BY <1>3, <3>2 DEF Higher
    <3>4. x >= w /\ w >= x
      BY <3>1, <3>2, <3>3 DEF Higher
    <3>. QED
      BY <3>1, <3>2, <3>3, <3>4
  <2>. QED
    BY <2>1, <2>2
<1>. QED
  BY <1>4, <1>5

\* gst_flutsmemindex_get_assoc_entry returns the entry of the value asked
\* for, or of the nearest value on the side of the method, and NULL only when
\* that side is empty, in the tree of any finite set of values.
THEOREM SearchNearest ==
  ASSUME NEW tree, DOMAIN tree \in SUBSET Int, IsFiniteSet(DOMAIN tree),
         NEW v \in Int
  PROVE  IF v \in DOMAIN tree
         THEN \A method : Search(tree, method, v) = {tree[v].value}
         ELSE /\ Search(tree, "exact", v) = {}
              /\ Search(tree, "before", v) =
                   {tree[w].key : w \in Lower(DOMAIN tree, v)}
              /\ Search(tree, "after", v) =
                   {tree[w].key : w \in Higher(DOMAIN tree, v)}
<1>1. CASE v \in DOMAIN tree
  <2>1. v \in Visited(tree, v)
    BY <1>1, VisitedNearest DEF Nearest
  <2>. QED
    BY <1>1, <2>1 DEF Search
<1>2. CASE v \notin DOMAIN tree
  <2>1. v \notin Visited(tree, v)
    BY <1>2 DEF Visited
  <2>. QED
    BY <1>2, <2>1, SidesVisited DEF Search
<1>. QED
  BY <1>1, <1>2

-----------------------------------------------------------------------------
(* The invariant                                                           *)

\* The entry that the tree of a format does not know yet.
Missing(f) == IF inserting = "time" \/ inserting = f THEN entry ELSE {}

\* One entry at most is being inserted; each tree knows all others.
TreesOK ==
  /\ \A f \in Formats :
       /\ IsFiniteSet(DOMAIN Tree(f))
       /\ \A e \in associations : e \in Missing(f) \/ e[f] \in DOMAIN Tree(f)
  /\ \A e, o \in entry : e = o

\* An entry is made before the cache has its packet.
AheadOK == chain # "idle" => \A e \in entry : e.bytes >= Len(content)

\* The entries at or before the offset v, and the last of them.
UpTo(v) == {e \in associations : e.bytes <= v}
LastUpTo(v) == {e \in UpTo(v) : \A o \in UpTo(v) : o.bytes <= e.bytes}
\* What bytes_to_stream_time should tell of the offset v.
Timed(v, time) ==
  \/ UpTo(v) = {} /\ time = IF v = 0 THEN 0 ELSE NoTime
  \/ \E e \in LastUpTo(v) : time = e.time

\* A buffer is stamped only after its SEGMENT, whose time stays the right one
\* until then.
StampOK ==
  /\ loop = "idle" /\ timestamp_next_buffer => need_newsegment
  /\ goal # {} /\ ~need_newsegment => loop = "push" /\ timestamp_next_buffer
  /\ "race" \notin env /\ loop = "push" /\ timestamp_next_buffer =>
       Timed(buffer, segment)

\* The duration is looked up before the end of what the cache has.
ToldOK ==
  Undisturbed =>
    /\ app = "duration" => len <= Len(content)
    /\ app = "told" /\ target # NoTime =>
         base_time # None /\ \E i \in 1 .. Len(content) : IsAt(i, target)

\* Packets come one by one and their PCR does not jump.
Steady ==
  /\ env \cap {"jump", "blocks", "latepmt", "overrun", "restart"} = {}
  /\ delta > 0

\* An entry lies less than delta before the PCR.
Covered(pcr) ==
  \E e \in associations :
    /\ e.time + base_time <= MPEGTIME_TO_GSTTIME(pcr)
    /\ MPEGTIME_TO_GSTTIME(pcr) < e.time + base_time + delta

\* Each PCR is covered, and the last entry covers those up to the next one.
CloseOK ==
  Steady =>
    /\ last_time # None =>
         /\ \E e \in associations : e.time = last_time
         /\ last_time + base_time <= MPEGTIME_TO_GSTTIME(clock)
    /\ \A i \in 1 .. Len(Stream) :
         Stream[i].pcr # None => Covered(Stream[i].pcr)

\* With IInv, inductive.
LInv == TreesOK /\ AheadOK /\ StampOK /\ ToldOK /\ CloseOK

-----------------------------------------------------------------------------
(* What changes what                                                       *)

\* The index and the indexer change by upstream's steps; the cache grows by a
\* push, and a restart, which only some scenarios have, empties it.
LEMMA UpstreamSteps ==
  ASSUME IInv, [Next]_vars
  PROVE  /\ env' = env /\ delta' = delta
         /\ \/ ChainCollect \/ ChainAddTime \/ ChainAddBytes \/ ChainPush
            \/ /\ UNCHANGED <<associations, byTime, byBytes, inserting, chain,
                              data, entry, clock, base_time, last_time>>
               /\ \/ content' = content
                  \/ "restart" \in env /\ content' = <<>> /\ chain = "idle"
<1>. DEFINE Kept == UNCHANGED <<associations, byTime, byBytes, inserting,
                                chain, data, entry, clock, base_time,
                                last_time, env, delta>>
<1>1. ASSUME UNCHANGED <<env, index, indexer, upstream, content>>
      PROVE  Kept /\ content' = content
  BY <1>1 DEF index, indexer, settings, progress, upstream
<1>2. CASE ChainCollect \/ ChainAddTime \/ ChainAddBytes \/ ChainPush
  <2>1. env' = env /\ delta' = delta
    BY <1>2 DEF ChainCollect, ChainAddTime, ChainAddBytes, ChainPush,
                TransformIp, indexer, settings
  <2>. QED
    BY <1>2, <2>1
<1>3. CASE Pmt
  BY <1>3 DEF Pmt, SetPcrPid, index, upstream, cache, progress
<1>4. CASE Restart
  BY <1>4 DEF Restart, IndexerStart, upstream, progress, IInv, TypesOK,
              IndexerOK
<1>5. CASE LoopPop \/ LoopSegment \/ LoopPush
  <2>1. UNCHANGED <<env, index, indexer, upstream, content>>
    BY <1>5 DEF LoopPop, LoopSegment, LoopPush, cache
  <2>. QED
    BY <1>1, <2>1
<1>6. CASE \/ SeekSet \/ SeekEnd \/ SeekEndFound \/ AskDuration
           \/ TellDuration \/ HearDuration \/ SeekFind \/ SeekCheck
           \/ SeekReposition
  <2>1. UNCHANGED <<env, index, indexer, upstream, content>>
    BY <1>6 DEF SeekSet, SeekEnd, SeekEndFound, AskDuration, TellDuration,
                HearDuration, SeekFind, SeekCheck, SeekReposition, cache
  <2>. QED
    BY <1>1, <2>1
<1>7. CASE UNCHANGED vars
  <2>1. UNCHANGED <<env, index, indexer, upstream, content>>
    BY <1>7 DEF vars, cache
  <2>. QED
    BY <1>1, <2>1
<1>. QED
  BY <1>2, <1>3, <1>4, <1>5, <1>6, <1>7 DEF Next

\* The loop's variables change by its own steps, a seek and a restart.
LEMMA PlaySteps ==
  ASSUME [Next]_vars
  PROVE  \/ LoopPop \/ LoopSegment \/ LoopPush \/ SeekReposition \/ Restart
         \/ UNCHANGED <<loop, buffer, need_newsegment, timestamp_next_buffer,
                        goal, segment, stamp>>
<1>1. CASE \/ Pmt \/ ChainCollect \/ ChainAddTime \/ ChainAddBytes
           \/ ChainPush
  BY <1>1 DEF Pmt, ChainCollect, ChainAddTime, ChainAddBytes, ChainPush,
              playing, asking, told
<1>2. CASE \/ SeekSet \/ SeekEnd \/ SeekEndFound \/ AskDuration
           \/ TellDuration \/ HearDuration \/ SeekFind \/ SeekCheck
  BY <1>2 DEF SeekSet, SeekEnd, SeekEndFound, AskDuration, TellDuration,
              HearDuration, SeekFind, SeekCheck, playing, told
<1>3. CASE UNCHANGED vars
  BY <1>3 DEF vars, playing, asking, told
<1>. QED
  BY <1>1, <1>2, <1>3 DEF Next

\* A question about the duration changes by its own steps.
LEMMA AskSteps ==
  ASSUME [Next]_vars
  PROVE  \/ AskDuration \/ TellDuration
         \/ app' \notin {"duration", "told"}
         \/ UNCHANGED <<app, target, len>>
<1>1. CASE \/ Pmt \/ ChainCollect \/ ChainAddTime \/ ChainAddBytes
           \/ ChainPush
  BY <1>1 DEF Pmt, ChainCollect, ChainAddTime, ChainAddBytes, ChainPush,
              asking
<1>2. CASE LoopPop \/ LoopSegment \/ LoopPush \/ Restart
  BY <1>2 DEF LoopPop, LoopSegment, LoopPush, Restart, asking
<1>3. CASE \/ SeekSet \/ SeekEnd \/ SeekEndFound \/ HearDuration
           \/ SeekFind \/ SeekReposition
  BY <1>3 DEF SeekSet, SeekEnd, SeekEndFound, HearDuration, SeekFind,
              SeekReposition
<1>4. CASE SeekCheck
  BY <1>4 DEF SeekCheck
<1>5. CASE UNCHANGED vars
  BY <1>5 DEF vars, asking
<1>. QED
  BY <1>1, <1>2, <1>3, <1>4, <1>5 DEF Next

\* Once there has been a first PCR, it stays the first.
LEMMA BaseStays ==
  ASSUME IInv, [Next]_vars, base_time # None
  PROVE  base_time' = base_time
<1>1. CASE ChainCollect
  BY <1>1, CollectStep DEF BaseTime
<1>2. CASE ChainAddTime \/ ChainAddBytes \/ ChainPush
  BY <1>2 DEF ChainAddTime, ChainAddBytes, ChainPush, indexer, progress
<1>. QED
  BY <1>1, <1>2, UpstreamSteps

-----------------------------------------------------------------------------
(* The trees                                                               *)

\* Only values of entries are in a tree.
LEMMA TreeValues ==
  ASSUME IInv, NEW f \in Formats
  PROVE  /\ DOMAIN Tree(f) \in SUBSET Int
         /\ \A e \in associations : e[f] \in Int
         /\ \A v \in DOMAIN Tree(f) :
              /\ Tree(f)[v].key \in associations /\ Tree(f)[v].key[f] = v
              /\ Tree(f)[v].value \in associations /\ Tree(f)[v].value[f] = v
<1>1. NodesOK(Tree(f), f) /\ associations \subseteq Entry
  BY DEF IInv, TypesOK, IndexOK, Formats, Tree
<1>2. \A e \in Entry : e[f] \in Int
  BY DEF Entry, Formats
<1>. QED
  BY <1>1, <1>2 DEF NodesOK

\* An insertion adds one value to one tree.
LEMMA TreesInv == IInv /\ LInv /\ [Next]_vars => TreesOK'
<1>. SUFFICES ASSUME IInv, LInv, [Next]_vars
              PROVE  TreesOK'
  OBVIOUS
<1>. DEFINE Known(f) == \A e \in associations :
                          e \in Missing(f) \/ e[f] \in DOMAIN Tree(f)
<1>1. /\ \A f \in Formats : IsFiniteSet(DOMAIN Tree(f)) /\ Known(f)
      /\ \A e, o \in entry : e = o
  BY DEF LInv, TreesOK
<1>2. inserting # "none" <=> chain = "index"
  BY DEF IInv, TypesOK, InsertOK
<1>3. CASE UNCHANGED <<associations, byTime, byBytes, inserting, entry>>
  BY <1>1, <1>3 DEF TreesOK, Missing, Tree
<1>4. CASE ChainPush
  <2>1. /\ UNCHANGED <<associations, byTime, byBytes, inserting>>
        /\ entry' = {} /\ inserting = "none"
    BY <1>2, <1>4 DEF ChainPush, index, IInv, TypesOK, InsertOK
  <2>2. \A f \in Formats : Missing(f) = {} /\ Missing(f)' = {}
    BY <2>1 DEF Missing, Formats
  <2>. QED
    BY <1>1, <2>1, <2>2 DEF TreesOK, Tree
<1>5. CASE ChainCollect
  <2>1. inserting = "none"
    BY <1>2, <1>5, CollectStep DEF IInv, TypesOK, InsertOK
  <2>2. \A f \in Formats, e \in associations : e[f] \in DOMAIN Tree(f)
    BY <1>1, <2>1 DEF Missing, Formats
  <2>3. /\ UNCHANGED <<byTime, byBytes>>
        /\ \/ entry' = {} /\ UNCHANGED <<associations, inserting>>
           \/ \E e : /\ entry' = {e}
                     /\ associations' = associations \cup {e}
                     /\ inserting' = "time"
    BY <1>5, CollectStep
  <2>4. CASE entry' = {} /\ UNCHANGED <<associations, inserting>>
    BY <1>1, <2>2, <2>3, <2>4 DEF TreesOK, Tree
  <2>5. ASSUME NEW e, entry' = {e}, inserting' = "time",
               associations' = associations \cup {e}
        PROVE  TreesOK'
    BY <1>1, <2>2, <2>3, <2>5 DEF TreesOK, Tree, Missing
  <2>. QED
    BY <2>3, <2>4, <2>5
<1>6. CASE ChainAddTime
  <2>1. PICK e \in entry : AddTime(e)
    BY <1>6 DEF ChainAddTime
  <2>2. /\ inserting = "time" /\ inserting' = "bytes"
        /\ byTime' = IndexFormat(byTime, "time", e)
        /\ UNCHANGED <<associations, byBytes, entry>>
    BY <1>6, <2>1 DEF ChainAddTime, AddTime, upstream
  <2>3. entry = {e}
    BY <1>1
  <2>4. DOMAIN byTime' = DOMAIN byTime \cup {e["time"]}
    BY <2>2 DEF IndexFormat
  <2>5. IsFiniteSet(DOMAIN byTime) /\ IsFiniteSet(DOMAIN byBytes)
    BY <1>1 DEF Formats, Tree
  <2>6. IsFiniteSet(DOMAIN byTime')
    BY <2>4, <2>5, FS_AddElement
  <2>7. /\ \A o \in associations : o \in entry \/ o["time"] \in DOMAIN byTime
        /\ \A o \in associations : o \in entry \/ o["bytes"] \in DOMAIN byBytes
    BY <1>1, <2>2 DEF Formats, Tree, Missing
  <2>. QED
    BY <1>1, <2>2, <2>3, <2>4, <2>5, <2>6, <2>7
    DEF TreesOK, Formats, Tree, Missing
<1>7. CASE ChainAddBytes
  <2>1. PICK e \in entry : AddBytes(e)
    BY <1>7 DEF ChainAddBytes
  <2>2. /\ inserting = "bytes" /\ inserting' = "none"
        /\ byBytes' = IndexFormat(byBytes, "bytes", e)
        /\ UNCHANGED <<associations, byTime, entry>>
    BY <1>7, <2>1 DEF ChainAddBytes, AddBytes
  <2>3. entry = {e}
    BY <1>1
  <2>4. DOMAIN byBytes' = DOMAIN byBytes \cup {e["bytes"]}
    BY <2>2 DEF IndexFormat
  <2>5. IsFiniteSet(DOMAIN byTime) /\ IsFiniteSet(DOMAIN byBytes)
    BY <1>1 DEF Formats, Tree
  <2>6. IsFiniteSet(DOMAIN byBytes')
    BY <2>4, <2>5, FS_AddElement
  <2>7. /\ \A o \in associations : o["time"] \in DOMAIN byTime
        /\ \A o \in associations : o \in entry \/ o["bytes"] \in DOMAIN byBytes
    BY <1>1, <2>2 DEF Formats, Tree, Missing
  <2>. QED
    BY <1>1, <2>2, <2>3, <2>4, <2>5, <2>6, <2>7
    DEF TreesOK, Formats, Tree, Missing
<1>. QED
  BY <1>3, <1>4, <1>5, <1>6, <1>7, UpstreamSteps

\* In a tree that knows all entries a search finds one of the nearest.
LEMMA TreeNearest ==
  ASSUME IInv, NEW f \in Formats, IsFiniteSet(DOMAIN Tree(f)),
         \A e \in associations : e[f] \in DOMAIN Tree(f)
  PROVE  AnswersNearest(Tree(f), f)
<1>. DEFINE D == DOMAIN Tree(f)
<1>1. /\ D \in SUBSET Int
      /\ \A e \in associations : e[f] \in D
      /\ \A w \in D :
           /\ Tree(f)[w].key \in associations /\ Tree(f)[w].key[f] = w
           /\ Tree(f)[w].value \in associations /\ Tree(f)[w].value[f] = w
  BY TreeValues
<1>2. \A x : Cardinality({x}) = 1
  BY FS_Singleton
<1>3. Cardinality({}) = 0
  BY FS_EmptySet
<1>4. ASSUME NEW method \in {"exact", "before", "after"}, NEW v \in Int
      PROVE  LET found == Search(Tree(f), method, v)
             IN \/ found = {} /\ Right(f, method, v) = {}
                \/ \E x \in Right(f, method, v) : found = {x}
  <2>1. CASE v \in D
    <3>1. Search(Tree(f), method, v) = {Tree(f)[v].value}
      BY <1>1, <2>1, SearchNearest
    <3>2. Tree(f)[v].value \in Right(f, method, v)
      BY <1>1, <2>1 DEF Right
    <3>. QED
      BY <3>1, <3>2
  <2>2. CASE v \notin D
    <3>1. {e \in associations : e[f] = v} = {}
      BY <1>1, <2>2
    <3>2. CASE method = "exact"
      <4>1. Search(Tree(f), method, v) = {}
        BY <1>1, <2>2, <3>2, SearchNearest
      <4>2. Right(f, method, v) = {}
        BY <3>1, <3>2 DEF Right
      <4>. QED
        BY <4>1, <4>2
    <3>3. CASE method = "before"
      <4>1. Search(Tree(f), method, v) = {Tree(f)[w].key : w \in Lower(D, v)}
        BY <1>1, <2>2, <3>3, SearchNearest
      <4>2. Right(f, method, v) =
              {e \in associations :
                 /\ e[f] < v
                 /\ \A o \in associations : o[f] < v => o[f] <= e[f]}
        BY <3>1, <3>3 DEF Right
      <4>3. CASE \E u \in D : u < v
        <5>1. PICK w : Lower(D, v) = {w}
          BY <1>1, <4>3, Sides
        <5>2. w \in D /\ w < v /\ \A u \in D : u < v => u <= w
          BY <5>1 DEF Lower
        <5>3. Tree(f)[w].key \in Right(f, method, v)
          BY <1>1, <4>2, <5>2
        <5>. QED
          BY <4>1, <5>1, <5>3
      <4>4. CASE ~ \E u \in D : u < v
        <5>1. Lower(D, v) = {}
          BY <4>4 DEF Lower
        <5>2. Right(f, method, v) = {}
          BY <1>1, <4>2, <4>4
        <5>. QED
          BY <4>1, <5>1, <5>2
      <4>. QED
        BY <4>3, <4>4
    <3>4. CASE method = "after"
      <4>1. Search(Tree(f), method, v) = {Tree(f)[w].key : w \in Higher(D, v)}
        BY <1>1, <2>2, <3>4, SearchNearest
      <4>2. Right(f, method, v) =
              {e \in associations :
                 /\ e[f] > v
                 /\ \A o \in associations : o[f] > v => o[f] >= e[f]}
        BY <3>1, <3>4 DEF Right
      <4>3. CASE \E u \in D : u > v
        <5>1. PICK w : Higher(D, v) = {w}
          BY <1>1, <4>3, Sides
        <5>2. w \in D /\ w > v /\ \A u \in D : u > v => u >= w
          BY <5>1 DEF Higher
        <5>3. Tree(f)[w].key \in Right(f, method, v)
          BY <1>1, <4>2, <5>2
        <5>. QED
          BY <4>1, <5>1, <5>3
      <4>4. CASE ~ \E u \in D : u > v
        <5>1. Higher(D, v) = {}
          BY <4>4 DEF Higher
        <5>2. Right(f, method, v) = {}
          BY <1>1, <4>2, <4>4
        <5>. QED
          BY <4>1, <5>1, <5>2
      <4>. QED
        BY <4>3, <4>4
    <3>. QED
      BY <3>2, <3>3, <3>4
  <2>. QED
    BY <2>1, <2>2
<1>5. Around(f) \subseteq Int
  BY <1>1 DEF Around
<1>6. ASSUME NEW method \in {"exact", "before", "after"},
             NEW v \in Around(f)
      PROVE  LET found == Search(Tree(f), method, v)
             IN /\ found \subseteq Right(f, method, v)
                /\ Cardinality(found) =
                     IF Right(f, method, v) = {} THEN 0 ELSE 1
  <2>1. CASE /\ Search(Tree(f), method, v) = {}
             /\ Right(f, method, v) = {}
    BY <1>3, <2>1
  <2>2. CASE \E x \in Right(f, method, v) :
               Search(Tree(f), method, v) = {x}
    BY <1>2, <2>2
  <2>. QED
    BY <1>4, <1>5, <2>1, <2>2
<1>. QED
  BY <1>6 DEF AnswersNearest

-----------------------------------------------------------------------------
(* The entries ahead of the cache, and the time of an offset               *)

\* A new entry is of a packet on its way to the cache, which takes what comes
\* before it first.
LEMMA AheadInv == IInv /\ LInv /\ [Next]_vars => AheadOK'
<1>. SUFFICES ASSUME IInv, LInv, [Next]_vars
              PROVE  AheadOK'
  OBVIOUS
<1>1. CASE ChainCollect
  <2>1. /\ content' = content
        /\ Len(content) + Len(data) <= current_offset
        /\ data = <<>> /\ content \in Seq(Packet) /\ current_offset \in Nat
        /\ data' \in Seq(Packet)
    <3>1. data = <<>> /\ data' \in Seq(Packet) /\ UNCHANGED cache
      BY <1>1, CollectStep
    <3>. QED
      BY <3>1 DEF cache, IInv, TypesOK, UpstreamOK, IndexerOK
  <2>2. \/ entry' = {}
        \/ \E i \in 1 .. Len(data') : entry' = {EntryAt(data', i)}
    BY <1>1, CollectStep
  <2>3. \A i \in 1 .. Len(data') :
          EntryAt(data', i).bytes >= Len(content)
    BY <2>1 DEF EntryAt
  <2>. QED
    BY <2>1, <2>2, <2>3 DEF AheadOK
<1>2. CASE ChainAddTime
  BY <1>2 DEF ChainAddTime, upstream, cache, LInv, AheadOK
<1>3. CASE ChainAddBytes
  BY <1>3 DEF ChainAddBytes, cache, LInv, AheadOK
<1>4. CASE ChainPush
  BY <1>4 DEF ChainPush, AheadOK
<1>5. CASE /\ UNCHANGED <<chain, entry>>
           /\ content' = content \/ chain = "idle"
  BY <1>5 DEF LInv, AheadOK
<1>. QED
  BY <1>1, <1>2, <1>3, <1>4, <1>5, UpstreamSteps

\* The time of an offset is one time.
LEMMA TimedOnce ==
  ASSUME IInv, NEW v \in Int, NEW s, Timed(v, s), NEW t, Timed(v, t)
  PROVE  s = t
<1>1. \A e, o \in LastUpTo(v) : e.time = o.time
  <2>1. \A e \in associations : e.bytes \in Int
    BY DEF IInv, TypesOK, IndexOK, Entry
  <2>2. \A e, o \in LastUpTo(v) :
          /\ e \in associations /\ o \in associations
          /\ e.bytes <= o.bytes /\ o.bytes <= e.bytes
    BY DEF LastUpTo, UpTo
  <2>3. \A e, o \in LastUpTo(v) : e.bytes = o.bytes
    BY <2>1, <2>2
  <2>. QED
    BY <2>2, <2>3 DEF IInv, OrderOK
<1>. QED
  BY <1>1 DEF Timed, LastUpTo

\* What the loop looks up is the time of the offset, unless a search runs
\* into an insertion: an entry that is not yet in the tree is of no packet
\* that the cache has.
LEMMA LookupTimed ==
  ASSUME IInv, LInv, "race" \notin env, NEW v \in Nat, v < Len(content),
         NEW found \in Before("bytes", v)
  PROVE  Timed(v, BytesToStreamTime(found, v))
<1>. DEFINE tree == Tree("bytes")
            D == DOMAIN tree
<1>1. found = Search(tree, "before", v)
  BY DEF Before, Answers
<1>2. /\ D \in SUBSET Int /\ IsFiniteSet(D)
      /\ \A e \in associations : e.bytes \in Int
      /\ \A w \in D :
           /\ tree[w].key \in associations /\ tree[w].key.bytes = w
           /\ tree[w].value \in associations /\ tree[w].value.bytes = w
  BY TreeValues DEF LInv, TreesOK, Formats
<1>3. \A e \in UpTo(v) : e.bytes \in D
  <2>1. \A e \in UpTo(v) : e \in associations /\ e.bytes <= v
    BY DEF UpTo
  <2>2. inserting # "none" => chain = "index"
    BY DEF IInv, TypesOK, InsertOK
  <2>3. Len(content) \in Nat
    BY DEF IInv, TypesOK, UpstreamOK
  <2>4. \A e \in UpTo(v) : e \notin Missing("bytes")
    BY <1>2, <2>1, <2>2, <2>3 DEF Missing, LInv, AheadOK
  <2>. QED
    BY <2>1, <2>4 DEF LInv, TreesOK, Formats
<1>4. CASE v \in D
  <2>1. found = {tree[v].value}
    BY <1>1, <1>2, <1>4, SearchNearest
  <2>2. Of(found) = tree[v].value
    BY <2>1 DEF Of
  <2>3. Of(found) \in LastUpTo(v)
    BY <1>2, <1>4, <2>2 DEF LastUpTo, UpTo
  <2>. QED
    BY <2>1, <2>3 DEF Timed, BytesToStreamTime
<1>5. CASE v \notin D
  <2>1. found = {tree[w].key : w \in Lower(D, v)}
    BY <1>1, <1>2, <1>5, SearchNearest
  <2>2. CASE \E u \in D : u < v
    <3>1. PICK w : Lower(D, v) = {w}
      <4>1. D \in SUBSET Int /\ IsFiniteSet(D) /\ v \in Int
        BY <1>2
      <4>. HIDE DEF D
      <4>. QED
        BY <2>2, <4>1, Sides
    <3>2. w \in D /\ w < v /\ \A u \in D : u < v => u <= w
      BY <3>1 DEF Lower
    <3>3. found = {tree[w].key}
      BY <2>1, <3>1
    <3>4. Of(found) = tree[w].key
      BY <3>3 DEF Of
    <3>5. \A o \in UpTo(v) : o.bytes <= w
      BY <1>2, <1>3, <1>5, <3>2 DEF UpTo
    <3>6. Of(found) \in LastUpTo(v)
      BY <1>2, <3>2, <3>4, <3>5 DEF LastUpTo, UpTo
    <3>. QED
      BY <3>3, <3>6 DEF Timed, BytesToStreamTime
  <2>3. CASE ~ \E u \in D : u < v
    <3>1. Lower(D, v) = {}
      BY <2>3 DEF Lower
    <3>2. found = {}
      BY <2>1, <3>1
    <3>3. UpTo(v) = {}
      BY <1>2, <1>3, <1>5, <2>3 DEF UpTo
    <3>. QED
      BY <3>2, <3>3 DEF Timed, BytesToStreamTime
  <2>. QED
    BY <2>2, <2>3
<1>. QED
  BY <1>4, <1>5

\* The time of an offset that the cache has stays what it is, whatever
\* upstream indexes.
LEMMA TimedStays ==
  ASSUME IInv, [Next]_vars, NEW v \in Nat, v < Len(content), NEW t,
         Timed(v, t)
  PROVE  Timed(v, t)'
<1>1. CASE associations' = associations
  BY <1>1 DEF Timed, LastUpTo, UpTo
<1>2. ASSUME NEW e, associations' = associations \cup {e}, e.bytes \in Int,
             e.bytes >= Len(content)
      PROVE  Timed(v, t)'
  <2>1. Len(content) \in Nat
    BY DEF IInv, TypesOK, UpstreamOK
  <2>2. ~ (e.bytes <= v)
    BY <1>2, <2>1
  <2>3. UpTo(v)' = UpTo(v)
    BY <1>2, <2>2 DEF UpTo
  <2>4. LastUpTo(v)' = LastUpTo(v)
    BY <2>3 DEF LastUpTo
  <2>. QED
    BY <2>3, <2>4 DEF Timed
<1>3. CASE ChainCollect
  <2>1. /\ Len(content) + Len(data) <= current_offset
        /\ data = <<>> /\ content \in Seq(Packet) /\ current_offset \in Nat
        /\ data' \in Seq(Packet)
    <3>1. data = <<>> /\ data' \in Seq(Packet)
      BY <1>3, CollectStep
    <3>. QED
      BY <3>1 DEF IInv, TypesOK, UpstreamOK, IndexerOK
  <2>2. \A i \in 1 .. Len(data') :
          /\ EntryAt(data', i).bytes \in Int
          /\ EntryAt(data', i).bytes >= Len(content)
    BY <2>1 DEF EntryAt
  <2>3. \/ associations' = associations
        \/ \E i \in 1 .. Len(data') :
             associations' = associations \cup {EntryAt(data', i)}
    BY <1>3, CollectStep
  <2>. QED
    BY <1>1, <1>2, <2>2, <2>3
<1>4. CASE ChainAddTime \/ ChainAddBytes \/ ChainPush
  BY <1>1, <1>4 DEF ChainAddTime, ChainAddBytes, ChainPush, AddTime, AddBytes,
                    index
<1>. QED
  BY <1>1, <1>3, <1>4, UpstreamSteps

\* The loop's slot is full.
LEMMA BufferInside ==
  ASSUME IInv, loop # "idle"
  PROVE  buffer \in Nat /\ buffer < Len(content)
<1>1. /\ buffer \in Nat /\ next = buffer + SlotSize /\ next <= Len(content)
      /\ Len(content) \in Nat
  BY SlottedNat DEF IInv, TypesOK, WindowOK, UpstreamOK
<1>. QED
  BY <1>1, BinAssumption

\* The SEGMENT is looked up once; what it says stays true until the push.
LEMMA StampInv == IInv /\ LInv /\ [Next]_vars => StampOK'
<1>. SUFFICES ASSUME IInv, LInv, [Next]_vars
              PROVE  StampOK'
  OBVIOUS
<1>1. env' = env
  BY UpstreamSteps
<1>2. /\ loop \in {"idle", "segment", "push"}
      /\ loop = "segment" => need_newsegment
      /\ loop = "idle" /\ timestamp_next_buffer => need_newsegment
      /\ goal # {} /\ ~need_newsegment =>
           loop = "push" /\ timestamp_next_buffer
  BY DEF IInv, TypesOK, PlayOK, LInv, StampOK
<1>3. CASE LoopPop
  BY <1>2, <1>3 DEF LoopPop, StampOK, asking
<1>4. CASE LoopSegment
  <2>1. /\ loop = "segment" /\ loop' = "push" /\ timestamp_next_buffer'
        /\ UNCHANGED <<buffer, associations>>
    BY <1>4 DEF LoopSegment, index
  <2>2. buffer \in Nat /\ buffer < Len(content)
    BY <2>1, BufferInside
  <2>3. "race" \notin env => Timed(buffer, segment')
    BY <1>4, <2>2, LookupTimed DEF LoopSegment
  <2>4. "race" \notin env => Timed(buffer, segment)'
    BY <2>1, <2>3 DEF Timed, LastUpTo, UpTo
  <2>. QED
    BY <1>1, <2>1, <2>4 DEF StampOK
<1>5. CASE LoopPush
  BY <1>5 DEF LoopPush, StampOK
<1>6. CASE SeekReposition
  BY <1>6 DEF SeekReposition, StampOK
<1>7. CASE Restart
  BY <1>7 DEF Restart, StampOK
<1>8. CASE UNCHANGED <<loop, buffer, need_newsegment, timestamp_next_buffer,
                       goal, segment, stamp>>
  <2>1. ASSUME "race" \notin env, loop = "push", timestamp_next_buffer
        PROVE  Timed(buffer, segment)'
    <3>1. Timed(buffer, segment)
      BY <2>1 DEF LInv, StampOK
    <3>2. buffer \in Nat /\ buffer < Len(content)
      BY <2>1, BufferInside
    <3>. QED
      BY <3>1, <3>2, TimedStays, <1>8 DEF Timed, LastUpTo, UpTo
  <2>. QED
    BY <1>1, <1>2, <1>8, <2>1 DEF StampOK
<1>. QED
  BY <1>3, <1>4, <1>5, <1>6, <1>7, <1>8, PlaySteps

-----------------------------------------------------------------------------
(* The duration                                                            *)

\* What has been told of the cache stays true of it, as it only grows.
LEMMA ContentGrows ==
  ASSUME IInv, [Next]_vars, Undisturbed
  PROVE  /\ Len(content) \in Nat /\ Len(content') \in Nat
         /\ Len(content) <= Len(content')
         /\ \A i \in 1 .. Len(content) : content'[i] = content[i]
<1>1. /\ content \in Seq(Packet) /\ data \in Seq(Packet)
      /\ Len(content) \in Nat
  BY DEF IInv, TypesOK, UpstreamOK
<1>2. CASE ChainPush
  <2>. DEFINE more == SubSeq(data, 1, Least(Len(data), Room))
  <2>1. /\ Room \in Nat /\ content' = content \o more
        /\ content' \in Seq(Packet)
    BY <1>2, PushWindow DEF ChainPush
  <2>2. Least(Len(data), Room) \in 0 .. Len(data)
    BY <1>1, <2>1 DEF Least
  <2>3. more \in Seq(Packet)
    BY <1>1, <2>2
  <2>. HIDE DEF more
  <2>. QED
    BY <1>1, <2>1, <2>3
<1>3. CASE ChainCollect
  BY <1>1, <1>3, CollectStep DEF cache
<1>4. CASE ChainAddTime \/ ChainAddBytes
  BY <1>1, <1>4 DEF ChainAddTime, ChainAddBytes, cache
<1>. QED
  BY <1>1, <1>2, <1>3, <1>4, UpstreamSteps DEF Undisturbed

\* The duration is the time of an entry, and its packet is there: Margin is
\* less than the cache had when the offset was taken.
LEMMA ToldInv == IInv /\ LInv /\ [Next]_vars => ToldOK'
<1>. SUFFICES ASSUME IInv, LInv, [Next]_vars, Undisturbed
              PROVE  ToldOK'
  BY UpstreamSteps DEF ToldOK, Undisturbed
<1>1. /\ app = "duration" => len <= Len(content)
      /\ app = "told" /\ target # NoTime =>
           base_time # None /\ \E i \in 1 .. Len(content) : IsAt(i, target)
  BY DEF LInv, ToldOK
<1>2. /\ Len(content) \in Nat /\ Len(content') \in Nat
      /\ Len(content) <= Len(content')
      /\ \A i \in 1 .. Len(content) : content'[i] = content[i]
  BY ContentGrows
<1>3. len \in Nat /\ len' \in Nat
  <2>1. IInv'
    BY NextInv
  <2>. QED
    BY <2>1, BinAssumption DEF IInv, TypesOK, PlayOK
<1>4. CASE AskDuration
  BY <1>2, <1>4 DEF AskDuration, ToldOK, cache
<1>5. CASE TellDuration
  <2>1. PICK found \in Before("bytes", LastOffset(len)) :
          target' = LastTime(found)
    BY <1>5 DEF TellDuration
  <2>2. /\ app = "duration" /\ app' = "told"
        /\ UNCHANGED <<content, base_time>>
    BY <1>5 DEF TellDuration, cache, indexer, progress
  <2>3. LastOffset(len) \in Int /\ LastOffset(len) < Len(content)
    BY <1>1, <1>2, <1>3, <2>2, BinAssumption DEF LastOffset
  <2>4. ASSUME target' # NoTime
        PROVE  /\ base_time # None
               /\ \E i \in 1 .. Len(content) : IsAt(i, target')
    <3>1. found # {}
      BY <2>1, <2>4 DEF LastTime
    <3>. DEFINE e == Of(found)
    <3>2. e \in associations /\ e.bytes <= LastOffset(len) /\ target' = e.time
      BY <2>1, <2>3, <3>1, TimeFound DEF LastTime
    <3>3. base_time # None /\ e.bytes \in Nat
      BY <3>2 DEF IInv, OrderOK, TypesOK, IndexerOK
    <3>4. e.bytes + 1 \in 1 .. Len(content)
      BY <1>2, <2>3, <3>2, <3>3
    <3>5. IsAt(e.bytes + 1, target')
      <4>1. content \in Seq(Packet) /\ data \in Seq(Packet)
        BY DEF IInv, TypesOK, UpstreamOK
      <4>2. Stream[e.bytes + 1] = content[e.bytes + 1]
        BY <3>4, <4>1 DEF Stream
      <4>. QED
        BY <3>2, <4>2 DEF IInv, AlignOK, IsAt
    <3>. QED
      BY <3>3, <3>4, <3>5
  <2>. QED
    BY <2>2, <2>4 DEF ToldOK, IsAt
<1>6. CASE app' \notin {"duration", "told"}
  BY <1>6 DEF ToldOK
<1>7. CASE UNCHANGED <<app, target, len>>
  <2>1. app' = "duration" => len' <= Len(content')
    BY <1>1, <1>2, <1>3, <1>7
  <2>2. ASSUME app' = "told", target' # NoTime
        PROVE  /\ base_time' # None
               /\ \E i \in 1 .. Len(content') : IsAt(i, target)'
    <3>1. PICK i \in 1 .. Len(content) : IsAt(i, target)
      BY <1>1, <1>7, <2>2
    <3>2. base_time # None /\ base_time' = base_time
      BY <1>1, <1>7, <2>2, BaseStays
    <3>3. i \in 1 .. Len(content') /\ content'[i] = content[i]
      BY <1>2
    <3>. QED
      BY <1>7, <3>1, <3>2, <3>3 DEF IsAt
  <2>. QED
    BY <2>1, <2>2 DEF ToldOK
<1>. QED
  BY <1>4, <1>5, <1>6, <1>7, AskSteps

-----------------------------------------------------------------------------
(* The distance of the entries                                             *)

\* A packet that comes alone has the next PCR or none, and makes an entry if
\* it is due.
LEMMA CollectOne ==
  ASSUME IInv, ChainCollect, Steady
  PROVE  \E p \in Packet :
           /\ data = <<>> /\ data' = <<p>> /\ content' = content
           /\ \/ p.pcr = None /\ clock' = clock
              \/ p.pcr = clock + 1 /\ clock' = clock + 1
           /\ IF p.pcr # None /\ Due(TimeOf(p))
              THEN /\ \E e : /\ associations' = associations \cup {e}
                             /\ e.time = TimeOf(p)
                   /\ base_time' = BaseTime(p) /\ last_time' = TimeOf(p)
              ELSE UNCHANGED <<associations, base_time, last_time>>
<1>1. /\ "jump" \notin env /\ "blocks" \notin env /\ "latepmt" \notin env
      /\ delta > 0 /\ delta \in Int /\ clock \in Nat
  BY BinAssumption DEF Steady, IInv, TypesOK, IndexerOK, UpstreamOK
<1>2. /\ pcr_pid /\ data = <<>> /\ content' = content
  BY <1>1 DEF ChainCollect, IInv, TypesOK, UpstreamOK, cache
<1>3. PICK n \in 1 .. MaxSize, j \in Jumps \cup {-k : k \in Jumps} \cup {0} :
      \E P \in SUBSET (1 .. n) : \E R \in SUBSET P :
        /\ n = 1 /\ j = 0
        /\ data' = BufferOf(n, P, R, j)
        /\ clock' = clock + j + Cardinality(P)
  BY <1>1 DEF ChainCollect, Size
<1>4. PICK P \in SUBSET (1 .. 1) : \E R \in SUBSET P :
        /\ data' = BufferOf(1, P, R, 0)
        /\ clock' = clock + 0 + Cardinality(P)
  BY <1>3
<1>5. PICK R \in SUBSET P : data' = BufferOf(1, P, R, 0)
  BY <1>4
<1>. DEFINE p == data'[1]
<1>6. /\ Cardinality({1}) = 1 /\ Cardinality({}) = 0
  BY FS_Singleton, FS_EmptySet
<1>7. data' = <<p>> /\ Len(data') = 1
  BY <1>5 DEF BufferOf
<1>8. p \in Packet /\ \/ p.pcr = None /\ clock' = clock
                      \/ p.pcr = clock + 1 /\ clock' = clock + 1
  <2>1. p \in Packet
    BY <1>7, CollectStep
  <2>2. P = {} \/ P = {1}
    <3>1. 1 .. 1 = {1}
      OBVIOUS
    <3>. QED
      BY <1>4, <3>1
  <2>3. p.pcr = IF 1 \in P THEN clock + 0 + Cardinality({k \in P : k <= 1})
                ELSE None
    BY <1>5 DEF BufferOf
  <2>4. CASE P = {}
    BY <1>1, <1>4, <1>6, <2>1, <2>3, <2>4
  <2>5. CASE P = {1}
    <3>1. {k \in P : k <= 1} = {1}
      BY <2>5
    <3>2. p.pcr = clock + 0 + 1 /\ clock' = clock + 0 + 1
      BY <1>4, <1>6, <2>3, <2>5, <3>1
    <3>. QED
      BY <1>1, <2>1, <3>2
  <2>. QED
    BY <2>2, <2>4, <2>5
<1>. HIDE DEF p
<1>9. Found(data') = IF p.pcr # None /\ Due(TimeOf(p)) THEN {1} ELSE {}
  <2>1. Examined(data') = {1}
    BY <1>7 DEF Examined
  <2>2. data'[1] = p
    BY <1>7
  <2>3. Tells(p) <=> p.pcr # None
    BY <1>1 DEF Tells
  <2>4. {i \in Examined(data') : Tells(data'[i]) /\ Due(TimeOf(data'[i]))}
          = IF p.pcr # None /\ Due(TimeOf(p)) THEN {1} ELSE {}
    BY <2>1, <2>2, <2>3
  <2>. QED
    BY <2>4 DEF Found
<1>10. /\ entry' = Collected(data') /\ TransformIp(data')
       /\ IF entry' = {} THEN UNCHANGED index
          ELSE \E e \in entry' : AddEntry(e)
  BY DEF ChainCollect
<1>11. CASE p.pcr # None /\ Due(TimeOf(p))
  <2>1. Collected(data') = {EntryAt(data', 1)}
    BY <1>2, <1>9, <1>11 DEF Collected
  <2>2. associations' = associations \cup {EntryAt(data', 1)}
    BY <1>10, <2>1 DEF AddEntry
  <2>3. EntryAt(data', 1).time = TimeOf(p)
    BY <1>7 DEF EntryAt
  <2>4. base_time' = BaseTime(p) /\ last_time' = TimeOf(p)
    BY <1>7, <1>9, <1>10, <1>11, <2>1 DEF TransformIp
  <2>. QED
    BY <1>2, <1>7, <1>8, <1>11, <2>2, <2>3, <2>4
<1>12. CASE ~ (p.pcr # None /\ Due(TimeOf(p)))
  <2>1. Collected(data') = {}
    BY <1>9, <1>12 DEF Collected
  <2>2. UNCHANGED <<associations, base_time, last_time>>
    BY <1>9, <1>10, <1>12, <2>1 DEF TransformIp, index
  <2>. QED
    BY <1>2, <1>7, <1>8, <1>12, <2>2
<1>. QED
  BY <1>11, <1>12

\* An entry goes on covering what it covered.
LEMMA CoveredStays ==
  ASSUME IInv, [Next]_vars, associations \subseteq associations', NEW pcr,
         Covered(pcr)
  PROVE  Covered(pcr)'
<1>1. base_time # None
  BY DEF Covered, IInv, OrderOK
<1>2. base_time' = base_time /\ delta' = delta
  BY <1>1, BaseStays, UpstreamSteps
<1>. QED
  BY <1>2 DEF Covered

\* A PCR that makes no entry is less than delta after the last entry.
LEMMA CloseInv == IInv /\ LInv /\ [Next]_vars => CloseOK'
<1>. SUFFICES ASSUME IInv, LInv, [Next]_vars, Steady
              PROVE  CloseOK'
  BY UpstreamSteps DEF CloseOK, Steady
<1>1. /\ last_time # None =>
           /\ \E e \in associations : e.time = last_time
           /\ last_time + base_time <= MPEGTIME_TO_GSTTIME(clock)
      /\ \A i \in 1 .. Len(Stream) :
           Stream[i].pcr # None => Covered(Stream[i].pcr)
  BY DEF LInv, CloseOK
<1>2. /\ content \in Seq(Packet) /\ data \in Seq(Packet) /\ clock \in Nat
      /\ delta \in Nat /\ delta # -1 /\ delta > 0 /\ delta' = delta
      /\ Stream \in Seq(Packet)
  <2>1. delta' = delta /\ delta > 0
    BY UpstreamSteps DEF Steady
  <2>2. delta \in Nat /\ delta # -1
    BY <2>1, BinAssumption DEF IInv, TypesOK, IndexerOK
  <2>3. content \in Seq(Packet) /\ data \in Seq(Packet) /\ clock \in Nat
    BY DEF IInv, TypesOK, UpstreamOK
  <2>. QED
    BY <2>1, <2>2, <2>3 DEF Stream
<1>3. CASE /\ UNCHANGED <<associations, clock, base_time, last_time>>
           /\ Stream' = Stream
  BY <1>1, <1>2, <1>3 DEF CloseOK, Covered
<1>4. CASE ChainCollect
  <2>1. PICK p \in Packet :
          /\ data = <<>> /\ data' = <<p>> /\ content' = content
          /\ \/ p.pcr = None /\ clock' = clock
             \/ p.pcr = clock + 1 /\ clock' = clock + 1
          /\ IF p.pcr # None /\ Due(TimeOf(p))
             THEN /\ \E e : /\ associations' = associations \cup {e}
                            /\ e.time = TimeOf(p)
                  /\ base_time' = BaseTime(p) /\ last_time' = TimeOf(p)
             ELSE UNCHANGED <<associations, base_time, last_time>>
    BY <1>4, CollectOne
  <2>2. /\ Stream = content /\ Stream' = content \o <<p>>
        /\ Len(Stream') = Len(content) + 1
        /\ Stream'[Len(content) + 1] = p
        /\ \A i \in 1 .. Len(content) : Stream'[i] = content[i]
    BY <1>2, <2>1 DEF Stream
  <2>3. associations \subseteq associations'
    BY <2>1
  <2>4. \A i \in 1 .. Len(content) :
          Stream'[i].pcr # None => Covered(Stream[i].pcr)'
    BY <1>1, <2>2, <2>3, CoveredStays
  <2>5. /\ p.pcr # None => Covered(p.pcr)'
        /\ last_time' # None =>
             /\ \E e \in associations' : e.time = last_time'
             /\ last_time' + base_time' <= MPEGTIME_TO_GSTTIME(clock')
    <3>1. CASE p.pcr # None /\ Due(TimeOf(p))
      <4>1. /\ base_time' \in Int /\ last_time' \in Int /\ p.pcr \in Nat
            /\ last_time' + base_time' = MPEGTIME_TO_GSTTIME(p.pcr)
            /\ p.pcr = clock'
        <5>1. p.pcr \in Nat /\ p.pcr = clock'
          BY <1>2, <2>1, <3>1 DEF Packet
        <5>2. base_time' = BaseTime(p) /\ last_time' = TimeOf(p)
          BY <2>1, <3>1
        <5>3. BaseTime(p) \in Int
          BY <5>1 DEF BaseTime, MPEGTIME_TO_GSTTIME, Tick, IInv, TypesOK,
                      IndexerOK, None
        <5>. QED
          BY <5>1, <5>2, <5>3 DEF TimeOf, MPEGTIME_TO_GSTTIME, Tick
      <4>2. PICK e \in associations' : e.time = last_time'
        BY <2>1, <3>1
      <4>3. e.time + base_time' = MPEGTIME_TO_GSTTIME(p.pcr)
            /\ MPEGTIME_TO_GSTTIME(p.pcr) \in Int
        BY <4>1, <4>2 DEF MPEGTIME_TO_GSTTIME, Tick
      <4>4. /\ e.time + base_time' <= MPEGTIME_TO_GSTTIME(p.pcr)
            /\ MPEGTIME_TO_GSTTIME(p.pcr) < e.time + base_time' + delta'
            /\ last_time' + base_time' <= MPEGTIME_TO_GSTTIME(clock')
        BY <1>2, <4>1, <4>3
      <4>. QED
        BY <4>2, <4>4 DEF Covered, MPEGTIME_TO_GSTTIME
    <3>2. CASE p.pcr # None /\ ~ Due(TimeOf(p))
      <4>1. /\ UNCHANGED <<associations, base_time, last_time>>
            /\ clock' = clock + 1 /\ p.pcr = clock + 1
        BY <2>1, <3>2
      <4>2. last_time # None /\ last_time \in Nat /\ base_time # None
            /\ base_time \in Nat
        BY <1>2, <3>2 DEF Due, IInv, SpacingOK, TypesOK, IndexerOK
      <4>3. PICK e \in associations : e.time = last_time
        BY <1>1, <4>2
      <4>4. MPEGTIME_TO_GSTTIME(p.pcr) - base_time - last_time < delta
        BY <1>2, <3>2, <4>1, <4>2
        DEF Due, TimeOf, BaseTime, MPEGTIME_TO_GSTTIME, Tick
      <4>5. /\ last_time + base_time <= MPEGTIME_TO_GSTTIME(p.pcr)
            /\ MPEGTIME_TO_GSTTIME(p.pcr) < last_time + base_time + delta
        BY <1>1, <1>2, <4>1, <4>2, <4>4 DEF MPEGTIME_TO_GSTTIME, Tick
      <4>. QED
        BY <1>2, <4>1, <4>3, <4>5 DEF Covered
    <3>3. CASE p.pcr = None
      BY <1>1, <2>1, <1>2, <3>3 DEF Packet, None
    <3>. QED
      BY <3>1, <3>2, <3>3
  <2>6. \A i \in 1 .. Len(Stream') :
          Stream'[i].pcr # None => Covered(Stream[i].pcr)'
    <3>1. \A i \in 1 .. Len(Stream') :
            i \in 1 .. Len(content) \/ i = Len(content) + 1
      BY <1>2, <2>2
    <3>2. Covered(Stream[Len(content) + 1].pcr)' <=> Covered(p.pcr)'
      BY <2>1, <2>2 DEF Covered
    <3>. QED
      BY <2>2, <2>4, <2>5, <3>1, <3>2
  <2>. QED
    BY <2>5, <2>6 DEF CloseOK
<1>5. CASE ChainAddTime \/ ChainAddBytes
  <2>1. UNCHANGED <<associations, clock, base_time, last_time, content, data>>
    BY <1>5 DEF ChainAddTime, ChainAddBytes, AddTime, AddBytes, upstream,
                cache, indexer, progress
  <2>. QED
    BY <1>3, <2>1 DEF Stream
<1>6. CASE ChainPush
  <2>1. /\ UNCHANGED <<associations, clock, base_time, last_time>>
        /\ data' = <<>>
        /\ content' = content \o SubSeq(data, 1, Least(Len(data), Room))
    BY <1>6 DEF ChainPush, index, indexer, progress
  <2>2. Room \in Nat /\ content' \in Seq(Packet)
    BY <1>6, PushWindow
  <2>3. Least(Len(data), Room) = Len(data)
    BY <1>2, <1>6, <2>2 DEF ChainPush, Steady, Least
  <2>4. SubSeq(data, 1, Len(data)) = data
    BY <1>2, SubSeqFull
  <2>5. content' = Stream
    BY <2>1, <2>3, <2>4 DEF Stream
  <2>6. Stream' = Stream
    BY <2>1, <2>2, <2>5 DEF Stream
  <2>. QED
    BY <1>3, <2>1, <2>6
<1>7. CASE /\ UNCHANGED <<associations, data, clock, base_time, last_time>>
           /\ content' = content \/ "restart" \in env
  BY <1>3, <1>7 DEF Steady, Stream
<1>. QED
  BY <1>4, <1>5, <1>6, <1>7, UpstreamSteps

-----------------------------------------------------------------------------
(* Theorems                                                                *)

\* The index is empty at first.
LEMMA InitLookups == Init => LInv
<1>. SUFFICES ASSUME Init
              PROVE  LInv
  OBVIOUS
<1>1. TreesOK
  BY FS_EmptySet DEF Init, IndexInit, EmptyTree, TreesOK, Tree, Formats
<1>2. AheadOK /\ StampOK /\ ToldOK
  BY DEF Init, AheadOK, StampOK, ToldOK
<1>3. CloseOK
  <2>1. Len(Stream) = 0 /\ last_time = None
    BY DEF Init, IndexerInit, Stream
  <2>. QED
    BY <2>1 DEF CloseOK
<1>. QED
  BY <1>1, <1>2, <1>3 DEF LInv

\* Both invariants hold in every state.
LEMMA LookupInvariant == Spec => [](IInv /\ LInv)
<1>1. Init => IInv /\ LInv
  BY InitInv, InitLookups
<1>2. IInv /\ LInv /\ [Next]_vars => IInv' /\ LInv'
  BY NextInv, TreesInv, AheadInv, StampInv, ToldInv, CloseInv DEF LInv
<1>. QED
  BY <1>1, <1>2, PTL DEF Spec

\* After each insertion, gst_flutsindex_get_assoc_entry finds the nearest
\* association on the side asked for among all that were ever added, and NULL
\* only when there is none: in balanced trees of every size, in whatever order
\* times and offsets come.
THEOREM LookupsFindNearest == Spec => []LookupsNearest
<1>1. IInv /\ LInv => LookupsNearest
  <2>. SUFFICES ASSUME IInv, LInv, chain = "push"
                PROVE  /\ AnswersNearest(byTime, "time")
                       /\ AnswersNearest(byBytes, "bytes")
    BY DEF LookupsNearest
  <2>1. \A f \in Formats : Missing(f) = {}
    BY DEF Missing, Formats, IInv, TypesOK, InsertOK
  <2>2. \A f \in Formats : AnswersNearest(Tree(f), f)
    BY <2>1, TreeNearest DEF LInv, TreesOK
  <2>. QED
    BY <2>2 DEF Formats, Tree
<1>. QED
  BY <1>1, LookupInvariant, PTL

\* The SEGMENT of a buffer tells the time of the last entry at or before its
\* first byte, where the packet with that PCR is, though upstream goes on
\* indexing between SEGMENT and buffer (bytes_to_stream_time).
THEOREM SegmentsTrue == Spec => []SegmentTrue
<1>1. IInv /\ LInv => SegmentTrue
  <2>. SUFFICES ASSUME IInv, LInv, Undisturbed, "race" \notin env,
                       loop = "push", timestamp_next_buffer
                PROVE  IF UpTo(buffer) = {}
                       THEN segment = IF buffer = 0 THEN 0 ELSE NoTime
                       ELSE \A e \in LastUpTo(buffer) :
                              segment = e.time /\ IsAt(e.bytes + 1, segment)
    BY DEF SegmentTrue, UpTo, LastUpTo
  <2>1. buffer \in Nat /\ buffer < Len(content)
    BY BufferInside
  <2>2. Timed(buffer, segment)
    BY DEF LInv, StampOK
  <2>3. ASSUME NEW e \in LastUpTo(buffer)
        PROVE  segment = e.time /\ IsAt(e.bytes + 1, segment)
    <3>1. e \in associations /\ e.bytes <= buffer
      BY DEF LastUpTo, UpTo
    <3>2. segment = e.time
      <4>1. Timed(buffer, e.time)
        BY DEF Timed
      <4>. QED
        BY <2>1, <2>2, <4>1, TimedOnce
    <3>3. /\ content \in Seq(Packet) /\ data \in Seq(Packet)
          /\ e.bytes + 1 \in 1 .. Len(content)
      BY <2>1, <3>1 DEF IInv, TypesOK, UpstreamOK, IndexerOK, OrderOK
    <3>4. Stream[e.bytes + 1] = content[e.bytes + 1]
      BY <3>3 DEF Stream
    <3>. QED
      BY <3>1, <3>2, <3>4 DEF IInv, AlignOK, IsAt
  <2>. QED
    BY <2>2, <2>3 DEF Timed, LastUpTo
<1>. QED
  BY <1>1, LookupInvariant, PTL

\* A TIME seek whose offset was in the ring when it was performed makes the
\* SEGMENT start at or before its target, for every interleaving of upstream,
\* loop and application.  It tells no time at all only where the index has no
\* entry at or before the slot, or where the lookup ran into an insertion.
THEOREM SeeksNotAfter == Spec => []SeekNotAfter
<1>1. IInv /\ LInv => SeekNotAfter
  <2>. SUFFICES ASSUME IInv, LInv, delta # -1, ~need_newsegment, NEW t \in goal
                PROVE  IF segment = NoTime
                       THEN \/ "race" \in env
                            \/ \A e \in associations : e.bytes > buffer
                       ELSE segment <= t
    BY DEF SeekNotAfter
  <2>1. segment = NoTime \/ segment <= t
    BY DEF IInv, GoalOK
  <2>2. ASSUME segment = NoTime, "race" \notin env
        PROVE  \A e \in associations : e.bytes > buffer
    <3>1. loop = "push" /\ timestamp_next_buffer
      BY DEF LInv, StampOK
    <3>2. Timed(buffer, segment) /\ buffer \in Nat
      BY <2>2, <3>1, BufferInside DEF LInv, StampOK
    <3>3. \A e \in associations : e.time \in Int /\ e.bytes \in Int
      BY DEF IInv, TypesOK, IndexOK, Entry
    <3>4. UpTo(buffer) = {}
      <4>1. \A e \in LastUpTo(buffer) : e \in associations
        BY DEF LastUpTo, UpTo
      <4>. QED
        BY <2>2, <3>2, <3>3, <4>1, NoTimeAssumption DEF Timed
    <3>5. \A e \in associations : ~ (e.bytes <= buffer)
      BY <3>4 DEF UpTo
    <3>. QED
      BY <3>2, <3>3, <3>5
  <2>. QED
    BY <2>1, <2>2
<1>. QED
  BY <1>1, LookupInvariant, PTL

\* The first buffer after a SEGMENT carries the time at which that SEGMENT
\* starts: the second lookup tells what the first one told.
THEOREM StampsAreStarts == Spec => StampIsStart
<1>. DEFINE A == "race" \notin env /\ timestamp_next_buffer
                   /\ ~ timestamp_next_buffer'
                 => stamp' = segment
<1>1. IInv /\ LInv /\ [Next]_vars => [A]_vars
  <2>. SUFFICES ASSUME IInv, LInv, [Next]_vars, "race" \notin env,
                       timestamp_next_buffer, ~ timestamp_next_buffer'
                PROVE  stamp' = segment
    OBVIOUS
  <2>1. LoopPush
    <3>1. timestamp_next_buffer' # timestamp_next_buffer
      OBVIOUS
    <3>. QED
      BY <3>1, PlaySteps
      DEF LoopPop, LoopSegment, SeekReposition, Restart
  <2>2. loop = "push" /\ \E found \in Before("bytes", buffer) :
                           stamp' = BytesToStreamTime(found, buffer)
    BY <2>1 DEF LoopPush
  <2>3. buffer \in Nat /\ buffer < Len(content)
    BY <2>2, BufferInside
  <2>4. Timed(buffer, stamp')
    BY <2>2, <2>3, LookupTimed
  <2>5. Timed(buffer, segment)
    BY <2>2 DEF LInv, StampOK
  <2>. QED
    BY <2>3, <2>4, <2>5, TimedOnce
<1>. QED
  BY <1>1, LookupInvariant, PTL DEF Spec, StampIsStart

\* At the duration that is told there is a packet with that time in what the
\* cache was given, however far the indexer is ahead of the cache
\* (gst_time_shift_seeker_get_last_time).
THEOREM DurationsReached == Spec => []DurationReached
<1>1. IInv /\ LInv => DurationReached
  BY DEF LInv, ToldOK, DurationReached
<1>. QED
  BY <1>1, LookupInvariant, PTL

\* With a PCR that never jumps and packets that come one by one, there is an
\* entry less than delta before each PCR of the cache, for every delta: what
\* a seek can lose (gst_time_shift_ts_indexer_collect_time).
THEOREM EntriesAreClose == Spec => []EntriesClose
<1>1. IInv /\ LInv => EntriesClose
  <2>. SUFFICES ASSUME IInv, LInv, Steady, NEW i \in DOMAIN content,
                       content[i].pcr # None
                PROVE  Covered(content[i].pcr)
    BY DEF EntriesClose, Steady, Covered
  <2>1. content \in Seq(Packet) /\ data \in Seq(Packet)
    BY DEF IInv, TypesOK, UpstreamOK
  <2>2. i \in 1 .. Len(Stream) /\ Stream[i] = content[i]
    BY <2>1 DEF Stream
  <2>. QED
    BY <2>2 DEF LInv, CloseOK
<1>. QED
  BY <1>1, LookupInvariant, PTL

=============================================================================

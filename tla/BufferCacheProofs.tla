-------------------------- MODULE BufferCacheProofs --------------------------
(***************************************************************************)
(* Proofs about the buffer cache, for any number of buffers, chains,       *)
(* blocks and callers.                                                     *)
(***************************************************************************)
EXTENDS BufferCache, FiniteSetTheorems, WellFoundedInduction, TLAPS

BufferType ==
    [block : Blocks \cup {NoBlock}, dirty : BOOLEAN, count : Nat, next : 0..NBuf,
     next_free : 0..NBuf, prev_free : 0..NBuf, data : Values]

Holdings == {Free} \cup [buf : Bufs, block : Blocks, miss : BOOLEAN]

BufTypeOK ==
    /\ buf \in [Bufs -> BufferType]
    /\ buff_head \in [0..(Buckets - 1) -> 0..NBuf]
    /\ lru_buff \in 0..NBuf
    /\ disk \in [Blocks \cup {NoBlock} -> Values]
    /\ latest \in [Blocks \cup {NoBlock} -> Values]
    /\ hold \in [Holders -> Holdings]
    /\ halt \in {"no", "fault", "hang"}
    /\ touched \subseteq Blocks /\ misses \in Nat /\ shared \in BOOLEAN /\ stale \in Nat

\* The callers that hold buffer i.
HoldersOf(i) == {h \in Holders : hold[h].buf = i}

\* L is the set of buffers on the free list and depth the number of buffers that
\* follow each.  The last of them is always the last of the pool, which nobody has
\* used: put_block adds at the head, and only to a list that is not empty.
FreeShape(L, depth) ==
    /\ \A x, y \in L : depth[x] = depth[y] => x = y
    /\ lru_buff = NULL <=> L = {}
    /\ L # {} => /\ lru_buff \in L /\ \A x \in L : depth[x] <= depth[lru_buff]
                 /\ Cardinality(L) = depth[lru_buff] + 1
                 /\ NBuf \in L /\ depth[NBuf] = 0 /\ buf[NBuf].block = NoBlock
    /\ \A x \in L : \/ buf[x].next_free = NULL /\ depth[x] = 0
                    \/ /\ buf[x].next_free \in L
                       /\ depth[buf[x].next_free] + 1 = depth[x]

\* P is the set of buffers put_block has put back.  The count of such a buffer
\* stays above the number of its holders, so it is never put back again.
CountShape(L, P) ==
    /\ NBuf \notin P
    /\ \A i \in Bufs : buf[i].block = NoBlock => i \in L /\ i \notin P /\ HoldersOf(i) = {}
    /\ \A i \in L : buf[i].block = NoBlock \/ i \in P
    /\ \A i \in Bufs : buf[i].block # NoBlock => buf[i].count >= 1
    /\ \A i \in Bufs : buf[i].count >= Cardinality(HoldersOf(i))
    /\ \A i \in P : buf[i].count >= Cardinality(HoldersOf(i)) + 1
    /\ misses + Cardinality(L) = NBuf + Cardinality(P)
    /\ halt = "no" /\ stale = 0 =>
         \A i \in Bufs \ P : buf[i].count = Cardinality(HoldersOf(i))
    /\ \A h \in Holders : hold[h] # Free /\ hold[h].miss =>
         hold[h].buf \notin L /\ buf[hold[h].buf].block = hold[h].block
    /\ ~shared => \A g, h \in Holders : hold[g] # Free /\ hold[h] # Free => g = h

\* The hash chains when no two blocks share one.  F is the set of buffers that
\* have served two misses and serve no more: a chain is one buffer and then only
\* such buffers, each linked before the one in front of it, so rank falls along it.
LinksShape(F, rank) ==
    /\ \A i \in Bufs : buf[i].block # NoBlock =>
         /\ buf[i].next = NULL \/ (buf[i].next \in F /\ rank[buf[i].next] < rank[i])
         /\ rank[i] <= Cardinality(F)
    /\ \A i \in F : rank[i] < Cardinality(F)
    /\ \A b \in touched : LET i == buff_head[Bucket(b)]
                          IN  i = NULL \/ buf[i].block = b \/ i \in F

\* A labelled buffer heads its chain and holds what was last written to its block;
\* what is in no buffer is on the disk.
DataShape ==
    /\ \A i \in Bufs : buf[i].block # NoBlock =>
         /\ buf[i].block \in touched /\ buff_head[Bucket(buf[i].block)] = i
         /\ buf[i].data = latest[buf[i].block]
         /\ ~buf[i].dirty => disk[buf[i].block] = latest[buf[i].block]
    /\ \A b \in Blocks : (\A i \in Bufs : buf[i].block # b) => disk[b] = latest[b]
    /\ \A h \in Holders : hold[h] # Free => buf[hold[h].buf].block = hold[h].block

\* Only chains of blocks asked for have been used, besides that of bucket 0.
HeadsTouched ==
    \A k \in 1..(Buckets - 1) : buff_head[k] # NULL => \E b \in touched : Bucket(b) = k

Shape(L, P, depth, rank) ==
    /\ FreeShape(L, depth)
    /\ CountShape(L, P)
    /\ CollisionFree /\ ~shared => LinksShape(P \ L, rank) /\ DataShape

CacheInv ==
    /\ BufTypeOK /\ HeadsTouched /\ PoolServesTwice
    /\ CollisionFree /\ ~shared => halt # "hang"
    /\ \E L, P \in SUBSET Bufs, depth, rank \in [Bufs -> Nat] : Shape(L, P, depth, rank)

-----------------------------------------------------------------------------
\* A set of numbers that is not empty has a least one.
LEMMA LeastNumber ==
    ASSUME NEW T \in SUBSET Nat, T # {}
    PROVE  \E x \in T : \A y \in T : x <= y
PROOF
  <1>1. IsWellFoundedOn(OpToRel(<, Nat), Nat)
    BY NatLessThanWellFounded
  <1>2. PICK x \in T : \A y \in T : ~ (<<y, x>> \in OpToRel(<, Nat))
    BY <1>1, WFMin
  <1>3. \A y \in T : ~ (y < x)
    BY <1>2 DEF OpToRel
  <1> QED BY <1>3

\* w follows succ from s for m steps.
Follows(w, s, succ, m) ==
    w = [n \in 0..m |-> IF n = 0 THEN s ELSE IF w[n-1] = NULL THEN NULL ELSE succ[w[n-1]]]

\* A walk exists, for any number of steps.
LEMMA WalkExists ==
    ASSUME NEW s, NEW succ, NEW m \in Nat
    PROVE  \E w : Follows(w, s, succ, m)
PROOF
  <1> DEFINE T == {k \in Nat : ~ \E w : Follows(w, s, succ, k)}
  <1>1. SUFFICES ASSUME T # {} PROVE FALSE
    OBVIOUS
  <1>2. PICK k \in T : \A y \in T : k <= y
    BY <1>1, LeastNumber
  <1>3. k # 0
    <2>1. ASSUME k = 0 PROVE FALSE
      <3> DEFINE w == [n \in 0..0 |-> s]
      <3>1. Follows(w, s, succ, 0)
        <4>1. \A n \in 0..0 : n = 0
          OBVIOUS
        <4> QED BY <4>1 DEF Follows
      <3> QED BY <2>1, <3>1
    <2> QED BY <2>1
  <1>4. k - 1 \in Nat /\ k - 1 \notin T
    BY <1>2, <1>3
  <1>5. PICK v : Follows(v, s, succ, k - 1)
    BY <1>4
  <1> DEFINE w == [n \in 0..k |-> IF n < k THEN v[n]
                                  ELSE IF v[k-1] = NULL THEN NULL ELSE succ[v[k-1]]]
             e == [n \in 0..k |-> IF n = 0 THEN s
                                  ELSE IF w[n-1] = NULL THEN NULL ELSE succ[w[n-1]]]
  <1>6. ASSUME NEW n \in 0..k PROVE w[n] = e[n]
    <2>1. CASE n = k
      <3>1. w[n] = (IF v[k-1] = NULL THEN NULL ELSE succ[v[k-1]])
        BY <2>1
      <3>2. w[k-1] = v[k-1] /\ n # 0
        BY <1>3, <2>1
      <3> QED BY <3>1, <3>2, <2>1
    <2>2. CASE n < k
      <3>1. n \in 0..(k-1) /\ w[n] = v[n]
        BY <2>2
      <3>2. v[n] = IF n = 0 THEN s ELSE IF v[n-1] = NULL THEN NULL ELSE succ[v[n-1]]
        BY <3>1, <1>5 DEF Follows
      <3>3. n # 0 => w[n-1] = v[n-1]
        BY <2>2
      <3> QED BY <3>1, <3>2, <3>3
    <2> QED BY <2>1, <2>2
  <1>7. w = e
    BY <1>6
  <1>8. Follows(w, s, succ, k)
    BY <1>7 DEF Follows
  <1> QED BY <1>2, <1>8

\* What the walk of a list gives at each step.
LEMMA WalkSteps ==
    ASSUME NEW s, NEW succ
    PROVE  /\ Walk(s, succ)[0] = s
           /\ \A n \in 1..NBuf : Walk(s, succ)[n] =
                IF Walk(s, succ)[n-1] = NULL THEN NULL ELSE succ[Walk(s, succ)[n-1]]
PROOF
  <1>1. NBuf \in Nat
    BY BufferAssumption
  <1>2. \E w : Follows(w, s, succ, NBuf)
    BY <1>1, WalkExists
  <1>3. Walk(s, succ) = CHOOSE w : Follows(w, s, succ, NBuf)
    BY DEF Walk, Follows
  <1>4. Follows(Walk(s, succ), s, succ, NBuf)
    BY <1>2, <1>3
  <1> QED BY <1>1, <1>4 DEF Follows

\* A walk along which some rank falls stays in the set it starts in and ends.
LEMMA WalkEnds ==
    ASSUME NEW s, NEW succ, NEW S \in SUBSET Bufs, NEW rank \in [Bufs -> Nat],
           s \in S \cup {NULL}, s \in S => rank[s] < NBuf,
           \A x \in S : succ[x] = NULL \/ (succ[x] \in S /\ rank[succ[x]] < rank[x])
    PROVE  /\ Walk(s, succ)[NBuf] = NULL
           /\ \A n \in 0..NBuf : Walk(s, succ)[n] \in S \cup {NULL}
PROOF
  <1> DEFINE w == Walk(s, succ)
             Good(n) == w[n] = NULL \/ (w[n] \in S /\ rank[w[n]] + n < NBuf)
             T == {n \in 0..NBuf : ~Good(n)}
  <1>1. NBuf \in Nat \ {0} /\ NULL \notin S
    BY BufferAssumption DEF Bufs, NULL
  <1>2. /\ w[0] = s
        /\ \A n \in 1..NBuf : w[n] = IF w[n-1] = NULL THEN NULL ELSE succ[w[n-1]]
    BY WalkSteps
  <1> HIDE DEF w
  <1>3. T = {}
    <2>1. SUFFICES ASSUME T # {} PROVE FALSE
      OBVIOUS
    <2>2. PICK k \in T : \A y \in T : k <= y
      <3>1. T \in SUBSET Nat
        BY <1>1
      <3> HIDE DEF T
      <3> QED BY <2>1, <3>1, LeastNumber
    <2>3. k \in 0..NBuf /\ ~Good(k)
      BY <2>2
    <2>4. k # 0
      <3>1. ASSUME k = 0 PROVE FALSE
        <4>1. s \in S /\ rank[s] \in Nat => rank[s] + 0 < NBuf
          BY <1>1
        <4> QED BY <3>1, <2>3, <1>2, <4>1
      <3> QED BY <3>1
    <2>5. k - 1 \in 0..NBuf /\ k \in 1..NBuf /\ k - 1 \notin T
      BY <2>2, <2>3, <2>4, <1>1
    <2>6. Good(k - 1)
      BY <2>5
    <2>7. w[k] = IF w[k-1] = NULL THEN NULL ELSE succ[w[k-1]]
      BY <1>2, <2>5
    <2>8. CASE w[k-1] = NULL
      BY <2>3, <2>7, <2>8
    <2>9. CASE w[k-1] \in S /\ rank[w[k-1]] + (k - 1) < NBuf
      <3> DEFINE x == w[k-1]
      <3>1. w[k] = succ[x] /\ x \in S
        BY <2>7, <2>9, <1>1
      <3>2. succ[x] = NULL \/ (succ[x] \in S /\ rank[succ[x]] < rank[x])
        BY <3>1
      <3>3. CASE succ[x] = NULL
        BY <3>1, <3>3, <2>3
      <3>4. CASE succ[x] \in S /\ rank[succ[x]] < rank[x]
        <4>1. rank[x] \in Nat /\ rank[succ[x]] \in Nat /\ rank[x] + (k - 1) < NBuf
          BY <3>1, <3>4, <2>9
        <4>2. rank[succ[x]] + k < NBuf
          BY <4>1, <3>4, <2>5, <1>1
        <4> QED BY <3>1, <3>4, <4>2, <2>3
      <3> QED BY <3>2, <3>3, <3>4
    <2> QED BY <2>6, <2>8, <2>9
  <1>4. \A n \in 0..NBuf : Good(n)
    BY <1>3
  <1>5. w[NBuf] = NULL
    <2>1. Good(NBuf) /\ NBuf \in 0..NBuf
      BY <1>1, <1>4
    <2>2. \A x \in S : rank[x] \in Nat
      OBVIOUS
    <2> QED BY <1>1, <2>1, <2>2
  <1> QED BY <1>4, <1>5 DEF w

-----------------------------------------------------------------------------
(* What the shapes say of the walks and of the properties.                 *)

\* The free list is L, and it ends.
LEMMA FreeWalkEnds ==
    ASSUME BufTypeOK, NEW L \in SUBSET Bufs, NEW depth \in [Bufs -> Nat], FreeShape(L, depth)
    PROVE  FreeWalk[NBuf] = NULL /\ FreeList \subseteq L
PROOF
  <1> USE BufferAssumption
  <1> DEFINE succ == [i \in Bufs |-> buf[i].next_free]
  <1>1. L # {} => lru_buff \in L /\ depth[lru_buff] < NBuf
    <2>1. SUFFICES ASSUME L # {} PROVE lru_buff \in L /\ depth[lru_buff] < NBuf
      OBVIOUS
    <2>2. lru_buff \in L /\ Cardinality(L) = depth[lru_buff] + 1
      BY <2>1 DEF FreeShape
    <2>3. IsFiniteSet(Bufs) /\ Cardinality(Bufs) = NBuf
      BY FS_Interval DEF Bufs
    <2>4. Cardinality(L) <= NBuf
      BY <2>3, FS_Subset
    <2>5. depth[lru_buff] \in Nat
      BY <2>2
    <2> QED BY <2>2, <2>4, <2>5
  <1>2. lru_buff \in L \cup {NULL}
    BY <1>1 DEF FreeShape
  <1>3. \A x \in L : succ[x] = NULL \/ (succ[x] \in L /\ depth[succ[x]] < depth[x])
    <2>1. SUFFICES ASSUME NEW x \in L
                   PROVE  succ[x] = NULL \/ (succ[x] \in L /\ depth[succ[x]] < depth[x])
      OBVIOUS
    <2>2. succ[x] = buf[x].next_free
      OBVIOUS
    <2>3. \A y \in L : depth[y] \in Nat
      OBVIOUS
    <2> QED BY <2>2, <2>3 DEF FreeShape
  <1> HIDE DEF succ
  <1>4. /\ Walk(lru_buff, succ)[NBuf] = NULL
        /\ \A n \in 0..NBuf : Walk(lru_buff, succ)[n] \in L \cup {NULL}
    BY <1>1, <1>2, <1>3, WalkEnds
  <1>5. FreeWalk = Walk(lru_buff, succ)
    BY DEF FreeWalk, succ
  <1> QED BY <1>4, <1>5 DEF FreeList

\* A walk over the buffers gives buffers, until it gives NULL.
LEMMA WalkStays ==
    ASSUME NEW s \in 0..NBuf, NEW succ \in [Bufs -> 0..NBuf]
    PROVE  \A n \in 0..NBuf : Walk(s, succ)[n] \in 0..NBuf
PROOF
  <1> DEFINE w == Walk(s, succ)
             T == {n \in 0..NBuf : w[n] \notin 0..NBuf}
  <1>1. NBuf \in Nat \ {0}
    BY BufferAssumption
  <1>2. /\ w[0] = s
        /\ \A n \in 1..NBuf : w[n] = IF w[n-1] = NULL THEN NULL ELSE succ[w[n-1]]
    BY WalkSteps
  <1> HIDE DEF w
  <1>3. T = {}
    <2>1. SUFFICES ASSUME T # {} PROVE FALSE
      OBVIOUS
    <2>2. PICK k \in T : \A y \in T : k <= y
      <3>1. T \in SUBSET Nat
        BY <1>1
      <3> HIDE DEF T
      <3> QED BY <2>1, <3>1, LeastNumber
    <2>3. k # 0
      BY <2>2, <1>2
    <2>4. k - 1 \in 0..NBuf /\ k \in 1..NBuf /\ k - 1 \notin T
      BY <2>2, <2>3, <1>1
    <2>5. w[k-1] \in 0..NBuf
      BY <2>4
    <2>6. w[k] = IF w[k-1] = NULL THEN NULL ELSE succ[w[k-1]]
      BY <1>2, <2>4
    <2>7. w[k] \in 0..NBuf
      <3>1. CASE w[k-1] = NULL
        BY <3>1, <2>6, <1>1 DEF NULL
      <3>2. CASE w[k-1] # NULL
        <4>1. w[k-1] \in Bufs
          BY <3>2, <2>5, <1>1 DEF Bufs, NULL
        <4> QED BY <4>1, <3>2, <2>6
      <3> QED BY <3>1, <3>2
    <2> QED BY <2>2, <2>7
  <1> QED BY <1>3 DEF w

\* What get_block finds on a chain is a buffer labelled with the block.
LEMMA FoundLabelled ==
    ASSUME BufTypeOK, NEW b \in Blocks, NEW i \in Found(b)
    PROVE  i \in Bufs /\ buf[i].block = b
PROOF
  <1> USE BufferAssumption
  <1> DEFINE succ == [j \in Bufs |-> buf[j].next]
  <1>1. succ \in [Bufs -> 0..NBuf]
    BY DEF BufTypeOK, BufferType
  <1>2. Bucket(b) \in 0..(Buckets - 1)
    BY DEF Bucket
  <1>3. buff_head[Bucket(b)] \in 0..NBuf
    BY <1>2 DEF BufTypeOK
  <1>4. Chain(b) = Walk(buff_head[Bucket(b)], succ)
    BY DEF Chain
  <1> HIDE DEF succ
  <1>5. \A n \in 0..NBuf : Chain(b)[n] \in 0..NBuf
    BY <1>1, <1>3, <1>4, WalkStays
  <1>6. PICK n \in Matches(b) : i = Chain(b)[n]
    BY DEF Found
  <1>7. n \in 0..NBuf /\ Chain(b)[n] # NULL /\ buf[Chain(b)[n]].block = b
    BY DEF Matches
  <1> QED BY <1>5, <1>6, <1>7 DEF Bufs, NULL

\* When no two blocks share a chain, get_block finds a block that some buffer is
\* labelled with, and its walk for another ends.
LEMMA SearchRight ==
    ASSUME BufTypeOK, HeadsTouched, NEW L \in SUBSET Bufs, NEW P \in SUBSET Bufs,
           NEW rank \in [Bufs -> Nat], NEW b \in Blocks, CountShape(L, P),
           LinksShape(P \ L, rank), DataShape, Bucket(b) # 0,
           \A c \in touched : Bucket(b) = Bucket(c) => b = c
    PROVE  /\ \A i \in Bufs : buf[i].block = b => Found(b) = {i}
           /\ Found(b) = {} => Ends(b) /\ (\A i \in Bufs : buf[i].block # b)
           /\ b \notin touched => buff_head[Bucket(b)] = NULL
           /\ Found(b) = {} => buff_head[Bucket(b)] \in (P \ L) \cup {NULL}
PROOF
  <1> USE BufferAssumption
  <1> DEFINE succ == [j \in Bufs |-> buf[j].next]
             s == buff_head[Bucket(b)]
             F == P \ L
  <1>1. Bucket(b) \in 1..(Buckets - 1)
    BY DEF Bucket
  <1>2. s \in 0..NBuf
    BY <1>1 DEF BufTypeOK
  <1>3. b \notin touched => s = NULL
    BY <1>1 DEF HeadsTouched
  <1>4. Chain(b) = Walk(s, succ)
    BY DEF Chain
  <1>5. Chain(b)[0] = s
    BY <1>4, WalkSteps
  <1>6. ASSUME NEW i \in Bufs, buf[i].block = b PROVE Found(b) = {i}
    <2>1. s = i
      BY <1>6 DEF DataShape, NoBlock
    <2>2. 0 \in Matches(b)
      BY <1>5, <1>6, <2>1 DEF Matches, Bufs, NULL
    <2>3. \A k \in Matches(b) : 0 <= k /\ k \in Nat
      BY DEF Matches
    <2>4. {m \in Matches(b) : \A k \in Matches(b) : m <= k} = {0}
      BY <2>2, <2>3
    <2> QED BY <2>1, <2>4, <1>5 DEF Found
  <1>7. ASSUME Found(b) = {}
        PROVE  Ends(b) /\ (\A i \in Bufs : buf[i].block # b) /\ s \in F \cup {NULL}
    <2>1. \A i \in Bufs : buf[i].block # b
      BY <1>6, <1>7
    <2>2. s \in F \cup {NULL}
      <3>1. CASE b \in touched
        BY <3>1, <2>1, <1>2 DEF LinksShape, Bufs, NULL
      <3> QED BY <3>1, <1>3
    <2>3. \A x \in F : buf[x].block # NoBlock
      BY DEF CountShape
    <2>4. \A x \in F : succ[x] = NULL \/ (succ[x] \in F /\ rank[succ[x]] < rank[x])
      BY <2>3 DEF LinksShape
    <2>5. IsFiniteSet(Bufs) /\ Cardinality(Bufs) = NBuf
      BY FS_Interval DEF Bufs
    <2>6. Cardinality(F) <= NBuf /\ Cardinality(F) \in Nat
      BY <2>5, FS_Subset, FS_CardinalityType
    <2>7. s \in F => rank[s] < NBuf
      <3>1. \A x \in F : rank[x] \in Nat /\ rank[x] < Cardinality(F)
        BY DEF LinksShape
      <3> HIDE DEF F
      <3> QED BY <2>6, <3>1
    <2> HIDE DEF succ, s, F
    <2>8. F \in SUBSET Bufs
      BY DEF F
    <2>9. Walk(s, succ)[NBuf] = NULL
      BY <2>2, <2>4, <2>7, <2>8, WalkEnds
    <2>10. Ends(b)
      BY <2>9, <1>4 DEF Ends
    <2> QED BY <2>1, <2>2, <2>10
  <1> QED BY <1>3, <1>6, <1>7

-----------------------------------------------------------------------------
(* Who holds what.                                                         *)

\* The holders of a buffer are finitely many, and a caller without one holds none.
LEMMA HoldersFinite ==
    ASSUME BufTypeOK
    PROVE  /\ \A i : IsFiniteSet(HoldersOf(i)) /\ Cardinality(HoldersOf(i)) \in Nat
           /\ \A h \in Holders : hold[h] = Free => \A i \in Bufs : h \notin HoldersOf(i)
           /\ \A h \in Holders : hold[h] # Free =>
                /\ hold[h] \in [buf : Bufs, block : Blocks, miss : BOOLEAN]
                /\ h \in HoldersOf(hold[h].buf)
PROOF
  <1>1. \A i : HoldersOf(i) \in SUBSET Holders
    BY DEF HoldersOf
  <1>2. \A i : IsFiniteSet(HoldersOf(i))
    BY <1>1, BufferAssumption, FS_Subset
  <1>3. \A i : Cardinality(HoldersOf(i)) \in Nat
    BY <1>2, FS_CardinalityType
  <1>4. \A i \in Bufs : Free.buf # i
    BY BufferAssumption DEF Free, NULL, Bufs
  <1> QED BY <1>2, <1>3, <1>4 DEF BufTypeOK, Holdings, HoldersOf

\* get_block gives a buffer to a caller.
LEMMA HoldAdds ==
    ASSUME BufTypeOK, NEW h \in Holders, hold[h] = Free, NEW i \in Bufs, NEW b, NEW m,
           hold' = [hold EXCEPT ![h] = [buf |-> i, block |-> b, miss |-> m]]
    PROVE  /\ HoldersOf(i)' = HoldersOf(i) \cup {h}
           /\ Cardinality(HoldersOf(i)') = Cardinality(HoldersOf(i)) + 1
           /\ \A j \in Bufs \ {i} : HoldersOf(j)' = HoldersOf(j)
           /\ hold'[h] = [buf |-> i, block |-> b, miss |-> m] /\ hold'[h] # Free
           /\ \A g \in Holders \ {h} : hold'[g] = hold[g]
PROOF
  <1>1. /\ hold'[h] = [buf |-> i, block |-> b, miss |-> m]
        /\ \A g \in Holders \ {h} : hold'[g] = hold[g]
    BY DEF BufTypeOK
  <1>2. hold'[h].buf = i /\ i # NULL /\ hold[h].buf = NULL
    BY <1>1, BufferAssumption DEF Free, Bufs, NULL
  <1>3. hold'[h] # Free
    BY <1>2 DEF Free
  <1>4. HoldersOf(i)' = HoldersOf(i) \cup {h} /\ h \notin HoldersOf(i)
    BY <1>1, <1>2 DEF HoldersOf
  <1>5. \A j \in Bufs \ {i} : HoldersOf(j)' = HoldersOf(j)
    BY <1>1, <1>2, BufferAssumption DEF HoldersOf, Bufs, NULL
  <1>6. IsFiniteSet(HoldersOf(i))
    BY HoldersFinite
  <1>7. Cardinality(HoldersOf(i) \cup {h}) = Cardinality(HoldersOf(i)) + 1
    BY <1>4, <1>6, FS_AddElement
  <1> QED BY <1>1, <1>3, <1>4, <1>5, <1>7

\* put_block takes a buffer back from a caller.
LEMMA HoldDrops ==
    ASSUME BufTypeOK, NEW h \in Holders, hold[h] # Free, NEW i \in Bufs, hold[h].buf = i,
           hold' = [hold EXCEPT ![h] = Free]
    PROVE  /\ HoldersOf(i)' = HoldersOf(i) \ {h}
           /\ Cardinality(HoldersOf(i)') = Cardinality(HoldersOf(i)) - 1
           /\ Cardinality(HoldersOf(i)) >= 1
           /\ \A j \in Bufs \ {i} : HoldersOf(j)' = HoldersOf(j)
           /\ hold'[h] = Free
           /\ \A g \in Holders \ {h} : hold'[g] = hold[g]
PROOF
  <1>1. hold'[h] = Free /\ \A g \in Holders \ {h} : hold'[g] = hold[g]
    BY DEF BufTypeOK
  <1>2. hold'[h].buf = NULL /\ i # NULL
    BY <1>1, BufferAssumption DEF Free, Bufs, NULL
  <1>3. HoldersOf(i)' = HoldersOf(i) \ {h} /\ h \in HoldersOf(i)
    BY <1>1, <1>2 DEF HoldersOf
  <1>4. \A j \in Bufs \ {i} : HoldersOf(j)' = HoldersOf(j)
    BY <1>1, <1>2, BufferAssumption DEF HoldersOf, Bufs, NULL
  <1>5. IsFiniteSet(HoldersOf(i)) /\ Cardinality(HoldersOf(i)) \in Nat
    BY HoldersFinite
  <1>6. Cardinality(HoldersOf(i) \ {h}) = Cardinality(HoldersOf(i)) - 1
    BY <1>3, <1>5, FS_RemoveElement
  <1>7. Cardinality(HoldersOf(i)) # 0
    BY <1>3, <1>5, FS_EmptySet
  <1> QED BY <1>1, <1>3, <1>4, <1>5, <1>6, <1>7

\* The fields that the shapes of the lists read, but for count, are left alone.
SameLinks ==
    /\ \A j \in Bufs : /\ buf'[j].block = buf[j].block /\ buf'[j].next = buf[j].next
                       /\ buf'[j].next_free = buf[j].next_free
    /\ UNCHANGED <<buff_head, lru_buff>>

\* ... and so are the contents.
SameData ==
    /\ \A j \in Bufs : buf'[j].data = buf[j].data /\ buf'[j].dirty = buf[j].dirty
    /\ UNCHANGED <<disk, latest>>

\* The free list is what it was.
LEMMA FreeSame ==
    ASSUME NEW L \in SUBSET Bufs, NEW depth, FreeShape(L, depth), SameLinks
    PROVE  FreeShape(L, depth)'
PROOF
  <1>1. NBuf \in Bufs
    BY BufferAssumption DEF Bufs
  <1> QED BY <1>1 DEF FreeShape, SameLinks

-----------------------------------------------------------------------------
(* get_block.                                                              *)

\* What every call of get_block records.
Asking(h, b) ==
    /\ halt = "no" /\ hold[h] = Free
    /\ touched' = touched \cup {b}
    /\ shared' = (shared \/ \E g \in Holders : hold[g] # Free)
    /\ UNCHANGED <<latest, stale>>

\* If callers still hold one buffer at a time and no chains collide, nobody held
\* one before, and the block has a chain of its own.
LEMMA AskingAlone ==
    ASSUME BufTypeOK, NEW h \in Holders, NEW b \in Blocks, Asking(h, b)
    PROVE  /\ touched' \subseteq Blocks /\ shared' \in BOOLEAN
           /\ ~shared' => ~shared /\ \A g \in Holders : hold[g] = Free
           /\ CollisionFree' => /\ CollisionFree /\ Bucket(b) # 0
                                /\ \A c \in touched : Bucket(b) = Bucket(c) => b = c
PROOF
  <1>1. touched' \subseteq Blocks /\ touched \subseteq touched' /\ b \in touched'
    BY DEF Asking, BufTypeOK
  <1>2. shared' \in BOOLEAN /\ (~shared' => ~shared /\ \A g \in Holders : hold[g] = Free)
    BY DEF Asking
  <1>3. CollisionFree' => /\ CollisionFree /\ Bucket(b) # 0
                          /\ \A c \in touched : Bucket(b) = Bucket(c) => b = c
    BY <1>1 DEF CollisionFree, Bucket
  <1> QED BY <1>1, <1>2, <1>3

\* get_block finds the block: only the count of its buffer changes.
LEMMA HitInv ==
    ASSUME CacheInv, NEW h \in Holders, NEW b \in Blocks, Asking(h, b),
           NEW i \in Found(b), Hit(h, b, i)
    PROVE  CacheInv'
PROOF
  <1> USE BufferAssumption
  <1>1. BufTypeOK /\ HeadsTouched /\ PoolServesTwice
    BY DEF CacheInv
  <1>2. PICK L \in SUBSET Bufs, P \in SUBSET Bufs,
             depth \in [Bufs -> Nat], rank \in [Bufs -> Nat] : Shape(L, P, depth, rank)
    BY DEF CacheInv
  <1>3. FreeShape(L, depth) /\ CountShape(L, P)
    BY <1>2 DEF Shape
  <1>4. i \in Bufs /\ buf[i].block = b /\ b # NoBlock
    BY <1>1, FoundLabelled DEF NoBlock
  <1>5. buf[i] \in BufferType /\ buf[i].count \in Nat /\ buf[i].count >= 1
    BY <1>1, <1>3, <1>4 DEF CountShape, BufTypeOK, BufferType
  <1>6. /\ buf' = [buf EXCEPT ![i].count = @ + 1] /\ disk' = disk
        /\ hold' = [hold EXCEPT ![h] = [buf |-> i, block |-> b, miss |-> FALSE]]
        /\ UNCHANGED <<buff_head, lru_buff, halt, misses>>
    BY <1>5 DEF Hit
  <1>7. /\ halt = "no" /\ hold[h] = Free /\ latest' = latest /\ stale' = stale
        /\ touched \subseteq touched'
    BY DEF Asking
  <1>8. /\ buf' \in [Bufs -> BufferType] /\ buf'[i].count = buf[i].count + 1
        /\ \A j \in Bufs \ {i} : buf'[j] = buf[j]
        /\ SameLinks /\ SameData
    <2>1. /\ buf'[i] = [buf[i] EXCEPT !.count = @ + 1]
          /\ \A j \in Bufs \ {i} : buf'[j] = buf[j]
      BY <1>1, <1>4, <1>6 DEF BufTypeOK
    <2>2. /\ buf'[i] \in BufferType /\ buf'[i].count = buf[i].count + 1
          /\ buf'[i].block = buf[i].block /\ buf'[i].next = buf[i].next
          /\ buf'[i].next_free = buf[i].next_free
          /\ buf'[i].data = buf[i].data /\ buf'[i].dirty = buf[i].dirty
      BY <1>5, <2>1 DEF BufferType
    <2>3. buf' \in [Bufs -> BufferType]
      BY <1>1, <1>4, <1>6, <2>1, <2>2 DEF BufTypeOK
    <2> QED BY <1>6, <1>7, <2>1, <2>2, <2>3 DEF SameLinks, SameData
  <1>9. /\ HoldersOf(i)' = HoldersOf(i) \cup {h}
        /\ Cardinality(HoldersOf(i)') = Cardinality(HoldersOf(i)) + 1
        /\ \A j \in Bufs \ {i} : HoldersOf(j)' = HoldersOf(j)
        /\ hold'[h] = [buf |-> i, block |-> b, miss |-> FALSE] /\ hold'[h] # Free
        /\ \A g \in Holders \ {h} : hold'[g] = hold[g]
    BY <1>1, <1>4, <1>6, <1>7, HoldAdds
  <1>10. /\ touched' \subseteq Blocks /\ shared' \in BOOLEAN
         /\ ~shared' => ~shared /\ \A g \in Holders : hold[g] = Free
         /\ CollisionFree' => /\ CollisionFree /\ Bucket(b) # 0
                              /\ \A c \in touched : Bucket(b) = Bucket(c) => b = c
    BY <1>1, AskingAlone
  <1>11. BufTypeOK'
    <2>1. hold' \in [Holders -> Holdings]
      BY <1>1, <1>4, <1>6 DEF BufTypeOK, Holdings
    <2> QED BY <1>1, <1>6, <1>7, <1>8, <1>10, <2>1 DEF BufTypeOK
  <1>12. HeadsTouched'
    BY <1>1, <1>6, <1>7 DEF HeadsTouched, Bucket
  <1>13. PoolServesTwice'
    BY <1>1, <1>6, <1>7 DEF PoolServesTwice
  <1>14. halt' # "hang"
    BY <1>6, <1>7
  <1>15. FreeShape(L, depth)'
    BY <1>3, <1>8, FreeSame
  <1>16. CountShape(L, P)'
    <2> DEFINE users(j) == Cardinality(HoldersOf(j))
               users1(j) == Cardinality(HoldersOf(j)')
    <2>2. \A j \in Bufs : /\ Cardinality(HoldersOf(j)) \in Nat /\ buf[j].count \in Nat
                          /\ buf'[j].block = buf[j].block
      BY <1>1, <1>8, HoldersFinite DEF SameLinks, BufTypeOK, BufferType
    <2>3. \A j \in Bufs : buf[j].block = NoBlock => HoldersOf(j)' = {}
      BY <1>3, <1>4, <1>9 DEF CountShape
    <2>4. \A j \in Bufs : buf[j].block # NoBlock => buf'[j].count >= 1
      BY <1>3, <1>4, <1>5, <1>8 DEF CountShape
    <2>a. \A j \in Bufs : \/ users1(j) = users(j) /\ buf'[j].count = buf[j].count
                          \/ users1(j) = users(j) + 1 /\ buf'[j].count = buf[j].count + 1
      BY <1>8, <1>9
    <2>b. \A j \in Bufs : users(j) \in Nat /\ buf[j].count \in Nat
      BY <2>2
    <2>c. /\ \A j \in Bufs : buf[j].count >= users(j)
          /\ \A j \in P : buf[j].count >= users(j) + 1
          /\ halt = "no" /\ stale = 0 => \A j \in Bufs \ P : buf[j].count = users(j)
      BY <1>3 DEF CountShape
    <2> HIDE DEF users, users1
    <2>5. \A j \in Bufs : buf'[j].count >= users1(j)
      BY <2>a, <2>b, <2>c
    <2>6. \A j \in P : buf'[j].count >= users1(j) + 1
      BY <2>a, <2>b, <2>c
    <2>7. halt = "no" /\ stale = 0 => \A j \in Bufs \ P : buf'[j].count = users1(j)
      BY <2>a, <2>b, <2>c
    <2>8. \A g \in Holders : hold'[g] # Free /\ hold'[g].miss =>
            hold'[g].buf \notin L /\ buf'[hold'[g].buf].block = hold'[g].block
      <3>1. SUFFICES ASSUME NEW g \in Holders, hold'[g] # Free, hold'[g].miss
                     PROVE  hold'[g].buf \notin L /\ buf'[hold'[g].buf].block = hold'[g].block
        OBVIOUS
      <3>2. g # h
        BY <1>9, <3>1
      <3>3. hold'[g] = hold[g] /\ hold[g].buf \in Bufs
        BY <1>1, <1>9, <3>1, <3>2, HoldersFinite
      <3> QED BY <1>3, <2>2, <3>1, <3>3 DEF CountShape
    <2>9. ~shared' => \A g \in Holders : hold'[g] # Free => g = h
      BY <1>9, <1>10
    <2> QED BY <1>3, <1>6, <1>7, <2>2, <2>3, <2>4, <2>5, <2>6, <2>7, <2>8, <2>9
            DEF CountShape, users1
  <1>17. ASSUME CollisionFree', ~shared' PROVE (LinksShape(P \ L, rank) /\ DataShape)'
    <2>1. /\ LinksShape(P \ L, rank) /\ DataShape /\ Bucket(b) # 0
          /\ \A c \in touched : Bucket(b) = Bucket(c) => b = c
          /\ \A g \in Holders : hold[g] = Free
      BY <1>2, <1>10, <1>17 DEF Shape
    <2>2. b \in touched /\ touched' = touched
      BY <1>4, <2>1 DEF DataShape, Asking
    <2>3. LinksShape(P \ L, rank)'
      <3>1. \A c \in touched : /\ Bucket(c) \in 0..(Buckets - 1)
                               /\ buff_head[Bucket(c)] \in {NULL} \cup Bufs
        BY <1>1 DEF BufTypeOK, Bucket, Bufs, NULL
      <3>2. \A c \in touched : Bucket(c)' = Bucket(c)
        BY DEF Bucket
      <3> QED BY <1>8, <2>1, <2>2, <3>1, <3>2 DEF LinksShape, SameLinks
    <2>4. DataShape'
      <3>1. \A j \in Bufs : buf'[j].block # NoBlock =>
              /\ buf'[j].block \in touched' /\ buff_head'[Bucket(buf'[j].block)] = j
              /\ buf'[j].data = latest'[buf'[j].block]
              /\ ~buf'[j].dirty => disk'[buf'[j].block] = latest'[buf'[j].block]
        BY <1>8, <2>1, <2>2 DEF DataShape, SameLinks, SameData
      <3>2. \A c \in Blocks : (\A j \in Bufs : buf'[j].block # c) => disk'[c] = latest'[c]
        BY <1>8, <2>1 DEF DataShape, SameLinks, SameData
      <3>3. \A g \in Holders : hold'[g] # Free => g = h
        BY <1>9, <2>1
      <3>4. buf'[hold'[h].buf].block = hold'[h].block
        BY <1>4, <1>8, <1>9 DEF SameLinks
      <3> QED BY <3>1, <3>2, <3>3, <3>4 DEF DataShape, Bucket
    <2> QED BY <2>3, <2>4
  <1>18. Shape(L, P, depth, rank)'
    BY <1>15, <1>16, <1>17 DEF Shape
  <1> QED BY <1>11, <1>12, <1>13, <1>14, <1>18 DEF CacheInv

\* Each buffer but the last of the pool is put back at most once.
LEMMA MissesBounded ==
    ASSUME NEW L \in SUBSET Bufs, NEW P \in SUBSET Bufs, NBuf \notin P,
           NEW m \in Nat, m + Cardinality(L) = NBuf + Cardinality(P)
    PROVE  /\ m < 2 * NBuf
           /\ L = {} => m = NBuf + Cardinality(P)
           /\ P = Bufs \ {NBuf} => Cardinality(P) = NBuf - 1
           /\ IsFiniteSet(L) /\ Cardinality(L) \in Nat
           /\ IsFiniteSet(P) /\ Cardinality(P) \in Nat
PROOF
  <1> USE BufferAssumption
  <1>1. IsFiniteSet(Bufs) /\ Cardinality(Bufs) = NBuf /\ NBuf \in Bufs
    BY FS_Interval DEF Bufs
  <1>2. IsFiniteSet(Bufs \ {NBuf}) /\ Cardinality(Bufs \ {NBuf}) = NBuf - 1
    BY <1>1, FS_RemoveElement
  <1>3. P \in SUBSET (Bufs \ {NBuf})
    OBVIOUS
  <1>4. IsFiniteSet(P) /\ Cardinality(P) <= NBuf - 1
    BY <1>2, <1>3, FS_Subset
  <1>5. IsFiniteSet(L)
    BY <1>1, FS_Subset
  <1>6. Cardinality(L) \in Nat /\ Cardinality(P) \in Nat
    BY <1>4, <1>5, FS_CardinalityType
  <1>7. ASSUME L = {} PROVE m = NBuf + Cardinality(P)
    <2>1. Cardinality(L) = 0
      BY <1>7, FS_EmptySet
    <2> QED BY <2>1, <1>6
  <1>8. ASSUME P = Bufs \ {NBuf} PROVE Cardinality(P) = NBuf - 1
    BY <1>2, <1>8
  <1>9. m < 2 * NBuf
    BY <1>4, <1>6
  <1> QED BY <1>4, <1>5, <1>6, <1>7, <1>8, <1>9

\* When the free list is empty, every buffer that was not put back is held, if its
\* count began at 0.
LEMMA EmptyPool ==
    ASSUME BufTypeOK, NEW L \in SUBSET Bufs, NEW P \in SUBSET Bufs, NEW depth,
           FreeShape(L, depth), CountShape(L, P), lru_buff = NULL, halt = "no", stale = 0
    PROVE  \A i \in Bufs \ P : \E g \in Holders : hold[g] # Free /\ hold[g].buf = i
PROOF
  <1>1. SUFFICES ASSUME NEW i \in Bufs \ P
                 PROVE  \E g \in Holders : hold[g] # Free /\ hold[g].buf = i
    OBVIOUS
  <1>2. L = {}
    BY DEF FreeShape
  <1>3. buf[i].block # NoBlock
    BY <1>2 DEF CountShape
  <1>4. buf[i].count >= 1 /\ buf[i].count = Cardinality(HoldersOf(i))
    BY <1>3 DEF CountShape
  <1>5. HoldersOf(i) # {}
    BY <1>4, FS_EmptySet
  <1>6. PICK g \in Holders : hold[g].buf = i
    BY <1>5 DEF HoldersOf
  <1>7. hold[g] # Free
    BY <1>6, BufferAssumption DEF Free, NULL, Bufs
  <1> QED BY <1>6, <1>7

\* get_block stops, because a chain has no end or no buffer is left.
LEMMA StopInv ==
    ASSUME CacheInv, NEW h \in Holders, NEW b \in Blocks, Asking(h, b), Found(b) = {},
           \/ ~Ends(b) /\ Stop("hang")
           \/ Ends(b) /\ lru_buff = NULL /\ Stop("fault")
    PROVE  CacheInv'
PROOF
  <1> USE BufferAssumption
  <1>1. BufTypeOK /\ HeadsTouched /\ PoolServesTwice
    BY DEF CacheInv
  <1>2. PICK L \in SUBSET Bufs, P \in SUBSET Bufs,
             depth \in [Bufs -> Nat], rank \in [Bufs -> Nat] : Shape(L, P, depth, rank)
    BY DEF CacheInv
  <1>3. FreeShape(L, depth) /\ CountShape(L, P)
    BY <1>2 DEF Shape
  <1>4. /\ halt' \in {"hang", "fault"} /\ (halt' = "hang" => ~Ends(b))
        /\ halt' = "fault" => lru_buff = NULL
        /\ UNCHANGED <<buf, buff_head, lru_buff, disk, hold, misses>>
    BY DEF Stop
  <1>5. /\ halt = "no" /\ hold[h] = Free /\ latest' = latest /\ stale' = stale
        /\ touched \subseteq touched' /\ touched' = touched \cup {b}
    BY DEF Asking
  <1>6. /\ touched' \subseteq Blocks /\ shared' \in BOOLEAN
        /\ ~shared' => ~shared /\ \A g \in Holders : hold[g] = Free
        /\ CollisionFree' => /\ CollisionFree /\ Bucket(b) # 0
                             /\ \A c \in touched : Bucket(b) = Bucket(c) => b = c
    BY <1>1, AskingAlone
  <1>7. BufTypeOK' /\ HeadsTouched'
    BY <1>1, <1>4, <1>5, <1>6 DEF BufTypeOK, HeadsTouched, Bucket
  <1>8. FreeShape(L, depth)'
    BY <1>3, <1>4 DEF FreeShape
  <1>9. CountShape(L, P)'
    BY <1>3, <1>4, <1>6 DEF CountShape, HoldersOf
  <1>10. ASSUME CollisionFree', ~shared'
         PROVE  /\ (LinksShape(P \ L, rank) /\ DataShape)'
                /\ halt' # "hang"
    <2>1. /\ LinksShape(P \ L, rank) /\ DataShape /\ Bucket(b) # 0
          /\ \A c \in touched : Bucket(b) = Bucket(c) => b = c
      BY <1>2, <1>6, <1>10 DEF Shape
    <2>2. Ends(b) /\ (b \notin touched => buff_head[Bucket(b)] = NULL)
      BY <1>1, <1>3, <2>1, SearchRight
    <2>3. \A c \in touched' : LET i == buff_head[Bucket(c)]
                              IN  i = NULL \/ buf[i].block = c \/ i \in P \ L
      BY <1>5, <2>1, <2>2 DEF LinksShape
    <2>4. LinksShape(P \ L, rank)'
      BY <1>4, <2>1, <2>3 DEF LinksShape, Bucket
    <2>5. DataShape'
      BY <1>4, <1>5, <2>1 DEF DataShape, Bucket
    <2> QED BY <1>4, <2>2, <2>4, <2>5
  <1>11. PoolServesTwice'
    <2>1. misses' < 2 * NBuf
      BY <1>1, <1>4 DEF PoolServesTwice
    <2>2. ASSUME halt' = "fault" PROVE misses' >= NBuf /\ (~shared' /\ stale' = 0 => FALSE)
      <3>1. lru_buff = NULL /\ L = {}
        BY <1>3, <1>4, <2>2 DEF FreeShape
      <3>2. misses = NBuf + Cardinality(P) /\ Cardinality(P) \in Nat
        <4>1. misses \in Nat /\ NBuf \notin P /\ misses + Cardinality(L) = NBuf + Cardinality(P)
          BY <1>1, <1>3 DEF CountShape, BufTypeOK
        <4> QED BY <3>1, <4>1, MissesBounded
      <3>3. ~ (~shared' /\ stale' = 0)
        <4>1. NBuf \in Bufs \ P
          BY <1>3 DEF CountShape, Bufs
        <4> QED BY <4>1, <1>1, <1>3, <1>5, <1>6, <3>1, EmptyPool
      <3> QED BY <1>4, <3>2, <3>3
    <2> QED BY <2>1, <2>2 DEF PoolServesTwice
  <1>12. Shape(L, P, depth, rank)'
    BY <1>8, <1>9, <1>10 DEF Shape
  <1> QED BY <1>7, <1>10, <1>11, <1>12 DEF CacheInv

\* The victim leaves the free list, of which it was the head.
LEMMA FreePopped ==
    ASSUME NEW L \in SUBSET Bufs, NEW depth \in [Bufs -> Nat], FreeShape(L, depth),
           NEW v, v = lru_buff, v # NULL, lru_buff' = buf[v].next_free,
           \A j \in Bufs \ {v} :
             buf'[j].next_free = buf[j].next_free /\ buf'[j].block = buf[j].block
    PROVE  /\ v \in L /\ Cardinality(L \ {v}) + 1 = Cardinality(L)
           /\ FreeShape(L \ {v}, depth)'
PROOF
  <1> USE BufferAssumption
  <1> DEFINE M == L \ {v}
             nf == buf[v].next_free
  <1>1. /\ L # {} /\ v \in L /\ v \in Bufs /\ NBuf \in L /\ NBuf \in Bufs /\ NULL \notin L
        /\ Cardinality(L) = depth[v] + 1 /\ depth[NBuf] = 0 /\ buf[NBuf].block = NoBlock
        /\ \A x \in L : depth[x] <= depth[v] /\ (depth[x] = depth[v] => x = v)
    <2>1. NULL \notin Bufs /\ NBuf \in Bufs /\ L # {}
      BY DEF FreeShape, Bufs, NULL
    <2> QED BY <2>1 DEF FreeShape
  <1>2. \A x \in L : depth[x] \in Nat
    OBVIOUS
  <1>3. IsFiniteSet(L)
    <2>1. IsFiniteSet(Bufs)
      BY FS_Interval DEF Bufs
    <2> QED BY <2>1, FS_Subset
  <1>4. Cardinality(M) = Cardinality(L) - 1 /\ IsFiniteSet(M)
    BY <1>1, <1>3, FS_RemoveElement
  <1>5. Cardinality(M) = depth[v]
    BY <1>1, <1>2, <1>4
  <1>6. \A x \in M : depth[x] < depth[v]
    BY <1>1, <1>2
  <1>7. \A x \in M : \/ buf[x].next_free = NULL /\ depth[x] = 0
                     \/ buf[x].next_free \in M /\ depth[buf[x].next_free] + 1 = depth[x]
    <2>1. SUFFICES ASSUME NEW x \in M, buf[x].next_free \in L,
                          depth[buf[x].next_free] + 1 = depth[x]
                   PROVE  buf[x].next_free # v
      BY DEF FreeShape
    <2>2. depth[x] < depth[v] /\ depth[x] \in Nat /\ depth[v] \in Nat
      BY <1>1, <1>2, <1>6
    <2> QED BY <2>1, <2>2
  <1>8. \/ nf = NULL /\ M = {}
        \/ /\ nf \in M /\ depth[nf] + 1 = depth[v] /\ NBuf \in M
           /\ \A x \in M : depth[x] <= depth[nf]
    <2>1. CASE nf = NULL /\ depth[v] = 0
      BY <2>1, <1>4, <1>5, FS_EmptySet
    <2>2. CASE nf \in L /\ depth[nf] + 1 = depth[v]
      <3>1. depth[nf] \in Nat /\ depth[v] \in Nat /\ nf # v
        <4>1. \A n \in Nat : n + 1 # n
          OBVIOUS
        <4>2. depth[nf] \in Nat /\ depth[v] \in Nat
          BY <2>2, <1>1, <1>2
        <4> QED BY <2>2, <4>1, <4>2
      <3>2. v # NBuf
        BY <2>2, <3>1, <1>1
      <3>3. \A x \in M : depth[x] <= depth[nf]
        BY <2>2, <3>1, <1>2, <1>6
      <3> QED BY <2>2, <3>1, <3>2, <3>3, <1>1
    <2> QED BY <1>1, <2>1, <2>2 DEF FreeShape
  <1>9. \A x, y \in M : depth[x] = depth[y] => x = y
    BY DEF FreeShape
  <1>10. \A x \in M : buf'[x].next_free = buf[x].next_free /\ buf'[x].block = buf[x].block
    OBVIOUS
  <1>11. lru_buff' = nf /\ Cardinality(M) + 1 = Cardinality(L)
    BY <1>1, <1>2, <1>5
  <1>12. FreeShape(M, depth)'
    <2>1. NULL \notin M
      BY <1>1
    <2>2. CASE nf = NULL /\ M = {}
      <3>1. lru_buff' = NULL
        BY <2>2, <1>11
      <3>2. FreeShape({}, depth)'
        BY <3>1 DEF FreeShape
      <3> QED BY <2>2, <3>2
    <2>3. CASE /\ nf \in M /\ depth[nf] + 1 = depth[v] /\ NBuf \in M
               /\ \A x \in M : depth[x] <= depth[nf]
      <3>1. lru_buff' # NULL /\ M # {} /\ Cardinality(M) = depth[lru_buff'] + 1
        BY <2>1, <2>3, <1>5, <1>11
      <3>2. buf'[NBuf].block = NoBlock
        BY <2>3, <1>1, <1>10
      <3>3. \A x \in M : \/ buf'[x].next_free = NULL /\ depth[x] = 0
                         \/ buf'[x].next_free \in M /\ depth[buf'[x].next_free] + 1 = depth[x]
        BY <1>7, <1>10
      <3>4. lru_buff' \in M /\ \A x \in M : depth[x] <= depth[lru_buff']
        BY <2>3, <1>11
      <3>5. NBuf \in M /\ depth[NBuf] = 0
        BY <2>3, <1>1
      <3> HIDE DEF M, nf
      <3> QED BY <3>1, <3>2, <3>3, <3>4, <3>5, <1>9 DEF FreeShape
    <2> QED BY <1>8, <2>2, <2>3
  <1> QED BY <1>1, <1>11, <1>12

\* get_block does not find the block: the victim is relabelled and read.
LEMMA MissInv ==
    ASSUME CacheInv, NEW h \in Holders, NEW b \in Blocks, Asking(h, b), Found(b) = {},
           lru_buff # NULL, Miss(h, b, lru_buff)
    PROVE  CacheInv'
PROOF
  <1> USE BufferAssumption
  <1>1. BufTypeOK /\ HeadsTouched /\ PoolServesTwice
    BY DEF CacheInv
  <1>2. PICK L \in SUBSET Bufs, P \in SUBSET Bufs,
             depth \in [Bufs -> Nat], rank \in [Bufs -> Nat] : Shape(L, P, depth, rank)
    BY DEF CacheInv
  <1>3. FreeShape(L, depth) /\ CountShape(L, P)
    BY <1>2 DEF Shape
  <1>4. b # NoBlock /\ Bucket(b) \in 0..(Buckets - 1) /\ Bucket(b)' = Bucket(b)
    BY DEF NoBlock, Bucket
  <1>5. PICK s \in 0..NBuf : s = buff_head[Bucket(b)]
    BY <1>1, <1>4 DEF BufTypeOK
  <1>6. PICK v \in Bufs : v = lru_buff
    BY <1>1 DEF BufTypeOK, Bufs, NULL
  <1>7. v \in L /\ (buf[v].block = NoBlock \/ v \in P)
    BY <1>3, <1>6 DEF FreeShape, CountShape
  <1>8. /\ halt = "no" /\ hold[h] = Free /\ latest' = latest /\ stale' = stale
        /\ touched' = touched \cup {b}
    BY DEF Asking
  <1>9. /\ touched' \subseteq Blocks /\ shared' \in BOOLEAN
        /\ ~shared' => ~shared /\ \A g \in Holders : hold[g] = Free
        /\ CollisionFree' => /\ CollisionFree /\ Bucket(b) # 0
                             /\ \A c \in touched : Bucket(b) = Bucket(c) => b = c
    BY <1>1, AskingAlone
  <1>10. /\ lru_buff' = buf[v].next_free /\ disk' = WriteBack(v)
         /\ buff_head' = [buff_head EXCEPT ![Bucket(b)] = v]
         /\ hold' = [hold EXCEPT ![h] = [buf |-> v, block |-> b, miss |-> TRUE]]
         /\ misses' = misses + 1 /\ halt' = halt
    BY <1>6 DEF Miss
  <1>11. buf' = [j \in Bufs |-> IF j = v THEN Relabelled(v, b, WriteBack(v))
                                ELSE IF j = buf[v].next_free THEN [buf[j] EXCEPT !.prev_free = NULL]
                                ELSE buf[j]]
    BY <1>6 DEF Miss
  <1>12. /\ disk' \in [Blocks \cup {NoBlock} -> Values]
         /\ ~buf[v].dirty => disk' = disk
         /\ buf[v].dirty => disk' = [disk EXCEPT ![buf[v].block] = buf[v].data]
    <2>1. buf[v].block \in Blocks \cup {NoBlock} /\ buf[v].data \in Values
      BY <1>1 DEF BufTypeOK, BufferType
    <2> QED BY <1>1, <1>10, <2>1 DEF BufTypeOK, WriteBack
  <1>13. buf'[v] = [block |-> b, dirty |-> FALSE, count |-> buf[v].count + 1, next |-> s,
                    next_free |-> NULL, prev_free |-> NULL, data |-> disk'[b]]
    BY <1>5, <1>10, <1>11 DEF Relabelled
  <1>14. buf'[v] \in BufferType
    <2>1. /\ buf[v].count + 1 \in Nat /\ NULL \in 0..NBuf /\ b \in Blocks \cup {NoBlock}
          /\ disk'[b] \in Values
      BY <1>1, <1>12 DEF BufTypeOK, BufferType, NULL
    <2> QED BY <1>13, <2>1 DEF BufferType
  <1>15. \A j \in Bufs \ {v} :
           /\ buf'[j] \in BufferType /\ buf'[j].block = buf[j].block
           /\ buf'[j].dirty = buf[j].dirty /\ buf'[j].count = buf[j].count
           /\ buf'[j].next = buf[j].next /\ buf'[j].next_free = buf[j].next_free
           /\ buf'[j].data = buf[j].data
    <2>1. SUFFICES ASSUME NEW j \in Bufs \ {v}
                   PROVE  /\ buf'[j] \in BufferType /\ buf'[j].block = buf[j].block
                          /\ buf'[j].dirty = buf[j].dirty /\ buf'[j].count = buf[j].count
                          /\ buf'[j].next = buf[j].next /\ buf'[j].next_free = buf[j].next_free
                          /\ buf'[j].data = buf[j].data
      OBVIOUS
    <2>2. buf[j] \in BufferType /\ NULL \in 0..NBuf
      BY <1>1 DEF BufTypeOK, NULL
    <2>3. buf'[j] = buf[j] \/ buf'[j] = [buf[j] EXCEPT !.prev_free = NULL]
      BY <1>11
    <2>4. CASE buf'[j] = [buf[j] EXCEPT !.prev_free = NULL]
      BY <2>2, <2>4 DEF BufferType
    <2> QED BY <2>2, <2>3, <2>4
  <1>16. /\ HoldersOf(v)' = HoldersOf(v) \cup {h}
         /\ Cardinality(HoldersOf(v)') = Cardinality(HoldersOf(v)) + 1
         /\ \A j \in Bufs \ {v} : HoldersOf(j)' = HoldersOf(j)
         /\ hold'[h] = [buf |-> v, block |-> b, miss |-> TRUE] /\ hold'[h] # Free
         /\ \A g \in Holders \ {h} : hold'[g] = hold[g]
    BY <1>1, <1>8, <1>10, HoldAdds
  <1>17. BufTypeOK'
    <2>1. hold' \in [Holders -> Holdings]
      BY <1>1, <1>10 DEF BufTypeOK, Holdings
    <2>2. buf' \in [Bufs -> BufferType]
      BY <1>11, <1>14, <1>15
    <2>3. buff_head' \in [0..(Buckets - 1) -> 0..NBuf]
      <3>1. v \in 0..NBuf /\ buff_head \in [0..(Buckets - 1) -> 0..NBuf]
        BY <1>1 DEF BufTypeOK, Bufs
      <3> QED BY <1>10, <3>1
    <2>4. lru_buff' \in 0..NBuf
      BY <1>1, <1>10 DEF BufTypeOK, BufferType
    <2>5. misses' \in Nat
      BY <1>1, <1>10 DEF BufTypeOK
    <2> QED BY <1>1, <1>8, <1>9, <1>10, <1>12, <2>1, <2>2, <2>3, <2>4, <2>5 DEF BufTypeOK
  <1>18. HeadsTouched'
    <2>1. \A k \in 1..(Buckets - 1) : k # Bucket(b) => buff_head'[k] = buff_head[k]
      BY <1>1, <1>10 DEF BufTypeOK
    <2>2. \A k \in 1..(Buckets - 1) : buff_head'[k] # NULL => \E c \in touched' : Bucket(c) = k
      BY <1>1, <1>8, <2>1 DEF HeadsTouched
    <2> QED BY <2>2 DEF HeadsTouched, Bucket
  <1>19. /\ Cardinality(L \ {v}) + 1 = Cardinality(L)
         /\ FreeShape(L \ {v}, depth)'
    BY <1>3, <1>6, <1>10, <1>15, FreePopped
  <1>20. CountShape(L \ {v}, P)'
    <2> DEFINE users(j) == Cardinality(HoldersOf(j))
               users1(j) == Cardinality(HoldersOf(j)')
    <2>1. \A j \in Bufs : users(j) \in Nat /\ buf[j].count \in Nat
      BY <1>1, HoldersFinite DEF BufTypeOK, BufferType
    <2>2. \A j \in Bufs : \/ /\ users1(j) = users(j) /\ buf'[j].count = buf[j].count
                             /\ buf'[j].block = buf[j].block
                          \/ users1(j) = users(j) + 1 /\ buf'[j].count = buf[j].count + 1
      <3>1. buf'[v].count = buf[v].count + 1
        BY <1>13
      <3>2. users1(v) = users(v) + 1
        BY <1>16
      <3>3. \A j \in Bufs \ {v} : users1(j) = users(j)
        BY <1>16
      <3> HIDE DEF users, users1
      <3> QED BY <1>15, <3>1, <3>2, <3>3
    <2>3. /\ \A j \in Bufs : buf[j].count >= users(j)
          /\ \A j \in P : buf[j].count >= users(j) + 1
          /\ halt = "no" /\ stale = 0 => \A j \in Bufs \ P : buf[j].count = users(j)
          /\ \A j \in Bufs : buf[j].block # NoBlock => buf[j].count >= 1
      BY <1>3 DEF CountShape
    <2>4. misses' + Cardinality(L \ {v}) = NBuf + Cardinality(P)
      <3>1. misses \in Nat /\ NBuf \notin P /\ misses + Cardinality(L) = NBuf + Cardinality(P)
        BY <1>1, <1>3 DEF CountShape, BufTypeOK
      <3>2. Cardinality(L) \in Nat /\ Cardinality(P) \in Nat /\ IsFiniteSet(L)
        BY <3>1, MissesBounded
      <3>3. Cardinality(L \ {v}) \in Nat
        BY <3>2, FS_Subset, FS_CardinalityType
      <3> QED BY <1>10, <1>19, <3>1, <3>2, <3>3
    <2>5. \A j \in Bufs : buf'[j].block = NoBlock =>
            j \in L \ {v} /\ j \notin P /\ HoldersOf(j)' = {}
      BY <1>3, <1>4, <1>13, <1>15, <1>16 DEF CountShape
    <2>6. \A j \in L \ {v} : buf'[j].block = NoBlock \/ j \in P
      BY <1>3, <1>15 DEF CountShape
    <2>7. \A g \in Holders : hold'[g] # Free /\ hold'[g].miss =>
            hold'[g].buf \notin L \ {v} /\ buf'[hold'[g].buf].block = hold'[g].block
      <3>1. SUFFICES ASSUME NEW g \in Holders, hold'[g] # Free, hold'[g].miss
                     PROVE  /\ hold'[g].buf \notin L \ {v}
                            /\ buf'[hold'[g].buf].block = hold'[g].block
        OBVIOUS
      <3>2. CASE g = h
        <4>1. hold'[g].buf = v /\ hold'[g].block = b /\ buf'[v].block = b
          BY <1>13, <1>16, <3>2
        <4> QED BY <4>1
      <3>3. CASE g # h
        <4>1. hold'[g] = hold[g] /\ hold[g].buf \in Bufs
          BY <1>1, <1>16, <3>1, <3>3, HoldersFinite
        <4>2. hold[g].buf \notin L /\ buf[hold[g].buf].block = hold[g].block
          BY <1>3, <3>1, <4>1 DEF CountShape
        <4> QED BY <1>7, <1>15, <4>1, <4>2
      <3> QED BY <3>2, <3>3
    <2>8. ~shared' => \A g \in Holders : hold'[g] # Free => g = h
      BY <1>9, <1>16
    <2> HIDE DEF users, users1
    <2>9. \A j \in Bufs : buf'[j].count >= users1(j)
      BY <2>1, <2>2, <2>3
    <2>10. \A j \in P : buf'[j].count >= users1(j) + 1
      BY <2>1, <2>2, <2>3
    <2>11. halt' = "no" /\ stale' = 0 => \A j \in Bufs \ P : buf'[j].count = users1(j)
      BY <1>8, <2>1, <2>2, <2>3
    <2>12. \A j \in Bufs : buf'[j].block # NoBlock => buf'[j].count >= 1
      BY <2>1, <2>2, <2>3
    <2>13. NBuf \notin P
      BY <1>3 DEF CountShape
    <2> QED BY <2>4, <2>5, <2>6, <2>7, <2>8, <2>9, <2>10, <2>11, <2>12, <2>13
            DEF CountShape, users1
  <1> DEFINE rank1 == [rank EXCEPT ![v] = IF s = NULL THEN 0 ELSE rank[s] + 1]
  <1>21. rank1 \in [Bufs -> Nat]
    BY DEF Bufs, NULL
  <1>22. ASSUME CollisionFree', ~shared'
         PROVE  (LinksShape(P \ (L \ {v}), rank1) /\ DataShape)'
    <2>1. /\ LinksShape(P \ L, rank) /\ DataShape /\ Bucket(b) # 0
          /\ \A c \in touched : Bucket(b) = Bucket(c) => b = c
          /\ \A g \in Holders : hold[g] = Free
      BY <1>2, <1>9, <1>22 DEF Shape
    <2>2. (\A i \in Bufs : buf[i].block # b) /\ s \in (P \ L) \cup {NULL}
      BY <1>1, <1>3, <1>5, <2>1, SearchRight
    <2>3. \A c \in touched' : c # b => /\ c \in touched /\ Bucket(c) # Bucket(b)
                                       /\ Bucket(c) \in 0..(Buckets - 1)
                                       /\ buff_head'[Bucket(c)] = buff_head[Bucket(c)]
      <3>1. SUFFICES ASSUME NEW c \in touched, c # b
                     PROVE  /\ Bucket(c) # Bucket(b) /\ Bucket(c) \in 0..(Buckets - 1)
                            /\ buff_head'[Bucket(c)] = buff_head[Bucket(c)]
        BY <1>8
      <3>2. Bucket(c) \in 0..(Buckets - 1)
        BY <1>1 DEF BufTypeOK, Bucket
      <3>3. Bucket(c) # Bucket(b)
        BY <2>1, <3>1
      <3> QED BY <1>1, <1>10, <3>2, <3>3 DEF BufTypeOK
    <2>4. buff_head'[Bucket(b)] = v /\ buf'[v].block = b /\ buf'[v].next = s
      BY <1>1, <1>4, <1>10, <1>13 DEF BufTypeOK
    <2>5. LinksShape(P \ (L \ {v}), rank1)'
      <3> DEFINE F == P \ L
                 G == P \ (L \ {v})
      <3>1. /\ F \subseteq G /\ v \notin F /\ (v \in P => G = F \cup {v}) /\ (v \notin P => G = F)
        BY <1>7
      <3>2. IsFiniteSet(F) /\ Cardinality(F) \in Nat
        <4>1. IsFiniteSet(Bufs)
          BY FS_Interval DEF Bufs
        <4> QED BY <4>1, FS_Subset, FS_CardinalityType
      <3>3. /\ v \in P => Cardinality(G) = Cardinality(F) + 1
            /\ v \notin P => Cardinality(G) = Cardinality(F)
        BY <3>1, <3>2, FS_AddElement
      <3>4. /\ \A x \in F : rank[x] < Cardinality(F) /\ rank[x] \in Nat /\ x \in Bufs
            /\ s \in F \cup {NULL}
        BY <2>1, <2>2 DEF LinksShape
      <3>5. \A x \in Bufs \ {v} : rank1[x] = rank[x] /\ rank[x] \in Nat
        OBVIOUS
      <3>6. /\ rank1[v] = IF s = NULL THEN 0 ELSE rank[s] + 1
            /\ NULL \notin Bufs
        BY DEF NULL, Bufs
      <3> HIDE DEF F, rank1
      <3>7. rank1[v] <= Cardinality(F)
        <4>1. CASE s = NULL
          BY <3>2, <3>6, <4>1
        <4>2. CASE s \in F
          BY <3>2, <3>4, <3>6, <4>2
        <4> QED BY <3>4, <4>1, <4>2
      <3>8. rank1[v] \in Nat
        <4>1. CASE s = NULL
          BY <3>6, <4>1
        <4>2. CASE s \in F
          BY <3>4, <3>6, <4>2
        <4> QED BY <3>4, <4>1, <4>2
      <3>9. Cardinality(F) <= Cardinality(G) /\ Cardinality(G) \in Nat
        BY <3>2, <3>3
      <3>10. \A x \in G : rank1[x] < Cardinality(G)
        <4>1. SUFFICES ASSUME NEW x \in G PROVE rank1[x] < Cardinality(G)
          OBVIOUS
        <4>2. CASE x = v
          <5>1. Cardinality(G) = Cardinality(F) + 1
            BY <3>1, <3>3, <4>1, <4>2
          <5> QED BY <3>2, <3>7, <3>8, <4>2, <5>1
        <4>3. CASE x # v
          <5>1. x \in F /\ rank1[x] = rank[x]
            BY <3>1, <3>4, <3>5, <4>1, <4>3
          <5> QED BY <3>2, <3>4, <3>9, <5>1
        <4> QED BY <4>2, <4>3
      <3>11. ASSUME NEW i \in Bufs, buf'[i].block # NoBlock
             PROVE  /\ \/ buf'[i].next = NULL
                       \/ buf'[i].next \in G /\ rank1[buf'[i].next] < rank1[i]
                    /\ rank1[i] <= Cardinality(G)
        <4>1. CASE i = v
          <5>1. rank1[i] <= Cardinality(G)
            BY <3>2, <3>7, <3>8, <3>9, <4>1
          <5>2. CASE s \in F
            <6>1. rank1[s] = rank[s] /\ rank1[v] = rank[s] + 1 /\ rank[s] \in Nat /\ s \in G
              BY <3>1, <3>4, <3>5, <3>6, <5>2
            <6> QED BY <2>4, <4>1, <5>1, <6>1
          <5> QED BY <2>4, <3>4, <4>1, <5>1, <5>2
        <4>2. CASE i # v
          <5>1. buf[i].block # NoBlock /\ buf'[i].next = buf[i].next
            BY <1>15, <3>11, <4>2
          <5>2. /\ buf[i].next = NULL \/ (buf[i].next \in F /\ rank[buf[i].next] < rank[i])
                /\ rank[i] <= Cardinality(F)
            BY <2>1, <5>1 DEF LinksShape, F
          <5>3. rank1[i] <= Cardinality(G)
            BY <3>2, <3>5, <3>9, <4>2, <5>2
          <5>4. CASE buf[i].next \in F /\ rank[buf[i].next] < rank[i]
            <6>1. rank1[buf[i].next] = rank[buf[i].next] /\ buf[i].next \in G /\ rank1[i] = rank[i]
              BY <3>1, <3>4, <3>5, <4>2, <5>4
            <6> QED BY <5>1, <5>3, <5>4, <6>1
          <5> QED BY <5>1, <5>2, <5>3, <5>4
        <4> QED BY <4>1, <4>2
      <3>12. \A c \in touched' : LET i == buff_head'[Bucket(c)]
                                 IN  i = NULL \/ buf'[i].block = c \/ i \in G
        <4>1. SUFFICES ASSUME NEW c \in touched', c # b
                       PROVE  LET i == buff_head'[Bucket(c)]
                              IN  i = NULL \/ buf'[i].block = c \/ i \in G
          BY <2>4
        <4> DEFINE i == buff_head[Bucket(c)]
        <4>2. i = buff_head'[Bucket(c)] /\ i \in 0..NBuf /\ c \in touched
          BY <1>1, <2>3, <4>1 DEF BufTypeOK
        <4>3. i = NULL \/ buf[i].block = c \/ i \in F
          BY <2>1, <4>2 DEF LinksShape, F
        <4> HIDE DEF i
        <4>4. i = NULL \/ buf'[i].block = c \/ i \in G
          <5>1. CASE i = v
            <6>1. c # NoBlock
              BY <1>1, <4>2 DEF BufTypeOK, NoBlock
            <6>2. v \in P
              BY <1>7, <3>1, <3>6, <4>3, <5>1, <6>1
            <6> QED BY <3>1, <5>1, <6>2
          <5>2. CASE i # v /\ i # NULL
            <6>1. i \in Bufs \ {v}
              BY <4>2, <5>2 DEF Bufs, NULL
            <6> QED BY <1>15, <3>1, <4>3, <6>1
          <5> QED BY <5>1, <5>2
        <4> QED BY <4>2, <4>4
      <3>13. \A c \in touched' : Bucket(c)' = Bucket(c)
        BY DEF Bucket
      <3> HIDE DEF G
      <3>14. LinksShape(G, rank1)'
        BY <3>10, <3>11, <3>12, <3>13 DEF LinksShape, rank1
      <3> QED BY <3>14 DEF G
    <2>6. disk'[b] = latest[b]
      <3>1. disk[b] = latest[b]
        BY <2>1, <2>2 DEF DataShape
      <3>2. buf[v].block # b
        BY <2>2
      <3> QED BY <1>1, <1>12, <3>1, <3>2 DEF BufTypeOK
    <2>7. \A j \in Bufs \ {v} : buf[j].block # NoBlock => buf[j].block # buf[v].block
      BY <2>1 DEF DataShape
    <2>8. \A c \in Blocks \cup {NoBlock} : c # buf[v].block => disk'[c] = disk[c]
      BY <1>1, <1>12 DEF BufTypeOK
    <2>9. \A c \in Blocks : c = buf[v].block => disk'[c] = latest[c]
      <3>1. SUFFICES ASSUME NEW c \in Blocks, c = buf[v].block PROVE disk'[c] = latest[c]
        OBVIOUS
      <3>2. c # NoBlock
        BY DEF NoBlock
      <3>3. buf[v].data = latest[c] /\ (~buf[v].dirty => disk[c] = latest[c])
        BY <2>1, <3>1, <3>2 DEF DataShape
      <3>4. CASE buf[v].dirty
        BY <1>1, <1>12, <3>1, <3>3, <3>4 DEF BufTypeOK
      <3> QED BY <1>12, <3>3, <3>4
    <2>10. DataShape'
      <3>1. ASSUME NEW j \in Bufs, buf'[j].block # NoBlock
            PROVE  /\ buf'[j].block \in touched' /\ buff_head'[Bucket(buf'[j].block)] = j
                   /\ buf'[j].data = latest'[buf'[j].block]
                   /\ ~buf'[j].dirty => disk'[buf'[j].block] = latest'[buf'[j].block]
        <4>1. CASE j = v
          <5>1. buf'[v].data = disk'[b]
            BY <1>13
          <5> QED BY <1>8, <2>4, <2>6, <4>1, <5>1
        <4>2. CASE j # v
          <5> DEFINE c == buf[j].block
          <5>1. /\ buf'[j].block = c /\ buf'[j].data = buf[j].data
                /\ buf'[j].dirty = buf[j].dirty /\ c # NoBlock /\ c # b
            BY <1>15, <2>2, <3>1, <4>2
          <5>2. /\ c \in touched /\ buff_head[Bucket(c)] = j /\ buf[j].data = latest[c]
                /\ ~buf[j].dirty => disk[c] = latest[c]
            BY <2>1, <5>1 DEF DataShape
          <5>3. disk'[c] = disk[c]
            <6>1. c # buf[v].block /\ c \in Blocks
              BY <1>1, <2>7, <4>2, <5>1, <5>2 DEF BufTypeOK
            <6> QED BY <2>8, <6>1
          <5>4. c \in touched' /\ buff_head'[Bucket(c)] = j
            BY <1>8, <2>3, <5>1, <5>2
          <5> HIDE DEF c
          <5> QED BY <1>8, <5>1, <5>2, <5>3, <5>4
        <4> QED BY <4>1, <4>2
      <3>2. ASSUME NEW c \in Blocks, \A j \in Bufs : buf'[j].block # c
            PROVE  disk'[c] = latest'[c]
        <4>1. CASE c = buf[v].block
          BY <1>8, <2>9, <4>1
        <4>2. CASE c # buf[v].block
          <5>1. \A j \in Bufs : buf[j].block # c
            BY <1>15, <3>2, <4>2
          <5> QED BY <1>8, <2>1, <2>8, <4>2, <5>1 DEF DataShape
        <4> QED BY <4>1, <4>2
      <3>3. \A g \in Holders : hold'[g] # Free => g = h
        BY <1>16, <2>1
      <3>4. buf'[hold'[h].buf].block = hold'[h].block
        <4>1. hold'[h].buf = v /\ hold'[h].block = b
          BY <1>16
        <4> QED BY <2>4, <4>1
      <3> QED BY <3>1, <3>2, <3>3, <3>4 DEF DataShape, Bucket
    <2> QED BY <2>5, <2>10
  <1>23. PoolServesTwice'
    <2>1. misses' \in Nat /\ NBuf \notin P /\ misses' + Cardinality(L \ {v}) = NBuf + Cardinality(P)
      BY <1>17, <1>20 DEF CountShape, BufTypeOK
    <2>2. misses' < 2 * NBuf
      BY <2>1, MissesBounded
    <2> QED BY <1>8, <1>10, <2>2 DEF PoolServesTwice
  <1>24. Shape(L \ {v}, P, depth, rank1)'
    BY <1>19, <1>20, <1>22 DEF Shape
  <1>25. L \ {v} \in SUBSET Bufs /\ halt' # "hang"
    BY <1>8, <1>10
  <1> HIDE DEF rank1
  <1> QED BY <1>17, <1>18, <1>21, <1>23, <1>24, <1>25 DEF CacheInv

-----------------------------------------------------------------------------
(* bdev_write and put_block.                                               *)

\* A caller writes into the buffer it holds.
LEMMA WriteDataInv ==
    ASSUME CacheInv, NEW h \in Holders, NEW v \in Values, WriteData(h, v)
    PROVE  CacheInv'
PROOF
  <1> USE BufferAssumption
  <1>1. BufTypeOK /\ HeadsTouched /\ PoolServesTwice
    BY DEF CacheInv
  <1>2. PICK L \in SUBSET Bufs, P \in SUBSET Bufs,
             depth \in [Bufs -> Nat], rank \in [Bufs -> Nat] : Shape(L, P, depth, rank)
    BY DEF CacheInv
  <1>3. FreeShape(L, depth) /\ CountShape(L, P)
    BY <1>2 DEF Shape
  <1>4. hold[h] # Free /\ hold[h].buf \in Bufs /\ hold[h].block \in Blocks
    BY <1>1, HoldersFinite DEF WriteData
  <1>5. PICK i \in Bufs, c \in Blocks : i = hold[h].buf /\ c = hold[h].block
    BY <1>4
  <1>6. /\ buf' = [buf EXCEPT ![i].data = v, ![i].dirty = TRUE]
        /\ latest' = [latest EXCEPT ![c] = v]
    BY <1>5 DEF WriteData
  <1>0. UNCHANGED <<buff_head, lru_buff, disk, hold, halt, touched, misses, shared, stale>>
    BY DEF WriteData
  <1>7. /\ buf'[i] \in BufferType /\ buf'[i].data = v /\ buf'[i].dirty = TRUE
        /\ buf'[i].block = buf[i].block /\ buf'[i].next = buf[i].next
        /\ buf'[i].next_free = buf[i].next_free /\ buf'[i].count = buf[i].count
        /\ \A j \in Bufs \ {i} : buf'[j] = buf[j]
    <2>1. buf[i] \in BufferType
      BY <1>1 DEF BufTypeOK
    <2>2. buf'[i] = [[buf[i] EXCEPT !.data = v] EXCEPT !.dirty = TRUE]
      BY <1>1, <1>6 DEF BufTypeOK
    <2>3. \A j \in Bufs \ {i} : buf'[j] = buf[j]
      BY <1>1, <1>6 DEF BufTypeOK
    <2> QED BY <2>1, <2>2, <2>3 DEF BufferType
  <1>8. BufTypeOK'
    <2>1. buf' \in [Bufs -> BufferType]
      BY <1>1, <1>6, <1>7 DEF BufTypeOK
    <2>2. latest' \in [Blocks \cup {NoBlock} -> Values]
      BY <1>1, <1>6 DEF BufTypeOK
    <2> QED BY <1>1, <1>0, <2>1, <2>2 DEF BufTypeOK
  <1>9. HeadsTouched' /\ PoolServesTwice'
    BY <1>1, <1>0 DEF HeadsTouched, PoolServesTwice, Bucket
  <1>10. CollisionFree' = CollisionFree
    BY <1>0 DEF CollisionFree, Bucket
  <1>11. CollisionFree' /\ ~shared' => halt' # "hang"
    BY <1>0, <1>10 DEF CacheInv
  <1>12. SameLinks /\ \A j \in Bufs : buf'[j].count = buf[j].count
    BY <1>0, <1>7 DEF SameLinks
  <1>13. FreeShape(L, depth)'
    BY <1>3, <1>12, FreeSame
  <1>14. CountShape(L, P)'
    <2>1. \A j \in Bufs : HoldersOf(j)' = HoldersOf(j)
      BY <1>0 DEF HoldersOf
    <2>2. \A g \in Holders : hold[g] # Free => hold[g].buf \in Bufs
      BY <1>1, HoldersFinite
    <2> QED BY <1>3, <1>0, <1>12, <2>1, <2>2 DEF CountShape, SameLinks
  <1>15. ASSUME CollisionFree', ~shared' PROVE (LinksShape(P \ L, rank) /\ DataShape)'
    <2>1. LinksShape(P \ L, rank) /\ DataShape
      BY <1>2, <1>0, <1>10, <1>15 DEF Shape
    <2>2. LinksShape(P \ L, rank)'
      <3>1. \A d \in touched : /\ Bucket(d) \in 0..(Buckets - 1)
                               /\ buff_head[Bucket(d)] \in {NULL} \cup Bufs
        BY <1>1 DEF BufTypeOK, Bucket, Bufs, NULL
      <3>2. \A d \in touched : Bucket(d)' = Bucket(d)
        BY DEF Bucket
      <3> QED BY <1>0, <1>12, <2>1, <3>1, <3>2 DEF LinksShape, SameLinks
    <2>3. buf[i].block = c /\ c # NoBlock
      BY <1>4, <1>5, <2>1 DEF DataShape, NoBlock
    <2>4. \A j \in Bufs \ {i} : buf[j].block # NoBlock => buf[j].block # c
      BY <2>1, <2>3 DEF DataShape
    <2>5. latest'[c] = v /\ \A d \in Blocks : d # c => latest'[d] = latest[d]
      BY <1>1, <1>6 DEF BufTypeOK
    <2>6. ASSUME NEW j \in Bufs, buf'[j].block # NoBlock
          PROVE  /\ buf'[j].block \in touched' /\ buff_head'[Bucket(buf'[j].block)] = j
                 /\ buf'[j].data = latest'[buf'[j].block]
                 /\ ~buf'[j].dirty => disk'[buf'[j].block] = latest'[buf'[j].block]
      <3>1. CASE j = i
        BY <1>0, <1>7, <2>1, <2>3, <2>5, <3>1 DEF DataShape
      <3>2. CASE j # i
        <4>1. buf'[j] = buf[j] /\ buf[j].block # c
          BY <1>7, <2>4, <2>6, <3>2
        <4>2. buf[j].block \in Blocks
          BY <1>1, <2>6, <4>1 DEF BufTypeOK, BufferType
        <4>3. latest'[buf[j].block] = latest[buf[j].block]
          BY <2>5, <4>1, <4>2
        <4>4. /\ buf[j].block \in touched /\ buff_head[Bucket(buf[j].block)] = j
              /\ buf[j].data = latest[buf[j].block]
              /\ ~buf[j].dirty => disk[buf[j].block] = latest[buf[j].block]
          BY <2>1, <2>6, <4>1 DEF DataShape
        <4> QED BY <1>0, <4>1, <4>3, <4>4
      <3> QED BY <3>1, <3>2
    <2>7. ASSUME NEW d \in Blocks, \A j \in Bufs : buf'[j].block # d PROVE disk'[d] = latest'[d]
      <3>1. d # c /\ \A j \in Bufs : buf[j].block # d
        BY <1>7, <2>3, <2>7
      <3> QED BY <1>0, <2>1, <2>5, <3>1 DEF DataShape
    <2>8. \A g \in Holders : hold'[g] # Free => buf'[hold'[g].buf].block = hold'[g].block
      <3>1. \A g \in Holders : hold[g] # Free => hold[g].buf \in Bufs
        BY <1>1, HoldersFinite
      <3> QED BY <1>0, <1>12, <2>1, <3>1 DEF DataShape, SameLinks
    <2>9. DataShape'
      BY <2>6, <2>7, <2>8 DEF DataShape, Bucket
    <2> QED BY <2>2, <2>9
  <1>16. Shape(L, P, depth, rank)'
    BY <1>13, <1>14, <1>15 DEF Shape
  <1> QED BY <1>8, <1>9, <1>11, <1>16 DEF CacheInv

\* put_block leaves the chains and the contents alone.
LEMMA ChainsSame ==
    ASSUME BufTypeOK, NEW F, NEW rank, LinksShape(F, rank), DataShape, F \subseteq Bufs,
           SameData, UNCHANGED <<buff_head, touched>>,
           \A j \in Bufs : buf'[j].block = buf[j].block /\ buf'[j].next = buf[j].next,
           \A g \in Holders : hold'[g] = hold[g] \/ hold'[g] = Free
    PROVE  (LinksShape(F, rank) /\ DataShape)'
PROOF
  <1>1. \A c \in touched : /\ Bucket(c)' = Bucket(c)
                           /\ buff_head[Bucket(c)] \in {NULL} \cup Bufs
    <2>1. \A c \in touched : Bucket(c)' = Bucket(c) /\ Bucket(c) \in 0..(Buckets - 1)
      BY BufferAssumption DEF BufTypeOK, Bucket
    <2>2. 0..NBuf = {NULL} \cup Bufs
      BY BufferAssumption DEF Bufs, NULL
    <2> QED BY <2>1, <2>2 DEF BufTypeOK
  <1>2. LinksShape(F, rank)'
    BY <1>1 DEF LinksShape
  <1>3. \A g \in Holders : hold'[g] # Free =>
          hold'[g] = hold[g] /\ hold[g].buf \in Bufs
    BY HoldersFinite
  <1>4. \A j \in Bufs : buf'[j].block # NoBlock =>
          /\ buf'[j].block \in touched' /\ buff_head'[Bucket(buf'[j].block)] = j
          /\ buf'[j].data = latest'[buf'[j].block]
          /\ ~buf'[j].dirty => disk'[buf'[j].block] = latest'[buf'[j].block]
    BY DEF DataShape, SameData
  <1>5. \A c \in Blocks : (\A j \in Bufs : buf'[j].block # c) => disk'[c] = latest'[c]
    BY DEF DataShape, SameData
  <1>6. \A g \in Holders : hold'[g] # Free => buf'[hold'[g].buf].block = hold'[g].block
    BY <1>3 DEF DataShape
  <1> QED BY <1>2, <1>4, <1>5, <1>6 DEF DataShape, Bucket

\* A buffer put back becomes the head of the free list.
LEMMA FreePushed ==
    ASSUME NEW L \in SUBSET Bufs, NEW depth \in [Bufs -> Nat], FreeShape(L, depth),
           NEW l, l = lru_buff, l # NULL, NEW i \in Bufs \ L, lru_buff' = i,
           buf'[i].next_free = l,
           \A j \in Bufs \ {i} :
             buf'[j].next_free = buf[j].next_free /\ buf'[j].block = buf[j].block
    PROVE  /\ l \in L /\ NBuf \in L
           /\ [depth EXCEPT ![i] = depth[l] + 1] \in [Bufs -> Nat]
           /\ FreeShape(L \cup {i}, [depth EXCEPT ![i] = depth[l] + 1])'
PROOF
  <1> USE BufferAssumption
  <1> DEFINE M == L \cup {i}
             depth1 == [depth EXCEPT ![i] = depth[l] + 1]
  <1>1. /\ L # {} /\ l \in L /\ l \in Bufs /\ NBuf \in L
        /\ Cardinality(L) = depth[l] + 1 /\ depth[NBuf] = 0 /\ buf[NBuf].block = NoBlock
        /\ \A x \in L : depth[x] <= depth[l]
    BY DEF FreeShape
  <1>2. \A x \in L : depth[x] \in Nat /\ depth1[x] = depth[x] /\ x # i /\ x \in Bufs
    OBVIOUS
  <1>3. depth1[i] = depth[l] + 1 /\ depth[l] \in Nat /\ depth1 \in [Bufs -> Nat]
    BY <1>1
  <1>4. Cardinality(M) = Cardinality(L) + 1
    <2>1. IsFiniteSet(Bufs)
      BY FS_Interval DEF Bufs
    <2>2. IsFiniteSet(L)
      BY <2>1, FS_Subset
    <2> QED BY <2>2, FS_AddElement
  <1>5. i # NULL /\ lru_buff' = i
    BY DEF Bufs, NULL
  <1> HIDE DEF depth1
  <1>6. \A x \in L : depth1[x] < depth1[i] /\ depth1[x] \in Nat
    BY <1>1, <1>2, <1>3
  <1>7. \A x, y \in M : depth1[x] = depth1[y] => x = y
    <2>1. \A x, y \in L : depth1[x] = depth1[y] => x = y
      BY <1>2 DEF FreeShape
    <2>2. \A x \in L : depth1[x] # depth1[i]
      BY <1>3, <1>6
    <2> QED BY <2>1, <2>2
  <1>8. Cardinality(M) = depth1[i] + 1 /\ \A x \in M : depth1[x] <= depth1[i]
    BY <1>1, <1>3, <1>4, <1>6
  <1>9. NBuf \in M /\ depth1[NBuf] = 0 /\ buf'[NBuf].block = NoBlock
    BY <1>1, <1>2
  <1>10. \A x \in M : \/ buf'[x].next_free = NULL /\ depth1[x] = 0
                      \/ buf'[x].next_free \in M /\ depth1[buf'[x].next_free] + 1 = depth1[x]
    <2>1. SUFFICES ASSUME NEW x \in M
                   PROVE  \/ buf'[x].next_free = NULL /\ depth1[x] = 0
                          \/ /\ buf'[x].next_free \in M
                             /\ depth1[buf'[x].next_free] + 1 = depth1[x]
      OBVIOUS
    <2>2. CASE x = i
      BY <2>2, <1>1, <1>2, <1>3
    <2>3. CASE x \in L
      <3>1. \/ buf[x].next_free = NULL /\ depth[x] = 0
            \/ buf[x].next_free \in L /\ depth[buf[x].next_free] + 1 = depth[x]
        BY <2>3 DEF FreeShape
      <3>2. buf'[x].next_free = buf[x].next_free
        BY <1>2, <2>3
      <3> QED BY <1>2, <2>3, <3>1, <3>2
    <2> QED BY <2>2, <2>3
  <1>11. M # {} /\ i \in M
    OBVIOUS
  <1> HIDE DEF M
  <1>12. FreeShape(M, depth1)'
    BY <1>5, <1>7, <1>8, <1>9, <1>10, <1>11 DEF FreeShape
  <1> QED BY <1>1, <1>3, <1>12 DEF M, depth1

\* put_block: the counts, the free list and the end of the pool.
LEMMA PutInv ==
    ASSUME CacheInv, NEW h \in Holders, PutBlock(h)
    PROVE  CacheInv'
PROOF
  <1> USE BufferAssumption
  <1>1. BufTypeOK /\ HeadsTouched /\ PoolServesTwice
    BY DEF CacheInv
  <1>2. PICK L \in SUBSET Bufs, P \in SUBSET Bufs,
             depth \in [Bufs -> Nat], rank \in [Bufs -> Nat] : Shape(L, P, depth, rank)
    BY DEF CacheInv
  <1>3. FreeShape(L, depth) /\ CountShape(L, P)
    BY <1>2 DEF Shape
  <1>4. hold[h] # Free /\ hold[h].buf \in Bufs /\ halt = "no"
    BY <1>1, HoldersFinite DEF PutBlock
  <1>5. PICK i \in Bufs : i = hold[h].buf
    BY <1>4
  <1>6. /\ PutBuffer(i) /\ hold' = [hold EXCEPT ![h] = Free]
        /\ UNCHANGED <<buff_head, disk, latest, touched, misses, shared, stale>>
    BY <1>5 DEF PutBlock
  <1>7. /\ HoldersOf(i)' = HoldersOf(i) \ {h}
        /\ Cardinality(HoldersOf(i)') = Cardinality(HoldersOf(i)) - 1
        /\ Cardinality(HoldersOf(i)) >= 1
        /\ \A j \in Bufs \ {i} : HoldersOf(j)' = HoldersOf(j)
        /\ hold'[h] = Free
        /\ \A g \in Holders \ {h} : hold'[g] = hold[g]
    BY <1>1, <1>4, <1>5, <1>6, HoldDrops
  <1>8. \A g \in Holders : hold'[g] = hold[g] \/ hold'[g] = Free
    BY <1>7
  <1>9. /\ hold' \in [Holders -> Holdings]
        /\ \A g \in Holders : hold'[g] # Free =>
             g # h /\ hold[g] # Free /\ hold'[g] = hold[g] /\ hold[g].buf \in Bufs
    <2>1. hold' \in [Holders -> Holdings]
      BY <1>1, <1>6 DEF BufTypeOK, Holdings
    <2> QED BY <1>1, <1>7, <2>1, HoldersFinite
  <1>10. HeadsTouched' /\ CollisionFree' = CollisionFree
    BY <1>1, <1>6 DEF HeadsTouched, CollisionFree, Bucket
  <1>11. /\ misses \in Nat /\ NBuf \notin P /\ misses + Cardinality(L) = NBuf + Cardinality(P)
         /\ misses < 2 * NBuf
    BY <1>1, <1>3 DEF CountShape, BufTypeOK, PoolServesTwice
  <1>12. IsFiniteSet(L) /\ Cardinality(L) \in Nat /\ IsFiniteSet(P) /\ Cardinality(P) \in Nat
    BY <1>11, MissesBounded
  <1>13. ~shared' => \A f, g \in Holders : hold'[f] # Free /\ hold'[g] # Free => f = g
    BY <1>3, <1>6, <1>9 DEF CountShape
  <1>14. buf[i].block # NoBlock /\ h \in HoldersOf(i)
    BY <1>3, <1>4, <1>5 DEF CountShape, HoldersOf
  <1> DEFINE users(j) == Cardinality(HoldersOf(j))
             users1(j) == Cardinality(HoldersOf(j)')
  <1>15. /\ \A j \in Bufs : users(j) \in Nat /\ buf[j].count \in Nat
         /\ \A j \in Bufs \ {i} : users1(j) = users(j)
         /\ users1(i) = users(i) - 1 /\ users(i) >= 1
    BY <1>1, <1>7, HoldersFinite DEF BufTypeOK, BufferType
  <1>16. /\ \A j \in Bufs : buf[j].count >= users(j)
         /\ \A j \in P : buf[j].count >= users(j) + 1
         /\ stale = 0 => \A j \in Bufs \ P : buf[j].count = users(j)
         /\ \A j \in Bufs : buf[j].block # NoBlock => buf[j].count >= 1
    BY <1>3, <1>4 DEF CountShape
  <1> HIDE DEF users, users1
  <1>17. CASE /\ buf[i].count > 1 /\ buf' = [buf EXCEPT ![i].count = @ - 1]
              /\ UNCHANGED <<lru_buff, halt>>
    <2>1. /\ buf'[i] \in BufferType /\ buf'[i].count = buf[i].count - 1
          /\ buf'[i].block = buf[i].block /\ buf'[i].next = buf[i].next
          /\ buf'[i].next_free = buf[i].next_free
          /\ buf'[i].data = buf[i].data /\ buf'[i].dirty = buf[i].dirty
          /\ \A j \in Bufs \ {i} : buf'[j] = buf[j]
      <3>1. buf[i] \in BufferType /\ buf[i].count - 1 \in Nat
        BY <1>1, <1>15, <1>17 DEF BufTypeOK
      <3>2. /\ buf'[i] = [buf[i] EXCEPT !.count = @ - 1]
            /\ \A j \in Bufs \ {i} : buf'[j] = buf[j]
        BY <1>1, <1>17 DEF BufTypeOK
      <3> QED BY <3>1, <3>2 DEF BufferType
    <2>2. BufTypeOK'
      <3>1. buf' \in [Bufs -> BufferType]
        BY <1>1, <1>17, <2>1 DEF BufTypeOK
      <3> QED BY <1>1, <1>6, <1>9, <1>17, <3>1 DEF BufTypeOK
    <2>3. SameLinks /\ SameData
      BY <1>6, <1>17, <2>1 DEF SameLinks, SameData
    <2>4. FreeShape(L, depth)'
      BY <1>3, <2>3, FreeSame
    <2>5. CountShape(L, P)'
      <3>1. \A j \in Bufs : buf'[j].block = buf[j].block
        BY <2>3 DEF SameLinks
      <3>2. \A j \in Bufs : \/ users1(j) = users(j) /\ buf'[j].count = buf[j].count
                            \/ /\ users1(j) = users(j) - 1 /\ users(j) >= 1
                               /\ buf'[j].count = buf[j].count - 1 /\ buf[j].count > 1
        BY <1>15, <1>17, <2>1
      <3>3. \A j \in Bufs : buf'[j].count >= users1(j)
        BY <1>15, <1>16, <3>2
      <3>4. \A j \in P : buf'[j].count >= users1(j) + 1
        BY <1>15, <1>16, <3>2
      <3>5. stale' = 0 => \A j \in Bufs \ P : buf'[j].count = users1(j)
        BY <1>6, <1>15, <1>16, <3>2
      <3>6. \A j \in Bufs : buf'[j].block # NoBlock => buf'[j].count >= 1
        BY <1>15, <1>16, <3>1, <3>2
      <3>7. \A j \in Bufs : buf'[j].block = NoBlock =>
              j \in L /\ j \notin P /\ HoldersOf(j)' = {}
        BY <1>3, <1>7, <3>1 DEF CountShape
      <3>8. \A j \in L : buf'[j].block = NoBlock \/ j \in P
        BY <1>3, <3>1 DEF CountShape
      <3>9. \A g \in Holders : hold'[g] # Free /\ hold'[g].miss =>
              hold'[g].buf \notin L /\ buf'[hold'[g].buf].block = hold'[g].block
        BY <1>3, <1>9, <3>1 DEF CountShape
      <3> QED BY <1>6, <1>11, <1>13, <3>3, <3>4, <3>5, <3>6, <3>7, <3>8, <3>9
              DEF CountShape, users1
    <2>6. ASSUME CollisionFree', ~shared' PROVE (LinksShape(P \ L, rank) /\ DataShape)'
      <3>1. LinksShape(P \ L, rank) /\ DataShape
        BY <1>2, <1>6, <1>10, <2>6 DEF Shape
      <3>2. \A j \in Bufs : buf'[j].block = buf[j].block /\ buf'[j].next = buf[j].next
        BY <2>3 DEF SameLinks
      <3> QED BY <1>1, <1>6, <1>8, <2>3, <3>1, <3>2, ChainsSame
    <2>7. PoolServesTwice' /\ halt' # "hang"
      BY <1>1, <1>4, <1>6, <1>17 DEF PoolServesTwice
    <2>8. Shape(L, P, depth, rank)'
      BY <2>4, <2>5, <2>6 DEF Shape
    <2> QED BY <1>10, <2>2, <2>7, <2>8 DEF CacheInv
  <1>18. CASE /\ lru_buff = NULL /\ halt' = "fault"
              /\ UNCHANGED <<buf, lru_buff>>
    <2>1. BufTypeOK'
      BY <1>1, <1>6, <1>9, <1>18 DEF BufTypeOK
    <2>2. SameLinks /\ SameData
      BY <1>6, <1>18 DEF SameLinks, SameData
    <2>3. FreeShape(L, depth)' /\ L = {}
      BY <1>3, <1>18, <2>2, FreeSame DEF FreeShape
    <2>4. CountShape(L, P)'
      <3>1. \A j \in Bufs : buf[j].count >= users1(j)
        BY <1>15, <1>16
      <3>2. \A j \in P : buf[j].count >= users1(j) + 1
        BY <1>15, <1>16
      <3>3. \A j \in Bufs : buf[j].block = NoBlock =>
              j \in L /\ j \notin P /\ HoldersOf(j)' = {}
        BY <1>3, <1>7 DEF CountShape
      <3>4. \A g \in Holders : hold'[g] # Free /\ hold'[g].miss =>
              hold'[g].buf \notin L /\ buf[hold'[g].buf].block = hold'[g].block
        BY <1>3, <1>9 DEF CountShape
      <3>5. \A j \in L : buf[j].block = NoBlock \/ j \in P
        BY <1>3 DEF CountShape
      <3> QED BY <1>6, <1>11, <1>13, <1>16, <1>18, <3>1, <3>2, <3>3, <3>4, <3>5
              DEF CountShape, users1
    <2>5. ASSUME CollisionFree', ~shared' PROVE (LinksShape(P \ L, rank) /\ DataShape)'
      <3>1. LinksShape(P \ L, rank) /\ DataShape
        BY <1>2, <1>6, <1>10, <2>5 DEF Shape
      <3>2. \A j \in Bufs : buf'[j].block = buf[j].block /\ buf'[j].next = buf[j].next
        BY <2>2 DEF SameLinks
      <3> QED BY <1>1, <1>6, <1>8, <2>2, <3>1, <3>2, ChainsSame
    <2>6. PoolServesTwice' /\ halt' # "hang"
      <3>1. misses = NBuf + Cardinality(P)
        BY <1>11, <2>3, MissesBounded
      <3>2. misses >= NBuf
        BY <1>12, <3>1
      <3>3. ASSUME ~shared, stale = 0 PROVE misses = 2 * NBuf - 1
        <4>1. \A j \in Bufs \ P : \E g \in Holders : hold[g] # Free /\ hold[g].buf = j
          BY <1>1, <1>3, <1>4, <1>18, <3>3, EmptyPool
        <4>2. \A g \in Holders : hold[g] # Free => g = h
          BY <1>3, <1>4, <3>3 DEF CountShape
        <4>3. \A j \in Bufs \ P : j = i
          BY <1>5, <4>1, <4>2
        <4>4. NBuf \in Bufs \ P
          BY <1>11 DEF Bufs
        <4>5. P = Bufs \ {NBuf}
          BY <4>3, <4>4
        <4>6. Cardinality(P) = NBuf - 1
          BY <1>11, <4>5, MissesBounded
        <4> QED BY <3>1, <4>6
      <3> QED BY <1>6, <1>11, <1>18, <3>2, <3>3 DEF PoolServesTwice
    <2>7. Shape(L, P, depth, rank)'
      BY <2>3, <2>4, <2>5 DEF Shape
    <2> QED BY <1>10, <2>1, <2>6, <2>7 DEF CacheInv
  <1>19. CASE /\ buf[i].count <= 1 /\ lru_buff # NULL
              /\ buf' = [buf EXCEPT ![lru_buff].prev_free = i, ![i].next_free = lru_buff]
              /\ lru_buff' = i /\ UNCHANGED halt
    <2>1. PICK l \in Bufs : l = lru_buff
      BY <1>1, <1>19 DEF BufTypeOK, Bufs, NULL
    <2>2. i \notin P /\ users(i) = 1 /\ buf[i].count = 1
      BY <1>15, <1>16, <1>19
    <2>3. i \notin L
      BY <1>3, <1>14, <2>2 DEF CountShape
    <2>4. l \in L /\ l # NULL /\ l # i
      BY <1>3, <1>19, <2>1, <2>3 DEF FreeShape
    <2>5. HoldersOf(i)' = {}
      <3>1. Cardinality(HoldersOf(i)') = 0
        BY <1>7, <2>2 DEF users
      <3>2. IsFiniteSet(HoldersOf(i)')
        <4>1. IsFiniteSet(HoldersOf(i))
          BY <1>1, HoldersFinite
        <4> QED BY <1>7, <4>1, FS_Subset
      <3> QED BY <3>1, <3>2, FS_EmptySet
    <2>6. /\ buf' \in [Bufs -> BufferType]
          /\ buf'[i].next_free = l
          /\ \A j \in Bufs : /\ buf'[j].count = buf[j].count
                             /\ buf'[j].block = buf[j].block /\ buf'[j].next = buf[j].next
                             /\ buf'[j].data = buf[j].data /\ buf'[j].dirty = buf[j].dirty
          /\ \A j \in Bufs \ {i} : buf'[j].next_free = buf[j].next_free
      <3>1. /\ buf'[i] = [buf[i] EXCEPT !.next_free = l]
            /\ buf'[l] = [buf[l] EXCEPT !.prev_free = i]
            /\ \A j \in Bufs \ {i, l} : buf'[j] = buf[j]
            /\ buf' = [j \in Bufs |-> buf'[j]]
        BY <1>1, <1>19, <2>1, <2>4 DEF BufTypeOK
      <3>2. buf[i] \in BufferType /\ buf[l] \in BufferType /\ i \in 0..NBuf /\ l \in 0..NBuf
        BY <1>1, <2>1 DEF BufTypeOK, Bufs
      <3>3. /\ buf'[i] \in BufferType /\ buf'[i].next_free = l /\ buf'[i].count = buf[i].count
            /\ buf'[i].block = buf[i].block /\ buf'[i].next = buf[i].next
            /\ buf'[i].data = buf[i].data /\ buf'[i].dirty = buf[i].dirty
        BY <3>1, <3>2 DEF BufferType
      <3>4. /\ buf'[l] \in BufferType /\ buf'[l].next_free = buf[l].next_free
            /\ buf'[l].count = buf[l].count
            /\ buf'[l].block = buf[l].block /\ buf'[l].next = buf[l].next
            /\ buf'[l].data = buf[l].data /\ buf'[l].dirty = buf[l].dirty
        BY <3>1, <3>2 DEF BufferType
      <3>5. \A j \in Bufs : buf'[j] \in BufferType
        BY <1>1, <3>1, <3>3, <3>4 DEF BufTypeOK
      <3>6. buf' \in [Bufs -> BufferType]
        BY <3>1, <3>5
      <3>7. \A j \in Bufs \ {i, l} : buf'[j] = buf[j]
        BY <3>1
      <3> QED BY <3>3, <3>4, <3>6, <3>7
    <2>7. lru_buff' = i /\ halt' = halt
      BY <1>19
    <2>8. BufTypeOK'
      <3>1. i \in 0..NBuf
        BY DEF Bufs
      <3> QED BY <1>1, <1>6, <1>9, <2>6, <2>7, <3>1 DEF BufTypeOK
    <2> DEFINE depth1 == [depth EXCEPT ![i] = depth[l] + 1]
    <2>9. NBuf \in L /\ depth1 \in [Bufs -> Nat] /\ FreeShape(L \cup {i}, depth1)'
      BY <1>3, <2>1, <2>3, <2>4, <2>6, <2>7, FreePushed
    <2> HIDE DEF depth1
    <2>10. CountShape(L \cup {i}, P \cup {i})'
      <3>1. NBuf \notin P \cup {i}
        BY <1>11, <2>3, <2>9
      <3>2. \A j \in Bufs : buf'[j].block = NoBlock =>
              j \in L \cup {i} /\ j \notin P \cup {i} /\ HoldersOf(j)' = {}
        BY <1>3, <1>7, <1>14, <2>6 DEF CountShape
      <3>3. \A j \in L \cup {i} : buf'[j].block = NoBlock \/ j \in P \cup {i}
        BY <1>3, <2>6 DEF CountShape
      <3>4. \A j \in Bufs : buf'[j].block # NoBlock => buf'[j].count >= 1
        BY <1>16, <2>6
      <3>5. users1(i) = 0 /\ buf'[i].count = 1
        BY <1>15, <2>2, <2>6
      <3>6. \A j \in Bufs : buf'[j].count >= users1(j)
        BY <1>15, <1>16, <2>6, <3>5
      <3>7. \A j \in P \cup {i} : buf'[j].count >= users1(j) + 1
        <4>1. \A j \in P : buf'[j].count >= users1(j) + 1
          BY <1>15, <1>16, <2>2, <2>6
        <4> QED BY <3>5, <4>1
      <3>8. misses + Cardinality(L \cup {i}) = NBuf + Cardinality(P \cup {i})
        <4>1. /\ Cardinality(L \cup {i}) = Cardinality(L) + 1
              /\ Cardinality(P \cup {i}) = Cardinality(P) + 1
          BY <1>12, <2>2, <2>3, FS_AddElement
        <4> QED BY <1>11, <1>12, <4>1
      <3>9. stale = 0 => \A j \in Bufs \ (P \cup {i}) : buf'[j].count = users1(j)
        BY <1>15, <1>16, <2>6
      <3>10. \A g \in Holders : hold'[g] # Free /\ hold'[g].miss =>
               hold'[g].buf \notin L \cup {i} /\ buf'[hold'[g].buf].block = hold'[g].block
        <4>1. SUFFICES ASSUME NEW g \in Holders, hold'[g] # Free, hold'[g].miss
                       PROVE  /\ hold'[g].buf \notin L \cup {i}
                              /\ buf'[hold'[g].buf].block = hold'[g].block
          OBVIOUS
        <4>2. hold[g] # Free /\ hold'[g] = hold[g] /\ hold[g].buf \in Bufs
          BY <1>9, <4>1
        <4>3. hold'[g].buf # i
          BY <2>5, <4>1 DEF HoldersOf
        <4>4. hold[g].buf \notin L /\ buf[hold[g].buf].block = hold[g].block
          BY <1>3, <4>1, <4>2 DEF CountShape
        <4> QED BY <2>6, <4>2, <4>3, <4>4
      <3> QED BY <1>6, <1>13, <3>1, <3>2, <3>3, <3>4, <3>6, <3>7, <3>8, <3>9, <3>10
              DEF CountShape, users1
    <2>11. (P \cup {i}) \ (L \cup {i}) = P \ L
      BY <2>2
    <2>12. ASSUME CollisionFree', ~shared' PROVE (LinksShape(P \ L, rank) /\ DataShape)'
      <3>1. LinksShape(P \ L, rank) /\ DataShape
        BY <1>2, <1>6, <1>10, <2>12 DEF Shape
      <3>2. SameData
        BY <1>6, <2>6 DEF SameData
      <3>3. \A j \in Bufs : buf'[j].block = buf[j].block /\ buf'[j].next = buf[j].next
        BY <2>6
      <3> QED BY <1>1, <1>6, <1>8, <3>1, <3>2, <3>3, ChainsSame
    <2>13. Shape(L \cup {i}, P \cup {i}, depth1, rank)'
      BY <2>9, <2>10, <2>11, <2>12 DEF Shape
    <2>14. PoolServesTwice' /\ halt' # "hang"
      BY <1>1, <1>4, <1>6, <2>7 DEF PoolServesTwice
    <2>15. L \cup {i} \in SUBSET Bufs /\ P \cup {i} \in SUBSET Bufs
      OBVIOUS
    <2> QED BY <1>10, <2>8, <2>9, <2>13, <2>14, <2>15 DEF CacheInv
  <1>20. \/ /\ buf[i].count > 1 /\ buf' = [buf EXCEPT ![i].count = @ - 1]
            /\ UNCHANGED <<lru_buff, halt>>
         \/ /\ lru_buff = NULL /\ halt' = "fault"
            /\ UNCHANGED <<buf, lru_buff>>
         \/ /\ buf[i].count <= 1 /\ lru_buff # NULL
            /\ buf' = [buf EXCEPT ![lru_buff].prev_free = i, ![i].next_free = lru_buff]
            /\ lru_buff' = i /\ UNCHANGED halt
    BY <1>6 DEF PutBuffer
  <1> QED BY <1>17, <1>18, <1>19, <1>20

-----------------------------------------------------------------------------
(* The invariant, and what it gives.                                       *)

\* init_buffer lists every buffer, in the order of the pool.
LEMMA CacheInitInv == Init => CacheInv
PROOF
  <1> USE BufferAssumption
  <1>1. SUFFICES ASSUME Init PROVE CacheInv
    OBVIOUS
  <1>2. PICK d \in StaleDirty : buf = [i \in Bufs |->
                [block |-> NoBlock, dirty |-> i = 1 /\ d,
                 count |-> IF i = 1 THEN stale ELSE 0,
                 next |-> IF i < NBuf THEN i + 1 ELSE NULL,
                 next_free |-> IF i < NBuf THEN i + 1 ELSE NULL,
                 prev_free |-> i - 1,
                 data |-> CHOOSE v \in Values : TRUE]]
    BY <1>1 DEF Init
  <1>3. /\ buff_head = [k \in 0..(Buckets - 1) |-> IF k = 0 THEN 1 ELSE NULL]
        /\ lru_buff = 1 /\ stale \in Nat
        /\ disk = [b \in Blocks \cup {NoBlock} |-> CHOOSE v \in Values : TRUE]
        /\ hold = [h \in Holders |-> Free] /\ halt = "no" /\ latest = disk
        /\ touched = {} /\ misses = 0 /\ shared = FALSE
    BY <1>1 DEF Init
  <1>4. (CHOOSE v \in Values : TRUE) \in Values
    OBVIOUS
  <1>5. \A i \in Bufs : /\ buf[i].block = NoBlock
                        /\ buf[i].count = (IF i = 1 THEN stale ELSE 0)
                        /\ buf[i].next_free = (IF i < NBuf THEN i + 1 ELSE NULL)
                        /\ buf[i].count \in Nat
    BY <1>2, <1>3
  <1>6. BufTypeOK
    <2>1. \A i \in Bufs : buf[i] \in BufferType
      <3>1. SUFFICES ASSUME NEW i \in Bufs PROVE buf[i] \in BufferType
        OBVIOUS
      <3>2. /\ (IF i = 1 THEN stale ELSE 0) \in Nat
            /\ (IF i < NBuf THEN i + 1 ELSE NULL) \in 0..NBuf /\ i - 1 \in 0..NBuf
        BY <1>3 DEF Bufs, NULL
      <3>3. (i = 1 /\ d) \in BOOLEAN
        OBVIOUS
      <3> QED BY <1>2, <1>4, <3>2, <3>3 DEF BufferType
    <2>2. buf \in [Bufs -> BufferType]
      BY <1>2, <2>1
    <2>3. buff_head \in [0..(Buckets - 1) -> 0..NBuf] /\ lru_buff \in 0..NBuf
      BY <1>3 DEF NULL
    <2>4. disk \in [Blocks \cup {NoBlock} -> Values] /\ latest = disk
      BY <1>3, <1>4
    <2>5. hold \in [Holders -> Holdings]
      BY <1>3 DEF Holdings
    <2> QED BY <1>3, <2>2, <2>3, <2>4, <2>5 DEF BufTypeOK
  <1>7. HeadsTouched /\ PoolServesTwice
    <2>1. \A k \in 1..(Buckets - 1) : k \in 0..(Buckets - 1) /\ k # 0
      OBVIOUS
    <2> QED BY <1>3, <2>1 DEF HeadsTouched, PoolServesTwice
  <1> DEFINE depth == [i \in Bufs |-> NBuf - i]
             rank == [i \in Bufs |-> 0]
  <1>8. depth \in [Bufs -> Nat] /\ rank \in [Bufs -> Nat]
    BY DEF Bufs
  <1>9. /\ IsFiniteSet(Bufs) /\ Cardinality(Bufs) = NBuf /\ NBuf \in Bufs /\ 1 \in Bufs
        /\ NULL \notin Bufs
    BY FS_Interval DEF Bufs, NULL
  <1>10. FreeShape(Bufs, depth)
    <2>1. \A x \in Bufs : depth[x] = NBuf - x /\ x \in 1..NBuf
      BY DEF Bufs
    <2> HIDE DEF depth
    <2>2. \A x, y \in Bufs : depth[x] = depth[y] => x = y
      BY <2>1
    <2>3. \A x \in Bufs : depth[x] <= depth[1]
      BY <1>9, <2>1
    <2>4. Cardinality(Bufs) = depth[1] + 1 /\ depth[NBuf] = 0
      BY <1>9, <2>1
    <2>5. \A x \in Bufs : \/ buf[x].next_free = NULL /\ depth[x] = 0
                          \/ /\ buf[x].next_free \in Bufs
                             /\ depth[buf[x].next_free] + 1 = depth[x]
      <3>1. SUFFICES ASSUME NEW x \in Bufs
                     PROVE  \/ buf[x].next_free = NULL /\ depth[x] = 0
                            \/ /\ buf[x].next_free \in Bufs
                               /\ depth[buf[x].next_free] + 1 = depth[x]
        OBVIOUS
      <3>2. CASE x < NBuf
        <4>1. buf[x].next_free = x + 1 /\ x + 1 \in Bufs
          BY <1>5, <2>1, <3>2 DEF Bufs
        <4> QED BY <2>1, <4>1
      <3>3. CASE ~ (x < NBuf)
        <4>1. x = NBuf
          BY <2>1, <3>3
        <4> QED BY <1>5, <2>1, <3>3, <4>1
      <3> QED BY <3>2, <3>3
    <2>6. buf[NBuf].block = NoBlock /\ lru_buff = 1 /\ 1 # NULL
      BY <1>3, <1>5, <1>9
    <2> QED BY <1>9, <2>2, <2>3, <2>4, <2>5, <2>6 DEF FreeShape
  <1>11. CountShape(Bufs, {})
    <2>1. \A i \in Bufs : HoldersOf(i) = {} /\ Cardinality(HoldersOf(i)) = 0
      <3>1. \A i \in Bufs : HoldersOf(i) = {}
        BY <1>3, <1>9 DEF HoldersOf, Free
      <3> QED BY <3>1, FS_EmptySet
    <2>2. Cardinality({}) = 0
      BY FS_EmptySet
    <2>3. misses + Cardinality(Bufs) = NBuf + Cardinality({})
      BY <1>3, <1>9, <2>2
    <2>4. \A i \in Bufs : buf[i].count >= 0 /\ (stale = 0 => buf[i].count = 0)
      BY <1>5
    <2>5. \A h \in Holders : hold[h] = Free
      BY <1>3
    <2> QED BY <1>5, <2>1, <2>3, <2>4, <2>5 DEF CountShape
  <1>12. LinksShape({} \ Bufs, rank) /\ DataShape
    <2>1. LinksShape({} \ Bufs, rank)
      BY <1>3, <1>5 DEF LinksShape
    <2>2. DataShape
      BY <1>3, <1>5 DEF DataShape
    <2> QED BY <2>1, <2>2
  <1>13. Shape(Bufs, {}, depth, rank)
    BY <1>10, <1>11, <1>12 DEF Shape
  <1> HIDE DEF depth, rank
  <1> QED BY <1>3, <1>6, <1>7, <1>8, <1>13 DEF CacheInv

\* The shapes of the lists and the counts stay what init_buffer made them,
\* whatever get_block, bdev_write and put_block do, in any order and for any
\* number of callers.
THEOREM CacheInvariant == Spec => []CacheInv
PROOF
  <1>1. Init => CacheInv
    BY CacheInitInv
  <1>2. CacheInv /\ [Next]_vars => CacheInv'
    <2>1. SUFFICES ASSUME CacheInv, [Next]_vars PROVE CacheInv'
      OBVIOUS
    <2>2. CASE UNCHANGED vars
      <3>1. UNCHANGED <<buf, buff_head, lru_buff, disk, hold, halt, latest, touched, misses,
                        shared, stale>>
        BY <2>2 DEF vars
      <3>2. BufTypeOK' /\ HeadsTouched' /\ PoolServesTwice'
        BY <2>1, <3>1 DEF CacheInv, BufTypeOK, HeadsTouched, PoolServesTwice, Bucket
      <3>3. CollisionFree' = CollisionFree
        BY <3>1 DEF CollisionFree, Bucket
      <3>4. PICK L \in SUBSET Bufs, P \in SUBSET Bufs,
                 depth \in [Bufs -> Nat], rank \in [Bufs -> Nat] : Shape(L, P, depth, rank)
        BY <2>1 DEF CacheInv
      <3>5. FreeShape(L, depth)' /\ CountShape(L, P)'
        BY <3>1, <3>4 DEF Shape, FreeShape, CountShape, HoldersOf
      <3>6. LinksShape(P \ L, rank)' = LinksShape(P \ L, rank) /\ DataShape' = DataShape
        BY <3>1 DEF LinksShape, DataShape, Bucket
      <3>7. Shape(L, P, depth, rank)'
        BY <3>1, <3>3, <3>4, <3>5, <3>6 DEF Shape
      <3> QED BY <2>1, <3>1, <3>2, <3>3, <3>7 DEF CacheInv
    <2>3. ASSUME NEW h \in Holders, NEW b \in Blocks, GetBlock(h, b) PROVE CacheInv'
      <3>1. Asking(h, b)
        BY <2>3 DEF GetBlock, Asking
      <3>2. \/ \E i \in Found(b) : Hit(h, b, i)
            \/ Found(b) = {} /\ ~Ends(b) /\ Stop("hang")
            \/ Found(b) = {} /\ Ends(b) /\ lru_buff = NULL /\ Stop("fault")
            \/ Found(b) = {} /\ Ends(b) /\ lru_buff # NULL /\ Miss(h, b, lru_buff)
        BY <2>3 DEF GetBlock
      <3>3. CASE \E i \in Found(b) : Hit(h, b, i)
        BY <2>1, <3>1, <3>3, HitInv
      <3>4. CASE Found(b) = {} /\ ~Ends(b) /\ Stop("hang")
        BY <2>1, <3>1, <3>4, StopInv
      <3>5. CASE Found(b) = {} /\ Ends(b) /\ lru_buff = NULL /\ Stop("fault")
        BY <2>1, <3>1, <3>5, StopInv
      <3>6. CASE Found(b) = {} /\ Ends(b) /\ lru_buff # NULL /\ Miss(h, b, lru_buff)
        BY <2>1, <3>1, <3>6, MissInv
      <3> QED BY <3>2, <3>3, <3>4, <3>5, <3>6
    <2>4. ASSUME NEW h \in Holders, NEW v \in Values, WriteData(h, v) PROVE CacheInv'
      BY <2>1, <2>4, WriteDataInv
    <2>5. ASSUME NEW h \in Holders, PutBlock(h) PROVE CacheInv'
      BY <2>1, <2>5, PutInv
    <2> QED BY <2>1, <2>2, <2>3, <2>4, <2>5 DEF Next
  <1> QED BY <1>1, <1>2, PTL DEF Spec

\* What get_block returns is labelled with the block asked for and holds what was
\* last written to it, while no two blocks asked for share a hash chain and callers
\* hold one buffer at a time: evicted buffers left on old chains and dirty buffers
\* written back late never show through.
THEOREM CoherentHolds == Spec => []Coherent
PROOF
  <1>1. CacheInv => Coherent
    <2>1. SUFFICES ASSUME CacheInv, CollisionFree, ~shared, NEW h \in Holders, hold[h] # Free
                   PROVE  /\ buf[hold[h].buf].block = hold[h].block
                          /\ buf[hold[h].buf].data = latest[hold[h].block]
      BY DEF Coherent
    <2>2. BufTypeOK /\ DataShape
      BY <2>1 DEF CacheInv, Shape
    <2>3. hold[h].buf \in Bufs /\ hold[h].block \in Blocks
      BY <2>1, <2>2, HoldersFinite
    <2>4. buf[hold[h].buf].block = hold[h].block /\ hold[h].block # NoBlock
      BY <2>1, <2>2, <2>3, BufferAssumption DEF DataShape, NoBlock
    <2> QED BY <2>2, <2>3, <2>4 DEF DataShape
  <1> QED BY <1>1, CacheInvariant, PTL

\* The free list ends whatever callers do, and get_block's walk of a hash chain
\* ends while no two blocks share one and callers hold one buffer at a time.
THEOREM ChainsEndHolds == Spec => []ChainsEnd
PROOF
  <1>1. CacheInv => ChainsEnd
    <2>1. SUFFICES ASSUME CacheInv PROVE ChainsEnd
      OBVIOUS
    <2>2. PICK L \in SUBSET Bufs, P \in SUBSET Bufs,
               depth \in [Bufs -> Nat], rank \in [Bufs -> Nat] : Shape(L, P, depth, rank)
      BY <2>1 DEF CacheInv
    <2>3. FreeWalk[NBuf] = NULL
      BY <2>1, <2>2, FreeWalkEnds DEF CacheInv, Shape
    <2>4. NBuf \in 0..NBuf
      BY BufferAssumption
    <2> QED BY <2>1, <2>3, <2>4 DEF CacheInv, ChainsEnd
  <1> QED BY <1>1, CacheInvariant, PTL

\* The pool serves fewer than two misses per buffer and at least one before
\* get_block or put_block dereferences a NULL free list; one caller at a time gets
\* exactly 2 * NBuf - 1.
THEOREM PoolServesTwiceHolds == Spec => []PoolServesTwice
PROOF
  <1>1. CacheInv => PoolServesTwice
    BY DEF CacheInv
  <1> QED BY <1>1, CacheInvariant, PTL

\* A buffer obtained by a miss stays off the free list, and labelled with its
\* block, until its holder puts it back.
THEOREM MissedBufferStaysHolds == Spec => []MissedBufferStays
PROOF
  <1>1. CacheInv => MissedBufferStays
    <2>1. SUFFICES ASSUME CacheInv PROVE MissedBufferStays
      OBVIOUS
    <2>2. PICK L \in SUBSET Bufs, P \in SUBSET Bufs,
               depth \in [Bufs -> Nat], rank \in [Bufs -> Nat] : Shape(L, P, depth, rank)
      BY <2>1 DEF CacheInv
    <2>3. FreeList \subseteq L
      BY <2>1, <2>2, FreeWalkEnds DEF CacheInv, Shape
    <2> QED BY <2>2, <2>3 DEF Shape, CountShape, MissedBufferStays
  <1> QED BY <1>1, CacheInvariant, PTL

-----------------------------------------------------------------------------
(* The cache implements a store of blocks.                                 *)

\* Buffers and disk together contain what was last written, and that is what callers see.
LatestViews ==
    [h \in Holders |-> IF hold[h] = Free THEN <<>> ELSE <<hold[h].block, latest[hold[h].block]>>]

StoreInv ==
    /\ Content = [b \in Blocks |-> latest[b]]
    /\ Views = LatestViews

\* It follows from the shape of the cache.
LEMMA LatestStored ==
    CacheInv /\ Careful => StoreInv
PROOF
  <1> SUFFICES ASSUME CacheInv, Careful PROVE StoreInv
    OBVIOUS
  <1>1. BufTypeOK /\ DataShape
    BY DEF CacheInv, Shape, Careful
  <1>2. ASSUME NEW b \in Blocks
        PROVE  (IF \E i \in Bufs : buf[i].block = b
                THEN buf[CHOOSE i \in Bufs : buf[i].block = b].data ELSE disk[b]) = latest[b]
    <2>1. CASE \E i \in Bufs : buf[i].block = b
      <3>1. PICK i \in Bufs : i = CHOOSE j \in Bufs : buf[j].block = b
        BY <2>1
      <3>2. buf[i].block = b /\ b # NoBlock
        BY <2>1, <3>1, BufferAssumption DEF NoBlock
      <3>3. buf[i].data = latest[b]
        BY <1>1, <3>2 DEF DataShape
      <3> QED BY <2>1, <3>1, <3>3
    <2>2. CASE ~ \E i \in Bufs : buf[i].block = b
      BY <1>1, <2>2 DEF DataShape
    <2> QED BY <2>1, <2>2
  <1>3. Content = [b \in Blocks |-> latest[b]]
    BY <1>2 DEF Content
  <1>4. ASSUME NEW h \in Holders, hold[h] # Free
        PROVE  buf[hold[h].buf].data = latest[hold[h].block]
    <2>1. hold[h].buf \in Bufs /\ hold[h].block \in Blocks
      BY <1>1, <1>4, HoldersFinite
    <2>2. buf[hold[h].buf].block = hold[h].block /\ hold[h].block # NoBlock
      BY <1>1, <1>4, <2>1, BufferAssumption DEF DataShape, NoBlock
    <2> QED BY <1>1, <2>1, <2>2 DEF DataShape
  <1>5. Views = LatestViews
    BY <1>4 DEF Views, LatestViews
  <1> QED BY <1>3, <1>5 DEF StoreInv

\* Every step of the cache is a step of the store, or none: evictions and the end of the
\* pool are not seen.
LEMMA StoreStep ==
    CacheInv /\ StoreInv /\ StoreInv' /\ [Next]_vars => [Store!Next]_(Store!vars)
PROOF
  <1> SUFFICES ASSUME CacheInv, StoreInv, StoreInv', [Next]_vars
               PROVE  [Store!Next]_(Store!vars)
    OBVIOUS
  <1>1. /\ latest \in [Blocks \cup {NoBlock} -> Values] /\ hold \in [Holders -> Holdings]
        /\ \A h \in Holders : hold[h] # Free => hold[h].block \in Blocks
    <2>1. BufTypeOK
      BY DEF CacheInv
    <2> QED BY <2>1, HoldersFinite DEF BufTypeOK
  <1>2. /\ Content = [b \in Blocks |-> latest[b]] /\ Content' = [b \in Blocks |-> latest'[b]]
        /\ Views = [h \in Holders |-> IF hold[h] = Free THEN <<>> ELSE <<hold[h].block, latest[hold[h].block]>>]
        /\ Views' = [h \in Holders |-> IF hold'[h] = Free THEN <<>> ELSE <<hold'[h].block, latest'[hold'[h].block]>>]
    BY DEF StoreInv, LatestViews
  <1>3. ASSUME latest' = latest, hold' = hold PROVE Content' = Content /\ Views' = Views
    BY <1>2, <1>3
  <1>4. ASSUME NEW h \in Holders, NEW b \in Blocks, GetBlock(h, b)
        PROVE  Store!Open(h, b) \/ (Content' = Content /\ Views' = Views)
    <2>1. hold[h] = Free /\ latest' = latest
      BY <1>4 DEF GetBlock
    <2>2. ASSUME NEW r, r.block = b, hold' = [hold EXCEPT ![h] = r] PROVE Store!Open(h, b)
      <3>1. r # Free
        BY <2>2, BufferAssumption DEF Free, NoBlock
      <3>2. hold'[h] = r /\ \A g \in Holders : g # h => hold'[g] = hold[g]
        BY <1>1, <2>2
      <3>3. Content' = Content /\ Content[b] = latest[b]
        BY <1>2, <2>1
      <3>4. Views[h] = <<>>
        BY <1>2, <2>1
      <3>5. Views' = [Views EXCEPT ![h] = <<b, latest[b]>>]
        BY <1>2, <2>1, <2>2, <3>1, <3>2
      <3> QED BY <3>3, <3>4, <3>5 DEF Store!Open, Store!Closed
    <2>3. ASSUME NEW i, Hit(h, b, i) PROVE Store!Open(h, b)
      BY <2>2, <2>3 DEF Hit
    <2>4. ASSUME NEW i, Miss(h, b, i) PROVE Store!Open(h, b)
      BY <2>2, <2>4 DEF Miss
    <2>5. ASSUME NEW why, Stop(why) PROVE Content' = Content /\ Views' = Views
      BY <1>3, <2>1, <2>5 DEF Stop
    <2> QED BY <1>4, <2>3, <2>4, <2>5 DEF GetBlock
  <1>5. ASSUME NEW h \in Holders, NEW v \in Values, WriteData(h, v) PROVE Store!Write(h, v)
    <2>1. /\ hold[h] # Free /\ hold' = hold /\ latest' = [latest EXCEPT ![hold[h].block] = v]
          /\ hold[h].block \in Blocks
      BY <1>1, <1>5 DEF WriteData
    <2>2. Views[h] # <<>> /\ Views[h][1] = hold[h].block
      BY <1>2, <2>1
    <2>3. Content' = [Content EXCEPT ![hold[h].block] = v]
      BY <1>1, <1>2, <2>1
    <2>4. ASSUME NEW g \in Holders
          PROVE  Views'[g] = IF Views[g] # <<>> /\ Views[g][1] = Views[h][1]
                             THEN <<Views[g][1], v>> ELSE Views[g]
      <3>1. CASE hold[g] = Free
        BY <1>2, <2>1, <3>1
      <3>2. CASE hold[g] # Free
        <4>1. /\ hold[g].block \in Blocks
              /\ Views[g] = <<hold[g].block, latest[hold[g].block]>>
              /\ Views'[g] = <<hold[g].block, latest'[hold[g].block]>>
          BY <1>1, <1>2, <2>1, <3>2
        <4>2. latest'[hold[g].block] = IF hold[g].block = hold[h].block THEN v ELSE latest[hold[g].block]
          BY <1>1, <2>1, <4>1
        <4> QED BY <2>2, <4>1, <4>2
      <3> QED BY <3>1, <3>2
    <2>5. Views' = [g \in Holders |-> IF Views[g] # <<>> /\ Views[g][1] = Views[h][1]
                                      THEN <<Views[g][1], v>> ELSE Views[g]]
      <3>1. Views' = [g \in Holders |-> Views'[g]]
        BY <1>2
      <3> QED BY <2>4, <3>1
    <2> QED BY <2>2, <2>3, <2>5 DEF Store!Write, Store!Closed
  <1>6. ASSUME NEW h \in Holders, PutBlock(h) PROVE Store!Close(h)
    <2>1. hold[h] # Free /\ hold' = [hold EXCEPT ![h] = Free] /\ latest' = latest
      BY <1>6 DEF PutBlock
    <2>2. Views[h] # <<>> /\ Content' = Content
      BY <1>2, <2>1
    <2>3. hold'[h] = Free /\ \A g \in Holders : g # h => hold'[g] = hold[g]
      BY <1>1, <2>1
    <2>4. Views' = [Views EXCEPT ![h] = <<>>]
      <3>1. Views'[h] = <<>>
        BY <1>2, <2>3
      <3>2. ASSUME NEW g \in Holders, g # h PROVE Views'[g] = Views[g]
        BY <1>2, <2>1, <2>3, <3>2
      <3>3. Views = [g \in Holders |-> Views[g]] /\ Views' = [g \in Holders |-> Views'[g]]
        BY <1>2
      <3> QED BY <3>1, <3>2, <3>3
    <2> QED BY <2>2, <2>4 DEF Store!Close, Store!Closed
  <1>7. CASE UNCHANGED vars
    BY <1>3, <1>7 DEF vars, Store!vars
  <1>8. CASE Next
    <2>1. PICK h \in Holders : \/ \E b \in Blocks : GetBlock(h, b)
                               \/ \E v \in Values : WriteData(h, v)
                               \/ PutBlock(h)
      BY <1>8 DEF Next
    <2>2. CASE \E b \in Blocks : GetBlock(h, b)
      BY <1>4, <2>2 DEF Store!Next, Store!vars
    <2>3. CASE \E v \in Values : WriteData(h, v)
      BY <1>5, <2>3 DEF Store!Next
    <2>4. CASE PutBlock(h)
      BY <1>6, <2>4 DEF Store!Next
    <2> QED BY <2>1, <2>2, <2>3, <2>4
  <1> QED BY <1>7, <1>8

\* init_buffer leaves a store that nobody has open.
LEMMA StoreInit == Init => Careful /\ Store!Init
PROOF
  <1> SUFFICES ASSUME Init PROVE Careful /\ Store!Init
    OBVIOUS
  <1>1. Careful
    BY DEF Init, Careful, CollisionFree
  <1>2. BufTypeOK /\ StoreInv
    BY <1>1, CacheInitInv, LatestStored DEF CacheInv
  <1>3. Content \in [Blocks -> Values]
    BY <1>2 DEF StoreInv, BufTypeOK
  <1>4. Views = [h \in Holders |-> <<>>]
    BY DEF Init, Views
  <1> QED BY <1>1, <1>3, <1>4 DEF Store!Init, Store!Closed

\* Callers that are careful after a step were before it: what was asked for and that
\* buffers were shared is not forgotten.
LEMMA CarefulBefore == [Next]_vars /\ Careful' => Careful
PROOF
  <1> SUFFICES ASSUME [Next]_vars, Careful' PROVE Careful
    OBVIOUS
  <1>1. touched \subseteq touched' /\ (shared => shared')
    <2>1. ASSUME NEW h \in Holders, NEW b \in Blocks, GetBlock(h, b)
          PROVE  touched \subseteq touched' /\ (shared => shared')
      <3>1. touched' = touched \cup {b} /\ shared' = (shared \/ \E g \in Holders : hold[g] # Free)
        BY <2>1 DEF GetBlock
      <3> QED BY <3>1, Zenon
    <2>2. ASSUME NEW h \in Holders, NEW v \in Values, WriteData(h, v)
          PROVE  touched \subseteq touched' /\ (shared => shared')
      BY <2>2 DEF WriteData
    <2>3. ASSUME NEW h \in Holders, PutBlock(h)
          PROVE  touched \subseteq touched' /\ (shared => shared')
      BY <2>3 DEF PutBlock
    <2>4. CASE UNCHANGED vars
      BY <2>4 DEF vars
    <2> QED BY <2>1, <2>2, <2>3, <2>4 DEF Next
  <1> QED BY <1>1 DEF Careful, CollisionFree, Bucket

\* As long as callers hold one buffer at a time and their blocks have chains of their own,
\* every get_block, bdev_write and put_block is a step of a store of blocks, whatever is
\* evicted, left dirty or found again, up to the fault at the end of the pool.
THEOREM StoreImplemented == Spec => ImplementsStore
PROOF
  <1> DEFINE Stored == Careful => StoreInv
             Stays == Careful' => Store!Next \/ UNCHANGED <<Content, Views>>
  <1>1. CacheInv => Stored
    BY LatestStored
  <1>2. CacheInv /\ Stored /\ Stored' /\ [Next]_vars => [Stays]_vars
    BY StoreStep, CarefulBefore DEF Store!vars
  <1> HIDE DEF Stored
  <1>3. Spec => [][Stays]_vars
    BY <1>1, <1>2, CacheInvariant, PTL DEF Spec
  <1> QED BY <1>3, StoreInit, PTL DEF Spec, ImplementsStore

\* The cache under callers that stay careful, as a whole, implements the store's
\* specification.
THEOREM CarefulStoreImplemented == CarefulSpec => Store!Spec
PROOF
  <1>1. Careful /\ [Next /\ Careful']_vars => Careful'
    BY DEF vars, Careful, CollisionFree, Bucket
  <1>2. [Next /\ Careful']_vars => [Next]_vars
    OBVIOUS
  <1>3. CarefulSpec => Spec /\ []Careful
    BY <1>1, <1>2, StoreInit, PTL DEF CarefulSpec, Spec
  <1>4. CarefulSpec => []CacheInv /\ []StoreInv
    BY <1>3, CacheInvariant, LatestStored, PTL
  <1> QED BY <1>2, <1>4, StoreInit, StoreStep, PTL DEF CarefulSpec, Store!Spec
=============================================================================

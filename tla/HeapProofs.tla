----------------------------- MODULE HeapProofs -----------------------------
(***************************************************************************)
(* Proofs about the kernel heap, for every heap range and every set of     *)
(* word-sized requests.                                                    *)
(***************************************************************************)
EXTENDS Heap, TLAPS

\* A header map as every reachable state has it, links aside.
Typed(h) ==
    /\ h \in [DOMAIN h -> Header]
    /\ DOMAIN h \subseteq HeapStart..HeapEnd

\* Every block begins and ends on a word boundary.
WordAligned(h) == \A b \in DOMAIN h : b % ALLIGNMENT = 0 /\ h[b].size % ALLIGNMENT = 0

\* Sums and differences of whole words are whole words.
LEMMA WordArithmetic ==
    ASSUME NEW a \in Int, NEW b \in Int, a % 4 = 0, b % 4 = 0
    PROVE  (a + b) % 4 = 0 /\ (a - b) % 4 = 0
  OBVIOUS

\* Map g is h with block r, of the given size, split off and used, and the free
\* block t after it.
SplitAt(g, h, r, size, t) ==
    /\ DOMAIN g = DOMAIN h \cup {t}
    /\ g[r].next = t /\ g[r].size = size /\ g[r].prev = h[r].prev
    /\ g[t].next = h[r].next /\ g[t].prev = r
    /\ g[t].size = h[r].size - size - HDR
    /\ g[r].used /\ ~g[t].used
    /\ \A a \in DOMAIN h \ {r} :
         /\ g[a].next = h[a].next /\ g[a].size = h[a].size
         /\ (g[a].used <=> h[a].used)
         /\ g[a].prev = IF a = h[r].next THEN t ELSE h[a].prev

\* Map g is h with block n, the successor of p, merged into p.
Merged(g, h, p, n) ==
    /\ DOMAIN g = DOMAIN h \ {n}
    /\ g[p].next = h[n].next /\ g[p].prev = h[p].prev
    /\ g[p].size = h[p].size + HDR + h[n].size
    /\ (g[p].used <=> h[p].used)
    /\ \A a \in DOMAIN h \ {n, p} :
         /\ g[a].next = h[a].next /\ g[a].size = h[a].size
         /\ (g[a].used <=> h[a].used)
         /\ g[a].prev = IF a = h[n].next THEN p ELSE h[a].prev

\* The fields of the map TakeBlock makes when it splits block r.
LEMMA SplitFields ==
    ASSUME NEW h, Typed(h), NEW r \in DOMAIN h, NEW size \in Nat,
           NEW t, t = r + HDR + size, t \notin DOMAIN h, t <= HeapEnd,
           h[r].size >= size + HDR + 1, h[r].next # r, h[r].next # t,
           NEW g, g = TakeBlock(h, r, size)
    PROVE  Typed(g) /\ SplitAt(g, h, r, size, t)
PROOF
  <1> USE HeapAssumption DEF HDR
  <1>1. h \in [DOMAIN h -> Header] /\ DOMAIN h \subseteq HeapStart..HeapEnd
    BY DEF Typed
  <1>2. r \in Nat /\ t \in Nat /\ t \in HeapStart..HeapEnd /\ r # t
    BY <1>1
  <1>3. h[r].size \in Nat /\ h[r].next \in Nat /\ h[r].prev \in Nat
    BY <1>1 DEF Header
  <1>4. g = [a \in DOMAIN h \cup {t} |->
            IF a = r THEN MemBlock(TRUE, h[r].prev, t, size)
            ELSE IF a = t THEN MemBlock(FALSE, r, h[r].next, h[r].size - size - HDR)
            ELSE IF a = h[r].next THEN WithPrev(h[a], t)
            ELSE h[a]]
    BY DEF TakeBlock
  <1>5. DOMAIN g = DOMAIN h \cup {t}
    BY <1>4
  <1>6. g[r] = MemBlock(TRUE, h[r].prev, t, size)
    BY <1>4
  <1>7. g[t] = MemBlock(FALSE, r, h[r].next, h[r].size - size - HDR)
    BY <1>4, <1>2
  <1>8. \A a \in DOMAIN h \ {r} :
          g[a] = IF a = h[r].next THEN WithPrev(h[a], t) ELSE h[a]
    BY <1>4
  <1>9. h[r] \in Header /\ \A a \in DOMAIN h : h[a] \in Header
    BY <1>1
  <1>10. g[r] \in Header /\ g[r].next = t /\ g[r].size = size
         /\ g[r].prev = h[r].prev /\ g[r].used
    BY <1>6, <1>9, <1>2 DEF Header, MemBlock
  <1>11. g[t] \in Header /\ g[t].next = h[r].next /\ g[t].prev = r
         /\ g[t].size = h[r].size - size - HDR /\ ~g[t].used
    BY <1>7, <1>3, <1>2 DEF Header, MemBlock
  <1>12. ASSUME NEW a \in DOMAIN h \ {r}
         PROVE  /\ g[a] \in Header
                /\ g[a].next = h[a].next /\ g[a].size = h[a].size
                /\ (g[a].used <=> h[a].used)
                /\ g[a].prev = IF a = h[r].next THEN t ELSE h[a].prev
    <2>1. CASE a = h[r].next
      <3>1. g[a] = MemBlock(h[a].used, t, h[a].next, h[a].size)
        BY <2>1, <1>8 DEF WithPrev
      <3>2. h[a] \in Header
        BY <1>9
      <3> QED BY <2>1, <3>1, <3>2, <1>2 DEF Header, MemBlock
    <2>2. CASE a # h[r].next
      <3>1. g[a] = h[a] /\ h[a] \in Header
        BY <2>2, <1>8, <1>9
      <3> QED BY <2>2, <3>1
    <2> QED BY <2>1, <2>2
  <1>13. Typed(g)
    <2>1. \A a \in DOMAIN g : g[a] \in Header
      BY <1>5, <1>10, <1>11, <1>12
    <2>2. g \in [DOMAIN g -> Header]
      BY <2>1, <1>4, <1>5
    <2> QED BY <2>2, <1>5, <1>2, <1>1 DEF Typed
  <1> QED BY <1>5, <1>10, <1>11, <1>12, <1>13 DEF SplitAt

\* The fields of the map TakeBlock makes when it does not split.
LEMMA WholeFields ==
    ASSUME NEW h, Typed(h), NEW r \in DOMAIN h, NEW size \in Nat,
           ~ (h[r].size >= size + HDR + 1),
           NEW g, g = TakeBlock(h, r, size)
    PROVE  /\ DOMAIN g = DOMAIN h
           /\ Typed(g)
           /\ g[r].used
           /\ \A a \in DOMAIN h : /\ g[a].next = h[a].next
                                  /\ g[a].size = h[a].size
                                  /\ g[a].prev = h[a].prev
                                  /\ a # r => (g[a].used <=> h[a].used)
PROOF
  <1>1. h \in [DOMAIN h -> Header] /\ DOMAIN h \subseteq HeapStart..HeapEnd
    BY DEF Typed
  <1>2. g = [h EXCEPT ![r] = WithUsed(@, TRUE)]
    BY DEF TakeBlock
  <1>3. DOMAIN g = DOMAIN h /\ g \in [DOMAIN h -> Header]
    BY <1>1, <1>2 DEF Header, MemBlock, WithUsed
  <1>4. Typed(g)
    BY <1>1, <1>3 DEF Typed
  <1>5. /\ g[r].used
        /\ \A a \in DOMAIN h : /\ g[a].next = h[a].next
                               /\ g[a].size = h[a].size
                               /\ g[a].prev = h[a].prev
                               /\ a # r => (g[a].used <=> h[a].used)
    BY <1>1, <1>2 DEF Header, MemBlock, WithUsed
  <1> QED BY <1>3, <1>4, <1>5

\* In a tiled heap a block's next is above it and no block begins inside it.
LEMMA TileFacts ==
    ASSUME NEW h, Typed(h), Tiles(h), NEW b \in DOMAIN h
    PROVE  /\ b \in Nat /\ b >= HeapStart /\ b > 0
           /\ h[b].size \in Nat /\ h[b].next \in Nat /\ h[b].prev \in Nat
           /\ End(h, b) <= HeapEnd /\ End(h, b) \in Nat
           /\ \A c \in DOMAIN h : ~ (b < c /\ c < End(h, b))
           /\ h[b].next # 0 => /\ h[b].next \in DOMAIN h
                               /\ h[b].next = End(h, b)
                               /\ h[h[b].next].prev = b
           /\ h[b].next = 0 => End(h, b) = HeapEnd
           /\ h[b].prev # 0 => /\ h[b].prev \in DOMAIN h
                               /\ h[h[b].prev].next = b
           /\ h[b].prev = 0 => b = HeapStart
PROOF
  <1> USE HeapAssumption DEF HDR, NULL
  <1>1. h \in [DOMAIN h -> Header] /\ DOMAIN h \subseteq HeapStart..HeapEnd
    BY DEF Typed
  <1>2. b \in Nat /\ b >= HeapStart /\ b > 0
    BY <1>1
  <1>3. h[b].size \in Nat /\ h[b].next \in Nat /\ h[b].prev \in Nat
    BY <1>1 DEF Header
  <1>4. LinksOK(h, b)
    BY DEF Tiles
  <1>5. \A c \in DOMAIN h : b < c => End(h, b) <= c
    BY DEF Tiles
  <1>6. \A c \in DOMAIN h : c \in Nat /\ c <= HeapEnd
    BY <1>1
  <1>7. End(h, b) \in Nat
    BY <1>2, <1>3 DEF End
  <1>8. /\ h[b].next # 0 => /\ h[b].next \in DOMAIN h
                               /\ h[b].next = End(h, b)
                               /\ h[h[b].next].prev = b
        /\ h[b].next = 0 => End(h, b) = HeapEnd
        /\ h[b].prev # 0 => /\ h[b].prev \in DOMAIN h
                            /\ h[h[b].prev].next = b
        /\ h[b].prev = 0 => b = HeapStart
    BY <1>4 DEF LinksOK
  <1>9. End(h, b) <= HeapEnd
    BY <1>8, <1>6
  <1>10. \A c \in DOMAIN h : ~ (b < c /\ c < End(h, b))
    BY <1>5, <1>6, <1>7
  <1> QED BY <1>2, <1>3, <1>7, <1>8, <1>9, <1>10

\* Splitting or marking a block keeps the heap tiled, and a free block is still
\* never followed by a free block: the remainder's successor is r's, used
\* because r was free.
LEMMA TakeKeepsTiles ==
    ASSUME NEW h, Typed(h), Tiles(h), NEW r \in DOMAIN h, NEW size \in Nat,
           h[r].size > size
    PROVE  Typed(TakeBlock(h, r, size)) /\ Tiles(TakeBlock(h, r, size))
PROOF
  <1> DEFINE g == TakeBlock(h, r, size)
             t == r + HDR + size
  <1> USE HeapAssumption DEF HDR, NULL
  <1>f. /\ r \in Nat /\ r >= HeapStart /\ r > 0
        /\ h[r].size \in Nat /\ h[r].next \in Nat /\ h[r].prev \in Nat
        /\ End(h, r) <= HeapEnd /\ End(h, r) \in Nat
        /\ \A c \in DOMAIN h : ~ (r < c /\ c < End(h, r))
    BY TileFacts
  <1>1. CASE ~ (h[r].size >= size + HDR + 1)
    <2> HIDE DEF g
    <2>1. /\ DOMAIN g = DOMAIN h
          /\ Typed(g)
          /\ \A a \in DOMAIN h : /\ g[a].next = h[a].next
                                 /\ g[a].size = h[a].size
                                 /\ g[a].prev = h[a].prev
      BY <1>1, WholeFields DEF g
    <2>2. \A a \in DOMAIN h : End(g, a) = End(h, a)
      BY <2>1 DEF End
    <2>3. Tiles(g)
      BY <2>1, <2>2 DEF Tiles, LinksOK
    <2> QED BY <2>1, <2>3 DEF g
  <1>2. CASE h[r].size >= size + HDR + 1
    <2> HIDE DEF g
    <2>1. t \in Nat /\ t > r /\ t < End(h, r) /\ t <= HeapEnd /\ t \notin DOMAIN h
      BY <1>2, <1>f DEF End
    <2>2. h[r].next # r /\ h[r].next # t
      BY <2>1, <1>f, TileFacts
    <2> HIDE DEF t
    <2>3. t = r + 16 + size /\ g = TakeBlock(h, r, size)
      BY DEF t, g
    <2>4. /\ DOMAIN g = DOMAIN h \cup {t}
          /\ Typed(g)
          /\ g[r].next = t /\ g[r].size = size /\ g[r].prev = h[r].prev
          /\ g[t].next = h[r].next /\ g[t].prev = r
          /\ g[t].size = h[r].size - size - 16
          /\ \A a \in DOMAIN h \ {r} :
                /\ g[a].next = h[a].next /\ g[a].size = h[a].size
                /\ g[a].prev = IF a = h[r].next THEN t ELSE h[a].prev
      <3>1. Typed(g) /\ SplitAt(g, h, r, size, t)
        BY <1>2, <2>1, <2>2, <2>3, SplitFields
      <3> QED BY <3>1 DEF SplitAt
    <2>5. /\ End(g, r) = t /\ End(g, t) = End(h, r)
          /\ \A a \in DOMAIN h \ {r} : End(g, a) = End(h, a)
      BY <2>3, <2>4, <1>f DEF End
    <2>6. LinksOK(g, r)
      <3>1. g[r].next # 0 /\ g[r].next = End(g, r) /\ g[r].next \in DOMAIN g
            /\ g[g[r].next].prev = r
        BY <1>f, <2>1, <2>4, <2>5
      <3>2. CASE h[r].prev = 0
        BY <3>1, <3>2, <2>4, TileFacts DEF LinksOK
      <3>3. CASE h[r].prev # 0
        <4>1. h[r].prev \in DOMAIN h /\ h[h[r].prev].next = r
          BY <3>3, TileFacts
        <4>2. h[r].prev # r
          BY <4>1, <2>2
        <4>3. g[h[r].prev].next = r
          BY <4>1, <4>2, <2>4
        <4> QED BY <3>1, <3>3, <4>1, <4>3, <2>4 DEF LinksOK
      <3> QED BY <3>2, <3>3
    <2>7. LinksOK(g, t)
      <3>1. g[t].prev # 0 /\ g[t].prev \in DOMAIN g /\ g[g[t].prev].next = t
        BY <2>4, <1>f
      <3>2. CASE h[r].next = 0
        BY <3>1, <3>2, <2>4, <2>5, TileFacts DEF LinksOK
      <3>3. CASE h[r].next # 0
        <4>1. h[r].next \in DOMAIN h /\ h[r].next = End(h, r)
          BY <3>3, TileFacts
        <4>2. g[h[r].next].prev = t
          BY <4>1, <2>2, <2>4
        <4> QED BY <3>1, <3>3, <4>1, <4>2, <2>4, <2>5 DEF LinksOK
      <3> QED BY <3>2, <3>3
    <2>8. ASSUME NEW a \in DOMAIN h \ {r} PROVE LinksOK(g, a)
      <3>1. a \in DOMAIN g /\ g[a].next = h[a].next /\ End(g, a) = End(h, a)
        BY <2>4, <2>5
      <3>2. IF g[a].next = 0 THEN End(g, a) = HeapEnd
            ELSE /\ g[a].next = End(g, a)
                 /\ g[a].next \in DOMAIN g
                 /\ g[g[a].next].prev = a
        <4>1. CASE h[a].next = 0
          BY <4>1, <3>1, TileFacts
        <4>2. CASE h[a].next # 0
          <5>1. /\ h[a].next \in DOMAIN h /\ h[a].next = End(h, a)
                /\ h[h[a].next].prev = a
            BY <4>2, TileFacts
          <5>2. h[a].next # h[r].next
            <6>1. SUFFICES ASSUME h[a].next = h[r].next PROVE FALSE
              OBVIOUS
            <6>2. h[h[r].next].prev = r
              BY <6>1, <4>2, TileFacts
            <6> QED BY <6>1, <6>2, <5>1
          <5>3. g[h[a].next].prev = a
            BY <5>1, <5>2, <2>4
          <5> QED BY <5>1, <5>3, <3>1, <4>2, <2>4
        <4> QED BY <4>1, <4>2
      <3>3. IF g[a].prev = 0 THEN a = HeapStart
            ELSE g[a].prev \in DOMAIN g /\ g[g[a].prev].next = a
        <4>1. CASE a = h[r].next
          BY <4>1, <1>f, <2>4, <2>1
        <4>2. CASE a # h[r].next /\ h[a].prev = 0
          BY <4>2, <2>4, TileFacts
        <4>3. CASE a # h[r].next /\ h[a].prev # 0
          <5>1. h[a].prev \in DOMAIN h /\ h[h[a].prev].next = a
            BY <4>3, TileFacts
          <5>2. h[a].prev # r
            BY <5>1, <4>3
          <5> QED BY <5>1, <5>2, <4>3, <2>4
        <4> QED BY <4>1, <4>2, <4>3
      <3> QED BY <3>2, <3>3 DEF LinksOK
    <2>9. HeapStart \in DOMAIN g /\ g[HeapStart].prev = 0
      <3>1. HeapStart \in DOMAIN h /\ h[HeapStart].prev = 0
        BY DEF Tiles
      <3>2. HeapStart # h[r].next
        BY <3>1, <1>f, TileFacts
      <3> QED BY <3>1, <3>2, <2>4
    <2>10. ASSUME NEW b \in DOMAIN g, NEW c \in DOMAIN g, b < c
           PROVE  End(g, b) <= c
      <3>1. \A x, y \in DOMAIN h : x < y => End(h, x) <= y
        BY DEF Tiles
      <3>2. \A x \in DOMAIN h : x \in Nat /\ x < End(h, x) /\ End(h, x) \in Nat
        BY TileFacts DEF End
      <3>3. CASE b = t
        <4>1. c \in DOMAIN h /\ c # r /\ r < c
          BY <2>10, <3>3, <2>4, <2>1, <1>f, <3>2
        <4> QED BY <3>3, <4>1, <3>1, <2>5
      <3>4. CASE b # t /\ c = t
        <4>1. b \in DOMAIN h
          BY <3>4, <2>4
        <4>2. CASE b = r
          BY <3>4, <4>2, <2>5, <2>1
        <4>3. CASE b # r
          <5>1. b < r
            BY <2>10, <4>1, <4>3, <3>4, <1>f, <2>1, <3>2
          <5>2. End(h, b) <= r
            BY <5>1, <4>1, <3>1
          <5> QED BY <5>2, <4>1, <4>3, <3>4, <3>2, <2>1, <2>5, <1>f
        <4> QED BY <4>2, <4>3
      <3>5. CASE b # t /\ c # t
        <4>1. b \in DOMAIN h /\ c \in DOMAIN h /\ End(h, b) <= c
          BY <2>10, <3>5, <2>4, <3>1
        <4>2. CASE b = r
          BY <4>1, <4>2, <2>5, <2>1, <3>2
        <4>3. CASE b # r
          BY <4>1, <4>3, <2>5
        <4> QED BY <4>2, <4>3
      <3> QED BY <3>3, <3>4, <3>5
    <2>11. Tiles(g)
      BY <2>4, <2>6, <2>7, <2>8, <2>9, <2>10 DEF Tiles
    <2> QED BY <2>4, <2>11 DEF g
  <1> QED BY <1>1, <1>2, <1>f

\* The fields of the map in which block p has taken over block n.
LEMMA AbsorbFields ==
    ASSUME NEW h, Typed(h), NEW p \in DOMAIN h, NEW n \in DOMAIN h, p # n,
           h[n].next # p, h[n].next # n,
           NEW g, g = Absorb(h, p, n)
    PROVE  Typed(g) /\ Merged(g, h, p, n)
PROOF
  <1> USE HeapAssumption DEF HDR
  <1>1. h \in [DOMAIN h -> Header] /\ DOMAIN h \subseteq HeapStart..HeapEnd
    BY DEF Typed
  <1>2. p \in Nat /\ n \in Nat
    BY <1>1
  <1>3. \A a \in DOMAIN h : h[a] \in Header
    BY <1>1
  <1>4. h[n].size \in Nat /\ h[n].next \in Nat /\ h[p].size \in Nat
        /\ h[p].prev \in Nat /\ h[p].used \in BOOLEAN
    BY <1>1 DEF Header
  <1>5. DOMAIN g = DOMAIN h \ {n}
    BY DEF Absorb
  <1>6. g[p] = MemBlock(h[p].used, h[p].prev, h[n].next, h[p].size + HDR + h[n].size)
    BY DEF Absorb
  <1>7. \A a \in DOMAIN h \ {n, p} :
          g[a] = IF a = h[n].next THEN WithPrev(h[a], p) ELSE h[a]
    BY DEF Absorb
  <1>8. /\ g[p] \in Header
        /\ g[p].next = h[n].next /\ g[p].prev = h[p].prev
        /\ g[p].size = h[p].size + 16 + h[n].size
        /\ (g[p].used <=> h[p].used)
    BY <1>6, <1>4 DEF Header, MemBlock
  <1>9. ASSUME NEW a \in DOMAIN h \ {n, p}
        PROVE  /\ g[a] \in Header
               /\ g[a].next = h[a].next /\ g[a].size = h[a].size
               /\ (g[a].used <=> h[a].used)
               /\ g[a].prev = IF a = h[n].next THEN p ELSE h[a].prev
    <2>1. CASE a = h[n].next
      <3>1. g[a] = MemBlock(h[a].used, p, h[a].next, h[a].size)
        BY <2>1, <1>7 DEF WithPrev
      <3>2. h[a] \in Header
        BY <1>3
      <3> QED BY <2>1, <3>1, <3>2, <1>2 DEF Header, MemBlock
    <2>2. CASE a # h[n].next
      <3>1. g[a] = h[a] /\ h[a] \in Header
        BY <2>2, <1>7, <1>3
      <3> QED BY <2>2, <3>1
    <2> QED BY <2>1, <2>2
  <1>10. Typed(g)
    <2>1. \A a \in DOMAIN g : g[a] \in Header
      BY <1>5, <1>8, <1>9
    <2>2. g \in [DOMAIN g -> Header]
      BY <2>1 DEF Absorb
    <2> QED BY <2>2, <1>5, <1>1 DEF Typed
  <1> QED BY <1>5, <1>8, <1>9, <1>10 DEF Merged

\* A block may take over the block after it: the heap stays tiled.
LEMMA AbsorbKeepsTiles ==
    ASSUME NEW h, Typed(h), Tiles(h), NEW p \in DOMAIN h,
           NEW n, n = h[p].next, n # 0,
           NEW g, g = Absorb(h, p, n)
    PROVE  /\ n \in DOMAIN h /\ n # p /\ h[n].next # p /\ h[n].next # n
           /\ h[n].prev = p
           /\ Typed(g) /\ Tiles(g)
PROOF
  <1> USE HeapAssumption DEF HDR, NULL
  <1>p. /\ p \in Nat /\ p >= HeapStart /\ p > 0
        /\ h[p].size \in Nat /\ End(h, p) \in Nat
        /\ n \in DOMAIN h /\ n = End(h, p) /\ h[n].prev = p
    BY TileFacts
  <1>n. /\ n \in Nat /\ n > p /\ h[n].size \in Nat /\ End(h, n) \in Nat
        /\ h[n].next # 0 => h[n].next \in DOMAIN h /\ h[n].next = End(h, n)
                            /\ h[h[n].next].prev = n
        /\ h[n].next = 0 => End(h, n) = HeapEnd
        /\ End(h, n) > n
    BY <1>p, TileFacts DEF End
  <1>1. n # p /\ h[n].next # p /\ h[n].next # n
    BY <1>p, <1>n
  <1>2. /\ DOMAIN g = DOMAIN h \ {n}
        /\ Typed(g)
        /\ g[p].next = h[n].next /\ g[p].prev = h[p].prev
        /\ g[p].size = h[p].size + 16 + h[n].size
        /\ \A a \in DOMAIN h \ {n, p} :
             /\ g[a].next = h[a].next /\ g[a].size = h[a].size
             /\ g[a].prev = IF a = h[n].next THEN p ELSE h[a].prev
    <2>1. Typed(g) /\ Merged(g, h, p, n)
      BY <1>p, <1>1, AbsorbFields
    <2> QED BY <2>1 DEF Merged
  <1>3. /\ End(g, p) = End(h, n)
        /\ \A a \in DOMAIN h \ {n, p} : End(g, a) = End(h, a)
    BY <1>2, <1>p, <1>n DEF End
  <1>4. LinksOK(g, p)
    <2>1. IF g[p].next = 0 THEN End(g, p) = HeapEnd
          ELSE /\ g[p].next = End(g, p)
               /\ g[p].next \in DOMAIN g
               /\ g[g[p].next].prev = p
      BY <1>1, <1>2, <1>3, <1>n
    <2>2. IF g[p].prev = 0 THEN p = HeapStart
          ELSE g[p].prev \in DOMAIN g /\ g[g[p].prev].next = p
      <3>1. CASE h[p].prev = 0
        BY <3>1, <1>2, TileFacts
      <3>2. CASE h[p].prev # 0
        <4>1. h[p].prev \in DOMAIN h /\ h[h[p].prev].next = p
          BY <3>2, TileFacts
        <4>2. h[p].prev # n /\ h[p].prev # p
          BY <4>1, <1>1, <1>p
        <4> QED BY <3>2, <4>1, <4>2, <1>2
      <3> QED BY <3>1, <3>2
    <2> QED BY <2>1, <2>2 DEF LinksOK
  <1>5. ASSUME NEW a \in DOMAIN h \ {n, p} PROVE LinksOK(g, a)
    <2>1. IF g[a].next = 0 THEN End(g, a) = HeapEnd
          ELSE /\ g[a].next = End(g, a)
               /\ g[a].next \in DOMAIN g
               /\ g[g[a].next].prev = a
      <3>1. CASE h[a].next = 0
        BY <3>1, <1>2, <1>3, TileFacts
      <3>2. CASE h[a].next # 0
        <4>1. /\ h[a].next \in DOMAIN h /\ h[a].next = End(h, a)
              /\ h[h[a].next].prev = a
          BY <3>2, TileFacts
        <4>2. h[a].next # n
          BY <4>1, <1>p
        <4>3. h[a].next # h[n].next
          BY <4>1, <1>n, <3>2
        <4>4. CASE h[a].next = p
          <5>1. g[a].next = p /\ p # 0 /\ End(g, a) = p
            BY <4>1, <4>4, <3>2, <1>2, <1>3
          <5>2. p \in DOMAIN g /\ g[p].prev = a
            BY <4>1, <4>4, <1>1, <1>2
          <5> QED BY <5>1, <5>2
        <4>5. CASE h[a].next # p
          BY <4>1, <4>2, <4>3, <4>5, <3>2, <1>2, <1>3
        <4> QED BY <4>4, <4>5
      <3> QED BY <3>1, <3>2
    <2>2. IF g[a].prev = 0 THEN a = HeapStart
          ELSE g[a].prev \in DOMAIN g /\ g[g[a].prev].next = a
      <3>1. CASE a = h[n].next
        BY <3>1, <1>2, <1>p, <1>1
      <3>2. CASE a # h[n].next /\ h[a].prev = 0
        BY <3>2, <1>2, TileFacts
      <3>3. CASE a # h[n].next /\ h[a].prev # 0
        <4>1. h[a].prev \in DOMAIN h /\ h[h[a].prev].next = a
          BY <3>3, TileFacts
        <4>2. h[a].prev # n /\ h[a].prev # p
          BY <4>1, <3>3
        <4> QED BY <4>1, <4>2, <3>3, <1>2
      <3> QED BY <3>1, <3>2, <3>3
    <2> QED BY <2>1, <2>2 DEF LinksOK
  <1>6. HeapStart \in DOMAIN g /\ g[HeapStart].prev = 0
    <2>1. HeapStart \in DOMAIN h /\ h[HeapStart].prev = 0
      BY DEF Tiles
    <2>2. HeapStart # n /\ HeapStart # h[n].next
      BY <2>1, <1>p, <1>n
    <2> QED BY <2>1, <2>2, <1>2
  <1>7. ASSUME NEW b \in DOMAIN g, NEW c \in DOMAIN g, b < c
        PROVE  End(g, b) <= c
    <2>1. \A x, y \in DOMAIN h : x < y => End(h, x) <= y
      BY DEF Tiles
    <2>2. b \in DOMAIN h /\ c \in DOMAIN h /\ c # n /\ b # n
      BY <1>2
    <2>3. b \in Nat /\ c \in Nat
      BY <2>2, TileFacts
    <2>4. CASE b = p
      <3>1. n <= c
        BY <1>7, <2>4, <2>1, <2>2, <1>p
      <3>2. n < c
        BY <3>1, <2>2, <2>3, <1>n
      <3> QED BY <3>2, <2>1, <2>2, <2>4, <1>p, <1>3
    <2>5. CASE b # p
      BY <1>7, <2>1, <2>2, <2>5, <1>3
    <2> QED BY <2>4, <2>5
  <1>8. Tiles(g)
    BY <1>2, <1>4, <1>5, <1>6, <1>7 DEF Tiles
  <1> QED BY <1>p, <1>1, <1>2, <1>8

\* Map g has the used blocks of h, block b aside, with their sizes.
SameUsed(g, h, b) ==
    /\ \A a \in DOMAIN g : g[a].used => a \in DOMAIN h /\ h[a].used /\ a # b
    /\ \A a \in DOMAIN h : h[a].used /\ a # b =>
            a \in DOMAIN g /\ g[a].used /\ g[a].size = h[a].size

\* Free blocks other than b are followed by used blocks.
CoalescesBut(h, b) ==
    \A a \in DOMAIN h \ {b} : ~h[a].used /\ h[a].next # NULL => h[h[a].next].used

\* kmalloc's TakeBlock: block r becomes used and large enough, the other used
\* blocks stay as they are, and the remainder has no free neighbour.
LEMMA TakeUsed ==
    ASSUME NEW h, Typed(h), Tiles(h), Coalesces(h), NEW r \in DOMAIN h,
           NEW size \in Nat, h[r].size > size, ~h[r].used,
           NEW g, g = TakeBlock(h, r, size)
    PROVE  /\ r \in DOMAIN g /\ g[r].used /\ size <= g[r].size
           /\ SameUsed(h, g, r)
           /\ Coalesces(g)
PROOF
  <1> USE HeapAssumption DEF HDR, NULL
  <1>f. /\ r \in Nat /\ r >= HeapStart /\ r > 0
        /\ h[r].size \in Nat /\ h[r].next \in Nat /\ h[r].prev \in Nat
        /\ End(h, r) <= HeapEnd /\ End(h, r) \in Nat
        /\ \A c \in DOMAIN h : ~ (r < c /\ c < End(h, r))
    BY TileFacts
  <1>l. \A a \in DOMAIN h : h[a].next # 0 => h[a].next \in DOMAIN h
    BY TileFacts
  <1>u. /\ \A a \in DOMAIN h : ~h[a].used /\ h[a].next # 0 => h[h[a].next].used
    BY DEF Coalesces
  <1>1. CASE ~ (h[r].size >= size + HDR + 1)
    <2>1. /\ DOMAIN g = DOMAIN h
          /\ g[r].used
          /\ \A a \in DOMAIN h : /\ g[a].next = h[a].next
                                 /\ g[a].size = h[a].size
                                 /\ a # r => (g[a].used <=> h[a].used)
      BY <1>1, WholeFields
    <2>2. size <= g[r].size
      BY <2>1, <1>f
    <2>3. SameUsed(h, g, r)
      BY <2>1 DEF SameUsed
    <2>4. \A a \in DOMAIN g : ~g[a].used /\ g[a].next # 0 => g[g[a].next].used
      BY <2>1, <1>u, <1>l
    <2> QED BY <2>1, <2>2, <2>3, <2>4 DEF Coalesces
  <1>2. CASE h[r].size >= size + HDR + 1
    <2>1. PICK t \in Nat : t = r + 16 + size
      BY <1>f
    <2>2. t > r /\ t < End(h, r) /\ t <= HeapEnd /\ t \notin DOMAIN h
      BY <1>2, <1>f, <2>1 DEF End
    <2>3. h[r].next # r /\ h[r].next # t
      BY <2>2, <1>f, TileFacts
    <2>4. /\ DOMAIN g = DOMAIN h \cup {t}
          /\ g[r].next = t /\ g[r].size = size
          /\ g[t].next = h[r].next
          /\ g[r].used /\ ~g[t].used
          /\ \A a \in DOMAIN h \ {r} :
                /\ g[a].next = h[a].next /\ g[a].size = h[a].size
                /\ (g[a].used <=> h[a].used)
      <3>1. SplitAt(g, h, r, size, t)
        BY <1>2, <2>1, <2>2, <2>3, SplitFields
      <3> QED BY <3>1 DEF SplitAt
    <2>5. SameUsed(h, g, r)
      BY <2>2, <2>4 DEF SameUsed
    <2>6. ASSUME NEW a \in DOMAIN g, ~g[a].used, g[a].next # 0
          PROVE  g[g[a].next].used
      <3>1. CASE a = t
        BY <3>1, <2>6, <2>3, <2>4, <1>u, <1>l
      <3>2. CASE a # t
        <4>1. a \in DOMAIN h /\ a # r
          BY <3>2, <2>6, <2>4
        <4>2. g[a].next = h[a].next /\ ~h[a].used
          BY <4>1, <2>6, <2>4
        <4>3. h[a].next \in DOMAIN h /\ h[h[a].next].used
          BY <4>1, <4>2, <2>6, <1>u, <1>l
        <4> QED BY <4>2, <4>3, <2>4
      <3> QED BY <3>1, <3>2
    <2> QED BY <2>4, <2>5, <2>6 DEF Coalesces
  <1> QED BY <1>1, <1>2, <1>f

\* Merging a free block with its successor: all that can be wrong in the map
\* before is that b and its successor are both free, and nothing is after.
LEMMA MergeNextFacts ==
    ASSUME NEW h, Typed(h), Tiles(h), NEW b \in DOMAIN h, ~h[b].used,
           CoalescesBut(h, b),
           NEW g, g = MergeNext(h, b)
    PROVE  Typed(g) /\ Tiles(g) /\ Coalesces(g) /\ SameUsed(g, h, b)
PROOF
  <1> USE HeapAssumption DEF NULL
  <1>u. \A a \in DOMAIN h \ {b} : ~h[a].used /\ h[a].next # 0 => h[h[a].next].used
    BY DEF CoalescesBut
  <1>l. \A a \in DOMAIN h : h[a].next # 0 => h[a].next \in DOMAIN h
    BY TileFacts
  <1>1. CASE ~ FreeNeighbour(h, h[b].next)
    <2>1. g = h
      BY <1>1 DEF MergeNext
    <2>2. Coalesces(h)
      BY <1>1, <1>u DEF Coalesces, FreeNeighbour
    <2>3. SameUsed(h, h, b)
      BY DEF SameUsed
    <2> QED BY <2>1, <2>2, <2>3
  <1>2. CASE FreeNeighbour(h, h[b].next)
    <2>1. PICK n : n = h[b].next
      OBVIOUS
    <2>2. n # 0 /\ ~h[n].used /\ g = Absorb(h, b, n)
      BY <1>2, <2>1 DEF MergeNext, FreeNeighbour
    <2>3. /\ n \in DOMAIN h /\ n # b /\ h[n].next # b /\ h[n].next # n
          /\ h[n].prev = b
          /\ Typed(g) /\ Tiles(g)
      BY <2>1, <2>2, AbsorbKeepsTiles
    <2>4. /\ DOMAIN g = DOMAIN h \ {n}
          /\ g[b].next = h[n].next
          /\ ~g[b].used
          /\ \A a \in DOMAIN h \ {n, b} :
                /\ g[a].next = h[a].next /\ g[a].size = h[a].size
                /\ (g[a].used <=> h[a].used)
      <3>1. Merged(g, h, b, n)
        BY <2>2, <2>3, AbsorbFields
      <3> QED BY <3>1 DEF Merged
    <2>5. SameUsed(g, h, b)
      BY <2>2, <2>3, <2>4 DEF SameUsed
    <2>6. ASSUME NEW a \in DOMAIN g, ~g[a].used, g[a].next # 0
          PROVE  g[g[a].next].used
      <3>1. CASE a = b
        BY <3>1, <2>6, <2>2, <2>3, <2>4, <1>u, <1>l
      <3>2. CASE a # b
        <4>1. a \in DOMAIN h /\ a # n /\ g[a].next = h[a].next /\ ~h[a].used
          BY <3>2, <2>6, <2>4
        <4>2. h[a].next \in DOMAIN h /\ h[h[a].next].used
          BY <4>1, <3>2, <2>6, <1>u, <1>l
        <4>3. h[a].next # n /\ h[a].next # b
          BY <4>2, <2>2
        <4> QED BY <4>1, <4>2, <4>3, <2>4
      <3> QED BY <3>1, <3>2
    <2> QED BY <2>3, <2>5, <2>6 DEF Coalesces
  <1> QED BY <1>1, <1>2

\* kfree: the block leaves the used ones, the others stay as they are, the heap
\* is tiled and no two free blocks are neighbours.
LEMMA FreeFacts ==
    ASSUME NEW h, Typed(h), Tiles(h), Coalesces(h), NEW b \in DOMAIN h, h[b].used,
           NEW g, g = FreeBlock(h, b)
    PROVE  Typed(g) /\ Tiles(g) /\ Coalesces(g) /\ SameUsed(g, h, b)
PROOF
  <1> USE HeapAssumption DEF NULL
  <1> DEFINE f == [h EXCEPT ![b] = WithUsed(@, FALSE)]
             p == h[b].prev
  <1>u. \A a \in DOMAIN h : ~h[a].used /\ h[a].next # 0 => h[h[a].next].used
    BY DEF Coalesces
  <1>l. \A a \in DOMAIN h : /\ h[a].next # 0 => h[a].next \in DOMAIN h
                                                /\ h[h[a].next].prev = a
                            /\ h[a].prev # 0 => h[a].prev \in DOMAIN h
                                                /\ h[h[a].prev].next = a
    BY TileFacts
  <1>1. /\ DOMAIN f = DOMAIN h /\ Typed(f) /\ ~f[b].used
        /\ \A a \in DOMAIN h : /\ f[a].next = h[a].next
                               /\ f[a].size = h[a].size
                               /\ f[a].prev = h[a].prev
                               /\ a # b => (f[a].used <=> h[a].used)
    BY DEF Typed, Header, MemBlock, WithUsed
  <1>2. g = IF FreeNeighbour(f, p) THEN MergeNext(Absorb(f, p, b), p)
            ELSE MergeNext(f, b)
    BY DEF FreeBlock
  <1> HIDE DEF f, p
  <1>p. p = h[b].prev
    BY DEF p
  <1>3. Tiles(f)
    <2>1. \A a \in DOMAIN h : End(f, a) = End(h, a)
      BY <1>1 DEF End
    <2> QED BY <1>1, <2>1 DEF Tiles, LinksOK
  <1>4. CASE ~ FreeNeighbour(f, p)
    <2>1. CoalescesBut(f, b)
      <3>1. SUFFICES ASSUME NEW a \in DOMAIN f \ {b}, ~f[a].used, f[a].next # 0
                     PROVE  f[f[a].next].used
        BY DEF CoalescesBut
      <3>2. h[h[a].next].used /\ h[a].next \in DOMAIN h /\ h[h[a].next].prev = a
        BY <3>1, <1>1, <1>u, <1>l
      <3>3. a # 0
        BY <3>1, <1>1, TileFacts
      <3>4. h[a].next # b
        BY <3>1, <3>2, <3>3, <1>4, <1>p DEF FreeNeighbour
      <3> QED BY <3>1, <3>2, <3>4, <1>1
    <2>2. g = MergeNext(f, b)
      BY <1>2, <1>4
    <2>3. Typed(g) /\ Tiles(g) /\ Coalesces(g) /\ SameUsed(g, f, b)
      BY <2>1, <2>2, <1>1, <1>3, MergeNextFacts
    <2> QED BY <2>3, <1>1 DEF SameUsed
  <1>5. CASE FreeNeighbour(f, p)
    <2>1. PICK e : e = Absorb(f, p, b)
      OBVIOUS
    <2>2. p # 0 /\ ~f[p].used /\ g = MergeNext(e, p)
      BY <1>2, <1>5, <2>1 DEF FreeNeighbour
    <2>3. p \in DOMAIN h /\ h[p].next = b /\ b # 0
      BY <2>2, <1>l, <1>p, TileFacts
    <2>4. p \in DOMAIN f /\ b = f[p].next
      BY <2>3, <1>1
    <2>5. /\ b # p /\ f[b].next # p /\ f[b].next # b
          /\ Typed(e) /\ Tiles(e)
      BY <2>1, <2>3, <2>4, <1>1, <1>3, AbsorbKeepsTiles
    <2>6. /\ DOMAIN e = DOMAIN f \ {b}
          /\ ~e[p].used
          /\ \A a \in DOMAIN f \ {b, p} :
                /\ e[a].next = f[a].next /\ e[a].size = f[a].size
                /\ (e[a].used <=> f[a].used)
      <3>1. Merged(e, f, p, b)
        BY <2>1, <2>2, <2>4, <2>5, <1>1, AbsorbFields
      <3> QED BY <3>1, <2>2 DEF Merged
    <2>7. CoalescesBut(e, p)
      <3>1. SUFFICES ASSUME NEW a \in DOMAIN e \ {p}, ~e[a].used, e[a].next # 0
                     PROVE  e[e[a].next].used
        BY DEF CoalescesBut
      <3>2. a \in DOMAIN h /\ a # b /\ ~h[a].used /\ e[a].next = h[a].next
        BY <3>1, <2>6, <1>1
      <3>3. h[a].next \in DOMAIN h /\ h[h[a].next].used /\ h[h[a].next].prev = a
        BY <3>1, <3>2, <1>u, <1>l
      <3>4. h[a].next # b
        BY <3>1, <3>3, <1>p
      <3>5. h[a].next # p
        BY <3>3, <2>2, <2>5, <1>1
      <3> QED BY <3>2, <3>3, <3>4, <3>5, <2>6, <1>1
    <2>8. Typed(g) /\ Tiles(g) /\ Coalesces(g) /\ SameUsed(g, e, p)
      BY <2>2, <2>4, <2>5, <2>6, <2>7, MergeNextFacts
    <2>9. SameUsed(g, h, b)
      BY <2>2, <2>3, <2>5, <2>6, <2>8, <1>1 DEF SameUsed
    <2> QED BY <2>8, <2>9
  <1> QED BY <1>4, <1>5

\* Word-sized requests keep blocks on word boundaries.
LEMMA TakeAligned ==
    ASSUME NEW h, Typed(h), Tiles(h), WordAligned(h), NEW r \in DOMAIN h,
           NEW size \in Nat, size % 4 = 0, h[r].size > size,
           NEW g, g = TakeBlock(h, r, size)
    PROVE  WordAligned(g)
PROOF
  <1> USE HeapAssumption DEF HDR, NULL, ALLIGNMENT
  <1>f. /\ r \in Nat /\ h[r].size \in Nat
        /\ End(h, r) <= HeapEnd /\ End(h, r) \in Nat
        /\ \A c \in DOMAIN h : ~ (r < c /\ c < End(h, r))
        /\ r % 4 = 0 /\ h[r].size % 4 = 0
    BY TileFacts DEF WordAligned
  <1>1. CASE ~ (h[r].size >= size + HDR + 1)
    BY <1>1, WholeFields DEF WordAligned
  <1>2. CASE h[r].size >= size + HDR + 1
    <2>1. PICK t \in Nat : t = r + 16 + size
      BY <1>f
    <2>2. t > r /\ t < End(h, r) /\ t <= HeapEnd /\ t \notin DOMAIN h
      BY <1>2, <1>f, <2>1 DEF End
    <2>3. h[r].next # r /\ h[r].next # t
      BY <2>2, <1>f, TileFacts
    <2>4. SplitAt(g, h, r, size, t)
      BY <1>2, <2>1, <2>2, <2>3, SplitFields
    <2>5. t % 4 = 0 /\ (h[r].size - size - 16) % 4 = 0
      BY <1>f, <2>1
    <2>6. ASSUME NEW a \in DOMAIN g PROVE a % 4 = 0 /\ g[a].size % 4 = 0
      <3>1. CASE a = t
        BY <3>1, <2>4, <2>5 DEF SplitAt
      <3>2. CASE a = r
        BY <3>2, <2>4, <1>f DEF SplitAt
      <3>3. CASE a # t /\ a # r
        BY <3>3, <2>4 DEF SplitAt, WordAligned
      <3> QED BY <3>1, <3>2, <3>3
    <2> QED BY <2>6 DEF WordAligned
  <1> QED BY <1>1, <1>2

\* Merging two blocks, as kfree does, keeps blocks on word boundaries.
LEMMA MergedAligned ==
    ASSUME NEW h, Typed(h), WordAligned(h), NEW p \in DOMAIN h, NEW n \in DOMAIN h,
           NEW g, Merged(g, h, p, n)
    PROVE  WordAligned(g)
PROOF
  <1> USE DEF HDR, ALLIGNMENT
  <1>1. h[p].size \in Nat /\ h[n].size \in Nat
        /\ h[p].size % 4 = 0 /\ h[n].size % 4 = 0
    BY DEF WordAligned, Typed, Header
  <1>2. (h[p].size + 16 + h[n].size) % 4 = 0
    BY <1>1
  <1>3. ASSUME NEW a \in DOMAIN g PROVE a % 4 = 0 /\ g[a].size % 4 = 0
    <2>1. CASE a = p
      BY <2>1, <1>2 DEF Merged, WordAligned
    <2>2. CASE a # p
      BY <2>2 DEF Merged, WordAligned
    <2> QED BY <2>1, <2>2
  <1> QED BY <1>3 DEF WordAligned

\* kfree's merge with the following block keeps blocks on word boundaries.
LEMMA MergeNextAligned ==
    ASSUME NEW h, Typed(h), Tiles(h), WordAligned(h), NEW b \in DOMAIN h,
           NEW g, g = MergeNext(h, b)
    PROVE  WordAligned(g)
PROOF
  <1>1. CASE ~ FreeNeighbour(h, h[b].next)
    BY <1>1 DEF MergeNext
  <1>2. CASE FreeNeighbour(h, h[b].next)
    <2>1. PICK n : n = h[b].next
      OBVIOUS
    <2>2. n # 0 /\ g = Absorb(h, b, n)
      BY <1>2, <2>1 DEF MergeNext, FreeNeighbour, NULL
    <2>3. n \in DOMAIN h /\ n # b /\ h[n].next # b /\ h[n].next # n
      BY <2>1, <2>2, AbsorbKeepsTiles
    <2>4. Merged(g, h, b, n)
      BY <2>2, <2>3, AbsorbFields
    <2> QED BY <2>3, <2>4, MergedAligned
  <1> QED BY <1>1, <1>2

\* kfree as a whole keeps blocks on word boundaries.
LEMMA FreeAligned ==
    ASSUME NEW h, Typed(h), Tiles(h), WordAligned(h), NEW b \in DOMAIN h,
           NEW g, g = FreeBlock(h, b)
    PROVE  WordAligned(g)
PROOF
  <1> DEFINE f == [h EXCEPT ![b] = WithUsed(@, FALSE)]
             p == h[b].prev
  <1>1. /\ DOMAIN f = DOMAIN h /\ Typed(f)
        /\ \A a \in DOMAIN h : /\ f[a].next = h[a].next
                               /\ f[a].size = h[a].size
                               /\ f[a].prev = h[a].prev
    BY DEF Typed, Header, MemBlock, WithUsed
  <1>2. g = IF FreeNeighbour(f, p) THEN MergeNext(Absorb(f, p, b), p)
            ELSE MergeNext(f, b)
    BY DEF FreeBlock
  <1> HIDE DEF f, p
  <1>3. Tiles(f)
    <2>1. \A a \in DOMAIN h : End(f, a) = End(h, a)
      BY <1>1 DEF End
    <2> QED BY <1>1, <2>1 DEF Tiles, LinksOK
  <1>4. WordAligned(f)
    BY <1>1 DEF WordAligned
  <1>5. CASE ~ FreeNeighbour(f, p)
    BY <1>1, <1>2, <1>3, <1>4, <1>5, MergeNextAligned
  <1>6. CASE FreeNeighbour(f, p)
    <2>1. PICK e : e = Absorb(f, p, b)
      OBVIOUS
    <2>2. p # 0 /\ p = h[b].prev /\ g = MergeNext(e, p)
      BY <1>2, <1>6, <2>1 DEF FreeNeighbour, NULL, p
    <2>3. p \in DOMAIN f /\ f[p].next = b /\ b # 0
      BY <2>2, <1>1, TileFacts
    <2>4. /\ b # p /\ f[b].next # p /\ f[b].next # b
          /\ Typed(e) /\ Tiles(e)
      BY <2>1, <2>3, <1>1, <1>3, AbsorbKeepsTiles
    <2>5. Merged(e, f, p, b)
      BY <2>1, <2>3, <2>4, <1>1, AbsorbFields
    <2>6. WordAligned(e) /\ p \in DOMAIN e
      <3>1. WordAligned(e)
        BY <2>3, <2>5, <1>1, <1>4, MergedAligned
      <3> QED BY <3>1, <2>3, <2>4, <2>5 DEF Merged
    <2> QED BY <2>2, <2>4, <2>6, MergeNextAligned
  <1> QED BY <1>5, <1>6

-----------------------------------------------------------------------------
\* What every caller holds: the payload of a block that is used and large enough,
\* and no block is held twice.
HeldTyped ==
    \A a \in held : /\ a \in [block : Nat, ptr : Nat, size : Nat]
                    /\ a.ptr = a.block + HDR

\* The inductive invariant.  Tiling alone is not inductive: kmalloc's realigning
\* path breaks it, and only alignment keeps kmalloc out of that path.
HeapInv ==
    /\ Typed(hdr)
    /\ Tiles(hdr)
    /\ Coalesces(hdr)
    /\ WordAligned(hdr)
    /\ HeldTyped
    /\ HeldBlocksUsed
    /\ halt \in Halts

\* kheap_init's single block satisfies the inductive invariant.
LEMMA InitInv == Init => HeapInv
PROOF
  <1> USE HeapAssumption DEF HDR, NULL, ALLIGNMENT, MemBlock
  <1> SUFFICES ASSUME Init PROVE HeapInv
    OBVIOUS
  <1>1. /\ DOMAIN hdr = {HeapStart}
        /\ hdr[HeapStart] = [used |-> FALSE, prev |-> 0, next |-> 0,
                             size |-> HeapEnd - HeapStart - 16]
        /\ held = {} /\ halt = "no"
    BY DEF Init
  <1>2. Typed(hdr)
    <2>1. hdr[HeapStart] \in Header
      BY <1>1 DEF Header
    <2>2. hdr \in [DOMAIN hdr -> Header]
      BY <1>1, <2>1 DEF Init
    <2> QED BY <2>2, <1>1 DEF Typed
  <1>3. End(hdr, HeapStart) = HeapEnd
    BY <1>1 DEF End
  <1>4. Tiles(hdr)
    BY <1>1, <1>3 DEF Tiles, LinksOK
  <1>5. Coalesces(hdr) /\ WordAligned(hdr)
    BY <1>1 DEF Coalesces, WordAligned
  <1>6. HeldTyped /\ HeldBlocksUsed /\ halt \in Halts
    BY <1>1 DEF HeldTyped, HeldBlocksUsed, Blocks, Halts
  <1> QED BY <1>2, <1>4, <1>5, <1>6 DEF HeapInv

\* With word-sized requests kmalloc takes a free block as it is: no realigning.
LEMMA KmallocTakes ==
    ASSUME WordSized, HeapInv, NEW size \in Sizes, Kmalloc(size)
    PROVE  \E b \in Blocks :
             /\ ~hdr[b].used /\ hdr[b].size > size
             /\ hdr' = TakeBlock(hdr, b, size)
             /\ held' = held \cup
                   {[block |-> b, ptr |-> b + HDR, size |-> size]}
             /\ UNCHANGED halt
PROOF
  <1> USE HeapAssumption
  <1>1. PICK b \in FirstFit(hdr, size) : \E r \in Placements(hdr, b, size) :
         /\ hdr' = r.map
         /\ held' = held \cup
                {[block |-> r.block, ptr |-> r.block + HDR, size |-> size]}
    BY DEF Kmalloc
  <1>2. b \in Blocks /\ Fits(hdr, b, size) /\ b % 4 = 0 /\ b \in Nat
    BY <1>1 DEF FirstFit, Blocks, HeapInv, WordAligned, ALLIGNMENT, Typed
  <1>3. ~ Misaligned(b)
    BY <1>2 DEF Misaligned, HDR, ALLIGNMENT
  <1>4. Placements(hdr, b, size) = {[block |-> b, map |-> TakeBlock(hdr, b, size)]}
    BY <1>3 DEF Placements
  <1>5. ~hdr[b].used /\ hdr[b].size > size
    BY <1>2, <1>3 DEF Fits
  <1>6. hdr' = TakeBlock(hdr, b, size)
        /\ held' = held \cup {[block |-> b, ptr |-> b + HDR, size |-> size]}
    BY <1>1, <1>4
  <1> QED BY <1>2, <1>5, <1>6 DEF Kmalloc

\* kmalloc and kfree preserve the inductive invariant, as long as requests are
\* whole words.
LEMMA StepInv == ASSUME WordSized, HeapInv, [Next]_vars PROVE HeapInv'
PROOF
  <1> USE HeapAssumption
  <1>i. /\ Typed(hdr) /\ Tiles(hdr) /\ Coalesces(hdr) /\ WordAligned(hdr)
        /\ HeldTyped /\ HeldBlocksUsed /\ halt \in Halts
    BY DEF HeapInv
  <1>h. /\ \A a \in held : /\ a.block \in DOMAIN hdr
                           /\ hdr[a.block].used
                           /\ a.size <= hdr[a.block].size
        /\ \A a1, a2 \in held : a1.block = a2.block => a1 = a2
        /\ \A b \in DOMAIN hdr : hdr[b].used => \E a \in held : a.block = b
    BY <1>i DEF HeldBlocksUsed, Blocks
  <1>1. CASE UNCHANGED vars
    BY <1>1 DEF vars, HeapInv, HeldTyped, HeldBlocksUsed, Blocks
  <1>2. ASSUME NEW size \in Sizes, Kmalloc(size) PROVE HeapInv'
    <2>0. size \in Nat /\ size % 4 = 0
      BY DEF WordSized, ALLIGNMENT
    <2>1. PICK b \in DOMAIN hdr :
             /\ ~hdr[b].used /\ hdr[b].size > size
             /\ hdr' = TakeBlock(hdr, b, size)
             /\ held' = held \cup
                   {[block |-> b, ptr |-> b + HDR, size |-> size]}
             /\ UNCHANGED halt
      BY <1>2, KmallocTakes DEF Blocks
    <2>2. Typed(hdr') /\ Tiles(hdr')
      BY <1>i, <2>0, <2>1, TakeKeepsTiles
    <2>3. /\ b \in DOMAIN hdr' /\ hdr'[b].used /\ size <= hdr'[b].size
          /\ SameUsed(hdr, hdr', b) /\ Coalesces(hdr')
      BY <1>i, <2>0, <2>1, TakeUsed
    <2>4. WordAligned(hdr')
      BY <1>i, <2>0, <2>1, TakeAligned
    <2>5. HeldTyped'
      <3>1. b \in Nat
        BY <1>i DEF Typed
      <3>2. SUFFICES ASSUME NEW a \in held'
                     PROVE  /\ a \in [block : Nat, ptr : Nat, size : Nat]
                            /\ a.ptr = a.block + HDR
        BY DEF HeldTyped
      <3> QED BY <1>i, <2>0, <2>1, <3>1, <3>2 DEF HeldTyped, HDR
    <2>6. HeldBlocksUsed'
      <3>1. \A a \in held : a.block # b
        BY <1>h, <2>1
      <3>2. \A a \in held' : /\ a.block \in DOMAIN hdr'
                             /\ hdr'[a.block].used
                             /\ a.size <= hdr'[a.block].size
        BY <1>h, <2>1, <2>3, <3>1 DEF SameUsed
      <3>3. \A a1, a2 \in held' : a1.block = a2.block => a1 = a2
        BY <1>h, <2>1, <3>1
      <3>4. \A c \in DOMAIN hdr' : hdr'[c].used => \E a \in held' : a.block = c
        <4>1. SUFFICES ASSUME NEW c \in DOMAIN hdr', hdr'[c].used
                       PROVE  \E a \in held' : a.block = c
          OBVIOUS
        <4>2. CASE c = b
          <5>1. [block |-> b, ptr |-> b + HDR, size |-> size] \in held'
            BY <2>1
          <5> QED BY <5>1, <4>2
        <4>3. CASE c # b
          <5>1. c \in DOMAIN hdr /\ hdr[c].used
            BY <4>1, <4>3, <2>3 DEF SameUsed
          <5> QED BY <5>1, <1>h, <2>1
        <4> QED BY <4>2, <4>3
      <3> QED BY <3>2, <3>3, <3>4 DEF HeldBlocksUsed, Blocks
    <2> QED BY <1>i, <2>1, <2>2, <2>3, <2>4, <2>5, <2>6 DEF HeapInv
  <1>3. ASSUME NEW size \in Sizes, KmallocFails(size) PROVE HeapInv'
    BY <1>3, <1>i DEF KmallocFails, HeapInv, HeldTyped, HeldBlocksUsed, Blocks, Halts
  <1>4. ASSUME NEW x \in held, Kfree(x) PROVE HeapInv'
    <2>1. /\ hdr' = FreeBlock(hdr, x.block) /\ held' = held \ {x} /\ UNCHANGED halt
          /\ x.block \in DOMAIN hdr /\ hdr[x.block].used
      BY <1>4, <1>h DEF Kfree
    <2>2. /\ Typed(hdr') /\ Tiles(hdr') /\ Coalesces(hdr')
          /\ SameUsed(hdr', hdr, x.block)
      BY <1>i, <2>1, FreeFacts
    <2>3. WordAligned(hdr')
      BY <1>i, <2>1, FreeAligned
    <2>4. HeldTyped'
      BY <1>i, <2>1 DEF HeldTyped
    <2>5. HeldBlocksUsed'
      <3>1. \A a \in held' : a \in held /\ a.block # x.block
        BY <1>h, <2>1
      <3>2. \A a \in held' : /\ a.block \in DOMAIN hdr'
                             /\ hdr'[a.block].used
                             /\ a.size <= hdr'[a.block].size
        BY <1>h, <2>2, <3>1 DEF SameUsed
      <3>3. \A a1, a2 \in held' : a1.block = a2.block => a1 = a2
        BY <1>h, <3>1
      <3>4. \A c \in DOMAIN hdr' : hdr'[c].used => \E a \in held' : a.block = c
        BY <1>h, <2>1, <2>2 DEF SameUsed
      <3> QED BY <3>2, <3>3, <3>4 DEF HeldBlocksUsed, Blocks
    <2> QED BY <1>i, <2>1, <2>2, <2>3, <2>4, <2>5 DEF HeapInv
  <1> QED BY <1>1, <1>2, <1>3, <1>4 DEF Next

-----------------------------------------------------------------------------
\* kmalloc and kfree (heap.c) keep the inductive invariant for every heap range
\* and every set of word-sized requests.
THEOREM HeapInvariant == ASSUME WordSized PROVE Spec => []HeapInv
PROOF
  <1>1. HeapInv /\ [Next]_vars => HeapInv'
    BY StepInv
  <1> QED BY <1>1, InitInv, PTL DEF Spec

\* Headers, links and what callers hold stay well typed (heap.h, struct mem_block).
THEOREM TypeCorrect == ASSUME WordSized PROVE Spec => []TypeOK
PROOF
  <1>1. HeapInv => TypeOK
    <2> SUFFICES ASSUME HeapInv PROVE TypeOK
      OBVIOUS
    <2>1. hdr \in [Blocks -> Header] /\ Blocks \subseteq HeapStart..HeapEnd
      BY DEF HeapInv, Typed, Blocks
    <2>2. \A a \in held : a.block \in Nat /\ a.ptr \in Nat /\ a.size \in Nat
      BY DEF HeapInv, HeldTyped
    <2> QED BY <2>1, <2>2 DEF HeapInv, TypeOK
  <1> QED BY <1>1, HeapInvariant, PTL

\* The blocks tile the heap through every split of kmalloc and merge of kfree.
THEOREM TilingTheorem == ASSUME WordSized PROVE Spec => []BlocksTile
PROOF
  <1>1. HeapInv => BlocksTile
    BY DEF HeapInv, BlocksTile
  <1> QED BY <1>1, HeapInvariant, PTL

\* kfree leaves no two free blocks side by side.
THEOREM CoalescingTheorem == ASSUME WordSized PROVE Spec => []NoFreeNeighbours
PROOF
  <1>1. HeapInv => NoFreeNeighbours
    BY DEF HeapInv, NoFreeNeighbours
  <1> QED BY <1>1, HeapInvariant, PTL

\* The used blocks are exactly the ones held, each by one caller.
THEOREM OwnershipTheorem == ASSUME WordSized PROVE Spec => []HeldBlocksUsed
PROOF
  <1>1. HeapInv => HeldBlocksUsed
    BY DEF HeapInv
  <1> QED BY <1>1, HeapInvariant, PTL

\* When everything has been given back to kfree the heap is as kheap_init left
\* it: with no block used, coalescing leaves no block with a successor.
LEMMA RestoredFromInv == HeapInv => AllFreedRestoresHeap
PROOF
  <1> USE HeapAssumption DEF NULL, HDR
  <1>1. SUFFICES ASSUME HeapInv, held = {}
                 PROVE  Blocks = {HeapStart}
                        /\ hdr[HeapStart].size = HeapEnd - HeapStart - HDR
    BY DEF AllFreedRestoresHeap
  <1>2. Typed(hdr) /\ Tiles(hdr)
    BY <1>1 DEF HeapInv
  <1>3. \A b \in DOMAIN hdr : ~hdr[b].used
    BY <1>1 DEF HeapInv, HeldBlocksUsed, Blocks
  <1>4. \A b \in DOMAIN hdr : hdr[b].next = 0
    <2>1. SUFFICES ASSUME NEW b \in DOMAIN hdr, hdr[b].next # 0 PROVE FALSE
      OBVIOUS
    <2>2. hdr[b].next \in DOMAIN hdr
      BY <2>1, <1>2, TileFacts
    <2>3. hdr[hdr[b].next].used
      BY <1>1, <1>3, <2>1 DEF HeapInv, Coalesces
    <2> QED BY <2>2, <2>3, <1>3
  <1>5. \A b \in DOMAIN hdr : /\ b \in Nat /\ b >= HeapStart /\ hdr[b].size \in Nat
                              /\ b + 16 + hdr[b].size = HeapEnd
    BY <1>2, <1>4, TileFacts DEF End
  <1>6. HeapStart \in DOMAIN hdr
    BY <1>2 DEF Tiles
  <1>7. \A b \in DOMAIN hdr : b = HeapStart
    <2>1. SUFFICES ASSUME NEW b \in DOMAIN hdr, HeapStart < b PROVE FALSE
      BY <1>5
    <2>2. End(hdr, HeapStart) <= b
      BY <2>1, <1>2, <1>6 DEF Tiles
    <2> QED BY <2>1, <2>2, <1>5, <1>6 DEF End
  <1>8. DOMAIN hdr = {HeapStart}
    BY ONLY <1>6, <1>7
  <1>9. hdr[HeapStart].size = HeapEnd - HeapStart - HDR
    <2>1. /\ HeapStart \in Nat /\ hdr[HeapStart].size \in Nat
          /\ HeapStart + 16 + hdr[HeapStart].size = HeapEnd
      BY ONLY <1>5, <1>6, HeapAssumption
    <2> QED BY ONLY <2>1 DEF HDR
  <1> QED BY ONLY <1>8, <1>9 DEF Blocks

\* After any calls of kmalloc and kfree that give everything back, the heap is one
\* free block again.
THEOREM RestorationTheorem == ASSUME WordSized PROVE Spec => []AllFreedRestoresHeap
PROOF
  <1> QED BY RestoredFromInv, HeapInvariant, PTL

\* No two callers hold the same address.
PointersDiffer == \A a, c \in held : a # c => a.ptr # c.ptr

\* The memory of every caller is in the heap and apart from that of the others.
LEMMA ApartFromInv == HeapInv => RegionsApart /\ PointersDiffer
PROOF
  <1> USE HeapAssumption DEF HDR
  <1> SUFFICES ASSUME HeapInv PROVE RegionsApart /\ PointersDiffer
    OBVIOUS
  <1>1. \A a \in held :
          /\ a.block \in DOMAIN hdr /\ a.block \in Nat /\ a.size \in Nat
          /\ hdr[a.block].size \in Nat /\ a.size <= hdr[a.block].size
          /\ a.ptr = a.block + 16 /\ a.block >= HeapStart
          /\ a.block + 16 + hdr[a.block].size <= HeapEnd
    BY TileFacts DEF HeapInv, HeldTyped, HeldBlocksUsed, Blocks, End
  <1>2. ASSUME NEW a \in held, NEW c \in held, a # c
        PROVE  a.block # c.block
    BY <1>2 DEF HeapInv, HeldBlocksUsed
  <1>3. \A x, y \in DOMAIN hdr : x < y => x + 16 + hdr[x].size <= y
    BY DEF HeapInv, Tiles, End
  <1>4. ASSUME NEW a \in held, NEW c \in held, a # c
        PROVE  /\ a.ptr # c.ptr
               /\ a.ptr + a.size <= c.ptr \/ c.ptr + c.size <= a.ptr
    <2>1. a.block < c.block \/ c.block < a.block
      BY <1>1, <1>2, <1>4
    <2>2. CASE a.block < c.block
      BY <2>2, <1>1, <1>3
    <2>3. CASE c.block < a.block
      BY <2>3, <1>1, <1>3
    <2> QED BY <2>1, <2>2, <2>3
  <1> QED BY <1>1, <1>4 DEF RegionsApart, PointersDiffer

\* No two callers of kmalloc share a byte.
THEOREM SeparationTheorem == ASSUME WordSized PROVE Spec => []RegionsApart
PROOF
  <1>1. HeapInv => RegionsApart
    BY ApartFromInv
  <1> QED BY <1>1, HeapInvariant, PTL

-----------------------------------------------------------------------------
\* The regions callers hold, as the abstract allocator sees them.
Regions == {[ptr |-> a.ptr, size |-> a.size] : a \in held}

\* Every step of kmalloc or kfree is a step of the abstract allocator, or none.
LEMMA StepImplements ==
    ASSUME WordSized, HeapInv, HeapInv', [Next]_vars
    PROVE  [A!Next]_(A!vars)
PROOF
  <1> USE HeapAssumption
  <1>1. CASE UNCHANGED vars
    BY <1>1 DEF vars, A!vars
  <1>2. ASSUME NEW size \in Sizes, Kmalloc(size) PROVE A!Next
    <2>1. PICK b \in DOMAIN hdr :
             /\ held' = held \cup
                   {[block |-> b, ptr |-> b + HDR, size |-> size]}
             /\ ~hdr[b].used /\ UNCHANGED halt
      BY <1>2, KmallocTakes DEF Blocks
    <2>2. PICK x : x = [block |-> b, ptr |-> b + HDR, size |-> size]
      OBVIOUS
    <2>3. PICK r : r = [ptr |-> b + HDR, size |-> size]
      OBVIOUS
    <2>4. b \in Nat /\ size \in Nat
      BY DEF HeapInv, Typed
    <2>5. x \in held' /\ x.ptr = r.ptr /\ x.size = r.size /\ x.block = b
          /\ r.ptr = b + HDR /\ r.size = size
      BY <2>1, <2>2, <2>3
    <2>6. x \notin held
      BY <2>1, <2>5 DEF HeapInv, HeldBlocksUsed
    <2>7. /\ r.ptr >= HeapStart /\ r.ptr + r.size <= HeapEnd
          /\ \A c \in held : /\ c.ptr # r.ptr
                             /\ \/ r.ptr + r.size <= c.ptr
                                \/ c.ptr + c.size <= r.ptr
      <3>1. RegionsApart' /\ PointersDiffer'
        BY ApartFromInv, PTL
      <3>2. \A c \in held : c \in held' /\ c # x
        BY <2>1, <2>6
      <3> QED BY <3>1, <3>2, <2>5 DEF RegionsApart, PointersDiffer
    <2>8. Regions' = Regions \cup {r}
      BY <2>1, <2>2, <2>3 DEF Regions
    <2>9. r \notin Regions
      BY <2>7 DEF Regions
    <2>10. r \in A!Region
      <3>1. r.ptr \in HeapStart..HeapEnd /\ r.size \in 0..(HeapEnd - HeapStart)
        BY <2>4, <2>5, <2>7 DEF HDR
      <3> QED BY <3>1, <2>3, <2>5 DEF A!Region
    <2>11. \A s \in Regions : r.ptr # s.ptr /\ A!Apart(r, s)
      BY <2>7 DEF Regions, A!Apart
    <2>12. halt = "no" /\ halt' = "no"
      BY <1>2 DEF Kmalloc
    <2> QED BY <2>7, <2>8, <2>9, <2>10, <2>11, <2>12
            DEF A!Next, A!Allocate, Regions
  <1>3. ASSUME NEW size \in Sizes, KmallocFails(size) PROVE A!Next
    BY <1>3 DEF KmallocFails, A!Next, A!Stop
  <1>4. ASSUME NEW x \in held, Kfree(x) PROVE A!Next
    <2>1. held' = held \ {x} /\ halt = "no" /\ halt' = "no"
      BY <1>4 DEF Kfree
    <2>2. PICK r : r = [ptr |-> x.ptr, size |-> x.size]
      OBVIOUS
    <2>3. r \in Regions
      BY <2>2 DEF Regions
    <2>4. \A c \in held : c # x => c.ptr # x.ptr
      BY ApartFromInv DEF PointersDiffer
    <2>5. Regions' = Regions \ {r}
      <3>1. \A c \in held : c # x => [ptr |-> c.ptr, size |-> c.size] # r
        BY <2>2, <2>4
      <3> QED BY <3>1, <2>1, <2>2 DEF Regions
    <2> QED BY <2>1, <2>3, <2>5 DEF A!Next, A!Release, Regions
  <1> QED BY <1>1, <1>2, <1>3, <1>4 DEF Next

\* kmalloc and kfree implement the abstract allocator: a caller sees regions of
\* the heap handed out and taken back, never two that overlap.
THEOREM Implementation == ASSUME WordSized PROVE Spec => ImplementsAllocator
PROOF
  <1>1. Init => A!Init
    BY DEF Init, A!Init
  <1>2. HeapInv /\ HeapInv' /\ [Next]_vars => [A!Next]_(A!vars)
    BY StepImplements
  <1> QED BY <1>1, <1>2, HeapInvariant, PTL DEF Spec, ImplementsAllocator, A!Spec
=============================================================================

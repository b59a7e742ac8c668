---------------------------- MODULE RootFsProofs -----------------------------
(***************************************************************************)
(* Proofs about lookups and transfers, for any directories, files,         *)
(* positions, and any size of sectors and blocks.                          *)
(***************************************************************************)
EXTENDS RootFs, SequenceTheorems, TLAPS

-----------------------------------------------------------------------------
(* Arithmetic.                                                             *)

\* Offset a of sector x, counted from the start.
Byte(x, a) == x * SectorSize + a

\* A place determines its sector and its offset.
LEMMA PlaceUnique ==
    \A x, y, a, b \in Nat : a < SectorSize /\ b < SectorSize /\ Byte(x, a) = Byte(y, b) =>
        x = y /\ a = b
PROOF
  <1>0. SUFFICES ASSUME NEW s \in Nat \ {0}, s = SectorSize,
                        NEW x \in Nat, NEW y \in Nat, NEW a \in Nat, NEW b \in Nat,
                        a < s, b < s, x * s + a = y * s + b
                 PROVE  x = y /\ a = b
    BY RootFsAssumption DEF Byte
  <1>1. x * s \in Nat /\ y * s \in Nat
    BY SMT
  <1>2. ASSUME NEW u \in Nat, NEW v \in Nat, u < v PROVE u * s + s <= v * s
    <2>1. (v - u) \in Nat /\ v - u >= 1
      BY <1>2
    <2>2. (v - u) * s >= s
      BY <2>1, SMT
    <2>3. (v - u) * s = v * s - u * s
      BY SMT
    <2>4. u * s \in Nat /\ v * s \in Nat
      BY SMT
    <2> QED BY <2>2, <2>3, <2>4
  <1>3. ~ (x < y)
    BY <1>0, <1>1, <1>2
  <1>4. ~ (y < x)
    BY <1>0, <1>1, <1>2
  <1>5. x = y
    BY <1>3, <1>4
  <1> QED BY <1>0, <1>1, <1>5

\* A sector of a block before the last comes before all of the next block.
LEMMA Before ==
    ASSUME NEW s \in Nat \ {0}, NEW x \in Nat, NEW y \in Nat, NEW r \in Nat, x < y, r < s
    PROVE  /\ x * s \in Nat /\ y * s \in Nat /\ x * s + r < y * s
           /\ (x + 1) * s = x * s + s
PROOF
  <1>1. x * s \in Nat /\ y * s \in Nat
    BY SMT
  <1>2. (y - x) * s >= s
    <2>1. (y - x) \in Nat /\ y - x >= 1
      OBVIOUS
    <2> QED BY <2>1, SMT
  <1>3. (y - x) * s = y * s - x * s
    BY SMT
  <1>4. (x + 1) * s = x * s + s
    BY SMT
  <1> QED BY <1>1, <1>2, <1>3, <1>4

-----------------------------------------------------------------------------
(* ext2_lookup.                                                            *)

\* No entry of the name was passed before offset a of sector s, and no more bytes
\* were counted than lie before it.
PassedBy(s, a) ==
    /\ \A e \in dir.ents : L!LookedAt(e) /\ (e.sec < s \/ (e.sec = s /\ e.off < a)) =>
         e.name # filename
    /\ lsize <= s * SectorSize + a

\* In a directory whose sectors all begin with an entry, the walk goes from one
\* entry in use to the next.
WalkInv ==
    /\ lpc = "block" => PassedBy(li * Spb, 0)
    /\ lpc = "sector" => PassedBy(L!Sec, 0)
    /\ lpc = "entry" => /\ PassedBy(L!Sec, lat)
                        /\ \E e \in dir.ents : e.live /\ e.sec = L!Sec /\ e.off = lat
    /\ lpc = "returned" =>
         /\ lbufs = {}
         /\ IF found.code = 0
            THEN \E e \in dir.ents : /\ e.live /\ e.inode # 0
                                     /\ e.name = filename /\ e.inode = found.inode
            ELSE ~L!Refused(dir, filename) =>
                   \A e \in dir.ents : L!LookedAt(e) => e.name # filename

LookupInv ==
    /\ lpc \in {"idle", "block", "sector", "entry", "returned"}
    /\ OnDisk(dir) /\ {li, lk, lat, lsize} \subseteq Nat
    /\ lpc = "idle" => li = 0 /\ lsize = 0
    /\ lpc = "block" => li <= dir.blocks
    /\ lpc \in {"sector", "entry"} => li < dir.blocks /\ lk <= Spb
    /\ lpc = "entry" => lk < Spb
    /\ lpc # "returned" =>
         lbufs = (IF lpc = "entry" THEN {L!Sec} ELSE {}) /\ found = L!Nothing
    /\ lbufs \subseteq {L!Sec} /\ (found.code = 0 => lbufs = {})
    /\ L!Aligned => WalkInv

\* What is at the place of an entry in use is that entry.
LEMMA EntryThere ==
    ASSUME OnDisk(dir), NEW e \in dir.ents, e.live
    PROVE  L!EntryAt(e.sec, e.off) = e
PROOF
  <1>1. \A f \in dir.ents : f.sec = e.sec /\ f.off = e.off => f = e
    BY DEF OnDisk
  <1>2. L!EntryAt(e.sec, e.off) = CHOOSE f \in dir.ents : f.sec = e.sec /\ f.off = e.off
    BY DEF L!EntryAt
  <1> QED BY <1>1, <1>2

\* From an entry in use that ends inside its sector, the next one begins there, and
\* none lies between.
LEMMA EntryFollows ==
    ASSUME OnDisk(dir), NEW e \in dir.ents, e.live, e.off + e.size < SectorSize
    PROVE  /\ \E f \in dir.ents : f.live /\ f.sec = e.sec /\ f.off = e.off + e.size
           /\ \A f \in dir.ents : f.live /\ f.sec = e.sec /\ f.off < e.off + e.size =>
                f = e \/ f.off < e.off
PROOF
  <1>1. /\ e.sec \in Nat /\ e.off \in Nat /\ e.size \in Nat /\ e.size > 0
        /\ SectorSize \in Nat \ {0} /\ Spb \in Nat \ {0} /\ dir.blocks \in Nat
    BY RootFsAssumption DEF OnDisk
  <1>2. e.sec * SectorSize \in Nat
    BY <1>1, SMT
  <1>0. PICK z \in Nat : z = e.off + e.size /\ z < SectorSize
    BY <1>1
  <1>3. Start(e) = e.sec * SectorSize + e.off /\ End(e) = e.sec * SectorSize + z
    BY <1>0, <1>1, <1>2 DEF Start, End
  <1>4. ~ \E n \in 1..dir.blocks : End(e) = (n * Spb) * SectorSize
    <2>1. SUFFICES ASSUME NEW n \in 1..dir.blocks, End(e) = (n * Spb) * SectorSize
                   PROVE  FALSE
      OBVIOUS
    <2>2. n * Spb \in Nat
      BY <1>1, SMT
    <2> DEFINE m == n * Spb
    <2>3. m \in Nat /\ Byte(e.sec, z) = Byte(m, 0)
      <3>1. (n * Spb) * SectorSize \in Nat
        BY <1>1, <2>2, SMT
      <3> QED BY <1>3, <2>1, <2>2, <3>1 DEF Byte
    <2> HIDE DEF m
    <2>4. 0 \in Nat /\ 0 < SectorSize
      BY <1>1
    <2>5. z = 0
      BY <1>0, <1>1, <2>3, <2>4, PlaceUnique
    <2> QED BY <1>0, <1>1, <2>5
  <1>5. PICK f \in dir.ents : f.live /\ Start(f) = End(e)
    BY <1>4 DEF OnDisk
  <1>6. f.sec \in Nat /\ f.off \in Nat /\ f.off < SectorSize
    BY DEF OnDisk
  <1>7. f.sec = e.sec /\ f.off = e.off + e.size
    <2>1. Byte(f.sec, f.off) = Byte(e.sec, z)
      BY <1>3, <1>5 DEF Start, Byte
    <2>2. f.sec = e.sec /\ f.off = z
      BY <1>0, <1>1, <1>6, <2>1, PlaceUnique
    <2> QED BY <1>0, <2>2
  <1>8. ASSUME NEW g \in dir.ents, g.live, g.sec = e.sec, g.off < e.off + e.size,
               g # e, ~(g.off < e.off)
        PROVE  FALSE
    <2>1. g.off \in Nat /\ g.size \in Nat /\ g.size > 0
      BY <1>8 DEF OnDisk
    <2>2. End(e) <= Start(g) \/ End(g) <= Start(e)
      BY <1>8 DEF OnDisk
    <2>3. Start(g) = e.sec * SectorSize + g.off
          /\ End(g) = e.sec * SectorSize + (g.off + g.size)
      BY <1>2, <1>8, <2>1 DEF Start, End
    <2> QED BY <1>0, <1>1, <1>2, <1>3, <1>8, <2>1, <2>2, <2>3
  <1> QED BY <1>5, <1>7, <1>8

\* The last entry in use of a sector: none begins behind it there.
LEMMA EntryLast ==
    ASSUME OnDisk(dir), NEW e \in dir.ents, e.live, ~(e.off + e.size < SectorSize),
           NEW f \in dir.ents, f.live, f.sec = e.sec
    PROVE  f = e \/ f.off < e.off
PROOF
  <1> USE RootFsAssumption
  <1>1. SUFFICES ASSUME f # e, ~(f.off < e.off) PROVE FALSE
    OBVIOUS
  <1>2. /\ e.sec \in Nat /\ e.off \in Nat /\ e.size \in Nat /\ e.size > 0
        /\ f.off \in Nat /\ f.size \in Nat /\ f.size > 0 /\ f.off < SectorSize
        /\ SectorSize \in Nat
    BY DEF OnDisk
  <1>3. e.sec * SectorSize \in Nat
    BY <1>2, SMT
  <1>4. End(e) <= Start(f) \/ End(f) <= Start(e)
    BY <1>1 DEF OnDisk
  <1>5. /\ Start(e) = e.sec * SectorSize + e.off
        /\ End(e) = e.sec * SectorSize + (e.off + e.size)
        /\ Start(f) = e.sec * SectorSize + f.off
        /\ End(f) = e.sec * SectorSize + (f.off + f.size)
    BY <1>2, <1>3 DEF Start, End
  <1> QED BY <1>1, <1>2, <1>3, <1>4, <1>5

\* A call starts at the first entry, or fails at once.
LEMMA LookupCallInv ==
    ASSUME LookupInv, NEW d \in Directories, NEW name, L!Lookup(d, name)
    PROVE  LookupInv'
PROOF
  <1> USE RootFsAssumption
  <1>1. /\ lpc = "idle" /\ dir' = d /\ filename' = name
        /\ lpc' = "block" \/ (lpc' = "returned" /\ L!Refused(d, name))
        /\ UNCHANGED <<li, lk, lat, lsize, lbufs, found>>
    BY DEF L!Lookup
  <1>2. OnDisk(d) /\ OnDisk(dir)' /\ d.blocks \in Nat
    BY <1>1 DEF OnDisk, Start, End
  <1>3. li = 0 /\ lsize = 0 /\ lbufs = {} /\ found = L!Nothing
    BY <1>1 DEF LookupInv
  <1>4. PassedBy(li * Spb, 0)'
    <2>1. li' * Spb = 0 /\ 0 * SectorSize = 0 /\ lsize' = 0
      BY <1>1, <1>3
    <2>2. \A e \in d.ents : e.sec \in Nat /\ e.off \in Nat
      BY <1>2 DEF OnDisk
    <2>3. \A e \in d.ents : ~(e.sec < 0 \/ (e.sec = 0 /\ e.off < 0))
      BY <2>2
    <2> QED BY <1>1, <2>1, <2>3 DEF PassedBy
  <1>5. L!Nothing.code # 0
    BY DEF L!Nothing
  <1>6. WalkInv'
    BY <1>1, <1>3, <1>4, <1>5 DEF WalkInv
  <1> QED BY <1>1, <1>2, <1>3, <1>5, <1>6 DEF LookupInv

\* The loop over the blocks.
LEMMA BlockLoopInv ==
    ASSUME LookupInv, L!BlockLoop
    PROVE  LookupInv'
PROOF
  <1> USE RootFsAssumption
  <1>1. lpc = "block" /\ UNCHANGED <<dir, filename, li, lat, lsize, lbufs, found>>
    BY DEF L!BlockLoop
  <1>2. /\ OnDisk(dir) /\ OnDisk(dir)' /\ dir.blocks \in Nat /\ dir.blocks <= NDirect
        /\ li \in Nat /\ li <= dir.blocks /\ lk \in Nat /\ lat \in Nat /\ lsize \in Nat
        /\ lbufs = {} /\ found = L!Nothing
    <2>1. OnDisk(dir) /\ lpc = "block"
      BY <1>1 DEF LookupInv
    <2>2. OnDisk(dir)' /\ dir.blocks \in Nat /\ dir.blocks <= NDirect
      BY <1>1, <2>1 DEF OnDisk, Start, End
    <2> QED BY <2>1, <2>2 DEF LookupInv
  <1>3. L!Aligned' = L!Aligned
    BY <1>1 DEF L!Aligned
  <1>4. L!Aligned => PassedBy(li * Spb, 0)
    BY <1>1 DEF LookupInv, WalkInv
  <1>5. L!Nothing.code # 0
    BY DEF L!Nothing
  <1>6. CASE li < NDirect /\ li < dir.blocks /\ lpc' = "sector" /\ lk' = 0
    <2>1. L!Sec' = li * Spb
      <3>1. li * Spb \in Nat
        BY <1>2, SMT
      <3> QED BY <1>1, <1>6, <3>1 DEF L!Sec
    <2>2. L!Aligned => PassedBy(L!Sec, 0)'
      <3>1. SUFFICES ASSUME PassedBy(li * Spb, 0) PROVE PassedBy(L!Sec, 0)'
        BY <1>4
      <3> QED BY <1>1, <2>1, <3>1 DEF PassedBy, L!LookedAt
    <2>3. L!Aligned' => WalkInv'
      BY <1>3, <1>6, <2>2 DEF WalkInv
    <2> QED BY <1>1, <1>2, <1>5, <1>6, <2>3 DEF LookupInv
  <1>7. CASE ~(li < NDirect /\ li < dir.blocks) /\ lpc' = "returned" /\ lk' = lk
    <2>1. li = dir.blocks
      BY <1>2, <1>7
    <2>2. \A e \in dir.ents : e.sec < li * Spb
      BY <1>2, <2>1 DEF OnDisk
    <2>3. L!Aligned => \A e \in dir.ents : L!LookedAt(e) => e.name # filename
      BY <1>4, <2>2 DEF PassedBy
    <2>4. L!Aligned' => WalkInv'
      BY <1>1, <1>2, <1>3, <1>5, <1>7, <2>3 DEF WalkInv, L!LookedAt
    <2> QED BY <1>1, <1>2, <1>5, <1>7, <2>4 DEF LookupInv
  <1> QED BY <1>6, <1>7 DEF L!BlockLoop

\* The loop over the sectors of a block.
LEMMA SectorLoopInv ==
    ASSUME LookupInv, L!SectorLoop
    PROVE  LookupInv'
PROOF
  <1> USE RootFsAssumption
  <1>1. lpc = "sector" /\ UNCHANGED <<dir, filename, lk, lsize, found>>
    BY DEF L!SectorLoop
  <1>2. /\ OnDisk(dir) /\ OnDisk(dir)' /\ dir.blocks \in Nat
        /\ li \in Nat /\ li < dir.blocks /\ lk \in Nat /\ lk <= Spb
        /\ lat \in Nat /\ lsize \in Nat /\ lbufs = {} /\ found = L!Nothing
    <2>1. OnDisk(dir) /\ lpc = "sector"
      BY <1>1 DEF LookupInv
    <2>2. OnDisk(dir)' /\ dir.blocks \in Nat
      BY <1>1, <2>1 DEF OnDisk, Start, End
    <2> QED BY <2>1, <2>2 DEF LookupInv
  <1>3. L!Aligned' = L!Aligned
    BY <1>1 DEF L!Aligned
  <1>4. L!Aligned => PassedBy(L!Sec, 0)
    BY <1>1 DEF LookupInv, WalkInv
  <1>5. L!Nothing.code # 0
    BY DEF L!Nothing
  <1>6. CASE lk < Spb /\ lpc' = "entry" /\ lat' = 0 /\ lbufs' = lbufs \cup {L!Sec} /\ li' = li
    <2>1. L!Sec' = L!Sec
      BY <1>1, <1>6 DEF L!Sec
    <2>2. L!Sec \in Nat /\ L!Sec < dir.blocks * Spb /\ dir.blocks * Spb \in Nat
      BY <1>2, <1>6, Before DEF L!Sec
    <2>3. L!Sec \in 0..(dir.blocks * Spb - 1)
      <3> DEFINE n == dir.blocks * Spb
      <3>1. L!Sec \in Nat /\ L!Sec < n /\ n \in Nat
        BY <2>2
      <3> HIDE DEF n
      <3>2. L!Sec \in 0..(n - 1)
        BY <3>1
      <3> QED BY <3>2 DEF n
    <2>4. L!Aligned => \E e \in dir.ents : e.live /\ e.sec = L!Sec /\ e.off = 0
      BY <2>3 DEF L!Aligned
    <2>5. L!Aligned' => WalkInv'
      <3>1. SUFFICES ASSUME L!Aligned PROVE WalkInv'
        BY <1>3
      <3>2. PassedBy(L!Sec, lat)'
        BY <1>1, <1>4, <1>6, <2>1, <3>1 DEF PassedBy, L!LookedAt
      <3> QED BY <1>1, <1>6, <2>1, <2>4, <3>1, <3>2 DEF WalkInv
    <2> QED BY <1>1, <1>2, <1>5, <1>6, <2>1, <2>5 DEF LookupInv
  <1>7. CASE ~(lk < Spb) /\ lpc' = "block" /\ li' = li + 1 /\ UNCHANGED <<lat, lbufs>>
    <2>1. li' * Spb = L!Sec
      <3>1. (li + 1) * Spb = li * Spb + Spb
        BY <1>2, SMT
      <3>2. lk = Spb
        BY <1>2, <1>7
      <3> QED BY <1>7, <3>1, <3>2 DEF L!Sec
    <2>2. L!Aligned' => WalkInv'
      <3>1. SUFFICES ASSUME L!Aligned PROVE WalkInv'
        BY <1>3
      <3>2. PassedBy(li * Spb, 0)'
        BY <1>1, <1>4, <2>1, <3>1 DEF PassedBy, L!LookedAt
      <3> QED BY <1>7, <3>2 DEF WalkInv
    <2>3. li' \in Nat /\ li' <= dir.blocks
      BY <1>2, <1>7
    <2> QED BY <1>1, <1>2, <1>5, <1>7, <2>2, <2>3 DEF LookupInv
  <1> QED BY <1>6, <1>7 DEF L!SectorLoop

\* What is at an entry: in a directory whose sectors all begin with one, an entry in
\* use at this place.
LEMMA AtEntry ==
    ASSUME LookupInv, lpc = "entry"
    PROVE  /\ OnDisk(dir) /\ dir.blocks \in Nat /\ li \in Nat /\ li < dir.blocks
           /\ lk \in Nat /\ lk < Spb /\ lat \in Nat /\ lsize \in Nat
           /\ lbufs = {L!Sec} /\ found = L!Nothing /\ L!de.size \in Nat
           /\ L!Sec \in Nat /\ L!Sec < dir.blocks * Spb /\ dir.blocks * Spb \in Nat
           /\ L!Aligned => /\ PassedBy(L!Sec, lat) /\ L!de \in dir.ents /\ L!de.live
                           /\ L!de.sec = L!Sec /\ L!de.off = lat
PROOF
  <1> USE RootFsAssumption
  <1>1. /\ OnDisk(dir) /\ dir.blocks \in Nat /\ li \in Nat /\ li < dir.blocks
        /\ lk \in Nat /\ lk < Spb /\ lat \in Nat /\ lsize \in Nat
        /\ lbufs = {L!Sec} /\ found = L!Nothing
    BY DEF LookupInv, OnDisk
  <1>2. L!de.size \in Nat
    <2>1. CASE \E e \in dir.ents : e.sec = L!Sec /\ e.off = lat
      <3>1. L!de \in dir.ents
        BY <2>1 DEF L!de, L!EntryAt
      <3> QED BY <1>1, <3>1 DEF OnDisk
    <2>2. CASE ~ \E e \in dir.ents : e.sec = L!Sec /\ e.off = lat
      BY <2>2 DEF L!de, L!EntryAt, L!Zeros
    <2> QED BY <2>1, <2>2
  <1>3. L!Sec \in Nat /\ L!Sec < dir.blocks * Spb /\ dir.blocks * Spb \in Nat
    BY <1>1, Before DEF L!Sec
  <1>4. ASSUME L!Aligned
        PROVE  /\ PassedBy(L!Sec, lat) /\ L!de \in dir.ents /\ L!de.live
               /\ L!de.sec = L!Sec /\ L!de.off = lat
    <2>1. PassedBy(L!Sec, lat)
      BY <1>4 DEF LookupInv, WalkInv
    <2>2. PICK e \in dir.ents : e.live /\ e.sec = L!Sec /\ e.off = lat
      BY <1>4 DEF LookupInv, WalkInv
    <2>3. L!de = e
      BY <1>1, <2>2, EntryThere DEF L!de
    <2> QED BY <2>1, <2>2, <2>3
  <1> QED BY <1>1, <1>2, <1>3, <1>4

\* The name is found.
LEMMA FoundInv ==
    ASSUME LookupInv, L!Found
    PROVE  LookupInv'
PROOF
  <1> USE RootFsAssumption
  <1>1. /\ lpc = "entry" /\ L!IsMatch /\ lpc' = "returned"
        /\ found' = [code |-> 0, inode |-> L!de.inode] /\ lbufs' = lbufs \ {L!Sec}
        /\ UNCHANGED <<dir, filename, li, lk, lat, lsize>>
    BY DEF L!Found
  <1>2. /\ OnDisk(dir) /\ {li, lk, lat, lsize} \subseteq Nat /\ lbufs = {L!Sec}
        /\ L!Aligned => L!de \in dir.ents /\ L!de.live
    BY <1>1, AtEntry
  <1>3. OnDisk(dir)' /\ L!Aligned' = L!Aligned
    BY <1>1, <1>2 DEF OnDisk, Start, End, L!Aligned
  <1>4. lbufs' = {} /\ found'.code = 0 /\ found'.inode = L!de.inode
    BY <1>1, <1>2
  <1>5. L!de.inode # 0 /\ L!de.name = filename
    BY <1>1 DEF L!IsMatch, L!SKIP_DIR
  <1>6. L!Aligned' => WalkInv'
    BY <1>1, <1>2, <1>3, <1>4, <1>5 DEF WalkInv
  <1> QED BY <1>1, <1>2, <1>3, <1>4, <1>6 DEF LookupInv

\* The next entry.
LEMMA NextEntryInv ==
    ASSUME LookupInv, L!NextEntry
    PROVE  LookupInv'
PROOF
  <1> USE RootFsAssumption
  <1>1. /\ lpc = "entry" /\ L!InSector /\ ~L!IsMatch /\ lsize' = lsize + L!de.size
        /\ UNCHANGED <<dir, filename, li, lk, lbufs, found>>
    BY DEF L!NextEntry
  <1>2. /\ OnDisk(dir) /\ dir.blocks \in Nat /\ li \in Nat /\ li < dir.blocks
        /\ lk \in Nat /\ lk < Spb /\ lat \in Nat /\ lsize \in Nat
        /\ lbufs = {L!Sec} /\ found = L!Nothing /\ L!de.size \in Nat
        /\ L!Sec \in Nat /\ L!Sec < dir.blocks * Spb /\ dir.blocks * Spb \in Nat
        /\ L!Aligned => /\ PassedBy(L!Sec, lat) /\ L!de \in dir.ents /\ L!de.live
                        /\ L!de.sec = L!Sec /\ L!de.off = lat
    BY <1>1, AtEntry
  <1>3. OnDisk(dir)' /\ L!Aligned' = L!Aligned /\ L!Sec' = L!Sec
    BY <1>1, <1>2 DEF OnDisk, Start, End, L!Aligned, L!Sec
  <1>4. L!Nothing.code # 0
    BY DEF L!Nothing
  <1>5. lat + L!de.size < SectorSize
    BY <1>1 DEF L!InSector
  <1>6. PICK sec \in Nat, n \in Nat : sec = L!Sec /\ n = lat + L!de.size
    <2>1. L!Sec \in Nat /\ lat + L!de.size \in Nat
      BY <1>2
    <2> QED BY <2>1, Zenon
  <1>7. ASSUME L!Aligned
        PROVE  /\ ~(lsize' > L!SizeLow)
               /\ lsize' <= sec * SectorSize + n
               /\ \A f \in dir.ents : L!LookedAt(f) /\ (f.sec < sec \/ (f.sec = sec /\ f.off < n)) =>
                    f.name # filename
               /\ \E f \in dir.ents : f.live /\ f.sec = sec /\ f.off = n
    <2>1. PICK e \in dir.ents : e = L!de /\ e.live /\ e.sec = sec /\ e.off = lat /\ e.size \in Nat
      BY <1>2, <1>6, <1>7
    <2>2. /\ \E f \in dir.ents : f.live /\ f.sec = e.sec /\ f.off = e.off + e.size
          /\ \A f \in dir.ents : f.live /\ f.sec = e.sec /\ f.off < e.off + e.size =>
               f = e \/ f.off < e.off
      BY <1>2, <1>5, <2>1, EntryFollows
    <2>3. PassedBy(sec, lat)
      BY <1>2, <1>6, <1>7
    <2>4. sec * SectorSize \in Nat
      BY <1>6, SMT
    <2>5. lsize' <= sec * SectorSize + n
      BY <1>1, <1>2, <1>6, <2>3, <2>4 DEF PassedBy
    <2>6. ~(lsize' > L!SizeLow)
      <3>1. PICK m \in Nat : m = dir.blocks * Spb /\ sec < m
        BY <1>2, <1>6
      <3>2. sec * SectorSize + n < m * SectorSize /\ m * SectorSize \in Nat
        BY <1>5, <1>6, <3>1, Before
      <3>3. L!SizeLow = m * SectorSize
        BY <3>1 DEF L!SizeLow
      <3>4. lsize' \in Nat
        BY <1>1, <1>2
      <3> QED BY <2>4, <2>5, <3>2, <3>3, <3>4
    <2>7. ASSUME NEW f \in dir.ents, L!LookedAt(f), f.sec < sec \/ (f.sec = sec /\ f.off < n)
          PROVE  f.name # filename
      <3>1. f.live /\ f.inode # 0
        BY <2>7 DEF L!LookedAt, L!SKIP_DIR
      <3>2. f = e \/ f.sec < sec \/ (f.sec = sec /\ f.off < lat)
        BY <1>6, <2>1, <2>2, <2>7, <3>1
      <3>3. CASE f = e
        BY <1>1, <2>1, <3>1, <3>3 DEF L!IsMatch, L!SKIP_DIR
      <3> QED BY <2>3, <2>7, <3>2, <3>3 DEF PassedBy
    <2> QED BY <1>6, <2>1, <2>2, <2>5, <2>6, <2>7
  <1>8. CASE lsize' > L!SizeLow /\ lpc' = "returned" /\ lat' = lat
    <2>1. ~L!Aligned
      BY <1>7, <1>8
    <2>2. lsize' \in Nat
      BY <1>1, <1>2
    <2> QED BY <1>1, <1>2, <1>3, <1>4, <1>8, <2>1, <2>2 DEF LookupInv
  <1>9. CASE lat' = lat + L!de.size /\ lpc' = lpc
    <2>1. lsize' \in Nat /\ lat' \in Nat /\ lat' = n
      BY <1>1, <1>2, <1>6, <1>9
    <2>2. L!Aligned' => WalkInv'
      <3>1. SUFFICES ASSUME L!Aligned PROVE WalkInv'
        BY <1>3
      <3>2. PassedBy(L!Sec, lat)'
        BY <1>1, <1>3, <1>6, <1>7, <2>1, <3>1 DEF PassedBy, L!LookedAt
      <3>3. \E f \in dir'.ents : f.live /\ f.sec = L!Sec' /\ f.off = lat'
        BY <1>1, <1>3, <1>6, <1>7, <2>1, <3>1
      <3> QED BY <1>1, <1>9, <3>2, <3>3 DEF WalkInv
    <2> QED BY <1>1, <1>2, <1>3, <1>4, <1>9, <2>1, <2>2 DEF LookupInv
  <1> QED BY <1>8, <1>9 DEF L!NextEntry

\* The last entry of a sector ends the loop over its entries.
LEMMA SectorEndsInv ==
    ASSUME LookupInv, L!SectorEnds
    PROVE  LookupInv'
PROOF
  <1> USE RootFsAssumption
  <1>1. /\ lpc = "entry" /\ ~L!InSector /\ lpc' = "sector" /\ lk' = lk + 1
        /\ lbufs' = lbufs \ {L!Sec}
        /\ UNCHANGED <<dir, filename, li, lat, lsize, found>>
    BY DEF L!SectorEnds
  <1>2. /\ OnDisk(dir) /\ dir.blocks \in Nat /\ li \in Nat /\ li < dir.blocks
        /\ lk \in Nat /\ lk < Spb /\ lat \in Nat /\ lsize \in Nat
        /\ lbufs = {L!Sec} /\ found = L!Nothing /\ L!Sec \in Nat
        /\ L!Aligned => /\ PassedBy(L!Sec, lat) /\ L!de \in dir.ents /\ L!de.live
                        /\ L!de.sec = L!Sec /\ L!de.off = lat
    BY <1>1, AtEntry
  <1>3. OnDisk(dir)' /\ L!Aligned' = L!Aligned
    BY <1>1, <1>2 DEF OnDisk, Start, End, L!Aligned
  <1>4. L!Nothing.code # 0 /\ lbufs' = {}
    BY <1>1, <1>2 DEF L!Nothing
  <1>5. PICK sec \in Nat : sec = L!Sec /\ L!Sec' = sec + 1
    <2>1. li * Spb \in Nat
      BY <1>2, SMT
    <2> QED BY <1>1, <1>2, <2>1 DEF L!Sec
  <1>6. ASSUME L!Aligned PROVE PassedBy(sec + 1, 0)
    <2>1. PICK e \in dir.ents : e = L!de /\ e.live /\ e.sec = sec /\ e.off = lat
      BY <1>2, <1>5, <1>6
    <2>2. ~(e.off + e.size < SectorSize)
      BY <1>1, <2>1 DEF L!InSector
    <2>3. PassedBy(sec, lat)
      BY <1>2, <1>5, <1>6
    <2>4. ASSUME NEW f \in dir.ents, L!LookedAt(f), f.sec < sec + 1 \/ (f.sec = sec + 1 /\ f.off < 0)
          PROVE  f.name # filename
      <3>1. f.live /\ f.off + f.size < SectorSize
        BY <2>4 DEF L!LookedAt
      <3>2. f.sec \in Nat /\ f.off \in Nat
        BY <1>2 DEF OnDisk
      <3>3. f.sec < sec \/ f.sec = sec
        BY <1>5, <2>4, <3>2
      <3>4. CASE f.sec = sec
        <4>1. f = e \/ f.off < lat
          BY <1>2, <2>1, <2>2, <3>1, <3>4, EntryLast
        <4>2. f # e
          BY <2>2, <3>1
        <4> QED BY <2>3, <2>4, <3>4, <4>1, <4>2 DEF PassedBy
      <3>5. CASE f.sec < sec
        BY <2>3, <2>4, <3>5 DEF PassedBy
      <3> QED BY <3>3, <3>4, <3>5
    <2>5. lsize <= (sec + 1) * SectorSize + 0
      <3>1. sec * SectorSize \in Nat /\ (sec + 1) * SectorSize = sec * SectorSize + SectorSize
        BY <1>5, SMT
      <3>2. lsize <= sec * SectorSize + lat /\ lat < SectorSize
        BY <1>2, <2>1, <2>3 DEF PassedBy, OnDisk
      <3> QED BY <1>2, <3>1, <3>2
    <2> QED BY <2>4, <2>5 DEF PassedBy
  <1>7. L!Aligned' => WalkInv'
    <2>1. SUFFICES ASSUME L!Aligned PROVE WalkInv'
      BY <1>3
    <2>2. PassedBy(L!Sec, 0)'
      BY <1>1, <1>5, <1>6, <2>1 DEF PassedBy, L!LookedAt
    <2> QED BY <1>1, <2>2 DEF WalkInv
  <1>8. lk' \in Nat /\ lk' <= Spb
    BY <1>1, <1>2
  <1> QED BY <1>1, <1>2, <1>3, <1>4, <1>7, <1>8 DEF LookupInv

-----------------------------------------------------------------------------
(* Transfers.                                                              *)

\* Division with a remainder.
LEMMA Division ==
    ASSUME NEW x \in Nat, NEW b \in Nat \ {0}
    PROVE  /\ x \div b \in Nat /\ x % b \in Nat /\ x % b < b
           /\ x = (x % b) + b * (x \div b)
  OBVIOUS

\* The sector and the offset of a byte.
LEMMA Split ==
    ASSUME NEW x \in Nat
    PROVE  /\ x \div SectorSize \in Nat /\ x % SectorSize \in Nat /\ x % SectorSize < SectorSize
           /\ x = Byte(x \div SectorSize, x % SectorSize)
PROOF
  <1>1. SectorSize \in Nat \ {0}
    BY RootFsAssumption
  <1>2. /\ x \div SectorSize \in Nat /\ x % SectorSize \in Nat /\ x % SectorSize < SectorSize
        /\ x = (x % SectorSize) + SectorSize * (x \div SectorSize)
    BY <1>1, Division
  <1>3. PICK q \in Nat, r \in Nat : q = x \div SectorSize /\ r = x % SectorSize
    BY <1>2
  <1>4. x = q * SectorSize + r
    <2>1. x = r + SectorSize * q
      BY <1>2, <1>3
    <2> QED BY <1>1, <2>1
  <1> QED BY <1>2, <1>3, <1>4 DEF Byte

\* Bytes that follow one another in a sector, and the start of the next.
LEMMA Along ==
    ASSUME NEW x \in Nat, NEW y \in Nat
    PROVE  /\ (x % SectorSize) + y < SectorSize =>
                /\ (x + y) \div SectorSize = x \div SectorSize
                /\ (x + y) % SectorSize = (x % SectorSize) + y
           /\ x % SectorSize = 0 =>
                /\ (x + SectorSize) \div SectorSize = x \div SectorSize + 1
                /\ (x + SectorSize) % SectorSize = 0
PROOF
  <1>1. SectorSize \in Nat \ {0}
    BY RootFsAssumption
  <1>2. PICK q \in Nat, r \in Nat : /\ q = x \div SectorSize /\ r = x % SectorSize
                                    /\ x = Byte(q, r) /\ r < SectorSize
    BY Split
  <1>3. q * SectorSize \in Nat /\ (q + 1) * SectorSize = q * SectorSize + SectorSize
    BY <1>1, SMT
  <1>4. ASSUME r + y < SectorSize
        PROVE  (x + y) \div SectorSize = q /\ (x + y) % SectorSize = r + y
    <2>1. PICK z \in Nat, t \in Nat : z = x + y /\ t = r + y /\ z = Byte(q, t) /\ t < SectorSize
      BY <1>2, <1>3, <1>4 DEF Byte
    <2>2. PICK u \in Nat, w \in Nat : /\ u = z \div SectorSize /\ w = z % SectorSize
                                      /\ w < SectorSize /\ z = Byte(u, w)
      BY Split
    <2>3. Byte(u, w) = Byte(q, t)
      BY <2>1, <2>2
    <2>4. u = q /\ w = t
      BY <2>1, <2>2, <2>3, PlaceUnique
    <2> QED BY <2>1, <2>2, <2>4
  <1>5. ASSUME r = 0
        PROVE  (x + SectorSize) \div SectorSize = q + 1 /\ (x + SectorSize) % SectorSize = 0
    <2>1. PICK z \in Nat, p \in Nat, t \in Nat :
            z = x + SectorSize /\ p = q + 1 /\ t = 0 /\ z = Byte(p, t) /\ t < SectorSize
      BY <1>1, <1>2, <1>3, <1>5 DEF Byte
    <2>2. PICK u \in Nat, w \in Nat : /\ u = z \div SectorSize /\ w = z % SectorSize
                                      /\ w < SectorSize /\ z = Byte(u, w)
      BY Split
    <2>3. Byte(u, w) = Byte(p, t)
      BY <2>1, <2>2
    <2>4. u = p /\ w = t
      BY <2>1, <2>2, <2>3, PlaceUnique
    <2> QED BY <2>1, <2>2, <2>4
  <1> QED BY <1>2, <1>4, <1>5

Functions == {"bdev_read", "bdev_write", "ext2_read", "ext2_write"}

FileTypeOK ==
    /\ pc \in {"idle", "outer", "inner", "returned"} /\ fn \in Functions
    /\ \A n \in Nat : F!Slot(file, n) \in Nat
    /\ {pos0, count0, pos, count, i, k, offset, moved} \subseteq Nat
    /\ result \in Int /\ bytes \in Seq(Nat \X Nat)

\* In a request that the loops handle, the local variables name the place of the next
\* byte, and what is left of the sector is enough for the next copy.
Ready ==
    \/ count = 0
    \/ /\ F!IsExt2(fn)
       /\ moved = 0 /\ i = 0 /\ k = 0 /\ offset = pos0 /\ pos0 + count <= SectorSize
    \/ /\ ~F!IsExt2(fn)
       /\ i = (pos0 + moved) \div SectorSize /\ offset = (pos0 + moved) % SectorSize
       /\ offset + F!Chars <= SectorSize

FileInv ==
    /\ FileTypeOK
    /\ pos = pos0 + moved /\ Len(bytes) = moved /\ count + moved = count0
    /\ F!DirtyWhereWritten
    /\ pc = "idle" => moved = 0 /\ bytes = <<>> /\ dirty = {} /\ fn = "bdev_read"
    /\ pc = "inner" /\ ~F!IsExt2(fn) => count > 0
    /\ pc = "returned" /\ result >= 0 => result = moved
    /\ F!Handled =>
         /\ \A n \in 1..moved : bytes[n] = F!Place(pos0 + n - 1)
         /\ pc \in {"outer", "inner"} => Ready
         /\ F!IsExt2(fn) /\ (moved > 0 \/ (pc = "inner" /\ count > 0)) => F!Slot(file, 0) # 0

\* The invariant says what TransferRight says.
LEMMA FileInvRight ==
    ASSUME FileInv
    PROVE  F!TransferRight
PROOF
  <1>1. /\ moved \in Nat /\ count \in Nat /\ Len(bytes) = moved /\ bytes \in Seq(Nat \X Nat)
        /\ pos = pos0 + moved /\ count + moved = count0 /\ F!DirtyWhereWritten
        /\ F!Handled => \A n \in 1..moved : bytes[n] = F!Place(pos0 + n - 1)
    BY DEF FileInv, FileTypeOK
  <1>2. bytes = [n \in 1..moved |-> bytes[n]]
    BY <1>1
  <1>3. F!Handled => bytes = [n \in 1..moved |-> F!Place(pos0 + n - 1)]
    BY <1>1, <1>2
  <1>4. F!PositionTracks
    BY <1>1 DEF F!PositionTracks
  <1> QED BY <1>1, <1>3, <1>4 DEF F!TransferRight

\* A call starts with nothing moved, at the place of the first byte.
LEMMA CallInv ==
    ASSUME FileInv, NEW g \in Functions, NEW f, \A n \in Nat : F!Slot(f, n) \in Nat,
           NEW p \in Nat, NEW c \in Nat, F!Call(g, f, p, c)
    PROVE  FileInv'
PROOF
  <1> USE RootFsAssumption
  <1>1. /\ pc = "idle" /\ fn' = g /\ file' = f /\ pos0' = p /\ count0' = c
        /\ pos' = p /\ count' = c /\ moved' = 0 /\ bytes' = <<>> /\ dirty' = dirty
        /\ i' = p \div SectorSize /\ k' = 0 /\ offset' = p % SectorSize
    BY DEF F!Call
  <1>0. \/ pc' = "returned" /\ result' = -1
        \/ pc' = "outer" /\ result' = result
    BY DEF F!Call
  <1>2. result \in Int /\ dirty = {}
    BY <1>1 DEF FileInv, FileTypeOK
  <1>3. /\ p \div SectorSize \in Nat /\ p % SectorSize \in Nat /\ p % SectorSize < SectorSize
        /\ p = Byte(p \div SectorSize, p % SectorSize)
    BY Split
  <1>4. \A n \in Nat : F!Slot(file, n)' \in Nat
    BY <1>1 DEF F!Slot
  <1>5. FileTypeOK'
    <2>1. <<>> \in Seq(Nat \X Nat)
      OBVIOUS
    <2>2. pc' \in {"outer", "returned"} /\ result' \in Int
      BY <1>0, <1>2
    <2>3. {pos0', count0', pos', count', i', k', offset', moved'} \subseteq Nat
      BY <1>1, <1>3
    <2> QED BY <1>1, <1>4, <2>1, <2>2, <2>3 DEF FileTypeOK
  <1>6. pos' = pos0' + moved' /\ Len(bytes') = moved' /\ count' + moved' = count0'
    <2>1. Len(<<>>) = 0 /\ p + 0 = p /\ c + 0 = c
      OBVIOUS
    <2> QED BY <1>1, <2>1
  <1>7. F!DirtyWhereWritten'
    <2>1. {bytes'[n][1] : n \in DOMAIN bytes'} = {} /\ dirty' = {}
      BY <1>1, <1>2
    <2>2. ~(pc' = "returned" /\ result' >= 0)
      <3>1. pc' = "returned" => result' = -1
        BY <1>0
      <3>2. ~(-1 >= 0)
        OBVIOUS
      <3> QED BY <3>1, <3>2
    <2> QED BY <2>1, <2>2 DEF F!DirtyWhereWritten
  <1>8. F!Handled' => Ready'
    <2>1. SUFFICES ASSUME F!Handled', c # 0 PROVE Ready'
      BY <1>1 DEF Ready
    <2>2. CASE F!IsExt2(g)
      <3>1. p + c <= SectorSize
        BY <1>1, <2>1, <2>2 DEF F!Handled, F!IsExt2
      <3>2. p < SectorSize
        BY <2>1, <3>1
      <3>3. p \div SectorSize = 0 /\ p % SectorSize = p
        <4>1. p = Byte(0, p)
          BY DEF Byte
        <4>2. Byte(p \div SectorSize, p % SectorSize) = Byte(0, p)
          BY <1>3, <4>1
        <4>3. PICK u \in Nat, w \in Nat : u = p \div SectorSize /\ w = p % SectorSize
          BY <1>3
        <4>4. u = 0 /\ w = p
          BY <1>3, <3>2, <4>2, <4>3, PlaceUnique
        <4> QED BY <4>3, <4>4
      <3> QED BY <1>1, <2>2, <3>1, <3>3 DEF Ready, F!IsExt2
    <2>3. CASE ~F!IsExt2(g)
      <3>1. p % SectorSize = 0 \/ (p % SectorSize) + c <= SectorSize
        BY <1>1, <2>1, <2>3 DEF F!Handled, F!IsExt2
      <3>2. F!Chars' = IF c < SectorSize THEN c ELSE SectorSize
        BY <1>1 DEF F!Chars
      <3>3. (p % SectorSize) + F!Chars' <= SectorSize
        BY <1>3, <3>1, <3>2
      <3>4. pos0' + moved' = p
        BY <1>1
      <3> QED BY <1>1, <2>3, <3>3, <3>4 DEF Ready, F!IsExt2
    <2> QED BY <2>2, <2>3
  <1>9. \A n \in 1..moved' : FALSE
    BY <1>1
  <1>10. /\ pc' \in {"outer", "returned"} /\ (pc' = "returned" => result' = -1)
         /\ ~(moved' > 0)
    <2>1. ~(moved' > 0)
      BY <1>1
    <2> QED BY <1>0, <2>1
  <1>11. ~(-1 >= 0)
    OBVIOUS
  <1> QED BY <1>5, <1>6, <1>7, <1>8, <1>9, <1>10, <1>11 DEF FileInv

\* The steps that move nothing: into the inner loop, out of it, and the return.
LEMMA LoopInv ==
    ASSUME FileInv, F!Outer \/ F!Return \/ F!InnerEnds
    PROVE  FileInv'
PROOF
  <1> USE RootFsAssumption
  <1>1. /\ UNCHANGED <<fn, file, pos0, count0, pos, count, i, offset, moved, bytes>>
        /\ k' = k \/ k' = 0
        /\ pc' \in {"outer", "inner", "returned"}
        /\ pc \in {"outer", "inner"}
    BY DEF F!Outer, F!Return, F!InnerEnds
  <1>2. FileTypeOK /\ k \in Nat /\ moved \in Nat /\ count \in Nat /\ result \in Int
    BY DEF FileInv, FileTypeOK
  <1>3. /\ pc' # "returned" => result' = result /\ dirty' = dirty
        /\ pc' = "returned" => /\ result' = moved
                               /\ dirty' = IF fn = "ext2_write" THEN dirty \cup {F!InodeSector}
                                           ELSE dirty
    BY DEF F!Outer, F!Return, F!InnerEnds
  <1>4. \A n \in Nat : F!Slot(file, n)' \in Nat
    BY <1>1, <1>2 DEF F!Slot, FileTypeOK
  <1>5. FileTypeOK'
    <2>1. k' \in Nat /\ result' \in Int
      BY <1>1, <1>2, <1>3
    <2> QED BY <1>1, <1>2, <1>4, <2>1 DEF FileTypeOK
  <1>6. F!DirtyWhereWritten'
    <2>1. F!DirtyWhereWritten
      BY DEF FileInv
    <2>2. dirty = IF F!Writes(fn) THEN {bytes[n][1] : n \in DOMAIN bytes} ELSE {}
      BY <1>1, <2>1 DEF F!DirtyWhereWritten
    <2>3. /\ pc' = "returned" => result' >= 0
          /\ F!Writes(fn)' = F!Writes(fn)
      BY <1>1, <1>2, <1>3 DEF F!Writes
    <2>4. CASE pc' = "returned"
      BY <1>1, <1>3, <2>2, <2>3, <2>4 DEF F!DirtyWhereWritten, F!Writes, F!InodeSector
    <2>5. CASE pc' # "returned"
      BY <1>1, <1>3, <2>2, <2>3, <2>5 DEF F!DirtyWhereWritten, F!Writes
    <2> QED BY <2>4, <2>5
  <1>7. pc' = "inner" => (~F!IsExt2(fn) => count > 0)
    BY DEF F!Outer, F!Return, F!InnerEnds, F!GoesOn, F!IsExt2
  <1>8. F!Handled' = F!Handled /\ \A n \in 1..moved : F!Place(pos0 + n - 1)' = F!Place(pos0 + n - 1)
    BY <1>1 DEF F!Handled, F!Place, F!IsExt2, F!Slot
  <1>9. F!Handled => Ready'
    <2>1. SUFFICES ASSUME F!Handled PROVE Ready'
      OBVIOUS
    <2>2. Ready
      BY <1>1, <2>1 DEF FileInv
    <2>3. F!Chars' = F!Chars
      BY <1>1 DEF F!Chars
    <2> QED BY <1>1, <2>2, <2>3 DEF Ready, F!IsExt2
  <1>10. F!Handled /\ F!IsExt2(fn) /\ (moved > 0 \/ (pc' = "inner" /\ count > 0)) =>
           F!Slot(file, 0) # 0
    <2>1. SUFFICES ASSUME F!Handled, F!IsExt2(fn), moved > 0 \/ (pc' = "inner" /\ count > 0)
                   PROVE  F!Slot(file, 0) # 0
      OBVIOUS
    <2>2. CASE moved > 0 \/ (pc = "inner" /\ count > 0)
      BY <2>1, <2>2 DEF FileInv
    <2>3. CASE pc = "outer" /\ pc' = "inner" /\ ~(moved > 0) /\ count > 0
      <3>1. i = 0
        <4>1. Ready /\ count # 0
          BY <2>1, <2>3, <1>2 DEF FileInv
        <4> QED BY <2>1, <4>1 DEF Ready
      <3>2. F!GoesOn
        BY <2>3 DEF F!Outer, F!Return, F!InnerEnds
      <3>3. fn \in {"ext2_read", "ext2_write"}
        BY <2>1 DEF F!IsExt2
      <3> QED BY <3>1, <3>2, <3>3 DEF F!GoesOn
    <2> QED BY <1>1, <2>1, <2>2, <2>3
  <1>11. pc' = "returned" /\ result' >= 0 => result' = moved'
    BY <1>1, <1>3
  <1>12. F!Slot(file, 0)' = F!Slot(file, 0) /\ F!IsExt2(fn)' = F!IsExt2(fn)
    BY <1>1 DEF F!Slot, F!IsExt2
  <1>13. pos' = pos0' + moved' /\ Len(bytes') = moved' /\ count' + moved' = count0'
    BY <1>1 DEF FileInv
  <1>14. F!Handled' => \A n \in 1..moved' : bytes'[n] = F!Place(pos0 + n - 1)'
    BY <1>1, <1>8 DEF FileInv
  <1> QED BY <1>1, <1>5, <1>6, <1>7, <1>8, <1>9, <1>10, <1>11, <1>12, <1>13, <1>14
          DEF FileInv

\* A byte of the first sector.
LEMMA FirstSector ==
    ASSUME NEW x \in Nat, x < SectorSize
    PROVE  /\ x \div SectorSize = 0 /\ x % SectorSize = x
           /\ x \div (SectorSize * Spb) = 0 /\ 0 % Spb = 0
PROOF
  <1>1. SectorSize \in Nat \ {0} /\ Spb \in Nat \ {0}
    BY RootFsAssumption
  <1>2. ASSUME NEW b \in Nat \ {0}, NEW y \in Nat, y < b PROVE y \div b = 0 /\ y % b = y
    <2>1. PICK q \in Nat, r \in Nat : q = y \div b /\ r = y % b /\ r < b /\ y = r + b * q
      BY Division
    <2>2. q = 0
      <3>1. SUFFICES ASSUME q >= 1 PROVE FALSE
        BY <2>1
      <3>2. b * q >= b
        BY <3>1, SMT
      <3>3. b * q \in Nat
        BY SMT
      <3> QED BY <1>2, <2>1, <3>2, <3>3
    <2> QED BY <2>1, <2>2
  <1>3. SectorSize * Spb \in Nat /\ SectorSize * Spb >= SectorSize
    BY <1>1, SMT
  <1>4. PICK b \in Nat \ {0} : b = SectorSize * Spb /\ x < b
    BY <1>1, <1>3
  <1>5. x \div b = 0
    BY <1>2, <1>4
  <1>6. x \div SectorSize = 0 /\ x % SectorSize = x
    BY <1>1, <1>2
  <1>7. 0 % Spb = 0
    BY <1>1, <1>2
  <1> QED BY <1>4, <1>5, <1>6, <1>7

\* Putting one sequence behind another.
LEMMA Behind ==
    ASSUME NEW S, NEW a \in Seq(S), NEW m \in Nat, NEW b \in [1..m -> S]
    PROVE  /\ a \o b \in Seq(S) /\ Len(a \o b) = Len(a) + m
           /\ \A n \in 1..Len(a) : (a \o b)[n] = a[n]
           /\ \A n \in 1..m : (a \o b)[Len(a) + n] = b[n]
PROOF
  <1>1. b \in Seq(S) /\ Len(b) = m
    OBVIOUS
  <1> QED BY <1>1

\* One sector is copied.
LEMMA CopyInv ==
    ASSUME FileInv, F!ReadSector \/ F!WriteSector
    PROVE  FileInv'
PROOF
  <1>0. SectorSize \in Nat \ {0} /\ Spb \in Nat \ {0}
    BY RootFsAssumption
  <1>1. /\ pc = "inner" /\ (F!IsExt2(fn) => count > 0)
        /\ bytes' = bytes \o [n \in 1..F!Chars |-> <<F!Sector, offset + n - 1>>]
        /\ offset' = 0 /\ i' = i + 1 /\ k' = k + 1
        /\ pos' = pos + F!Chars /\ moved' = moved + F!Chars /\ count' = count - F!Chars
        /\ pc' = IF F!IsExt2(fn) THEN "inner" ELSE "outer"
        /\ UNCHANGED <<fn, file, pos0, count0, result>>
    BY DEF F!ReadSector, F!WriteSector, F!Copy
  <1>2. dirty' = IF F!Writes(fn) THEN dirty \cup {F!Sector} ELSE dirty
    BY DEF F!ReadSector, F!WriteSector
  <1>T. FileTypeOK
    BY DEF FileInv
  <1>N. /\ pos0 \in Nat /\ count0 \in Nat /\ pos \in Nat /\ count \in Nat
        /\ i \in Nat /\ k \in Nat /\ offset \in Nat /\ moved \in Nat
    BY <1>T DEF FileTypeOK
  <1>C. count > 0
    BY <1>1 DEF FileInv
  <1>E. pos = pos0 + moved /\ count + moved = count0
    BY DEF FileInv
  <1>B. bytes \in Seq(Nat \X Nat) /\ Len(bytes) = moved
    BY <1>T DEF FileInv, FileTypeOK
  <1>S. \A n \in Nat : F!Slot(file, n) \in Nat
    BY <1>T DEF FileTypeOK
  <1>F. result \in Int /\ fn \in Functions
    BY <1>T DEF FileTypeOK
  <1>4. PICK m \in Nat : /\ m = F!Chars /\ m > 0 /\ m <= count /\ m <= SectorSize
                         /\ m = count \/ m = SectorSize
                         /\ count <= SectorSize => m = count
    BY <1>0, <1>N, <1>C DEF F!Chars
  <1>5. PICK s \in Nat : s = F!Sector
    <2>1. F!Slot(file, i) \in Nat
      BY <1>S, <1>N
    <2>2. F!Slot(file, i) * Spb \in Nat
      BY <1>0, <2>1, SMT
    <2> QED BY <1>N, <2>2 DEF F!Sector
  <1> DEFINE added == [n \in 1..m |-> <<s, offset + n - 1>>]
  <1>6. bytes' = bytes \o added
    BY <1>1, <1>4, <1>5
  <1>7. added \in [1..m -> Nat \X Nat] /\ \A n \in 1..m : added[n] = <<s, offset + n - 1>>
    <2>1. \A n \in 1..m : offset + n - 1 \in Nat
      BY <1>N
    <2> QED BY <2>1
  <1> HIDE DEF added
  <1>8. /\ bytes' \in Seq(Nat \X Nat) /\ Len(bytes') = moved + m
        /\ \A n \in 1..moved : bytes'[n] = bytes[n]
        /\ \A n \in 1..m : bytes'[moved + n] = <<s, offset + n - 1>>
    <2>1. /\ bytes \o added \in Seq(Nat \X Nat) /\ Len(bytes \o added) = Len(bytes) + m
          /\ \A n \in 1..Len(bytes) : (bytes \o added)[n] = bytes[n]
          /\ \A n \in 1..m : (bytes \o added)[Len(bytes) + n] = added[n]
      <3>1. PICK S, a, b : S = Nat \X Nat /\ a = bytes /\ b = added
        OBVIOUS
      <3>2. a \in Seq(S) /\ b \in [1..m -> S] /\ m \in Nat
        BY <1>4, <1>7, <1>B, <3>1
      <3>3. /\ a \o b \in Seq(S) /\ Len(a \o b) = Len(a) + m
            /\ \A n \in 1..Len(a) : (a \o b)[n] = a[n]
            /\ \A n \in 1..m : (a \o b)[Len(a) + n] = b[n]
        BY <3>2, Behind
      <3> QED BY <3>1, <3>3
    <2> QED BY <1>B, <1>6, <1>7, <2>1
  <1>9. \A n \in 1..(moved + m) : n \in 1..moved \/ \E j \in 1..m : n = moved + j
    <2>1. SUFFICES ASSUME NEW n \in 1..(moved + m), n \notin 1..moved
                   PROVE  \E j \in 1..m : n = moved + j
      OBVIOUS
    <2>2. n - moved \in 1..m /\ n = moved + (n - moved)
      BY <1>N, <2>1
    <2> QED BY <2>2
  <1>10. /\ moved' = moved + m /\ count' = count - m /\ pos' = pos + m
         /\ moved' \in Nat /\ count' \in Nat /\ pos' \in Nat
    BY <1>1, <1>N, <1>4
  <1>11. FileTypeOK'
    <2>1. \A n \in Nat : F!Slot(file, n)' \in Nat
      BY <1>1, <1>S DEF F!Slot
    <2>2. i' \in Nat /\ k' \in Nat /\ offset' \in Nat
      BY <1>1, <1>N
    <2>3. pc' \in {"inner", "outer"}
      BY <1>1
    <2>4. {pos0', count0', pos', count', i', k', offset', moved'} \subseteq Nat
      BY <1>1, <1>N, <1>10, <2>2
    <2>5. fn' \in Functions /\ result' \in Int
      BY <1>1, <1>F
    <2> QED BY <1>8, <2>1, <2>3, <2>4, <2>5 DEF FileTypeOK
  <1>12. pos' = pos0' + moved' /\ Len(bytes') = moved' /\ count' + moved' = count0'
    <2>1. pos0' = pos0 /\ count0' = count0
      BY <1>1
    <2> QED BY <1>N, <1>E, <1>4, <1>8, <1>10, <2>1
  <1>13. F!DirtyWhereWritten'
    <2>1. dirty = IF F!Writes(fn) THEN {bytes[n][1] : n \in DOMAIN bytes} ELSE {}
      BY <1>1 DEF FileInv, F!DirtyWhereWritten
    <2>2. DOMAIN bytes = 1..moved /\ DOMAIN bytes' = 1..(moved + m)
      BY <1>B, <1>8
    <2>3. {bytes'[n][1] : n \in 1..(moved + m)} = {bytes[n][1] : n \in 1..moved} \cup {s}
      <3>1. \A n \in 1..moved : n \in 1..(moved + m)
        BY <1>N
      <3>2. 1 \in 1..m /\ \A j \in 1..m : moved + j \in 1..(moved + m)
        BY <1>N, <1>C, <1>4
      <3>3. \A n \in 1..moved : bytes'[n][1] = bytes[n][1]
        BY <1>8
      <3>4. \A j \in 1..m : bytes'[moved + j][1] = s
        BY <1>8
      <3>5. ASSUME NEW n \in 1..(moved + m)
            PROVE  bytes'[n][1] \in {bytes[x][1] : x \in 1..moved} \cup {s}
        BY <1>9, <3>3, <3>4
      <3>6. ASSUME NEW x \in 1..moved
            PROVE  bytes[x][1] \in {bytes'[n][1] : n \in 1..(moved + m)}
        BY <3>1, <3>3
      <3>7. s \in {bytes'[n][1] : n \in 1..(moved + m)}
        <4>1. moved + 1 \in 1..(moved + m) /\ bytes'[moved + 1][1] = s
          BY <3>2, <3>4
        <4> QED BY <4>1
      <3> QED BY <3>5, <3>6, <3>7
    <2>4. pc' # "returned" /\ fn' = fn
      BY <1>1
    <2>5. F!Writes(fn)' = F!Writes(fn)
      BY <2>4 DEF F!Writes
    <2>6. dirty' = IF F!Writes(fn) THEN {bytes'[n][1] : n \in DOMAIN bytes'} ELSE {}
      BY <1>2, <1>5, <2>1, <2>2, <2>3
    <2> QED BY <2>4, <2>5, <2>6 DEF F!DirtyWhereWritten
  <1>14. /\ F!Handled' = F!Handled /\ F!IsExt2(fn)' = F!IsExt2(fn)
         /\ F!Slot(file, 0)' = F!Slot(file, 0)
         /\ \A n \in 1..moved' : F!Place(pos0 + n - 1)' = F!Place(pos0 + n - 1)
    BY <1>1 DEF F!Handled, F!Place, F!IsExt2, F!Slot
  <1>15. ASSUME F!Handled
         PROVE  /\ \A j \in 1..m : F!Place(pos0 + (moved + j) - 1) = <<s, offset + j - 1>>
                /\ Ready'
                /\ F!IsExt2(fn) => F!Slot(file, 0) # 0
    <2>1. Ready
      BY <1>1, <1>15 DEF FileInv
    <2>2. F!IsExt2(fn) => F!Slot(file, 0) # 0
      BY <1>1, <1>C, <1>15 DEF FileInv
    <2>3. CASE /\ F!IsExt2(fn)
               /\ moved = 0 /\ i = 0 /\ k = 0 /\ offset = pos0 /\ pos0 + count <= SectorSize
      <3>1. m = count
        BY <1>N, <1>C, <1>4, <2>3
      <3>2. count' = 0
        BY <1>N, <1>10, <3>1
      <3>3. ASSUME NEW j \in 1..m
            PROVE  F!Place(pos0 + (moved + j) - 1) = <<s, offset + j - 1>>
        <4>1. PICK x \in Nat : x = pos0 + (moved + j) - 1 /\ x < SectorSize /\ x = offset + j - 1
          BY <1>0, <1>N, <2>3, <3>1
        <4>2. /\ x \div SectorSize = 0 /\ x % SectorSize = x
              /\ x \div (SectorSize * Spb) = 0 /\ 0 % Spb = 0
          BY <4>1, FirstSector
        <4>3. F!Place(x) = <<F!Slot(file, 0) * Spb + 0, x>>
          BY <2>3, <4>2 DEF F!Place
        <4>4. s = F!Slot(file, 0) * Spb + 0
          BY <1>5, <2>3 DEF F!Sector
        <4> QED BY <4>1, <4>3, <4>4
      <3> QED BY <2>2, <3>2, <3>3 DEF Ready
    <2>4. CASE /\ ~F!IsExt2(fn)
               /\ i = (pos0 + moved) \div SectorSize /\ offset = (pos0 + moved) % SectorSize
               /\ offset + F!Chars <= SectorSize
      <3>1. PICK x \in Nat : x = pos0 + moved
        BY <1>N
      <3>2. s = x \div SectorSize /\ offset = x % SectorSize /\ offset + m <= SectorSize
        BY <1>4, <1>5, <2>4, <3>1 DEF F!Sector
      <3>3. ASSUME NEW j \in 1..m
            PROVE  F!Place(pos0 + (moved + j) - 1) = <<s, offset + j - 1>>
        <4>1. PICK y \in Nat : y = j - 1 /\ x + y = pos0 + (moved + j) - 1
          BY <1>N, <3>1
        <4>2. (x % SectorSize) + y < SectorSize /\ offset + y = offset + j - 1
          BY <1>0, <1>N, <3>2, <4>1
        <4>3. (x + y) \div SectorSize = s /\ (x + y) % SectorSize = offset + y
          BY <3>2, <4>2, Along
        <4>4. F!Place(x + y) = <<(x + y) \div SectorSize, (x + y) % SectorSize>>
          BY <2>4 DEF F!Place
        <4> QED BY <4>1, <4>2, <4>3, <4>4
      <3>4. Ready'
        <4>1. CASE m = count
          <5>1. count' = 0
            BY <1>N, <1>10, <4>1
          <5> QED BY <5>1 DEF Ready
        <4>2. CASE m = SectorSize
          <5>1. offset = 0
            BY <1>0, <1>N, <3>2, <4>2
          <5>2. (x + SectorSize) \div SectorSize = s + 1 /\ (x + SectorSize) % SectorSize = 0
            BY <3>2, <5>1, Along
          <5>3. pos0' + moved' = x + SectorSize /\ i' = s + 1 /\ offset' = 0
            <6>1. pos0' = pos0 /\ i' = i + 1 /\ offset' = 0
              BY <1>1
            <6>2. i = s
              BY <2>4, <3>1, <3>2
            <6> QED BY <1>N, <1>10, <3>1, <4>2, <6>1, <6>2
          <5>4. F!Chars' <= SectorSize /\ F!Chars' \in Nat
            <6>1. F!Chars' = IF count' < SectorSize THEN count' ELSE SectorSize
              BY DEF F!Chars
            <6> QED BY <1>0, <1>10, <6>1
          <5>5. ~F!IsExt2(fn)'
            BY <1>14, <2>4
          <5>6. offset' + F!Chars' <= SectorSize
            BY <5>3, <5>4
          <5> QED BY <5>2, <5>3, <5>5, <5>6 DEF Ready
        <4> QED BY <1>4, <4>1, <4>2
      <3> QED BY <2>2, <3>3, <3>4
    <2> QED BY <1>N, <1>C, <2>1, <2>3, <2>4 DEF Ready
  <1>16. F!Handled' => \A n \in 1..moved' : bytes'[n] = F!Place(pos0 + n - 1)'
    <2>1. SUFFICES ASSUME F!Handled, NEW n \in 1..(moved + m)
                   PROVE  bytes'[n] = F!Place(pos0 + n - 1)
      BY <1>10, <1>14
    <2>2. CASE n \in 1..moved
      BY <1>8, <2>1, <2>2 DEF FileInv
    <2>3. CASE \E j \in 1..m : n = moved + j
      <3>1. PICK j \in 1..m : n = moved + j
        BY <2>3
      <3> QED BY <1>8, <1>15, <2>1, <3>1
    <2> QED BY <1>9, <2>2, <2>3
  <1>17. pc' \in {"inner", "outer"} /\ (pc' = "inner" => F!IsExt2(fn))
    BY <1>1
  <1> QED BY <1>11, <1>12, <1>13, <1>14, <1>15, <1>16, <1>17 DEF FileInv

-----------------------------------------------------------------------------
(* The composition.                                                        *)

\* Lookups and transfers do not overlap, and the file of a transfer is the one the
\* lookup found, if it found one.
RootInv ==
    /\ LookupInv /\ FileInv
    /\ found.code = 0 => found.inode \in DOMAIN Inodes
    /\ lpc \notin {"idle", "returned"} => pc = "idle"
    /\ F!IsExt2(fn) => lpc = "returned"
    /\ F!IsExt2(fn) /\ found.code = 0 => file.slot = Inodes[found.inode].slot

\* The invariant holds at the start.
LEMMA RootInit == Init => RootInv
PROOF
  <1> SUFFICES ASSUME Init PROVE RootInv
    OBVIOUS
  <1> USE RootFsAssumption
  <1>1. /\ lpc = "idle" /\ dir = [mode |-> 0, blocks |-> 0, ents |-> {}]
        /\ li = 0 /\ lk = 0 /\ lat = 0 /\ lsize = 0 /\ lbufs = {} /\ found = L!Nothing
    BY Zenon DEF Init, L!Init
  <1>2. /\ pc = "idle" /\ fn = "bdev_read" /\ file = F!NoFile
        /\ pos0 = 0 /\ count0 = 0 /\ pos = 0 /\ count = 0
        /\ i = 0 /\ k = 0 /\ offset = 0 /\ moved = 0
        /\ bytes = <<>> /\ dirty = {} /\ result = 0
    BY DEF Init, F!Init
  <1>3. found.code # 0
    BY <1>1 DEF L!Nothing
  <1>4. OnDisk(dir)
    BY <1>1 DEF OnDisk
  <1>5. LookupInv
    BY <1>1, <1>3, <1>4 DEF LookupInv, WalkInv
  <1>6. FileTypeOK
    <2>1. <<>> \in Seq(Nat \X Nat)
      OBVIOUS
    <2>2. \A n \in Nat : F!Slot(file, n) \in Nat
      BY <1>2 DEF F!Slot, F!NoFile
    <2> QED BY <1>2, <2>1, <2>2 DEF FileTypeOK, Functions
  <1>7. F!DirtyWhereWritten
    BY <1>2 DEF F!DirtyWhereWritten, F!Writes
  <1>8. pos = pos0 + moved /\ Len(bytes) = moved /\ count + moved = count0
    BY <1>2
  <1>9. ~F!IsExt2(fn)
    BY <1>2 DEF F!IsExt2
  <1>10. FileInv
    <2>1. \A n \in 1..moved : FALSE
      BY <1>2
    <2> QED BY <1>2, <1>6, <1>7, <1>8, <1>9, <2>1 DEF FileInv
  <1> QED BY <1>1, <1>2, <1>3, <1>5, <1>9, <1>10 DEF RootInv

\* What FileInv and LookupInv say is about their own variables.
LEMMA FileUnchanged == FileInv /\ UNCHANGED fileVars => FileInv'
PROOF
  <1> SUFFICES ASSUME FileInv, UNCHANGED fileVars PROVE FileInv'
    OBVIOUS
  <1>1. UNCHANGED <<pc, fn, file, pos0, count0, pos, count, i, k, offset, moved, bytes,
                    dirty, result>>
    BY DEF fileVars
  <1>2. FileTypeOK' = FileTypeOK
    BY <1>1 DEF FileTypeOK, F!Slot
  <1>3. F!DirtyWhereWritten' = F!DirtyWhereWritten
    BY <1>1 DEF F!DirtyWhereWritten, F!Writes, F!InodeSector
  <1>4. Ready' = Ready
    BY <1>1 DEF Ready, F!IsExt2, F!Chars
  <1>5. F!Handled' = F!Handled /\ F!IsExt2(fn)' = F!IsExt2(fn)
        /\ F!Slot(file, 0)' = F!Slot(file, 0)
    BY <1>1 DEF F!Handled, F!IsExt2, F!Slot
  <1>6. \A n \in 1..moved : F!Place(pos0 + n - 1)' = F!Place(pos0 + n - 1)
    BY <1>1 DEF F!Place, F!IsExt2, F!Slot
  <1>7. F!Handled' => \A n \in 1..moved' : bytes'[n] = F!Place(pos0 + n - 1)'
    BY <1>1, <1>5, <1>6 DEF FileInv
  <1> QED BY <1>1, <1>2, <1>3, <1>4, <1>5, <1>7 DEF FileInv

LEMMA LookupUnchanged == LookupInv /\ UNCHANGED lookupVars => LookupInv'
PROOF
  <1> SUFFICES ASSUME LookupInv, UNCHANGED lookupVars PROVE LookupInv'
    OBVIOUS
  <1>1. UNCHANGED <<lpc, dir, filename, li, lk, lat, lsize, lbufs, found>>
    BY DEF lookupVars
  <1>2. OnDisk(dir)' = OnDisk(dir)
    BY <1>1 DEF OnDisk, Start, End
  <1>3. WalkInv' = WalkInv
    BY <1>1 DEF WalkInv, PassedBy, L!LookedAt, L!Sec, L!SKIP_DIR
  <1>4. L!Aligned' = L!Aligned /\ L!Sec' = L!Sec
    BY <1>1 DEF L!Aligned, L!Sec
  <1> QED BY <1>1, <1>2, <1>3, <1>4 DEF LookupInv

\* An inode that dest may name has block numbers.
LEMMA DestSlots ==
    ASSUME RootInv, NEW f \in Dests
    PROVE  /\ \A n \in Nat : F!Slot(f, n) \in Nat
           /\ found.code = 0 => f.slot = Inodes[found.inode].slot
PROOF
  <1>1. PICK n \in DOMAIN Inodes : /\ f.slot = Inodes[n].slot
                                   /\ found.code = 0 => n = found.inode
    <2>1. CASE found.code = 0
      <3>1. found.inode \in DOMAIN Inodes
        BY <2>1 DEF RootInv
      <3>2. \E m \in {found.inode}, odd \in BOOLEAN :
              f = InodeGot(found.inode, Inodes[m].size, odd)
        BY <2>1 DEF Dests
      <3>3. f.slot = Inodes[found.inode].slot
        BY <3>2 DEF InodeGot
      <3> QED BY <3>1, <3>3
    <2>2. CASE found.code # 0
      <3>1. PICK n \in DOMAIN Inodes, m \in DOMAIN Inodes, odd \in BOOLEAN :
              f = InodeGot(n, Inodes[m].size, odd)
        BY <2>2 DEF Dests
      <3> QED BY <2>2, <3>1 DEF InodeGot
    <2> QED BY <2>1, <2>2
  <1>2. \A m \in DOMAIN Inodes[n].slot : Inodes[n].slot[m] \in Nat
    BY RootFsAssumption
  <1> QED BY <1>1, <1>2 DEF F!Slot

\* A step of the lookup keeps the invariant: what it finds is an entry.
LEMMA LookupStepRoot ==
    ASSUME RootInv, LookupStep
    PROVE  RootInv'
PROOF
  <1>1. L!Step /\ UNCHANGED fileVars
    BY DEF LookupStep
  <1>2. LookupInv /\ FileInv /\ OnDisk(dir)
    BY DEF RootInv, LookupInv
  <1>3. LookupInv'
    BY <1>1, <1>2, BlockLoopInv, SectorLoopInv, FoundInv, NextEntryInv, SectorEndsInv
       DEF L!Step
  <1>4. FileInv'
    BY <1>1, <1>2, FileUnchanged
  <1>5. lpc \in {"block", "sector", "entry"}
    BY <1>1 DEF L!Step, L!BlockLoop, L!SectorLoop, L!Found, L!NextEntry, L!SectorEnds
  <1>6. pc = "idle" /\ pc' = pc /\ fn' = fn
    BY <1>1, <1>5 DEF RootInv, fileVars
  <1>7. fn = "bdev_read"
    BY <1>2, <1>6 DEF FileInv
  <1>8. ~F!IsExt2(fn)'
    BY <1>6, <1>7 DEF F!IsExt2
  <1>9. found'.code = 0 => found'.inode \in DOMAIN Inodes
    <2>1. CASE L!Found
      <3>1. found'.inode = L!de.inode /\ L!de.inode # 0
        BY <2>1 DEF L!Found, L!IsMatch, L!SKIP_DIR
      <3>2. L!de \in dir.ents
        <4>1. CASE \E e \in dir.ents : e.sec = L!Sec /\ e.off = lat
          BY <4>1 DEF L!de, L!EntryAt
        <4>2. CASE ~ \E e \in dir.ents : e.sec = L!Sec /\ e.off = lat
          <5>1. L!de = L!Zeros(L!Sec, lat)
            BY <4>2 DEF L!de, L!EntryAt
          <5>2. \A x, y : L!Zeros(x, y).inode = 0
            BY DEF L!Zeros, L!SKIP_DIR
          <5> QED BY <3>1, <5>1, <5>2
        <4> QED BY <4>1, <4>2
      <3>3. L!de.inode \in DOMAIN Inodes \cup {0}
        BY <1>2, <3>2 DEF OnDisk
      <3> QED BY <3>1, <3>3
    <2>2. CASE ~L!Found
      <3>1. found' = found
        BY <1>1, <2>2 DEF L!Step, L!BlockLoop, L!SectorLoop, L!NextEntry, L!SectorEnds
      <3> QED BY <3>1 DEF RootInv
    <2> QED BY <2>1, <2>2
  <1> QED BY <1>3, <1>4, <1>6, <1>8, <1>9 DEF RootInv

\* A step of a transfer keeps it.
LEMMA FileStepRoot ==
    ASSUME RootInv, FileStep
    PROVE  RootInv'
PROOF
  <1>1. F!Step /\ UNCHANGED lookupVars
    BY DEF FileStep
  <1>2. LookupInv /\ FileInv
    BY DEF RootInv
  <1>3. LookupInv'
    BY <1>1, <1>2, LookupUnchanged
  <1>4. FileInv'
    BY <1>1, <1>2, LoopInv, CopyInv DEF F!Step
  <1>5. pc # "idle" /\ fn' = fn /\ file' = file /\ lpc' = lpc /\ found' = found
    BY <1>1 DEF F!Step, F!Outer, F!Return, F!ReadSector, F!WriteSector, F!InnerEnds, F!Copy,
       lookupVars
  <1>6. lpc \in {"idle", "returned"}
    BY <1>5 DEF RootInv
  <1>7. F!IsExt2(fn)' = F!IsExt2(fn)
    BY <1>5 DEF F!IsExt2
  <1> QED BY <1>3, <1>4, <1>5, <1>6, <1>7 DEF RootInv

\* A call keeps it.
LEMMA CallRoot ==
    ASSUME RootInv, FileCall \/ DevfsCall
    PROVE  RootInv'
PROOF
  <1>0. UNCHANGED lookupVars /\ lpc' = lpc /\ found' = found
    BY DEF FileCall, DevfsCall, lookupVars
  <1>1. LookupInv /\ FileInv
    BY DEF RootInv
  <1>2. LookupInv'
    BY <1>0, <1>1, LookupUnchanged
  <1>3. \A p \in 0..MaxPos : p \in Nat
    BY RootFsAssumption
  <1>4. CASE FileCall
    <2>1. PICK g \in {"ext2_read", "ext2_write"}, f \in Dests, p \in Nat, c \in Nat :
            F!Call(g, f, p, c)
      BY <1>3, <1>4 DEF FileCall
    <2>2. \A n \in Nat : F!Slot(f, n) \in Nat
      BY DestSlots
    <2>3. FileInv'
      <3>1. g \in Functions
        BY DEF Functions
      <3> QED BY <1>1, <2>1, <2>2, <3>1, CallInv
    <2>4. file' = f /\ lpc = "returned"
      BY <1>4, <2>1 DEF FileCall, F!Call
    <2>5. found.code = 0 => file'.slot = Inodes[found.inode].slot
      BY <2>4, DestSlots
    <2> QED BY <1>0, <1>2, <2>3, <2>4, <2>5 DEF RootInv
  <1>5. CASE DevfsCall
    <2>1. PICK g \in {"bdev_read", "bdev_write"}, p \in Nat, c \in Nat :
            F!Call(g, F!NoFile, p, c)
      BY <1>3, <1>5 DEF DevfsCall
    <2>2. \A n \in Nat : F!Slot(F!NoFile, n) \in Nat
      BY DEF F!Slot, F!NoFile
    <2>3. FileInv'
      <3>1. g \in Functions
        BY DEF Functions
      <3> QED BY <1>1, <2>1, <2>2, <3>1, CallInv
    <2>4. fn' = g /\ lpc = "idle"
      BY <1>5, <2>1 DEF DevfsCall, F!Call
    <2>5. ~F!IsExt2(fn)'
      BY <2>4 DEF F!IsExt2
    <2> QED BY <1>0, <1>2, <2>3, <2>4, <2>5 DEF RootInv
  <1> QED BY <1>4, <1>5

\* Every step keeps it.
LEMMA RootStep == RootInv /\ [Next]_vars => RootInv'
PROOF
  <1> SUFFICES ASSUME RootInv, [Next]_vars PROVE RootInv'
    OBVIOUS
  <1>1. LookupInv /\ FileInv
    BY DEF RootInv
  <1>2. ASSUME NEW d \in Directories, NEW name \in Names, Lookup(d, name) PROVE RootInv'
    <2>1. L!Lookup(d, name) /\ UNCHANGED fileVars /\ pc = "idle"
      BY <1>2 DEF Lookup
    <2>2. LookupInv'
      BY <1>1, <2>1, LookupCallInv
    <2>3. FileInv'
      BY <1>1, <2>1, FileUnchanged
    <2>4. pc' = pc /\ fn' = fn /\ found' = found
      BY <2>1 DEF fileVars, L!Lookup
    <2>5. fn = "bdev_read"
      BY <1>1, <2>1 DEF FileInv
    <2>6. ~F!IsExt2(fn)'
      BY <2>4, <2>5 DEF F!IsExt2
    <2> QED BY <2>1, <2>2, <2>3, <2>4, <2>6 DEF RootInv
  <1>3. CASE DevfsPanic \/ UNCHANGED vars
    <2>1. UNCHANGED lookupVars /\ UNCHANGED fileVars
      BY <1>3 DEF DevfsPanic, vars
    <2>2. LookupInv' /\ FileInv'
      BY <1>1, <2>1, LookupUnchanged, FileUnchanged
    <2>3. UNCHANGED <<lpc, found, pc, fn, file>>
      BY <2>1 DEF lookupVars, fileVars
    <2> QED BY <2>2, <2>3 DEF RootInv, F!IsExt2
  <1> QED BY <1>2, <1>3, LookupStepRoot, FileStepRoot, CallRoot DEF Next

\* The invariant holds in every state of kernel_main's calls.
THEOREM RootInvariant == Spec => []RootInv
PROOF
  <1> QED BY RootInit, RootStep, PTL DEF Spec

\* ext2_lookup's result, for every directory as it lies on the disk: on an aligned
\* one an entry in use of the name, and a failure only if no entry it looks at has
\* the name; and the buffers it holds.
THEOREM LookupRightHolds == Spec => []LookupRight
PROOF
  <1>1. RootInv => LookupRight
    <2> SUFFICES ASSUME RootInv PROVE LookupRight
      OBVIOUS
    <2>1. LookupInv
      BY DEF RootInv
    <2>2. L!SKIP_DIR = 0
      BY DEF L!SKIP_DIR
    <2> QED BY <2>1, <2>2 DEF LookupInv, WalkInv, LookupRight, L!LookupRight
  <1> QED BY <1>1, RootInvariant, PTL

\* The bytes, the position and the dirty buffers at every step of bdev_read,
\* bdev_write, ext2_read and ext2_write.
THEOREM TransferRightHolds == Spec => []TransferRight
PROOF
  <1>1. RootInv => TransferRight
    BY FileInvRight DEF RootInv, TransferRight
  <1> QED BY <1>1, RootInvariant, PTL

\* What kernel_main reads is the file it named.
THEOREM ReadsNamedFileHolds == Spec => []ReadsNamedFile
PROOF
  <1>1. RootInv => ReadsNamedFile
    <2>1. SUFFICES ASSUME RootInv, pc = "returned", fn = "ext2_read", result > 0,
                          found.code = 0, L!Aligned, F!Handled
                   PROVE  \E e \in dir.ents :
                            /\ e.live /\ e.inode # 0 /\ e.name = filename
                            /\ \A n \in 1..result :
                                 bytes[n] = <<Inodes[e.inode].slot[0] * Spb, pos0 + n - 1>>
      BY DEF ReadsNamedFile
    <2>2. LookupInv /\ FileInv /\ F!IsExt2(fn)
      BY <2>1 DEF RootInv, F!IsExt2
    <2>3. lpc = "returned" /\ file.slot = Inodes[found.inode].slot
      BY <2>1, <2>2 DEF RootInv
    <2>4. PICK e \in dir.ents : /\ e.live /\ e.inode # 0
                                /\ e.name = filename /\ e.inode = found.inode
      BY <2>1, <2>2, <2>3 DEF LookupInv, WalkInv
    <2>5. pos0 \in Nat /\ moved \in Nat /\ count \in Nat /\ result \in Int
      BY <2>2 DEF FileInv, FileTypeOK
    <2>6. result = moved /\ count + moved = count0 /\ pos0 + count0 <= SectorSize
      <3>1. result >= 0
        BY <2>1, <2>5
      <3> QED BY <2>1, <2>2, <3>1 DEF FileInv, F!Handled
    <2>7. moved > 0 /\ \A n \in 1..moved : bytes[n] = F!Place(pos0 + n - 1)
      BY <2>1, <2>2, <2>6 DEF FileInv
    <2>8. F!Slot(file, 0) # 0 /\ F!Slot(file, 0) \in Nat
      BY <2>1, <2>2, <2>7 DEF FileInv, FileTypeOK
    <2>9. F!Slot(file, 0) = Inodes[e.inode].slot[0]
      BY <2>3, <2>4, <2>8 DEF F!Slot
    <2>10. ASSUME NEW n \in 1..result
           PROVE  bytes[n] = <<Inodes[e.inode].slot[0] * Spb, pos0 + n - 1>>
      <3>1. n \in 1..moved
        BY <2>6
      <3>2. PICK x \in Nat : x = pos0 + n - 1 /\ x < SectorSize
        BY <2>5, <2>6, <3>1, RootFsAssumption
      <3>3. /\ x \div SectorSize = 0 /\ x % SectorSize = x
            /\ x \div (SectorSize * Spb) = 0 /\ 0 % Spb = 0
        BY <3>2, FirstSector
      <3>4. F!Place(x) = <<F!Slot(file, 0) * Spb + 0, x>>
        BY <2>2, <3>3 DEF F!Place
      <3>5. F!Slot(file, 0) * Spb \in Nat
        BY <2>8, RootFsAssumption, SMT
      <3>6. F!Slot(file, 0) * Spb + 0 = F!Slot(file, 0) * Spb
        BY <3>5
      <3> QED BY <2>7, <2>9, <3>1, <3>2, <3>4, <3>6
    <2> QED BY <2>4, <2>10
  <1> QED BY <1>1, RootInvariant, PTL

-----------------------------------------------------------------------------
(* Calls take finitely many steps.  That they take them is fairness, and   *)
(* left to TLC.                                                            *)

Ranks == Nat \X Nat \X Nat
Below(p, q) ==
    \/ p[1] < q[1]
    \/ p[1] = q[1] /\ (p[2] < q[2] \/ (p[2] = q[2] /\ p[3] < q[3]))

\* What a lookup has still to do: blocks, sectors of a block, bytes of a sector.
LookupRank ==
    IF lpc = "returned" THEN <<0, 0, 0>>
    ELSE <<2 * (dir.blocks - li) + (IF lpc = "block" THEN 1 ELSE 0),
           IF lpc = "block" THEN 0 ELSE 2 * (Spb - lk) + (IF lpc = "sector" THEN 1 ELSE 0),
           IF lpc = "entry" THEN SectorSize - lat ELSE 0>>

LookupDescends == L!Step /\ L!Aligned => LookupRank' \in Ranks /\ Below(LookupRank', LookupRank)

\* What a transfer has still to do: bytes, and then leaving its loops.
FileRank ==
    IF pc = "returned" THEN <<0, 0, 0>>
    ELSE <<count, IF (pc = "outer") = (count > 0) THEN 2 ELSE 1, 0>>

FileDescends == F!Step /\ F!Ends => FileRank' \in Ranks /\ Below(FileRank', FileRank)

\* A call on a file with one block that has moved its bytes stands behind that block.
EndsInv ==
    F!IsExt2(fn) /\ F!Ends /\ pc \in {"outer", "inner"} /\ count = 0 => i = 1

\* What a call that has returned keeps.
NothingKept ==
    pc = "returned" => F!NotRegular(fn, file) \/ (bufs = 0 /\ mem = 0)

\* Every step of a lookup leaves less to do.
LEMMA LookupFalls ==
    ASSUME LookupInv, L!Step, L!Aligned
    PROVE  LookupRank' \in Ranks /\ Below(LookupRank', LookupRank)
PROOF
  <1> USE RootFsAssumption
  <1>1. dir.blocks \in Nat /\ li \in Nat /\ lk \in Nat /\ lat \in Nat /\ Spb \in Nat /\ SectorSize \in Nat
    BY DEF LookupInv, OnDisk
  <1>2. ASSUME NEW a \in Nat, NEW b \in Nat, NEW c \in Nat, LookupRank = <<a, b, c>>,
               NEW x \in Nat, NEW y \in Nat, NEW z \in Nat, LookupRank' = <<x, y, z>>,
               x < a \/ (x = a /\ (y < b \/ (y = b /\ z < c)))
        PROVE  LookupRank' \in Ranks /\ Below(LookupRank', LookupRank)
    BY <1>2 DEF Ranks, Below
  <1>3. ASSUME lpc \in {"block", "sector", "entry"}, lpc' = "returned"
        PROVE  LookupRank' \in Ranks /\ Below(LookupRank', LookupRank)
    <2>1. LookupRank' = <<0, 0, 0>>
      BY <1>3 DEF LookupRank
    <2>2. LookupRank[1] > 0
      BY <1>1, <1>3 DEF LookupRank, LookupInv
    <2> QED BY <2>1, <2>2 DEF Ranks, Below
  <1>4. CASE L!BlockLoop
    <2>1. lpc = "block" /\ dir' = dir /\ li' = li /\ li <= dir.blocks
      BY <1>4 DEF L!BlockLoop, LookupInv
    <2>2. CASE lpc' = "sector" /\ lk' = 0 /\ li < dir.blocks
      <3>1. LookupRank = <<2 * (dir.blocks - li) + 1, 0, 0>>
        BY <2>1 DEF LookupRank
      <3>2. LookupRank' = <<2 * (dir.blocks - li) + 0, 2 * (Spb - 0) + 1, 0>>
        BY <2>1, <2>2 DEF LookupRank
      <3>3. /\ 2 * (dir.blocks - li) + 1 \in Nat /\ 2 * (dir.blocks - li) + 0 \in Nat
            /\ 2 * (Spb - 0) + 1 \in Nat /\ 2 * (dir.blocks - li) + 0 < 2 * (dir.blocks - li) + 1
        BY <1>1, <2>1
      <3> QED BY <1>2, <3>1, <3>2, <3>3
    <2>3. CASE lpc' = "returned"
      BY <1>3, <2>1, <2>3
    <2> QED BY <1>4, <2>2, <2>3 DEF L!BlockLoop
  <1>5. CASE L!SectorLoop
    <2>1. /\ lpc = "sector" /\ dir' = dir /\ lk' = lk /\ li < dir.blocks /\ lk <= Spb
      BY <1>5 DEF L!SectorLoop, LookupInv
    <2>2. LookupRank = <<2 * (dir.blocks - li) + 0, 2 * (Spb - lk) + 1, 0>>
      BY <2>1 DEF LookupRank
    <2>3. CASE lpc' = "entry" /\ lat' = 0 /\ li' = li
      <3>1. LookupRank' = <<2 * (dir.blocks - li) + 0, 2 * (Spb - lk) + 0, SectorSize - 0>>
        BY <2>1, <2>3 DEF LookupRank
      <3>2. /\ 2 * (dir.blocks - li) + 0 \in Nat /\ 2 * (Spb - lk) + 1 \in Nat
            /\ 2 * (Spb - lk) + 0 \in Nat /\ SectorSize - 0 \in Nat
            /\ 2 * (Spb - lk) + 0 < 2 * (Spb - lk) + 1
        BY <1>1, <2>1
      <3> QED BY <1>2, <2>2, <3>1, <3>2
    <2>4. CASE lpc' = "block" /\ li' = li + 1
      <3>1. LookupRank' = <<2 * (dir.blocks - (li + 1)) + 1, 0, 0>>
        BY <2>1, <2>4 DEF LookupRank
      <3>2. /\ 2 * (dir.blocks - li) + 0 \in Nat /\ 2 * (Spb - lk) + 1 \in Nat
            /\ 2 * (dir.blocks - (li + 1)) + 1 \in Nat
            /\ 2 * (dir.blocks - (li + 1)) + 1 < 2 * (dir.blocks - li) + 0
        BY <1>1, <2>1
      <3> QED BY <1>2, <2>2, <3>1, <3>2
    <2> QED BY <1>5, <2>3, <2>4 DEF L!SectorLoop
  <1>6. CASE L!Found
    BY <1>3, <1>6 DEF L!Found
  <1>7. ASSUME lpc = "entry"
        PROVE  /\ li < dir.blocks /\ lk < Spb /\ lat < SectorSize
               /\ L!de.size \in Nat /\ L!de.size > 0
               /\ LookupRank = <<2 * (dir.blocks - li) + 0, 2 * (Spb - lk) + 0, SectorSize - lat>>
    <2>1. /\ li < dir.blocks /\ lk < Spb /\ L!de.size \in Nat
          /\ L!de \in dir.ents /\ L!de.live /\ L!de.off = lat /\ OnDisk(dir)
      BY <1>7, AtEntry
    <2>2. L!de.off < SectorSize /\ L!de.size > 0
      BY <2>1 DEF OnDisk
    <2> QED BY <1>7, <2>1, <2>2 DEF LookupRank
  <1>8. CASE L!NextEntry
    <2>1. lpc = "entry" /\ dir' = dir /\ li' = li /\ lk' = lk /\ lat + L!de.size < SectorSize
      BY <1>8 DEF L!NextEntry, L!InSector
    <2>2. CASE lpc' = "returned"
      BY <1>3, <2>1, <2>2
    <2>3. CASE lpc' = lpc /\ lat' = lat + L!de.size
      <3>1. PICK n \in Nat : n = L!de.size /\ n > 0
        BY <1>7, <2>1
      <3>2. LookupRank' = <<2 * (dir.blocks - li) + 0, 2 * (Spb - lk) + 0, SectorSize - (lat + n)>>
        BY <2>1, <2>3, <3>1 DEF LookupRank
      <3>3. /\ 2 * (dir.blocks - li) + 0 \in Nat /\ 2 * (Spb - lk) + 0 \in Nat
            /\ SectorSize - lat \in Nat /\ SectorSize - (lat + n) \in Nat
            /\ SectorSize - (lat + n) < SectorSize - lat
        BY <1>1, <1>7, <2>1, <3>1
      <3> QED BY <1>2, <1>7, <2>1, <3>2, <3>3
    <2> QED BY <1>8, <2>2, <2>3 DEF L!NextEntry
  <1>9. CASE L!SectorEnds
    <2>1. lpc = "entry" /\ dir' = dir /\ li' = li /\ lk' = lk + 1 /\ lpc' = "sector"
      BY <1>9 DEF L!SectorEnds
    <2>2. LookupRank' = <<2 * (dir.blocks - li) + 0, 2 * (Spb - (lk + 1)) + 1, 0>>
      BY <2>1 DEF LookupRank
    <2>3. /\ 2 * (dir.blocks - li) + 0 \in Nat /\ 2 * (Spb - lk) + 0 \in Nat
          /\ SectorSize - lat \in Nat /\ 2 * (Spb - (lk + 1)) + 1 \in Nat
          /\ 2 * (Spb - (lk + 1)) + 1 < 2 * (Spb - lk) + 0
      BY <1>1, <1>7, <2>1
    <2> QED BY <1>2, <1>7, <2>1, <2>2, <2>3
  <1> QED BY <1>4, <1>5, <1>6, <1>8, <1>9 DEF L!Step

\* Every step of a transfer that ends leaves less to do.
LEMMA FileFalls ==
    ASSUME FileInv, EndsInv, F!Step, F!Ends
    PROVE  FileRank' \in Ranks /\ Below(FileRank', FileRank)
PROOF
  <1> USE RootFsAssumption
  <1>1. count \in Nat /\ pc \in {"idle", "outer", "inner", "returned"} /\ SectorSize \in Nat \ {0} /\ Spb \in Nat \ {0}
    BY DEF FileInv, FileTypeOK
  <1>2. ASSUME NEW b \in Nat, FileRank = <<count, b, 0>>,
               NEW x \in Nat, NEW y \in Nat, FileRank' = <<x, y, 0>>,
               x < count \/ (x = count /\ y < b)
        PROVE  FileRank' \in Ranks /\ Below(FileRank', FileRank)
    BY <1>1, <1>2 DEF Ranks, Below
  <1>3. ASSUME F!IsExt2(fn), pc \in {"outer", "inner"}
        PROVE  /\ count > 0 => k = 0 /\ count <= SectorSize
               /\ count = 0 => i = 1 /\ F!Slot(file, 1) = 0
    <2>1. F!Handled /\ F!Slot(file, 1) = 0
      BY <1>3 DEF F!Ends, F!Handled
    <2>2. Ready
      BY <1>3, <2>1 DEF FileInv
    <2>3. count > 0 => k = 0 /\ pos0 + count <= SectorSize
      BY <1>1, <1>3, <2>2 DEF Ready
    <2>4. pos0 \in Nat
      BY DEF FileInv, FileTypeOK
    <2> QED BY <1>1, <1>3, <2>1, <2>3, <2>4 DEF EndsInv
  <1>4. pc = "outer" => FileRank = <<count, IF count > 0 THEN 2 ELSE 1, 0>>
    BY <1>1 DEF FileRank
  <1>5. pc = "inner" => FileRank = <<count, IF count > 0 THEN 1 ELSE 2, 0>>
    BY <1>1 DEF FileRank
  <1>6. CASE F!Outer
    <2>1. pc = "outer" /\ F!GoesOn /\ pc' = "inner" /\ count' = count
      BY <1>6 DEF F!Outer
    <2>2. count > 0
      <3>1. CASE ~F!IsExt2(fn)
        BY <2>1, <3>1 DEF F!GoesOn, F!IsExt2
      <3>2. CASE F!IsExt2(fn)
        <4>1. F!Slot(file, i) # 0
          BY <2>1, <3>2 DEF F!GoesOn, F!IsExt2
        <4> QED BY <1>1, <1>3, <2>1, <3>2, <4>1
      <3> QED BY <3>1, <3>2
    <2>3. FileRank = <<count, 2, 0>> /\ FileRank' = <<count, 1, 0>>
      BY <1>4, <2>1, <2>2 DEF FileRank
    <2> QED BY <1>1, <1>2, <2>3
  <1>7. CASE F!Return
    <2>1. pc = "outer" /\ pc' = "returned"
      BY <1>7 DEF F!Return
    <2>2. FileRank' = <<0, 0, 0>>
      BY <2>1 DEF FileRank
    <2>3. PICK b \in Nat : FileRank = <<count, b, 0>> /\ b > 0
      BY <1>4, <2>1
    <2> QED BY <1>1, <1>2, <2>2, <2>3
  <1>8. ASSUME F!Copy PROVE FileRank' \in Ranks /\ Below(FileRank', FileRank)
    <2>1. /\ pc = "inner" /\ count' = count - F!Chars /\ pc' \in {"inner", "outer"}
          /\ F!IsExt2(fn) => count > 0
      BY <1>8 DEF F!Copy
    <2>2. count > 0
      BY <2>1 DEF FileInv
    <2>3. count' \in Nat /\ count' < count
      BY <1>1, <2>1, <2>2 DEF F!Chars
    <2>4. PICK y \in Nat : FileRank' = <<count', y, 0>>
      BY <2>1 DEF FileRank
    <2>5. FileRank = <<count, 1, 0>>
      BY <1>5, <2>1, <2>2
    <2> QED BY <1>2, <2>3, <2>4, <2>5
  <1>9. CASE F!InnerEnds
    <2>1. pc = "inner" /\ F!IsExt2(fn) /\ ~(k < Spb /\ count > 0) /\ pc' = "outer" /\ count' = count
      BY <1>9 DEF F!InnerEnds
    <2>2. count = 0
      BY <1>1, <1>3, <2>1
    <2>3. FileRank = <<count, 2, 0>> /\ FileRank' = <<count, 1, 0>>
      BY <1>5, <2>1, <2>2 DEF FileRank
    <2> QED BY <1>1, <1>2, <2>3
  <1> QED BY <1>6, <1>7, <1>8, <1>9 DEF F!Step, F!ReadSector, F!WriteSector

\* A call has not moved its bytes when it begins, one copy moves those of the first
\* sector, and what a call has taken it gives back when it returns.
LEMMA EndsStep == RootInv /\ EndsInv /\ NothingKept /\ [Next]_vars => EndsInv' /\ NothingKept'
PROOF
  <1> SUFFICES ASSUME RootInv, EndsInv, NothingKept, [Next]_vars PROVE EndsInv' /\ NothingKept'
    OBVIOUS
  <1> USE RootFsAssumption
  <1>1. FileInv /\ count \in Nat
    BY DEF RootInv, FileInv, FileTypeOK
  <1>2. ASSUME UNCHANGED fileVars PROVE EndsInv' /\ NothingKept'
    <2>1. UNCHANGED <<pc, fn, file, pos0, count0, count, i, bufs, mem>>
      BY <1>2 DEF fileVars
    <2> QED BY <2>1 DEF EndsInv, NothingKept, F!IsExt2, F!Ends, F!Slot, F!NotRegular
  <1>3. ASSUME NEW g, NEW f, NEW p, NEW c, F!Call(g, f, p, c) PROVE EndsInv' /\ NothingKept'
    <2>1. /\ fn' = g /\ file' = f /\ pos0' = p /\ count0' = c /\ count' = c
          /\ mem' = IF F!IsExt2(g) /\ ~F!Refused(g, f, p, c) THEN 1 ELSE 0
          /\ bufs' = IF g = "ext2_write" /\ ~F!Refused(g, f, p, c) THEN 1 ELSE 0
          /\ pc' = "returned" => F!Refused(g, f, p, c) \/ F!NotRegular(g, f)
      BY <1>3 DEF F!Call
    <2>2. EndsInv'
      <3>1. SUFFICES ASSUME F!IsExt2(fn)', F!Ends', count' = 0 PROVE FALSE
        BY DEF EndsInv
      <3>2. count0' > 0
        BY <3>1 DEF F!Ends
      <3> QED BY <2>1, <3>1, <3>2
    <2>3. NothingKept'
      BY <2>1 DEF NothingKept, F!NotRegular, F!IsExt2
    <2> QED BY <2>2, <2>3
  <1>4. ASSUME pc' \in {"outer", "inner"}, UNCHANGED <<fn, file, pos0, count0, count, i>>,
               pc \in {"outer", "inner"}
        PROVE  EndsInv' /\ NothingKept'
    BY <1>4 DEF EndsInv, NothingKept, F!IsExt2, F!Ends, F!Slot
  <1>5. CASE F!Outer \/ F!InnerEnds
    BY <1>4, <1>5 DEF F!Outer, F!InnerEnds
  <1>6. CASE F!Return
    BY <1>6 DEF F!Return, EndsInv, NothingKept
  <1>7. CASE F!Copy
    <2>1. /\ pc = "inner" /\ pc' \in {"inner", "outer"} /\ i' = i + 1
          /\ UNCHANGED <<fn, file, pos0, count0>> /\ (F!IsExt2(fn) => count > 0)
      BY <1>7 DEF F!Copy
    <2>2. ASSUME F!IsExt2(fn), F!Ends PROVE i = 0
      <3>1. F!Handled
        BY <2>2 DEF F!Ends, F!Handled
      <3>2. Ready
        BY <1>1, <2>1, <3>1 DEF FileInv
      <3> QED BY <1>1, <2>1, <2>2, <3>2 DEF Ready
    <2>3. F!IsExt2(fn)' = F!IsExt2(fn) /\ F!Ends' = F!Ends
      BY <2>1 DEF F!IsExt2, F!Ends, F!Slot
    <2>4. EndsInv'
      BY <2>1, <2>2, <2>3 DEF EndsInv
    <2>5. NothingKept'
      BY <2>1 DEF NothingKept
    <2> QED BY <2>4, <2>5
  <1>8. CASE FileStep
    BY <1>5, <1>6, <1>7, <1>8 DEF FileStep, F!Step, F!ReadSector, F!WriteSector
  <1>9. CASE FileCall \/ DevfsCall
    BY <1>3, <1>9 DEF FileCall, DevfsCall
  <1>10. CASE UNCHANGED vars
    BY <1>2, <1>10 DEF vars
  <1>11. CASE LookupStep \/ DevfsPanic \/ \E d \in Directories, name \in Names : Lookup(d, name)
    BY <1>2, <1>11 DEF LookupStep, DevfsPanic, Lookup
  <1> QED BY <1>8, <1>9, <1>10, <1>11 DEF Next

\* The loops of ext2_lookup on an aligned directory, of any number of blocks and entries,
\* come to an end: every step leaves fewer blocks, sectors or bytes, since entries in use
\* are not empty.  With fairness that is LookupReturns.
THEOREM LookupTerminates == Spec => [][LookupDescends]_vars
PROOF
  <1>1. RootInv /\ [Next]_vars => [LookupDescends]_vars
    BY LookupFalls DEF RootInv, LookupDescends
  <1> QED BY <1>1, RootInvariant, PTL DEF Spec

\* So do the loops of the calls that CallsReturn is about, for any count on the device
\* and in the first sector of a file with one block; and a call that has returned has
\* put back its buffer and freed its memory, unless it refused what is not a regular file.
THEOREM TransferTerminates == Spec => [][FileDescends]_vars /\ []NothingKept
PROOF
  <1>1. Init => EndsInv /\ NothingKept
    BY DEF Init, F!Init, EndsInv, NothingKept
  <1>2. Spec => []EndsInv /\ []NothingKept
    BY <1>1, EndsStep, RootInvariant, PTL DEF Spec
  <1>3. RootInv /\ EndsInv /\ [Next]_vars => [FileDescends]_vars
    BY FileFalls DEF RootInv, FileDescends
  <1> QED BY <1>2, <1>3, RootInvariant, PTL DEF Spec
=============================================================================

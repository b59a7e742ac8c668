----------------------------- MODULE MountProofs -----------------------------
(***************************************************************************)
(* Proofs about the registry of file systems and about mounting, for any   *)
(* file system types, any order of calls and any disk in ext2's format.    *)
(***************************************************************************)
EXTENDS Ext2Mount, FiniteSetTheorems, WellFoundedInduction, TLAPS

-----------------------------------------------------------------------------
(* Arithmetic.                                                             *)

\* Division with a remainder.
LEMMA Division ==
    ASSUME NEW x \in Nat, NEW b \in Nat \ {0}
    PROVE  \E q, r \in Nat : q = x \div b /\ r = x % b /\ r < b /\ x = b * q + r
PROOF
  <1>1. x \div b \in Nat /\ x % b \in Nat /\ x % b < b /\ x = (x % b) + b * (x \div b)
    OBVIOUS
  <1>2. PICK q \in Nat, r \in Nat : q = x \div b /\ r = x % b
    BY <1>1
  <1>3. b * q \in Nat
    BY SMT
  <1>4. x = b * q + r
    BY <1>1, <1>2, <1>3
  <1> QED BY <1>1, <1>2, <1>4

\* It is unique.
LEMMA DivisionUnique ==
    ASSUME NEW b \in Nat \ {0}, NEW q \in Nat, NEW r \in Nat, r < b, NEW x, x = b * q + r
    PROVE  x \in Nat /\ x \div b = q /\ x % b = r
PROOF
  <1>0. b * q \in Nat
    BY SMT
  <1>1. x \in Nat
    BY <1>0
  <1>2. PICK u \in Nat, v \in Nat : u = x \div b /\ v = x % b /\ v < b /\ x = b * u + v
    BY <1>1, Division
  <1>3. b * u \in Nat
    BY SMT
  <1>4. ASSUME NEW y \in Nat, NEW z \in Nat, y < z PROVE b * y + b <= b * z
    <2>1. z - y \in Nat /\ z - y >= 1
      BY <1>4
    <2>2. b * (z - y) >= b
      BY <2>1, SMT
    <2>3. b * (z - y) = b * z - b * y
      BY SMT
    <2>4. b * y \in Nat /\ b * z \in Nat
      BY SMT
    <2> QED BY <2>2, <2>3, <2>4
  <1>5. ~(u < q) /\ ~(q < u)
    BY <1>0, <1>2, <1>3, <1>4
  <1>6. u = q
    BY <1>5
  <1> QED BY <1>0, <1>1, <1>2, <1>3, <1>6

\* read_inode's two roundings: a block of w sectors holds q inodes of size z, and x is
\* the inode's index in the table that begins at block t.
Rounded(c, w, z, q, t, x, byte, block) ==
    /\ c * w = q * z
    /\ byte = z * (x % q) /\ block = t + (x * z) \div (c * w)

Exact(c, w, z, t, x, byte, block) ==
    /\ byte \in Nat /\ block \in Nat /\ block >= t
    /\ \E v, o \in Nat : /\ v = byte \div c /\ o = byte % c
                         /\ (w * block + v) * c + o = t * (c * w) + x * z

\* They lose nothing.
LEMMA TwoRoundings ==
    \A c, w, z, q \in Nat \ {0}, t, x \in Nat : \A byte, block :
        Rounded(c, w, z, q, t, x, byte, block) => Exact(c, w, z, t, x, byte, block)
PROOF
  <1>0. SUFFICES ASSUME NEW c \in Nat \ {0}, NEW w \in Nat \ {0}, NEW z \in Nat \ {0},
                        NEW q \in Nat \ {0}, NEW t \in Nat, NEW x \in Nat, NEW byte, NEW block,
                        Rounded(c, w, z, q, t, x, byte, block)
                 PROVE  Exact(c, w, z, t, x, byte, block)
    OBVIOUS
  <1>H. c * w = q * z /\ byte = z * (x % q) /\ block = t + (x * z) \div (c * w)
    BY <1>0 DEF Rounded
  <1>1. PICK u \in Nat, r \in Nat : u = x \div q /\ r = x % q /\ r < q /\ x = q * u + r
    BY Division
  <1>2. PICK b \in Nat \ {0} : b = c * w
    BY SMT
  <1>3. byte = z * r /\ byte \in Nat
    <2>1. z * r \in Nat
      BY SMT
    <2> QED BY <1>H, <1>1, <2>1
  <1>4. byte < b
    <2>1. q - r \in Nat /\ q - r >= 1
      BY <1>1
    <2>2. z * (q - r) >= z
      BY <2>1, SMT
    <2>3. z * (q - r) = z * q - z * r
      BY SMT
    <2>4. z * q = b /\ z * r = byte
      <3>1. z * q = q * z
        BY SMT
      <3> QED BY <1>H, <1>2, <1>3, <3>1
    <2> QED BY <1>3, <2>2, <2>3, <2>4
  <1>5. x * z = b * u + byte
    <2>1. (q * u + r) * z = (q * z) * u + z * r
      BY SMT
    <2> QED BY <1>H, <1>1, <1>2, <1>3, <2>1
  <1>6. (x * z) \div b = u
    <2>1. PICK y : y = x * z
      OBVIOUS
    <2> QED BY <1>3, <1>4, <1>5, <2>1, DivisionUnique
  <1>7. block = t + u
    BY <1>H, <1>2, <1>6
  <1>8. PICK v \in Nat, o \in Nat : v = byte \div c /\ o = byte % c /\ byte = c * v + o
    <2>1. \A y \in Nat : \E v, o \in Nat : v = y \div c /\ o = y % c /\ y = c * v + o
      BY Division
    <2> QED BY <1>3, <2>1
  <1>9. (w * (t + u) + v) * c + o = t * (c * w) + ((c * w) * u + (c * v + o))
    BY SMT
  <1>10. (w * block + v) * c + o = t * (c * w) + x * z
    BY <1>2, <1>5, <1>7, <1>8, <1>9
  <1>11. byte \in Nat /\ block \in Nat /\ block >= t
    BY <1>3, <1>7
  <1> QED BY <1>8, <1>10, <1>11 DEF Exact

\* An inode does not reach over the end of its sector: sectors hold whole inodes, or
\* inodes fill whole sectors.
LEMMA InOneSector ==
    ASSUME NEW c \in Nat \ {0}, NEW z \in Nat \ {0}, NEW y \in Nat, NEW e \in Nat,
           e <= z, e <= c, c % z = 0 \/ z % c = 0
    PROVE  ((z * y) % c) + e <= c
PROOF
  <1>1. CASE z % c = 0
    <2>1. PICK m \in Nat : z = c * m
      <3>1. PICK q \in Nat, r \in Nat : r = z % c /\ z = c * q + r
        BY Division
      <3>2. c * q \in Nat
        BY SMT
      <3> QED BY <1>1, <3>1, <3>2
    <2>2. PICK p \in Nat : p = m * y
      BY SMT
    <2>3. z * y = c * p + 0
      <3>1. (c * m) * y = c * (m * y)
        BY SMT
      <3>2. c * p \in Nat
        BY SMT
      <3> QED BY <2>1, <2>2, <3>1, <3>2
    <2>4. PICK x : x = z * y
      OBVIOUS
    <2>5. x % c = 0
      BY <2>3, <2>4, DivisionUnique
    <2> QED BY <2>4, <2>5
  <1>2. CASE c % z = 0
    <2>1. PICK m \in Nat : c = z * m
      <3>1. PICK q \in Nat, r \in Nat : r = c % z /\ c = z * q + r
        BY Division
      <3>2. z * q \in Nat
        BY SMT
      <3> QED BY <1>2, <3>1, <3>2
    <2>2. m # 0
      BY <2>1
    <2>3. PICK u \in Nat, r \in Nat : y = m * u + r /\ r < m
      BY <2>2, Division
    <2>4. PICK k \in Nat : k = z * r
      BY SMT
    <2>5. z * y = c * u + k
      <3>1. z * (m * u + r) = (z * m) * u + z * r
        BY SMT
      <3> QED BY <2>1, <2>3, <2>4, <3>1
    <2>6. k + z <= c
      <3>1. m - r \in Nat /\ m - r >= 1
        BY <2>3
      <3>2. z * (m - r) >= z
        BY <3>1, SMT
      <3>3. z * (m - r) = z * m - z * r
        BY SMT
      <3> QED BY <2>1, <2>4, <3>2, <3>3
    <2>7. PICK x : x = z * y
      OBVIOUS
    <2>9. k < c
      BY <2>6
    <2>8. x % c = k
      <3>1. x = c * u + k
        BY <2>5, <2>7
      <3>2. \A a, b \in Nat : b < c /\ x = c * a + b => x % c = b
        BY DivisionUnique
      <3> QED BY <2>3, <2>4, <2>9, <3>1, <3>2
    <2> QED BY <2>6, <2>7, <2>8
  <1> QED BY <1>1, <1>2

-----------------------------------------------------------------------------
(* Mounting and finding inodes.                                            *)

\* A block is w sectors and holds q inodes of z bytes.
Shape(g, w, z, q) ==
    /\ g.block_size = BLOCK_SIZE * w /\ g.inode_size = z /\ g.inodes_per_block = q
    /\ BLOCK_SIZE * w = q * z
    /\ z >= InodeBytes /\ (BLOCK_SIZE % z = 0 \/ z % BLOCK_SIZE = 0)
    /\ \/ w = 2 /\ g.bgd_addr = 2
       \/ w >= 4 /\ g.bgd_addr = 1

\* What ext2_parse_superblock makes of a superblock in ext2's format.
LEMMA GeometryShape ==
    ASSUME NEW s \in Superblocks, s.signature = SIGNATURE
    PROVE  /\ \E w, z, q \in Nat \ {0} : Shape(Geometry(s), w, z, q)
           /\ Geometry(s).inodes_per_group = s.inodes_per_group
PROOF
  <1>1. /\ 2 ^ s.log_block_size \in Nat \ {0}
        /\ s.major >= 1 =>
              /\ s.inode_size >= InodeBytes
              /\ (1024 * 2 ^ s.log_block_size) % s.inode_size = 0
              /\ BLOCK_SIZE % s.inode_size = 0 \/ s.inode_size % BLOCK_SIZE = 0
    BY Ext2Assumption
  <1>2. s.inode_size \in Nat /\ s.major \in Nat
    BY Ext2Assumption DEF Superblock
  <1>3. PICK p \in Nat \ {0} : p = 2 ^ s.log_block_size
    BY <1>1
  <1>4. PICK b \in Nat \ {0} : b = 1024 * p
    OBVIOUS
  <1>5. PICK z \in Nat \ {0} : /\ z = (IF s.major >= 1 THEN s.inode_size ELSE 128)
                               /\ z >= InodeBytes
                               /\ (BLOCK_SIZE % z = 0 \/ z % BLOCK_SIZE = 0)
    <2>1. CASE s.major >= 1
      BY <1>1, <1>2, <2>1 DEF InodeBytes
    <2>2. CASE ~(s.major >= 1)
      <3>1. 512 % 128 = 0
        OBVIOUS
      <3> QED BY <2>2, <3>1 DEF InodeBytes, BLOCK_SIZE
    <2> QED BY <2>1, <2>2
  <1>6. b % z = 0
    <2>1. CASE s.major >= 1
      <3>1. (1024 * p) % s.inode_size = 0
        BY <1>1, <1>3, <2>1
      <3> QED BY <1>4, <1>5, <2>1, <3>1
    <2>2. CASE ~(s.major >= 1)
      <3>1. z = 128 /\ b = 128 * (8 * p) + 0
        BY <1>4, <1>5, <2>2
      <3>2. 8 * p \in Nat /\ 128 \in Nat \ {0} /\ 0 < 128
        OBVIOUS
      <3>3. b % 128 = 0
        BY <3>1, <3>2, DivisionUnique
      <3> QED BY <3>1, <3>3
    <2> QED BY <2>1, <2>2
  <1>7. PICK q \in Nat : q = b \div z /\ b = q * z
    <2>1. PICK q \in Nat, r \in Nat : q = b \div z /\ r = b % z /\ b = z * q + r
      BY Division
    <2>2. z * q \in Nat /\ z * q = q * z
      BY SMT
    <2>3. r = 0
      BY <1>6, <2>1
    <2>4. b = q * z
      BY <2>1, <2>2, <2>3
    <2> QED BY <2>1, <2>4
  <1>8. q # 0
    BY <1>4, <1>7
  <1>9. PICK w \in Nat \ {0} : w = 2 * p /\ b = BLOCK_SIZE * w
    BY <1>4 DEF BLOCK_SIZE
  <1>10. /\ Geometry(s).block_size = b /\ Geometry(s).inode_size = z
         /\ Geometry(s).inodes_per_block = q
         /\ Geometry(s).bgd_addr = (IF b = 1024 THEN 2 ELSE 1)
         /\ Geometry(s).inodes_per_group = s.inodes_per_group
    BY <1>3, <1>4, <1>5, <1>7 DEF Geometry
  <1>11. \/ w = 2 /\ b = 1024
         \/ w >= 4 /\ b # 1024
    BY <1>4, <1>9
  <1>12. Shape(Geometry(s), w, z, q)
    <2>1. /\ Geometry(s).block_size = BLOCK_SIZE * w /\ BLOCK_SIZE * w = q * z
          /\ Geometry(s).inode_size = z /\ Geometry(s).inodes_per_block = q
      BY <1>7, <1>9, <1>10
    <2>2. \/ w = 2 /\ Geometry(s).bgd_addr = 2
          \/ w >= 4 /\ Geometry(s).bgd_addr = 1
      BY <1>10, <1>11
    <2> QED BY Zenon, <1>5, <2>1, <2>2 DEF Shape
  <1> QED BY <1>8, <1>10, <1>12

\* An inode's number tells its group and its index in the group's table.
LEMMA InodeNumber ==
    ASSUME NEW s \in Superblocks, s.signature = SIGNATURE, NEW inode \in Inodes(s)
    PROVE  \E x, h \in Nat : /\ x = (inode - 1) % s.inodes_per_group
                             /\ h = (inode - 1) \div s.inodes_per_group
                             /\ x = inode - 1 - h * s.inodes_per_group
                             /\ InodeTable[h] \in Nat /\ InodeTable[h] > 2
PROOF
  <1>1. /\ s.inodes_per_group \in Nat /\ s.block_count \in Nat /\ s.blocks_per_group \in Nat
        /\ s.block_count > 0 /\ s.blocks_per_group > 0 /\ s.inodes_per_group >= 2
    BY Ext2Assumption DEF Superblock, ROOT_DIRECTORY
  <1>2. PICK n \in Nat \ {0} : n = s.inodes_per_group
    BY <1>1
  <1>3. PICK m \in Nat : m = CEILING_DIV(s.block_count, s.blocks_per_group)
    <2>1. PICK a \in Nat, b \in Nat \ {0} : a = s.block_count - 1 /\ b = s.blocks_per_group
      BY <1>1
    <2>2. a \div b \in Nat
      BY Division
    <2>3. CEILING_DIV(s.block_count, s.blocks_per_group) = 1 + (a \div b)
      BY <2>1 DEF CEILING_DIV
    <2> QED BY <2>2, <2>3
  <1>4. PICK y \in Nat : y = inode - 1 /\ y < n * m
    <2>1. inode \in 1..(n * m)
      BY <1>2, <1>3 DEF Inodes
    <2>2. n * m \in Nat
      BY SMT
    <2> QED BY <2>1, <2>2
  <1>5. PICK h \in Nat, x \in Nat : h = y \div n /\ x = y % n /\ x < n /\ y = n * h + x
    BY Division
  <1>6. h < m
    <2>1. SUFFICES ASSUME h >= m PROVE FALSE
      BY <1>3, <1>5
    <2>2. n * (h - m) \in Nat
      <3>1. h - m \in Nat
        BY <2>1
      <3> QED BY <3>1, SMT
    <2>3. n * (h - m) = n * h - n * m
      BY SMT
    <2>4. n * h \in Nat /\ n * m \in Nat
      BY SMT
    <2> QED BY <1>4, <1>5, <2>2, <2>3, <2>4
  <1>7. h \in 0..(m - 1)
    BY <1>3, <1>6
  <1>8. InodeTable[h] \in Nat /\ InodeTable[h] > 2
    BY <1>3, <1>7, Ext2Assumption
  <1>9. x = y - h * n
    <2>1. n * h = h * n /\ n * h \in Nat
      BY SMT
    <2> QED BY <1>5, <2>1
  <1>10. x = inode - 1 - h * s.inodes_per_group
    BY <1>2, <1>4, <1>9
  <1> QED BY <1>2, <1>4, <1>5, <1>8, <1>10

\* Where read_inode looks is where the inode is.
LEMMA LocateRight ==
    ASSUME NEW s \in Superblocks, s.signature = SIGNATURE, NEW inode \in Inodes(s),
           NEW g, g = Geometry(s), NEW at, at = Locate(g, inode)
    PROVE  /\ at.offset + InodeBytes <= BLOCK_SIZE
           /\ at.group < BLOCK_SIZE \div BgdBytes =>
                /\ at.sector * BLOCK_SIZE + at.offset =
                     InodeTable[at.group] * g.block_size
                     + (at.inode - 1 - at.group * g.inodes_per_group) * g.inode_size
                /\ at.sector \in Nat /\ at.sector >= ADDR_OF_BLOCK(g, InodeTable[at.group])
PROOF
  <1>1. PICK w \in Nat \ {0}, z \in Nat \ {0}, q \in Nat \ {0} : Shape(g, w, z, q)
    BY GeometryShape
  <1>2. g.inodes_per_group = s.inodes_per_group
    BY GeometryShape
  <1>3. PICK x \in Nat, h \in Nat : /\ x = (inode - 1) % s.inodes_per_group
                                    /\ h = (inode - 1) \div s.inodes_per_group
                                    /\ x = inode - 1 - h * s.inodes_per_group
                                    /\ InodeTable[h] \in Nat /\ InodeTable[h] > 2
    BY InodeNumber
  <1>4. /\ g.block_size = 512 * w /\ g.inode_size = z /\ g.inodes_per_block = q
        /\ 512 * w = q * z /\ z >= 128 /\ (512 % z = 0 \/ z % 512 = 0)
    BY <1>1 DEF Shape, BLOCK_SIZE, InodeBytes
  <1>5. (512 * w) \div 512 = w
    OBVIOUS
  <1> DEFINE byte == z * (x % q)
             t == TableOf(h)
             block == t + (x * z) \div (512 * w)
  <1>6. /\ at.inode = inode /\ at.group = h
        /\ at.sector = w * block + byte \div 512
        /\ at.offset = byte % 512
    BY <1>2, <1>3, <1>4, <1>5 DEF Locate, ADDR_OF_BLOCK, BLOCK_SIZE
  <1>7. at.offset + 128 <= 512
    <2>1. x % q \in Nat
      BY Division
    <2>2. PICK y \in Nat : y = x % q
      BY <2>1
    <2>3. ((z * y) % 512) + 128 <= 512
      <3>1. PICK c \in Nat \ {0}, e \in Nat : c = 512 /\ e = 128 /\ e <= z /\ e <= c
        BY <1>4
      <3>2. c % z = 0 \/ z % c = 0
        BY <1>4, <3>1
      <3>4. e <= z /\ e <= c
        BY <3>1
      <3>3. ((z * y) % c) + e <= c
        BY <3>2, <3>4, InOneSector
      <3> QED BY <3>1, <3>3
    <2> QED BY <1>6, <2>2, <2>3
  <1>8. ASSUME h < 16
        PROVE  /\ at.sector * 512 + at.offset =
                    InodeTable[h] * (512 * w) + x * z
               /\ at.sector \in Nat /\ at.sector >= w * InodeTable[h]
    <2>1. PICK u \in Nat : u = InodeTable[h] /\ t = u
      <3>1. (h + 1) * 32 <= 512
        BY <1>8
      <3> QED BY <1>3, <3>1 DEF TableOf, BgdBytes, BLOCK_SIZE
    <2> HIDE DEF t
    <2>2. PICK bb, bl : bb = byte /\ bl = block
      OBVIOUS
    <2>3. bb = z * (x % q) /\ bl = u + (x * z) \div (512 * w)
      BY <2>1, <2>2
    <2> HIDE DEF byte, block
    <2>4. /\ bb \in Nat /\ bl \in Nat /\ bl >= u
          /\ \E v, o \in Nat : /\ v = bb \div 512 /\ o = bb % 512
                               /\ (w * bl + v) * 512 + o = u * (512 * w) + x * z
      <3>1. PICK c \in Nat \ {0} : c = 512
        OBVIOUS
      <3>2. c * w = q * z /\ bl = u + (x * z) \div (c * w)
        BY <1>4, <2>3, <3>1
      <3>3. /\ bb \in Nat /\ bl \in Nat /\ bl >= u
            /\ \E v, o \in Nat : /\ v = bb \div c /\ o = bb % c
                                 /\ (w * bl + v) * c + o = u * (c * w) + x * z
        <4>1. bb = z * (x % q)
          BY <2>3
        <4>2. Rounded(c, w, z, q, u, x, bb, bl)
          BY <3>2, <4>1 DEF Rounded
        <4>3. Exact(c, w, z, u, x, bb, bl)
          BY <4>2, TwoRoundings
        <4> QED BY <4>3 DEF Exact
      <3> QED BY <3>1, <3>3
    <2>5. PICK v \in Nat, o \in Nat : /\ v = bb \div 512 /\ o = bb % 512
                                      /\ (w * bl + v) * 512 + o = u * (512 * w) + x * z
      BY <2>4
    <2>6. at.sector = w * bl + v /\ at.offset = o
      BY <1>6, <2>2, <2>5
    <2>7. at.sector * 512 + at.offset = u * (512 * w) + x * z
      BY <2>5, <2>6
    <2>8. w * bl \in Nat /\ w * u \in Nat /\ w * bl >= w * u
      <3>1. bl - u \in Nat
        BY <2>4
      <3>2. w * (bl - u) \in Nat
        BY <3>1, SMT
      <3>3. w * (bl - u) = w * bl - w * u
        BY <2>4, SMT
      <3>4. w * bl \in Nat /\ w * u \in Nat
        BY <2>4, SMT
      <3> QED BY <3>2, <3>3, <3>4
    <2> QED BY <2>1, <2>6, <2>7, <2>8
  <1>9. 512 \div 32 = 16
    OBVIOUS
  <1>10. ADDR_OF_BLOCK(g, InodeTable[h]) = w * InodeTable[h]
    BY <1>4, <1>5 DEF ADDR_OF_BLOCK, BLOCK_SIZE
  <1>11. at.inode - 1 - at.group * g.inodes_per_group = x
    BY <1>2, <1>3, <1>6
  <1>12. at.offset + InodeBytes <= BLOCK_SIZE
    BY <1>7 DEF InodeBytes, BLOCK_SIZE
  <1>13. ASSUME at.group < BLOCK_SIZE \div BgdBytes
         PROVE  /\ at.sector * BLOCK_SIZE + at.offset =
                     InodeTable[at.group] * g.block_size + x * g.inode_size
                /\ at.sector \in Nat /\ at.sector >= ADDR_OF_BLOCK(g, InodeTable[at.group])
    <2>1. h < 16
      BY <1>6, <1>9, <1>13 DEF BLOCK_SIZE, BgdBytes
    <2> QED BY <1>4, <1>6, <1>8, <1>10, <2>1 DEF BLOCK_SIZE
  <1> QED BY <1>11, <1>12, <1>13

\* The root directory's inode exists, in the first group.
LEMMA RootExists ==
    ASSUME NEW s \in Superblocks, s.signature = SIGNATURE
    PROVE  /\ ROOT_DIRECTORY \in Inodes(s)
           /\ (ROOT_DIRECTORY - 1) \div s.inodes_per_group = 0
PROOF
  <1>1. /\ s.inodes_per_group \in Nat /\ s.block_count \in Nat /\ s.blocks_per_group \in Nat
        /\ s.block_count > 0 /\ s.blocks_per_group > 0 /\ s.inodes_per_group >= 2
    BY Ext2Assumption DEF Superblock, ROOT_DIRECTORY
  <1>2. PICK a \in Nat, b \in Nat \ {0} : a = s.block_count - 1 /\ b = s.blocks_per_group
    BY <1>1
  <1>3. PICK d \in Nat : d = a \div b
    BY Division
  <1>4. CEILING_DIV(s.block_count, s.blocks_per_group) = 1 + d
    BY <1>2, <1>3 DEF CEILING_DIV
  <1>5. PICK n \in Nat \ {0} : n = s.inodes_per_group /\ n >= 2
    BY <1>1
  <1>6. n * (1 + d) = n + n * d /\ n * d \in Nat
    BY SMT
  <1>7. 2 \in 1..(n * (1 + d))
    BY <1>5, <1>6
  <1>8. 1 \div n = 0
    <2>1. PICK x \in Nat : x = 1 /\ x < n
      BY <1>5
    <2>2. n * 0 + x = x
      BY SMT
    <2>3. x \div n = 0
      BY <2>1, <2>2, DivisionUnique
    <2> QED BY <2>1, <2>3
  <1>9. (2 - 1) \div n = 0
    BY <1>8
  <1> QED BY <1>4, <1>5, <1>7, <1>9 DEF Inodes, ROOT_DIRECTORY

\* What mounting leaves behind comes from the superblock, and what read_inode was last
\* asked for from what mounting left behind.
MountInv ==
    /\ sb \in Superblocks
    /\ geo # Unmounted =>
         /\ sb.signature = SIGNATURE /\ geo = Geometry(sb)
         /\ held = {ADDR_OF_BLOCK(geo, geo.bgd_addr), Locate(geo, ROOT_DIRECTORY).sector}
    /\ got # NoInode =>
         geo # Unmounted /\ \E inode \in Inodes(sb) : got = Locate(geo, inode)

LEMMA MountStep == MountInv /\ [Next]_vars => MountInv'
PROOF
  <1> SUFFICES ASSUME MountInv, [Next]_vars PROVE MountInv'
    OBVIOUS
  <1>1. CASE UNCHANGED <<sb, geo, held, got>>
    BY <1>1 DEF MountInv
  <1>2. ASSUME ReadSuper, sb' = sb, sb.signature = SIGNATURE PROVE MountInv'
    <2>1. /\ geo' = Geometry(sb) /\ got' = Locate(geo', ROOT_DIRECTORY)
          /\ held' = {ADDR_OF_BLOCK(geo', geo'.bgd_addr), got'.sector}
      BY <1>2 DEF ReadSuper
    <2>2. sb \in Superblocks
      BY DEF MountInv
    <2>3. ROOT_DIRECTORY \in Inodes(sb)
      BY <1>2, <2>2, RootExists
    <2>4. Geometry(sb) # Unmounted
      <3>1. PICK w \in Nat \ {0}, z \in Nat \ {0}, q \in Nat \ {0} : Shape(Geometry(sb), w, z, q)
        BY <1>2, <2>2, GeometryShape
      <3>2. Geometry(sb).block_size = 512 * w /\ 512 * w # 0
        BY <3>1 DEF Shape, BLOCK_SIZE
      <3>3. Unmounted.block_size = 0
        BY DEF Unmounted
      <3> QED BY <3>2, <3>3
    <2> QED BY <1>2, <2>1, <2>2, <2>3, <2>4 DEF MountInv
  <1>3. ASSUME NEW fs \in FileSystems, NEW type, NEW link, InitFs(fs, type, link) PROVE MountInv'
    <2>1. sb' = sb
      BY <1>3 DEF InitFs
    <2>2. \/ UNCHANGED <<geo, held, got>>
          \/ ReadSuper /\ sb.signature = SIGNATURE
      BY <1>3 DEF InitFs
    <2> QED BY <1>1, <1>2, <2>1, <2>2
  <1>4. ASSUME NEW inode \in Inodes(sb), ReadInode(inode) PROVE MountInv'
    <2>1. geo # Unmounted /\ got' = Locate(geo, inode) /\ UNCHANGED <<sb, geo, held>>
      BY <1>4 DEF ReadInode
    <2> QED BY <2>1 DEF MountInv
  <1>5. ASSUME NEW minor \in Minors, AddBdev(minor) PROVE MountInv'
    BY <1>1, <1>5 DEF AddBdev
  <1>6. CASE VfsStep /\ UNCHANGED mountVars
    BY <1>1, <1>6 DEF mountVars
  <1>7. CASE UNCHANGED vars
    BY <1>1, <1>7 DEF vars, mountVars
  <1> QED BY <1>3, <1>4, <1>5, <1>6, <1>7 DEF Next

\* What mounting leaves behind, in every state.
THEOREM MountInvariant == Spec => []MountInv
PROOF
  <1>1. Init => MountInv
    BY DEF Init, MountInv
  <1> QED BY <1>1, MountStep, PTL DEF Spec

\* read_inode looks for an inode where it is, for every disk in ext2's format.
THEOREM InodePlaceRightHolds == Spec => []InodePlaceRight
PROOF
  <1>1. MountInv => InodePlaceRight
    <2> SUFFICES ASSUME MountInv PROVE InodePlaceRight
      OBVIOUS
    <2>1. CASE got = NoInode
      <3>1. got.offset = 0
        BY <2>1 DEF NoInode
      <3> QED BY <2>1, <3>1 DEF InodePlaceRight, InodeBytes, BLOCK_SIZE
    <2>2. CASE got # NoInode
      <3>1. PICK inode \in Inodes(sb) : got = Locate(geo, inode)
        BY <2>2 DEF MountInv
      <3>2. sb \in Superblocks /\ sb.signature = SIGNATURE /\ geo = Geometry(sb)
        BY <2>2 DEF MountInv
      <3>3. /\ got.offset + InodeBytes <= BLOCK_SIZE
            /\ got.group < BLOCK_SIZE \div BgdBytes =>
                 got.sector * BLOCK_SIZE + got.offset =
                     InodeTable[got.group] * geo.block_size
                     + (got.inode - 1 - got.group * geo.inodes_per_group) * geo.inode_size
        BY <3>1, <3>2, LocateRight
      <3> QED BY <3>3 DEF InodePlaceRight
    <2> QED BY <2>1, <2>2
  <1> QED BY <1>1, MountInvariant, PTL

\* The two buffers that mounting keeps.
THEOREM TableHeldHolds == Spec => []TableHeld
PROOF
  <1>1. MountInv => TableHeld
    <2>1. SUFFICES ASSUME MountInv, geo # Unmounted
                   PROVE  /\ ADDR_OF_BLOCK(geo, geo.bgd_addr) \in held
                          /\ ADDR_OF_BLOCK(geo, geo.bgd_addr) >= SUPERBLOCK_ADDR + 2
                          /\ Cardinality(held) = 2
      BY DEF TableHeld
    <2>2. sb \in Superblocks /\ sb.signature = SIGNATURE /\ geo = Geometry(sb)
      BY <2>1 DEF MountInv
    <2>3. PICK a, b : /\ a = ADDR_OF_BLOCK(geo, geo.bgd_addr)
                      /\ b = Locate(geo, ROOT_DIRECTORY).sector /\ held = {a, b}
      BY <2>1 DEF MountInv
    <2>4. PICK w \in Nat \ {0}, z \in Nat \ {0}, q \in Nat \ {0} : Shape(geo, w, z, q)
      BY <2>2, GeometryShape
    <2>5. ASSUME NEW n \in Nat PROVE ADDR_OF_BLOCK(geo, n) = w * n
      <3>1. geo.block_size = 512 * w
        BY <2>4 DEF Shape, BLOCK_SIZE
      <3>2. (512 * w) \div 512 = w
        OBVIOUS
      <3> QED BY <3>1, <3>2 DEF ADDR_OF_BLOCK, BLOCK_SIZE
    <2>6. a \in Nat /\ a >= 4 /\ a <= 2 * w
      <3>1. \/ w = 2 /\ geo.bgd_addr = 2
            \/ w >= 4 /\ geo.bgd_addr = 1
        BY <2>4 DEF Shape
      <3>2. CASE w = 2 /\ geo.bgd_addr = 2
        <4>1. a = w * 2
          BY <2>3, <2>5, <3>2
        <4> QED BY <3>2, <4>1
      <3>3. CASE w >= 4 /\ geo.bgd_addr = 1
        <4>1. a = w * 1
          BY <2>3, <2>5, <3>3
        <4> QED BY <3>3, <4>1
      <3> QED BY <3>1, <3>2, <3>3
    <2>7. b \in Nat /\ b >= 3 * w
      <3>1. ROOT_DIRECTORY \in Inodes(sb) /\ (ROOT_DIRECTORY - 1) \div sb.inodes_per_group = 0
        BY <2>2, RootExists
      <3>2. geo.inodes_per_group = sb.inodes_per_group
        BY <2>2, GeometryShape
      <3>3. PICK at : at = Locate(geo, ROOT_DIRECTORY)
        OBVIOUS
      <3>4. at.group = 0
        BY <3>1, <3>2, <3>3 DEF Locate
      <3>5. 0 < BLOCK_SIZE \div BgdBytes
        BY DEF BLOCK_SIZE, BgdBytes
      <3>6. at.sector \in Nat /\ at.sector >= ADDR_OF_BLOCK(geo, InodeTable[0])
        BY <2>2, <3>1, <3>3, <3>4, <3>5, LocateRight
      <3>7. PICK t \in Nat : t = InodeTable[0] /\ t > 2
        BY <2>2, <3>1, InodeNumber
      <3>8. at.sector >= w * t
        BY <2>5, <3>6, <3>7
      <3>9. w * t \in Nat /\ w * t >= 3 * w
        <4>1. t - 3 \in Nat
          BY <3>7
        <4>2. w * (t - 3) \in Nat
          BY <4>1, SMT
        <4>3. w * (t - 3) = w * t - 3 * w
          BY SMT
        <4>4. w * t \in Nat
          BY SMT
        <4> QED BY <4>2, <4>3, <4>4
      <3> QED BY <2>3, <3>3, <3>6, <3>8, <3>9
    <2>8. a # b
      BY <2>6, <2>7
    <2>9. Cardinality(held) = 2
      <3>1. IsFiniteSet({b}) /\ Cardinality({b}) = 1
        BY FS_Singleton
      <3>2. a \notin {b} /\ {a, b} = {b} \cup {a}
        BY <2>8
      <3>3. Cardinality({b} \cup {a}) = Cardinality({b}) + 1
        BY <3>1, <3>2, FS_AddElement
      <3> QED BY <2>3, <3>1, <3>2, <3>3
    <2> QED BY <2>3, <2>6, <2>9 DEF SUPERBLOCK_ADDR
  <1> QED BY <1>1, MountInvariant, PTL

-----------------------------------------------------------------------------
(* The registry.                                                           *)

\* A set of numbers that is not empty has a least one.
LEMMA LeastNumber ==
    ASSUME NEW T \in SUBSET Nat, T # {}
    PROVE  \E x \in T : \A y \in T : x <= y
PROOF
  <1>1. IsWellFoundedOn(OpToRel(<, Nat), Nat)
    BY NatLessThanWellFounded
  <1>2. PICK x \in T : \A y \in T : ~ (<<y, x>> \in OpToRel(<, Nat))
    BY <1>1, WFMin
  <1>3. \A y \in T : ~ (y < x)
    BY <1>2 DEF OpToRel
  <1> QED BY <1>3

\* w follows link from s for m steps.
Follows(w, s, link, m) ==
    w = [n \in 0..m |-> IF n = 0 THEN s ELSE IF w[n - 1] = Null THEN Null ELSE link[w[n - 1]]]

\* A walk exists, for any number of steps.
LEMMA WalkExists ==
    ASSUME NEW s, NEW link, NEW m \in Nat
    PROVE  \E w : Follows(w, s, link, m)
PROOF
  <1> DEFINE T == {k \in Nat : ~ \E w : Follows(w, s, link, k)}
  <1>1. SUFFICES ASSUME T # {} PROVE FALSE
    OBVIOUS
  <1>2. PICK k \in T : \A y \in T : k <= y
    BY <1>1, LeastNumber
  <1>3. k # 0
    <2>1. ASSUME k = 0 PROVE FALSE
      <3> DEFINE w == [n \in 0..0 |-> s]
      <3>1. Follows(w, s, link, 0)
        <4>1. \A n \in 0..0 : n = 0
          OBVIOUS
        <4> QED BY <4>1 DEF Follows
      <3> QED BY <2>1, <3>1
    <2> QED BY <2>1
  <1>4. k - 1 \in Nat /\ k - 1 \notin T
    BY <1>2, <1>3
  <1>5. PICK v : Follows(v, s, link, k - 1)
    BY <1>4
  <1> DEFINE w == [n \in 0..k |-> IF n < k THEN v[n]
                                  ELSE IF v[k - 1] = Null THEN Null ELSE link[v[k - 1]]]
             e == [n \in 0..k |-> IF n = 0 THEN s
                                  ELSE IF w[n - 1] = Null THEN Null ELSE link[w[n - 1]]]
  <1>6. ASSUME NEW n \in 0..k PROVE w[n] = e[n]
    <2>1. CASE n = k
      <3>1. w[n] = (IF v[k - 1] = Null THEN Null ELSE link[v[k - 1]])
        BY <2>1
      <3>2. w[k - 1] = v[k - 1] /\ n # 0
        BY <1>3, <2>1
      <3> QED BY <3>1, <3>2, <2>1
    <2>2. CASE n < k
      <3>1. n \in 0..(k - 1) /\ w[n] = v[n]
        BY <2>2
      <3>2. v[n] = IF n = 0 THEN s ELSE IF v[n - 1] = Null THEN Null ELSE link[v[n - 1]]
        BY <3>1, <1>5 DEF Follows
      <3>3. n # 0 => w[n - 1] = v[n - 1]
        BY <2>2
      <3> QED BY <3>1, <3>2, <3>3
    <2> QED BY <2>1, <2>2
  <1>7. w = e
    BY <1>6
  <1>8. Follows(w, s, link, k)
    BY <1>7 DEF Follows
  <1> QED BY <1>2, <1>8

\* What the walk of a list gives at each step.
LEMMA WalkSteps ==
    ASSUME NEW s, NEW link
    PROVE  /\ N \in Nat
           /\ Walk(s, link)[0] = s
           /\ \A n \in 1..N : Walk(s, link)[n] =
                IF Walk(s, link)[n - 1] = Null THEN Null ELSE link[Walk(s, link)[n - 1]]
PROOF
  <1>1. N \in Nat
    BY VfsAssumption, FS_CardinalityType DEF N
  <1>2. \E w : Follows(w, s, link, N)
    BY <1>1, WalkExists
  <1>3. Walk(s, link) = CHOOSE w : Follows(w, s, link, N)
    BY DEF Walk, Follows
  <1>4. Follows(Walk(s, link), s, link, N)
    BY <1>2, <1>3
  <1> QED BY <1>1, <1>4 DEF Follows

\* The list from head along link: the m structures in l, each once, and e behind the
\* last, which is that one itself if it was registered twice.  No name but an empty one
\* is the beginning of one in front of it.
ListShape(head, link, m, l, e) ==
    /\ m \in Nat /\ l \in [1..m -> FileSystems] /\ link \in [FileSystems -> FileSystems \cup {Null}]
    /\ \A a, b \in 1..m : l[a] = l[b] => a = b
    /\ head = IF m = 0 THEN Null ELSE l[1]
    /\ \A n \in 1..m : link[l[n]] = IF n < m THEN l[n + 1] ELSE e
    /\ \A f \in FileSystems : (\A n \in 1..m : l[n] # f) => link[f] = Null
    /\ e = Null \/ (m > 0 /\ e = l[m] /\ NameOf[e] = EmptyName)
    /\ \A a, b \in 1..m : a < b /\ NameOf[l[b]] # EmptyName =>
         <<NameOf[l[b]], NameOf[l[a]]>> \notin Begins

\* There are no more structures in the list than there are structures.
LEMMA ListFits ==
    ASSUME NEW head, NEW link, NEW m, NEW l, NEW e, ListShape(head, link, m, l, e)
    PROVE  m <= N
PROOF
  <1>1. m \in Nat /\ l \in [1..m -> FileSystems] /\ \A a, b \in 1..m : l[a] = l[b] => a = b
    BY DEF ListShape
  <1>2. l \in Injection(1..m, FileSystems)
    BY <1>1 DEF Injection, IsInjective
  <1>3. IsFiniteSet(FileSystems)
    BY VfsAssumption
  <1>4. Cardinality(1..m) <= Cardinality(FileSystems)
    BY <1>2, <1>3, FS_Injection
  <1>5. Cardinality(1..m) = m
    BY <1>1, FS_Interval
  <1> QED BY <1>4, <1>5 DEF N

\* The walk goes through the list and then stays at its end.
LEMMA ListWalk ==
    ASSUME NEW head, NEW link, NEW m, NEW l, NEW e, ListShape(head, link, m, l, e)
    PROVE  /\ m \in 0..N /\ N \in Nat
           /\ \A n \in 0..N : Walk(head, link)[n] = IF n < m THEN l[n + 1] ELSE e
PROOF
  <1> DEFINE w == Walk(head, link)
             at(n) == IF n < m THEN l[n + 1] ELSE e
             T == {n \in 0..N : w[n] # at(n)}
  <1>1. m \in Nat /\ N \in Nat /\ m <= N
    <2>1. m \in Nat
      BY DEF ListShape
    <2>2. m <= N
      BY ListFits
    <2>3. N \in Nat
      BY WalkSteps
    <2> QED BY <2>1, <2>2, <2>3
  <1>2. /\ w[0] = head
        /\ \A n \in 1..N : w[n] = IF w[n - 1] = Null THEN Null ELSE link[w[n - 1]]
    BY WalkSteps
  <1> HIDE DEF w
  <1>3. T = {}
    <2>1. SUFFICES ASSUME T # {} PROVE FALSE
      OBVIOUS
    <2>2. PICK k \in T : \A y \in T : k <= y
      <3>1. T \in SUBSET Nat
        BY <1>1
      <3> QED BY <2>1, <3>1, LeastNumber
    <2>3. k \in 0..N /\ w[k] # at(k)
      OBVIOUS
    <2>4. k # 0
      <3>1. at(0) = head
        BY <1>1 DEF ListShape
      <3> QED BY <1>2, <2>3, <3>1
    <2>5. k \in 1..N /\ k - 1 \in 0..N /\ k - 1 \notin T
      BY <1>1, <2>2, <2>3, <2>4
    <2>6. w[k - 1] = at(k - 1)
      BY <2>5
    <2>7. w[k] = IF at(k - 1) = Null THEN Null ELSE link[at(k - 1)]
      BY <1>2, <2>5, <2>6
    <2>8. \A n \in 1..m : link[l[n]] = (IF n < m THEN l[n + 1] ELSE e) /\ l[n] # Null
      BY VfsAssumption DEF ListShape
    <2>9. CASE k <= m
      <3>1. k \in 1..m /\ at(k - 1) = l[k]
        BY <1>1, <2>5, <2>9
      <3>2. w[k] = IF k < m THEN l[k + 1] ELSE e
        BY <2>7, <2>8, <3>1
      <3> QED BY <2>3, <3>2
    <2>10. CASE k > m
      <3>1. at(k - 1) = e /\ at(k) = e
        BY <1>1, <2>5, <2>10
      <3>2. e # Null => link[e] = e
        <4>1. ASSUME e # Null PROVE link[e] = e
          <5>1. m \in 1..m /\ e = l[m]
            BY <1>1, <4>1 DEF ListShape
          <5>2. link[l[m]] = e
            BY <2>8, <5>1
          <5> QED BY <5>1, <5>2
        <4> QED BY <4>1
      <3>3. w[k] = e
        BY <2>7, <3>1, <3>2
      <3> QED BY <2>3, <3>1, <3>3
    <2> QED BY <1>1, <2>5, <2>9, <2>10
  <1>4. \A n \in 0..N : w[n] = at(n)
    BY <1>3
  <1> QED BY <1>1, <1>4 DEF w

\* What find_file_system gives: nothing if it stops nowhere, else where it stops first.
LEMMA FindResult ==
    ASSUME NEW head, NEW link, NEW name
    PROVE  \/ Stops(head, link, name) = {} /\ FindIn(head, link, name) = Null
           \/ \E n \in Stops(head, link, name) :
                /\ FindIn(head, link, name) = Walk(head, link)[n]
                /\ \A k \in Stops(head, link, name) : n <= k
PROOF
  <1> DEFINE st == Stops(head, link, name)
  <1>1. CASE st = {}
    BY <1>1 DEF FindIn
  <1>2. CASE st # {}
    <2>1. st \in SUBSET Nat
      BY WalkSteps DEF Stops
    <2>2. \E n \in st : \A k \in st : n <= k
      BY <1>2, <2>1, LeastNumber
    <2>3. PICK c : c = CHOOSE n \in st : \A k \in st : n <= k
      OBVIOUS
    <2>4. c \in st /\ \A k \in st : c <= k
      BY <2>2, <2>3
    <2>5. FindIn(head, link, name) = Walk(head, link)[c]
      BY <1>2, <2>3 DEF FindIn
    <2> QED BY <2>4, <2>5
  <1> QED BY <1>1, <1>2

\* The same for a list.
LEMMA FindInList ==
    ASSUME NEW head, NEW link, NEW m, NEW l, NEW e, ListShape(head, link, m, l, e), NEW name
    PROVE  /\ FindIn(head, link, name) \in FileSystems \cup {Null}
           /\ FindIn(head, link, name) = Null => Stops(head, link, name) = {}
           /\ Stops(head, link, name) = {} /\ name # EmptyName =>
                \A n \in 1..m : <<name, NameOf[l[n]]>> \notin Begins
           /\ name # EmptyName => \A b \in 1..m :
                /\ <<name, NameOf[l[b]]>> \in Begins
                /\ \A a \in 1..m : a < b => <<name, NameOf[l[a]]>> \notin Begins
                => FindIn(head, link, name) = l[b]
PROOF
  <1>1. /\ m \in 0..N /\ N \in Nat
        /\ \A n \in 0..N : Walk(head, link)[n] = IF n < m THEN l[n + 1] ELSE e
    BY ListWalk
  <1>2. /\ \A n \in 1..m : l[n] \in FileSystems /\ l[n] # Null
        /\ e = Null \/ (m > 0 /\ e = l[m])
    BY VfsAssumption DEF ListShape
  <1>3. \A n \in 0..N : Walk(head, link)[n] \in FileSystems \cup {Null}
    <2>1. SUFFICES ASSUME NEW n \in 0..N PROVE Walk(head, link)[n] \in FileSystems \cup {Null}
      OBVIOUS
    <2>2. CASE n < m
      <3>1. n + 1 \in 1..m
        BY <1>1, <2>2
      <3> QED BY <1>1, <1>2, <2>2, <3>1
    <2>3. CASE ~(n < m)
      <3>1. m > 0 => m \in 1..m
        BY <1>1
      <3> QED BY <1>1, <1>2, <2>3, <3>1
    <2> QED BY <2>2, <2>3
  <1>4. \A n \in Stops(head, link, name) : n \in 0..N /\ Walk(head, link)[n] # Null
    BY DEF Stops
  <1>5. /\ FindIn(head, link, name) \in FileSystems \cup {Null}
        /\ FindIn(head, link, name) = Null => Stops(head, link, name) = {}
    <2>1. CASE Stops(head, link, name) = {} /\ FindIn(head, link, name) = Null
      BY <2>1
    <2>2. CASE \E n \in Stops(head, link, name) : FindIn(head, link, name) = Walk(head, link)[n]
      BY <1>3, <1>4, <2>2
    <2> QED BY <2>1, <2>2, FindResult
  <1>6. ASSUME NEW b \in 1..m, name # EmptyName
        PROVE  <<name, NameOf[l[b]]>> \in Begins <=> b - 1 \in Stops(head, link, name)
    <2>1. b - 1 \in 0..N /\ b - 1 < m /\ (b - 1) + 1 = b
      BY <1>1
    <2>2. Walk(head, link)[b - 1] = l[b]
      BY <1>1, <2>1
    <2> QED BY <1>2, <1>6, <2>1, <2>2 DEF Stops
  <1>7. ASSUME Stops(head, link, name) = {}, name # EmptyName, NEW n \in 1..m
        PROVE  <<name, NameOf[l[n]]>> \notin Begins
    BY <1>6, <1>7
  <1>8. ASSUME name # EmptyName, NEW b \in 1..m, <<name, NameOf[l[b]]>> \in Begins,
               \A a \in 1..m : a < b => <<name, NameOf[l[a]]>> \notin Begins
        PROVE  FindIn(head, link, name) = l[b]
    <2>1. b - 1 \in Stops(head, link, name)
      BY <1>6, <1>8
    <2>2. PICK n \in Stops(head, link, name) :
            /\ FindIn(head, link, name) = Walk(head, link)[n]
            /\ \A k \in Stops(head, link, name) : n <= k
      BY <2>1, FindResult
    <2>3. n \in 0..N /\ n <= b - 1
      BY <1>4, <2>1, <2>2
    <2>4. n + 1 \in 1..m /\ n < m /\ (n + 1) - 1 = n
      BY <1>1, <2>3
    <2>5. <<name, NameOf[l[n + 1]]>> \in Begins
      BY <1>6, <1>8, <2>2, <2>4
    <2>6. ~(n + 1 < b)
      BY <1>8, <2>4, <2>5
    <2>7. n + 1 = b
      BY <1>1, <2>3, <2>6
    <2> QED BY <1>1, <2>2, <2>3, <2>4, <2>7
  <1> QED BY <1>5, <1>7, <1>8

\* What the list says of Listed, Ends and a structure whose next field is 0.
LEMMA ListFacts ==
    ASSUME NEW m, NEW l, NEW e, ListShape(file_systems, next, m, l, e)
    PROVE  /\ \A f : f \in Listed <=> \E n \in 1..m : f = l[n]
           /\ Ends <=> e = Null
           /\ e = Null /\ m > 0 => (CHOOSE f \in Listed : next[f] = Null) = l[m]
PROOF
  <1> DEFINE w == Walk(file_systems, next)
  <1>1. /\ m \in 0..N /\ N \in Nat
        /\ \A n \in 0..N : w[n] = IF n < m THEN l[n + 1] ELSE e
    BY ListWalk
  <1>2. /\ \A n \in 1..m : l[n] \in FileSystems /\ l[n] # Null
        /\ \A n \in 1..m : next[l[n]] = IF n < m THEN l[n + 1] ELSE e
        /\ e = Null \/ (m > 0 /\ e = l[m])
    BY VfsAssumption DEF ListShape
  <1>3. Listed = {w[n] : n \in 0..N} \ {Null}
    BY DEF Listed
  <1>4. Ends <=> w[N] = Null
    BY DEF Ends
  <1> HIDE DEF w
  <1>5. ASSUME NEW f, f \in Listed PROVE \E n \in 1..m : f = l[n]
    <2>1. PICK n \in 0..N : f = w[n] /\ f # Null
      BY <1>3, <1>5
    <2>2. CASE n < m
      <3>1. n + 1 \in 1..m
        BY <1>1, <2>2
      <3> QED BY <1>1, <2>1, <2>2, <3>1
    <2>3. CASE ~(n < m)
      <3>1. f = e
        BY <1>1, <2>1, <2>3
      <3>2. m \in 1..m /\ e = l[m]
        BY <1>1, <1>2, <2>1, <3>1
      <3> QED BY <3>1, <3>2
    <2> QED BY <2>2, <2>3
  <1>6. ASSUME NEW n \in 1..m PROVE l[n] \in Listed
    <2>1. n - 1 \in 0..N /\ n - 1 < m /\ (n - 1) + 1 = n
      BY <1>1
    <2>2. w[n - 1] = l[n]
      BY <1>1, <2>1
    <2> QED BY <1>2, <1>3, <2>1, <2>2
  <1>7. w[N] = e
    <2>1. N \in 0..N /\ ~(N < m)
      BY <1>1
    <2> QED BY <1>1, <2>1
  <1>8. ASSUME e = Null, m > 0 PROVE (CHOOSE f \in Listed : next[f] = Null) = l[m]
    <2>1. m \in 1..m
      BY <1>1, <1>8
    <2>2. l[m] \in Listed /\ next[l[m]] = Null
      BY <1>2, <1>6, <1>8, <2>1
    <2>3. ASSUME NEW f \in Listed, next[f] = Null PROVE f = l[m]
      <3>1. PICK n \in 1..m : f = l[n]
        BY <1>5
      <3>2. ~(n < m)
        <4>1. ASSUME n < m PROVE FALSE
          <5>1. n + 1 \in 1..m
            BY <1>1, <4>1
          <5>2. next[l[n]] = l[n + 1]
            BY <1>2, <4>1
          <5> QED BY <1>2, <2>3, <3>1, <5>1, <5>2
        <4> QED BY <4>1
      <3>3. n = m
        BY <1>1, <3>2
      <3> QED BY <3>1, <3>3
    <2> QED BY <2>2, <2>3
  <1> QED BY <1>4, <1>5, <1>6, <1>7, <1>8

IsList(list) == \E m, l, e : ListShape(list[1], list[2], m, l, e)

\* register_filesystem, if it returns, leaves a list.
LEMMA RegisterShape ==
    ASSUME NEW m, NEW l, NEW e, ListShape(file_systems, next, m, l, e),
           NEW fs \in FileSystems, ~(next[fs] = Null /\ LoopsFor(NameOf[fs]))
    PROVE  IsList(AfterRegister(fs))
PROOF
  <1>0. /\ m \in Nat /\ l \in [1..m -> FileSystems]
        /\ next \in [FileSystems -> FileSystems \cup {Null}]
        /\ \A a, b \in 1..m : l[a] = l[b] => a = b
        /\ file_systems = IF m = 0 THEN Null ELSE l[1]
        /\ \A n \in 1..m : next[l[n]] = IF n < m THEN l[n + 1] ELSE e
        /\ \A f \in FileSystems : (\A n \in 1..m : l[n] # f) => next[f] = Null
        /\ e = Null \/ (m > 0 /\ e = l[m] /\ NameOf[e] = EmptyName)
        /\ \A a, b \in 1..m : a < b /\ NameOf[l[b]] # EmptyName =>
             <<NameOf[l[b]], NameOf[l[a]]>> \notin Begins
    BY DEF ListShape
  <1>1. CASE ~Accepts(fs)
    <2>1. AfterRegister(fs) = <<file_systems, next>>
      BY <1>1 DEF AfterRegister
    <2> QED BY <2>1 DEF IsList
  <1>2. CASE Accepts(fs)
    <2>1. next[fs] = Null /\ FindIn(file_systems, next, NameOf[fs]) = Null
      BY <1>2 DEF Accepts, FindFileSystem
    <2>2. Stops(file_systems, next, NameOf[fs]) = {}
      BY <2>1, FindInList
    <2>3. Ends
      BY <2>1, <2>2 DEF LoopsFor
    <2>4. e = Null
      BY <2>3, ListFacts
    <2>5. NameOf[fs] # EmptyName => \A n \in 1..m : <<NameOf[fs], NameOf[l[n]]>> \notin Begins
      BY <2>2, FindInList
    <2>6. AfterRegister(fs) = Linked(fs)
      BY <1>2 DEF AfterRegister
    <2>7. fs # Null /\ \A n \in 1..m : l[n] # Null
      BY <1>0, VfsAssumption
    <2>8. CASE m = 0
      <3> DEFINE k == [n \in 1..1 |-> fs]
      <3>1. AfterRegister(fs) = <<fs, next>>
        BY <1>0, <2>6, <2>8 DEF Linked
      <3>2. k \in [1..1 -> FileSystems] /\ k[1] = fs /\ \A n \in 1..1 : n = 1
        OBVIOUS
      <3> HIDE DEF k
      <3>3. \A f \in FileSystems : next[f] = Null
        BY <1>0, <2>8
      <3>4. ListShape(fs, next, 1, k, Null)
        BY <1>0, <2>1, <3>2, <3>3 DEF ListShape
      <3>5. ListShape(AfterRegister(fs)[1], AfterRegister(fs)[2], 1, k, Null)
        BY <3>1, <3>4
      <3> QED BY <3>5 DEF IsList
    <2>9. CASE m # 0
      <3>1. m \in 1..m /\ l[m] \in FileSystems
        BY <1>0, <2>9
      <3>2. file_systems # Null /\ file_systems = l[1]
        <4>1. 1 \in 1..m
          BY <1>0, <2>9
        <4> QED BY <1>0, <2>7, <2>9, <4>1
      <3>3. (CHOOSE f \in Listed : next[f] = Null) = l[m]
        BY <1>0, <2>4, <2>9, ListFacts
      <3>4. PICK k : k = [next EXCEPT ![l[m]] = fs]
        OBVIOUS
      <3>5. AfterRegister(fs) = <<file_systems, k>>
        BY <2>6, <3>2, <3>3, <3>4 DEF Linked
      <3>6. /\ k \in [FileSystems -> FileSystems \cup {Null}] /\ k[l[m]] = fs
            /\ \A f \in FileSystems : f # l[m] => k[f] = next[f]
        BY <1>0, <3>1, <3>4
      <3>7. \A n \in 1..m : n < m => l[n] # l[m] /\ k[l[n]] = l[n + 1]
        BY <1>0, <3>1, <3>6
      <3>8. CASE \E n \in 1..m : l[n] = fs
        <4>1. PICK n \in 1..m : l[n] = fs
          BY <3>8
        <4>2. ~(n < m)
          <5>1. ASSUME n < m PROVE FALSE
            <6>1. n + 1 \in 1..m
              BY <1>0, <5>1
            <6> QED BY <1>0, <2>1, <2>7, <4>1, <5>1, <6>1
          <5> QED BY <5>1
        <4>3. l[m] = fs
          <5>1. n = m
            BY <1>0, <4>2
          <5> QED BY <4>1, <5>1
        <4>4. NameOf[fs] = EmptyName
          <5>1. <<NameOf[fs], NameOf[fs]>> \in Begins
            BY VfsAssumption DEF Names
          <5> QED BY <2>5, <3>1, <4>3, <5>1
        <4>5. \A x \in 1..m : k[l[x]] = IF x < m THEN l[x + 1] ELSE fs
          <5>1. ASSUME NEW x \in 1..m, ~(x < m) PROVE x = m
            BY <1>0, <5>1
          <5> QED BY <3>6, <3>7, <5>1
        <4>6. \A f \in FileSystems : (\A x \in 1..m : l[x] # f) => k[f] = Null
          BY <1>0, <3>1, <3>6
        <4>7. m > 0
          BY <1>0, <2>9
        <4>8. ListShape(file_systems, k, m, l, fs)
          BY <1>0, <3>6, <4>3, <4>4, <4>5, <4>6, <4>7 DEF ListShape
        <4>9. ListShape(AfterRegister(fs)[1], AfterRegister(fs)[2], m, l, fs)
          BY <3>5, <4>8
        <4> QED BY <4>9 DEF IsList
      <3>9. CASE \A n \in 1..m : l[n] # fs
        <4> DEFINE j == [n \in 1..(m + 1) |-> IF n <= m THEN l[n] ELSE fs]
        <4>1. /\ j \in [1..(m + 1) -> FileSystems]
              /\ \A n \in 1..m : n \in 1..(m + 1) /\ j[n] = l[n]
              /\ m + 1 \in 1..(m + 1) /\ j[m + 1] = fs
          <5>1. \A n \in 1..(m + 1) : n <= m => n \in 1..m
            BY <1>0
          <5>2. \A n \in 1..m : n \in 1..(m + 1) /\ n <= m
            BY <1>0
          <5>3. m + 1 \in 1..(m + 1) /\ ~(m + 1 <= m)
            BY <1>0
          <5> QED BY <1>0, <5>1, <5>2, <5>3
        <4>2. \A n \in 1..(m + 1) : n \in 1..m \/ n = m + 1
          BY <1>0
        <4> HIDE DEF j
        <4>3. \A a, b \in 1..(m + 1) : j[a] = j[b] => a = b
          BY <1>0, <3>9, <4>1, <4>2
        <4>4. ASSUME NEW n \in 1..(m + 1)
              PROVE  k[j[n]] = IF n < m + 1 THEN j[n + 1] ELSE Null
          <5>1. CASE n \in 1..m /\ n < m
            <6>1. n + 1 \in 1..m /\ n < m + 1
              BY <1>0, <5>1
            <6> QED BY <3>7, <4>1, <5>1, <6>1
          <5>2. CASE n = m
            <6>1. n < m + 1 /\ n + 1 = m + 1 /\ n \in 1..m
              BY <1>0, <3>1, <5>2
            <6> QED BY <3>6, <4>1, <5>2, <6>1
          <5>3. CASE n = m + 1
            <6>1. ~(n < m + 1) /\ j[n] = fs
              BY <1>0, <4>1, <5>3
            <6>2. k[fs] = Null
              BY <2>1, <3>1, <3>6, <3>9
            <6> QED BY <6>1, <6>2
          <5>4. n \in 1..m => n < m \/ n = m
            BY <1>0
          <5> QED BY <4>2, <5>1, <5>2, <5>3, <5>4
        <4>5. \A f \in FileSystems : (\A n \in 1..(m + 1) : j[n] # f) => k[f] = Null
          BY <1>0, <3>1, <3>6, <4>1
        <4>6. file_systems = IF m + 1 = 0 THEN Null ELSE j[1]
          <5>1. 1 \in 1..m /\ m + 1 # 0
            BY <1>0, <2>9
          <5> QED BY <3>2, <4>1, <5>1
        <4>7. ASSUME NEW a \in 1..(m + 1), NEW b \in 1..(m + 1), a < b, NameOf[j[b]] # EmptyName
              PROVE  <<NameOf[j[b]], NameOf[j[a]]>> \notin Begins
          <5>1. a \in 1..m /\ j[a] = l[a]
            <6>1. a \in 1..m
              BY <1>0, <4>7
            <6> QED BY <4>1, <6>1
          <5>2. CASE b \in 1..m
            BY <1>0, <4>1, <4>7, <5>1, <5>2
          <5>3. CASE b = m + 1
            BY <2>5, <4>1, <4>7, <5>1, <5>3
          <5> QED BY <4>2, <5>2, <5>3
        <4>8. m + 1 \in Nat
          BY <1>0
        <4>9. ListShape(file_systems, k, m + 1, j, Null)
          BY <3>6, <4>1, <4>3, <4>4, <4>5, <4>6, <4>7, <4>8 DEF ListShape
        <4>10. ListShape(AfterRegister(fs)[1], AfterRegister(fs)[2], m + 1, j, Null)
          BY <3>5, <4>9
        <4> QED BY <4>10 DEF IsList
      <3> QED BY <3>8, <3>9
    <2> QED BY <2>8, <2>9
  <1> QED BY <1>1, <1>2

\* What unregister_filesystem does to the links: the one to fs goes where fs went.
LEMMA UnlinkedLinks ==
    ASSUME NEW m, NEW l, NEW e, ListShape(file_systems, next, m, l, e),
           NEW fs, NEW j \in 1..m, fs = l[j], NEW h, NEW k, Unlinked(fs) = <<h, k>>
    PROVE  /\ k \in [FileSystems -> FileSystems \cup {Null}]
           /\ h = IF j = 1 THEN next[fs] ELSE l[1]
           /\ k[fs] = Null
           /\ \A n \in 1..m : n # j => k[l[n]] = IF n = j - 1 THEN next[fs] ELSE next[l[n]]
           /\ \A f \in FileSystems : (\A n \in 1..m : l[n] # f) => k[f] = Null
PROOF
  <1>0. /\ m \in Nat /\ l \in [1..m -> FileSystems]
        /\ next \in [FileSystems -> FileSystems \cup {Null}]
        /\ \A a, b \in 1..m : l[a] = l[b] => a = b
        /\ file_systems = IF m = 0 THEN Null ELSE l[1]
        /\ \A n \in 1..m : next[l[n]] = IF n < m THEN l[n + 1] ELSE e
        /\ \A f \in FileSystems : (\A n \in 1..m : l[n] # f) => next[f] = Null
        /\ e = Null \/ (m > 0 /\ e = l[m] /\ NameOf[e] = EmptyName)
    BY DEF ListShape
  <1>1. 1 \in 1..m /\ file_systems = l[1] /\ fs \in FileSystems
    <2>1. 1 \in 1..m /\ m # 0
      BY <1>0
    <2> QED BY <1>0, <2>1
  <1>2. file_systems = fs <=> j = 1
    BY <1>0, <1>1
  <1>3. CASE j = 1
    <2>1. h = next[fs] /\ k = [next EXCEPT ![fs] = Null]
      BY <1>2, <1>3 DEF Unlinked
    <2>2. /\ k \in [FileSystems -> FileSystems \cup {Null}] /\ k[fs] = Null
          /\ \A f \in FileSystems : f # fs => k[f] = next[f]
      BY <1>0, <1>1, <2>1
    <2>3. \A n \in 1..m : n # j - 1
      BY <1>3
    <2>4. \A n \in 1..m : n # j => l[n] # fs /\ l[n] \in FileSystems
      BY <1>0
    <2> QED BY <1>0, <1>3, <2>1, <2>2, <2>3, <2>4
  <1>4. CASE j # 1
    <2>1. /\ h = file_systems
          /\ k = [f \in FileSystems |-> IF f = fs THEN Null
                                        ELSE IF f \in Listed /\ next[f] = fs THEN next[fs]
                                        ELSE next[f]]
      BY <1>2, <1>4 DEF Unlinked
    <2>2. k \in [FileSystems -> FileSystems \cup {Null}] /\ k[fs] = Null
      BY <1>0, <1>1, <2>1
    <2>3. ASSUME NEW n \in 1..m, n # j
          PROVE  next[l[n]] = fs <=> n = j - 1
      <3>1. CASE n < m
        <4>1. n + 1 \in 1..m /\ next[l[n]] = l[n + 1]
          BY <1>0, <3>1
        <4>2. l[n + 1] = l[j] <=> n + 1 = j
          BY <1>0, <4>1
        <4>3. n + 1 = j <=> n = j - 1
          BY <1>0
        <4> QED BY <4>1, <4>2, <4>3
      <3>2. CASE ~(n < m)
        <4>1. n = m /\ next[l[n]] = e /\ n # j - 1
          BY <1>0, <3>2
        <4>2. e # fs
          <5>1. l[j] # Null
            BY <1>0, VfsAssumption
          <5>2. l[m] # l[j]
            BY <1>0, <2>3, <4>1
          <5> QED BY <1>0, <5>1, <5>2
        <4> QED BY <4>1, <4>2
      <3> QED BY <3>1, <3>2
    <2>4. ASSUME NEW n \in 1..m, n # j
          PROVE  k[l[n]] = IF n = j - 1 THEN next[fs] ELSE next[l[n]]
      <3>1. l[n] \in FileSystems /\ l[n] # fs
        BY <1>0, <2>4
      <3>2. l[n] \in Listed
        BY ListFacts
      <3> QED BY <2>1, <2>3, <2>4, <3>1, <3>2
    <2>5. ASSUME NEW f \in FileSystems, \A n \in 1..m : l[n] # f PROVE k[f] = Null
      <3>1. f # fs /\ f \notin Listed
        BY <2>5, ListFacts
      <3> QED BY <1>0, <2>1, <2>5, <3>1
    <2> QED BY <1>1, <1>4, <2>1, <2>2, <2>4, <2>5
  <1> QED BY <1>3, <1>4

\* unregister_filesystem leaves a list: without the structure, or, if that was linked
\* to itself, with it.
LEMMA UnregisterShape ==
    ASSUME NEW m, NEW l, NEW e, ListShape(file_systems, next, m, l, e), NEW fs \in Listed
    PROVE  IsList(Unlinked(fs))
PROOF
  <1>0. /\ m \in Nat /\ l \in [1..m -> FileSystems]
        /\ \A a, b \in 1..m : l[a] = l[b] => a = b
        /\ \A n \in 1..m : next[l[n]] = IF n < m THEN l[n + 1] ELSE e
        /\ e = Null \/ (m > 0 /\ e = l[m] /\ NameOf[e] = EmptyName)
        /\ \A a, b \in 1..m : a < b /\ NameOf[l[b]] # EmptyName =>
             <<NameOf[l[b]], NameOf[l[a]]>> \notin Begins
    BY DEF ListShape
  <1>1. PICK j \in 1..m : fs = l[j]
    BY ListFacts
  <1>2. PICK h, k : Unlinked(fs) = <<h, k>>
    BY DEF Unlinked
  <1>3. /\ k \in [FileSystems -> FileSystems \cup {Null}]
        /\ h = IF j = 1 THEN next[fs] ELSE l[1]
        /\ k[fs] = Null
        /\ \A n \in 1..m : n # j => k[l[n]] = IF n = j - 1 THEN next[fs] ELSE next[l[n]]
        /\ \A f \in FileSystems : (\A n \in 1..m : l[n] # f) => k[f] = Null
    BY <1>1, <1>2, UnlinkedLinks
  <1>4. next[fs] = IF j < m THEN l[j + 1] ELSE e
    BY <1>0, <1>1
  <1>5. CASE e = fs
    <2>1. j = m
      <3>1. fs # Null
        BY <1>0, <1>1, VfsAssumption
      <3>2. m \in 1..m /\ l[m] = l[j]
        BY <1>0, <1>1, <1>5, <3>1
      <3> QED BY <1>0, <3>2
    <2>2. next[fs] = l[m]
      BY <1>1, <1>4, <1>5, <2>1
    <2>3. ASSUME NEW n \in 1..m PROVE k[l[n]] = IF n < m THEN l[n + 1] ELSE Null
      <3>1. CASE n = m
        BY <1>1, <1>3, <2>1, <3>1
      <3>2. CASE n < m /\ n = j - 1
        <4>1. n # j /\ n + 1 = m
          BY <1>0, <2>1, <3>2
        <4> QED BY <1>3, <2>2, <3>2, <4>1
      <3>3. CASE n < m /\ n # j - 1
        BY <1>0, <1>3, <2>1, <3>3
      <3> QED BY <1>0, <3>1, <3>2, <3>3
    <2>4. h = IF m = 0 THEN Null ELSE l[1]
      BY <1>1, <1>3, <2>1, <2>2
    <2>5. ListShape(h, k, m, l, Null)
      BY <1>0, <1>3, <2>3, <2>4 DEF ListShape
    <2>6. ListShape(Unlinked(fs)[1], Unlinked(fs)[2], m, l, Null)
      BY <1>2, <2>5
    <2> QED BY <2>6 DEF IsList
  <1>6. CASE e # fs
    <2>0. PICK q \in Nat : q = m - 1 /\ m = q + 1
      BY <1>0
    <2> DEFINE r == [n \in 1..q |-> IF n < j THEN l[n] ELSE l[n + 1]]
    <2>1. /\ r \in [1..q -> FileSystems]
          /\ \A n \in 1..q : n < j => n \in 1..m /\ r[n] = l[n]
          /\ \A n \in 1..q : ~(n < j) => n + 1 \in 1..m /\ r[n] = l[n + 1]
      <3>1. \A n \in 1..q : n \in 1..m /\ n + 1 \in 1..m
        BY <1>0, <2>0
      <3> QED BY <1>0, <3>1
    <2> HIDE DEF r
    <2>2. ASSUME NEW n \in 1..m, n # j PROVE \E x \in 1..q : r[x] = l[n]
      <3>1. CASE n < j
        <4>1. n \in 1..q
          BY <1>0, <2>0, <3>1
        <4> QED BY <2>1, <3>1, <4>1
      <3>2. CASE ~(n < j)
        <4>1. n - 1 \in 1..q /\ ~(n - 1 < j) /\ (n - 1) + 1 = n
          BY <1>0, <2>0, <2>2, <3>2
        <4> QED BY <2>1, <4>1
      <3> QED BY <3>1, <3>2
    <2>3. ASSUME NEW a \in 1..q, NEW b \in 1..q, r[a] = r[b] PROVE a = b
      <3>1. CASE a < j /\ b < j
        BY <1>0, <2>1, <2>3, <3>1
      <3>2. CASE a < j /\ ~(b < j)
        <4>1. a = b + 1
          BY <1>0, <2>1, <2>3, <3>2
        <4> QED BY <3>2, <4>1
      <3>3. CASE ~(a < j) /\ b < j
        <4>1. a + 1 = b
          BY <1>0, <2>1, <2>3, <3>3
        <4> QED BY <3>3, <4>1
      <3>4. CASE ~(a < j) /\ ~(b < j)
        <4>1. a + 1 = b + 1
          BY <1>0, <2>1, <2>3, <3>4
        <4> QED BY <4>1
      <3> QED BY <3>1, <3>2, <3>3, <3>4
    <2>4. ASSUME NEW n \in 1..q PROVE k[r[n]] = IF n < q THEN r[n + 1] ELSE e
      <3>1. CASE n = j - 1
        <4>1. n < j /\ n # j
          BY <3>1
        <4>2. k[r[n]] = IF j < m THEN l[j + 1] ELSE e
          BY <1>3, <1>4, <2>1, <3>1, <4>1
        <4>3. n < q <=> j < m
          BY <2>0, <3>1
        <4>4. n < q => n + 1 \in 1..q /\ n + 1 = j /\ ~(n + 1 < j)
          BY <2>0, <3>1
        <4>5. n < q => r[n + 1] = l[j + 1]
          BY <2>1, <4>4
        <4> QED BY <4>2, <4>3, <4>5
      <3>2. CASE n < j /\ n # j - 1
        <4>1. n # j /\ n < m /\ n < q /\ n + 1 \in 1..q /\ n + 1 < j
          BY <1>0, <2>0, <3>2
        <4>2. k[r[n]] = next[l[n]]
          BY <1>3, <2>1, <3>2, <4>1
        <4>3. next[l[n]] = l[n + 1] /\ r[n + 1] = l[n + 1]
          BY <1>0, <2>1, <3>2, <4>1
        <4> QED BY <4>1, <4>2, <4>3
      <3>3. CASE ~(n < j)
        <4>1. n + 1 \in 1..m /\ n + 1 # j /\ n + 1 # j - 1 /\ (n + 1 < m <=> n < q)
          BY <1>0, <2>0, <3>3
        <4>2. k[r[n]] = next[l[n + 1]]
          BY <1>3, <2>1, <3>3, <4>1
        <4>3. next[l[n + 1]] = IF n + 1 < m THEN l[(n + 1) + 1] ELSE e
          BY <1>0, <4>1
        <4>4. n < q => n + 1 \in 1..q /\ ~(n + 1 < j)
          BY <2>0, <3>3
        <4>5. n < q => r[n + 1] = l[(n + 1) + 1]
          BY <2>1, <4>4
        <4> QED BY <4>1, <4>2, <4>3, <4>5
      <3> QED BY <3>1, <3>2, <3>3
    <2>5. ASSUME NEW f \in FileSystems, \A n \in 1..q : r[n] # f PROVE k[f] = Null
      <3>1. CASE \E n \in 1..m : l[n] = f
        <4>1. PICK n \in 1..m : l[n] = f
          BY <3>1
        <4>2. n = j
          BY <2>2, <2>5, <4>1
        <4> QED BY <1>1, <1>3, <4>1, <4>2
      <3>2. CASE \A n \in 1..m : l[n] # f
        BY <1>3, <3>2
      <3> QED BY <3>1, <3>2
    <2>6. e = Null \/ (q > 0 /\ e = r[q] /\ NameOf[e] = EmptyName)
      <3>1. SUFFICES ASSUME e # Null PROVE q > 0 /\ e = r[q] /\ NameOf[e] = EmptyName
        OBVIOUS
      <3>2. e = l[m] /\ NameOf[e] = EmptyName
        BY <1>0, <3>1
      <3>3. j # m
        BY <1>1, <1>6, <3>2
      <3>4. q \in 1..q /\ ~(q < j) /\ q > 0 /\ q + 1 = m
        BY <1>0, <2>0, <3>3
      <3> QED BY <2>1, <3>2, <3>4
    <2>7. h = IF q = 0 THEN Null ELSE r[1]
      <3>1. CASE q = 0
        <4>1. j = 1 /\ ~(j < m) /\ m = 1
          BY <2>0, <3>1
        <4>2. h = e
          BY <1>3, <1>4, <4>1
        <4>3. e = Null
          BY <1>0, <1>1, <1>6, <4>1
        <4> QED BY <3>1, <4>2, <4>3
      <3>2. CASE q # 0 /\ j = 1
        <4>1. 1 \in 1..q /\ j < m /\ ~(1 < j)
          BY <2>0, <3>2
        <4>2. r[1] = l[1 + 1] /\ h = l[1 + 1]
          BY <1>3, <1>4, <2>1, <3>2, <4>1
        <4> QED BY <3>2, <4>2
      <3>3. CASE q # 0 /\ j # 1
        <4>1. 1 \in 1..q /\ 1 < j
          BY <1>0, <2>0, <3>3
        <4> QED BY <1>3, <2>1, <3>3, <4>1
      <3> QED BY <3>1, <3>2, <3>3
    <2>8. ASSUME NEW a \in 1..q, NEW b \in 1..q, a < b, NameOf[r[b]] # EmptyName
          PROVE  <<NameOf[r[b]], NameOf[r[a]]>> \notin Begins
      <3>1. PICK x \in 1..m, y \in 1..m : x < y /\ r[a] = l[x] /\ r[b] = l[y]
        <4>1. CASE b < j
          <5>1. a < j
            BY <2>8, <4>1
          <5> QED BY <2>1, <2>8, <4>1, <5>1
        <4>2. CASE a < j /\ ~(b < j)
          <5>1. a < b + 1
            BY <2>8
          <5> QED BY <2>1, <4>2, <5>1
        <4>3. CASE ~(a < j) /\ ~(b < j)
          <5>1. a + 1 < b + 1
            BY <2>8
          <5> QED BY <2>1, <4>3, <5>1
        <4>4. b < j \/ (a < j /\ ~(b < j)) \/ (~(a < j) /\ ~(b < j))
          OBVIOUS
        <4> QED BY <4>1, <4>2, <4>3, <4>4
      <3> QED BY <1>0, <2>8, <3>1
    <2>9. ListShape(h, k, q, r, e)
      BY <1>3, <2>1, <2>3, <2>4, <2>5, <2>6, <2>7, <2>8 DEF ListShape
    <2>10. ListShape(Unlinked(fs)[1], Unlinked(fs)[2], q, r, e)
      BY <1>2, <2>9
    <2> QED BY <2>10 DEF IsList
  <1> QED BY <1>5, <1>6

Types == FileSystems \cup {Null, Garbage}

\* The registry is a list, and a walk that never ends is stopped at a structure linked
\* to itself.
ListInv ==
    /\ \E m, l, e : ListShape(file_systems, next, m, l, e) /\ (halt = "loop" => e # Null)
    /\ supers \in Seq(Types)

LEMMA ListInit == Init => ListInv
PROOF
  <1> SUFFICES ASSUME Init PROVE ListInv
    OBVIOUS
  <1>1. /\ file_systems = Null /\ next = [f \in FileSystems |-> Null] /\ supers = <<>>
        /\ halt = "no"
    BY DEF Init, VfsInit
  <1> DEFINE l == [n \in 1..0 |-> Null]
  <1>2. l \in [1..0 -> FileSystems] /\ 0 \in Nat /\ \A n \in 1..0 : FALSE
    OBVIOUS
  <1> HIDE DEF l
  <1>3. next \in [FileSystems -> FileSystems \cup {Null}] /\ \A f \in FileSystems : next[f] = Null
    BY <1>1
  <1>4. ListShape(file_systems, next, 0, l, Null)
    BY <1>1, <1>2, <1>3 DEF ListShape
  <1>5. supers \in Seq(Types)
    BY <1>1
  <1> QED BY <1>1, <1>4, <1>5 DEF ListInv

\* A call that changes the list to another.
LEMMA ListSet ==
    ASSUME NEW list, IsList(list), SetList(list), halt' # "loop", supers' \in Seq(Types)
    PROVE  ListInv'
PROOF
  <1>1. PICK m, l, e : ListShape(list[1], list[2], m, l, e)
    BY DEF IsList
  <1>2. ListShape(file_systems', next', m, l, e)
    BY <1>1 DEF SetList
  <1>4. ListShape(file_systems, next, m, l, e)'
    BY <1>2 DEF ListShape
  <1> QED BY <1>4 DEF ListInv

\* A call that leaves the list alone, unless it never returns.
LEMMA ListSame ==
    ASSUME ListInv, UNCHANGED <<file_systems, next>>, supers' \in Seq(Types),
           halt' = halt \/ halt' # "loop" \/ (halt' = "loop" /\ ~Ends)
    PROVE  ListInv'
PROOF
  <1>1. PICK m, l, e : ListShape(file_systems, next, m, l, e) /\ (halt = "loop" => e # Null)
    BY DEF ListInv
  <1>2. ListShape(file_systems', next', m, l, e)
    BY <1>1
  <1>3. halt' = "loop" => e # Null
    BY <1>1, ListFacts
  <1>4. ListShape(file_systems, next, m, l, e)'
    BY <1>2 DEF ListShape
  <1> QED BY <1>4, <1>3 DEF ListInv

LEMMA ListStep == ListInv /\ [Next]_vars => ListInv'
PROOF
  <1> SUFFICES ASSUME ListInv, [Next]_vars PROVE ListInv'
    OBVIOUS
  <1>0. supers \in Seq(Types)
    BY DEF ListInv
  <1>1. PICK m, l, e : ListShape(file_systems, next, m, l, e)
    BY DEF ListInv
  <1>2. ASSUME NEW fs \in FileSystems, Register(fs) PROVE ListInv'
    <2>1. halt = "no" /\ supers' = supers
      BY <1>2 DEF Register
    <2>2. CASE next[fs] = Null /\ LoopsFor(NameOf[fs])
      <3>1. halt' = "loop" /\ UNCHANGED <<file_systems, next>> /\ ~Ends
        BY <1>2, <2>2 DEF Register, LoopsFor
      <3> QED BY <1>0, <2>1, <3>1, ListSame
    <2>3. CASE ~(next[fs] = Null /\ LoopsFor(NameOf[fs]))
      <3>1. SetList(AfterRegister(fs)) /\ halt' = halt
        BY <1>2, <2>3 DEF Register
      <3>2. IsList(AfterRegister(fs))
        BY <1>1, <2>3, RegisterShape
      <3> QED BY <1>0, <2>1, <3>1, <3>2, ListSet
    <2> QED BY <2>2, <2>3
  <1>3. ASSUME NEW fs \in FileSystems, Unregister(fs) PROVE ListInv'
    <2>1. halt = "no" /\ supers' = supers
      BY <1>3 DEF Unregister
    <2>2. CASE fs \in Listed
      <3>1. SetList(Unlinked(fs)) /\ halt' = halt
        BY <1>3, <2>2 DEF Unregister
      <3>2. IsList(Unlinked(fs))
        BY <1>1, <2>2, UnregisterShape
      <3> QED BY <1>0, <2>1, <3>1, <3>2, ListSet
    <2>3. CASE fs \notin Listed
      <3>1. halt' = (IF Ends THEN "no" ELSE "loop") /\ UNCHANGED <<file_systems, next>>
        BY <1>3, <2>3 DEF Unregister
      <3> QED BY <1>0, <2>1, <3>1, ListSame
    <2> QED BY <2>2, <2>3
  <1>4. ASSUME NEW fs \in FileSystems, AddSb(fs) PROVE ListInv'
    <2>1. supers' = <<fs>> \o supers /\ UNCHANGED <<file_systems, next, halt>>
      BY <1>4 DEF AddSb
    <2>2. fs \in Types
      BY DEF Types
    <2>3. <<fs>> \o supers \in Seq(Types)
      BY <1>0, <2>2
    <2>4. supers' \in Seq(Types)
      BY <2>1, <2>3
    <2> QED BY <2>1, <2>4, ListSame
  <1>5. ASSUME NEW fs \in FileSystems, NEW type \in {Null, Garbage}, NEW link,
               InitFs(fs, type, link)
        PROVE  ListInv'
    <2>1. CASE next[fs] = Null /\ LoopsFor(NameOf[fs])
      <3>1. halt' = "loop" /\ UNCHANGED <<file_systems, next, supers>> /\ ~Ends
        BY <1>5, <2>1 DEF InitFs, LoopsFor
      <3> QED BY <1>0, <3>1, ListSame
    <2>2. CASE ~(next[fs] = Null /\ LoopsFor(NameOf[fs]))
      <3>1. SetList(AfterRegister(fs)) /\ NewSuper(fs, type, link)
        BY <1>5, <2>2 DEF InitFs
      <3>2. halt' # "loop"
        BY <1>5, <2>2 DEF InitFs
      <3>3. IsList(AfterRegister(fs))
        BY <1>1, <2>2, RegisterShape
      <3>4. FindIn(file_systems', next', ReaderOf[fs]) \in FileSystems \cup {Null}
        <4>1. PICK m2, l2, e2 : ListShape(AfterRegister(fs)[1], AfterRegister(fs)[2], m2, l2, e2)
          BY <3>3 DEF IsList
        <4>2. ListShape(file_systems', next', m2, l2, e2)
          BY <3>1, <4>1 DEF SetList
        <4>3. PICK h, k : h = file_systems' /\ k = next'
          OBVIOUS
        <4>4. FindIn(h, k, ReaderOf[fs]) \in FileSystems \cup {Null}
          BY <4>2, <4>3, FindInList
        <4> QED BY <4>3, <4>4
      <3>5. PICK t \in Types : supers' = <<t>>
        BY <3>1, <3>4 DEF NewSuper, Types
      <3>6. supers' \in Seq(Types)
        BY <3>5
      <3> QED BY <3>1, <3>2, <3>3, <3>6, ListSet
    <2> QED BY <2>1, <2>2
  <1>6. CASE UNCHANGED vfsVars
    <2>1. UNCHANGED <<file_systems, next, supers, halt>>
      BY <1>6 DEF vfsVars
    <2> QED BY <1>0, <2>1, ListSame
  <1>7. CASE VfsStep /\ UNCHANGED mountVars
    BY <1>2, <1>3, <1>4, <1>7 DEF VfsStep
  <1>8. ASSUME NEW minor \in Minors, AddBdev(minor) PROVE ListInv'
    BY <1>6, <1>8 DEF AddBdev
  <1>9. ASSUME NEW inode \in Inodes(sb), ReadInode(inode) PROVE ListInv'
    BY <1>6, <1>9 DEF ReadInode
  <1>10. CASE UNCHANGED vars
    BY <1>6, <1>10 DEF vars
  <1> QED BY <1>5, <1>7, <1>8, <1>9, <1>10 DEF Next

\* Whatever is registered, registered again, unregistered and mounted, the registry
\* stays a list.
THEOREM ListInvariant == Spec => []ListInv
PROOF
  <1> QED BY ListInit, ListStep, PTL DEF Spec

\* The list ends as long as every type in it has a name, and the walks of the registry
\* with it; what is not in it can be registered.
THEOREM ListEndsHolds == Spec => []ListEnds
PROOF
  <1>1. ListInv => ListEnds
    <2> SUFFICES ASSUME ListInv PROVE ListEnds
      OBVIOUS
    <2>1. PICK m, l, e : ListShape(file_systems, next, m, l, e) /\ (halt = "loop" => e # Null)
      BY DEF ListInv
    <2>2. /\ \A f : f \in Listed <=> \E n \in 1..m : f = l[n]
          /\ Ends <=> e = Null
      BY <2>1, ListFacts
    <2>3. ASSUME \A f \in Listed : NameOf[f] # EmptyName PROVE e = Null
      <3>1. m \in Nat /\ (e = Null \/ (m > 0 /\ e = l[m] /\ NameOf[e] = EmptyName))
        BY <2>1 DEF ListShape
      <3>2. m > 0 => m \in 1..m
        BY <3>1
      <3> QED BY <2>2, <2>3, <3>1, <3>2
    <2>4. ASSUME NEW f \in FileSystems \ Listed PROVE next[f] = Null
      <3>1. \A n \in 1..m : l[n] # f
        BY <2>2
      <3> QED BY <2>1, <3>1 DEF ListShape
    <2> QED BY <2>1, <2>2, <2>3, <2>4 DEF ListEnds
  <1> QED BY <1>1, ListInvariant, PTL

\* A registered name finds its own type, and a super block of the type if there is one.
THEOREM FoundByNameHolds == Spec => []FoundByName
PROOF
  <1>1. ListInv => FoundByName
    <2>1. SUFFICES ASSUME ListInv, NEW f \in Listed, NameOf[f] # EmptyName
                   PROVE  /\ FindFileSystem(NameOf[f]) = f
                          /\ (\E n \in DOMAIN supers : supers[n] = f) =>
                               /\ FindSuperBlock(NameOf[f]) \in DOMAIN supers
                               /\ supers[FindSuperBlock(NameOf[f])] = f
      BY DEF FoundByName
    <2>2. PICK m, l, e : ListShape(file_systems, next, m, l, e)
      BY <2>1 DEF ListInv
    <2>3. PICK b \in 1..m : f = l[b]
      BY <2>2, ListFacts
    <2>4. f \in FileSystems /\ f # Null
      BY <2>2, <2>3, VfsAssumption DEF ListShape
    <2>5. <<NameOf[f], NameOf[l[b]]>> \in Begins
      BY <2>3, <2>4, VfsAssumption DEF Names
    <2>6. \A a \in 1..m : a < b => <<NameOf[f], NameOf[l[a]]>> \notin Begins
      BY <2>1, <2>2, <2>3 DEF ListShape
    <2>7. FindFileSystem(NameOf[f]) = f
      BY <2>1, <2>2, <2>3, <2>5, <2>6, FindInList DEF FindFileSystem
    <2>8. ASSUME \E n \in DOMAIN supers : supers[n] = f
          PROVE  /\ FindSuperBlock(NameOf[f]) \in DOMAIN supers
                 /\ supers[FindSuperBlock(NameOf[f])] = f
      <3> DEFINE same == {n \in 1..Len(supers) : supers[n] = f}
      <3>1. DOMAIN supers = 1..Len(supers) /\ Len(supers) \in Nat
        <4>1. supers \in Seq(Types)
          BY <2>1 DEF ListInv
        <4> QED BY <4>1
      <3>2. same # {} /\ same \in SUBSET Nat
        BY <2>8, <3>1
      <3>3. \E n \in same : \A k \in same : n <= k
        BY <3>2, LeastNumber
      <3>4. PICK c : c = CHOOSE n \in same : \A k \in same : n <= k
        OBVIOUS
      <3>5. c \in same
        BY <3>3, <3>4
      <3>6. FindSuperBlock(NameOf[f]) = c
        BY <2>4, <2>7, <3>2, <3>4 DEF FindSuperBlock
      <3> QED BY <3>1, <3>5, <3>6
    <2> QED BY <2>7, <2>8
  <1> QED BY <1>1, ListInvariant, PTL
=============================================================================

------------------------------ MODULE AtaProofs ------------------------------
(***************************************************************************)
(* Proofs about the ATA driver, for a drive of any size, sectors of any    *)
(* number of words, any calls in any order, and a drive that may fail.     *)
(***************************************************************************)
EXTENDS Ata, TLAPS

Commands == [cmd : {"none", "read", "write"}, lba : Nat, left : Nat, word : Nat]
Requests == [op : {"mbr", "read", "write"}, rel : Nat, n : Nat]
NewSector == [w \in 1..Words |-> NewWord]

AtaTypeOK ==
    /\ bsy \in BOOLEAN /\ drq \in BOOLEAN /\ err \in BOOLEAN
    /\ regs \in [Registers -> Nat]
    /\ job \in Commands
    /\ disk \in [Sectors -> [1..Words -> Nat]]
    /\ pc \in {"idle", "out", "poll", "data", "panic"} /\ step \in 1..6
    /\ req \in Requests
    /\ moved \in Nat /\ dest \in Seq(Nat) /\ start_lba \in Nat
    /\ part_start \in PartStarts
    /\ raced \in BOOLEAN /\ failed \in BOOLEAN /\ long \in BOOLEAN
    /\ asked \subseteq Nat

\* The drive by itself, whatever the driver does to it: it has a command exactly
\* while it is at work, it offers words only of a sector it has, and it stores
\* only full sectors of a write.
DriveInv ==
    /\ bsy => ~drq
    /\ AtWork => ~err /\ job.cmd \in {"read", "write"} /\ job.left > 0
    /\ ~AtWork => job = NoJob
    /\ bsy => job.word = 0 \/ (job.word = Words /\ job.cmd = "write" /\ job.lba \in Sectors)
    /\ drq => job.word < Words /\ job.lba \in Sectors

\* What the driver's variables say of the call it executes.
RequestInv ==
    /\ pc \in {"out", "poll"} => moved = 0 /\ dest = <<>>
    /\ req.op # "write" => Len(dest) = moved
    /\ req.op = "mbr" => /\ req.rel = 0 /\ req.n = 1 /\ disk = FirstDisk(part_start)
                         /\ asked = {} /\ ~long
                         /\ pc # "idle" => start_lba = 0
    /\ req.op # "mbr" => req.rel \in RelLbas /\ (~failed => start_lba = part_start % WordBase)
    /\ req.op = "write" => RealLba..(RealLba + SectCount(req.n) - 1) \subseteq asked

\* Registers written while the drive was not at work hold what the call needs.
RegsInv ==
    pc = "out" /\ ~raced /\ step > 1 =>
        ~AtWork /\ \A i \in 1..5 : i < step => regs[RegOrder[i]] = RegValue(RegOrder[i])

\* As long as calls read single sectors the drive has finished before the driver
\* returns: the driver has then taken as many words as the drive has offered.
SingleReadsInv ==
    asked = {} /\ ~long =>
        /\ ~raced /\ req.op # "write" /\ req.n = 1 /\ job.cmd # "write"
        /\ pc \in {"idle", "out", "panic"} => ~AtWork
        /\ AtWork => job.left = 1
        /\ pc = "poll" => job.word = 0
        /\ pc = "data" => ~bsy /\ (drq => job.word = moved)

\* The sectors a write still has to store are among those asked for.
WriteInv ==
    ~raced /\ start_lba <= part_start /\ job.cmd = "write" =>
        job.lba..(job.lba + job.left - 1) \subseteq asked

\* The command the driver gave for a call of one sector, with k words moved.
JobOf(k) == [cmd |-> IF req.op = "write" THEN "write" ELSE "read",
             lba |-> RealLba, left |-> 1, word |-> k]

\* A call for one sector on a drive that does its work.
PollInv ==
    pc = "poll" => \/ AtWork /\ job = JobOf(0)
                   \/ ~AtWork /\ err /\ RealLba \notin Sectors
ReadInv ==
    /\ pc = "data" /\ req.op # "write" =>
         /\ ~bsy /\ RealLba \in Sectors
         /\ \A i \in 1..moved : dest[i] = disk[RealLba][i]
         /\ drq => job = JobOf(moved)
         /\ ~drq => moved = Words
    /\ pc = "idle" /\ req.op # "write" => ~AtWork
    /\ pc = "idle" /\ req.op = "read" => dest = disk[RealLba]
WriteOneInv ==
    pc \in {"data", "idle"} /\ req.op = "write" =>
        /\ drq => pc = "data" /\ job = JobOf(moved)
        /\ bsy => job = JobOf(Words) /\ moved = Words
        /\ ~AtWork => moved = Words /\ disk[RealLba] = NewSector
SectorInv == req.n = 1 /\ ~raced /\ ~failed => PollInv /\ ReadInv /\ WriteOneInv

\* parse_mbr has taken the lower word of the partition's start.
LowWordTaken == pc = "idle" /\ ~failed => start_lba = part_start % WordBase

AtaInv ==
    /\ AtaTypeOK /\ DriveInv /\ RequestInv /\ RegsInv /\ SingleReadsInv
    /\ WriteInv /\ SectorInv /\ LowWordTaken /\ NoStrayWrites

-----------------------------------------------------------------------------
\* Division by a base.
LEMMA Digit ==
    ASSUME NEW x \in Nat, NEW b \in Nat \ {0}
    PROVE  /\ x \div b \in Nat /\ x % b \in Nat /\ x % b < b
           /\ x = (x % b) + b * (x \div b)
  OBVIOUS

\* The lower word of the partition's start is not behind it.
LEMMA LowWord ==
    ASSUME NEW start \in PartStarts
    PROVE  /\ start \in Nat /\ WordBase \in Nat \ {0}
           /\ start % WordBase \in Nat /\ start \div WordBase \in Nat
           /\ start % WordBase < WordBase /\ start % WordBase <= start
PROOF
  <1>1. start \in Nat /\ WordBase \in Nat \ {0}
    BY AtaAssumption DEF WordBase
  <1>2. /\ start % WordBase \in Nat /\ start \div WordBase \in Nat
        /\ start % WordBase < WordBase
        /\ start = (start % WordBase) + WordBase * (start \div WordBase)
    BY <1>1, Digit
  <1>3. WordBase * (start \div WordBase) \in Nat
    BY <1>1, <1>2
  <1> QED BY <1>1, <1>2, <1>3

\* A number below a product has its last quotient below the last factor.
LEMMA BelowFactor ==
    ASSUME NEW c \in Nat, NEW q \in Nat, NEW t \in Nat, c * q < c * t
    PROVE  q < t
PROOF
  <1>1. SUFFICES ASSUME q >= t PROVE FALSE
    OBVIOUS
  <1>2. PICK d \in Nat : q = t + d
    <2>1. q - t \in Nat /\ q = t + (q - t)
      BY <1>1
    <2> QED BY <2>1
  <1>3. c * q = c * t + c * d /\ c * d >= 0
    BY <1>2
  <1> QED BY <1>3

\* The drive puts the four registers together to the address the driver took apart,
\* when the address fits in them.
LEMMA SplitLbaRight ==
    ASSUME NEW lba \in Nat, lba < ByteBase * ByteBase * ByteBase * TopBase
    PROVE  /\ SplitLba(lba) \in [low : Nat, mid : Nat, high : Nat, top : Nat]
           /\ lba = SplitLba(lba).low + ByteBase * (SplitLba(lba).mid +
                 ByteBase * (SplitLba(lba).high + ByteBase * SplitLba(lba).top))
PROOF
  <1> DEFINE q1 == lba \div ByteBase
             q2 == q1 \div ByteBase
             q3 == q2 \div ByteBase
  <1>1. ByteBase \in Nat \ {0} /\ TopBase \in Nat \ {0}
    BY AtaAssumption
  <1>2. q1 \in Nat /\ lba % ByteBase \in Nat /\ lba = (lba % ByteBase) + ByteBase * q1
    BY <1>1, Digit
  <1>3. q2 \in Nat /\ q1 % ByteBase \in Nat /\ q1 = (q1 % ByteBase) + ByteBase * q2
    BY <1>1, <1>2, Digit
  <1>4. q3 \in Nat /\ q2 % ByteBase \in Nat /\ q2 = (q2 % ByteBase) + ByteBase * q3
    BY <1>1, <1>3, Digit
  <1>5. SplitLba(lba) = [low |-> lba % ByteBase, mid |-> q1 % ByteBase,
                         high |-> q2 % ByteBase, top |-> q3 % TopBase]
    BY DEF SplitLba
  <1> HIDE DEF q1, q2, q3
  <1>6. q3 < TopBase
    <2> DEFINE c == ByteBase * ByteBase * ByteBase
    <2>1. ByteBase * q1 <= lba /\ ByteBase * q2 <= q1 /\ ByteBase * q3 <= q2
      BY <1>1, <1>2, <1>3, <1>4
    <2>2. ASSUME NEW a \in Nat, NEW b \in Nat, a <= b PROVE ByteBase * a <= ByteBase * b
      <3>1. PICK d \in Nat : b = a + d
        <4>1. b - a \in Nat /\ b = a + (b - a)
          BY <2>2
        <4> QED BY <4>1
      <3> QED BY <3>1, <1>1
    <2>3. ByteBase * q3 \in Nat /\ ByteBase * q2 \in Nat /\ ByteBase * (ByteBase * q3) \in Nat
      BY <1>1, <1>3, <1>4
    <2>4. /\ ByteBase * (ByteBase * q3) <= ByteBase * q2
          /\ ByteBase * (ByteBase * (ByteBase * q3)) <= ByteBase * (ByteBase * q2)
          /\ ByteBase * (ByteBase * q2) <= ByteBase * q1
      BY <2>1, <2>2, <2>3, <1>2, <1>3, <1>4
    <2>5. c * q3 = ByteBase * (ByteBase * (ByteBase * q3)) /\ c \in Nat
      BY <1>1, <1>4
    <2>6. ByteBase * (ByteBase * q2) \in Nat /\ ByteBase * q1 \in Nat /\ c * q3 \in Nat
      BY <1>1, <1>2, <1>3, <1>4
    <2>7. c * q3 < c * TopBase
      BY <2>1, <2>4, <2>5, <2>6, <1>1
    <2> HIDE DEF c
    <2> QED BY <2>5, <2>7, <1>1, <1>4, BelowFactor
  <1>7. q3 % TopBase = q3
    BY <1>1, <1>4, <1>6
  <1> QED BY <1>2, <1>3, <1>4, <1>5, <1>7

-----------------------------------------------------------------------------
\* The driver and what it knows of the call are left alone.
DriverSame == UNCHANGED <<pc, step, req, moved, dest, start_lba, part_start, raced, asked, long>>

\* What the drive does by itself.
LEMMA DriveReadyInv == ASSUME AtaInv, DriveReady PROVE AtaInv'
PROOF
  <1> USE AtaAssumption
  <1>1. /\ bsy /\ job.word = 0 /\ bsy' = FALSE /\ drq' = (job.lba \in Sectors)
        /\ err' = (job.lba \notin Sectors)
        /\ job' = IF job.lba \in Sectors THEN job ELSE NoJob
        /\ regs' = regs /\ disk' = disk /\ failed' = failed /\ DriverSame
    BY DEF DriveReady, driverVars, DriverSame
  <1>a. \/ job.lba \in Sectors /\ drq' = TRUE /\ err' = FALSE /\ job' = job
        \/ job.lba \notin Sectors /\ drq' = FALSE /\ err' = TRUE /\ job' = NoJob
    <2>1. CASE job.lba \in Sectors
      <3>1. drq' = TRUE
        BY <1>1, <2>1
      <3>2. err' = FALSE
        BY <1>1, <2>1
      <3> QED BY <1>1, <2>1, <3>1, <3>2
    <2>2. CASE job.lba \notin Sectors
      <3>1. drq' = FALSE
        <4>1. drq' = (job.lba \in Sectors)
          BY <1>1
        <4>2. (job.lba \in Sectors) = FALSE
          BY <2>2
        <4> QED BY <4>1, <4>2
      <3>2. err' = TRUE
        BY <1>1, <2>2
      <3> QED BY <1>1, <2>2, <3>1, <3>2
    <2> QED BY <2>1, <2>2
  <1>2. /\ ~drq /\ ~err /\ job.cmd \in {"read", "write"} /\ job.left > 0
    BY <1>1 DEF AtaInv, DriveInv, AtWork
  <1>3. AtaTypeOK'
    <2>1. job' \in Commands
      BY <1>1 DEF AtaInv, AtaTypeOK, Commands, NoJob
    <2>2. bsy' \in BOOLEAN /\ drq' \in BOOLEAN /\ err' \in BOOLEAN
      BY <1>1, <1>a
    <2> QED BY <1>1, <2>1, <2>2 DEF AtaInv, AtaTypeOK, DriverSame
  <1>4. DriveInv'
    <2>1. CASE job.lba \in Sectors /\ drq' = TRUE /\ err' = FALSE /\ job' = job
      BY <1>1, <1>2, <2>1 DEF DriveInv, AtWork
    <2>2. CASE job.lba \notin Sectors /\ drq' = FALSE /\ err' = TRUE /\ job' = NoJob
      BY <1>1, <1>2, <2>2 DEF DriveInv, AtWork
    <2> QED BY <1>a, <2>1, <2>2
  <1>5. RequestInv'
    BY <1>1 DEF AtaInv, RequestInv, DriverSame, RealLba
  <1>6. RegsInv'
    BY <1>1 DEF AtaInv, RegsInv, DriverSame, AtWork, RegValue, RealLba
  <1>7. SingleReadsInv'
    BY <1>1 DEF AtaInv, SingleReadsInv, DriverSame, AtWork, NoJob
  <1>8. WriteInv'
    BY <1>1 DEF AtaInv, WriteInv, DriverSame, NoJob
  <1>9. SectorInv'
    <2> SUFFICES ASSUME req'.n = 1, ~raced', ~failed' PROVE (PollInv /\ ReadInv /\ WriteOneInv)'
      BY DEF SectorInv
    <2>1. PollInv /\ ReadInv /\ WriteOneInv
      BY <1>1 DEF AtaInv, SectorInv, DriverSame
    <2>2. PollInv'
      <3>1. SUFFICES ASSUME pc = "poll"
                     PROVE  \/ AtWork' /\ job' = JobOf(0)'
                            \/ ~AtWork' /\ err' /\ RealLba' \notin Sectors
        BY <1>1 DEF PollInv, DriverSame
      <3>2. job = JobOf(0) /\ JobOf(0)' = JobOf(0) /\ job.lba = RealLba /\ RealLba' = RealLba
        BY <1>1, <2>1, <3>1 DEF PollInv, AtWork, JobOf, DriverSame, RealLba
      <3>3. CASE job.lba \in Sectors
        BY <1>1, <3>2, <3>3 DEF AtWork
      <3>4. CASE job.lba \notin Sectors
        BY <1>1, <1>2, <3>2, <3>4 DEF AtWork
      <3> QED BY <3>3, <3>4
    <2>3. ReadInv'
      BY <1>1, <2>1 DEF ReadInv, DriverSame, JobOf, RealLba, AtWork
    <2>4. WriteOneInv'
      BY <1>1, <2>1 DEF WriteOneInv, DriverSame, JobOf, RealLba, AtWork
    <2> QED BY <2>2, <2>3, <2>4
  <1>10. LowWordTaken' /\ NoStrayWrites'
    BY <1>1 DEF AtaInv, LowWordTaken, NoStrayWrites, DriverSame
  <1> QED BY <1>3, <1>4, <1>5, <1>6, <1>7, <1>8, <1>9, <1>10 DEF AtaInv

\* The drive fails.
LEMMA DriveFailsInv == ASSUME AtaInv, DriveFails PROVE AtaInv'
PROOF
  <1> USE AtaAssumption
  <1>1. /\ bsy /\ bsy' = FALSE /\ err' \in BOOLEAN /\ drq' = drq /\ job' = NoJob
        /\ regs' = regs /\ disk' = disk /\ failed' = TRUE /\ DriverSame
    BY DEF DriveFails, driverVars, DriverSame
  <1>2. ~drq
    BY <1>1 DEF AtaInv, DriveInv
  <1>3. AtaTypeOK'
    BY <1>1 DEF AtaInv, AtaTypeOK, DriverSame, Commands, NoJob
  <1>4. DriveInv'
    BY <1>1, <1>2 DEF DriveInv, AtWork
  <1>5. RequestInv'
    BY <1>1 DEF AtaInv, RequestInv, DriverSame, RealLba
  <1>6. RegsInv'
    BY <1>1, <1>2 DEF AtaInv, RegsInv, DriverSame, AtWork, RegValue, RealLba
  <1>7. SingleReadsInv'
    BY <1>1, <1>2 DEF AtaInv, SingleReadsInv, DriverSame, AtWork, NoJob
  <1>8. WriteInv'
    BY <1>1 DEF AtaInv, WriteInv, DriverSame, NoJob
  <1>9. SectorInv'
    BY <1>1 DEF SectorInv
  <1>10. LowWordTaken' /\ NoStrayWrites'
    BY <1>1 DEF AtaInv, LowWordTaken, NoStrayWrites, DriverSame
  <1> QED BY <1>3, <1>4, <1>5, <1>6, <1>7, <1>8, <1>9, <1>10 DEF AtaInv

\* The drive stores a sector.
LEMMA DriveCommitsInv == ASSUME AtaInv, DriveCommits PROVE AtaInv'
PROOF
  <1> USE AtaAssumption
  <1>1. /\ bsy /\ job.word = Words /\ disk' = [disk EXCEPT ![job.lba] = NewSector]
        /\ IF job.left = 1 THEN bsy' = FALSE /\ job' = NoJob
           ELSE /\ job' = [job EXCEPT !.left = @ - 1, !.lba = @ + 1, !.word = 0]
                /\ bsy' = bsy
        /\ drq' = drq /\ err' = err /\ regs' = regs /\ failed' = failed /\ DriverSame
    BY DEF DriveCommits, driverVars, DriverSame, NewSector
  <1>2. /\ ~drq /\ ~err /\ job.cmd = "write" /\ job.lba \in Sectors
        /\ job \in Commands /\ job.left \in Nat \ {0}
    BY <1>1 DEF AtaInv, DriveInv, AtWork, AtaTypeOK, Commands
  <1>3. /\ NewSector \in [1..Words -> Nat] /\ disk'[job.lba] = NewSector
        /\ \A s \in Sectors \ {job.lba} : disk'[s] = disk[s]
    BY <1>1, <1>2 DEF NewSector, AtaInv, AtaTypeOK
  <1>a. \/ /\ job.left = 1 /\ bsy' = FALSE /\ job' = NoJob
        \/ /\ job.left > 1 /\ bsy' = bsy
           /\ job' = [cmd |-> "write", lba |-> job.lba + 1, left |-> job.left - 1, word |-> 0]
    <2>1. CASE job.left = 1
      BY <1>1, <2>1
    <2>2. CASE job.left # 1
      <3>1. bsy' = bsy /\ job' = [job EXCEPT !.left = @ - 1, !.lba = @ + 1, !.word = 0]
        BY <1>1, <2>2
      <3>2. job' = [cmd |-> "write", lba |-> job.lba + 1, left |-> job.left - 1, word |-> 0]
        BY <3>1, <1>2 DEF Commands
      <3>3. job.left > 1
        BY <1>2, <2>2
      <3> QED BY <3>1, <3>2, <3>3
    <2> QED BY <2>1, <2>2
  <1>4. ~ (asked = {} /\ ~long) /\ req.op # "mbr"
    BY <1>2 DEF AtaInv, SingleReadsInv, RequestInv
  <1>5. AtaTypeOK'
    <2>1. job' \in Commands
      BY <1>a, <1>2 DEF Commands, NoJob
    <2>2. disk' \in [Sectors -> [1..Words -> Nat]] /\ bsy' \in BOOLEAN
      BY <1>1, <1>3 DEF AtaInv, AtaTypeOK
    <2> QED BY <1>1, <2>1, <2>2 DEF AtaInv, AtaTypeOK, DriverSame
  <1>6. DriveInv'
    <2>1. CASE bsy' = FALSE /\ job' = NoJob
      BY <1>1, <1>2, <2>1 DEF DriveInv, AtWork
    <2>2. CASE /\ job.left > 1 /\ bsy' = bsy
               /\ job' = [cmd |-> "write", lba |-> job.lba + 1, left |-> job.left - 1, word |-> 0]
      BY <1>1, <1>2, <2>2 DEF DriveInv, AtWork
    <2> QED BY <1>a, <2>1, <2>2
  <1>7. RequestInv'
    BY <1>1, <1>4 DEF AtaInv, RequestInv, DriverSame, RealLba
  <1>8. RegsInv'
    BY <1>1 DEF AtaInv, RegsInv, DriverSame, AtWork, RegValue, RealLba
  <1>9. SingleReadsInv'
    BY <1>1, <1>4 DEF SingleReadsInv, DriverSame
  <1>10. ASSUME ~raced, start_lba <= part_start PROVE job.lba..(job.lba + job.left - 1) \subseteq asked
    BY <1>2, <1>10 DEF AtaInv, WriteInv
  <1>11. WriteInv'
    <2>1. CASE job' = NoJob
      BY <2>1 DEF WriteInv, NoJob
    <2>2. CASE job' = [cmd |-> "write", lba |-> job.lba + 1, left |-> job.left - 1, word |-> 0]
      <3>1. job'.lba = job.lba + 1 /\ job'.left = job.left - 1 /\ job.lba \in Nat
        BY <2>2, <1>2 DEF Commands
      <3>2. job'.lba..(job'.lba + job'.left - 1) \subseteq job.lba..(job.lba + job.left - 1)
        BY <3>1, <1>2
      <3> QED BY <3>2, <1>1, <1>10 DEF WriteInv, DriverSame
    <2> QED BY <1>a, <2>1, <2>2
  <1>12. SectorInv'
    <2> SUFFICES ASSUME req'.n = 1, ~raced', ~failed' PROVE (PollInv /\ ReadInv /\ WriteOneInv)'
      BY DEF SectorInv
    <2>1. PollInv /\ ReadInv /\ WriteOneInv
      BY <1>1 DEF AtaInv, SectorInv, DriverSame
    <2>2. PollInv'
      BY <1>1, <1>2, <2>1 DEF PollInv, DriverSame, JobOf, RealLba, AtWork
    <2>3. ReadInv'
      BY <1>1, <2>1 DEF ReadInv, DriverSame, JobOf, RealLba, AtWork
    <2>4. WriteOneInv'
      <3>1. SUFFICES ASSUME pc \in {"data", "idle"}, req.op = "write"
                     PROVE  ~AtWork' /\ ~drq' /\ ~bsy' /\ moved' = Words
                            /\ disk'[RealLba'] = NewSector
        BY <1>1 DEF WriteOneInv, DriverSame
      <3>2. job = JobOf(Words) /\ moved = Words /\ job.lba = RealLba /\ job.left = 1
        BY <1>1, <2>1, <3>1 DEF WriteOneInv, JobOf
      <3>3. RealLba' = RealLba /\ bsy' = FALSE
        BY <1>1, <3>2 DEF DriverSame, RealLba
      <3> QED BY <1>1, <1>2, <1>3, <3>2, <3>3 DEF AtWork, DriverSame
    <2> QED BY <2>2, <2>3, <2>4
  <1>13. LowWordTaken'
    BY <1>1 DEF AtaInv, LowWordTaken, DriverSame
  <1>14. NoStrayWrites'
    <2>1. SUFFICES ASSUME ~raced, start_lba <= part_start, NEW s \in Sectors,
                          disk'[s] # FirstDisk(part_start)[s]
                   PROVE  s \in asked
      BY <1>1 DEF NoStrayWrites, DriverSame
    <2>2. job.lba \in asked
      BY <1>2, <1>10, <2>1 DEF Commands
    <2> QED BY <1>3, <2>1, <2>2 DEF AtaInv, NoStrayWrites
  <1> QED BY <1>5, <1>6, <1>7, <1>8, <1>9, <1>11, <1>12, <1>13, <1>14 DEF AtaInv

-----------------------------------------------------------------------------
\* The driver is called.
LEMMA CallInv ==
    ASSUME AtaInv, NEW op \in Ops, NEW rel \in RelLbas, NEW n \in Counts, Call(op, rel, n)
    PROVE  AtaInv'
PROOF
  <1> USE AtaAssumption
  <1> DEFINE range == (rel + start_lba)..(rel + start_lba + SectCount(n) - 1)
  <1>1. /\ pc = "idle" /\ pc' = "out" /\ step' = 1 /\ req' = [op |-> op, rel |-> rel, n |-> n]
        /\ moved' = 0 /\ dest' = <<>> /\ start_lba' = start_lba /\ raced' = raced
        /\ asked' = IF op = "write" THEN asked \cup range ELSE asked
        /\ long' = (long \/ n # 1) /\ part_start' = part_start
        /\ bsy' = bsy /\ drq' = drq /\ err' = err /\ regs' = regs /\ job' = job
        /\ disk' = disk /\ failed' = failed
    BY DEF Call, driveVars
  <1>2. /\ op \in {"read", "write"} /\ rel \in Nat /\ n \in Nat /\ start_lba \in Nat
        /\ SectCount(n) \in Nat \ {0}
    BY DEF AtaInv, AtaTypeOK, SectCount
  <1>3. range \subseteq Nat /\ rel + start_lba \in range
    BY <1>2
  <1> HIDE DEF range
  <1>4. asked \subseteq asked' /\ asked' \subseteq Nat /\ (op = "write" => range \subseteq asked')
    BY <1>1, <1>3 DEF AtaInv, AtaTypeOK
  <1>5. /\ req'.op = op /\ req'.rel = rel /\ req'.n = n /\ req' \in Requests
    BY <1>1, <1>2 DEF Requests
  <1>6. long' \in BOOLEAN /\ (~long' => ~long /\ n = 1)
    BY <1>1
  <1>7. AtaTypeOK'
    BY <1>1, <1>4, <1>5, <1>6 DEF AtaInv, AtaTypeOK
  <1>8. DriveInv'
    BY <1>1 DEF AtaInv, DriveInv, AtWork
  <1>9. RequestInv'
    <2>1. op = "write" => (RealLba..(RealLba + SectCount(req.n) - 1) \subseteq asked)'
      BY <1>1, <1>4, <1>5 DEF RealLba, SectCount, range
    <2>2. ~failed => start_lba = part_start % WordBase
      BY <1>1 DEF AtaInv, LowWordTaken
    <2>3. Len(dest') = moved'
      BY <1>1
    <2> QED BY <1>1, <1>2, <1>5, <2>1, <2>2, <2>3 DEF RequestInv
  <1>10. RegsInv'
    BY <1>1 DEF RegsInv
  <1>11. SingleReadsInv'
    <2>1. SUFFICES ASSUME asked' = {}, ~long'
                   PROVE  ~raced /\ op # "write" /\ n = 1 /\ job.cmd # "write" /\ ~AtWork
      BY <1>1, <1>5 DEF SingleReadsInv, AtWork
    <2>2. op # "write" /\ asked = {} /\ ~long /\ n = 1
      BY <2>1, <1>3, <1>4, <1>6
    <2> QED BY <1>1, <2>2 DEF AtaInv, SingleReadsInv
  <1>12. WriteInv'
    BY <1>1, <1>4 DEF AtaInv, WriteInv
  <1>13. SectorInv'
    BY <1>1 DEF SectorInv, PollInv, ReadInv, WriteOneInv
  <1>14. LowWordTaken' /\ NoStrayWrites'
    BY <1>1, <1>4 DEF AtaInv, LowWordTaken, NoStrayWrites
  <1> QED BY <1>7, <1>8, <1>9, <1>10, <1>11, <1>12, <1>13, <1>14 DEF AtaInv

\* What the driver writes into a register.
LEMMA RegValueType ==
    ASSUME AtaInv, NEW name \in Registers PROVE RegValue(name) \in Nat
PROOF
  <1>1. req.n \in Nat /\ RealLba \in Nat
    BY DEF AtaInv, AtaTypeOK, Requests, RealLba
  <1>2. ByteBase \in Nat \ {0} /\ TopBase \in Nat \ {0}
    BY AtaAssumption
  <1> DEFINE q1 == RealLba \div ByteBase
             q2 == q1 \div ByteBase
             q3 == q2 \div ByteBase
  <1>3. q1 \in Nat /\ RealLba % ByteBase \in Nat
    BY <1>1, <1>2, Digit
  <1>4. q2 \in Nat /\ q1 % ByteBase \in Nat
    BY <1>2, <1>3, Digit
  <1>5. q3 \in Nat /\ q2 % ByteBase \in Nat /\ q3 % TopBase \in Nat
    BY <1>2, <1>4, Digit
  <1>6. SplitLba(RealLba) = [low |-> RealLba % ByteBase, mid |-> q1 % ByteBase,
                             high |-> q2 % ByteBase, top |-> q3 % TopBase]
    BY DEF SplitLba
  <1> HIDE DEF q1, q2, q3
  <1> QED BY <1>1, <1>3, <1>4, <1>5, <1>6 DEF RegValue, Registers

\* One register is written.
LEMMA OutRegisterInv == ASSUME AtaInv, OutRegister PROVE AtaInv'
PROOF
  <1> USE AtaAssumption
  <1>1. /\ pc = "out" /\ step < 6 /\ step' = step + 1
        /\ regs' = IF AtWork THEN regs
                   ELSE [regs EXCEPT ![RegOrder[step]] = RegValue(RegOrder[step])]
        /\ raced' = (raced \/ AtWork)
        /\ bsy' = bsy /\ drq' = drq /\ err' = err /\ job' = job
        /\ disk' = disk /\ failed' = failed /\ pc' = pc /\ req' = req /\ moved' = moved
        /\ dest' = dest /\ start_lba' = start_lba /\ asked' = asked /\ long' = long /\ part_start' = part_start
    BY DEF OutRegister
  <1>2. raced' \in BOOLEAN /\ (~raced' => ~raced /\ ~AtWork)
    BY <1>1
  <1>3. step \in 1..5 /\ RegOrder[step] \in Registers /\ regs \in [Registers -> Nat]
    BY <1>1 DEF AtaInv, AtaTypeOK, RegOrder, Registers
  <1>4. RegValue(RegOrder[step]) \in Nat
    BY <1>3, RegValueType
  <1>5. AtaTypeOK'
    <2>1. regs' \in [Registers -> Nat] /\ step' \in 1..6
      BY <1>1, <1>3, <1>4
    <2> QED BY <1>1, <1>2, <2>1 DEF AtaInv, AtaTypeOK
  <1>6. DriveInv'
    BY <1>1 DEF AtaInv, DriveInv, AtWork
  <1>7. RequestInv'
    BY <1>1 DEF AtaInv, RequestInv, RealLba
  <1>8. RegsInv'
    <2>1. SUFFICES ASSUME ~raced'
                   PROVE  ~AtWork' /\ \A i \in 1..5 : i < step' =>
                             regs'[RegOrder[i]] = RegValue(RegOrder[i])'
      BY DEF RegsInv
    <2>2. ~raced /\ ~AtWork /\ ~AtWork'
      BY <2>1, <1>1, <1>2 DEF AtWork
    <2>3. regs' = [regs EXCEPT ![RegOrder[step]] = RegValue(RegOrder[step])]
      BY <2>2, <1>1
    <2>4. \A i \in 1..5 : RegValue(RegOrder[i])' = RegValue(RegOrder[i])
      BY <1>1 DEF RegValue, RealLba
    <2>5. ASSUME NEW i \in 1..5, i < step' PROVE regs'[RegOrder[i]] = RegValue(RegOrder[i])
      <3>1. CASE i = step
        BY <3>1, <2>3, <1>3
      <3>2. CASE i < step
        <4>1. regs[RegOrder[i]] = RegValue(RegOrder[i])
          BY <3>2, <2>2, <1>1, <1>3 DEF AtaInv, RegsInv
        <4>2. RegOrder[i] # RegOrder[step] /\ RegOrder[i] \in Registers
          BY <3>2, <1>3 DEF RegOrder, Registers
        <4> QED BY <4>1, <4>2, <2>3, <1>3
      <3> QED BY <3>1, <3>2, <2>5, <1>1, <1>3
    <2> QED BY <2>2, <2>4, <2>5
  <1>9. SingleReadsInv'
    <2>1. SUFFICES ASSUME asked = {}, ~long PROVE SingleReadsInv'
      BY <1>1 DEF SingleReadsInv
    <2>2. ~AtWork /\ ~raced
      BY <1>1, <2>1 DEF AtaInv, SingleReadsInv
    <2>3. ~raced'
      BY <1>1, <2>2
    <2> QED BY <1>1, <2>1, <2>2, <2>3 DEF AtaInv, SingleReadsInv, AtWork
  <1>10. WriteInv'
    BY <1>1, <1>2 DEF AtaInv, WriteInv
  <1>11. SectorInv'
    BY <1>1 DEF SectorInv, PollInv, ReadInv, WriteOneInv
  <1>12. LowWordTaken' /\ NoStrayWrites'
    BY <1>1, <1>2 DEF AtaInv, LowWordTaken, NoStrayWrites
  <1> QED BY <1>5, <1>6, <1>7, <1>8, <1>9, <1>10, <1>11, <1>12 DEF AtaInv

\* With all registers written, the drive finds the address and the count of the call.
LEMMA CommandRight ==
    ASSUME AtaInv, pc = "out", step = 6, ~raced,
           RealLba < ByteBase * ByteBase * ByteBase * TopBase
    PROVE  ~AtWork /\ RegLba = RealLba /\ regs.cnt = req.n
PROOF
  <1>1. ~AtWork /\ \A i \in 1..5 : regs[RegOrder[i]] = RegValue(RegOrder[i])
    BY DEF AtaInv, RegsInv
  <1>2. /\ regs["top"] = RegValue("top") /\ regs["cnt"] = RegValue("cnt")
        /\ regs["low"] = RegValue("low") /\ regs["mid"] = RegValue("mid")
        /\ regs["high"] = RegValue("high")
    BY <1>1 DEF RegOrder
  <1>3. /\ regs.top = SplitLba(RealLba).top /\ regs.cnt = req.n
        /\ regs.low = SplitLba(RealLba).low /\ regs.mid = SplitLba(RealLba).mid
        /\ regs.high = SplitLba(RealLba).high
    BY <1>2 DEF RegValue
  <1>4. RealLba \in Nat
    BY DEF AtaInv, AtaTypeOK, Requests, RealLba
  <1>5. RegLba = RealLba
    BY <1>3, <1>4, SplitLbaRight DEF RegLba
  <1> QED BY <1>1, <1>3, <1>5

\* The address of a call fits in the registers.
LEMMA LbaFits ==
    ASSUME AtaInv, req.op = "mbr" \/ start_lba <= part_start, pc # "idle"
    PROVE  RealLba < ByteBase * ByteBase * ByteBase * TopBase
PROOF
  <1> USE AtaAssumption
  <1>1. CASE req.op = "mbr"
    <2>1. RealLba = 0
      BY <1>1 DEF AtaInv, RequestInv, RealLba
    <2>2. ByteBase * ByteBase * ByteBase * TopBase \in Nat \ {0}
      BY SMT
    <2> QED BY <2>1, <2>2
  <1>2. CASE req.op # "mbr"
    <2>1. req.rel \in RelLbas
      BY <1>2 DEF AtaInv, RequestInv
    <2>2. /\ req.rel \in Nat /\ start_lba \in Nat /\ start_lba <= part_start
          /\ part_start \in PartStarts /\ part_start \in Nat
      BY <1>2, LowWord DEF AtaInv, AtaTypeOK, Requests
    <2>3. ByteBase * ByteBase * ByteBase * TopBase \in Nat
      BY SMT
    <2>4. req.rel + part_start < ByteBase * ByteBase * ByteBase * TopBase
      BY <2>1, <2>2, AddressAssumption
    <2> QED BY <2>2, <2>3, <2>4 DEF RealLba
  <1> QED BY <1>1, <1>2

\* The command is written.
LEMMA OutCommandInv == ASSUME AtaInv, OutCommand PROVE AtaInv'
PROOF
  <1> USE AtaAssumption
  <1> DEFINE new == [cmd |-> IF req.op = "write" THEN "write" ELSE "read",
                     lba |-> RegLba, left |-> SectCount(regs.cnt), word |-> 0]
  <1>1. /\ pc = "out" /\ step = 6 /\ pc' = "poll"
        /\ raced' = (raced \/ AtWork)
        /\ IF AtWork THEN bsy' = bsy /\ err' = err /\ job' = job
           ELSE bsy' = TRUE /\ err' = FALSE /\ job' = new
        /\ drq' = drq /\ regs' = regs /\ disk' = disk /\ failed' = failed /\ step' = step
        /\ req' = req /\ moved' = moved /\ dest' = dest /\ start_lba' = start_lba
        /\ asked' = asked /\ long' = long /\ part_start' = part_start
    BY DEF OutCommand
  <1>2. raced' \in BOOLEAN /\ (~raced' => ~raced /\ ~AtWork)
    BY <1>1
  <1>3. new \in Commands /\ new.left > 0
    <2>1. /\ regs.low \in Nat /\ regs.mid \in Nat /\ regs.high \in Nat /\ regs.top \in Nat
          /\ regs.cnt \in Nat
      BY DEF AtaInv, AtaTypeOK, Registers
    <2>2. ASSUME NEW a \in Nat, NEW b \in Nat PROVE a + ByteBase * b \in Nat
      <3>1. ByteBase * b \in Nat
        BY SMT
      <3> QED BY <3>1
    <2>3. regs.high + ByteBase * regs.top \in Nat
      BY <2>1, <2>2
    <2>4. regs.mid + ByteBase * (regs.high + ByteBase * regs.top) \in Nat
      BY <2>1, <2>2, <2>3
    <2>5. RegLba \in Nat
      BY <2>1, <2>2, <2>4 DEF RegLba
    <2>6. SectCount(regs.cnt) \in Nat \ {0}
      BY <2>1 DEF SectCount
    <2> QED BY <2>5, <2>6 DEF Commands
  <1>4. \/ AtWork /\ bsy' = bsy /\ err' = err /\ job' = job
        \/ ~AtWork /\ bsy' = TRUE /\ err' = FALSE /\ job' = new
    BY <1>1
  <1>5. new.word = 0 /\ new.cmd \in {"read", "write"} /\ (req.op # "write" => new.cmd = "read")
    OBVIOUS
  <1>6. ASSUME ~raced', req.op = "mbr" \/ start_lba <= part_start
        PROVE  /\ ~AtWork /\ job' = new
               /\ new = [cmd |-> IF req.op = "write" THEN "write" ELSE "read",
                         lba |-> RealLba, left |-> SectCount(req.n), word |-> 0]
    <2>1. ~raced /\ ~AtWork
      BY <1>2, <1>6
    <2>2. RegLba = RealLba /\ regs.cnt = req.n
      BY <2>1, <1>1, <1>6, LbaFits, CommandRight
    <2> QED BY <2>1, <2>2, <1>1
  <1> HIDE DEF new
  <1>7. AtaTypeOK'
    BY <1>1, <1>2, <1>3, <1>4 DEF AtaInv, AtaTypeOK
  <1>8. DriveInv'
    <2>1. CASE AtWork /\ bsy' = bsy /\ err' = err /\ job' = job
      BY <2>1, <1>1 DEF AtaInv, DriveInv, AtWork
    <2>2. CASE ~AtWork /\ bsy' = TRUE /\ err' = FALSE /\ job' = new
      BY <2>2, <1>1, <1>3, <1>5 DEF DriveInv, AtWork
    <2> QED BY <1>4, <2>1, <2>2
  <1>9. RequestInv'
    BY <1>1 DEF AtaInv, RequestInv, RealLba
  <1>10. RegsInv'
    BY <1>1 DEF RegsInv
  <1>11. SingleReadsInv'
    <2>1. SUFFICES ASSUME asked = {}, ~long PROVE SingleReadsInv'
      BY <1>1 DEF SingleReadsInv
    <2>2. ~AtWork /\ ~raced /\ req.op # "write" /\ req.n = 1
      BY <1>1, <2>1 DEF AtaInv, SingleReadsInv
    <2>3. ~raced' /\ job' = new
      BY <1>1, <2>2
    <2>4. regs.cnt = 1
      <3>1. regs[RegOrder[2]] = RegValue(RegOrder[2])
        BY <1>1, <2>2 DEF AtaInv, RegsInv
      <3>2. regs["cnt"] = RegValue("cnt")
        BY <3>1 DEF RegOrder
      <3> QED BY <3>2, <2>2 DEF RegValue
    <2>5. new.left = 1
      BY <2>4 DEF new, SectCount
    <2> QED BY <1>1, <1>5, <2>1, <2>2, <2>3, <2>5 DEF SingleReadsInv
  <1>12. WriteInv'
    <2>1. SUFFICES ASSUME ~raced', start_lba <= part_start, job'.cmd = "write"
                   PROVE  job'.lba..(job'.lba + job'.left - 1) \subseteq asked
      BY <1>1 DEF WriteInv
    <2>2. /\ job'.lba = RealLba /\ job'.left = SectCount(req.n) /\ req.op = "write"
      BY <2>1, <1>6
    <2> QED BY <2>2 DEF AtaInv, RequestInv
  <1>13. SectorInv'
    <2>1. SUFFICES ASSUME req.n = 1, ~raced', ~failed PROVE PollInv' /\ ReadInv' /\ WriteOneInv'
      BY <1>1 DEF SectorInv
    <2>2. req.op = "mbr" \/ start_lba <= part_start
      BY <2>1, LowWord DEF AtaInv, AtaTypeOK, RequestInv
    <2>3. job' = JobOf(0)
      BY <2>1, <2>2, <1>6 DEF JobOf, SectCount
    <2>4. JobOf(0)' = JobOf(0) /\ AtWork'
      BY <1>1, <1>6, <2>1, <2>2 DEF JobOf, RealLba, AtWork
    <2> QED BY <1>1, <2>3, <2>4 DEF PollInv, ReadInv, WriteOneInv
  <1>14. LowWordTaken' /\ NoStrayWrites'
    BY <1>1, <1>2 DEF AtaInv, LowWordTaken, NoStrayWrites
  <1> QED BY <1>7, <1>8, <1>9, <1>10, <1>11, <1>12, <1>13, <1>14 DEF AtaInv

\* The polling loop ends.
LEMMA PollStepInv == ASSUME AtaInv, Poll PROVE AtaInv'
PROOF
  <1> USE AtaAssumption
  <1>1. /\ pc = "poll" /\ (~bsy \/ err)
        /\ pc' = IF err /\ req.op # "mbr" THEN "panic" ELSE "data"
        /\ bsy' = bsy /\ drq' = drq /\ err' = err /\ regs' = regs /\ job' = job
        /\ disk' = disk /\ failed' = failed /\ step' = step /\ raced' = raced
        /\ req' = req /\ moved' = moved /\ dest' = dest /\ start_lba' = start_lba
        /\ asked' = asked /\ long' = long /\ part_start' = part_start
    BY DEF Poll, driveVars
  <1>2. ~bsy /\ moved = 0 /\ dest = <<>>
    BY <1>1 DEF AtaInv, DriveInv, AtWork, RequestInv
  <1>3. pc' \in {"panic", "data"}
    BY <1>1
  <1>4. AtaTypeOK'
    BY <1>1, <1>3 DEF AtaInv, AtaTypeOK
  <1>5. DriveInv'
    BY <1>1 DEF AtaInv, DriveInv, AtWork
  <1>6. RequestInv'
    BY <1>1, <1>3 DEF AtaInv, RequestInv, RealLba
  <1>7. RegsInv'
    BY <1>3 DEF RegsInv
  <1>8. SingleReadsInv'
    <2>1. err => ~AtWork
      BY DEF AtaInv, DriveInv
    <2> QED BY <1>1, <1>2, <2>1 DEF AtaInv, SingleReadsInv, AtWork
  <1>9. WriteInv'
    BY <1>1 DEF AtaInv, WriteInv
  <1>10. SectorInv'
    <2>1. SUFFICES ASSUME req.n = 1, ~raced, ~failed, pc' = "data"
                   PROVE  PollInv' /\ ReadInv' /\ WriteOneInv'
      BY <1>1, <1>3 DEF SectorInv, PollInv, ReadInv, WriteOneInv
    <2>2. \/ AtWork /\ job = JobOf(0)
          \/ ~AtWork /\ err /\ RealLba \notin Sectors
      BY <1>1, <2>1 DEF AtaInv, SectorInv, PollInv
    <2>3. AtWork /\ job = JobOf(0)
      <3>1. SUFFICES ASSUME err, RealLba \notin Sectors PROVE FALSE
        BY <2>2
      <3>2. req.op = "mbr"
        BY <3>1, <2>1, <1>1
      <3>3. RealLba = 0
        BY <3>2, <1>1 DEF AtaInv, RequestInv, RealLba
      <3> QED BY <3>1, <3>3 DEF Sectors
    <2>4. drq /\ job.lba \in Sectors /\ job.lba = RealLba
      BY <2>3, <1>2 DEF AtWork, AtaInv, DriveInv, JobOf
    <2>5. RealLba' = RealLba /\ JobOf(moved)' = JobOf(0) /\ AtWork'
      BY <1>1, <1>2, <2>4 DEF JobOf, RealLba, AtWork
    <2>6. \A i \in 1..moved' : FALSE
      BY <1>1, <1>2
    <2> QED BY <1>1, <1>2, <2>1, <2>3, <2>4, <2>5, <2>6 DEF PollInv, ReadInv, WriteOneInv
  <1>11. LowWordTaken' /\ NoStrayWrites'
    BY <1>1, <1>3 DEF AtaInv, LowWordTaken, NoStrayWrites
  <1> QED BY <1>4, <1>5, <1>6, <1>7, <1>8, <1>9, <1>10, <1>11 DEF AtaInv

\* A word is read.
LEMMA InWordInv == ASSUME AtaInv, InWord PROVE AtaInv'
PROOF
  <1> USE AtaAssumption
  <1> DEFINE given == drq /\ job.cmd = "read"
             w == job.word + 1
             last == given /\ w = Words
             word == IF given THEN disk[job.lba][w] ELSE FloatingBus
  <1>1. /\ pc = "data" /\ req.op # "write" /\ moved < Total(req.n)
        /\ dest' = Append(dest, word)
        /\ job' = IF ~given THEN job
                  ELSE IF ~last THEN [job EXCEPT !.word = w]
                  ELSE IF job.left = 1 THEN NoJob
                  ELSE [job EXCEPT !.left = @ - 1, !.lba = @ + 1, !.word = 0]
        /\ drq' = (drq /\ ~last)
        /\ bsy' = (bsy \/ (last /\ job.left > 1))
        /\ moved' = moved + 1
        /\ err' = err /\ regs' = regs /\ disk' = disk /\ failed' = failed /\ pc' = pc
        /\ step' = step /\ req' = req /\ start_lba' = start_lba /\ raced' = raced
        /\ asked' = asked /\ long' = long /\ part_start' = part_start
    BY DEF InWord
  <1>2. /\ job \in Commands /\ dest \in Seq(Nat) /\ moved \in Nat
        /\ bsy \in BOOLEAN /\ drq \in BOOLEAN /\ Len(dest) = moved
        /\ disk \in [Sectors -> [1..Words -> Nat]]
    BY <1>1 DEF AtaInv, AtaTypeOK, RequestInv
  <1>3. drq => /\ job.word \in Nat /\ job.word < Words /\ job.lba \in Sectors /\ job.lba \in Nat
               /\ job.left \in Nat \ {0} /\ ~bsy /\ ~err
    BY <1>2 DEF AtaInv, DriveInv, AtWork, Commands
  <1>4. \/ ~given /\ job' = job /\ drq' = drq /\ bsy' = bsy
        \/ /\ given /\ w < Words /\ drq' = drq /\ bsy' = bsy
           /\ job' = [cmd |-> "read", lba |-> job.lba, left |-> job.left, word |-> w]
        \/ /\ given /\ w = Words /\ job.left = 1 /\ drq' = FALSE /\ bsy' = bsy
           /\ job' = NoJob
        \/ /\ given /\ w = Words /\ job.left > 1 /\ drq' = FALSE /\ bsy' = TRUE
           /\ job' = [cmd |-> "read", lba |-> job.lba + 1, left |-> job.left - 1, word |-> 0]
    <2>1. CASE ~given
      BY <2>1, <1>1, <1>2
    <2>2. CASE given /\ w # Words
      <3>1. job' = [job EXCEPT !.word = w] /\ drq' = drq /\ bsy' = bsy
        BY <2>2, <1>1, <1>2
      <3>2. job' = [cmd |-> "read", lba |-> job.lba, left |-> job.left, word |-> w]
        BY <2>2, <3>1, <1>2 DEF Commands
      <3>3. w < Words
        BY <2>2, <1>3
      <3> QED BY <2>2, <3>1, <3>2, <3>3
    <2>3. CASE given /\ w = Words /\ job.left = 1
      <3>1. drq' = FALSE
        BY <2>3, <1>1
      <3>2. bsy' = bsy
        BY <2>3, <1>1, <1>2
      <3>3. job' = NoJob
        BY <2>3, <1>1
      <3> QED BY <2>3, <3>1, <3>2, <3>3
    <2>4. CASE given /\ w = Words /\ job.left # 1
      <3>1. job.left > 1
        BY <2>4, <1>3
      <3>2. job' = [job EXCEPT !.left = @ - 1, !.lba = @ + 1, !.word = 0]
        BY <2>4, <1>1
      <3>3. job' = [cmd |-> "read", lba |-> job.lba + 1, left |-> job.left - 1, word |-> 0]
        BY <2>4, <3>2, <1>2 DEF Commands
      <3>4. drq' = FALSE /\ bsy' = TRUE
        BY <2>4, <3>1, <1>1
      <3> QED BY <2>4, <3>1, <3>3, <3>4
    <2> QED BY <2>1, <2>2, <2>3, <2>4
  <1>5. word \in Nat
    BY <1>2, <1>3
  <1>6. /\ dest' \in Seq(Nat) /\ Len(dest') = moved' /\ dest'[moved'] = word
        /\ \A i \in 1..moved : dest'[i] = dest[i]
    <2> HIDE DEF word
    <2> QED BY <1>1, <1>2, <1>5
  <1>7. AtaTypeOK'
    <2>1. job' \in Commands
      BY <1>2, <1>3, <1>4, SMTT(40) DEF Commands, NoJob
    <2>2. drq' \in BOOLEAN /\ bsy' \in BOOLEAN
      BY <1>2, <1>4
    <2> QED BY <1>1, <1>2, <1>6, <2>1, <2>2, SMTT(40) DEF AtaInv, AtaTypeOK
  <1>8. DriveInv'
    <2>1. CASE ~given /\ job' = job /\ drq' = drq /\ bsy' = bsy
      BY <2>1, <1>1 DEF AtaInv, DriveInv, AtWork
    <2>2. CASE /\ given /\ w < Words /\ drq' = drq /\ bsy' = bsy
               /\ job' = [cmd |-> "read", lba |-> job.lba, left |-> job.left, word |-> w]
      BY <2>2, <1>1, <1>3 DEF AtaInv, DriveInv, AtWork
    <2>3. CASE /\ given /\ job.left = 1 /\ drq' = FALSE /\ bsy' = bsy /\ job' = NoJob
      <3>1. ~bsy' /\ ~drq'
        BY <2>3, <1>3
      <3> QED BY <2>3, <3>1 DEF DriveInv, AtWork
    <2>4. CASE /\ given /\ job.left > 1 /\ drq' = FALSE /\ bsy' = TRUE
               /\ job' = [cmd |-> "read", lba |-> job.lba + 1, left |-> job.left - 1, word |-> 0]
      BY <2>4, <1>1, <1>3 DEF DriveInv, AtWork
    <2> QED BY <1>4, <2>1, <2>2, <2>3, <2>4
  <1>9. RequestInv'
    BY <1>1, <1>6 DEF AtaInv, RequestInv, RealLba
  <1>10. RegsInv'
    BY <1>1 DEF RegsInv
  <1>11. SingleReadsInv'
    <2>1. SUFFICES ASSUME asked = {}, ~long PROVE SingleReadsInv'
      BY <1>1 DEF SingleReadsInv
    <2>2. /\ ~raced /\ req.n = 1 /\ job.cmd # "write" /\ (AtWork => job.left = 1)
          /\ ~bsy /\ (drq => job.word = moved)
      BY <1>1, <2>1 DEF AtaInv, SingleReadsInv
    <2>3. drq => job.cmd = "read" /\ job.left = 1
      BY <2>2 DEF AtaInv, DriveInv, AtWork
    <2>4. /\ job'.cmd # "write" /\ ~bsy' /\ (drq' => job'.left = 1 /\ job'.word = moved')
      BY <1>1, <1>4, <2>2, <2>3 DEF NoJob
    <2> QED BY <1>1, <2>2, <2>4 DEF SingleReadsInv, AtWork
  <1>12. WriteInv'
    BY <1>1, <1>4 DEF AtaInv, WriteInv, NoJob
  <1>13. SectorInv'
    <2>1. SUFFICES ASSUME req.n = 1, ~raced, ~failed PROVE ReadInv'
      BY <1>1 DEF SectorInv, PollInv, WriteOneInv
    <2>2. /\ ~bsy /\ RealLba \in Sectors
          /\ \A i \in 1..moved : dest[i] = disk[RealLba][i]
          /\ drq => job = JobOf(moved)
          /\ ~drq => moved = Words
      BY <1>1, <2>1 DEF AtaInv, SectorInv, ReadInv
    <2>3. Total(req.n) = Words
      BY <2>1 DEF Total, SectCount
    <2>4. given /\ w = moved' /\ job.lba = RealLba /\ job.left = 1
      BY <1>1, <1>2, <2>2, <2>3 DEF JobOf
    <2>5. word = disk[RealLba][moved'] /\ RealLba' = RealLba
      BY <1>1, <2>4 DEF RealLba
    <2>6. \A i \in 1..moved' : dest'[i] = disk[RealLba][i]
      <3>1. SUFFICES ASSUME NEW i \in 1..moved' PROVE dest'[i] = disk[RealLba][i]
        OBVIOUS
      <3>2. i \in 1..moved \/ i = moved'
        BY <1>1, <1>2, SMTT(40)
      <3> HIDE DEF word
      <3> QED BY <3>2, <1>6, <2>2, <2>5
    <2>7. ~bsy' /\ (drq' => job' = JobOf(moved)')
      <3>1. JobOf(moved)' = [cmd |-> "read", lba |-> RealLba, left |-> 1, word |-> moved']
        BY <1>1, <2>5 DEF JobOf
      <3>2. ~bsy'
        <4>1. ~ (job.left > 1)
          BY <2>4
        <4> HIDE DEF given, w
        <4> QED BY <4>1, <1>4, <2>2
      <3>3. drq' => job' = [cmd |-> "read", lba |-> RealLba, left |-> 1, word |-> moved']
        BY <1>4, <2>4
      <3> QED BY <3>1, <3>2, <3>3
    <2>8. ~drq' => moved' = Words
      BY <1>4, <2>4, <1>2
    <2> QED BY <1>1, <2>2, <2>5, <2>6, <2>7, <2>8 DEF ReadInv
  <1>14. LowWordTaken' /\ NoStrayWrites'
    BY <1>1 DEF AtaInv, LowWordTaken, NoStrayWrites
  <1> QED BY <1>7, <1>8, <1>9, <1>10, <1>11, <1>12, <1>13, <1>14 DEF AtaInv

\* A word is written.
LEMMA OutWordInv == ASSUME AtaInv, OutWord PROVE AtaInv'
PROOF
  <1> USE AtaAssumption
  <1> DEFINE taken == drq /\ job.cmd = "write"
             last == taken /\ job.word + 1 = Words
  <1>1. /\ pc = "data" /\ req.op = "write" /\ moved < Total(req.n)
        /\ job' = IF taken THEN [job EXCEPT !.word = @ + 1] ELSE job
        /\ drq' = (drq /\ ~last)
        /\ bsy' = (bsy \/ last)
        /\ moved' = moved + 1
        /\ err' = err /\ regs' = regs /\ disk' = disk /\ failed' = failed /\ pc' = pc
        /\ step' = step /\ req' = req /\ start_lba' = start_lba /\ raced' = raced
        /\ asked' = asked /\ long' = long /\ part_start' = part_start /\ dest' = dest
    BY DEF OutWord
  <1>2. job \in Commands /\ moved \in Nat /\ bsy \in BOOLEAN /\ drq \in BOOLEAN
    BY DEF AtaInv, AtaTypeOK
  <1>3. drq => /\ job.word \in Nat /\ job.word < Words /\ job.lba \in Sectors
               /\ job.left \in Nat \ {0} /\ ~bsy /\ ~err
    BY <1>2 DEF AtaInv, DriveInv, AtWork, Commands
  <1>4. \/ ~taken /\ job' = job /\ drq' = drq /\ bsy' = bsy
        \/ /\ taken
           /\ job' = [cmd |-> "write", lba |-> job.lba, left |-> job.left, word |-> job.word + 1]
           /\ \/ job.word + 1 < Words /\ drq' = drq /\ bsy' = bsy
              \/ job.word + 1 = Words /\ drq' = FALSE /\ bsy' = TRUE
    <2>1. CASE ~taken
      BY <2>1, <1>1, <1>2
    <2>2. CASE taken
      <3>1. job' = [cmd |-> "write", lba |-> job.lba, left |-> job.left, word |-> job.word + 1]
        BY <2>2, <1>1, <1>2 DEF Commands
      <3>2. CASE job.word + 1 = Words
        BY <2>2, <3>1, <3>2, <1>1
      <3>3. CASE job.word + 1 # Words
        <4>1. job.word + 1 < Words
          BY <2>2, <3>3, <1>3
        <4>2. drq' = drq /\ bsy' = bsy
          BY <2>2, <3>3, <1>1, <1>2
        <4> QED BY <2>2, <3>1, <4>1, <4>2
      <3> QED BY <3>2, <3>3
    <2> QED BY <2>1, <2>2
  <1>5. ~ (asked = {} /\ ~long)
    BY <1>1 DEF AtaInv, SingleReadsInv
  <1>6. AtaTypeOK'
    <2>1. job' \in Commands
      BY <1>2, <1>3, <1>4 DEF Commands
    <2>2. drq' \in BOOLEAN /\ bsy' \in BOOLEAN
      BY <1>2, <1>4
    <2> QED BY <1>1, <1>2, <2>1, <2>2, SMTT(40) DEF AtaInv, AtaTypeOK
  <1>7. DriveInv'
    <2>1. CASE ~taken /\ job' = job /\ drq' = drq /\ bsy' = bsy
      BY <2>1, <1>1 DEF AtaInv, DriveInv, AtWork
    <2>2. CASE /\ taken /\ job.word + 1 < Words /\ drq' = drq /\ bsy' = bsy
               /\ job' = [cmd |-> "write", lba |-> job.lba, left |-> job.left, word |-> job.word + 1]
      BY <2>2, <1>1, <1>3 DEF DriveInv, AtWork
    <2>3. CASE /\ taken /\ job.word + 1 = Words /\ drq' = FALSE /\ bsy' = TRUE
               /\ job' = [cmd |-> "write", lba |-> job.lba, left |-> job.left, word |-> job.word + 1]
      BY <2>3, <1>1, <1>3 DEF DriveInv, AtWork
    <2> QED BY <1>4, <2>1, <2>2, <2>3
  <1>8. RequestInv'
    BY <1>1 DEF AtaInv, RequestInv, RealLba
  <1>9. RegsInv'
    BY <1>1 DEF RegsInv
  <1>10. SingleReadsInv'
    BY <1>1, <1>5 DEF SingleReadsInv
  <1>11. WriteInv'
    BY <1>1, <1>4 DEF AtaInv, WriteInv
  <1>12. SectorInv'
    <2>1. SUFFICES ASSUME req.n = 1, ~raced, ~failed PROVE WriteOneInv'
      BY <1>1 DEF SectorInv, PollInv, ReadInv
    <2>2. /\ drq => job = JobOf(moved)
          /\ bsy => moved = Words
          /\ ~AtWork => moved = Words
      BY <1>1, <2>1 DEF AtaInv, SectorInv, WriteOneInv
    <2>3. Total(req.n) = Words
      BY <2>1 DEF Total, SectCount
    <2>4. taken /\ job.word = moved /\ job.lba = RealLba /\ job.left = 1
      BY <1>1, <1>2, <2>2, <2>3 DEF JobOf, AtWork
    <2>5. RealLba' = RealLba
      BY <1>1 DEF RealLba
    <2>6. job' = JobOf(moved)'
      BY <1>1, <1>4, <2>4, <2>5 DEF JobOf
    <2>7. CASE moved' < Words /\ drq' = drq /\ bsy' = bsy
      BY <2>4, <2>6, <2>7, <1>1, <1>3 DEF WriteOneInv, AtWork
    <2>8. CASE moved' = Words /\ drq' = FALSE /\ bsy' = TRUE
      BY <2>6, <2>8, <1>1 DEF WriteOneInv, AtWork
    <2> QED BY <1>1, <1>4, <2>4, <2>7, <2>8
  <1>13. LowWordTaken' /\ NoStrayWrites'
    BY <1>1 DEF AtaInv, LowWordTaken, NoStrayWrites
  <1> QED BY <1>6, <1>7, <1>8, <1>9, <1>10, <1>11, <1>12, <1>13 DEF AtaInv

\* The function returns.
LEMMA ReturnInv == ASSUME AtaInv, Return PROVE AtaInv'
PROOF
  <1> USE AtaAssumption
  <1>1. /\ pc = "data" /\ moved = Total(req.n) /\ pc' = "idle"
        /\ start_lba' = IF req.op = "mbr" THEN dest[MbrWord + 1] ELSE start_lba
        /\ bsy' = bsy /\ drq' = drq /\ err' = err /\ regs' = regs /\ job' = job
        /\ disk' = disk /\ failed' = failed /\ step' = step /\ raced' = raced
        /\ req' = req /\ moved' = moved /\ dest' = dest /\ asked' = asked /\ long' = long /\ part_start' = part_start
    BY DEF Return, driveVars
  <1>2. req.n = 1 => moved = Words
    BY <1>1 DEF Total, SectCount
  <1>3. drq => job.word < Words
    BY DEF AtaInv, DriveInv
  <1>4. ASSUME req.op = "mbr"
        PROVE  /\ req.n = 1 /\ asked = {} /\ ~long /\ job.cmd # "write"
               /\ disk = FirstDisk(part_start)
               /\ Len(dest) = Words /\ RealLba = 0 /\ start_lba' = dest[MbrWord + 1]
    BY <1>1, <1>2, <1>4 DEF AtaInv, RequestInv, SingleReadsInv, RealLba
  <1>5. start_lba' \in Nat
    <2>1. CASE req.op = "mbr"
      <3>1. MbrWord + 1 \in 1..Len(dest) /\ dest \in Seq(Nat)
        BY <1>4, <2>1 DEF AtaInv, AtaTypeOK
      <3>2. dest[MbrWord + 1] \in Nat
        BY <3>1
      <3> QED BY <1>4, <2>1, <3>2
    <2>2. CASE req.op # "mbr"
      BY <1>1, <2>2 DEF AtaInv, AtaTypeOK
    <2> QED BY <2>1, <2>2
  <1>6. AtaTypeOK'
    BY <1>1, <1>5 DEF AtaInv, AtaTypeOK
  <1>7. DriveInv'
    BY <1>1 DEF AtaInv, DriveInv, AtWork
  <1>8. req.op # "mbr" => start_lba' = start_lba /\ RealLba' = RealLba
    BY <1>1 DEF RealLba
  <1>9. RequestInv'
    BY <1>1, <1>8 DEF AtaInv, RequestInv
  <1>10. RegsInv'
    BY <1>1 DEF RegsInv
  <1>11. SingleReadsInv'
    <2>1. SUFFICES ASSUME asked = {}, ~long PROVE SingleReadsInv'
      BY <1>1 DEF SingleReadsInv
    <2>2. /\ ~raced /\ req.op # "write" /\ req.n = 1 /\ job.cmd # "write"
          /\ ~bsy /\ (drq => job.word = moved)
      BY <1>1, <2>1 DEF AtaInv, SingleReadsInv
    <2>3. ~drq
      BY <2>2, <1>2, <1>3
    <2> QED BY <1>1, <2>2, <2>3 DEF SingleReadsInv, AtWork
  <1>12. WriteInv'
    <2>1. CASE req.op = "mbr"
      BY <1>1, <1>4, <2>1 DEF WriteInv
    <2>2. CASE req.op # "mbr"
      BY <1>1, <1>8, <2>2 DEF AtaInv, WriteInv
    <2> QED BY <2>1, <2>2
  <1>13. SectorInv'
    <2>1. SUFFICES ASSUME req.n = 1, ~raced, ~failed PROVE ReadInv' /\ WriteOneInv'
      BY <1>1 DEF SectorInv, PollInv
    <2>2. ReadInv /\ WriteOneInv
      BY <2>1 DEF AtaInv, SectorInv
    <2>3. ReadInv'
      <3>1. SUFFICES ASSUME req.op # "write"
                     PROVE  ~AtWork /\ (req.op = "read" => dest = disk[RealLba])
        BY <1>1, <1>8 DEF ReadInv, AtWork
      <3>2. /\ ~bsy /\ RealLba \in Sectors
            /\ \A i \in 1..moved : dest[i] = disk[RealLba][i]
            /\ drq => job = JobOf(moved)
        BY <1>1, <2>2, <3>1 DEF ReadInv
      <3>3. ~AtWork
        BY <3>2, <1>2, <1>3, <2>1 DEF AtWork, JobOf
      <3>4. dest \in [1..Words -> Nat] /\ disk[RealLba] \in [1..Words -> Nat]
        <4>1. Len(dest) = Words /\ dest \in Seq(Nat)
          BY <3>1, <1>2, <2>1 DEF AtaInv, RequestInv, AtaTypeOK
        <4>2. disk[RealLba] \in [1..Words -> Nat]
          BY <3>2 DEF AtaInv, AtaTypeOK
        <4> QED BY <4>1, <4>2
      <3>5. dest = disk[RealLba]
        BY <3>2, <3>4, <1>2, <2>1
      <3> QED BY <3>3, <3>5
    <2>4. WriteOneInv'
      <3>1. SUFFICES ASSUME req.op = "write"
                     PROVE  /\ ~drq /\ (bsy => job = JobOf(Words) /\ moved = Words)
                            /\ ~AtWork => moved = Words /\ disk[RealLba] = NewSector
        BY <1>1, <1>8 DEF WriteOneInv, AtWork, JobOf
      <3>2. ~drq
        BY <1>1, <1>2, <1>3, <2>1, <2>2, <3>1 DEF WriteOneInv, JobOf
      <3> QED BY <1>1, <2>2, <3>1, <3>2 DEF WriteOneInv
    <2> QED BY <2>3, <2>4
  <1>14. LowWordTaken'
    <2>1. SUFFICES ASSUME ~failed PROVE start_lba' = part_start % WordBase
      BY <1>1 DEF LowWordTaken
    <2>2. CASE req.op = "mbr"
      <3>1. ~raced /\ req.op # "write"
        BY <1>4, <2>2 DEF AtaInv, SingleReadsInv
      <3>2. \A i \in 1..moved : dest[i] = disk[RealLba][i]
        BY <3>1, <2>1, <2>2, <1>1, <1>4 DEF AtaInv, SectorInv, ReadInv
      <3>3. MbrWord + 1 \in 1..moved /\ MbrWord + 1 \in 1..Words /\ 0 \in Sectors
        BY <1>2, <1>4, <2>2 DEF Sectors
      <3>4. dest[MbrWord + 1] = FirstDisk(part_start)[0][MbrWord + 1]
        BY <3>2, <3>3, <1>4, <2>2
      <3>5. FirstDisk(part_start)[0][MbrWord + 1] = part_start % WordBase
        BY <3>3 DEF FirstDisk
      <3> QED BY <3>4, <3>5, <1>4, <2>2
    <2>3. CASE req.op # "mbr"
      BY <1>1, <2>1, <2>3 DEF AtaInv, RequestInv
    <2> QED BY <2>2, <2>3
  <1>15. NoStrayWrites'
    <2>1. CASE req.op = "mbr"
      BY <1>1, <1>4, <2>1 DEF NoStrayWrites
    <2>2. CASE req.op # "mbr"
      BY <1>1, <2>2 DEF AtaInv, NoStrayWrites
    <2> QED BY <2>1, <2>2
  <1> QED BY <1>6, <1>7, <1>9, <1>10, <1>11, <1>12, <1>13, <1>14, <1>15 DEF AtaInv

-----------------------------------------------------------------------------
\* kernel_main calls parse_mbr on a drive that is idle.
LEMMA AtaInitInv == Init => AtaInv
PROOF
  <1> USE AtaAssumption
  <1> SUFFICES ASSUME Init PROVE AtaInv
    OBVIOUS
  <1>1. FirstDisk(part_start) \in [Sectors -> [1..Words -> Nat]]
    <2>1. ASSUME NEW s \in Sectors, NEW w \in 1..Words PROVE 100 + s * Words + w \in Nat
      <3>1. s \in Nat /\ w \in Nat
        BY DEF Sectors
      <3>2. s * Words \in Nat
        BY <3>1
      <3> QED BY <3>1, <3>2
    <2>2. part_start % WordBase \in Nat /\ part_start \div WordBase \in Nat
      BY LowWord DEF Init
    <2> QED BY <2>1, <2>2 DEF FirstDisk
  <1>2. AtaTypeOK
    <2>1. regs \in [Registers -> Nat] /\ job \in Commands /\ req \in Requests
      BY DEF Init, Commands, Requests, NoJob
    <2>2. dest \in Seq(Nat)
      BY DEF Init
    <2>3. /\ bsy = FALSE /\ drq = FALSE /\ err = FALSE /\ pc = "out"
          /\ disk = FirstDisk(part_start)
          /\ step = 1 /\ moved = 0 /\ start_lba = 0 /\ raced = FALSE /\ failed = FALSE
          /\ long = FALSE /\ asked = {} /\ part_start \in PartStarts
      BY DEF Init
    <2>4. disk \in [Sectors -> [1..Words -> Nat]] /\ step \in 1..6 /\ start_lba \in Nat
      BY <1>1, <2>3
    <2> QED BY <2>1, <2>2, <2>3, <2>4 DEF AtaTypeOK
  <1>3. DriveInv /\ RegsInv /\ SingleReadsInv
    BY DEF Init, DriveInv, AtWork, RegsInv, SingleReadsInv, NoJob
  <1>4. RequestInv
    BY DEF Init, RequestInv
  <1>5. WriteInv /\ SectorInv /\ LowWordTaken /\ NoStrayWrites
    BY DEF Init, WriteInv, SectorInv, PollInv, ReadInv, WriteOneInv, LowWordTaken,
           NoStrayWrites, NoJob
  <1> QED BY <1>2, <1>3, <1>4, <1>5 DEF AtaInv

\* The driver and the drive, each at its own pace, keep the inductive invariant.
THEOREM AtaInvariant == Spec => []AtaInv
PROOF
  <1>1. AtaInv /\ [Next]_vars => AtaInv'
    <2> SUFFICES ASSUME AtaInv, [Next]_vars PROVE AtaInv'
      OBVIOUS
    <2>1. CASE UNCHANGED vars
      <3>1. /\ bsy' = bsy /\ drq' = drq /\ err' = err /\ regs' = regs /\ job' = job
            /\ disk' = disk /\ failed' = failed /\ DriverSame
        BY <2>1 DEF vars, driveVars, driverVars, DriverSame
      <3>2. AtaTypeOK' /\ DriveInv'
        BY <3>1 DEF AtaInv, AtaTypeOK, DriveInv, AtWork, DriverSame
      <3>3. RequestInv' /\ WriteInv'
        BY <3>1 DEF AtaInv, RequestInv, WriteInv, RealLba, DriverSame
      <3>4. RegsInv' /\ SingleReadsInv'
        BY <3>1 DEF AtaInv, RegsInv, SingleReadsInv, RegValue, RealLba, AtWork, DriverSame
      <3>5. SectorInv'
        BY <3>1 DEF AtaInv, SectorInv, PollInv, ReadInv, WriteOneInv, JobOf, RealLba,
             AtWork, DriverSame
      <3>6. LowWordTaken' /\ NoStrayWrites'
        BY <3>1 DEF AtaInv, LowWordTaken, NoStrayWrites, DriverSame
      <3> QED BY <3>2, <3>3, <3>4, <3>5, <3>6 DEF AtaInv
    <2>2. CASE Drive
      BY <2>2, DriveReadyInv, DriveFailsInv, DriveCommitsInv DEF Drive
    <2>3. CASE Driver
      BY <2>3, OutRegisterInv, OutCommandInv, PollStepInv, InWordInv, OutWordInv, ReturnInv
         DEF Driver
    <2>4. CASE \E op \in Ops, rel \in RelLbas, n \in Counts : Call(op, rel, n)
      BY <2>4, CallInv
    <2> QED BY <2>1, <2>2, <2>3, <2>4 DEF Next
  <1> QED BY <1>1, AtaInitInv, PTL DEF Spec

\* parse_mbr (mbr.c) finds the partition's first sector, unless the drive fails, exactly if
\* its number fits in one word.
THEOREM PartitionFoundHolds == Spec => []PartitionFound
PROOF
  <1>1. AtaInv => PartitionFound
    <2> SUFFICES ASSUME AtaInv, pc = "idle", ~failed
                 PROVE  start_lba = part_start <=> part_start < WordBase
      BY DEF PartitionFound
    <2>1. start_lba = part_start % WordBase /\ part_start \in PartStarts
      BY DEF AtaInv, LowWordTaken, AtaTypeOK
    <2>2. /\ part_start \in Nat /\ WordBase \in Nat \ {0}
          /\ part_start % WordBase < WordBase
      BY <2>1, LowWord
    <2>3. ASSUME part_start < WordBase PROVE part_start % WordBase = part_start
      BY <2>2, <2>3
    <2> QED BY <2>1, <2>2, <2>3
  <1> QED BY <1>1, AtaInvariant, PTL

\* As long as calls read single sectors, ata_read_sects_28_pio writes no register
\* while the drive is at work.
THEOREM NeverRacesHolds == Spec => []NeverRaces
PROOF
  <1>1. AtaInv => NeverRaces
    BY DEF AtaInv, SingleReadsInv, NeverRaces
  <1> QED BY <1>1, AtaInvariant, PTL

\* A call for one sector has moved exactly that sector when it returns, or for a
\* write when the drive is idle again.
THEOREM SectorTransferredHolds == Spec => []SectorTransferred
PROOF
  <1>1. AtaInv => SectorTransferred
    BY DEF AtaInv, SectorInv, ReadInv, WriteOneInv, SectorTransferred, NewSector
  <1> QED BY <1>1, AtaInvariant, PTL

\* No sector but those asked for is ever written, although the drive may fail in
\* the middle of a write.
THEOREM NoStrayWritesHolds == Spec => []NoStrayWrites
PROOF
  <1>1. AtaInv => NoStrayWrites
    BY DEF AtaInv
  <1> QED BY <1>1, AtaInvariant, PTL
=============================================================================

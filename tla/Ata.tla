--------------------------------- MODULE Ata ---------------------------------
(***************************************************************************)
(* The ATA driver (src/drivers/ata.c: ata_read_sects_28_pio and            *)
(* ata_write_sects_28_pio, the two functions the kernel calls) and         *)
(* parse_mbr (src/fs/mbr.c), running against a drive.                      *)
(*                                                                         *)
(* Driver and drive are two processes: the driver writes one register at a *)
(* time, polls the status and moves one word at a time, while the drive    *)
(* becomes ready, fails or commits a sector when it likes.  The drive is   *)
(* external: it is modelled by what the driver relies on, a register       *)
(* written while it is busy or transferring is ignored, and a word read    *)
(* when it offers none is whatever floats on the bus.                      *)
(***************************************************************************)
EXTENDS Integers, Sequences

CONSTANTS
    NSectors,       \* sectors of the drive
    Words,          \* words in a sector (256)
    ByteBase,       \* values of a byte (256)
    TopBase,        \* values of the LBA bits in the device register (16)
    MaxCount,       \* sectors that a count register of 0 stands for (256)
    MbrWord,        \* the word of sector 0 that parse_mbr takes (227, from 0)
    PartStarts,     \* sectors where the partition may begin
    FloatingBus,    \* a word read when the drive offers none
    NewWord,        \* the word callers write
    Ops,            \* the functions called after parse_mbr
    Counts,         \* sect_count of the calls
    RelLbas,        \* rel_lba of the calls
    MaxCalls,       \* bound: calls after parse_mbr
    Failures        \* whether the drive may fail

ASSUME AtaAssumption ==
    /\ NSectors \in Nat \ {0} /\ Words \in Nat \ {0} /\ MaxCount \in Nat \ {0}
    /\ ByteBase \in Nat \ {0} /\ TopBase \in Nat \ {0}
    /\ MbrWord \in 0..(Words - 2) /\ PartStarts \subseteq Nat
    /\ Ops \subseteq {"read", "write"} /\ Counts \subseteq Nat
    /\ RelLbas \subseteq Nat /\ MaxCalls \in Nat /\ Failures \in BOOLEAN
    /\ FloatingBus \in Nat /\ NewWord \in Nat

\* Callers use addresses of the partition that the 28 bits can name.
ASSUME AddressAssumption ==
    \A rel \in RelLbas, start \in PartStarts :
        rel + start < ByteBase * ByteBase * ByteBase * TopBase

VARIABLES
    bsy, drq, err,  \* the drive's status bits
    regs,           \* its registers
    job,            \* the command it executes
    disk,           \* its sectors
    pc,             \* the driver: "idle", "out", "poll", "data" or "panic"
    step,           \* when "out": the register to write next, 1..6
    req,            \* the call it executes: [op, rel, n]
    moved,          \* words moved so far
    dest,           \* words read
    start_lba,
    part_start,     \* the first sector of the partition, as sector 0 says
    raced,          \* history: a register was written while the drive was at work
    failed,         \* history: the drive failed
    asked,          \* history: sectors that calls asked to write
    long,           \* history: a call asked for more than one sector
    calls           \* history: calls after parse_mbr

driveVars == <<bsy, drq, err, regs, job, disk, failed>>
driverVars == <<pc, step, req, moved, dest, start_lba, part_start, raced, asked, long, calls>>
vars == <<driveVars, driverVars>>

Sectors == 0..(NSectors - 1)
SectCount(n) == IF n = 0 THEN MaxCount ELSE n
Total(n) == SectCount(n) * Words
NoJob == [cmd |-> "none", lba |-> 0, left |-> 0, word |-> 0]

\* A word of a sector holds two bytes.
WordBase == ByteBase * ByteBase

\* The drive, with the start of the partition in four bytes of sector 0, low word first.
\* Every other word of the drive is different, so that a read tells where it came from.
FirstDisk(start) ==
    [s \in Sectors |-> [w \in 1..Words |->
        IF s = 0 /\ w = MbrWord + 1 THEN start % WordBase
        ELSE IF s = 0 /\ w = MbrWord + 2 THEN start \div WordBase
        ELSE 100 + s * Words + w]]

-----------------------------------------------------------------------------
(* The drive.                                                              *)

AtWork == bsy \/ drq

\* The address the drive takes from its registers.
RegLba == regs.low + ByteBase * (regs.mid + ByteBase * (regs.high + ByteBase * regs.top))

\* A busy drive becomes ready to move a sector, or finds that there is none.
DriveReady ==
    /\ bsy
    /\ job.word = 0
    /\ bsy' = FALSE
    /\ drq' = (job.lba \in Sectors)
    /\ err' = (job.lba \notin Sectors)
    /\ job' = IF job.lba \in Sectors THEN job ELSE NoJob
    /\ UNCHANGED <<regs, disk, failed, driverVars>>

\* A busy drive fails, with or without setting the error bit (a device fault has
\* a bit of its own, which the driver does not test).
DriveFails ==
    /\ bsy
    /\ Failures
    /\ bsy' = FALSE
    /\ err' \in BOOLEAN
    /\ job' = NoJob
    /\ failed' = TRUE
    /\ UNCHANGED <<drq, regs, disk, driverVars>>

\* The drive stores a sector it has received.
DriveCommits ==
    /\ bsy
    /\ job.word = Words
    /\ disk' = [disk EXCEPT ![job.lba] = [w \in 1..Words |-> NewWord]]
    /\ IF job.left = 1
       THEN bsy' = FALSE /\ job' = NoJob
       ELSE /\ job' = [job EXCEPT !.left = @ - 1, !.lba = @ + 1, !.word = 0]
            /\ UNCHANGED bsy
    /\ UNCHANGED <<drq, err, regs, failed, driverVars>>

Drive == DriveReady \/ DriveFails \/ DriveCommits

-----------------------------------------------------------------------------
(* The driver.                                                             *)

RealLba == req.rel + start_lba

\* Defect: the byte for LBA_MID is taken from the wrong place.
SplitLbaShifted(lba) ==
    [low |-> lba % ByteBase,
     mid |-> ((lba \div ByteBase) \div ByteBase) % ByteBase,
     high |-> ((lba \div ByteBase) \div ByteBase) % ByteBase,
     top |-> (((lba \div ByteBase) \div ByteBase) \div ByteBase) % TopBase]

\* The parts of an address that go into the four registers.
SplitLba(lba) ==
    [low |-> lba % ByteBase,
     mid |-> (lba \div ByteBase) % ByteBase,
     high |-> ((lba \div ByteBase) \div ByteBase) % ByteBase,
     top |-> (((lba \div ByteBase) \div ByteBase) \div ByteBase) % TopBase]

\* The registers in the order they are written; the sixth is the command.
RegOrder == <<"top", "cnt", "low", "mid", "high">>
Registers == {"top", "cnt", "low", "mid", "high"}

RegValue(name) == IF name = "cnt" THEN req.n ELSE SplitLba(RealLba)[name]

Init ==
    /\ bsy = FALSE /\ drq = FALSE /\ err = FALSE
    /\ regs = [name \in Registers |-> 0]
    /\ job = NoJob
    /\ part_start \in PartStarts /\ disk = FirstDisk(part_start)
    /\ pc = "out" /\ step = 1
    /\ req = [op |-> "mbr", rel |-> 0, n |-> 1]
    /\ moved = 0 /\ dest = <<>>
    /\ start_lba = 0                        \* kernel_main, before parse_mbr
    /\ raced = FALSE /\ failed = FALSE /\ asked = {} /\ long = FALSE /\ calls = 0

\* get_block calls the driver for some block.
Call(op, rel, n) ==
    /\ pc = "idle"
    /\ pc' = "out" /\ step' = 1
    /\ req' = [op |-> op, rel |-> rel, n |-> n]
    /\ moved' = 0 /\ dest' = <<>>
    /\ asked' = IF op = "write"
                THEN asked \cup (rel + start_lba)..(rel + start_lba + SectCount(n) - 1)
                ELSE asked
    /\ long' = (long \/ n # 1)
    /\ calls < MaxCalls /\ calls' = calls + 1
    /\ UNCHANGED <<start_lba, part_start, raced, driveVars>>

\* One register is written.
OutRegister ==
    /\ pc = "out" /\ step < 6
    /\ step' = step + 1
    /\ regs' = IF AtWork THEN regs
               ELSE [regs EXCEPT ![RegOrder[step]] = RegValue(RegOrder[step])]
    /\ raced' = (raced \/ AtWork)
    /\ UNCHANGED <<bsy, drq, err, job, disk, failed, pc, req, moved, dest, start_lba,
                   part_start, asked, long, calls>>

\* The command is written.
OutCommand ==
    /\ pc = "out" /\ step = 6
    /\ pc' = "poll"
    /\ raced' = (raced \/ AtWork)
    /\ IF AtWork THEN UNCHANGED <<bsy, err, job>>
       ELSE /\ bsy' = TRUE
            /\ err' = FALSE
            /\ job' = [cmd |-> IF req.op = "write" THEN "write" ELSE "read",
                       lba |-> RegLba,
                       left |-> SectCount(regs.cnt),
                       word |-> 0]
    /\ UNCHANGED <<drq, regs, disk, failed, step, req, moved, dest, start_lba, part_start, asked,
                   long, calls>>

\* Defect: the status is read but not waited for.
PollOnce ==
    /\ pc = "poll"
    /\ pc' = IF err /\ req.op # "mbr" THEN "panic" ELSE "data"
    /\ UNCHANGED <<step, req, moved, dest, start_lba, part_start, raced, asked, long, calls,
                   driveVars>>

\* Defect: the driver waits for data to be requested.
PollForData ==
    /\ pc = "poll"
    /\ drq \/ err
    /\ pc' = IF err /\ req.op # "mbr" THEN "panic" ELSE "data"
    /\ UNCHANGED <<step, req, moved, dest, start_lba, part_start, raced, asked, long, calls,
                   driveVars>>

\* The polling loop ends.  parse_mbr goes on even after an error.
Poll ==
    /\ pc = "poll"
    /\ ~bsy \/ err
    /\ pc' = IF err /\ req.op # "mbr" THEN "panic" ELSE "data"
    /\ UNCHANGED <<step, req, moved, dest, start_lba, part_start, raced, asked, long, calls,
                   driveVars>>

\* inw: one word is read.  The drive goes on to the next sector after the last
\* word of one.
InWord ==
    /\ pc = "data" /\ req.op # "write" /\ moved < Total(req.n)
    /\ LET given == drq /\ job.cmd = "read"
           w == job.word + 1
           last == given /\ w = Words
       IN  /\ dest' = Append(dest, IF given THEN disk[job.lba][w] ELSE FloatingBus)
           /\ job' = IF ~given THEN job
                     ELSE IF ~last THEN [job EXCEPT !.word = w]
                     ELSE IF job.left = 1 THEN NoJob
                     ELSE [job EXCEPT !.left = @ - 1, !.lba = @ + 1, !.word = 0]
           /\ drq' = (drq /\ ~last)
           /\ bsy' = (bsy \/ (last /\ job.left > 1))
    /\ moved' = moved + 1
    /\ UNCHANGED <<err, regs, disk, failed, pc, step, req, start_lba, part_start, raced,
                   asked, long, calls>>

\* outw: one word is written.
OutWord ==
    /\ pc = "data" /\ req.op = "write" /\ moved < Total(req.n)
    /\ LET taken == drq /\ job.cmd = "write"
           last == taken /\ job.word + 1 = Words
       IN  /\ job' = IF taken THEN [job EXCEPT !.word = @ + 1] ELSE job
           /\ drq' = (drq /\ ~last)
           /\ bsy' = (bsy \/ last)
    /\ moved' = moved + 1
    /\ UNCHANGED <<err, regs, disk, failed, pc, step, req, dest, start_lba, part_start,
                   raced, asked, long, calls>>

\* Defect: parse_mbr takes the word behind.
ReturnOffByOne ==
    /\ pc = "data"
    /\ moved = Total(req.n)
    /\ pc' = "idle"
    /\ start_lba' = IF req.op = "mbr" THEN dest[MbrWord + 2] ELSE start_lba
    /\ UNCHANGED <<step, req, moved, dest, part_start, raced, asked, long, calls, driveVars>>

\* Defect: the loop ends one word early.
ReturnEarly ==
    /\ pc = "data"
    /\ moved = Total(req.n) - (IF req.op = "mbr" THEN 0 ELSE 1)
    /\ pc' = "idle"
    /\ start_lba' = IF req.op = "mbr" THEN dest[MbrWord + 1] ELSE start_lba
    /\ UNCHANGED <<step, req, moved, dest, part_start, raced, asked, long, calls, driveVars>>

\* All words are moved and the function returns.  A write does not wait for the
\* drive.  parse_mbr has taken one word for the partition's start, its lower half.
Return ==
    /\ pc = "data"
    /\ moved = Total(req.n)
    /\ pc' = "idle"
    /\ start_lba' = IF req.op = "mbr" THEN dest[MbrWord + 1] ELSE start_lba
    /\ UNCHANGED <<step, req, moved, dest, part_start, raced, asked, long, calls, driveVars>>

Driver == OutRegister \/ OutCommand \/ Poll \/ InWord \/ OutWord \/ Return

Next ==
    \/ Drive
    \/ Driver
    \/ \E op \in Ops, rel \in RelLbas, n \in Counts : Call(op, rel, n)

\* The processor runs the driver, and a drive does not stay busy for ever.
Spec == Init /\ [][Next]_vars /\ WF_vars(Driver) /\ WF_vars(Drive)

-----------------------------------------------------------------------------
(* Properties.                                                             *)

\* parse_mbr finds where the partition begins exactly if the number of that sector fits in
\* the one word it takes, of the two in the partition table (65536 sectors, 32 MB).  If the
\* drive fails it takes what floats on the bus, because it does not test the error bit.
PartitionFound ==
    pc = "idle" /\ ~failed => (start_lba = part_start <=> part_start < WordBase)

\* As long as calls read single sectors, the drive is never at work when a command
\* is prepared, so no register write is lost, even after it has failed.
NeverRaces == asked = {} /\ ~long => ~raced

\* A call for one sector has moved all the words of that sector when it returns,
\* or for a write when the drive is idle again, unless the drive failed or a
\* command was prepared while it was at work.
SectorTransferred ==
    pc = "idle" /\ req.n = 1 /\ ~raced /\ ~failed =>
        /\ req.op = "read" => dest = disk[RealLba]
        /\ req.op = "write" /\ ~AtWork => disk[RealLba] = [w \in 1..Words |-> NewWord]

\* No sector but those asked for is ever written, even when the drive fails in the
\* middle, unless a command was prepared while it was at work - it then takes some
\* registers and ignores others - or parse_mbr took a start behind the partition's:
\* addresses too large for the registers then come around to low ones.
NoStrayWrites ==
    ~raced /\ start_lba <= part_start =>
        \A s \in Sectors : disk[s] # FirstDisk(part_start)[s] => s \in asked

\* Every call returns or panics: the polling loop ends whatever the drive does,
\* and the transfer loop does not depend on it.
CallsEnd == [](pc # "idle" => <>(pc \in {"idle", "panic"}))
=============================================================================

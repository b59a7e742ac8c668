# A TLA+ model of SaxonOS

SaxonOS is a small 32-bit kernel in C and assembly. It boots, maps its heap,
starts and joins one kernel thread, finds the partition of an ATA disk, mounts an
ext2 file system on it through a buffer cache, and prints the beginning of one
file. This directory holds TLA+ modules of its parts, TLC configurations that
check them on small instances, and proofs checked by TLAPS. `PROJECT.json` lists
components, runs, the lines each definition stands for, seeded defects
("mutants") that show each property can fail, hazards and theorems.

Paths below are relative to the root of the repository. There are no documents
and no tests in it: what the code promises is taken from its comments, its panic
messages and the way its own functions use each other.

## 1. Inventory

| Part | Code | State | Operations | Used by |
|---|---|---|---|---|
| Page frames | `src/mm/frame.c` | bitmap `frame_map` | `init_frames`, `kalloc_frame`, `kfree_frame` | paging |
| Paging | `src/mm/paging.c` | the first page table, `next_free_page` | `init_paging`, `kalloc_page`, `kfree_page` | `kernel_main`, threads |
| Heap | `src/mm/heap.c` | headers in memory, linked both ways | `kheap_init`, `kmalloc`, `kfree`, `kcalloc`, `krealloc` | everything above it |
| Threads | `src/task.c`, `src/switch.s` | list of `kthread_t`, `running_thread`, `last_thread` | `kthread_create`, `kthread_join`, `preempt` | `kernel_main`, `test` |
| ATA driver, partition table | `src/drivers/ata.c`, `src/fs/mbr.c` | the drive's registers, `start_lba` | read and write sectors, `parse_mbr` | buffer cache |
| Buffer cache | `src/fs/devfs/buffer.c` | pool of buffers, hash chains, free list | `get_block`, `put_block` | devfs, ext2 |
| Block device files | `src/fs/devfs/devfs.c` | the one block device, position of the caller | `add_bdev`, `find_bdev`, `devfs_read`, `devfs_write`, `bdev_read`, `bdev_write` | mount (the rest: nobody yet) |
| ext2 | `src/fs/ext2/ext2.c` | geometry in static variables, `bgdt_entries` | mount, read inode, look up, read, write | VFS, `kernel_main` |
| VFS | `src/fs/vfs/vfs.c` | lists of file system types and super blocks | register, unregister, find, `init_fs` | `kernel_main` |
| Interrupts | `src/irq.c`, `src/idt.c`, `src/asm/idt.asm` | table of handlers, gates | install, dispatch, acknowledge | drivers |
| Timer, keyboard, clock | `src/drivers/` | `jiffies`; the time last read | the three handlers | terminal, `sys_time` |
| System calls | `src/userspace/` | table | `int 0x80` | no user process exists |
| Terminal | `src/kernel.c` | cursor, color, display memory | `terminal_putchar` and what calls it, `kpanic` | everything |
| Strings and memory | `src/common.c` | none | `memcpy`, `strncmp`, ... | everything |
| Boot code | `src/boot.asm` | first page directory | turns paging on, calls `kernel_main` | |
| Segments and task | `src/gdt.c`, `src/tss.c` | `gdt`, `gp`, `tss_entry` | `gdt_install` | boot |
| PCI | `src/drivers/pci.c` | none | reads of configuration space | nobody yet |

How they interact: all calls are synchronous; interrupts would come once the kernel
executes `sti`, which `kernel_main` has in front of an idle loop it does not reach,
since it stops in an earlier one. What makes the parts hard is (a) memory shared
through pointers: headers, list fields and buffers outlive the call that set them, and
structures from `kmalloc` or the stack are used with fields nobody set; (b) order:
what a sequence of legal calls leaves behind for the next one; (c) devices that go on
while the driver reads registers one by one: disk, clock, keyboard and the two
interrupt controllers; (d) the cooperative switch between threads, with cached
translations, and turning paging on under running code; (e) boundaries: the last page,
the last entry, the exact fit, the count that is 0.

What makes each part correct:

* frames and pages: a page handed out is not in use; panics only when nothing is
  left; where frames are shared, why;
* heap: blocks tile the range, regions held are apart, freeing everything gives
  the whole heap back;
* threads: every live thread has its own stack and gets its turn, joined threads
  never run, main gets the processor back;
* driver: the sector asked for, and no other, is moved, and calls end;
* cache: a read returns what was last written, a held buffer is not taken away,
  walks end;
* file functions: the right bytes, a position that tracks them, nothing kept;
* ext2: inodes and names are found where they are;
* VFS: a name finds its own type and super block;
* interrupts: each is acknowledged where it has to be, keys and time come through
  whole and in order, and go on coming;
* terminal: the last lines written are to be seen; memory functions: bytes arrive;
* boot: what is executed and accessed is mapped at every step, tables say what was
  meant, NULL is not mapped.

## 2. Modules and how they correspond to the code

`MC*` modules give constants their values for TLC; bounds are in the `.cfg` files.

**Heap** (with **Allocator**, **HeapProofs**). `hdr` maps the address of every
header reachable from the first to its four fields; addresses and the 16-byte
header are those of the code. `held` is what callers were given. `Kmalloc` covers
both loops (one byte, and aligned), the split, and the path that realigns a block;
the size that path never assigns is a choice from `StalePayload`. `Kfree` has both
merges. `Kcalloc` and `Krealloc` are in `ApiNext`. `Allocator` is the abstract
specification: regions inside the range, apart from those held. Payload bytes are
left out, except where the code reads or overwrites them as a header.

**Frames** is the bitmap as a set, with the whole-word test of `kalloc_frame` and
the whole-word clearing of `kfree_frame` (`&= 0 << frame`). **Paging** (with
**PagingProofs**) puts the page table on top; `cleared` remembers the words that a
free has cleared.

**Kthreads** (proofs in **PagingProofs**) extends Paging with the boot sequence and the thread list.
`kthread_create` runs on into `preempt`, so creating a thread and switching to it
are one action; a running thread does nothing but call `preempt`. `tlb` holds the
cached translation of the current stack page, because `switch_task` pushes on the
new stack before it reloads CR3. `dead` says how the kernel stopped: a fault, an
endless loop, or a stack that is not the thread's own. The list's misbehaviour in
`kthread_join` is modelled as it is: a thread right behind main is not unlinked, so main's
`next` and `last_thread` still point to its struct after it is freed. A thread may be
created in any struct that is not live, which `kmalloc` may return after a `kfree`: the
joined one or another (`strayed` remembers that it was another).

**Ata** (with **AtaProofs**) has the driver and the drive as two processes. The driver writes registers
one by one, polls, and moves words one by one; the drive gets ready, fails or
stores a sector at any time. The drive is external: registers written while it is
at work are ignored, a word read when it offers none is what floats on the bus.
The features register, always 0, is left out. `parse_mbr` is the first command. The
partition table has the start of the partition (`part_start`) in two words, of which
`parse_mbr` takes the lower one.

**BufferCache** (with **BlockStore**, **BufferCacheProofs**) has the buffers as records with the same link fields; a walk longer
than the pool is a cycle, and the kernel hangs. Blocks hold one value. `prev` is
never read and is left out, and so is `mru_buff`, used for a class of buffers that
no code sets. The fields of the first buffer that `init_buffer` leaves as they were
are a choice (`StaleDirty`, `StaleCount`), except its `block_num`: it lies on the `ebx` of
the freed `kthread_t`, which `kthread_create` sets to 0 and which `test` and `preempt`
preserve, like all C functions. So the buffer is labelled 0 like the others, a block that
callers do not ask for, and its device does not matter; nor do its `flags`, the low byte of
an address saved as `eax`, since only one class of buffers is told apart by them, which
aligned addresses do not give. The other buffers lie in memory that
`kheap_init` zeroed. `BlockStore` is the abstract specification: blocks are opened,
written and closed, and there are no buffers. `Careful` says for which callers the cache
keeps that promise, and `CarefulSpec` is the cache under such callers; a block's contents is in the buffer labelled with it, or
else on the disk.

**RootFs** (with **RootFsProofs**) is what `kernel_main` does once the root file system is mounted: a lookup,
then a read or write with the inode it got, whatever the lookup returned. After a
failure `dest` is what the memory from `kmalloc` held, here any inode with any size. It
composes two modules by INSTANCE, each with variables of its own:
**Ext2Lookup** is the walk over a directory, in which an entry may reach over the end
of a sector and what lies at the start of the next one is then taken for an entry. An
empty name, or a directory whose inode is not in use, is refused at once.
**FileIO** is one call of `bdev_read`, `bdev_write`, `ext2_read` or `ext2_write` with
all its local variables; a byte is named by the place it is moved from or to.
`get_block` faults rather than returning NULL, so the tests for NULL are left out. The
test of `flags` is what C's precedence makes of it, one of the lowest bit.
`devfs_read` and `devfs_write` are in RootFs too, before the lookup.

**Vfs** has the list linked through the callers' structures. Names are told apart only
by the relation "begins with", which is what `strncmp` with the length of the name
looked for tests. **Ext2Mount** (with **MountProofs**, about both) extends it: `init_fs` registers the type, takes a super
block that `kmalloc` did not clear (its type may be 0 or not, its `next` may lead
anywhere: `wild`), and calls `read_super` on the device `add_bdev` made known. Then it
has the geometry computed from a superblock and the place where `read_inode` looks.
`find_bdev` compares a minor number that nobody set (`Minors`).

**Interrupts** (with **InterruptsProofs**) has devices, both controllers and the processor as processes that run
side by side. `frames` is the stack of handlers being executed, each with the step it
is at; one action per access to a port, so that devices may go on in between. It
begins with everything installed and interrupts enabled. Controllers (requests, lines in
service, priorities, spurious interrupts), keyboard and clock are external. It extends
**Rtc**, clock and `read_rtc` with its conversions. External assumption there: an
update is announced (244 microseconds) longer ahead than reading six registers takes.

**Strings** has the functions of `common.c` on a memory of bytes, recursive functions
where the loop reads what it wrote. **Terminal** (proofs in **KernelProofs**) has the display, its scrolling in
place, hexadecimal numbers, `kpanic`, and the memory that strings are printed from;
`doc` remembers what was written as lines of text, the reference `ShowsLastLines`
compares the display with.

**Boot** (with **KernelProofs**) runs `boot.asm` instruction by instruction: `Mapped` is what the current
directory translates, and `Step` faults if the instruction or what it accesses is not
where it must be. It goes on with `kernel_main` to `init_paging`. It extends
**Segments**, the descriptor tables byte by byte, with the entries that are written
behind the array (`Owners`: what the linker put there), and **Pci**, in which a value
is named by the bytes of configuration space it is made of.

## 3. Runs

Passing runs:

| Run | Instance | What it shows |
|---|---|---|
| `heap` | 108 bytes, sizes 0, 4, 24 | tiling, restoration; implements `Allocator` |
| `paging` | 7 frames in words of 3, 8 pages | the next page is unused; frames run out only when all are taken; frames are shared only after a clear; both panics occur |
| `kthreads` | 5 structs, 8 pages, 9 frames in words of 3, 1 or 2 pages of heap | pages of heap and stacks stay mapped and apart, when only live threads run and when not, round robin, the first push on a stack that came back with another frame goes through the page table, main runs again |
| `buffer` | 3 buffers, 4 blocks, 4 chains, two callers | the free list ends, a buffer obtained by a miss stays, the pool serves at most 2N-1 misses; without collisions and sharing, walks end and the cache implements `BlockStore` |
| `ata` | 13 sectors, one-bit "bytes", partitions that begin at a sector that fits in a word and at one that does not, calls for 1 and 2 sectors, failures | the start of the partition is found if it fits, single reads lose no register write, what is not raced arrives, nothing else is written, calls end |
| `files` | sectors of 4 bytes, blocks of 2 sectors, positions and counts to 9, 10 directories, 6 inodes | the bytes read are those of the file named; lookups and transfers are right and return with nothing kept |
| `mount` | four types, three names, 5 superblocks, 1 to 18 groups | the list ends, names find their type and super block, every inode's place, the table stays held |
| `interrupts` | two moments of the clock, four formats, two scan codes, one tick | acknowledgements, keys, time, and that the clock goes on |
| `console` | 3 rows of 2 cells, 3 bytes of memory | the display shows the last lines; copies are right |
| `boot` | 4 loaders, 4 linkers, 2 places of the task, 12 PCI functions | everything accessed is mapped, NULL is not, tables and PCI reads are right |

Several properties carry a condition, because the code keeps its promise only
there. The condition is part of what the run shows; mutants confirm that the
properties can fail within it:

* `OnlyLiveThreadsRun`, `RoundRobin`: threads are joined one at a time. Otherwise
  `kthread_join` dereferences NULL, loops for ever, or leaves a joined thread on
  the list. `OnlyLiveThreadsRun` says more about that last case: even a thread joined
  alone stays linked behind main, and if the next one is created in another struct - after
  other memory was taken from the heap, as `init_buffer` does - it is linked behind the
  freed one and the processor always goes to the joined thread, on a stack that was freed.
  Only created again in the same struct do threads run as they should; and that also
  excludes stacks whose frame was given out twice, which `kfree_frame` makes possible.
* `ImplementsStore`, `ChainsEnd`: the blocks asked for have hash chains of their own and
  callers have held one buffer at a time (`shared` remembers). With a collision,
  relabelled buffers cut chains. `PoolServesTwice` is exact under the latter
  condition and a clean first buffer, and a bound otherwise.
* `SectorTransferred`, `NoStrayWrites`: no register was written while the drive was
  at work (`raced`). `NeverRaces` shows that as long as calls read single sectors
  that never happens; after a write, or a call for several sectors, it can.
  `NoStrayWrites` also needs a start that is not behind the partition's: after a failed
  `parse_mbr`, addresses are too large for the registers and come around. (A start whose
  upper half is lost does no such harm: the sectors are the wrong ones, but those asked for.)
* `PartitionFound`: the drive does not fail; `parse_mbr` does not test the error. The
  partition is found exactly if the number of its first sector fits in 16 bits. Of a later
  one `parse_mbr` loses the upper half.
* `TransferRight`, for the bytes: on the device the request starts at a sector boundary
  or stays in a sector; in a file it lies in the first sector. `CallsReturn` for ext2:
  in addition the file has one block; with more, the loop does not end. What is not a
  regular file is refused with memory, and for a write a buffer, kept.
* `LookupRight`, `ReadsNamedFile`, `CallsReturn` for lookups: every sector of the
  directory begins with an entry. The last entry of a sector is never compared. That a
  lookup fails only if the name is not there holds for names that are not empty and
  directories in use.
  `ReadsNamedFile` needs a lookup that succeeded.
* `InodePlaceRight`: the first 16 block groups.
* `ListEnds`: no registered name is empty.
* `TimeRight`: not the hour 12 of a 12 hour clock: midnight becomes 12 and noon 0.
* `KeysInOrder`: no scan code comes between the two reads of the port or while the
  handler waits on a port that holds 0 (`overtaken`).
* `ClockKeepsComing`: the kernel does not stop, the keyboard handler does not wait for
  ever, and no interrupt of the clock came while its handler was not installed (`lost`).
* `StepsReach`: the multiboot information is in the first 4 MB. `StepsReach` and
  `TablesRight`: nothing that is written to lies behind `gdt`; and for the limit of the
  task, its address does not make it too small.
* `ConfigRight`: even offsets. `CopiesRight` for `memcpy`: the destination does not
  begin inside the source.

Runs that show a disagreement between a comment and the code (findings):

* `heap_mixed`, `heap_api`: `include/mm/heap.h:24` says the functions "work the same
  way as the ones in the C standard library". A one-byte request before a larger
  one leads to overlapping memory; `kcalloc` and `krealloc` return pointers 16 bytes
  too high, and `krealloc` copies over the next header.

### Bounds

The heap instances hold up to six blocks, so splits, remainders too small to
split, merges on both sides and exhaustion occur. The paging instance has two full
words and a short one and reaches both panics. Five thread structs exhaust
the pages before the frames. With one page of heap the first stack begins a word of the
bitmap, so that a thread created after a join has a frame of its own; with two, the first
stack shares its word with the heap, and its page comes back with another frame. Three buffers and four blocks give evictions, collisions and the end of the
pool. The one-bit registers of the driver make small addresses use all four, and
`MaxCalls` lets three calls follow `parse_mbr`: one that leaves the drive at work,
one that races it, one that meets the outcome. File positions reach over three
sectors of blocks of two; the inodes cover one block, two, all, a hole and none.
`MaxSupers` bounds the list of super blocks. Two scan codes and one tick suffice for
every nesting of requests, since handlers run with interrupts off: what counts is
what is pending when one returns. Two moments between which all six values change
show every mixture. Three rows of two cells scroll with a row in between, and an
extra cell that is also the first of the next row. Deadlock is not
checked, because each of these systems really may stop: a kernel that panicked or
faulted, a call that has returned, a bound that is reached.

### Fairness

`Kthreads`: weak fairness of `Preempt`; `test` never stops calling it. `Ata`: weak
fairness of the driver (the processor runs it) and of the drive (it does not stay
busy for ever; a drive that did would hang the kernel, since polling has no limit).
`RootFs`: weak fairness of the steps of the function that is running. `Interrupts`:
weak fairness of the processor, of the end of an announced update, and of the clock's
interrupt once register C was read (it is periodic). No fairness is assumed of callers,
of keys or of other devices.

## 4. Proofs

`HeapProofs` proves, for every heap range, every alignment-respecting start and
every set of request sizes that are multiples of a word (`WordSized`, which holds
for every call in the kernel), type correctness, `BlocksTile`, `NoFreeNeighbours`,
`HeldBlocksUsed`, `AllFreedRestoresHeap`, `RegionsApart` and that `Heap` implements
`Allocator`. The inductive invariant `HeapInv` adds to tiling, coalescing and
ownership that all blocks are word-aligned: without it `kmalloc` may enter the
realigning path, which breaks the tiling (`heap_mixed` shows it). Lemmas describe
what a split (`SplitFields`, `TakeKeepsTiles`) and a merge (`AbsorbFields`,
`AbsorbKeepsTiles`) do to an arbitrary tiling; `StepInv` puts them together action
by action. `RestorationTheorem` follows from tiling and coalescing: with nothing
used there is one block. `Implementation` follows from `HeapInv` step by step.

`PagingProofs` proves, for every number of frames, pages and bits in a word,
`PagingTypeOK`, `NextFreePageUnused`, `WordsFillUpwards`, `FramePanicMeansFull` and
`AliasOnlyInClearedWords`. The inductive invariant `PagingInv` adds that every
mapped frame is marked unless its word was cleared (`MappedFramesMarked`); that is
what makes sharing impossible elsewhere, and `FillsUpwards` what makes the search
complete although it tests whole words.

Over `Kthreads`, which extends Paging, the same module proves `PagesApart`,
`OnlyLiveThreadsRun`, `RoundRobin` and `PushReachesStack` for any number of threads,
pages and frames. `KthreadsInv` adds to `PagingInv`: where stacks lie (`StacksInv`);
that cached translations agree with the page table and that main, under which pages
are freed, finds none (`TlbInv`); and, while threads are joined one at a time and created
again in the joined struct, that the live structs are linked in the order of their creation,
that those up to the running one have had a turn, and that the last one joined stays linked
behind main (`InOrder`, from `ListShape` and `TurnsInv`). A create in another struct has
then stopped the kernel (`CreateStray`). `MainWaitsBounded`: while threads are joined one
at a time, `preempt` goes to a live thread that has had no turn yet or to main, which
therefore waits for at most one turn of each thread.

`InterruptsProofs` proves `Acknowledged`, `TimeRight`, `SysTimeWhole` and `KeysInOrder`
for any times, scan codes and system calls. `HandlersInv`: at most one handler runs,
with interrupts off, and the lines in service are those it put there; `Acknowledged`
alone says nothing about a handler under way. `RtcInv`: once the poll has ended, an
update is too late for the reads. `SampledInv`: what `sys_time` has read so far are the
current values. `KeysInv`: unless overtaken, the port holds the one code not yet read;
`ShowsPresses` is stated with a map from characters to codes, so that one more code
extends the map and no sequence is filtered.

`KernelProofs` proves `StepsReach`, `NullFaults`, `TablesRight` and `ConfigRight` for
every place of the loader's information, every size and layout of the image, every
place of the task and all PCI functions. `BootInv` has the registers at each step,
entries that are set in order and stay (`GdtInv`, `IdtInv`), and the field last read.

Over `Terminal`, with which `Boot` shares no state, the same module proves
`ShowsLastLines` and `CopiesRight`, for any size of display and memory and any text.
Loops are recursive functions over 0..N. That such a function exists follows from
`LoopExists`, and what it yields after n rounds from the least round at which it would
not (`LeastNumber`, from well-foundedness of `<`), which takes the place of induction.
So `MemcpyRight` says which bytes n rounds of `memcpy` have moved: unless the destination
begins inside the source, no round reads what an earlier one wrote. `MovedUpRight` does
the same for scrolling: in each round the cells up to the current one have what was a row
below, those behind it what they had, and the extra cell of a row is the first of the
next, which gets the same value again (`MovedTo`). `Shows(t, d)` relates a terminal to a
document in the middle of `terminal_putchar` too, when there is a line more than the
display has: `NewLineShows`, `EntryShows`, `BackspaceShows` and `ScrollShows` keep it, one
for each thing a character does, and `WriteShows` for strings. `TerminalInv` is `Shows`,
with types.

`AtaProofs` proves `PartitionFound`, `NeverRaces`, `SectorTransferred` and
`NoStrayWrites` for a drive of any size, sectors of any number of words, registers of
any width and any calls. `AtaInv` needs, besides types: the drive by itself
(`DriveInv`), whatever is done to it; that registers already written still hold what the
call needs (`RegsInv`); that as long as only single sectors are read, driver and drive
count the same words (`SingleReadsInv`), hence the drive is through when the call is;
that the sectors a write has still to store are among those asked for (`WriteInv`); and
for calls of one sector, how far both are (`SectorInv`). Addresses have to fit the
registers: `AddressAssumption`; with the lower word of the start they do so too
(`LowWord`).

`BufferCacheProofs` proves `Coherent`, `ChainsEnd`, `PoolServesTwice` and
`MissedBufferStays` for any number of buffers, chains, blocks and callers. `CacheInv`
says there are a set L of free buffers, a set P of those put back, and for each buffer
the number of buffers behind it on the free list and a rank along its chain, such that:
the last of the pool ends the free list, never used; misses plus free buffers are the
pool plus P; the count of a buffer in P stays above that of its holders, so it is not put
back again; and, without collisions and sharing, a labelled buffer heads its chain,
is followed only by buffers that serve no more, and holds what was last written.
The sets are what the list fields do not show: a buffer that served two misses
is linked like any other. `StoreImplemented` shows that as long as callers are careful each
step of the cache is a step of `BlockStore`, and `CarefulStoreImplemented` that under
such callers the cache implements it: there `CacheInv` says that buffers and disk together contain what
was last written (`LatestStored`), so a hit or a miss opens a block, whatever is evicted;
only a write changes the contents; and a fault is no step of the store.

`RootFsProofs` proves `LookupRight`, `TransferRight` and `ReadsNamedFile` for any
directories, files, positions and counts and any size of sectors and blocks. `RootInv`
has three parts. `LookupInv`: on a directory whose sectors begin with an entry, the walk
stands at an entry in use and has passed none of the name, and has not counted more
bytes than lie before it, so it does not stop early. `FileInv`: the local variables name
the place of the next byte, and a copy does not reach over the sector. And: lookups and
transfers do not overlap, and a transfer after a successful lookup has the slots of the
inode found. `LookupTerminates` and `TransferTerminates` are what `CallsReturn` needs
besides fairness: triples of numbers (`LookupRank`, `FileRank`) that become smaller with
every step of a lookup on an aligned directory, because entries in use are not empty, and
of a transfer that ends (`Ends`), because one copy moves what lies in the first sector and
leaves the loop behind the only block (`EndsInv`); and that nothing is kept at the end.

`MountProofs` proves `InodePlaceRight`, `TableHeld`, `ListEnds` and `FoundByName` for any
file system types, any order of calls and any disk in ext2's format. `MountInv` keeps what
mounting computed tied to the superblock; the rest is arithmetic of divisions
(`Division`, `DivisionUnique`), by cases of inodes that divide a sector and sectors that
divide an inode. `ListInv` says there is an injective sequence of structures the links
lead through, with NULL behind the last or, if its name is empty, itself; and no name in
it is the beginning of an earlier one, which is why comparing beginnings finds the right
type. Walks are recursive functions over 0..N; that such a function exists, and what it
yields along the list, follows from the least step at which it would not
(well-foundedness of `<`).

### Assumptions

They are the named `ASSUME`s of the modules, and TLC evaluates them in the runs.

* `Heap`, `Frames`, `Paging`: a page-aligned, non-empty range, a kernel that fits into
  memory. `Kthreads`: NULL is no thread.
* `Rtc`: times have seconds, minutes, hours, days and months in their ranges and a year in
  the century from `CURRENT_YEAR`. `Interrupts`: scan codes are bytes, and the table has a
  character for those below 128.
* `Segments`, `Pci`, `Boot`: addresses are two halves of 16 bits; bus, device and function
  have 8, 5 and 3 bits; the kernel ends inside the first 4 MB without its last page, and
  the loader's information is below 4 GB.
* `Ata`: counts and addresses are numbers, the two words of the partition's start are in the
  first sector, and what callers ask for fits the registers.
* `BufferCache`: at least one buffer and one chain, block numbers from 1, finitely many
  callers.
* `RootFs`: sizes are positive, and directories are as ext2 has them (`OnDisk`): entries
  lie in the directory, do not overlap and follow each other. Whether sectors begin with
  an entry is not assumed; it is a condition of the properties.
* `Terminal`: a display with at least one cell; bytes, keys and characters of the message
  are 0 to 255.
* `Vfs`: finitely many types, and "begins with" is a partial order. `Ext2Mount`: a superblock
  with the signature has at least one block and one group, groups with room for the root
  directory's inode, inodes that fill blocks, of which sectors are a multiple or a
  fraction, and tables behind the descriptors. That 2^n is a positive number is stated
  there too, since the provers know nothing of exponents.

### Only model-checked

* Liveness (`MainRunsAgain`, `CallsEnd`, `CallsReturn`, `ClockKeepsComing`): fairness is
  out of the proof system's reach. Of `CallsReturn`, and of `MainRunsAgain` while threads
  are joined one at a time, the measures that decrease are proved (above), so that what
  is left to TLC is that the processor goes on. For `CallsEnd` and `ClockKeepsComing`
  progress is that of the drive and of the clock, and nothing of it is proved.

## 5. Not modelled

* `alloc_page_table`, `kmalloc_alligned` with other alignments, `read_file`,
  `write_file`, `change_file_size`, `alloc_inode`, the ATA functions other than the two
  sector functions, `set_typematic`, `add_inode`, `add_dir`: no callers, or lists that
  nobody reads. `ext2_write` is modelled, though no operations table names it.
* `ext2_read_inode`, `devfs_open`, `devfs_release`: they only fill in fields.
* User mode: `set_kernel_stack`, `enter_usermode`. `src/userspace/tss.c` is not built.
* `timer_set_interval` and `kernel_main`'s probing of the disk: constants written to
  ports, and a message.
* The sum in `sys_time`, and which number a wrapper passes: `DEFN_SYSCALL1(sys_time, 1, ...)`
  (`src/userspace/syscall.c:11`) makes the call of `sys_write`; the model executes
  `int 0x80` with every number.
* What a PCI field means: `pci_get_status` reads the offset of the command register and
  `pci_get_command` that of the status.
* A handler that interrupts `terminal_putchar` half way: the terminal is modelled
  without interrupts, which are never enabled while the kernel prints.
* Registers other than the stack pointer in `switch_task`.

## 6. Plan

1. Done: all components, but for the operations above.
2. Done: proofs of every safety property that a passing run checks, and that heap and
   cache implement their abstract specifications.
3. Left: compositions, `BufferCache` over `Ata` (eviction followed by a read).

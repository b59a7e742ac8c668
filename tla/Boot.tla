-------------------------------- MODULE Boot ---------------------------------
(***************************************************************************)
(* From the boot loader to kernel_main (src/boot.asm) and on to            *)
(* init_paging: which memory the processor reaches at every instruction,   *)
(* while paging is turned on under it.  Tables and PCI are in Segments and *)
(* Pci.                                                                    *)
(*                                                                         *)
(* Addresses are numbers of pages of 4 KB; a page directory entry stands   *)
(* for 1024 of them.                                                       *)
(***************************************************************************)
EXTENDS Segments, Pci

CONSTANTS
    MbdPages,       \* where the loader may put the multiboot information
    MemUppers,      \* the sizes of memory it may tell
    EndPage         \* the last page of the kernel's image

KERNEL_PAGE_NUMBER == 768
KernelBase == 1024 * KERNEL_PAGE_NUMBER     \* KERNEL_VIRTUAL_BASE
Pages == 1048576
CodePage == 256     \* _loader, at 1 MB
StackPage == EndPage
VgaPage == 184      \* 0xB8000

ASSUME BootAssumption ==
    /\ EndPage \in CodePage..1022 /\ MemUppers \subseteq Nat
    /\ MbdPages \subseteq Nat /\ \A p \in MbdPages : p < Pages

VARIABLES
    at,             \* the next step of the code
    eip,            \* the page instructions are fetched from
    cr3, pse, pg,   \* the page directory: "none", "boot" or "kernel"; CR4.PSE; CR0.PG
    identity,       \* the first entry of BootPageDirectory is present
    cached,         \*   and the processor has cached it
    mbd,            \* physical page of the multiboot information
    info,           \* its flags and mem_upper
    memupper_size,
    fault

\* Of the structure kernel_main reads flags, whose bit 0 is for mem_upper, and that.
MultibootInfo == [flags : {0, 1, 2}, mem_upper : MemUppers]

bootVars == <<at, eip, cr3, pse, pg, identity, cached, mbd, info, memupper_size, fault>>
vars == <<bootVars, segVars, pciVars>>

Init ==
    /\ SegInit /\ PciInit
    /\ at = "cr3" /\ eip = CodePage /\ cr3 = "none" /\ pse = FALSE /\ pg = FALSE
    /\ identity = TRUE /\ cached = FALSE /\ mbd \in MbdPages
    /\ info \in MultibootInfo
    /\ memupper_size = 0 /\ fault = FALSE

\* A page is translated.  Entries of the boot directory are pages of 4 MB, which
\* they are taken for only with PSE; the kernel's table maps its image.
Mapped(v) ==
    CASE cr3 = "boot" -> pse /\ \/ v \div 1024 = KERNEL_PAGE_NUMBER
                                \/ v \div 1024 = 0 /\ (identity \/ cached)
      [] cr3 = "kernel" -> v \div 1024 = KERNEL_PAGE_NUMBER /\ v % 1024 <= EndPage
      [] cr3 = "none" -> FALSE

\* An access to page v reaches the physical page p.
Reaches(v, p) == IF pg THEN Mapped(v) /\ v % 1024 = p ELSE v = p

High(p) == (p + KernelBase) % Pages

\* One step of the code: the instruction, and the pages it accesses.
Step(here, next, pages) ==
    /\ ~fault /\ at = here
    /\ IF Reaches(eip, CodePage) /\ \A p \in pages : Reaches(High(p), p)
       THEN at' = next /\ UNCHANGED fault
       ELSE fault' = TRUE /\ UNCHANGED at

LoadCr3 ==
    /\ Step("cr3", "pse", {}) /\ cr3' = "boot"
    /\ UNCHANGED <<eip, pse, pg, identity, cached, mbd, info, memupper_size, segVars, pciVars>>

SetPse ==
    /\ Step("pse", "pg", {}) /\ pse' = TRUE
    /\ UNCHANGED <<eip, cr3, pg, identity, cached, mbd, info, memupper_size, segVars, pciVars>>

\* The next instruction is fetched from where the code is, so that its entry is cached.
SetPg ==
    /\ Step("pg", "jump", {}) /\ pg' = TRUE /\ cached' = TRUE
    /\ UNCHANGED <<eip, cr3, pse, identity, mbd, info, memupper_size, segVars, pciVars>>

\* Defect: the jump is relative.
JumpRelative ==
    /\ Step("jump", "unmap", {})
    /\ UNCHANGED <<eip, cr3, pse, pg, identity, cached, mbd, info, memupper_size, segVars, pciVars>>

Jump ==
    /\ Step("jump", "unmap", {}) /\ eip' = High(CodePage)
    /\ UNCHANGED <<cr3, pse, pg, identity, cached, mbd, info, memupper_size, segVars, pciVars>>

\* Defect: the entry stays cached.
UnmapWithoutInvlpg ==
    /\ Step("unmap", "stack", {EndPage}) /\ identity' = FALSE
    /\ UNCHANGED <<eip, cr3, pse, pg, cached, mbd, info, memupper_size, segVars, pciVars>>

\* The entry of BootPageDirectory is cleared, and invlpg.
Unmap ==
    /\ Step("unmap", "stack", {EndPage}) /\ identity' = FALSE /\ cached' = FALSE
    /\ UNCHANGED <<eip, cr3, pse, pg, mbd, info, memupper_size, segVars, pciVars>>

\* esp, the three arguments and the call; kernel_main clears the display.
CallMain ==
    /\ Step("stack", "mbd", {StackPage, VgaPage})
    /\ UNCHANGED <<eip, cr3, pse, pg, identity, cached, mbd, info, memupper_size, segVars, pciVars>>

\* Any flag makes kernel_main use mem_upper, though bit 0 is the one for it.
ReadMbd ==
    /\ Step("mbd", "tables", {mbd})
    /\ memupper_size' = IF Reaches(High(mbd), mbd) /\ info.flags # 0 THEN info.mem_upper
                        ELSE memupper_size
    /\ UNCHANGED <<eip, cr3, pse, pg, identity, cached, mbd, info, segVars, pciVars>>

\* gdt_install, idt_install and irq_install; a wrong table faults for ever.
InstallTables ==
    /\ ~fault /\ at = "tables"
    /\ \/ SegStep /\ UNCHANGED fault
       \/ SegFault /\ fault' = TRUE /\ UNCHANGED segVars
    /\ at' = IF "irq" \in loaded' THEN "paging" ELSE at
    /\ UNCHANGED <<eip, cr3, pse, pg, identity, cached, mbd, info, memupper_size, pciVars>>

\* init_paging fills the kernel's tables, which replace the boot directory.
InitPaging ==
    /\ Step("paging", "run", {StackPage}) /\ cr3' = "kernel"
    /\ UNCHANGED <<eip, pse, pg, identity, cached, mbd, info, memupper_size, segVars, pciVars>>

\* The kernel runs; its PCI functions may be called.
ReadPci ==
    /\ Step("run", "run", {StackPage, VgaPage}) /\ PciStep
    /\ UNCHANGED <<eip, cr3, pse, pg, identity, cached, mbd, info, memupper_size, segVars>>

Next ==
    \/ LoadCr3 \/ SetPse \/ SetPg \/ Jump \/ Unmap \/ CallMain \/ ReadMbd
    \/ InstallTables \/ InitPaging \/ ReadPci

Spec == Init /\ [][Next]_vars

-----------------------------------------------------------------------------
(* Properties.                                                             *)

\* "It's ok to unmap this page later", "Must be absolute jump!" (boot.asm): the
\* instructions and what they access are mapped at every step, whether paging is
\* off, on with the first directory or on with the kernel's.  Unless the loader put
\* its information beyond the first 4 MB, as the comment warns, or the linker put
\* gp or the task behind gdt.
StepsReach ==
    fault => mbd >= 1024 \/ OwnedBy("spare") # {3, 4, 5}

\* From the unmapping on, address 0 is not mapped: the NULL pointers the kernel
\* does not test for fault, instead of changing the first page of memory.
NullFaults == at \notin {"cr3", "pse", "pg", "jump", "unmap"} => ~Mapped(0)

\* What is loaded is what was meant: the segments begin at 0 and reach over all of
\* memory, the task's is where tss_entry is and long enough, and every gate leads to
\* its own stub.  Unless the linker put something behind gdt.
TablesRight ==
    loaded # {} /\ OwnedBy("spare") = {3, 4, 5} =>
        /\ \A n \in 1..4 : /\ Base(gdt[n]) = Zero /\ InPages(gdt[n])
                           /\ LimitField(gdt[n]) = 1048575
        /\ Base(gdt[5]) = tssAt
        /\ TaskLimitFits => LimitField(gdt[5]) >= TssSize - 1
        /\ \A v \in Vectors : idt[v] # NoEntry => <<idt[v].base_hi, idt[v].base_lo>> = Stub(v)
        /\ "irq" \in loaded => \A v \in Vectors : idt[v] # NoEntry
=============================================================================

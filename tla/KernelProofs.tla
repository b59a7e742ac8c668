---------------------------- MODULE KernelProofs ----------------------------
(***************************************************************************)
(* Proofs about boot.asm, kernel.c and common.c.  First the start of the   *)
(* kernel, for every place of the loader's information, every size and     *)
(* layout of the image and every PCI device; then the terminal and the     *)
(* memory functions, for every size of display and memory and every text.  *)
(* The two share no state.                                                 *)
(***************************************************************************)
EXTENDS Boot, Terminal, SequenceTheorems, WellFoundedInduction, TLAPS

-----------------------------------------------------------------------------
(* Paging.                                                                 *)

\* The registers at each step of the code.
PagingInv ==
    /\ at \in {"cr3", "pse", "pg", "jump", "unmap", "stack", "mbd", "tables", "paging", "run"}
    /\ pg \in BOOLEAN /\ pse \in BOOLEAN /\ identity \in BOOLEAN /\ cached \in BOOLEAN
    /\ at \in {"cr3", "pse", "pg"} => ~ pg /\ eip = CodePage
    /\ at = "pg" => cr3 = "boot" /\ pse
    /\ at = "pse" => cr3 = "boot"
    /\ at \in {"jump", "unmap", "stack", "mbd", "tables", "paging"} => cr3 = "boot" /\ pse /\ pg
    /\ at = "jump" => eip = CodePage /\ cached
    /\ at \in {"unmap", "stack", "mbd", "tables", "paging", "run"} => eip = High(CodePage)
    /\ at \in {"stack", "mbd", "tables", "paging"} => ~ identity /\ ~ cached
    /\ at = "run" => cr3 = "kernel" /\ pg

\* A page of the first 4 MB is found above KERNEL_VIRTUAL_BASE.
LEMMA HighPages ==
    ASSUME NEW p \in 0..1023
    PROVE  High(p) \div 1024 = KERNEL_PAGE_NUMBER /\ High(p) % 1024 = p
PROOF
  BY SMT DEF High, KernelBase, KERNEL_PAGE_NUMBER, Pages

\* The pages the code, the stack and the display are in.
LEMMA KernelPages ==
    /\ CodePage \in 0..1023 /\ CodePage <= EndPage /\ StackPage \in 0..1023 /\ StackPage <= EndPage
    /\ EndPage \in 0..1023 /\ VgaPage \in 0..1023 /\ VgaPage <= EndPage
PROOF
  BY BootAssumption DEF CodePage, StackPage, VgaPage

\* With the boot directory the first 4 MB are mapped high, with the kernel's those
\* up to the end of its image.
LEMMA HighReached ==
    ASSUME NEW p \in 0..1023, pg, (cr3 = "boot" /\ pse) \/ (cr3 = "kernel" /\ p <= EndPage)
    PROVE  Reaches(High(p), p)
PROOF
  <1>1. High(p) \div 1024 = KERNEL_PAGE_NUMBER /\ High(p) % 1024 = p
    BY HighPages
  <1>2. Mapped(High(p))
    <2>1. CASE cr3 = "boot" /\ pse
      BY <1>1, <2>1 DEF Mapped
    <2>2. CASE cr3 = "kernel" /\ p <= EndPage
      BY <1>1, <2>2 DEF Mapped
    <2> QED BY <2>1, <2>2
  <1> QED BY <1>1, <1>2 DEF Reaches

\* Which holds for the code, the stack and the display.
LEMMA KernelReached ==
    ASSUME pg, (cr3 = "boot" /\ pse) \/ cr3 = "kernel"
    PROVE  /\ Reaches(High(CodePage), CodePage) /\ Reaches(High(VgaPage), VgaPage)
           /\ Reaches(High(EndPage), EndPage) /\ Reaches(High(StackPage), StackPage)
PROOF
  <1> DEFINE reached(p) == Reaches(High(p), p)
  <1>0. ASSUME NEW p \in 0..1023, p <= EndPage PROVE reached(p)
    <2>1. (cr3 = "boot" /\ pse) \/ (cr3 = "kernel" /\ p <= EndPage)
      BY <1>0
    <2> QED BY <2>1, HighReached, ZenonT(60)
  <1> HIDE DEF reached
  <1>1. reached(CodePage) /\ reached(VgaPage)
    <2>1. CodePage \in 0..1023 /\ CodePage <= EndPage
      BY KernelPages
    <2>2. VgaPage \in 0..1023 /\ VgaPage <= EndPage
      BY KernelPages
    <2>3. reached(CodePage)
      BY <1>0, <2>1, ZenonT(60)
    <2>4. reached(VgaPage)
      BY <1>0, <2>2, ZenonT(60)
    <2> QED BY <2>3, <2>4
  <1>2. Reaches(High(CodePage), CodePage) /\ Reaches(High(VgaPage), VgaPage)
    BY <1>1 DEF reached
  <1>3. Reaches(High(EndPage), EndPage)
    <2>1. EndPage \in 0..1023 /\ EndPage <= EndPage
      BY KernelPages
    <2>2. reached(EndPage)
      BY <1>0, <2>1, ZenonT(60)
    <2> QED BY <2>2 DEF reached
  <1>4. StackPage = EndPage
    BY DEF StackPage
  <1> QED BY <1>2, <1>3, <1>4

\* The instructions are reached at every step.
LEMMA CodeReached ==
    ASSUME PagingInv
    PROVE  Reaches(eip, CodePage)
PROOF
  <1>1. CASE at \in {"cr3", "pse", "pg"}
    BY <1>1 DEF PagingInv, Reaches
  <1>2. CASE at = "jump"
    <2>1. Mapped(CodePage)
      BY <1>2 DEF PagingInv, Mapped, CodePage, KERNEL_PAGE_NUMBER
    <2>2. CodePage % 1024 = CodePage
      BY DEF CodePage
    <2> QED BY <1>2, <2>1, <2>2 DEF PagingInv, Reaches
  <1>3. CASE at \in {"unmap", "stack", "mbd", "tables", "paging", "run"}
    <2>1. pg /\ eip = High(CodePage) /\ ((cr3 = "boot" /\ pse) \/ cr3 = "kernel")
      BY <1>3 DEF PagingInv
    <2>2. Reaches(High(CodePage), CodePage)
      BY <2>1, KernelReached
    <2> QED BY <2>1, <2>2
  <1> QED BY <1>1, <1>2, <1>3 DEF PagingInv

\* A step whose pages are reached does not fault.
LEMMA StepReaches ==
    ASSUME PagingInv, NEW here, NEW next, NEW pages, Step(here, next, pages),
           \A p \in pages : Reaches(High(p), p)
    PROVE  at = here /\ at' = next /\ fault' = fault
PROOF
  BY CodeReached DEF Step

\* The steps of boot.asm up to the call of kernel_main.
LEMMA BootKeepsPaging ==
    ASSUME PagingInv, LoadCr3 \/ SetPse \/ SetPg \/ Jump \/ Unmap \/ CallMain
    PROVE  PagingInv' /\ fault' = fault
PROOF
  <1>1. CASE LoadCr3
    <2>1. at = "cr3" /\ at' = "pse" /\ fault' = fault
      BY <1>1, StepReaches DEF LoadCr3
    <2> QED BY <1>1, <2>1 DEF PagingInv, LoadCr3
  <1>2. CASE SetPse
    <2>1. at = "pse" /\ at' = "pg" /\ fault' = fault
      BY <1>2, StepReaches DEF SetPse
    <2> QED BY <1>2, <2>1 DEF PagingInv, SetPse
  <1>3. CASE SetPg
    <2>1. at = "pg" /\ at' = "jump" /\ fault' = fault
      BY <1>3, StepReaches DEF SetPg
    <2> QED BY <1>3, <2>1 DEF PagingInv, SetPg
  <1>4. CASE Jump
    <2>1. at = "jump" /\ at' = "unmap" /\ fault' = fault
      BY <1>4, StepReaches DEF Jump
    <2>2. High(CodePage)' = High(CodePage)
      BY SMT DEF High, CodePage, KernelBase, Pages
    <2> QED BY <1>4, <2>1, <2>2 DEF PagingInv, Jump
  <1>5. CASE Unmap
    <2>1. at = "unmap"
      BY <1>5 DEF Unmap, Step
    <2>2. Reaches(High(EndPage), EndPage)
      <3>1. pg /\ ((cr3 = "boot" /\ pse) \/ cr3 = "kernel")
        BY <2>1 DEF PagingInv
      <3> QED BY <3>1, KernelReached
    <2>3. at' = "stack" /\ fault' = fault
      BY <1>5, <2>2, StepReaches DEF Unmap
    <2> QED BY <1>5, <2>1, <2>3 DEF PagingInv, Unmap
  <1>6. CASE CallMain
    <2>1. at = "stack"
      BY <1>6 DEF CallMain, Step
    <2>2. Reaches(High(StackPage), StackPage) /\ Reaches(High(VgaPage), VgaPage)
      <3>1. pg /\ ((cr3 = "boot" /\ pse) \/ cr3 = "kernel")
        BY <2>1 DEF PagingInv
      <3> QED BY <3>1, KernelReached
    <2>3. at' = "mbd" /\ fault' = fault
      BY <1>6, <2>2, StepReaches DEF CallMain
    <2> QED BY <1>6, <2>1, <2>3 DEF PagingInv, CallMain
  <1> QED BY <1>1, <1>2, <1>3, <1>4, <1>5, <1>6

\* kernel_main: only the multiboot information may be out of reach, and only when it
\* is beyond the first 4 MB.
LEMMA MainKeepsPaging ==
    ASSUME PagingInv, ReadMbd \/ InitPaging \/ ReadPci, mbd \in Nat
    PROVE  PagingInv' /\ (fault' = fault \/ mbd >= 1024)
PROOF
  <1>1. CASE ReadMbd
    <2>1. at = "mbd" /\ UNCHANGED <<eip, cr3, pse, pg, identity, cached>>
      BY <1>1 DEF ReadMbd, Step
    <2>2. CASE mbd < 1024
      <3>1. mbd \in 0..1023
        BY <2>2, SMTT(40)
      <3>2. Reaches(High(mbd), mbd)
        <4>1. pg /\ cr3 = "boot" /\ pse
          BY <2>1 DEF PagingInv
        <4> QED BY <3>1, <4>1, HighReached, ZenonT(60)
      <3>3. at' = "tables" /\ fault' = fault
        BY <1>1, <3>2, StepReaches DEF ReadMbd
      <3> QED BY <2>1, <3>3 DEF PagingInv
    <2>3. CASE ~ (mbd < 1024)
      <3>1. at' \in {"mbd", "tables"}
        BY <1>1 DEF ReadMbd, Step
      <3>2. mbd >= 1024
        BY <2>3
      <3> QED BY <2>1, <3>1, <3>2 DEF PagingInv
    <2> QED BY <2>2, <2>3
  <1>2. CASE InitPaging
    <2>1. at = "paging"
      BY <1>2 DEF InitPaging, Step
    <2>2. Reaches(High(StackPage), StackPage)
      <3>1. pg /\ ((cr3 = "boot" /\ pse) \/ cr3 = "kernel")
        BY <2>1 DEF PagingInv
      <3> QED BY <3>1, KernelReached
    <2>3. at' = "run" /\ fault' = fault
      BY <1>2, <2>2, StepReaches DEF InitPaging
    <2> QED BY <1>2, <2>1, <2>3 DEF PagingInv, InitPaging
  <1>3. CASE ReadPci
    <2>1. at = "run"
      BY <1>3 DEF ReadPci, Step
    <2>2. Reaches(High(StackPage), StackPage) /\ Reaches(High(VgaPage), VgaPage)
      <3>1. pg /\ ((cr3 = "boot" /\ pse) \/ cr3 = "kernel")
        BY <2>1 DEF PagingInv
      <3> QED BY <3>1, KernelReached
    <2>3. at' = "run" /\ fault' = fault
      BY <1>3, <2>2, StepReaches DEF ReadPci
    <2> QED BY <1>3, <2>1, <2>3 DEF PagingInv, ReadPci
  <1> QED BY <1>1, <1>2, <1>3

-----------------------------------------------------------------------------
(* Tables.                                                                 *)

\* Nothing the kernel writes to shares its place with an entry of gdt.
Spare == OwnedBy("spare") = {3, 4, 5}

\* Entries are set in order and stay as they were wanted, if nothing overwrites them.
GdtInv ==
    /\ \A n \in 0..5 : gdt[n] \in {NoEntry, Wanted(n)}
    /\ \A n \in 0..5 : gdt[n] # NoEntry => \A m \in 0..5 : m <= n => gdt[m] # NoEntry
    /\ gp \in {"zero", "right"}
    /\ gp = "zero" => \A n \in 0..5 : gdt[n] = NoEntry
    /\ tss.ss0 # 0 => gdt[5] # NoEntry
    /\ loaded # {} => tss.ss0 # 0

IdtInv ==
    /\ \A v \in Vectors : idt[v] \in {NoEntry, Gate(v)}
    /\ "idt" \in loaded => \A v \in Vectors : v < 32 => idt[v] = Gate(v)
    /\ "irq" \in loaded => \A v \in Vectors : idt[v] = Gate(v)

SegInv ==
    /\ owner \in Owners /\ tssAt \in TssPlaces
    /\ DOMAIN gdt = 0..5
    /\ loaded \in {{}, {"gdt"}, {"gdt", "task"}, {"gdt", "task", "idt"}, {"gdt", "task", "idt", "irq"}}
    /\ IdtInv /\ (Spare => GdtInv)

\* An entry or a gate that is written is told apart from one that is not.
LEMMA EntriesWritten ==
    /\ \A n \in 0..5 : Wanted(n) # NoEntry /\ Wanted(n) # Junk
    /\ NoEntry # Junk
    /\ \A v : Gate(v) # NoEntry
PROOF
  <1>1. \A n \in 0..5 : Wanted(n).access \in {0, 154, 146, 250, 242, 233}
    BY DEF Wanted, Entry
  <1>2. NoEntry.access = -2 /\ Junk.access = -1
    BY DEF NoEntry, Junk
  <1>3. NoEntry # Junk
    BY <1>2
  <1>4. \A n \in 0..5 : Wanted(n) # NoEntry /\ Wanted(n) # Junk
    BY <1>1, <1>2
  <1>5. \A v : Gate(v) # NoEntry
    <2>1. \A v : "sel" \in DOMAIN Gate(v)
      BY DEF Gate
    <2>2. "sel" \notin DOMAIN NoEntry
      BY DEF NoEntry
    <2> QED BY <2>1, <2>2
  <1> QED BY <1>3, <1>4, <1>5

\* Then neither gp nor the task is behind gdt.
LEMMA SpareOwners ==
    ASSUME owner \in Owners, Spare
    PROVE  OwnedBy("gp") = {} /\ OwnedBy("tss") = {}
PROOF
  <1>1. DOMAIN owner = 3..5
    BY SegmentsAssumption
  <1>2. \A n \in 3..5 : owner[n] = "spare"
    BY DEF Spare, OwnedBy
  <1> QED BY <1>1, <1>2 DEF OwnedBy

\* The steps of gdt_install, write_tss and the loading of the tables.
LEMMA SegStepKeepsGdt ==
    ASSUME SegInv, Spare, SegStep
    PROVE  GdtInv'
PROOF
  <1> USE EntriesWritten
  <1>1. GdtInv /\ OwnedBy("gp") = {} /\ OwnedBy("tss") = {} /\ DOMAIN gdt = 0..5
    BY SpareOwners DEF SegInv
  <1>2. \A n \in 0..5 : gdt[n] # Junk
    BY <1>1 DEF GdtInv
  <1>3. tssAt' = tssAt
    BY DEF SegStep, SetGp, gdt_set_gate, write_tss, gdt_flush, tss_flush, idt_install, irq_install
  <1>4. \A n \in 0..5 : Wanted(n)' = Wanted(n)
    BY <1>3 DEF Wanted
  <1>5. CASE SetGp
    <2>1. gp = "zero" /\ gp' = "right" /\ tss' = tss /\ loaded' = loaded
      BY <1>5 DEF SetGp
    <2>2. \A n \in 0..5 : gdt'[n] = gdt[n]
      BY <1>1, <1>5 DEF SetGp
    <2> QED BY <1>1, <1>4, <2>1, <2>2 DEF GdtInv
  <1>6. ASSUME NEW n \in 0..5, gdt_set_gate(n) PROVE GdtInv'
    <2>1. /\ gp # "zero" /\ gp' = gp /\ tss' = tss /\ loaded' = loaded
          /\ \A m \in 0..(n - 1) : gdt[m] # NoEntry
      BY <1>1, <1>6 DEF gdt_set_gate
    <2>2. \A k \in 0..5 : gdt'[k] = IF k = n THEN Wanted(n) ELSE gdt[k]
      BY <1>1, <1>6 DEF gdt_set_gate
    <2>3. \A k \in 0..5 : gdt'[k] \in {NoEntry, Wanted(k)'}
      BY <1>1, <1>4, <2>2 DEF GdtInv
    <2>4. ASSUME NEW k \in 0..5, gdt'[k] # NoEntry, NEW m \in 0..5, m <= k PROVE gdt'[m] # NoEntry
      <3>1. CASE k = n
        <4>1. m = n \/ m \in 0..(n - 1)
          BY <2>4, <3>1
        <4> QED BY <2>1, <2>2, <4>1
      <3>2. CASE k # n
        BY <1>1, <2>2, <2>4, <3>2 DEF GdtInv
      <3> QED BY <3>1, <3>2
    <2>5. tss.ss0 # 0 => gdt'[5] # NoEntry
      BY <1>1, <2>2 DEF GdtInv
    <2> QED BY <1>1, <2>1, <2>3, <2>4, <2>5 DEF GdtInv
  <1>7. CASE write_tss
    <2>1. gdt[5] # NoEntry /\ tss.ss0 = 0 /\ gp' = gp /\ loaded' = loaded
      BY <1>7 DEF write_tss
    <2>2. \A n \in 0..5 : gdt'[n] = gdt[n]
      BY <1>1, <1>7 DEF write_tss
    <2>3. loaded = {} /\ gp # "zero"
      BY <1>1, <2>1 DEF GdtInv
    <2> QED BY <1>1, <1>4, <2>1, <2>2, <2>3 DEF GdtInv
  <1>8. CASE gdt_flush \/ tss_flush \/ idt_install \/ irq_install
    <2>1. gdt' = gdt /\ gp' = gp /\ tss' = tss
      BY <1>8 DEF gdt_flush, tss_flush, idt_install, irq_install
    <2>2. tss.ss0 # 0
      BY <1>1, <1>8 DEF gdt_flush, tss_flush, idt_install, irq_install, GdtInv
    <2> QED BY <1>1, <1>4, <2>1, <2>2 DEF GdtInv
  <1> QED BY <1>5, <1>6, <1>7, <1>8 DEF SegStep

\* The gates are set for the exceptions first, then for the lines and int 0x80.
LEMMA SegStepKeepsIdt ==
    ASSUME SegInv, SegStep
    PROVE  /\ IdtInv'
           /\ loaded' \in {{}, {"gdt"}, {"gdt", "task"}, {"gdt", "task", "idt"},
                           {"gdt", "task", "idt", "irq"}}
PROOF
  <1>1. IdtInv
    BY DEF SegInv
  <1>2. CASE SetGp \/ (\E n \in 0..5 : gdt_set_gate(n)) \/ write_tss
    <2>1. loaded' = loaded /\ idt' = idt
      BY <1>2 DEF SetGp, gdt_set_gate, write_tss
    <2>2. IdtInv'
      BY <1>1, <2>1 DEF IdtInv, Gate, Stub
    <2> QED BY <2>1, <2>2 DEF SegInv
  <1>3. CASE gdt_flush \/ tss_flush
    <2>1. loaded' \in {{"gdt"}, {"gdt", "task"}} /\ idt' = idt
      BY <1>3 DEF gdt_flush, tss_flush
    <2>2. IdtInv'
      BY <1>1, <2>1 DEF IdtInv
    <2> QED BY <2>1, <2>2
  <1>4. CASE idt_install
    <2>1. /\ loaded' = {"gdt", "task", "idt"}
          /\ idt' = [v \in Vectors |-> IF v < 32 THEN Gate(v) ELSE NoEntry]
      BY <1>4 DEF idt_install
    <2>2. \A v \in Vectors : idt'[v] = IF v < 32 THEN Gate(v) ELSE NoEntry
      BY <2>1
    <2>3. IdtInv'
      BY <2>1, <2>2 DEF IdtInv
    <2> QED BY <2>1, <2>3
  <1>5. CASE irq_install
    <2>1. /\ loaded' = {"gdt", "task", "idt", "irq"} /\ "idt" \in loaded
          /\ idt' = [v \in Vectors |-> IF v < 32 THEN idt[v] ELSE Gate(v)]
      BY <1>5 DEF irq_install
    <2>2. \A v \in Vectors : idt'[v] = Gate(v)
      BY <1>1, <2>1 DEF IdtInv
    <2>3. IdtInv'
      BY <2>1, <2>2 DEF IdtInv
    <2> QED BY <2>1, <2>3
  <1> QED BY <1>2, <1>3, <1>4, <1>5 DEF SegStep

\* Together.
LEMMA SegStepKeepsSegInv ==
    ASSUME SegInv, SegStep
    PROVE  SegInv'
PROOF
  <1>1. owner' = owner /\ tssAt' = tssAt
    BY DEF SegStep, SetGp, gdt_set_gate, write_tss, gdt_flush, tss_flush, idt_install, irq_install
  <1>2. Spare' <=> Spare
    BY <1>1 DEF Spare, OwnedBy
  <1>3. DOMAIN gdt' = 0..5
    BY DEF SegInv, SegStep, SetGp, gdt_set_gate, write_tss, gdt_flush, tss_flush, idt_install, irq_install
  <1> QED BY <1>1, <1>2, <1>3, SegStepKeepsGdt, SegStepKeepsIdt DEF SegInv

\* No wrong table is loaded.
LEMMA SegFaultExcused ==
    ASSUME SegInv, SegFault
    PROVE  ~ Spare
PROOF
  <1> SUFFICES ASSUME Spare PROVE FALSE
    OBVIOUS
  <1>1. GdtInv
    BY DEF SegInv
  <1>2. gdt[5] # Junk
    BY <1>1, EntriesWritten DEF GdtInv
  <1>3. tss.ss0 # 0 => gp = "right"
    BY <1>1 DEF GdtInv
  <1> QED BY <1>2, <1>3 DEF SegFault

\* gdt_set_gate's bytes, as the processor puts them together again.
LEMMA SegmentsFlat ==
    ASSUME NEW n \in 1..4
    PROVE  Base(Wanted(n)) = Zero /\ InPages(Wanted(n)) /\ LimitField(Wanted(n)) = 1048575
PROOF
  <1>1. \E access : Wanted(n) = Entry(Zero, Ones, access, 207)
    BY DEF Wanted
  <1>2. \A access : /\ Base(Entry(Zero, Ones, access, 207)) = Zero
                    /\ InPages(Entry(Zero, Ones, access, 207))
                    /\ LimitField(Entry(Zero, Ones, access, 207)) = 1048575
    BY SMT DEF Entry, Base, InPages, LimitField, Zero, Ones, Hi, Lo
  <1> QED BY <1>1, <1>2

\* The halves of the address of tss_entry.
LEMMA TssHalves ==
    ASSUME tssAt \in TssPlaces
    PROVE  /\ tssAt[1] \in Nat /\ tssAt[2] \in Nat /\ tssAt = <<tssAt[1], tssAt[2]>>
PROOF
  <1>1. tssAt \in Nat \X Nat
    BY SegmentsAssumption
  <1> QED BY <1>1

\* write_tss's entry leads to the structure and, but for the one case, covers it.
LEMMA TaskRight ==
    ASSUME tssAt \in TssPlaces
    PROVE  /\ Base(Wanted(5)) = tssAt
           /\ TaskLimitFits => LimitField(Wanted(5)) >= TssSize - 1
PROOF
  <1> DEFINE limit == Plus(tssAt, TssSize)
             e == Entry(tssAt, limit, 233, 0)
  <1>1. Wanted(5) = e
    BY DEF Wanted
  <1>2. tssAt[1] \in Nat /\ tssAt[2] \in Nat /\ tssAt = <<tssAt[1], tssAt[2]>>
    BY TssHalves
  <1>3. /\ e.base_high = tssAt[1] \div 256 /\ e.base_middle = tssAt[1] % 256 /\ e.base_low = tssAt[2]
        /\ e.granularity = (limit[1] % 16) + 16 * (0 \div 16) /\ e.limit_low = limit[2]
    BY DEF Entry, Hi, Lo
  <1>4. limit[1] \in Int /\ limit[2] \in Int
    <2>1. \A a, b \in Nat : /\ (a + ((b + 104) \div 65536)) % 65536 \in Int
                            /\ (b + 104) % 65536 \in Int
      BY SMT
    <2> QED BY <1>2, <2>1, SMT DEF Plus, Hi, Lo, TssSize
  <1>5. (tssAt[1] \div 256) * 256 + (tssAt[1] % 256) = tssAt[1]
    <2>1. \A x \in Nat : (x \div 256) * 256 + (x % 256) = x
      OBVIOUS
    <2> QED BY <1>2, <2>1
  <1>6. Base(e) = tssAt
    BY <1>2, <1>3, <1>5 DEF Base
  <1>7. LimitField(e) = (limit[1] % 16) * 65536 + limit[2]
    <2> HIDE DEF limit, e
    <2>1. e.granularity % 16 = limit[1] % 16
      BY <1>3, <1>4
    <2> QED BY <1>3, <2>1 DEF LimitField
  <1>8. TaskLimitFits <=> (limit[1] % 16) * 65536 + limit[2] >= TssSize - 1
    BY DEF TaskLimitFits, Hi, Lo
  <1> QED BY <1>1, <1>6, <1>7, <1>8

\* The tables that are loaded are the ones that were meant.
LEMMA LoadedTables ==
    ASSUME SegInv
    PROVE  TablesRight
PROOF
  <1> SUFFICES ASSUME loaded # {}, OwnedBy("spare") = {3, 4, 5}
               PROVE  /\ \A n \in 1..4 : /\ Base(gdt[n]) = Zero /\ InPages(gdt[n])
                                         /\ LimitField(gdt[n]) = 1048575
                      /\ Base(gdt[5]) = tssAt
                      /\ TaskLimitFits => LimitField(gdt[5]) >= TssSize - 1
                      /\ \A v \in Vectors : idt[v] # NoEntry => <<idt[v].base_hi, idt[v].base_lo>> = Stub(v)
                      /\ "irq" \in loaded => \A v \in Vectors : idt[v] # NoEntry
    BY DEF TablesRight
  <1>1. GdtInv /\ IdtInv
    BY DEF SegInv, Spare
  <1>2. \A n \in 0..5 : gdt[n] = Wanted(n)
    BY <1>1 DEF GdtInv
  <1>3. \A n \in 1..4 : Base(gdt[n]) = Zero /\ InPages(gdt[n]) /\ LimitField(gdt[n]) = 1048575
    <2> TAKE n \in 1..4
    <2>1. gdt[n] = Wanted(n)
      BY <1>2
    <2> QED BY <2>1, SegmentsFlat, SMT
  <1>4. /\ Base(gdt[5]) = tssAt
        /\ TaskLimitFits => LimitField(gdt[5]) >= TssSize - 1
    <2>1. gdt[5] = Wanted(5)
      BY <1>2
    <2> QED BY <2>1, TaskRight DEF SegInv
  <1>5. ASSUME NEW v \in Vectors, idt[v] # NoEntry
        PROVE  <<idt[v].base_hi, idt[v].base_lo>> = Stub(v)
    <2>1. idt[v] = Gate(v)
      BY <1>1, <1>5 DEF IdtInv
    <2> QED BY <2>1 DEF Gate, Hi, Lo, Stub
  <1>6. "irq" \in loaded => \A v \in Vectors : idt[v] # NoEntry
    BY <1>1, EntriesWritten DEF IdtInv
  <1> QED BY <1>3, <1>4, <1>5, <1>6, SMT

-----------------------------------------------------------------------------
(* PCI.                                                                    *)

\* The name of a byte: of the device it belongs to, then its offset.
LEMMA ByteName ==
    ASSUME NEW a \in Nat, NEW b \in Nat, NEW c \in Nat, NEW x \in Nat
    PROVE  <<a, b, c>> \o <<x>> = <<a, b, c, x>>
PROOF
  <1>1. <<a, b, c>> \in Seq(Nat) /\ <<a, b, c, x>> \in Seq(Nat) /\ Len(<<a, b, c>>) = 3
    OBVIOUS
  <1>2. <<a, b, c>> \o <<x>> = Append(<<a, b, c>>, x)
    BY <1>1, AppendIsConcat
  <1> DEFINE s == Append(<<a, b, c>>, x)
  <1>3. /\ s \in Seq(Nat) /\ Len(s) = 4
        /\ s[1] = a /\ s[2] = b /\ s[3] = c /\ s[4] = x
    BY <1>1, AppendProperties
  <1> HIDE DEF s
  <1>4. \A i \in 1..4 : s[i] = <<a, b, c, x>>[i]
    BY <1>3
  <1>5. s = <<a, b, c, x>>
    BY <1>1, <1>3, <1>4, SeqEqual
  <1> QED BY <1>2, <1>5 DEF s

\* A place in configuration space.
LEMMA PlaceParts ==
    ASSUME NEW p \in Places
    PROVE  \E b \in 0..255, d \in 0..31, f \in 0..7 : p = <<b, d, f>>
PROOF
  <1>1. p \in (0..255) \X (0..31) \X (0..7)
    BY PciAssumption
  <1>2. p = <<p[1], p[2], p[3]>> /\ p[1] \in 0..255 /\ p[2] \in 0..31 /\ p[3] \in 0..7
    BY <1>1
  <1> QED BY <1>2, Zenon

AddressOf(b, d, f, o) == 65536 * b + 2048 * d + 256 * f + 4 * o

\* The parts of an address come back out of it, for every bus, device and function.
Parts(a, b, d, f, o) ==
    /\ (a \div 65536) % 256 = b /\ (a \div 2048) % 32 = d /\ (a \div 256) % 8 = f
    /\ a % 256 = 4 * o

\* What the bridge reads out of the address port is what pci.c put into it.
LEMMA AddressParts ==
    ASSUME NEW b \in 0..255, NEW d \in 0..31, NEW f \in 0..7, NEW o \in 0..63
    PROVE  Parts(AddressOf(b, d, f, o), b, d, f, o)
PROOF
  <1> DEFINE a == AddressOf(b, d, f, o)
  <1>1. /\ a \div 65536 = b /\ a \div 2048 = 32 * b + d /\ a \div 256 = 256 * b + 8 * d + f
        /\ a % 256 = 4 * o
    BY SMT DEF AddressOf
  <1>2. b % 256 = b /\ (32 * b + d) % 32 = d /\ (256 * b + 8 * d + f) % 8 = f
    BY SMT
  <1> HIDE DEF a
  <1>3. Parts(a, b, d, f, o)
    BY <1>1, <1>2 DEF Parts
  <1> QED BY <1>3 DEF a

\* The offsets of the fields.
LEMMA FieldOffsets ==
    ASSUME NEW f \in Fields
    PROVE  f[2] \in 0..255 /\ f[1] \in {8, 16, 32}
PROOF
  BY DEF Fields

PciInv ==
    \/ read = NoRead
    \/ \E p \in Places, f \in Fields :
          read = [width |-> f[1], place |-> p, offset |-> f[2],
                  value |-> Selected(f[1], f[2], Inl(Address(p, f[2])))]

\* What a read returns, at an even offset.
LEMMA SelectedBytes ==
    ASSUME NEW p \in Places, NEW f \in Fields, f[2] % 2 = 0
    PROVE  Selected(f[1], f[2], Inl(Address(p, f[2]))) =
             [n \in 1..(IF f[1] = 8 THEN 1 ELSE 2) |-> p \o <<f[2] + n - 1>>]
PROOF
  <1> DEFINE offset == f[2]
             data == Inl(Address(p, offset))
             low == IF offset % 4 >= 2 THEN 2 ELSE 0
  <1>1. offset \in 0..255 /\ f[1] \in {8, 16, 32}
    BY FieldOffsets, SMTT(40)
  <1>2. PICK b \in 0..255, d \in 0..31, g \in 0..7 : p = <<b, d, g>>
    BY PlaceParts
  <1>3. \A x \in Nat : p \o <<x>> = <<b, d, g, x>>
    <2>1. b \in Nat /\ d \in Nat /\ g \in Nat
      OBVIOUS
    <2> QED BY <1>2, <2>1, ByteName, ZenonT(60)
  <1>4. \A n \in 0..3 : data[n] = <<b, d, g, 4 * (offset \div 4) + n>>
    <2> DEFINE a == Address(p, offset)
               o == offset \div 4
    <2>1. a = AddressOf(b, d, g, o)
      BY <1>2 DEF Address, AddressOf
    <2>2. o \in 0..63
      BY <1>1
    <2> HIDE DEF a, o
    <2>3. Parts(a, b, d, g, o)
      BY <2>1, <2>2, AddressParts
    <2>4. data = Inl(a)
      BY DEF a
    <2> HIDE DEF data, offset
    <2>5. \A n \in 0..3 : data[n] = <<b, d, g, 4 * o + n>>
      BY <2>3, <2>4 DEF Inl, Parts
    <2> QED BY <2>5 DEF o
  <1>5. low \in 0..2 /\ 4 * (offset \div 4) + low = offset
    BY <1>1
  <1> HIDE DEF data, low, offset
  <1>6. data[low] = p \o <<offset + 1 - 1>>
    <2>1. data[low] = <<b, d, g, 4 * (offset \div 4) + low>>
      BY <1>4, <1>5
    <2>2. offset + 1 - 1 = offset /\ offset \in Nat
      BY <1>1
    <2> QED BY <1>3, <1>5, <2>1, <2>2
  <1>7. data[low + 1] = p \o <<offset + 2 - 1>>
    <2>1. data[low + 1] = <<b, d, g, 4 * (offset \div 4) + (low + 1)>>
      BY <1>4, <1>5
    <2>2. 4 * (offset \div 4) + (low + 1) = offset + 2 - 1 /\ offset + 2 - 1 \in Nat
      BY <1>1, <1>5
    <2> QED BY <1>3, <2>1, <2>2
  <1>8. CASE f[1] = 8
    <2>1. Selected(f[1], offset, data) = <<data[low]>>
      BY <1>8 DEF Selected, low
    <2>2. <<data[low]>> = [n \in 1..1 |-> p \o <<offset + n - 1>>]
      BY <1>6
    <2> QED BY <1>8, <2>1, <2>2 DEF offset, data
  <1>9. CASE f[1] # 8
    <2>1. Selected(f[1], offset, data) = <<data[low], data[low + 1]>>
      BY <1>9 DEF Selected, low
    <2>2. <<data[low], data[low + 1]>> = [n \in 1..2 |-> p \o <<offset + n - 1>>]
      <3> DEFINE byte(n) == p \o <<offset + n - 1>>
      <3>1. data[low] = byte(1) /\ data[low + 1] = byte(2)
        BY <1>6, <1>7
      <3> HIDE DEF byte
      <3>2. <<data[low], data[low + 1]>> = [n \in 1..2 |-> byte(n)]
        BY <3>1
      <3> QED BY <3>2 DEF byte
    <2> QED BY <1>9, <2>1, <2>2 DEF offset, data
  <1> QED BY <1>8, <1>9

\* Every read of an even offset yields the bytes of that device at that offset.
LEMMA ReadsRight ==
    ASSUME PciInv
    PROVE  ConfigRight
PROOF
  <1> SUFFICES ASSUME read # NoRead, read.offset % 2 = 0
               PROVE  read.value = [n \in 1..(IF read.width = 8 THEN 1 ELSE 2) |->
                                      read.place \o <<read.offset + n - 1>>]
    BY DEF ConfigRight
  <1>1. PICK p \in Places, f \in Fields :
          read = [width |-> f[1], place |-> p, offset |-> f[2],
                  value |-> Selected(f[1], f[2], Inl(Address(p, f[2])))]
    BY DEF PciInv
  <1>2. /\ read.width = f[1] /\ read.place = p /\ read.offset = f[2]
        /\ read.value = Selected(f[1], f[2], Inl(Address(p, f[2])))
    BY <1>1
  <1>3. read.value = [n \in 1..(IF f[1] = 8 THEN 1 ELSE 2) |-> p \o <<f[2] + n - 1>>]
    BY <1>2, SelectedBytes
  <1> QED BY <1>2, <1>3

-----------------------------------------------------------------------------
(* The whole.                                                              *)

BootInv ==
    /\ PagingInv /\ SegInv /\ PciInv
    /\ mbd \in MbdPages
    /\ fault => mbd >= 1024 \/ ~ Spare

\* Steps that leave the tables and the last PCI read alone.
LEMMA OthersStay ==
    ASSUME BootInv, UNCHANGED <<segVars, pciVars, mbd>>
    PROVE  SegInv' /\ PciInv' /\ mbd' \in MbdPages /\ (Spare' <=> Spare)
PROOF
  <1>1. /\ owner' = owner /\ tssAt' = tssAt /\ gdt' = gdt /\ gp' = gp /\ tss' = tss
        /\ loaded' = loaded /\ idt' = idt /\ read' = read /\ mbd' = mbd
    BY DEF segVars, pciVars
  <1>2. Spare' <=> Spare
    BY <1>1 DEF Spare, OwnedBy
  <1>3. GdtInv' <=> GdtInv
    BY <1>1 DEF GdtInv, Wanted
  <1>4. IdtInv' <=> IdtInv
    BY <1>1 DEF IdtInv
  <1>5. SegInv'
    BY <1>1, <1>2, <1>3, <1>4 DEF BootInv, SegInv
  <1>6. PciInv'
    BY <1>1 DEF BootInv, PciInv
  <1> QED BY <1>1, <1>2, <1>5, <1>6 DEF BootInv

\* Every step keeps the invariant.
LEMMA NextKeepsBootInv ==
    ASSUME BootInv, [Next]_vars
    PROVE  BootInv'
PROOF
  <1>1. mbd \in Nat
    BY BootAssumption DEF BootInv
  <1>2. CASE UNCHANGED vars
    <2>1. UNCHANGED <<segVars, pciVars, mbd>>
      BY <1>2 DEF vars, bootVars
    <2>2. UNCHANGED <<at, eip, cr3, pse, pg, identity, cached, fault>>
      BY <1>2 DEF vars, bootVars
    <2>3. PagingInv'
      BY <2>2 DEF BootInv, PagingInv, High, CodePage
    <2> QED BY <2>1, <2>2, <2>3, OthersStay DEF BootInv
  <1>3. CASE LoadCr3 \/ SetPse \/ SetPg \/ Jump \/ Unmap \/ CallMain
    <2>1. UNCHANGED <<segVars, pciVars, mbd>>
      BY <1>3 DEF LoadCr3, SetPse, SetPg, Jump, Unmap, CallMain
    <2>2. PagingInv' /\ fault' = fault
      BY <1>3, BootKeepsPaging DEF BootInv
    <2>3. mbd' = mbd
      BY <2>1
    <2> QED BY <2>1, <2>2, <2>3, OthersStay DEF BootInv
  <1>4. CASE ReadMbd \/ InitPaging
    <2>1. UNCHANGED <<segVars, pciVars, mbd>>
      BY <1>4 DEF ReadMbd, InitPaging
    <2>2. PagingInv' /\ (fault' = fault \/ mbd >= 1024)
      BY <1>1, <1>4, MainKeepsPaging DEF BootInv
    <2>3. mbd' = mbd
      BY <2>1
    <2> QED BY <2>1, <2>2, <2>3, OthersStay DEF BootInv
  <1>5. CASE InstallTables
    <2>1. /\ at = "tables" /\ at' \in {"tables", "paging"} /\ ~ fault
          /\ UNCHANGED <<eip, cr3, pse, pg, identity, cached, mbd, pciVars>>
          /\ \/ SegStep /\ fault' = fault
             \/ SegFault /\ fault' = TRUE /\ UNCHANGED segVars
      BY <1>5 DEF InstallTables
    <2>2. PagingInv'
      BY <2>1 DEF BootInv, PagingInv, High, CodePage
    <2>3. PciInv' /\ mbd' \in MbdPages
      BY <2>1 DEF BootInv, PciInv, pciVars
    <2>4. CASE SegStep /\ fault' = fault
      BY <2>1, <2>2, <2>3, <2>4, SegStepKeepsSegInv DEF BootInv
    <2>5. CASE SegFault /\ fault' = TRUE /\ UNCHANGED segVars
      <3>1. ~ Spare
        BY <2>5, SegFaultExcused DEF BootInv
      <3>2. SegInv' /\ ~ Spare'
        BY <2>1, <2>5, <3>1, OthersStay
      <3> QED BY <2>2, <2>3, <3>2 DEF BootInv
    <2> QED BY <2>1, <2>4, <2>5
  <1>6. CASE ReadPci
    <2>1. UNCHANGED <<segVars, mbd>> /\ PciStep
      BY <1>6 DEF ReadPci
    <2>2. PagingInv' /\ (fault' = fault \/ mbd >= 1024)
      BY <1>1, <1>6, MainKeepsPaging DEF BootInv
    <2>3. PICK p \in Places, f \in Fields : pci_config_read(f[1], p, f[2])
      BY <2>1 DEF PciStep
    <2>4. read' = [width |-> f[1], place |-> p, offset |-> f[2],
                   value |-> Selected(f[1], f[2], Inl(Address(p, f[2])))]
      BY <2>3 DEF pci_config_read
    <2>5. PciInv'
      BY <2>4 DEF PciInv
    <2>6. /\ owner' = owner /\ tssAt' = tssAt /\ gdt' = gdt /\ gp' = gp /\ tss' = tss
          /\ loaded' = loaded /\ idt' = idt /\ mbd' = mbd
      BY <2>1 DEF segVars
    <2>7. (Spare' <=> Spare) /\ (GdtInv' <=> GdtInv) /\ (IdtInv' <=> IdtInv)
      BY <2>6 DEF Spare, OwnedBy, GdtInv, Wanted, IdtInv
    <2>8. SegInv'
      BY <2>6, <2>7 DEF BootInv, SegInv
    <2> QED BY <2>2, <2>5, <2>6, <2>7, <2>8 DEF BootInv
  <1> QED BY <1>2, <1>3, <1>4, <1>5, <1>6 DEF Next

\* The state the loader hands over.
LEMMA BootInitially ==
    ASSUME Init
    PROVE  BootInv
PROOF
  <1>1. PagingInv
    BY DEF Init, PagingInv
  <1>2. SegInv
    <2>1. IdtInv
      BY DEF Init, SegInit, IdtInv
    <2>2. GdtInv
      BY DEF Init, SegInit, GdtInv
    <2> QED BY <2>1, <2>2 DEF Init, SegInit, SegInv
  <1>3. PciInv
    BY DEF Init, PciInit, PciInv
  <1> QED BY <1>1, <1>2, <1>3 DEF Init, BootInv

\* The invariant of the start of the kernel.
THEOREM BootInvariant == Spec => []BootInv
PROOF
  <1>1. Init => BootInv
    BY BootInitially
  <1>2. BootInv /\ [Next]_vars => BootInv'
    BY NextKeepsBootInv
  <1> QED BY <1>1, <1>2, PTL DEF Spec

\* Instructions, stack and data are mapped at every step, while paging is turned on
\* and the tables are replaced under the running code.
THEOREM StepsReachHolds == Spec => []StepsReach
PROOF
  <1>1. BootInv => StepsReach
    BY DEF BootInv, StepsReach, Spare
  <1> QED BY <1>1, BootInvariant, PTL

\* From the unmapping on, NULL pointers fault.
THEOREM NullFaultsHolds == Spec => []NullFaults
PROOF
  <1>1. BootInv => NullFaults
    <2> SUFFICES ASSUME PagingInv, at \notin {"cr3", "pse", "pg", "jump", "unmap"} PROVE ~ Mapped(0)
      BY DEF BootInv, NullFaults
    <2>1. 0 \div 1024 = 0 /\ 0 # KERNEL_PAGE_NUMBER
      BY DEF KERNEL_PAGE_NUMBER
    <2>2. (cr3 = "boot" /\ ~ identity /\ ~ cached) \/ cr3 = "kernel"
      BY DEF PagingInv
    <2>3. CASE cr3 = "boot" /\ ~ identity /\ ~ cached
      BY <2>1, <2>3 DEF Mapped
    <2>4. CASE cr3 = "kernel"
      BY <2>1, <2>4 DEF Mapped
    <2> QED BY <2>2, <2>3, <2>4
  <1> QED BY <1>1, BootInvariant, PTL

\* The segments, the task and the gates that are loaded are the ones meant.
THEOREM TablesRightHolds == Spec => []TablesRight
PROOF
  <1>1. BootInv => TablesRight
    BY LoadedTables DEF BootInv
  <1> QED BY <1>1, BootInvariant, PTL

\* A read of an even offset yields that device's bytes, for every place of a device.
THEOREM ConfigRightHolds == Spec => []ConfigRight
PROOF
  <1>1. BootInv => ConfigRight
    BY ReadsRight DEF BootInv
  <1> QED BY <1>1, BootInvariant, PTL

-----------------------------------------------------------------------------
(* Loops.                                                                  *)

\* A set of numbers that is not empty has a least one.
LEMMA LeastNumber ==
    ASSUME NEW T \in SUBSET Nat, T # {}
    PROVE  \E x \in T : \A y \in T : x <= y
PROOF
  <1>1. IsWellFoundedOn(OpToRel(<, Nat), Nat)
    BY NatLessThanWellFounded
  <1>2. PICK x \in T : \A y \in T : ~ (<<y, x>> \in OpToRel(<, Nat))
    BY <1>1, WFMin
  <1>3. \A y \in T : ~ (y < x)
    BY <1>2 DEF OpToRel
  <1> QED BY <1>3

\* f has the values of a loop that begins with b and in its n-th round applies G[n].
Loop(f, b, G, N) == f[0] = b /\ \A n \in 1..N : f[n] = G[n][f[n - 1]]

\* There is such an f, with values in S, if the rounds stay in S.
LEMMA LoopExists ==
    ASSUME NEW S, NEW b \in S, NEW N \in Nat, NEW G \in [1..N -> [S -> S]]
    PROVE  \E f \in [0..N -> S] : Loop(f, b, G, N)
PROOF
  <1> DEFINE T == {k \in 0..N : ~ \E f \in [0..k -> S] : Loop(f, b, G, k)}
  <1>1. SUFFICES ASSUME T # {} PROVE FALSE
    OBVIOUS
  <1>2. PICK k \in T : \A y \in T : k <= y
    <2>1. T \in SUBSET Nat
      OBVIOUS
    <2> QED BY <1>1, <2>1, LeastNumber
  <1>3. k # 0
    <2>1. ASSUME k = 0 PROVE FALSE
      <3> DEFINE f == [n \in 0..0 |-> b]
      <3>1. f \in [0..0 -> S] /\ f[0] = b
        OBVIOUS
      <3>2. Loop(f, b, G, 0)
        BY <3>1 DEF Loop
      <3> QED BY <2>1, <3>1, <3>2
    <2> QED BY <2>1
  <1>4. k - 1 \in 0..N /\ k - 1 \notin T /\ k \in 1..N
    BY <1>2, <1>3
  <1>5. PICK g \in [0..(k - 1) -> S] : Loop(g, b, G, k - 1)
    BY <1>4
  <1> DEFINE f == [n \in 0..k |-> IF n < k THEN g[n] ELSE G[k][g[k - 1]]]
  <1>6. g[k - 1] \in S /\ G[k] \in [S -> S]
    BY <1>4
  <1>7. f \in [0..k -> S]
    BY <1>4, <1>6
  <1>8. f[0] = b
    BY <1>4, <1>5 DEF Loop
  <1>9. ASSUME NEW n \in 1..k PROVE f[n] = G[n][f[n - 1]]
    <2>1. n - 1 \in 0..k /\ f[n - 1] = g[n - 1]
      BY <1>4
    <2>2. CASE n = k
      BY <2>1, <2>2, <1>4
    <2>3. CASE n < k
      <3>1. n \in 1..(k - 1)
        BY <2>3, <1>4
      <3>2. g[n] = G[n][g[n - 1]]
        BY <3>1, <1>5 DEF Loop
      <3>3. f[n] = g[n]
        BY <2>3, <1>4
      <3> QED BY <2>1, <3>2, <3>3
    <2> QED BY <2>2, <2>3, <1>4
  <1>10. Loop(f, b, G, k)
    BY <1>8, <1>9 DEF Loop
  <1> QED BY <1>2, <1>7, <1>10

-----------------------------------------------------------------------------
(* Memory.                                                                 *)

Memory == [0..(Size - 1) -> Bytes]

\* A copy stays in the memory.
Inside(dest, src, count) ==
    /\ dest \in 0..(Size - 1) /\ src \in 0..(Size - 1) /\ count \in 0..Size
    /\ dest + count <= Size /\ src + count <= Size

Copying(f, m, dest, src, count) ==
    f = [n \in 0..count |-> IF n = 0 THEN m
                            ELSE [f[n - 1] EXCEPT ![dest + n - 1] = f[n - 1][src + n - 1]]]

\* f is the memory after each round of memcpy.
Rounds(f, m, dest, src, count) ==
    /\ f \in [0..count -> Memory] /\ f[0] = m
    /\ \A n \in 1..count : f[n] = [f[n - 1] EXCEPT ![dest + n - 1] = f[n - 1][src + n - 1]]

\* What memcpy leaves is what its last round leaves.
LEMMA MemcpyRounds ==
    ASSUME NEW m \in Memory, NEW dest, NEW src, NEW count, Inside(dest, src, count)
    PROVE  \E f : Rounds(f, m, dest, src, count) /\ memcpy(m, dest, src, count) = f[count]
PROOF
  <1>0. count \in Nat /\ dest \in Nat /\ src \in Nat /\ Size \in Nat
    BY TerminalAssumption DEF Inside
  <1> DEFINE G == [n \in 1..count |-> [x \in Memory |-> [x EXCEPT ![dest + n - 1] = x[src + n - 1]]]]
  <1>1. G \in [1..count -> [Memory -> Memory]]
    <2>1. ASSUME NEW n \in 1..count, NEW x \in Memory
          PROVE  [x EXCEPT ![dest + n - 1] = x[src + n - 1]] \in Memory
      <3>1. dest + n - 1 \in 0..(Size - 1) /\ src + n - 1 \in 0..(Size - 1)
        BY <1>0 DEF Inside
      <3> QED BY <3>1 DEF Memory
    <2> QED BY <2>1
  <1>2. PICK g \in [0..count -> Memory] : Loop(g, m, G, count)
    BY <1>0, <1>1, LoopExists
  <1>3. g[0] = m /\ \A n \in 1..count : g[n] = [g[n - 1] EXCEPT ![dest + n - 1] = g[n - 1][src + n - 1]]
    <2>1. ASSUME NEW n \in 1..count PROVE g[n - 1] \in Memory /\ g[n] = G[n][g[n - 1]]
      <3> HIDE DEF G
      <3>1. n - 1 \in 0..count
        BY <1>0
      <3> QED BY <3>1, <1>2 DEF Loop
    <2> QED BY <2>1, <1>2 DEF Loop
  <1>4. Copying(g, m, dest, src, count)
    <2> DEFINE e == [n \in 0..count |-> IF n = 0 THEN m
                       ELSE [g[n - 1] EXCEPT ![dest + n - 1] = g[n - 1][src + n - 1]]]
    <2>1. ASSUME NEW n \in 0..count PROVE g[n] = e[n]
      <3>1. CASE n = 0
        BY <3>1, <1>3
      <3>2. CASE n # 0
        <4>1. n \in 1..count
          BY <3>2, <1>0
        <4> QED BY <4>1, <3>2, <1>3
      <3> QED BY <3>1, <3>2
    <2>2. g = e
      BY <2>1
    <2> QED BY <2>2 DEF Copying
  <1> DEFINE f == CHOOSE h : Copying(h, m, dest, src, count)
  <1>5. memcpy(m, dest, src, count) = f[count]
    BY DEF memcpy, Copying
  <1>6. Copying(f, m, dest, src, count)
    BY <1>4
  <1> HIDE DEF f
  <1> QED
    <2>1. f[0] = m /\ \A n \in 1..count : f[n] = [f[n - 1] EXCEPT ![dest + n - 1] = f[n - 1][src + n - 1]]
      <3> DEFINE e == [n \in 0..count |-> IF n = 0 THEN m
                         ELSE [f[n - 1] EXCEPT ![dest + n - 1] = f[n - 1][src + n - 1]]]
      <3>1. f = e
        BY <1>6 DEF Copying
      <3>2. f[0] = e[0] /\ \A n \in 1..count : f[n] = e[n]
        BY <3>1, Zenon
      <3>3. 0 \in 0..count /\ \A n \in 1..count : n \in 0..count /\ n # 0
        BY <1>0
      <3> QED BY <3>2, <3>3
    <2>2. f \in [0..count -> Memory]
      <3> DEFINE T == {n \in 0..count : f[n] \notin Memory}
      <3>1. CASE T = {}
        <4>1. f = [n \in 0..count |-> f[n]]
          BY <1>6 DEF Copying
        <4> QED BY <3>1, <4>1
      <3>2. CASE T # {}
        <4>1. PICK k \in T : \A y \in T : k <= y
          <5>1. T \in SUBSET Nat
            BY <1>0
          <5> QED BY <3>2, <5>1, LeastNumber
        <4>2. k \in 1..count
          BY <1>0, <2>1, <4>1
        <4>3. f[k - 1] \in Memory
          BY <4>1, <4>2, <1>0
        <4>4. G[k][f[k - 1]] \in Memory /\ f[k] = G[k][f[k - 1]]
          BY <1>1, <2>1, <4>2, <4>3
        <4> QED BY <4>1, <4>4
      <3> QED BY <3>1, <3>2
    <2> QED BY <1>5, <2>1, <2>2 DEF Rounds

\* The bytes that n rounds of a copy should leave behind.
CopyOf(m, dest, src, n) ==
    [b \in 0..(Size - 1) |-> IF b \in dest..(dest + n - 1) THEN m[b - dest + src] ELSE m[b]]

\* What memcpy leaves is in the memory, and unless the destination begins inside the
\* source it is what was at the source: no round reads what an earlier one wrote.
LEMMA MemcpyRight ==
    ASSUME NEW m \in Memory, NEW dest, NEW src, NEW count, Inside(dest, src, count)
    PROVE  /\ memcpy(m, dest, src, count) \in Memory
           /\ dest \notin (src + 1)..(src + count - 1) =>
                memcpy(m, dest, src, count) = CopyOf(m, dest, src, count)
PROOF
  <1>0. count \in Nat /\ dest \in Nat /\ src \in Nat /\ Size \in Nat
    BY TerminalAssumption DEF Inside
  <1>10. PICK f : Rounds(f, m, dest, src, count) /\ memcpy(m, dest, src, count) = f[count]
    BY MemcpyRounds
  <1>1. /\ f \in [0..count -> Memory] /\ f[0] = m
        /\ \A n \in 1..count : f[n] = [f[n - 1] EXCEPT ![dest + n - 1] = f[n - 1][src + n - 1]]
    BY <1>10 DEF Rounds
  <1>2. f[count] \in Memory
    BY <1>0, <1>1
  <1>3. ASSUME dest \notin (src + 1)..(src + count - 1), f[count] # CopyOf(m, dest, src, count)
        PROVE  FALSE
    <2> DEFINE T == {n \in 0..count : f[n] # CopyOf(m, dest, src, n)}
    <2>1. PICK k \in T : \A y \in T : k <= y
      <3>1. T \in SUBSET Nat /\ T # {}
        BY <1>0, <1>3
      <3> QED BY <3>1, LeastNumber
    <2>2. k # 0
      <3>1. CopyOf(m, dest, src, 0) = m
        BY <1>0 DEF CopyOf, Memory
      <3> QED BY <2>1, <3>1, <1>1
    <2>3. k \in 1..count /\ k - 1 \in 0..count /\ k - 1 \notin T
      BY <1>0, <2>1, <2>2
    <2> DEFINE x == f[k - 1]
               to == dest + k - 1
               from == src + k - 1
    <2>4. x = CopyOf(m, dest, src, k - 1) /\ x \in Memory /\ f[k] = [x EXCEPT ![to] = x[from]]
      BY <1>1, <2>3
    <2>5. to \in 0..(Size - 1) /\ from \in 0..(Size - 1) /\ from \notin dest..(dest + (k - 1) - 1)
      BY <1>0, <1>3, <2>3 DEF Inside
    <2>6. x[from] = m[from]
      BY <2>4, <2>5 DEF CopyOf
    <2> HIDE DEF x
    <2>7. ASSUME NEW b \in 0..(Size - 1) PROVE f[k][b] = CopyOf(m, dest, src, k)[b]
      <3>1. CASE b = to
        <4>1. b \in dest..(dest + k - 1) /\ b - dest + src = from
          BY <1>0, <2>3, <3>1
        <4>2. f[k][b] = m[from]
          BY <2>4, <2>6, <3>1 DEF Memory
        <4> QED BY <4>1, <4>2 DEF CopyOf
      <3>2. CASE b # to
        <4>1. b \in dest..(dest + k - 1) <=> b \in dest..(dest + (k - 1) - 1)
          BY <1>0, <2>3, <3>2
        <4>2. f[k][b] = x[b]
          BY <2>4, <3>2 DEF Memory
        <4>3. x[b] = CopyOf(m, dest, src, k - 1)[b]
          BY <2>4
        <4> QED BY <4>1, <4>2, <4>3 DEF CopyOf
      <3> QED BY <3>1, <3>2
    <2>8. f[k] \in Memory /\ f[k] = [b \in 0..(Size - 1) |-> f[k][b]]
      BY <1>1, <2>3 DEF Memory
    <2>9. CopyOf(m, dest, src, k) = [b \in 0..(Size - 1) |-> CopyOf(m, dest, src, k)[b]]
      BY DEF CopyOf
    <2> QED BY <2>1, <2>7, <2>8, <2>9
  <1> QED BY <1>10, <1>2, <1>3

\* memmove, by way of the stack, leaves what was at the source in every case.
LEMMA MemmoveRight ==
    ASSUME NEW m \in Memory, NEW dest, NEW src, NEW count, Inside(dest, src, count)
    PROVE  /\ memmove(m, dest, src, count) = CopyOf(m, dest, src, count)
           /\ CopyOf(m, dest, src, count) \in Memory
PROOF
  <1>0. count \in Nat /\ dest \in Nat /\ src \in Nat /\ Size \in Nat
    BY TerminalAssumption DEF Inside
  <1>1. DOMAIN m = 0..(Size - 1)
    BY DEF Memory
  <1>2. ASSUME NEW b \in 0..(Size - 1), b \in dest..(dest + count - 1)
        PROVE  /\ b - dest \in 0..(count - 1) /\ src + (b - dest) = b - dest + src
               /\ b - dest + src \in 0..(Size - 1)
    BY <1>0, <1>2 DEF Inside
  <1> DEFINE tmp == [i \in 0..(count - 1) |-> m[src + i]]
  <1>3. ASSUME NEW b \in 0..(Size - 1), b \in dest..(dest + count - 1)
        PROVE  tmp[b - dest] = m[b - dest + src]
    BY <1>2, <1>3
  <1>4. memmove(m, dest, src, count) =
          [b \in 0..(Size - 1) |-> IF b \in dest..(dest + count - 1) THEN tmp[b - dest] ELSE m[b]]
    BY <1>1 DEF memmove
  <1>5. memmove(m, dest, src, count) = CopyOf(m, dest, src, count)
    <2> HIDE DEF tmp
    <2> QED BY <1>3, <1>4 DEF CopyOf
  <1>6. CopyOf(m, dest, src, count) \in Memory
    <2>1. ASSUME NEW b \in 0..(Size - 1)
          PROVE  (IF b \in dest..(dest + count - 1) THEN m[b - dest + src] ELSE m[b]) \in Bytes
      BY <1>2 DEF Memory
    <2> QED BY <2>1 DEF CopyOf, Memory
  <1> QED BY <1>5, <1>6

\* The memory at any time; a copy that is right compares equal.
LEMMA CopiesRightFrom ==
    ASSUME mem \in Memory
    PROVE  CopiesRight
PROOF
  <1> SUFFICES ASSUME NEW c \in Copies
               PROVE  /\ memmove(mem, c[1], c[2], c[3]) = Moved(c)
                      /\ c[1] \in (c[2] + 1)..(c[2] + c[3] - 1) \/ memcpy(mem, c[1], c[2], c[3]) = Moved(c)
                      /\ c[1] + c[3] <= c[2] =>
                           /\ memcmp(memcpy(mem, c[1], c[2], c[3]), c[1], c[2], c[3]) = 0
                           /\ strncmp(memcpy(mem, c[1], c[2], c[3]), c[1], c[2], c[3]) = 0
    BY DEF CopiesRight
  <1> DEFINE dest == c[1]
             src == c[2]
             count == c[3]
             new == memcpy(mem, dest, src, count)
  <1>1. Inside(dest, src, count)
    BY DEF Copies, Inside
  <1>2. Moved(c) = CopyOf(mem, dest, src, count)
    BY DEF Moved, CopyOf
  <1>3. memmove(mem, dest, src, count) = Moved(c)
    BY <1>1, <1>2, MemmoveRight
  <1>4. dest \in (src + 1)..(src + count - 1) \/ new = Moved(c)
    BY <1>1, <1>2, MemcpyRight
  <1>5. ASSUME dest + count <= src
        PROVE  memcmp(new, dest, src, count) = 0 /\ strncmp(new, dest, src, count) = 0
    <2>0. count \in Nat /\ dest \in Nat /\ src \in Nat /\ Size \in Nat
      BY <1>1, TerminalAssumption DEF Inside
    <2>1. dest \notin (src + 1)..(src + count - 1)
      BY <1>5, <2>0
    <2>2. new = CopyOf(mem, dest, src, count)
      BY <1>1, <2>1, MemcpyRight
    <2>3. ASSUME NEW i \in 0..(count - 1) PROVE new[dest + i] = new[src + i]
      <3>1. /\ dest + i \in 0..(Size - 1) /\ dest + i \in dest..(dest + count - 1)
            /\ src + i \in 0..(Size - 1) /\ src + i \notin dest..(dest + count - 1)
            /\ (dest + i) - dest + src = src + i
        BY <1>1, <1>5, <2>0 DEF Inside
      <3> HIDE DEF dest, src, count, new
      <3>2. new[dest + i] = mem[src + i] /\ new[src + i] = mem[src + i]
        BY <2>2, <3>1 DEF CopyOf
      <3> QED BY <3>2
    <2> HIDE DEF dest, src, count, new
    <2>4. {i \in 0..(count - 1) : new[dest + i] # new[src + i]} = {}
      BY <2>3
    <2> QED BY <2>4 DEF memcmp, strncmp
  <1> QED BY <1>3, <1>4, <1>5

-----------------------------------------------------------------------------
(* The display.                                                            *)

\* Rows of w cells follow one another.
LEMMA Rows ==
    ASSUME NEW w \in Nat \ {0}, NEW a \in Nat, NEW b \in Nat
    PROVE  /\ a * w \in Nat /\ (a + 1) * w = a * w + w
           /\ a < b => a * w + w <= b * w
PROOF
  <1>1. a * w \in Nat /\ b * w \in Nat
    BY SMT
  <1>2. (a + 1) * w = a * w + w
    BY SMT
  <1>3. ASSUME a < b PROVE a * w + w <= b * w
    <2>1. b - a \in Nat /\ b - a >= 1
      BY <1>3
    <2>2. (b - a) * w >= w
      BY <2>1, SMT
    <2>3. (b - a) * w = b * w - a * w
      BY SMT
    <2> QED BY <1>1, <2>2, <2>3
  <1> QED BY <1>1, <1>2, <1>3

\* The row and the column of a cell, of rows of w cells, are unique.
LEMMA RowUnique ==
    ASSUME NEW w \in Nat \ {0}, NEW a \in Nat, NEW b \in Nat, NEW x \in Nat, NEW y \in Nat,
           x < w, y < w, a * w + x = b * w + y
    PROVE  a = b /\ x = y
PROOF
  <1>1. a * w \in Nat /\ b * w \in Nat /\ (a < b => a * w + w <= b * w) /\ (b < a => b * w + w <= a * w)
    BY Rows
  <1>2. ~(a < b) /\ ~(b < a)
    BY <1>1
  <1>3. a = b
    BY <1>2
  <1> QED BY <1>1, <1>3

\* Division yields them.
LEMMA RowOf ==
    ASSUME NEW w \in Nat \ {0}, NEW a \in Nat, NEW x \in Nat, x < w, NEW n, n = a * w + x
    PROVE  n \in Nat /\ n \div w = a /\ n % w = x
PROOF
  <1>1. a * w \in Nat
    BY Rows
  <1>2. n \in Nat
    BY <1>1
  <1>3. n \div w \in Nat /\ n % w \in Nat /\ n % w < w /\ n = (n % w) + w * (n \div w)
    BY <1>2
  <1>4. PICK q \in Nat, r \in Nat : q = n \div w /\ r = n % w
    BY <1>3
  <1>5. n = r + w * q /\ r < w
    BY <1>3, <1>4
  <1>6. w * q = q * w /\ q * w \in Nat
    BY SMT
  <1>7. a * w + x = q * w + r
    BY <1>1, <1>5, <1>6
  <1>8. a = q /\ x = r
    BY <1>5, <1>7, RowUnique
  <1> QED BY <1>2, <1>4, <1>8

Entries == (0..255) \X {0, Grey, PanicColor}
Display == [0..Behind -> Entries]

\* Where the cells of the display are.
LEMMA CellPlace ==
    ASSUME NEW x \in 0..VGA_WIDTH, NEW y \in Nat
    PROVE  /\ Cell(x, y) \in Nat /\ Cell(x, y) + VGA_WIDTH = Cell(x, y + 1)
           /\ Behind \in Nat /\ Behind = Cell(0, VGA_HEIGHT)
           /\ \A z \in Nat : y < z => Cell(x, y) <= Cell(0, z) /\ (x < VGA_WIDTH => Cell(x, y) < Cell(0, z))
           /\ \A z \in Nat : y >= z => Cell(x, y) >= Cell(0, z)
PROOF
  <1>0. VGA_WIDTH \in Nat \ {0} /\ VGA_HEIGHT \in Nat
    BY TerminalAssumption
  <1>1. PICK w \in Nat \ {0} : w = VGA_WIDTH
    BY <1>0
  <1>2. Behind = VGA_HEIGHT * w /\ VGA_HEIGHT * w \in Nat
    <2>1. w * VGA_HEIGHT = VGA_HEIGHT * w /\ VGA_HEIGHT * w \in Nat
      BY <1>0, SMT
    <2> QED BY <1>1, <2>1 DEF Behind
  <1>3. y * w \in Nat /\ (y + 1) * w = y * w + w
    BY Rows
  <1>4. \A z \in Nat : /\ z * w \in Nat
                       /\ y < z => y * w + w <= z * w
                       /\ z < y => z * w + w <= y * w
    BY Rows
  <1>5. \A z \in Nat : y >= z => y * w >= z * w
    <2>1. ASSUME NEW z \in Nat, y >= z PROVE y * w >= z * w
      <3>1. CASE z < y
        BY <3>1, <1>3, <1>4
      <3>2. CASE z = y
        BY <3>2, <1>3
      <3> QED BY <2>1, <3>1, <3>2
    <2> QED BY <2>1
  <1> QED BY <1>0, <1>1, <1>2, <1>3, <1>4, <1>5 DEF Cell

-----------------------------------------------------------------------------
(* Scrolling.                                                              *)

\* The cell the n-th move writes.
To(n) == Cell((n - 1) % (VGA_WIDTH + 1), (n - 1) \div (VGA_WIDTH + 1))

\* The n-th move, the x-th of row y, stays in the display and the cell behind it.
LEMMA PlaceOfMove ==
    ASSUME NEW n \in 1..Moves, NEW y \in Nat, NEW x \in 0..VGA_WIDTH,
           n - 1 = y * (VGA_WIDTH + 1) + x
    PROVE  /\ To(n) = Cell(x, y) /\ y < VGA_HEIGHT - 1
           /\ To(n) \in 0..Behind /\ To(n) + VGA_WIDTH \in 0..Behind
PROOF
  <1>0. VGA_WIDTH \in Nat \ {0} /\ VGA_HEIGHT \in Nat \ {0}
    BY TerminalAssumption
  <1>1. VGA_WIDTH + 1 \in Nat \ {0} /\ x \in Nat /\ x < VGA_WIDTH + 1
    BY <1>0
  <1>2. (n - 1) \div (VGA_WIDTH + 1) = y /\ (n - 1) % (VGA_WIDTH + 1) = x
    BY <1>1, RowOf
  <1>3. To(n) = Cell(x, y)
    BY <1>2 DEF To
  <1>4. y < VGA_HEIGHT - 1
    <2>1. PICK w \in Nat \ {0} : w = VGA_WIDTH + 1
      BY <1>1
    <2>2. PICK h \in Nat : h = VGA_HEIGHT - 1
      BY <1>0
    <2>3. h * w \in Nat /\ y * w \in Nat /\ (h < y => h * w + w <= y * w)
      BY Rows
    <2>4. y * w + x < h * w
      <3>1. n \in 1..(h * w) /\ n - 1 = y * w + x
        BY <2>1, <2>2 DEF Moves
      <3> QED BY <3>1, <2>3, <1>1
    <2>5. ~(h < y) /\ y # h
      BY <2>3, <2>4, <1>1
    <2> QED BY <2>2, <2>5
  <1>5. Cell(x, y) \in Nat /\ Cell(x, y) + VGA_WIDTH = Cell(x, y + 1) /\ Behind \in Nat
    BY CellPlace
  <1>6. Cell(x, y + 1) <= Behind
    <2>1. y + 1 \in Nat /\ y + 1 < VGA_HEIGHT
      BY <1>0, <1>4
    <2>2. Cell(x, y + 1) <= Cell(0, VGA_HEIGHT) /\ Behind = Cell(0, VGA_HEIGHT)
      BY <1>0, <2>1, CellPlace
    <2> QED BY <2>2
  <1> QED BY <1>0, <1>3, <1>4, <1>5, <1>6

\* Every move has a row and a column.
LEMMA MoveHasPlace ==
    ASSUME NEW n \in 1..Moves
    PROVE  \E y \in Nat, x \in 0..VGA_WIDTH : n - 1 = y * (VGA_WIDTH + 1) + x
PROOF
  <1>0. VGA_WIDTH \in Nat \ {0} /\ VGA_HEIGHT \in Nat \ {0}
    BY TerminalAssumption
  <1>1. PICK w \in Nat \ {0} : w = VGA_WIDTH + 1
    BY <1>0
  <1>2. PICK m \in Nat : m = n - 1
    BY <1>0
  <1>3. m \div w \in Nat /\ m % w \in Nat /\ m % w < w /\ m = (m % w) + w * (m \div w)
    OBVIOUS
  <1>4. PICK q \in Nat, r \in Nat : q = m \div w /\ r = m % w
    BY <1>3
  <1>5. m = r + w * q /\ r < w
    BY <1>3, <1>4
  <1>6. w * q = q * w /\ q * w \in Nat
    BY SMT
  <1>7. m = q * w + r /\ r \in 0..VGA_WIDTH
    BY <1>0, <1>1, <1>5, <1>6
  <1> QED BY <1>1, <1>2, <1>7

\* f is the display after each of the moves that scroll b up.
Scrolling(f, b) ==
    /\ f \in [0..Moves -> Display] /\ f[0] = b
    /\ \A n \in 1..Moves : f[n] = [f[n - 1] EXCEPT ![To(n)] = f[n - 1][To(n) + VGA_WIDTH]]

Moving(f, b) ==
    f = [n \in 0..Moves |-> IF n = 0 THEN b
                            ELSE [f[n - 1] EXCEPT ![To(n)] = f[n - 1][To(n) + VGA_WIDTH]]]

\* What the two loops leave is what the last move leaves.
LEMMA MovedUpRounds ==
    ASSUME NEW b \in Display
    PROVE  Moves \in Nat /\ \E f : Scrolling(f, b) /\ MovedUp(b) = f[Moves]
PROOF
  <1>0. Moves \in Nat
    <2>1. VGA_WIDTH + 1 \in Nat \ {0} /\ VGA_HEIGHT - 1 \in Nat
      BY TerminalAssumption
    <2> QED BY <2>1, Rows DEF Moves
  <1> DEFINE G == [n \in 1..Moves |-> [x \in Display |-> [x EXCEPT ![To(n)] = x[To(n) + VGA_WIDTH]]]]
  <1>1. G \in [1..Moves -> [Display -> Display]]
    <2>1. ASSUME NEW n \in 1..Moves, NEW x \in Display
          PROVE  [x EXCEPT ![To(n)] = x[To(n) + VGA_WIDTH]] \in Display
      <3>1. To(n) \in 0..Behind /\ To(n) + VGA_WIDTH \in 0..Behind
        BY MoveHasPlace, PlaceOfMove
      <3> QED BY <3>1 DEF Display
    <2> QED BY <2>1
  <1>2. PICK g \in [0..Moves -> Display] : Loop(g, b, G, Moves)
    BY <1>0, <1>1, LoopExists
  <1>3. g[0] = b /\ \A n \in 1..Moves : g[n] = [g[n - 1] EXCEPT ![To(n)] = g[n - 1][To(n) + VGA_WIDTH]]
    <2>1. ASSUME NEW n \in 1..Moves PROVE g[n - 1] \in Display /\ g[n] = G[n][g[n - 1]]
      <3> HIDE DEF G
      <3>1. n - 1 \in 0..Moves
        BY <1>0
      <3> QED BY <3>1, <1>2 DEF Loop
    <2> QED BY <2>1, <1>2 DEF Loop
  <1>4. Moving(g, b)
    <2> DEFINE e == [n \in 0..Moves |-> IF n = 0 THEN b
                       ELSE [g[n - 1] EXCEPT ![To(n)] = g[n - 1][To(n) + VGA_WIDTH]]]
    <2>1. ASSUME NEW n \in 0..Moves PROVE g[n] = e[n]
      <3>1. CASE n = 0
        BY <3>1, <1>3
      <3>2. CASE n # 0
        <4>1. n \in 1..Moves
          BY <3>2, <1>0
        <4> QED BY <4>1, <3>2, <1>3
      <3> QED BY <3>1, <3>2
    <2>2. g = e
      BY <2>1
    <2> QED BY <2>2 DEF Moving
  <1> DEFINE f == CHOOSE h : Moving(h, b)
  <1>5. MovedUp(b) = f[Moves]
    BY DEF MovedUp, Moving, To
  <1>6. Moving(f, b)
    BY <1>4
  <1> HIDE DEF f
  <1>7. f[0] = b /\ \A n \in 1..Moves : f[n] = [f[n - 1] EXCEPT ![To(n)] = f[n - 1][To(n) + VGA_WIDTH]]
    <2> DEFINE e == [n \in 0..Moves |-> IF n = 0 THEN b
                       ELSE [f[n - 1] EXCEPT ![To(n)] = f[n - 1][To(n) + VGA_WIDTH]]]
    <2>1. f = e
      BY <1>6 DEF Moving
    <2>2. f[0] = e[0] /\ \A n \in 1..Moves : f[n] = e[n]
      BY <2>1, Zenon
    <2>3. 0 \in 0..Moves /\ \A n \in 1..Moves : n \in 0..Moves /\ n # 0
      BY <1>0
    <2> QED BY <2>2, <2>3
  <1>8. f \in [0..Moves -> Display]
    <2> DEFINE T == {n \in 0..Moves : f[n] \notin Display}
    <2>1. CASE T = {}
      <3>1. f = [n \in 0..Moves |-> f[n]]
        BY <1>6 DEF Moving
      <3> QED BY <2>1, <3>1
    <2>2. CASE T # {}
      <3>1. PICK k \in T : \A y \in T : k <= y
        <4>1. T \in SUBSET Nat
          BY <1>0
        <4> QED BY <2>2, <4>1, LeastNumber
      <3>2. k \in 1..Moves
        BY <1>0, <1>7, <3>1
      <3>3. f[k - 1] \in Display
        BY <3>1, <3>2, <1>0
      <3>4. G[k][f[k - 1]] \in Display /\ f[k] = G[k][f[k - 1]]
        BY <1>1, <1>7, <3>2, <3>3
      <3> QED BY <3>1, <3>4
    <2> QED BY <2>1, <2>2
  <1> QED BY <1>0, <1>5, <1>7, <1>8 DEF Scrolling

\* After the x-th move of row y the cells before it, and the first of the row, are
\* those of the next row, and the others as they were.
MovedTo(d, b, y, x) ==
    \A c \in 0..Behind :
        d[c] = IF c < Cell(x, y) \/ (c = Cell(0, y) /\ y > 0) THEN b[c + VGA_WIDTH] ELSE b[c]

\* One move: what it reads has not been moved yet, although the first cell of each
\* row is written twice.
LEMMA OneMove ==
    ASSUME NEW b \in Display, NEW d \in Display, NEW y \in Nat, NEW x \in 0..VGA_WIDTH,
           MovedTo(d, b, y, x), NEW to, to = Cell(x, y),
           to \in 0..Behind, to + VGA_WIDTH \in 0..Behind,
           NEW e, e = [d EXCEPT ![to] = d[to + VGA_WIDTH]]
    PROVE  /\ x < VGA_WIDTH => MovedTo(e, b, y, x + 1)
           /\ x = VGA_WIDTH => MovedTo(e, b, y + 1, 0)
PROOF
  <1>0. VGA_WIDTH \in Nat \ {0} /\ Behind \in Nat
    BY TerminalAssumption, CellPlace
  <1>1. PICK r \in Nat : r = y * VGA_WIDTH
    BY <1>0, Rows
  <1>2. Cell(x, y) = r + x /\ Cell(0, y) = r /\ Cell(x + 1, y) = r + x + 1
    BY <1>0, <1>1 DEF Cell
  <1>3. Cell(0, y + 1) = r + VGA_WIDTH
    <2>1. (y + 1) * VGA_WIDTH = r + VGA_WIDTH
      BY <1>0, <1>1, Rows
    <2> QED BY <1>0, <1>1, <2>1 DEF Cell
  <1>4. d[to + VGA_WIDTH] = b[to + VGA_WIDTH]
    BY <1>0, <1>2 DEF MovedTo
  <1>5. e[to] = b[to + VGA_WIDTH] /\ \A c \in 0..Behind : c # to => e[c] = d[c]
    BY <1>4 DEF Display
  <1>6. ASSUME x < VGA_WIDTH PROVE MovedTo(e, b, y, x + 1)
    <2>1. ASSUME NEW c \in 0..Behind
          PROVE  e[c] = IF c < r + x + 1 \/ (c = r /\ y > 0) THEN b[c + VGA_WIDTH] ELSE b[c]
      <3>1. d[c] = IF c < r + x \/ (c = r /\ y > 0) THEN b[c + VGA_WIDTH] ELSE b[c]
        BY <1>2 DEF MovedTo
      <3>2. CASE c = to
        BY <3>2, <1>0, <1>2, <1>5
      <3>3. CASE c # to
        BY <3>1, <3>3, <1>0, <1>2, <1>5
      <3> QED BY <3>2, <3>3
    <2> QED BY <2>1, <1>2 DEF MovedTo
  <1>7. ASSUME x = VGA_WIDTH PROVE MovedTo(e, b, y + 1, 0)
    <2>1. ASSUME NEW c \in 0..Behind
          PROVE  e[c] = IF c < r + VGA_WIDTH \/ (c = r + VGA_WIDTH /\ y + 1 > 0)
                        THEN b[c + VGA_WIDTH] ELSE b[c]
      <3>1. d[c] = IF c < r + x \/ (c = r /\ y > 0) THEN b[c + VGA_WIDTH] ELSE b[c]
        BY <1>2 DEF MovedTo
      <3>2. CASE c = to
        BY <3>2, <1>0, <1>2, <1>5, <1>7
      <3>3. CASE c # to
        BY <3>1, <3>3, <1>0, <1>2, <1>5, <1>7
      <3> QED BY <3>2, <3>3
    <2> QED BY <2>1, <1>3 DEF MovedTo
  <1> QED BY <1>6, <1>7

\* Scrolling in place, with a cell too many in each row, leaves in every row but the
\* last what was in the next one.
LEMMA MovedUpRight ==
    ASSUME NEW b \in Display
    PROVE  /\ MovedUp(b) \in Display
           /\ \A c \in 0..Behind : c < Cell(0, VGA_HEIGHT - 1) => MovedUp(b)[c] = b[c + VGA_WIDTH]
PROOF
  <1>0. VGA_WIDTH \in Nat \ {0} /\ VGA_WIDTH + 1 \in Nat \ {0} /\ VGA_HEIGHT - 1 \in Nat
    BY TerminalAssumption
  <1>1. PICK f : Scrolling(f, b) /\ MovedUp(b) = f[Moves]
    BY MovedUpRounds
  <1>2. /\ Moves \in Nat /\ f \in [0..Moves -> Display] /\ f[0] = b
        /\ \A n \in 1..Moves : f[n] = [f[n - 1] EXCEPT ![To(n)] = f[n - 1][To(n) + VGA_WIDTH]]
    BY <1>1, MovedUpRounds DEF Scrolling
  <1> DEFINE Good(n) == \E y \in Nat, x \in 0..VGA_WIDTH :
                           n = y * (VGA_WIDTH + 1) + x /\ MovedTo(f[n], b, y, x)
             T == {n \in 0..Moves : ~Good(n)}
  <1>3. T = {}
    <2>1. SUFFICES ASSUME T # {} PROVE FALSE
      OBVIOUS
    <2>2. PICK k \in T : \A y \in T : k <= y
      <3>1. T \in SUBSET Nat
        BY <1>2
      <3> QED BY <2>1, <3>1, LeastNumber
    <2>3. k # 0
      <3>1. Cell(0, 0) = 0 /\ 0 * (VGA_WIDTH + 1) + 0 = 0
        BY <1>0 DEF Cell
      <3>2. MovedTo(b, b, 0, 0)
        BY <3>1 DEF MovedTo
      <3>3. Good(0)
        BY <1>0, <1>2, <3>1, <3>2
      <3> QED BY <2>2, <3>3
    <2>4. k \in 1..Moves /\ k - 1 \in 0..Moves /\ Good(k - 1)
      BY <1>2, <2>2, <2>3
    <2>5. PICK y \in Nat, x \in 0..VGA_WIDTH :
             k - 1 = y * (VGA_WIDTH + 1) + x /\ MovedTo(f[k - 1], b, y, x)
      BY <2>4
    <2>6. /\ To(k) = Cell(x, y) /\ To(k) \in 0..Behind /\ To(k) + VGA_WIDTH \in 0..Behind
      BY <2>4, <2>5, PlaceOfMove
    <2>7. f[k - 1] \in Display /\ f[k] = [f[k - 1] EXCEPT ![To(k)] = f[k - 1][To(k) + VGA_WIDTH]]
      BY <1>2, <2>4
    <2>8. /\ x < VGA_WIDTH => MovedTo(f[k], b, y, x + 1)
          /\ x = VGA_WIDTH => MovedTo(f[k], b, y + 1, 0)
      BY <2>5, <2>6, <2>7, OneMove
    <2>9. /\ y * (VGA_WIDTH + 1) \in Nat
          /\ (y + 1) * (VGA_WIDTH + 1) = y * (VGA_WIDTH + 1) + (VGA_WIDTH + 1)
      BY <1>0, Rows
    <2>10. Good(k)
      <3>1. CASE x < VGA_WIDTH
        <4>1. x + 1 \in 0..VGA_WIDTH /\ k = y * (VGA_WIDTH + 1) + (x + 1)
          BY <1>0, <2>4, <2>5, <2>9, <3>1
        <4> QED BY <4>1, <2>8, <3>1
      <3>2. CASE x = VGA_WIDTH
        <4>1. y + 1 \in Nat /\ 0 \in 0..VGA_WIDTH /\ k = (y + 1) * (VGA_WIDTH + 1) + 0
          BY <1>0, <2>4, <2>5, <2>9, <3>2
        <4> QED BY <4>1, <2>8, <3>2
      <3> QED BY <1>0, <3>1, <3>2
    <2> QED BY <2>2, <2>10
  <1>4. Good(Moves)
    BY <1>2, <1>3
  <1>5. PICK y \in Nat, x \in 0..VGA_WIDTH :
           Moves = y * (VGA_WIDTH + 1) + x /\ MovedTo(f[Moves], b, y, x)
    BY <1>4
  <1>6. y = VGA_HEIGHT - 1 /\ x = 0
    <2>1. Moves = (VGA_HEIGHT - 1) * (VGA_WIDTH + 1) + 0
      BY <1>0, <1>2 DEF Moves
    <2>2. x \in Nat /\ x < VGA_WIDTH + 1 /\ 0 < VGA_WIDTH + 1
      BY <1>0
    <2>3. y * (VGA_WIDTH + 1) + x = (VGA_HEIGHT - 1) * (VGA_WIDTH + 1) + 0
      BY <1>5, <2>1
    <2> QED BY <1>0, <2>2, <2>3, RowUnique
  <1>7. f[Moves] \in Display
    BY <1>2
  <1> QED BY <1>1, <1>5, <1>6, <1>7 DEF MovedTo

-----------------------------------------------------------------------------
(* Writing.                                                                *)

\* The cell (x, y) shows what document d has there.
ShownAt(b, d, x, y) ==
    IF y < Len(d) /\ x < Len(d[y + 1])
    THEN b[Cell(x, y)] = d[y + 1][x + 1]
    ELSE b[Cell(x, y)] \in {Blank, Cleared}

Shows(t, d) ==
    /\ t.row = Len(d) - 1 /\ t.column = Len(d[Len(d)])
    /\ \A y \in 0..(VGA_HEIGHT - 1), x \in 0..(VGA_WIDTH - 1) : ShownAt(t.buffer, d, x, y)

\* Terminals whose row may be as large as h, and documents of at most n lines, in the
\* last of which there is room.
Terminals(h) == [row : 0..h, column : 0..(VGA_WIDTH - 1), color : {Grey, PanicColor}, buffer : Display]
Documents(n) == {d \in Seq(Seq(Entries)) : Len(d) \in 1..n /\ Len(d[Len(d)]) < VGA_WIDTH}

\* Cells in the display are different places of its memory.
LEMMA CellUnique ==
    ASSUME NEW x \in 0..(VGA_WIDTH - 1), NEW y \in 0..(VGA_HEIGHT - 1),
           NEW u \in 0..(VGA_WIDTH - 1), NEW v \in 0..(VGA_HEIGHT - 1)
    PROVE  /\ Cell(x, y) \in 0..Behind /\ Cell(x, y) < Behind
           /\ Cell(x, y) = Cell(u, v) => x = u /\ y = v
PROOF
  <1>0. /\ VGA_WIDTH \in Nat \ {0} /\ VGA_HEIGHT \in Nat \ {0}
        /\ x \in Nat /\ x < VGA_WIDTH /\ u \in Nat /\ u < VGA_WIDTH
        /\ y \in Nat /\ v \in Nat /\ x \in 0..VGA_WIDTH /\ y < VGA_HEIGHT
    BY TerminalAssumption
  <1>1. Cell(x, y) \in Nat /\ Cell(x, y) < Behind /\ Behind \in Nat
    <2>1. /\ Cell(x, y) \in Nat /\ Behind \in Nat /\ Behind = Cell(0, VGA_HEIGHT)
          /\ \A z \in Nat : y < z /\ x < VGA_WIDTH => Cell(x, y) < Cell(0, z)
      BY <1>0, CellPlace
    <2>2. Cell(x, y) < Cell(0, VGA_HEIGHT)
      BY <1>0, <2>1
    <2> QED BY <2>1, <2>2
  <1>2. Cell(x, y) = Cell(u, v) => x = u /\ y = v
    BY <1>0, RowUnique DEF Cell
  <1> QED BY <1>1, <1>2

\* The end of terminal_putchar: the first line disappears when there is one too many.
LEMMA ScrollShows ==
    ASSUME NEW t \in Terminals(VGA_HEIGHT), NEW d \in Documents(VGA_HEIGHT + 1), Shows(t, d),
           t.row = VGA_HEIGHT => d[Len(d)] = <<>>
    PROVE  /\ Scrolled(t) \in Terminals(VGA_HEIGHT - 1) /\ Scrolled(t).color = t.color
           /\ LastLines(d) \in Documents(VGA_HEIGHT)
           /\ Shows(Scrolled(t), LastLines(d))
PROOF
  <1>0. VGA_WIDTH \in Nat \ {0} /\ VGA_HEIGHT \in Nat \ {0}
    BY TerminalAssumption
  <1>1. d \in Seq(Seq(Entries)) /\ Len(d) \in 1..(VGA_HEIGHT + 1) /\ t.row = Len(d) - 1
    BY DEF Documents, Shows
  <1>2. CASE t.row < VGA_HEIGHT
    <2>1. Scrolled(t) = t /\ LastLines(d) = d /\ Len(d) \in 1..VGA_HEIGHT
      BY <1>0, <1>1, <1>2 DEF Scrolled, LastLines
    <2>2. t \in Terminals(VGA_HEIGHT - 1)
      BY <1>0, <1>1, <1>2 DEF Terminals
    <2> QED BY <2>1, <2>2 DEF Documents
  <1>3. CASE ~(t.row < VGA_HEIGHT)
    <2>1. t.row = VGA_HEIGHT /\ Len(d) = VGA_HEIGHT + 1 /\ d[VGA_HEIGHT + 1] = <<>>
      BY <1>0, <1>1, <1>3
    <2> DEFINE e == Tail(d)
               b == t.buffer
               new == [n \in 0..Behind |-> IF n >= Cell(0, VGA_HEIGHT - 1) THEN Cleared ELSE MovedUp(b)[n]]
    <2>2. /\ LastLines(d) = e /\ e \in Seq(Seq(Entries)) /\ Len(e) = VGA_HEIGHT
          /\ \A n \in 1..VGA_HEIGHT : e[n] = d[n + 1]
      BY <1>0, <1>1, <2>1 DEF LastLines
    <2>3. b \in Display /\ t.color \in {Grey, PanicColor}
      BY DEF Terminals
    <2>4. Cleared \in Entries
      BY DEF Cleared, vga_entry, Entries
    <2>5. MovedUp(b) \in Display
      BY <2>3, MovedUpRight
    <2>6. new \in Display
      BY <2>4, <2>5 DEF Display
    <2>7. Scrolled(t) = [t EXCEPT !.row = VGA_HEIGHT - 1, !.column = 0, !.buffer = new]
      BY <1>3, <2>1 DEF Scrolled
    <2> HIDE DEF e, new, b
    <2>8. /\ Scrolled(t) \in Terminals(VGA_HEIGHT - 1) /\ Scrolled(t).color = t.color
          /\ Scrolled(t).row = VGA_HEIGHT - 1 /\ Scrolled(t).column = 0 /\ Scrolled(t).buffer = new
      <3>1. VGA_HEIGHT - 1 \in 0..(VGA_HEIGHT - 1) /\ 0 \in 0..(VGA_WIDTH - 1)
        BY <1>0
      <3> QED BY <2>6, <2>7, <3>1 DEF Terminals
    <2>9. e[Len(e)] = <<>> /\ Len(<<>>) = 0
      BY <1>0, <2>1, <2>2
    <2>10. e \in Documents(VGA_HEIGHT)
      BY <1>0, <2>2, <2>9, SMTT(40) DEF Documents
    <2>11. ASSUME NEW y \in 0..(VGA_HEIGHT - 1), NEW x \in 0..(VGA_WIDTH - 1)
           PROVE  ShownAt(new, e, x, y)
      <3>0. x \in 0..VGA_WIDTH /\ y \in Nat /\ VGA_HEIGHT - 1 \in Nat /\ x < VGA_WIDTH
        BY <1>0
      <3>1. Cell(x, y) \in 0..Behind
        BY CellUnique
      <3>2. CASE y = VGA_HEIGHT - 1
        <4>1. Cell(x, y) >= Cell(0, VGA_HEIGHT - 1)
          BY <3>0, <3>2, CellPlace
        <4>2. new[Cell(x, y)] = Cleared
          BY <3>1, <4>1 DEF new
        <4>3. e[y + 1] = <<>>
          BY <1>0, <2>2, <2>9, <3>2
        <4> QED BY <2>9, <3>0, <4>2, <4>3 DEF ShownAt
      <3>3. CASE y < VGA_HEIGHT - 1
        <4>1. Cell(x, y) < Cell(0, VGA_HEIGHT - 1) /\ Cell(x, y) + VGA_WIDTH = Cell(x, y + 1)
          BY <3>0, <3>3, CellPlace
        <4>2. MovedUp(b)[Cell(x, y)] = b[Cell(x, y + 1)]
          BY <2>3, <3>1, <4>1, MovedUpRight
        <4>3. Cell(x, y) \in Nat /\ Cell(0, VGA_HEIGHT - 1) \in Nat
          <5>1. 0 \in 0..VGA_WIDTH
            BY <1>0
          <5> QED BY <3>0, <5>1, CellPlace
        <4>4. new[Cell(x, y)] = b[Cell(x, y + 1)]
          BY <3>1, <4>1, <4>2, <4>3 DEF new
        <4>5. ShownAt(b, d, x, y + 1)
          <5>1. y + 1 \in 0..(VGA_HEIGHT - 1)
            BY <1>0, <3>3
          <5> QED BY <5>1 DEF Shows, b
        <4>6. e[y + 1] = d[(y + 1) + 1] /\ (y < Len(e) <=> y + 1 < Len(d))
          BY <1>0, <2>1, <2>2, <3>0, <3>3
        <4> QED BY <4>4, <4>5, <4>6 DEF ShownAt
      <3> QED BY <1>0, <3>2, <3>3
    <2>12. Shows(Scrolled(t), e)
      BY <2>2, <2>8, <2>9, <2>11 DEF Shows
    <2> QED BY <2>2, <2>8, <2>10, <2>12
  <1> QED BY <1>2, <1>3

\* A line that is added, empty, below the others.
LEMMA NewLineShows ==
    ASSUME NEW t \in Terminals(VGA_HEIGHT - 1), NEW d \in Seq(Seq(Entries)), Len(d) \in 1..VGA_HEIGHT,
           t.row = Len(d) - 1,
           \A y \in 0..(VGA_HEIGHT - 1), x \in 0..(VGA_WIDTH - 1) : ShownAt(t.buffer, d, x, y),
           NEW s, s = [t EXCEPT !.row = t.row + 1, !.column = 0]
    PROVE  /\ s \in Terminals(VGA_HEIGHT) /\ Append(d, <<>>) \in Documents(VGA_HEIGHT + 1)
           /\ Shows(s, Append(d, <<>>)) /\ s.color = t.color
           /\ Append(d, <<>>)[Len(Append(d, <<>>))] = <<>>
PROOF
  <1>0. VGA_WIDTH \in Nat \ {0} /\ VGA_HEIGHT \in Nat \ {0}
    BY TerminalAssumption
  <1> DEFINE e == Append(d, <<>>)
  <1>1. <<>> \in Seq(Entries) /\ Len(<<>>) = 0
    OBVIOUS
  <1>2. /\ e \in Seq(Seq(Entries)) /\ Len(e) = Len(d) + 1 /\ e[Len(d) + 1] = <<>>
        /\ \A n \in 1..Len(d) : e[n] = d[n]
    BY <1>1
  <1> HIDE DEF e
  <1>3. t.row + 1 \in 0..VGA_HEIGHT /\ 0 \in 0..(VGA_WIDTH - 1)
    BY <1>0
  <1>4. /\ s \in Terminals(VGA_HEIGHT) /\ s.color = t.color
        /\ s.row = t.row + 1 /\ s.column = 0 /\ s.buffer = t.buffer
    BY <1>3 DEF Terminals
  <1>5. e \in Documents(VGA_HEIGHT + 1) /\ e[Len(e)] = <<>>
    BY <1>0, <1>1, <1>2, SMTT(40) DEF Documents
  <1>6. ASSUME NEW y \in 0..(VGA_HEIGHT - 1), NEW x \in 0..(VGA_WIDTH - 1)
        PROVE  ShownAt(s.buffer, e, x, y)
    <2>1. ShownAt(t.buffer, d, x, y)
      OBVIOUS
    <2>2. CASE y < Len(d)
      <3>0. Len(d) \in Nat /\ Len(e) = Len(d) + 1
        BY <1>0, <1>2
      <3>1. y + 1 \in 1..Len(d) /\ y < Len(e)
        BY <2>2, <3>0
      <3>2. e[y + 1] = d[y + 1]
        BY <1>2, <3>1
      <3> QED BY <1>4, <2>1, <2>2, <3>1, <3>2 DEF ShownAt
    <2>3. CASE y = Len(d)
      BY <1>0, <1>1, <1>2, <1>4, <2>1, <2>3 DEF ShownAt
    <2>4. CASE y > Len(d)
      BY <1>0, <1>2, <1>4, <2>1, <2>4 DEF ShownAt
    <2> QED BY <1>0, <2>2, <2>3, <2>4
  <1>7. Shows(s, e)
    BY <1>0, <1>1, <1>2, <1>4, <1>5, <1>6 DEF Shows
  <1> QED BY <1>4, <1>5, <1>7 DEF e

\* An entry at the cursor, and at the end of the last line.
AtCursor(t, v) == [t.buffer EXCEPT ![Cell(t.column, t.row)] = v]
AtEnd(d, v) == [d EXCEPT ![Len(d)] = Append(d[Len(d)], v)]

\* Both show the same.
LEMMA EntryShows ==
    ASSUME NEW t \in Terminals(VGA_HEIGHT - 1), NEW d \in Documents(VGA_HEIGHT), Shows(t, d),
           NEW v \in Entries, NEW b, b = AtCursor(t, v), NEW e, e = AtEnd(d, v)
    PROVE  /\ b \in Display /\ e \in Seq(Seq(Entries)) /\ Len(e) = Len(d)
           /\ Len(e[Len(d)]) = Len(d[Len(d)]) + 1
           /\ \A y \in 0..(VGA_HEIGHT - 1), x \in 0..(VGA_WIDTH - 1) : ShownAt(b, e, x, y)
PROOF
  <1>0. VGA_WIDTH \in Nat \ {0} /\ VGA_HEIGHT \in Nat \ {0}
    BY TerminalAssumption
  <1> DEFINE last == Len(d)
             line == d[last]
             app == Append(line, v)
  <1>1. /\ d \in Seq(Seq(Entries)) /\ last \in 1..VGA_HEIGHT /\ line \in Seq(Entries)
        /\ Len(line) \in Nat /\ Len(line) < VGA_WIDTH
        /\ t.row = last - 1 /\ t.column = Len(line)
    BY DEF Documents, Shows
  <1>2. t.row \in 0..(VGA_HEIGHT - 1) /\ t.column \in 0..(VGA_WIDTH - 1) /\ t.buffer \in Display
    BY DEF Terminals
  <1>3. Cell(t.column, t.row) \in 0..Behind
    BY <1>2, CellUnique
  <1>4. b = [t.buffer EXCEPT ![Cell(t.column, t.row)] = v] /\ b \in Display
    BY <1>2, <1>3 DEF Display, AtCursor
  <1>5. /\ app \in Seq(Entries) /\ Len(app) = Len(line) + 1
        /\ app[Len(line) + 1] = v
        /\ \A n \in 1..Len(line) : app[n] = line[n]
    BY <1>1
  <1>20. /\ last \in Nat /\ Len(line) \in Nat /\ t.row = last - 1 /\ t.column = Len(line)
        /\ line = d[last]
    BY <1>1
  <1> HIDE DEF last, line, app
  <1>6. /\ e \in Seq(Seq(Entries)) /\ Len(e) = last /\ e[last] = app
        /\ \A n \in 1..last : n # last => e[n] = d[n]
    BY <1>1, <1>5 DEF last, line, app, AtEnd
  <1>7. ASSUME NEW y \in 0..(VGA_HEIGHT - 1), NEW x \in 0..(VGA_WIDTH - 1)
        PROVE  ShownAt(b, e, x, y)
    <2>1. ShownAt(t.buffer, d, x, y)
      BY DEF Shows
    <2>2. Cell(x, y) \in 0..Behind
      BY CellUnique
    <2>3. CASE y = t.row /\ x = t.column
      <3>1. b[Cell(x, y)] = v
        BY <1>2, <1>3, <1>4, <2>3 DEF Display
      <3>2. y + 1 = last /\ y < last /\ x = Len(line)
        BY <1>20, <2>3
      <3>3. e[y + 1] = app /\ app[x + 1] = v /\ x < Len(app)
        BY <1>20, <1>5, <1>6, <3>2
      <3> QED BY <3>1, <3>2, <3>3, <1>6 DEF ShownAt
    <2>4. CASE ~(y = t.row /\ x = t.column)
      <3>1. Cell(x, y) # Cell(t.column, t.row)
        BY <1>2, <2>4, CellUnique
      <3>2. b[Cell(x, y)] = t.buffer[Cell(x, y)]
        BY <1>2, <1>4, <2>2, <3>1 DEF Display
      <3>3. CASE y + 1 = last
        <4>1. x # Len(line)
          BY <1>20, <2>4, <3>3
        <4>2. e[y + 1] = app /\ d[y + 1] = line
          BY <1>20, <1>6, <3>3
        <4>3. x < Len(app) <=> x < Len(line)
          BY <1>20, <1>5, <4>1
        <4>4. x < Len(line) => app[x + 1] = line[x + 1]
          BY <1>20, <1>5
        <4> QED BY <1>6, <2>1, <3>2, <4>2, <4>3, <4>4 DEF ShownAt, last
      <3>4. CASE y + 1 # last
        <4>1. y < last => e[y + 1] = d[y + 1]
          <5>1. ASSUME y < last PROVE y + 1 \in 1..last
            BY <1>20, <5>1
          <5> QED BY <1>6, <3>4, <5>1, SMTT(40)
        <4> QED BY <1>6, <2>1, <3>2, <4>1 DEF ShownAt, last
      <3> QED BY <3>3, <3>4
    <2> QED BY <2>3, <2>4
  <1> QED BY <1>4, <1>5, <1>6, <1>7 DEF last, line

\* A character taken back.
LEMMA BackspaceShows ==
    ASSUME NEW t \in Terminals(VGA_HEIGHT - 1), NEW d \in Documents(VGA_HEIGHT), Shows(t, d),
           t.column > 0,
           NEW b, b = [t.buffer EXCEPT ![Cell(t.column - 1, t.row)] = Cleared],
           NEW e, e = [d EXCEPT ![Len(d)] = SubSeq(d[Len(d)], 1, Len(d[Len(d)]) - 1)]
    PROVE  /\ b \in Display /\ e \in Documents(VGA_HEIGHT) /\ Len(e) = Len(d)
           /\ Len(e[Len(d)]) = t.column - 1
           /\ \A y \in 0..(VGA_HEIGHT - 1), x \in 0..(VGA_WIDTH - 1) : ShownAt(b, e, x, y)
PROOF
  <1>0. VGA_WIDTH \in Nat \ {0} /\ VGA_HEIGHT \in Nat \ {0}
    BY TerminalAssumption
  <1> DEFINE last == Len(d)
             line == d[last]
             short == SubSeq(line, 1, Len(line) - 1)
  <1>1. /\ d \in Seq(Seq(Entries)) /\ last \in 1..VGA_HEIGHT /\ line \in Seq(Entries)
        /\ Len(line) \in Nat /\ Len(line) < VGA_WIDTH /\ Len(line) > 0
        /\ t.row = last - 1 /\ t.column = Len(line)
    BY DEF Documents, Shows
  <1>2. /\ t.row \in 0..(VGA_HEIGHT - 1) /\ t.column - 1 \in 0..(VGA_WIDTH - 1)
        /\ t.buffer \in Display
    BY <1>0 DEF Terminals
  <1>3. Cell(t.column - 1, t.row) \in 0..Behind
    BY <1>2, CellUnique
  <1>4. Cleared \in Entries
    BY DEF Cleared, vga_entry, Entries
  <1>5. b \in Display
    BY <1>2, <1>3, <1>4 DEF Display
  <1>6. /\ short \in Seq(Entries) /\ Len(short) = Len(line) - 1
        /\ \A n \in 1..(Len(line) - 1) : short[n] = line[n]
    BY <1>1
  <1>20. /\ last \in Nat /\ last >= 1 /\ last <= VGA_HEIGHT /\ Len(line) \in Nat /\ Len(line) < VGA_WIDTH
        /\ t.row = last - 1 /\ t.column = Len(line) /\ line = d[last]
    BY <1>0, <1>1
  <1> HIDE DEF last, line, short
  <1>7. /\ e \in Seq(Seq(Entries)) /\ Len(e) = last /\ e[last] = short
        /\ \A n \in 1..last : n # last => e[n] = d[n]
    BY <1>1, <1>6 DEF last, line, short
  <1>8. e \in Documents(VGA_HEIGHT)
    <2>1. Len(e) \in 1..VGA_HEIGHT /\ Len(e[Len(e)]) < VGA_WIDTH
      BY <1>0, <1>20, <1>6, <1>7
    <2> QED BY <1>7, <2>1 DEF Documents
  <1>9. ASSUME NEW y \in 0..(VGA_HEIGHT - 1), NEW x \in 0..(VGA_WIDTH - 1)
        PROVE  ShownAt(b, e, x, y)
    <2>1. ShownAt(t.buffer, d, x, y)
      BY DEF Shows
    <2>2. Cell(x, y) \in 0..Behind
      BY CellUnique
    <2>3. CASE y = t.row /\ x = t.column - 1
      <3>1. b[Cell(x, y)] = Cleared
        BY <1>2, <1>3, <2>3 DEF Display
      <3>2. y + 1 = last /\ ~(x < Len(line) - 1)
        BY <1>20, <2>3
      <3>3. ~(x < Len(e[y + 1]))
        BY <1>6, <1>7, <3>2
      <3> QED BY <3>1, <3>3 DEF ShownAt
    <2>4. CASE ~(y = t.row /\ x = t.column - 1)
      <3>1. Cell(x, y) # Cell(t.column - 1, t.row)
        BY <1>2, <2>4, CellUnique
      <3>2. b[Cell(x, y)] = t.buffer[Cell(x, y)]
        BY <1>2, <2>2, <3>1, SMTT(40) DEF Display
      <3>3. CASE y + 1 = last
        <4>1. x # Len(line) - 1
          BY <1>20, <2>4, <3>3
        <4>2. e[y + 1] = short /\ d[y + 1] = line
          BY <1>20, <1>7, <3>3
        <4>3. x < Len(short) <=> x < Len(line)
          BY <1>20, <1>6, <4>1, SMTT(40)
        <4>4. ASSUME x < Len(short) PROVE short[x + 1] = line[x + 1]
          <5>1. Len(short) = Len(line) - 1
            BY <1>6
          <5>2. x + 1 \in 1..(Len(line) - 1)
            BY <1>20, <4>4, <5>1
          <5> QED BY <1>6, <5>2
        <4> QED BY <1>7, <2>1, <3>2, <4>2, <4>3, <4>4 DEF ShownAt, last
      <3>4. CASE y + 1 # last
        <4>1. y < last => e[y + 1] = d[y + 1]
          <5>1. ASSUME y < last PROVE y + 1 \in 1..last
            BY <1>20, <5>1
          <5> QED BY <1>7, <3>4, <5>1
        <4> QED BY <1>7, <2>1, <3>2, <4>1 DEF ShownAt, last
      <3> QED BY <3>3, <3>4
    <2> QED BY <2>3, <2>4
  <1> QED BY <1>20, <1>5, <1>6, <1>7, <1>8, <1>9 DEF last

\* Whether a character may be written and its entry be kept.
LEMMA EntryTyped ==
    ASSUME NEW c \in 0..255, NEW color \in {Grey, PanicColor}
    PROVE  vga_entry(c, color) \in Entries
PROOF
  BY DEF vga_entry, Entries

\* terminal_putchar writes what the document gains, whatever the character is.
LEMMA PutShows ==
    ASSUME NEW t \in Terminals(VGA_HEIGHT - 1), NEW d \in Documents(VGA_HEIGHT), Shows(t, d),
           NEW c \in 0..255
    PROVE  /\ terminal_putchar(t, c) \in Terminals(VGA_HEIGHT - 1)
           /\ terminal_putchar(t, c).color = t.color
           /\ Written(d, c, t.color) \in Documents(VGA_HEIGHT)
           /\ Shows(terminal_putchar(t, c), Written(d, c, t.color))
PROOF
  <1>0. VGA_WIDTH \in Nat \ {0} /\ VGA_HEIGHT \in Nat \ {0}
    BY TerminalAssumption
  <1> DEFINE v == vga_entry(c, t.color)
             last == Len(d)
             line == d[last]
             added == [d EXCEPT ![last] = Append(line, v)]
             back == [d EXCEPT ![last] = SubSeq(line, 1, Len(line) - 1)]
  <1>1. /\ d \in Seq(Seq(Entries)) /\ last \in 1..VGA_HEIGHT /\ line \in Seq(Entries)
        /\ Len(line) \in Nat /\ Len(line) < VGA_WIDTH
        /\ t.row = last - 1 /\ t.column = Len(line)
    BY DEF Documents, Shows
  <1>2. /\ t.row \in 0..(VGA_HEIGHT - 1) /\ t.column \in 0..(VGA_WIDTH - 1)
        /\ t.color \in {Grey, PanicColor} /\ t.buffer \in Display
    BY DEF Terminals
  <1>3. v \in Entries
    BY <1>2, EntryTyped
  \* What the character does before the end of terminal_putchar.
  <1> DEFINE Done(s, e) ==
               /\ s \in Terminals(VGA_HEIGHT) /\ s.color = t.color
               /\ e \in Documents(VGA_HEIGHT + 1) /\ Shows(s, e)
               /\ s.row = VGA_HEIGHT => e[Len(e)] = <<>>
  <1>4. ASSUME NEW s, NEW e, Done(s, e), terminal_putchar(t, c) = Scrolled(s),
               Written(d, c, t.color) = LastLines(e)
        PROVE  /\ terminal_putchar(t, c) \in Terminals(VGA_HEIGHT - 1)
               /\ terminal_putchar(t, c).color = t.color
               /\ Written(d, c, t.color) \in Documents(VGA_HEIGHT)
               /\ Shows(terminal_putchar(t, c), Written(d, c, t.color))
    <2>1. /\ Scrolled(s) \in Terminals(VGA_HEIGHT - 1) /\ Scrolled(s).color = s.color
          /\ LastLines(e) \in Documents(VGA_HEIGHT) /\ Shows(Scrolled(s), LastLines(e))
      BY <1>4, ScrollShows
    <2> QED BY <1>4, <2>1
  \* A document or a terminal that does not grow fits.
  <1>5. ASSUME NEW s \in Terminals(VGA_HEIGHT - 1), NEW e \in Documents(VGA_HEIGHT),
               s.color = t.color, Shows(s, e)
        PROVE  Done(s, e)
    <2>1. s \in Terminals(VGA_HEIGHT) /\ s.row # VGA_HEIGHT
      BY <1>0 DEF Terminals
    <2>2. e \in Documents(VGA_HEIGHT + 1)
      BY <1>0 DEF Documents
    <2> QED BY <1>5, <2>1, <2>2
  <1>6. CASE c = Newline
    <2> DEFINE s == [t EXCEPT !.row = t.row + 1, !.column = 0]
               e == Append(d, <<>>)
    <2>1. \A y \in 0..(VGA_HEIGHT - 1), x \in 0..(VGA_WIDTH - 1) : ShownAt(t.buffer, d, x, y)
      BY DEF Shows
    <2>2. /\ s \in Terminals(VGA_HEIGHT) /\ e \in Documents(VGA_HEIGHT + 1)
          /\ Shows(s, e) /\ s.color = t.color /\ e[Len(e)] = <<>>
      <3> HIDE DEF s
      <3>1. s = [t EXCEPT !.row = t.row + 1, !.column = 0]
        BY DEF s
      <3> QED BY <1>1, <2>1, <3>1, NewLineShows
    <2>5. c # BackspaceKey
      BY <1>6 DEF Newline, BackspaceKey
    <2>3. terminal_putchar(t, c) = Scrolled(s)
      <3>1. s = [t EXCEPT !.row = @ + 1, !.column = 0]
        BY DEF Terminals
      <3> HIDE DEF s
      <3> QED BY <1>6, <2>5, <3>1 DEF terminal_putchar
    <2>4. Written(d, c, t.color) = LastLines(e)
      BY <1>6, <2>5 DEF Written
    <2> HIDE DEF s, e
    <2>6. Done(s, e)
      BY <2>2
    <2> QED BY <2>3, <2>4, <2>6, <1>4
  <1>7. CASE c = BackspaceKey /\ t.column > 0
    <2> DEFINE b == [t.buffer EXCEPT ![Cell(t.column - 1, t.row)] = Cleared]
               s == [t EXCEPT !.column = t.column - 1, !.buffer = b]
    <2>1. terminal_putchar(t, c) = Scrolled(s)
      <3>1. c # Newline
        BY <1>7 DEF Newline, BackspaceKey
      <3> QED BY <1>7, <3>1 DEF terminal_putchar
    <2>2. Written(d, c, t.color) = LastLines(back)
      <3>1. c # Newline
        BY <1>7 DEF Newline, BackspaceKey
      <3> QED BY <1>7, <3>1 DEF Written
    <2>3. /\ b \in Display /\ back \in Documents(VGA_HEIGHT) /\ Len(back) = last
          /\ Len(back[last]) = t.column - 1
          /\ \A y \in 0..(VGA_HEIGHT - 1), x \in 0..(VGA_WIDTH - 1) : ShownAt(b, back, x, y)
      <3> HIDE DEF b, back
      <3>1. /\ b = [t.buffer EXCEPT ![Cell(t.column - 1, t.row)] = Cleared]
            /\ back = [d EXCEPT ![Len(d)] = SubSeq(d[Len(d)], 1, Len(d[Len(d)]) - 1)]
        BY DEF b, back
      <3> QED BY <1>7, <3>1, BackspaceShows
    <2> HIDE DEF b, back
    <2>4. /\ s \in Terminals(VGA_HEIGHT - 1) /\ s.color = t.color /\ s.row = t.row
          /\ s.column = t.column - 1 /\ s.buffer = b
      <3>1. t.column - 1 \in 0..(VGA_WIDTH - 1)
        BY <1>0, <1>2, <1>7
      <3> QED BY <2>3, <3>1 DEF Terminals
    <2> HIDE DEF s
    <2>5. Shows(s, back)
      BY <1>1, <2>3, <2>4 DEF Shows
    <2>6. Done(s, back)
      BY <1>5, <2>3, <2>4, <2>5
    <2> QED BY <1>4, <2>1, <2>2, <2>6
  <1>8. CASE c = BackspaceKey /\ t.column = 0
    <2>1. c # Newline
      BY <1>8 DEF Newline, BackspaceKey
    <2>2. terminal_putchar(t, c) = Scrolled(t)
      BY <1>8, <2>1 DEF terminal_putchar
    <2>3. line = <<>> /\ SubSeq(line, 1, Len(line) - 1) = <<>>
      <3>1. line = <<>> /\ Len(line) = 0
        BY <1>1, <1>8, EmptySeq
      <3>2. SubSeq(<<>>, 1, 0 - 1) = <<>>
        OBVIOUS
      <3> QED BY <3>1, <3>2
    <2>4. back = d
      BY <1>1, <2>3
    <2>5. Written(d, c, t.color) = LastLines(d)
      BY <1>8, <2>1, <2>4 DEF Written
    <2>6. Done(t, d)
      BY <1>5
    <2> QED BY <1>4, <2>2, <2>5, <2>6
  <1>9. CASE c # Newline /\ c # BackspaceKey
    <2> DEFINE b == [t.buffer EXCEPT ![Cell(t.column, t.row)] = v]
    <2>1. /\ b \in Display /\ added \in Seq(Seq(Entries)) /\ Len(added) = last
          /\ Len(added[last]) = Len(line) + 1
          /\ \A y \in 0..(VGA_HEIGHT - 1), x \in 0..(VGA_WIDTH - 1) : ShownAt(b, added, x, y)
      <3>1. b = AtCursor(t, v) /\ added = AtEnd(d, v)
        BY DEF AtCursor, AtEnd
      <3> HIDE DEF b, added, v
      <3> QED BY <1>3, <3>1, EntryShows
    <2>2. terminal_putentryat(t, c) = [t EXCEPT !.buffer = b]
      BY DEF terminal_putentryat
    <2>3. Written(d, c, t.color) =
            LastLines(IF Len(line) + 1 = VGA_WIDTH THEN Append(added, <<>>) ELSE added)
      BY <1>9 DEF Written
    <2> HIDE DEF b, added
    <2> DEFINE u == [t EXCEPT !.buffer = b]
    <2>4. /\ u \in Terminals(VGA_HEIGHT - 1) /\ u.row = t.row /\ u.column = t.column
          /\ u.color = t.color /\ u.buffer = b
      BY <2>1 DEF Terminals
    <2>5. terminal_putchar(t, c) =
            Scrolled(IF t.column + 1 = VGA_WIDTH THEN [u EXCEPT !.column = 0, !.row = @ + 1]
                     ELSE [u EXCEPT !.column = @ + 1])
      BY <1>9, <2>2 DEF terminal_putchar
    <2> HIDE DEF u
    <2>6. CASE t.column + 1 = VGA_WIDTH
      <3> DEFINE s == [u EXCEPT !.row = u.row + 1, !.column = 0]
                 e == Append(added, <<>>)
      <3>1. s = [u EXCEPT !.column = 0, !.row = @ + 1]
        BY <2>4 DEF Terminals
      <3>2. /\ s \in Terminals(VGA_HEIGHT) /\ e \in Documents(VGA_HEIGHT + 1)
            /\ Shows(s, e) /\ s.color = u.color /\ e[Len(e)] = <<>>
        <4> HIDE DEF s
        <4>1. s = [u EXCEPT !.row = u.row + 1, !.column = 0]
          BY DEF s
        <4>2. Len(added) \in 1..VGA_HEIGHT /\ u.row = Len(added) - 1
          BY <1>1, <2>1, <2>4
        <4>3. \A y \in 0..(VGA_HEIGHT - 1), x \in 0..(VGA_WIDTH - 1) : ShownAt(u.buffer, added, x, y)
          BY <2>1, <2>4
        <4> QED BY <2>1, <2>4, <4>1, <4>2, <4>3, NewLineShows
      <3>3. terminal_putchar(t, c) = Scrolled(s)
        BY <2>5, <2>6, <3>1
      <3>4. Written(d, c, t.color) = LastLines(e)
        BY <1>1, <2>3, <2>6
      <3> HIDE DEF s, e
      <3>5. Done(s, e)
        BY <2>4, <3>2
      <3> QED BY <1>4, <3>3, <3>4, <3>5
    <2>7. CASE t.column + 1 # VGA_WIDTH
      <3> DEFINE s == [u EXCEPT !.column = u.column + 1]
      <3>1. terminal_putchar(t, c) = Scrolled(s)
        BY <2>5, <2>7
      <3>2. Written(d, c, t.color) = LastLines(added)
        BY <1>1, <2>3, <2>7
      <3>3. t.column + 1 \in 0..(VGA_WIDTH - 1) /\ Len(line) + 1 < VGA_WIDTH
        BY <1>0, <1>1, <1>2, <2>7
      <3>4. /\ s \in Terminals(VGA_HEIGHT - 1) /\ s.row = t.row /\ s.column = t.column + 1
            /\ s.color = t.color /\ s.buffer = b
        BY <2>4, <3>3 DEF Terminals
      <3> HIDE DEF s
      <3>5. added \in Documents(VGA_HEIGHT)
        BY <1>1, <2>1, <3>3 DEF Documents
      <3>6. Shows(s, added)
        BY <1>1, <2>1, <3>4 DEF Shows
      <3>7. Done(s, added)
        BY <1>5, <3>4, <3>5, <3>6
      <3> QED BY <1>4, <3>1, <3>2, <3>7
    <2> QED BY <2>6, <2>7
  <1> QED
    <2>1. t.column > 0 \/ t.column = 0
      BY <1>2
    <2> QED BY <1>6, <1>7, <1>8, <1>9, <2>1

-----------------------------------------------------------------------------
(* Strings.                                                                *)

\* f is the terminal, h the document, after each character.
Putting(f, t, chars) ==
    f = [n \in 0..Len(chars) |-> IF n = 0 THEN t ELSE terminal_putchar(f[n - 1], chars[n])]
Documenting(h, d, chars, color) ==
    h = [n \in 0..Len(chars) |-> IF n = 0 THEN d ELSE Written(h[n - 1], chars[n], color)]

\* A terminal that writes in a color, and what it shows.
Pairs(color) ==
    {p \in Terminals(VGA_HEIGHT - 1) \X Documents(VGA_HEIGHT) : p[1].color = color /\ Shows(p[1], p[2])}

\* A character takes one such pair to another.
LEMMA PairStep ==
    ASSUME NEW color, NEW t, NEW d, <<t, d>> \in Pairs(color), NEW c \in 0..255
    PROVE  <<terminal_putchar(t, c), Written(d, c, color)>> \in Pairs(color)
PROOF
  <1>1. t \in Terminals(VGA_HEIGHT - 1) /\ d \in Documents(VGA_HEIGHT) /\ t.color = color /\ Shows(t, d)
    BY DEF Pairs
  <1>2. /\ terminal_putchar(t, c) \in Terminals(VGA_HEIGHT - 1) /\ terminal_putchar(t, c).color = t.color
        /\ Written(d, c, t.color) \in Documents(VGA_HEIGHT)
        /\ Shows(terminal_putchar(t, c), Written(d, c, t.color))
    BY <1>1, PutShows
  <1> QED BY <1>1, <1>2 DEF Pairs

\* The loops of terminal_write and of WrittenAll have values.
LEMMA WriteLoops ==
    ASSUME NEW t, NEW d, NEW color, <<t, d>> \in Pairs(color), NEW chars \in Seq(0..255)
    PROVE  (\E f : Putting(f, t, chars)) /\ \E h : Documenting(h, d, chars, color)
PROOF
  <1> DEFINE N == Len(chars)
             G == [n \in 1..N |-> [p \in Pairs(color) |->
                     <<terminal_putchar(p[1], chars[n]), Written(p[2], chars[n], color)>>]]
  <1>1. N \in Nat /\ \A n \in 1..N : chars[n] \in 0..255
    BY LenProperties, ElementOfSeq, SMTT(40)
  <1>2. G \in [1..N -> [Pairs(color) -> Pairs(color)]]
    <2>1. ASSUME NEW n \in 1..N, NEW p \in Pairs(color)
          PROVE  <<terminal_putchar(p[1], chars[n]), Written(p[2], chars[n], color)>> \in Pairs(color)
      <3>1. p = <<p[1], p[2]>>
        BY DEF Pairs
      <3>2. <<p[1], p[2]>> \in Pairs(color)
        BY <3>1
      <3> QED BY <1>1, <3>2, PairStep
    <2> HIDE DEF N
    <2> QED BY <2>1
  <1>3. PICK g \in [0..N -> Pairs(color)] : Loop(g, <<t, d>>, G, N)
    <2> HIDE DEF G
    <2> QED BY <1>1, <1>2, LoopExists
  <1>4. /\ g[0] = <<t, d>>
        /\ \A n \in 1..N : g[n] = <<terminal_putchar(g[n - 1][1], chars[n]), Written(g[n - 1][2], chars[n], color)>>
    <2>1. ASSUME NEW n \in 1..N PROVE g[n - 1] \in Pairs(color) /\ g[n] = G[n][g[n - 1]]
      <3> HIDE DEF G, N
      <3>1. n - 1 \in 0..N
        BY <1>1
      <3> QED BY <3>1, <1>3 DEF Loop
    <2>2. g[0] = <<t, d>>
      BY <1>3 DEF Loop
    <2> HIDE DEF N
    <2> QED BY <2>1, <2>2
  <1> HIDE DEF G, N
  <1> DEFINE f == [n \in 0..N |-> g[n][1]]
             h == [n \in 0..N |-> g[n][2]]
  <1>5. ASSUME NEW n \in 0..N
        PROVE  /\ f[n] = (IF n = 0 THEN t ELSE terminal_putchar(f[n - 1], chars[n]))
               /\ h[n] = (IF n = 0 THEN d ELSE Written(h[n - 1], chars[n], color))
    <2>1. CASE n = 0
      BY <2>1, <1>4
    <2>2. CASE n # 0
      <3>1. n \in 1..N /\ n - 1 \in 0..N
        BY <2>2, <1>1
      <3>2. g[n] = <<terminal_putchar(g[n - 1][1], chars[n]), Written(g[n - 1][2], chars[n], color)>>
        BY <1>4, <3>1
      <3>3. f[n - 1] = g[n - 1][1] /\ h[n - 1] = g[n - 1][2] /\ f[n] = g[n][1] /\ h[n] = g[n][2]
        BY <3>1
      <3> HIDE DEF f, h
      <3> QED BY <2>2, <3>2, <3>3
    <2> QED BY <2>1, <2>2
  <1>6. f = [n \in 0..N |-> f[n]] /\ h = [n \in 0..N |-> h[n]]
    OBVIOUS
  <1> HIDE DEF f, h
  <1>7. f = [n \in 0..N |-> IF n = 0 THEN t ELSE terminal_putchar(f[n - 1], chars[n])]
    BY <1>5, <1>6
  <1>8. h = [n \in 0..N |-> IF n = 0 THEN d ELSE Written(h[n - 1], chars[n], color)]
    BY <1>5, <1>6
  <1> QED BY <1>7, <1>8 DEF Putting, Documenting, N

\* A string is shown like its characters, one after the other.
LEMMA WriteShows ==
    ASSUME NEW t \in Terminals(VGA_HEIGHT - 1), NEW d \in Documents(VGA_HEIGHT), Shows(t, d),
           NEW chars \in Seq(0..255)
    PROVE  /\ terminal_write(t, chars) \in Terminals(VGA_HEIGHT - 1)
           /\ WrittenAll(d, chars, t.color) \in Documents(VGA_HEIGHT)
           /\ Shows(terminal_write(t, chars), WrittenAll(d, chars, t.color))
PROOF
  <1> DEFINE N == Len(chars)
             color == t.color
             f == CHOOSE k : Putting(k, t, chars)
             h == CHOOSE k : Documenting(k, d, chars, color)
  <1>1. N \in Nat /\ \A n \in 1..N : chars[n] \in 0..255
    BY LenProperties, ElementOfSeq
  <1>2. <<t, d>> \in Pairs(color)
    BY DEF Pairs
  <1>3. (\E k : Putting(k, t, chars)) /\ \E k : Documenting(k, d, chars, color)
    BY <1>2, WriteLoops
  <1>4. terminal_write(t, chars) = f[N] /\ WrittenAll(d, chars, color) = h[N]
    BY DEF terminal_write, WrittenAll, Putting, Documenting
  <1>5. Putting(f, t, chars) /\ Documenting(h, d, chars, color)
    BY <1>3
  <1> HIDE DEF f, h, color
  <1>6. /\ f[0] = t /\ h[0] = d
        /\ \A n \in 1..N : f[n] = terminal_putchar(f[n - 1], chars[n]) /\ h[n] = Written(h[n - 1], chars[n], color)
    <2> HIDE DEF N
    <2> DEFINE e == [n \in 0..N |-> IF n = 0 THEN t ELSE terminal_putchar(f[n - 1], chars[n])]
               k == [n \in 0..N |-> IF n = 0 THEN d ELSE Written(h[n - 1], chars[n], color)]
    <2>1. f = e /\ h = k
      BY <1>5 DEF Putting, Documenting, N
    <2>2. f[0] = e[0] /\ h[0] = k[0] /\ \A n \in 1..N : f[n] = e[n] /\ h[n] = k[n]
      BY <2>1, Zenon
    <2>3. 0 \in 0..N /\ \A n \in 1..N : n \in 0..N /\ n # 0
      BY <1>1
    <2> QED BY <2>2, <2>3
  <1> HIDE DEF N
  <1> DEFINE T == {n \in 0..N : <<f[n], h[n]>> \notin Pairs(color)}
  <1>7. T = {}
    <2> SUFFICES ASSUME T # {} PROVE FALSE
      OBVIOUS
    <2>1. PICK k \in T : \A y \in T : k <= y
      <3>1. T \in SUBSET Nat
        BY <1>1
      <3> QED BY <3>1, LeastNumber
    <2>2. k \in 1..N /\ k - 1 \in 0..N /\ k - 1 \notin T
      <3>1. k # 0
        BY <1>2, <1>6, <2>1
      <3> QED BY <1>1, <2>1, <3>1
    <2>3. <<f[k - 1], h[k - 1]>> \in Pairs(color)
      BY <2>2, SMTT(40)
    <2>4. <<terminal_putchar(f[k - 1], chars[k]), Written(h[k - 1], chars[k], color)>> \in Pairs(color)
      BY <1>1, <2>2, <2>3, PairStep
    <2> QED BY <1>6, <2>1, <2>2, <2>4
  <1>8. <<f[N], h[N]>> \in Pairs(color)
    <2>1. N \in 0..N
      BY <1>1
    <2>2. \A n \in 0..N : <<f[n], h[n]>> \in Pairs(color)
      BY <1>7
    <2> QED BY <2>1, <2>2
  <1> QED BY <1>4, <1>8 DEF Pairs, color

\* The string at an address, if a 0 ends it in the memory, is one of bytes.
LEMMA StringTyped ==
    ASSUME mem \in Memory, NEW a \in 0..(Size - 1), IsString(mem, a)
    PROVE  StringAt(a) \in Seq(0..255)
PROOF
  <1>0. Size \in Nat /\ Bytes \subseteq 0..255 /\ DOMAIN mem = 0..(Size - 1)
    BY TerminalAssumption DEF Memory
  <1> DEFINE S == {b - a : b \in {c \in DOMAIN mem : c >= a /\ mem[c] = 0}}
             n == strlen(mem, a)
  <1>1. S \in SUBSET Nat /\ S # {} /\ \A i \in S : i < Size - a
    BY <1>0 DEF IsString
  <1>2. \E i \in S : \A j \in S : i <= j
    <2> HIDE DEF S
    <2> QED BY <1>1, LeastNumber
  <1>3. n \in S
    <2>1. n = CHOOSE i \in S : \A j \in S : i <= j
      BY DEF strlen, Lowest
    <2> HIDE DEF S, n
    <2> QED BY <1>2, <2>1
  <1>4. n \in Nat /\ n < Size - a
    <2> HIDE DEF S, n
    <2> QED BY <1>1, <1>3
  <1> HIDE DEF S, n
  <1>5. ASSUME NEW i \in 1..n PROVE mem[a + i - 1] \in 0..255
    <2>1. a + i - 1 \in 0..(Size - 1)
      BY <1>0, <1>4
    <2> QED BY <1>0, <2>1 DEF Memory
  <1>6. StringAt(a) \in [1..n -> 0..255]
    BY <1>5 DEF StringAt, n
  <1> QED BY <1>4, <1>6, SeqDef

\* The digits of a number are characters.
LEMMA HexTyped ==
    ASSUME NEW key \in Nat
    PROVE  terminal_printhex32(key) \in Seq(0..255)
PROOF
  <1>1. ASSUME NEW d \in 0..15 PROVE HexDigit(d) \in 0..255
    BY DEF HexDigit
  <1>2. ASSUME NEW n \in Nat PROVE terminal_printhex(n) \in Seq(0..255)
    <2>1. (n % 256) \div 16 \in 0..15 /\ n % 16 \in 0..15
      OBVIOUS
    <2> QED BY <1>1, <2>1 DEF terminal_printhex
  <1>3. ASSUME NEW n \in Nat PROVE terminal_printhex16(n) \in Seq(0..255)
    <2>1. (n % 65536) \div 256 \in Nat /\ n % 256 \in Nat
      OBVIOUS
    <2>2. terminal_printhex((n % 65536) \div 256) \in Seq(0..255) /\ terminal_printhex(n % 256) \in Seq(0..255)
      BY <1>2, <2>1
    <2> QED BY <2>2 DEF terminal_printhex16
  <1>4. key \div 65536 \in Nat /\ key % 65536 \in Nat
    OBVIOUS
  <1>5. terminal_printhex16(key \div 65536) \in Seq(0..255) /\ terminal_printhex16(key % 65536) \in Seq(0..255)
    BY <1>3, <1>4
  <1> QED BY <1>5 DEF terminal_printhex32

-----------------------------------------------------------------------------
(* The invariant.                                                          *)

TerminalInv ==
    /\ mem \in Memory
    /\ term \in Terminals(VGA_HEIGHT - 1) /\ doc \in Documents(VGA_HEIGHT)
    /\ Shows(term, doc)

\* The empty display shows the empty line.
LEMMA InitShows ==
    TerminalInit => TerminalInv
PROOF
  <1> SUFFICES ASSUME TerminalInit PROVE TerminalInv
    OBVIOUS
  <1>0. VGA_WIDTH \in Nat \ {0} /\ VGA_HEIGHT \in Nat \ {0} /\ VGA_HEIGHT - 1 \in Nat
    BY TerminalAssumption
  <1>1. Blank \in Entries /\ Cleared \in Entries
    BY DEF Blank, Cleared, vga_entry, Entries, Grey
  <1>2. /\ term.row = 0 /\ term.column = 0 /\ term.color = Grey
        /\ term.buffer = [n \in 0..Behind |-> IF n < Behind THEN Blank ELSE Cleared]
    BY DEF TerminalInit, terminal_initialize
  <1>3. term \in Terminals(VGA_HEIGHT - 1)
    <2>1. 0 \in 0..(VGA_HEIGHT - 1) /\ 0 \in 0..(VGA_WIDTH - 1)
      BY <1>0
    <2>2. [n \in 0..Behind |-> IF n < Behind THEN Blank ELSE Cleared] \in Display
      BY <1>1 DEF Display
    <2> QED BY <2>1, <2>2 DEF TerminalInit, terminal_initialize, Terminals
  <1>4. doc = << <<>> >> /\ Len(doc) = 1 /\ doc[1] = <<>> /\ Len(<<>>) = 0
    BY DEF TerminalInit
  <1>5. doc \in Documents(VGA_HEIGHT)
    <2>1. <<>> \in Seq(Entries)
      OBVIOUS
    <2>2. doc \in Seq(Seq(Entries))
      BY <1>4, <2>1
    <2> QED BY <1>0, <1>4, <2>2 DEF Documents
  <1>6. ASSUME NEW y \in 0..(VGA_HEIGHT - 1), NEW x \in 0..(VGA_WIDTH - 1)
        PROVE  ShownAt(term.buffer, doc, x, y)
    <2>1. Cell(x, y) \in 0..Behind
      BY CellUnique
    <2>2. term.buffer[Cell(x, y)] \in {Blank, Cleared}
      BY <1>2, <2>1
    <2>3. ~(y < Len(doc) /\ x < Len(doc[y + 1]))
      <3>1. CASE y = 0
        BY <1>4, <3>1
      <3>2. CASE y # 0
        BY <1>4, <3>2
      <3> QED BY <3>1, <3>2
    <2> QED BY <2>2, <2>3 DEF ShownAt
  <1>7. Shows(term, doc)
    BY <1>2, <1>4, <1>6 DEF Shows
  <1>8. mem \in Memory
    BY DEF TerminalInit, Memory
  <1> QED BY <1>3, <1>5, <1>7, <1>8 DEF TerminalInv

\* Every action writes a string of bytes, or leaves the display alone.
LEMMA StepShows ==
    TerminalInv /\ [TerminalNext]_terminalVars => TerminalInv'
PROOF
  <1> SUFFICES ASSUME TerminalInv, [TerminalNext]_terminalVars PROVE TerminalInv'
    OBVIOUS
  <1>0. /\ Bytes \subseteq 0..255 /\ Keys \subseteq 0..255 /\ Message \in Seq(0..255)
        /\ Words \subseteq Nat /\ 0 \in Bytes /\ Size \in Nat
    BY TerminalAssumption
  <1>1. /\ mem \in Memory /\ Shows(term, doc)
        /\ term \in Terminals(VGA_HEIGHT - 1) /\ doc \in Documents(VGA_HEIGHT)
    BY DEF TerminalInv
  <1>2. ASSUME NEW chars \in Seq(0..255), Show(chars) PROVE TerminalInv'
    <2>1. /\ terminal_write(term, chars) \in Terminals(VGA_HEIGHT - 1)
          /\ WrittenAll(doc, chars, term.color) \in Documents(VGA_HEIGHT)
          /\ Shows(terminal_write(term, chars), WrittenAll(doc, chars, term.color))
      BY <1>1, WriteShows
    <2>2. /\ term' = terminal_write(term, chars) /\ doc' = WrittenAll(doc, chars, term.color)
          /\ mem' = mem
      BY <1>2 DEF Show
    <2> QED BY <1>1, <2>1, <2>2 DEF TerminalInv
  <1>3. ASSUME NEW c \in Keys, PutChar(c) PROVE TerminalInv'
    <2>1. <<c>> \in Seq(0..255)
      BY <1>0
    <2> QED BY <1>2, <1>3, <2>1 DEF PutChar
  <1>4. ASSUME NEW a \in 0..(Size - 1), terminal_writestring(a) PROVE TerminalInv'
    <2>1. StringAt(a) \in Seq(0..255)
      BY <1>1, <1>4, StringTyped DEF terminal_writestring
    <2> QED BY <1>2, <1>4, <2>1 DEF terminal_writestring
  <1>5. ASSUME NEW key \in Words, PrintHex(key) PROVE TerminalInv'
    <2>1. terminal_printhex32(key) \in Seq(0..255)
      BY <1>0, HexTyped
    <2> QED BY <1>2, <1>5, <2>1 DEF PrintHex
  <1>6. CASE kpanic
    <2> DEFINE t == [term EXCEPT !.color = PanicColor]
    <2>1. /\ t \in Terminals(VGA_HEIGHT - 1) /\ t.color = PanicColor
          /\ t.row = term.row /\ t.column = term.column /\ t.buffer = term.buffer
      BY <1>1 DEF Terminals
    <2>2. term' = terminal_write(t, Message) /\ doc' = WrittenAll(doc, Message, PanicColor) /\ mem' = mem
      BY <1>6 DEF kpanic
    <2> HIDE DEF t
    <2>3. Shows(t, doc)
      BY <1>1, <2>1 DEF Shows
    <2>4. /\ terminal_write(t, Message) \in Terminals(VGA_HEIGHT - 1)
          /\ WrittenAll(doc, Message, t.color) \in Documents(VGA_HEIGHT)
          /\ Shows(terminal_write(t, Message), WrittenAll(doc, Message, t.color))
      BY <1>0, <1>1, <2>1, <2>3, WriteShows
    <2> QED BY <1>1, <2>1, <2>2, <2>4 DEF TerminalInv
  <1>7. CASE ChangeMemory
    <2>1. mem' \in Memory
      <3>1. ASSUME NEW c \in Copies PROVE Inside(c[1], c[2], c[3])
        BY DEF Copies, Inside
      <3>2. ASSUME NEW c \in Copies, mem' = memcpy(mem, c[1], c[2], c[3]) PROVE mem' \in Memory
        BY <1>1, <3>1, <3>2, MemcpyRight
      <3>3. ASSUME NEW c \in Copies, mem' = memmove(mem, c[1], c[2], c[3]) PROVE mem' \in Memory
        BY <1>1, <3>1, <3>3, MemmoveRight
      <3>4. ASSUME NEW c \in Copies, mem' = memset(mem, c[1], 0, c[3]) PROVE mem' \in Memory
        <4>1. ASSUME NEW x, NEW z PROVE memset(mem, x, 0, z) \in Memory
          BY <1>0, <1>1 DEF memset, Memory
        <4> QED BY <3>4, <4>1
      <3>5. ASSUME NEW a \in 0..(Size - 1), NEW v \in Bytes, mem' = [mem EXCEPT ![a] = v]
            PROVE  mem' \in Memory
        BY <1>1, <3>5 DEF Memory
      <3> QED BY <1>7, <3>2, <3>3, <3>4, <3>5 DEF ChangeMemory
    <2>2. term' = term /\ doc' = doc
      BY <1>7 DEF ChangeMemory
    <2> QED BY <1>1, <2>1, <2>2 DEF TerminalInv
  <1>8. CASE UNCHANGED terminalVars
    BY <1>1, <1>8 DEF TerminalInv, terminalVars
  <1> QED BY <1>3, <1>4, <1>5, <1>6, <1>7, <1>8 DEF TerminalNext

\* The terminal and the document stay well formed, and the one shows the other.
THEOREM TerminalInvariant ==
    TerminalSpec => []TerminalInv
PROOF
  <1> QED BY InitShows, StepShows, PTL DEF TerminalSpec

\* The display shows the last lines written, in their colors, and nothing else, however
\* often terminal_putchar wraps, takes back and scrolls in place, a cell too many in every row.
THEOREM ShowsLastLinesHolds ==
    TerminalSpec => []ShowsLastLines
PROOF
  <1>1. TerminalInv => ShowsLastLines
    <2> SUFFICES ASSUME Shows(term, doc) PROVE ShowsLastLines
      BY DEF TerminalInv
    <2>1. term.row = Len(doc) - 1 /\ term.column = Len(doc[Len(doc)])
      BY DEF Shows
    <2>2. ASSUME NEW y \in 0..(VGA_HEIGHT - 1), NEW x \in 0..(VGA_WIDTH - 1)
          PROVE  IF y < Len(doc) /\ x < Len(doc[y + 1])
                 THEN term.buffer[Cell(x, y)] = doc[y + 1][x + 1]
                 ELSE term.buffer[Cell(x, y)] \in {Blank, Cleared}
      <3>1. ShownAt(term.buffer, doc, x, y)
        BY DEF Shows
      <3> QED BY <3>1 DEF ShownAt
    <2> QED BY <2>1, <2>2 DEF ShowsLastLines
  <1> QED BY <1>1, TerminalInvariant, PTL

\* memmove and memcpy leave the bytes that were at the source, whatever is in memory.
THEOREM CopiesRightHolds ==
    TerminalSpec => []CopiesRight
PROOF
  <1>1. TerminalInv => CopiesRight
    BY CopiesRightFrom DEF TerminalInv
  <1> QED BY <1>1, TerminalInvariant, PTL
=============================================================================

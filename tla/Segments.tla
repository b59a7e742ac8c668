------------------------------ MODULE Segments -------------------------------
(***************************************************************************)
(* The processor's tables: segments and task (src/gdt.c, src/tss.c,        *)
(* src/asm/gdt.asm, tss.asm) and gates (src/idt.c, src/irq.c).             *)
(*                                                                         *)
(* gdt has room for three entries and six are written: the last three go   *)
(* into what the linker put behind it.  A 32-bit word is a pair of 16-bit  *)
(* halves, <<high, low>>.                                                  *)
(***************************************************************************)
EXTENDS Integers, Sequences

CONSTANTS
    Owners,     \* what the linker may put behind gdt, for each entry: "gp", "tss"
                \*   or "spare", something that nothing else is written to
    TssPlaces,  \* addresses of tss_entry
    Vectors     \* the vectors gates are set for: 0..31, 32..47 and 128

ASSUME SegmentsAssumption ==
    /\ Owners \subseteq [3..5 -> {"gp", "tss", "spare"}]
    /\ TssPlaces \subseteq Nat \X Nat /\ \A a \in TssPlaces : a[1] < 65536 /\ a[2] < 65536
    /\ Vectors \subseteq 0..255

ENTRY_COUNT == 3
TssSize == 104
Junk == [access |-> -1]
NoEntry == [access |-> -2]

VARIABLES
    owner,      \* entry 3, 4 or 5 -> whose memory it is
    tssAt,      \* address of tss_entry
    gdt,        \* 0..5 -> the bytes of an entry
    gp,         \* what lgdt reads: "zero", "right" or "junk"
    tss,        \* esp0 and ss0
    loaded,     \* lgdt was executed, ltr was executed
    idt         \* vector -> the bytes of a gate

segVars == <<owner, tssAt, gdt, gp, tss, loaded, idt>>

SegInit ==
    /\ owner \in Owners /\ tssAt \in TssPlaces
    /\ gdt = [n \in 0..5 |-> NoEntry] /\ gp = "zero"
    /\ tss = [esp0 |-> "zero", ss0 |-> 0]
    /\ loaded = {} /\ idt = [v \in Vectors |-> NoEntry]

-----------------------------------------------------------------------------
Hi(word) == word[1]
Lo(word) == word[2]
Plus(word, n) == << (Hi(word) + ((Lo(word) + n) \div 65536)) % 65536, (Lo(word) + n) % 65536 >>

\* Defect: the high byte of the base is its middle one.
EntryLosingHigh(base, limit, access, gran) ==
    [base_low |-> Lo(base), base_middle |-> Hi(base) % 256, base_high |-> Hi(base) % 256,
     limit_low |-> Lo(limit), granularity |-> (Hi(limit) % 16) + 16 * (gran \div 16),
     access |-> access]

\* gdt_set_gate's eight bytes.
Entry(base, limit, access, gran) ==
    [base_low |-> Lo(base), base_middle |-> Hi(base) % 256, base_high |-> Hi(base) \div 256,
     limit_low |-> Lo(limit), granularity |-> (Hi(limit) % 16) + 16 * (gran \div 16),
     access |-> access]

Zero == <<0, 0>>
Ones == <<65535, 65535>>

\* The arguments gdt_install and write_tss pass: the limit of the task is an address.
Wanted(n) ==
    CASE n = 0 -> Entry(Zero, Zero, 0, 0)
      [] n = 1 -> Entry(Zero, Ones, 154, 207)           \* 0x9A, 0xCF
      [] n = 2 -> Entry(Zero, Ones, 146, 207)           \* 0x92
      [] n = 3 -> Entry(Zero, Ones, 250, 207)           \* 0xFA
      [] n = 4 -> Entry(Zero, Ones, 242, 207)           \* 0xF2
      [] n = 5 -> Entry(tssAt, Plus(tssAt, TssSize), 233, 0)    \* 0xE9

OwnedBy(o) == {n \in DOMAIN owner : owner[n] = o}

\* gp.limit and gp.base.
SetGp ==
    /\ gp = "zero" /\ gp' = "right"
    /\ gdt' = [n \in 0..5 |-> IF n \in OwnedBy("gp") THEN Junk ELSE gdt[n]]
    /\ UNCHANGED <<owner, tssAt, tss, loaded, idt>>

\* gdt_set_gate(n, ...), in the order of n; an entry behind gdt is written over
\* whatever is there.
gdt_set_gate(n) ==
    /\ gp # "zero" /\ gdt[n] \in {NoEntry, Junk} /\ \A m \in 0..(n - 1) : gdt[m] \notin {NoEntry, Junk}
    /\ gdt' = [gdt EXCEPT ![n] = Wanted(n)]
    /\ gp' = IF n \in OwnedBy("gp") THEN "junk" ELSE gp
    /\ UNCHANGED <<owner, tssAt, tss, loaded, idt>>

\* write_tss, after its gate: the structure is cleared and filled in.
write_tss ==
    /\ gdt[5] \notin {NoEntry, Junk} /\ tss.ss0 = 0
    /\ tss' = [esp0 |-> "stack", ss0 |-> 16]
    /\ gdt' = [n \in 0..5 |-> IF n \in OwnedBy("tss") THEN Junk ELSE gdt[n]]
    /\ UNCHANGED <<owner, tssAt, gp, loaded, idt>>

\* gdt_flush and tss_flush fault unless gp is right and the task's entry is one.
gdt_flush ==
    /\ tss.ss0 # 0 /\ loaded = {} /\ gp = "right"
    /\ loaded' = {"gdt"}
    /\ UNCHANGED <<owner, tssAt, gdt, gp, tss, idt>>

tss_flush ==
    /\ loaded = {"gdt"} /\ gdt[5] # Junk
    /\ loaded' = {"gdt", "task"}
    /\ UNCHANGED <<owner, tssAt, gdt, gp, tss, idt>>

SegFault == \/ tss.ss0 # 0 /\ loaded = {} /\ gp # "right"
            \/ loaded = {"gdt"} /\ gdt[5] = Junk

\* The stub of a vector: isr0 .. isr31, irq0 .. irq15, irq96.
Stub(v) == <<49168, 16 * v>>

\* idt_set_gate: present, an interrupt gate; 0x60 lets every privilege level use it.
Gate(v) ==
    [base_lo |-> Lo(Stub(v)), base_hi |-> Hi(Stub(v)), sel |-> 8, always0 |-> 0, flags |-> 238]

\* idt_install clears the table and sets the exceptions' gates.
idt_install ==
    /\ loaded = {"gdt", "task"}
    /\ idt' = [v \in Vectors |-> IF v < 32 THEN Gate(v) ELSE NoEntry]
    /\ loaded' = loaded \cup {"idt"}
    /\ UNCHANGED <<owner, tssAt, gdt, gp, tss>>

\* irq_install sets the gates of the lines and of int 0x80.
irq_install ==
    /\ loaded = {"gdt", "task", "idt"}
    /\ idt' = [v \in Vectors |-> IF v < 32 THEN idt[v] ELSE Gate(v)]
    /\ loaded' = loaded \cup {"irq"}
    /\ UNCHANGED <<owner, tssAt, gdt, gp, tss>>

SegStep ==
    \/ SetGp \/ \E n \in 0..5 : gdt_set_gate(n)
    \/ write_tss \/ gdt_flush \/ tss_flush \/ idt_install \/ irq_install

-----------------------------------------------------------------------------
(* What the processor makes of an entry.                                   *)

Base(e) == <<e.base_high * 256 + e.base_middle, e.base_low>>
LimitField(e) == (e.granularity % 16) * 65536 + e.limit_low
InPages(e) == e.granularity >= 128

\* The task's limit is the low 20 bits of an address: too small if the structure
\* ends less than its size behind a megabyte boundary.
TaskLimitFits == (Hi(Plus(tssAt, TssSize)) % 16) * 65536 + Lo(Plus(tssAt, TssSize)) >= TssSize - 1
=============================================================================

------------------------------ MODULE Interrupts -----------------------------
(***************************************************************************)
(* Interrupts and system calls (src/irq.c, src/idt.c, src/asm/idt.asm),    *)
(* and the handlers of the timer, the keyboard, the clock and int 0x80     *)
(* (src/drivers/timer.c, keyboard.c, rtc.c, src/userspace).                *)
(*                                                                         *)
(* Devices, the two interrupt controllers and the processor run side by    *)
(* side.  The model begins where kernel_main executes sti: everything is   *)
(* installed, the controllers are set up by irq_remap (line n arrives as   *)
(* vector 32 + n, the second controller on line 2 of the first, nothing    *)
(* masked).  Controllers, keyboard and clock are external.                 *)
(***************************************************************************)
EXTENDS Rtc

CONSTANTS
    Codes,              \* scan codes the keyboard sends: 0..255, releases from 128 on
    keyboard_table_uk,  \* scan code below 128 -> the character
    Removable,          \* lines whose handler is taken away: Keyboard and RtcLine
    Numbers,            \* values of eax with which int 0x80 is executed
    MaxKeys, MaxTicks   \* bounds on scan codes and on timer interrupts

Timer == 0
Keyboard == 1
Cascade == 2
RtcLine == 8
Disk == 14              \* the drive raises it, no handler is installed
Syscall == 96           \* int 0x80 is vector 32 + 96
Spurious == {7, 15}

ASSUME InterruptsAssumption ==
    /\ Codes \subseteq 0..255 /\ Codes \cap 0..127 \subseteq DOMAIN keyboard_table_uk
    /\ Removable \subseteq {Keyboard, RtcLine} /\ Numbers \subseteq Nat /\ MaxKeys \in Nat /\ MaxTicks \in Nat

VARIABLES
    irr, isr,           \* the controllers: lines requested, lines in service
    enabled,            \* the interrupt flag of the processor
    frames,             \* the handlers being executed: [irq, step], innermost last
    irq_routines,       \* line -> handler, "none" for 0
    jiffies,
    port60, full,       \* the keyboard's data port: its value; it is unread
    flagC,              \* register C of the clock: it waits for being read
    shown,              \* characters the keyboard handler gave to the terminal
    eax, sampled,       \* of a system call: eax, and what sys_time has read
    halt,               \* "no", "panic" or "fault"
    sent, overtaken,    \* history: scan codes sent; one came while the handler was
                        \*   still reading
    lost                \* history: the clock's interrupt came while it had no handler

cpuVars == <<enabled, frames, irq_routines, jiffies, shown, eax, sampled, halt>>
deviceVars == <<irr, isr, port60, full, flagC, sent, overtaken, lost>>
vars == <<rtcVars, cpuVars, deviceVars>>

Least(S) == CHOOSE x \in S : \A y \in S : x <= y
Inner == frames[Len(frames)]
At(irq, step) == halt = "no" /\ frames # <<>> /\ Inner = [irq |-> irq, step |-> step]
Goto(step) == frames' = [frames EXCEPT ![Len(frames)].step = step]

\* After kernel_main's calls of keyboard_install, timer_install, rtc_install and
\* syscall_install, which only fill in the table, and irq_install.
Init ==
    /\ RtcInit
    /\ irr = {} /\ isr = {} /\ enabled = TRUE /\ frames = <<>>
    /\ irq_routines = [l \in {Timer, Keyboard, RtcLine, Disk, Syscall} \cup Spurious |->
                         CASE l = Timer -> "timer" [] l = Keyboard -> "keyboard"
                           [] l = RtcLine -> "rtc" [] l = Syscall -> "syscall" [] OTHER -> "none"]
    /\ jiffies = 0 /\ port60 = 0 /\ full = FALSE /\ flagC = FALSE /\ shown = <<>>
    /\ eax = 0 /\ sampled = <<>> /\ halt = "no"
    /\ sent = <<>> /\ overtaken = FALSE /\ lost = FALSE

-----------------------------------------------------------------------------
(* Devices.                                                                *)

TimerRaises ==
    /\ jiffies < MaxTicks /\ irr' = irr \cup {Timer}
    /\ UNCHANGED <<rtcVars, cpuVars, isr, port60, full, flagC, sent, overtaken, lost>>

DiskRaises ==
    /\ irr' = irr \cup {Disk}
    /\ UNCHANGED <<rtcVars, cpuVars, isr, port60, full, flagC, sent, overtaken, lost>>

\* The clock raises its line once and then waits until register C is read.
RtcRaises ==
    /\ ~flagC /\ flagC' = TRUE /\ irr' = irr \cup {RtcLine}
    /\ UNCHANGED <<rtcVars, cpuVars, isr, port60, full, sent, overtaken, lost>>

\* The keyboard's next scan code, as soon as the last one was read.
KeyboardSends(c) ==
    /\ ~full /\ Len(sent) < MaxKeys
    /\ port60' = c /\ full' = TRUE /\ sent' = Append(sent, c)
    /\ irr' = irr \cup {Keyboard}
    /\ overtaken' = (overtaken \/ At(Keyboard, "enter") \/ At(Keyboard, "second"))
    /\ UNCHANGED <<rtcVars, cpuVars, isr, flagC, lost>>

Devices ==
    \/ TimerRaises \/ DiskRaises \/ RtcRaises
    \/ \E c \in Codes : KeyboardSends(c)
    \/ Clock /\ UNCHANGED <<cpuVars, deviceVars>>

-----------------------------------------------------------------------------
(* The controllers and the processor.                                      *)

First == isr \cap 0..7
Second == isr \cap 8..15

\* What the second controller, and with it the first, would pass on.
SecondAsks == {l \in irr \cap 8..15 : \A s \in Second : l < s}
FirstAsks == (irr \cap 0..7) \cup (IF SecondAsks = {} THEN {} ELSE {Cascade})

\* A request reaches the processor.  One that is enabled takes it before it executes
\* the next instruction.
Asked == FirstAsks # {} /\ \A s \in First : Least(FirstAsks) < s
AtTask == halt = "no" /\ frames = <<>> /\ ~Asked

\* Defect: the gate of int 0x80 is a trap gate, and its stub does not begin with cli.
EnterByTrap(irq) ==
    /\ frames' = Append(frames, [irq |-> irq, step |-> "enter"])
    /\ enabled' = (irq = Syscall)

\* All gates are interrupt gates (0x8E, 0xEE) and the stubs begin with cli.
Enter(irq) ==
    /\ frames' = Append(frames, [irq |-> irq, step |-> "enter"])
    /\ enabled' = FALSE

TakeInterrupt ==
    /\ halt = "no" /\ enabled /\ Asked
    /\ LET line == IF Least(FirstAsks) = Cascade THEN Least(SecondAsks) ELSE Least(FirstAsks)
       IN  /\ irr' = irr \ {line} /\ isr' = isr \cup {Least(FirstAsks), line}
           /\ Enter(line)
           /\ lost' = (lost \/ (line = RtcLine /\ irq_routines[line] = "none"))
    /\ UNCHANGED <<rtcVars, irq_routines, jiffies, shown, eax, sampled, halt,
                   port60, full, flagC, sent, overtaken>>

\* A request that is gone when the processor asks for its number: the first
\* controller answers 7, or the second one 15, with no line of its own in service.
TakeSpurious(irq) ==
    /\ halt = "no" /\ enabled /\ FirstAsks = {} /\ First = {}
    /\ isr' = IF irq = 15 THEN isr \cup {Cascade} ELSE isr
    /\ Enter(irq)
    /\ UNCHANGED <<rtcVars, irq_routines, jiffies, shown, eax, sampled, halt,
                   irr, port60, full, flagC, sent, overtaken, lost>>

\* int 0x80, executed by the code that is interrupted by nothing.
Int80(n) ==
    /\ AtTask
    /\ eax' = n /\ Enter(Syscall)
    /\ UNCHANGED <<rtcVars, deviceVars, irq_routines, jiffies, shown, sampled, halt>>

\* An exception: fault_handler prints its number and loops for ever.
Exception ==
    /\ AtTask
    /\ halt' = "fault"
    /\ UNCHANGED <<rtcVars, deviceVars, enabled, frames, irq_routines, jiffies, shown, eax, sampled>>

\* keyboard_uninstall and rtc_uninstall, and installing again.
Uninstall(irq) ==
    /\ AtTask /\ irq_routines[irq] # "none"
    /\ irq_routines' = [irq_routines EXCEPT ![irq] = "none"]
    /\ UNCHANGED <<rtcVars, deviceVars, enabled, frames, jiffies, shown, eax, sampled, halt>>

Install(irq) ==
    /\ AtTask /\ irq_routines[irq] = "none"
    /\ irq_routines' = [irq_routines EXCEPT ![irq] = IF irq = RtcLine THEN "rtc" ELSE "keyboard"]
    /\ UNCHANGED <<rtcVars, deviceVars, enabled, frames, jiffies, shown, eax, sampled, halt>>

-----------------------------------------------------------------------------
(* irq_handler: the routine of the line, then the acknowledgements.        *)

Called(routine) ==
    halt = "no" /\ frames # <<>> /\ Inner.step = "enter" /\ irq_routines[Inner.irq] = routine

NoHandler ==
    /\ Called("none")
    /\ Goto("eoi")
    /\ UNCHANGED <<rtcVars, deviceVars, enabled, irq_routines, jiffies, shown, eax, sampled, halt>>

timer_handler ==
    /\ Called("timer")
    /\ jiffies' = jiffies + 1 /\ Goto("eoi")
    /\ UNCHANGED <<rtcVars, deviceVars, enabled, irq_routines, shown, eax, sampled, halt>>

\* keyboard_handler reads the port until it is not 0, and then once more for the
\* value, which it goes on with unless that is 0.
keyboard_handler ==
    /\ Called("keyboard")
    /\ full' = FALSE
    /\ IF port60 = 0 THEN UNCHANGED frames ELSE Goto("second")
    /\ UNCHANGED <<rtcVars, enabled, irq_routines, jiffies, shown, eax, sampled, halt,
                   irr, isr, port60, flagC, sent, overtaken, lost>>

\* Defect: the release of a key is shown too.
ShownForEvery(c) == Append(shown, keyboard_table_uk[c % 128])

\* A key that is pressed is shown, its release is not.
Shown(c) == IF c < 128 THEN Append(shown, keyboard_table_uk[c]) ELSE shown

ReadSecond ==
    /\ At(Keyboard, "second")
    /\ full' = FALSE
    /\ IF port60 = 0 THEN Goto("enter") /\ UNCHANGED shown
       ELSE Goto("eoi") /\ shown' = Shown(port60)
    /\ UNCHANGED <<rtcVars, enabled, irq_routines, jiffies, eax, sampled, halt,
                   irr, isr, port60, flagC, sent, overtaken, lost>>

\* Defect: register C is not read.
rtc_handlerSilent ==
    /\ Called("rtc")
    /\ StartRead /\ Goto("read")
    /\ UNCHANGED <<enabled, irq_routines, jiffies, shown, eax, sampled, halt, deviceVars>>

\* rtc_handler: register C, then read_rtc.
rtc_handler ==
    /\ Called("rtc")
    /\ flagC' = FALSE
    /\ StartRead /\ Goto("read")
    /\ UNCHANGED <<enabled, irq_routines, jiffies, shown, eax, sampled, halt,
                   irr, isr, port60, full, sent, overtaken, lost>>

ReadRtc ==
    /\ At(RtcLine, "read") /\ ReadStep
    /\ IF pc' = "idle" THEN Goto("eoi") ELSE UNCHANGED frames
    /\ UNCHANGED <<deviceVars, enabled, irq_routines, jiffies, shown, eax, sampled, halt>>

\* The table of system calls: sys_read panics, sys_write prints and returns 0,
\* sys_time reads the six values; any other number returns with eax unchanged.
syscall_handler ==
    /\ Called("syscall")
    /\ CASE eax = 0  -> halt' = "panic" /\ UNCHANGED <<frames, eax>>
         [] eax = 1  -> Goto("eoi") /\ eax' = 0 /\ UNCHANGED halt
         [] eax = 13 -> Goto("time") /\ UNCHANGED <<eax, halt>>
         [] OTHER    -> Goto("eoi") /\ UNCHANGED <<eax, halt>>
    /\ UNCHANGED <<rtcVars, deviceVars, enabled, irq_routines, jiffies, shown, sampled>>

\* get_year, get_month, get_day, get_hour, get_minute and get_second.
Getter(n) == time[7 - n]

\* sys_time calls them one after the other; its sum of the six is left out.
SysTime ==
    /\ At(Syscall, "time")
    /\ sampled' = Append(sampled, Getter(Len(sampled) + 1))
    /\ IF Len(sampled') = 6 THEN Goto("eoi") ELSE UNCHANGED frames
    /\ UNCHANGED <<rtcVars, deviceVars, enabled, irq_routines, jiffies, shown, eax, halt>>

\* An unspecific end of interrupt ends the most urgent line in service.
Eoi(s) == IF s = {} THEN s ELSE s \ {Least(s)}

\* Defect: the first line of the second controller is not taken for one of it.
AfterEoiOffByOne(irq) ==
    CASE irq + 32 = 128 -> isr
      [] irq + 32 > 40 /\ irq + 32 # 128 -> Eoi(First) \cup Eoi(Second)
      [] OTHER -> Eoi(First) \cup Second

\* The lines in service after irq_handler's one, two or no acknowledgements.
AfterEoi(irq) ==
    CASE irq + 32 = 128 -> isr
      [] irq + 32 >= 40 /\ irq + 32 # 128 -> Eoi(First) \cup Eoi(Second)
      [] OTHER -> Eoi(First) \cup Second

\* The acknowledgements and iret, which turns interrupts on again.  What a system
\* call returned is then the caller's.
Return ==
    /\ halt = "no" /\ frames # <<>> /\ Inner.step = "eoi"
    /\ isr' = AfterEoi(Inner.irq)
    /\ frames' = SubSeq(frames, 1, Len(frames) - 1) /\ enabled' = TRUE
    /\ IF Inner.irq = Syscall THEN eax' = 0 /\ sampled' = <<>> ELSE UNCHANGED <<eax, sampled>>
    /\ UNCHANGED <<rtcVars, irq_routines, jiffies, shown, halt,
                   irr, port60, full, flagC, sent, overtaken, lost>>

Processor ==
    \/ TakeInterrupt
    \/ NoHandler \/ timer_handler \/ keyboard_handler \/ ReadSecond
    \/ rtc_handler \/ ReadRtc \/ syscall_handler \/ SysTime \/ Return

Next ==
    \/ Devices \/ Processor
    \/ \E irq \in Spurious : TakeSpurious(irq)
    \/ \E n \in Numbers : Int80(n)
    \/ Exception
    \/ \E irq \in Removable : Uninstall(irq) \/ Install(irq)

\* The processor goes on executing, the clock's updates end and its interrupts
\* come again as long as register C is read.
Spec ==
    /\ Init /\ [][Next]_vars
    /\ WF_vars(Processor) /\ WF_vars(RtcRaises)
    /\ WF_vars(EndUpdate /\ UNCHANGED <<cpuVars, deviceVars>>)

-----------------------------------------------------------------------------
(* Properties.                                                             *)

\* Whenever no handler runs, nothing is in service at either controller: every
\* interrupt, of the first or the second controller, with or without a handler,
\* real or spurious, has been acknowledged where it has to be, and none twice at
\* the expense of another.  A line left in service would block all less urgent ones.
Acknowledged == frames = <<>> /\ halt = "no" => isr = {}

\* The characters are those of the keys pressed in codes, each once and in order.
ShowsPresses(chars, codes) ==
    LET presses == {n \in DOMAIN codes : codes[n] \in 1..127}
    IN  \E key \in [DOMAIN chars -> presses] :
          /\ \A i, j \in DOMAIN chars : i < j => key[i] < key[j]
          /\ \A n \in presses : \E i \in DOMAIN chars : key[i] = n
          /\ \A i \in DOMAIN chars : chars[i] = keyboard_table_uk[codes[key[i]]]

\* Every key pressed is shown once, in order, whenever its code has been read: as
\* long as no code comes between the handler's two reads of the port, nor while
\* it waits because the port holds 0.  (Otherwise the first code is lost and the
\* second, whose interrupt still comes, is shown twice.)
KeysInOrder ==
    LET unread == full \/ At(Keyboard, "second")
        read == SubSeq(sent, 1, Len(sent) - (IF unread THEN 1 ELSE 0))
    IN  ~overtaken => ShowsPresses(shown, read)

\* What sys_time returns is made of the values of one moment: the clock's interrupt
\* cannot come between the six reads, because a system call runs with interrupts off.
SysTimeWhole ==
    At(Syscall, "eoi") /\ Len(sampled) = 6 => sampled = [n \in 1..6 |-> time[7 - n]]

Spinning == At(Keyboard, "enter") /\ port60 = 0 /\ ~full

\* The clock's interrupts keep coming, as the time of day depends on them: the
\* handler reads register C and both controllers are acknowledged.  Unless the
\* kernel stops, the keyboard handler waits for ever on a port that holds 0, or an
\* interrupt came while rtc_handler was not installed: rtc_install does not read
\* register C, so there is none after that.
ClockKeepsComing ==
    \/ []<>(At(RtcLine, "read"))
    \/ <>(halt # "no" \/ lost)
    \/ <>[](Spinning \/ irq_routines[RtcLine] = "none")
=============================================================================

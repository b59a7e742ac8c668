-------------------------- MODULE InterruptsProofs --------------------------
(***************************************************************************)
(* Proofs about the interrupts and the clock, for every sequence of times, *)
(* scan codes and system calls.                                            *)
(*                                                                         *)
(* Handlers do not nest, since nothing turns interrupts on before iret;    *)
(* so the lines in service are those of the one handler that runs.         *)
(***************************************************************************)
EXTENDS Interrupts, SequenceTheorems, TLAPS

Lines == {Timer, Keyboard, RtcLine, Disk, Syscall} \cup Spurious

\* What the entry of a handler has put in service at the two controllers.
InService(irq) ==
    CASE irq \in {Timer, Keyboard} -> {irq}
      [] irq \in {RtcLine, Disk} -> {Cascade, irq}
      [] irq = 15 -> {Cascade}
      [] OTHER -> {}

\* The steps a handler may be at.
Steps(irq) ==
    {"enter", "eoi"} \cup (CASE irq = Keyboard -> {"second"} [] irq = RtcLine -> {"read"}
                             [] irq = Syscall -> {"time"} [] OTHER -> {})

\* The steps of the handlers that take several.
LEMMA StepsOf ==
    /\ \A irq : "enter" \in Steps(irq) /\ "eoi" \in Steps(irq)
    /\ "second" \in Steps(Keyboard) /\ "read" \in Steps(RtcLine) /\ "time" \in Steps(Syscall)
PROOF
  <1>1. \A irq : "enter" \in Steps(irq) /\ "eoi" \in Steps(irq)
    BY DEF Steps
  <1>2. "second" \in Steps(Keyboard)
    BY DEF Steps, Keyboard, RtcLine, Syscall
  <1>3. "read" \in Steps(RtcLine)
    BY DEF Steps, Keyboard, RtcLine, Syscall
  <1>4. "time" \in Steps(Syscall)
    BY DEF Steps, Keyboard, RtcLine, Syscall
  <1> QED BY <1>1, <1>2, <1>3, <1>4

\* At most one handler runs, with interrupts off, and its lines are in service.
OneHandler ==
    \/ frames = <<>> /\ enabled = TRUE /\ isr = {}
    \/ \E irq \in Lines : \E step \in Steps(irq) :
          /\ frames = <<[irq |-> irq, step |-> step]>>
          /\ enabled = FALSE /\ isr = InService(irq)

\* Each routine is installed at its own line only.
RoutinesRight ==
    /\ DOMAIN irq_routines = Lines
    /\ \A l \in Lines :
          irq_routines[l] \in (CASE l = Timer -> {"timer"} [] l = Keyboard -> {"keyboard", "none"}
                                 [] l = RtcLine -> {"rtc", "none"} [] l = Syscall -> {"syscall"}
                                 [] OTHER -> {"none"})

HandlersInv ==
    /\ irr \subseteq {Timer, Keyboard, RtcLine, Disk}
    /\ OneHandler /\ RoutinesRight
    /\ pc # "idle" => frames = <<[irq |-> RtcLine, step |-> "read"]>>
    /\ halt # "no" => frames \in {<<>>, <<[irq |-> Syscall, step |-> "enter"]>>}

\* The line of least number among the requests is one of them.
LEMMA LeastOfRequests ==
    ASSUME NEW S \in SUBSET {Timer, Keyboard, Cascade, RtcLine, Disk}, S # {}
    PROVE  Least(S) \in S /\ \A y \in S : Least(S) <= y
PROOF
  <1>1. \E x \in S : \A y \in S : x <= y
    <2> USE DEF Timer, Keyboard, Cascade, RtcLine, Disk
    <2>1. CASE 0 \in S BY <2>1
    <2>2. CASE 0 \notin S /\ 1 \in S BY <2>2
    <2>3. CASE S \subseteq {2, 8, 14} /\ 2 \in S BY <2>3
    <2>4. CASE S \subseteq {8, 14} /\ 8 \in S BY <2>4
    <2>5. CASE S = {14} BY <2>5
    <2> QED BY <2>1, <2>2, <2>3, <2>4, <2>5
  <1> QED BY <1>1 DEF Least

\* A request is taken: of the line itself, through line 2 if it is one of the second
\* controller's.
LEMMA TakenLine ==
    ASSUME HandlersInv, frames = <<>>, TakeInterrupt
    PROVE  \E line \in {Timer, Keyboard, RtcLine, Disk} :
              /\ frames' = <<[irq |-> line, step |-> "enter"]>> /\ enabled' = FALSE
              /\ isr' = InService(line) /\ line \in irr /\ irr' = irr \ {line}
PROOF
  <1>1. isr = {} /\ irr \subseteq {Timer, Keyboard, RtcLine, Disk}
    BY DEF HandlersInv, OneHandler
  <1>2. /\ SecondAsks \subseteq irr \cap {RtcLine, Disk}
        /\ FirstAsks \subseteq (irr \cap {Timer, Keyboard}) \cup {Cascade}
    BY <1>1 DEF SecondAsks, FirstAsks, Second, Timer, Keyboard, Cascade, RtcLine, Disk
  <1>3. FirstAsks # {}
    BY DEF TakeInterrupt, Asked
  <1>4. Least(FirstAsks) \in FirstAsks
    BY <1>2, <1>3, LeastOfRequests
  <1>5. CASE Least(FirstAsks) = Cascade
    <2>1. SecondAsks # {}
      BY <1>1, <1>4, <1>5 DEF FirstAsks, Timer, Keyboard, Cascade, RtcLine, Disk
    <2>2. Least(SecondAsks) \in irr \cap {RtcLine, Disk}
      BY <1>2, <2>1, LeastOfRequests
    <2>3. isr' = {Cascade, Least(SecondAsks)} /\ irr' = irr \ {Least(SecondAsks)}
      BY <1>1, <1>5 DEF TakeInterrupt
    <2>4. frames' = <<[irq |-> Least(SecondAsks), step |-> "enter"]>> /\ enabled' = FALSE
      BY <1>5 DEF TakeInterrupt, Enter
    <2> QED BY <2>2, <2>3, <2>4 DEF InService, Timer, Keyboard, Cascade, RtcLine, Disk
  <1>6. CASE Least(FirstAsks) # Cascade
    <2>1. Least(FirstAsks) \in irr \cap {Timer, Keyboard}
      BY <1>2, <1>4, <1>6
    <2>2. isr' = {Least(FirstAsks)} /\ irr' = irr \ {Least(FirstAsks)}
      BY <1>1, <1>6 DEF TakeInterrupt
    <2>3. frames' = <<[irq |-> Least(FirstAsks), step |-> "enter"]>> /\ enabled' = FALSE
      BY <1>6 DEF TakeInterrupt, Enter
    <2> QED BY <2>1, <2>2, <2>3 DEF InService, Timer, Keyboard, Cascade, RtcLine, Disk
  <1> QED BY <1>5, <1>6

\* The handler that runs goes on to another step.
LEMMA GotoMoves ==
    ASSUME NEW irq, NEW step, NEW s, frames = <<[irq |-> irq, step |-> step]>>, Goto(s)
    PROVE  frames' = <<[irq |-> irq, step |-> s]>>
PROOF
  <1>1. Len(frames) = 1 /\ frames[1] = [irq |-> irq, step |-> step] /\ DOMAIN frames = {1}
    OBVIOUS
  <1>2. frames' = [frames EXCEPT ![1].step = s]
    BY <1>1 DEF Goto
  <1> QED BY <1>1, <1>2

\* irq_handler's acknowledgements end exactly what the entry put in service.
LEMMA EoiEnds ==
    ASSUME NEW irq \in Lines, isr = InService(irq)
    PROVE  AfterEoi(irq) = {}
PROOF
  <1> USE DEF Lines, Timer, Keyboard, Cascade, RtcLine, Disk, Syscall, Spurious
  <1>1. \A x \in Int : Least({x}) = x
    BY DEF Least
  <1>2. Eoi({}) = {} /\ \A x \in Int : Eoi({x}) = {}
    BY <1>1 DEF Eoi
  <1>3. CASE irq \in {0, 1}
    <2>1. First = {irq} /\ Second = {}
      BY <1>3 DEF First, Second, InService
    <2>2. Eoi(First) = {}
      BY <1>2, <1>3, <2>1
    <2> QED BY <1>3, <2>1, <2>2 DEF AfterEoi
  <1>4. CASE irq \in {8, 14}
    <2>1. First = {2} /\ Second = {irq}
      BY <1>4 DEF First, Second, InService
    <2>2. Eoi(First) = {} /\ Eoi(Second) = {}
      BY <1>2, <1>4, <2>1
    <2> QED BY <1>4, <2>2 DEF AfterEoi
  <1>5. CASE irq = 15
    <2>1. First = {2} /\ Second = {}
      BY <1>5 DEF First, Second, InService
    <2>2. Eoi(First) = {} /\ Eoi(Second) = {}
      BY <1>2, <2>1
    <2> QED BY <1>5, <2>2 DEF AfterEoi
  <1>6. CASE irq = 7
    <2>1. First = {} /\ Second = {}
      BY <1>6 DEF First, Second, InService
    <2>2. Eoi(First) = {}
      BY <1>2, <2>1
    <2> QED BY <1>6, <2>1, <2>2 DEF AfterEoi
  <1>7. CASE irq = 96
    BY <1>7 DEF AfterEoi, InService
  <1> QED BY <1>3, <1>4, <1>5, <1>6, <1>7

-----------------------------------------------------------------------------
(* The clock.                                                              *)

\* Nothing but the moment the poll ended with goes into the registers read, since
\* an update announced from then on is too late to change them.
RtcInv ==
    /\ now \in 1..Len(Moments) /\ began \in 0..Len(Moments)
    /\ uip \in BOOLEAN /\ late \in BOOLEAN
    /\ mode \in [binary : BOOLEAN, day24 : BOOLEAN]
    /\ pc \in {"idle", "poll", "read"}
    /\ uip => now < Len(Moments)
    /\ pc = "read" => /\ began = now /\ (uip => late)
                      /\ \E k \in 0..6 : regs = [n \in 1..k |-> Register(n)]
    /\ TimeRight

\* The values of a moment of the clock are in their ranges.
Ranges(m) ==
    /\ m[1] \in 0..59 /\ m[2] \in 0..59 /\ m[3] \in 0..23
    /\ m[4] \in 1..31 /\ m[5] \in 1..12 /\ m[6] \in 2017..2116

\* The clock keeps the values of its registers in these ranges.
LEMMA MomentRanges ==
    ASSUME NEW i \in 1..Len(Moments)
    PROVE  Ranges(Moments[i])
PROOF
  <1> DEFINE m == Moments[i]
  <1>1. m \in (0..59) \X (0..59) \X (0..23) \X (1..31) \X (1..12) \X (2017..2116)
    BY RtcAssumption DEF CURRENT_YEAR
  <1> HIDE DEF m
  <1>2. Ranges(m)
    BY <1>1 DEF Ranges
  <1> QED BY <1>2 DEF m

\* The BCD digits of a number below 100 give the number back.
LEMMA BcdInverse ==
    ASSUME NEW v \in 0..99
    PROVE  FromBcd(Bcd(v)) = v
PROOF
  BY DEF FromBcd, Bcd

\* read_rtc's conversion of the hour undoes each of the clock's four formats, but for
\* 12 on a clock of 12 hours.
LEMMA HourInverse ==
    ASSUME NEW h \in 0..23, mode \in [binary : BOOLEAN, day24 : BOOLEAN],
           mode.day24 \/ h % 12 # 0
    PROVE  Hour(StoredHour(h)) = h
PROOF
  <1>1. CASE mode.binary /\ mode.day24
    BY <1>1 DEF Hour, StoredHour, Stored
  <1>2. CASE mode.binary /\ ~ mode.day24
    BY <1>2 DEF Hour, StoredHour, Stored
  <1>3. CASE ~ mode.binary /\ mode.day24
    BY <1>3 DEF Hour, StoredHour, Stored, Bcd
  <1>4. CASE ~ mode.binary /\ ~ mode.day24
    BY <1>4 DEF Hour, StoredHour, Stored, Bcd
  <1> QED BY <1>1, <1>2, <1>3, <1>4

\* What read_rtc makes of the six registers of one moment is that moment.
LEMMA DecodedRight ==
    ASSUME mode \in [binary : BOOLEAN, day24 : BOOLEAN], NEW m, Ranges(m), NEW r,
           /\ r[1] = Stored(m[1]) /\ r[2] = Stored(m[2]) /\ r[3] = StoredHour(m[3])
           /\ r[4] = Stored(m[4]) /\ r[5] = Stored(m[5]) /\ r[6] = Stored(m[6] % 100),
           NEW n \in 1..6, n # 3 \/ mode.day24 \/ m[3] % 12 # 0
    PROVE  Decoded(r)[n] = m[n]
PROOF
  <1> DEFINE plain(v) == IF mode.binary THEN v ELSE FromBcd(v)
  <1>1. \A v \in 0..99 : plain(Stored(v)) = v
    BY BcdInverse DEF Stored
  <1>2. Decoded(r) = <<plain(r[1]), plain(r[2]), Hour(r[3]), plain(r[4]), plain(r[5]), Year(plain(r[6]))>>
    BY DEF Decoded
  <1> HIDE DEF plain
  <1>3. /\ m[1] \in 0..99 /\ m[2] \in 0..99 /\ m[3] \in 0..23 /\ m[4] \in 0..99 /\ m[5] \in 0..99
        /\ m[6] \in 2017..2116 /\ m[6] % 100 \in 0..99
    BY DEF Ranges
  <1>4. Year(m[6] % 100) = m[6]
    BY <1>3 DEF Year, CURRENT_YEAR
  <1>5. n # 3 => Decoded(r)[n] = m[n]
    BY <1>1, <1>2, <1>3, <1>4
  <1>6. n = 3 => Hour(r[3]) = m[3]
    BY <1>3, HourInverse
  <1> QED BY <1>2, <1>5, <1>6

\* TimeRight depends only on the state of the driver.
LEMMA TimeRightStays ==
    ASSUME TimeRight, UNCHANGED <<mode, pc, time, began>>
    PROVE  TimeRight'
PROOF
  BY DEF TimeRight, Known

\* The clock's own steps, at any point of a read.
LEMMA ClockKeepsRtcInv ==
    ASSUME RtcInv, Clock
    PROVE  RtcInv'
PROOF
  <1>1. CASE BeginUpdate
    <2>1. TimeRight'
      BY <1>1, TimeRightStays DEF RtcInv, BeginUpdate
    <2>2. \A n \in 1..6 : Register(n)' = Register(n)
      BY <1>1 DEF BeginUpdate, Register, StoredHour, Stored
    <2>3. ASSUME pc = "read" PROVE \E k \in 0..6 : regs' = [n \in 1..k |-> Register(n)']
      <3>1. PICK k \in 0..6 : regs = [n \in 1..k |-> Register(n)]
        BY <2>3 DEF RtcInv
      <3>2. regs' = [n \in 1..k |-> Register(n)']
        BY <1>1, <2>2, <3>1 DEF BeginUpdate
      <3> QED BY <3>2
    <2> QED BY <1>1, <2>1, <2>3 DEF RtcInv, BeginUpdate
  <1>2. CASE EndUpdate
    <2>1. TimeRight'
      BY <1>2, TimeRightStays DEF RtcInv, EndUpdate
    <2>2. pc # "read"
      BY <1>2 DEF RtcInv, EndUpdate
    <2>3. now' \in 1..Len(Moments) /\ Len(Moments) \in Nat
      BY <1>2, RtcAssumption DEF RtcInv, EndUpdate
    <2> QED BY <1>2, <2>1, <2>2, <2>3 DEF RtcInv, EndUpdate
  <1> QED BY <1>1, <1>2 DEF Clock

\* read_rtc: the poll, the six reads and the conversion.
LEMMA DriverKeepsRtcInv ==
    ASSUME RtcInv, StartRead \/ ReadStep
    PROVE  RtcInv'
PROOF
  <1>1. CASE StartRead
    BY <1>1 DEF RtcInv, StartRead, TimeRight, Known
  <1>2. CASE Poll
    <2>1. regs' = [n \in 1..0 |-> Register(n)']
      BY <1>2 DEF Poll
    <2> QED BY <1>2, <2>1 DEF RtcInv, Poll, TimeRight, Known
  <1>3. CASE ReadRegister
    <2>1. PICK k \in 0..6 : regs = [n \in 1..k |-> Register(n)]
      BY <1>3 DEF RtcInv, ReadRegister
    <2>2. \A n \in 1..6 : Register(n)' = Register(n)
      BY <1>3 DEF ReadRegister, Register, StoredHour, Stored
    <2>3. regs \in Seq({Register(n) : n \in 1..6}) /\ Len(regs) = k
      BY <2>1
    <2>4. k + 1 \in 0..6
      BY <1>3, <2>3 DEF ReadRegister
    <2>5. regs' = [n \in 1..(k + 1) |-> Register(n)']
      BY <1>3, <2>1, <2>2, <2>3, <2>4 DEF ReadRegister
    <2> QED BY <1>3, <2>4, <2>5 DEF RtcInv, ReadRegister, TimeRight, Known
  <1>4. CASE Convert
    <2>1. PICK k \in 0..6 : regs = [n \in 1..k |-> Register(n)]
      BY <1>4 DEF RtcInv, Convert
    <2>2. k = 6
      BY <1>4, <2>1 DEF Convert
    <2>3. Ranges(Moments[now])
      BY MomentRanges DEF RtcInv
    <2>4. /\ regs[1] = Stored(Moments[now][1]) /\ regs[2] = Stored(Moments[now][2])
          /\ regs[3] = StoredHour(Moments[now][3])
          /\ regs[4] = Stored(Moments[now][4]) /\ regs[5] = Stored(Moments[now][5])
          /\ regs[6] = Stored(Moments[now][6] % 100)
      BY <2>1, <2>2 DEF Register
    <2>5. \A n \in 1..6 : n # 3 \/ mode.day24 \/ Moments[now][3] % 12 # 0
                             => Decoded(regs)[n] = Moments[now][n]
      BY <2>3, <2>4, DecodedRight DEF RtcInv
    <2>6. TimeRight'
      BY <1>4, <2>5 DEF RtcInv, Convert, TimeRight
    <2> QED BY <1>4, <2>6 DEF RtcInv, Convert
  <1> QED BY <1>1, <1>2, <1>3, <1>4 DEF ReadStep

\* Nothing else touches the clock or its driver.
LEMMA RtcStays ==
    ASSUME RtcInv, UNCHANGED rtcVars
    PROVE  RtcInv'
PROOF
  <1>1. \A n \in 1..6 : Register(n)' = Register(n)
    BY DEF rtcVars, Register, StoredHour, Stored
  <1>2. TimeRight'
    BY TimeRightStays DEF RtcInv, rtcVars
  <1>3. ASSUME pc = "read" PROVE \E k \in 0..6 : regs' = [n \in 1..k |-> Register(n)']
    <2>1. PICK k \in 0..6 : regs = [n \in 1..k |-> Register(n)]
      BY <1>3 DEF RtcInv
    <2>2. regs' = [n \in 1..k |-> Register(n)']
      BY <1>1, <2>1 DEF rtcVars
    <2> QED BY <2>2
  <1>4. /\ now' = now /\ uip' = uip /\ late' = late /\ mode' = mode
        /\ pc' = pc /\ began' = began
    BY DEF rtcVars
  <1> QED BY <1>2, <1>3, <1>4 DEF RtcInv

\* The static variables of the driver before the first interrupt.
LEMMA RtcInitInv ==
    ASSUME RtcInit
    PROVE  RtcInv
PROOF
  <1>1. Len(Moments) \in Nat /\ Len(Moments) >= 1
    BY RtcAssumption
  <1>2. TimeRight
    BY DEF RtcInit, TimeRight, Known
  <1>3. now = 1 /\ began = 0 /\ pc = "idle" /\ uip = FALSE /\ late = FALSE
    BY DEF RtcInit
  <1>4. mode \in [binary : BOOLEAN, day24 : BOOLEAN]
    BY DEF RtcInit
  <1>5. now \in 1..Len(Moments) /\ began \in 0..Len(Moments)
    BY <1>1, <1>3
  <1> QED BY <1>2, <1>3, <1>4, <1>5 DEF RtcInv

-----------------------------------------------------------------------------
(* Handlers.                                                               *)

\* While nothing but the devices' requests and history changes.
LEMMA HandlersStay ==
    ASSUME HandlersInv, irr' \subseteq {Timer, Keyboard, RtcLine, Disk},
           UNCHANGED <<isr, enabled, frames, irq_routines, pc, halt>>
    PROVE  HandlersInv'
PROOF
  BY DEF HandlersInv, OneHandler, RoutinesRight

\* Devices only add requests, at any time.
LEMMA DevicesKeepHandlers ==
    ASSUME HandlersInv, Devices
    PROVE  HandlersInv'
PROOF
  <1>1. CASE TimerRaises
    BY <1>1, HandlersStay DEF TimerRaises, rtcVars, cpuVars, HandlersInv
  <1>2. CASE DiskRaises
    BY <1>2, HandlersStay DEF DiskRaises, rtcVars, cpuVars, HandlersInv
  <1>3. CASE RtcRaises
    BY <1>3, HandlersStay DEF RtcRaises, rtcVars, cpuVars, HandlersInv
  <1>4. ASSUME NEW c \in Codes, KeyboardSends(c) PROVE HandlersInv'
    BY <1>4, HandlersStay DEF KeyboardSends, rtcVars, cpuVars, HandlersInv
  <1>5. CASE Clock /\ UNCHANGED <<cpuVars, deviceVars>>
    <2>1. pc' = pc
      BY <1>5 DEF Clock, BeginUpdate, EndUpdate
    <2> QED BY <1>5, <2>1, HandlersStay DEF cpuVars, deviceVars, HandlersInv
  <1> QED BY <1>1, <1>2, <1>3, <1>4, <1>5 DEF Devices

\* A handler is entered when none runs.
LEMMA EnterKeepsHandlers ==
    ASSUME HandlersInv, halt = "no", frames = <<>>, NEW line \in Lines,
           frames' = <<[irq |-> line, step |-> "enter"]>>, enabled' = FALSE,
           isr' = InService(line), irr' \subseteq irr, UNCHANGED <<irq_routines, pc, halt>>
    PROVE  HandlersInv'
PROOF
  <1>1. pc = "idle"
    BY DEF HandlersInv
  <1>2. "enter" \in Steps(line)
    BY DEF Steps
  <1>3. OneHandler'
    BY <1>2 DEF OneHandler
  <1>4. RoutinesRight'
    BY DEF HandlersInv, RoutinesRight
  <1> QED BY <1>1, <1>3, <1>4 DEF HandlersInv

\* Interrupts, real and spurious, and int 0x80.
LEMMA EntriesKeepHandlers ==
    ASSUME HandlersInv,
           \/ TakeInterrupt
           \/ \E irq \in Spurious : TakeSpurious(irq)
           \/ \E n \in Numbers : Int80(n)
    PROVE  HandlersInv'
PROOF
  <1>1. CASE TakeInterrupt
    <2>1. frames = <<>> /\ halt = "no"
      BY <1>1 DEF HandlersInv, OneHandler, TakeInterrupt
    <2>2. PICK line \in {Timer, Keyboard, RtcLine, Disk} :
              /\ frames' = <<[irq |-> line, step |-> "enter"]>> /\ enabled' = FALSE
              /\ isr' = InService(line)
      BY <1>1, <2>1, TakenLine
    <2>3. irr' \subseteq irr /\ UNCHANGED <<irq_routines, pc, halt>>
      BY <1>1 DEF TakeInterrupt, rtcVars
    <2>4. line \in Lines
      BY DEF Lines
    <2> QED BY <2>1, <2>2, <2>3, <2>4, EnterKeepsHandlers
  <1>2. ASSUME NEW irq \in Spurious, TakeSpurious(irq) PROVE HandlersInv'
    <2>1. frames = <<>> /\ halt = "no" /\ isr = {}
      BY <1>2 DEF HandlersInv, OneHandler, TakeSpurious
    <2>2. isr' = InService(irq) /\ irq \in Lines
      BY <1>2, <2>1 DEF TakeSpurious, InService, Lines, Spurious, Timer, Keyboard, RtcLine, Disk
    <2>3. frames' = <<[irq |-> irq, step |-> "enter"]>> /\ enabled' = FALSE
      BY <1>2, <2>1 DEF TakeSpurious, Enter
    <2>4. irr' \subseteq irr /\ UNCHANGED <<irq_routines, pc, halt>>
      BY <1>2 DEF TakeSpurious, rtcVars
    <2> QED BY <2>1, <2>2, <2>3, <2>4, EnterKeepsHandlers
  <1>3. ASSUME NEW n \in Numbers, Int80(n) PROVE HandlersInv'
    <2>1. frames = <<>> /\ halt = "no" /\ isr = {}
      BY <1>3 DEF HandlersInv, OneHandler, Int80, AtTask
    <2>2. isr' = isr /\ irr' = irr
      BY <1>3 DEF Int80, deviceVars
    <2>3. isr' = InService(Syscall) /\ Syscall \in Lines
      BY <2>1, <2>2 DEF InService, Lines, Syscall, Timer, Keyboard, RtcLine, Disk
    <2>4. frames' = <<[irq |-> Syscall, step |-> "enter"]>> /\ enabled' = FALSE
      BY <1>3, <2>1 DEF Int80, Enter
    <2>5. UNCHANGED <<irq_routines, pc, halt>>
      BY <1>3 DEF Int80, rtcVars
    <2> QED BY <2>1, <2>2, <2>3, <2>4, <2>5, EnterKeepsHandlers
  <1> QED BY <1>1, <1>2, <1>3

\* What the code outside handlers does: it faults, or changes the table.
LEMMA TaskKeepsHandlers ==
    ASSUME HandlersInv, Exception \/ \E irq \in Removable : Uninstall(irq) \/ Install(irq)
    PROVE  HandlersInv'
PROOF
  <1>1. CASE Exception
    BY <1>1 DEF Exception, AtTask, HandlersInv, OneHandler, RoutinesRight, rtcVars, deviceVars
  <1>2. ASSUME NEW irq \in Removable, Uninstall(irq) \/ Install(irq) PROVE HandlersInv'
    <2>1. irq \in {Keyboard, RtcLine}
      BY InterruptsAssumption
    <2>2. RoutinesRight'
      BY <1>2, <2>1 DEF HandlersInv, RoutinesRight, Uninstall, Install, Lines,
                        Timer, Keyboard, RtcLine, Disk, Syscall, Spurious
    <2>3. UNCHANGED <<isr, irr, enabled, frames, pc, halt>>
      BY <1>2 DEF Uninstall, Install, rtcVars, deviceVars
    <2> QED BY <2>2, <2>3 DEF HandlersInv, OneHandler
  <1> QED BY <1>1, <1>2

\* The one handler that runs.
LEMMA Running ==
    ASSUME HandlersInv, frames # <<>>
    PROVE  \E irq \in Lines : \E step \in Steps(irq) :
              /\ frames = <<[irq |-> irq, step |-> step]>> /\ Inner = [irq |-> irq, step |-> step]
              /\ enabled = FALSE /\ isr = InService(irq)
PROOF
  <1>1. PICK irq \in Lines : \E step \in Steps(irq) :
            frames = <<[irq |-> irq, step |-> step]>> /\ enabled = FALSE /\ isr = InService(irq)
    BY DEF HandlersInv, OneHandler
  <1>2. PICK step \in Steps(irq) :
            frames = <<[irq |-> irq, step |-> step]>> /\ enabled = FALSE /\ isr = InService(irq)
    BY <1>1
  <1>3. Inner = [irq |-> irq, step |-> step]
    BY <1>2 DEF Inner
  <1> QED BY <1>2, <1>3

\* A handler goes on from one of its steps to another.
LEMMA MoveKeepsHandlers ==
    ASSUME HandlersInv, halt = "no", NEW irq \in Lines, NEW s \in Steps(irq), isr = InService(irq),
           enabled = FALSE, frames' = <<[irq |-> irq, step |-> s]>>,
           pc' # "idle" => irq = RtcLine /\ s = "read",
           UNCHANGED <<irr, isr, enabled, irq_routines, halt>>
    PROVE  HandlersInv'
PROOF
  <1>1. OneHandler'
    BY DEF OneHandler
  <1>2. RoutinesRight'
    BY DEF HandlersInv, RoutinesRight
  <1> QED BY <1>1, <1>2 DEF HandlersInv

\* The routine that is called is the one of the handler's line.
LEMMA CalledRunning ==
    ASSUME HandlersInv, NEW r, Called(r)
    PROVE  \E irq \in Lines :
              /\ frames = <<[irq |-> irq, step |-> "enter"]>> /\ Inner = [irq |-> irq, step |-> "enter"]
              /\ enabled = FALSE /\ isr = InService(irq) /\ pc = "idle" /\ halt = "no"
              /\ r = "timer" => irq = Timer
              /\ r = "keyboard" => irq = Keyboard
              /\ r = "rtc" => irq = RtcLine
              /\ r = "syscall" => irq = Syscall
PROOF
  <1>1. halt = "no" /\ frames # <<>> /\ Inner.step = "enter" /\ irq_routines[Inner.irq] = r
    BY DEF Called
  <1>2. PICK irq \in Lines : \E step \in Steps(irq) :
              /\ frames = <<[irq |-> irq, step |-> step]>> /\ Inner = [irq |-> irq, step |-> step]
              /\ enabled = FALSE /\ isr = InService(irq)
    BY <1>1, Running
  <1>3. /\ frames = <<[irq |-> irq, step |-> "enter"]>> /\ Inner = [irq |-> irq, step |-> "enter"]
        /\ irq_routines[irq] = r
    BY <1>1, <1>2
  <1>4. pc = "idle"
    BY <1>3 DEF HandlersInv
  <1>5. /\ r = "timer" => irq = Timer
        /\ r = "keyboard" => irq = Keyboard
        /\ r = "rtc" => irq = RtcLine
        /\ r = "syscall" => irq = Syscall
    BY <1>3 DEF HandlersInv, RoutinesRight, Lines, Timer, Keyboard, RtcLine, Disk, Syscall, Spurious
  <1> QED BY <1>1, <1>2, <1>3, <1>4, <1>5

\* A handler at one of its inner steps.
LEMMA AtRunning ==
    ASSUME HandlersInv, NEW irq, NEW step, At(irq, step)
    PROVE  /\ irq \in Lines /\ step \in Steps(irq) /\ halt = "no"
           /\ frames = <<[irq |-> irq, step |-> step]>> /\ enabled = FALSE /\ isr = InService(irq)
PROOF
  <1>1. halt = "no" /\ frames # <<>> /\ Inner = [irq |-> irq, step |-> step]
    BY DEF At
  <1>2. PICK i \in Lines : \E s \in Steps(i) :
              /\ frames = <<[irq |-> i, step |-> s]>> /\ Inner = [irq |-> i, step |-> s]
              /\ enabled = FALSE /\ isr = InService(i)
    BY <1>1, Running
  <1>3. i = irq /\ \A s \in Steps(i) : Inner = [irq |-> i, step |-> s] => s = step
    BY <1>1, <1>2
  <1> QED BY <1>1, <1>2, <1>3

\* The handlers of the timer, the keyboard and the clock, and of none.
LEMMA RoutinesKeepHandlers ==
    ASSUME HandlersInv,
           NoHandler \/ timer_handler \/ keyboard_handler \/ ReadSecond \/ rtc_handler \/ ReadRtc
    PROVE  HandlersInv'
PROOF
  <1>1. CASE NoHandler \/ timer_handler
    <2>1. PICK r \in {"none", "timer"} : Called(r)
      BY <1>1 DEF NoHandler, timer_handler
    <2>2. PICK irq \in Lines :
              /\ frames = <<[irq |-> irq, step |-> "enter"]>>
              /\ enabled = FALSE /\ isr = InService(irq) /\ pc = "idle" /\ halt = "no"
      BY <2>1, CalledRunning
    <2>3. Goto("eoi") /\ UNCHANGED <<irr, isr, enabled, irq_routines, halt, pc>>
      BY <1>1 DEF NoHandler, timer_handler, rtcVars, deviceVars
    <2>4. frames' = <<[irq |-> irq, step |-> "eoi"]>>
      BY <2>2, <2>3, GotoMoves
    <2>5. "eoi" \in Steps(irq)
      BY StepsOf
    <2> QED BY <2>2, <2>3, <2>4, <2>5, MoveKeepsHandlers
  <1>2. CASE keyboard_handler
    <2>1. /\ frames = <<[irq |-> Keyboard, step |-> "enter"]>> /\ Keyboard \in Lines
          /\ enabled = FALSE /\ isr = InService(Keyboard) /\ pc = "idle" /\ halt = "no"
      BY <1>2, CalledRunning DEF keyboard_handler
    <2>2. (UNCHANGED frames \/ Goto("second")) /\ UNCHANGED <<irr, isr, enabled, irq_routines, halt, pc>>
      BY <1>2 DEF keyboard_handler, rtcVars
    <2>3. PICK s \in {"enter", "second"} : frames' = <<[irq |-> Keyboard, step |-> s]>>
      BY <2>1, <2>2, GotoMoves
    <2>4. s \in Steps(Keyboard)
      BY StepsOf
    <2> QED BY <2>1, <2>2, <2>3, <2>4, MoveKeepsHandlers
  <1>3. CASE ReadSecond
    <2>1. /\ frames = <<[irq |-> Keyboard, step |-> "second"]>> /\ Keyboard \in Lines
          /\ enabled = FALSE /\ isr = InService(Keyboard) /\ halt = "no"
      BY <1>3, AtRunning DEF ReadSecond
    <2>2. pc = "idle"
      BY <2>1 DEF HandlersInv
    <2>3. (Goto("enter") \/ Goto("eoi")) /\ UNCHANGED <<irr, isr, enabled, irq_routines, halt, pc>>
      BY <1>3 DEF ReadSecond, rtcVars
    <2>4. PICK s \in {"enter", "eoi"} : frames' = <<[irq |-> Keyboard, step |-> s]>>
      BY <2>1, <2>3, GotoMoves
    <2>5. s \in Steps(Keyboard)
      BY StepsOf
    <2> QED BY <2>1, <2>2, <2>3, <2>4, <2>5, MoveKeepsHandlers
  <1>4. CASE rtc_handler
    <2>1. /\ frames = <<[irq |-> RtcLine, step |-> "enter"]>> /\ RtcLine \in Lines
          /\ enabled = FALSE /\ isr = InService(RtcLine) /\ halt = "no"
      BY <1>4, CalledRunning DEF rtc_handler
    <2>2. Goto("read") /\ UNCHANGED <<irr, isr, enabled, irq_routines, halt>>
      BY <1>4 DEF rtc_handler
    <2>3. frames' = <<[irq |-> RtcLine, step |-> "read"]>>
      BY <2>1, <2>2, GotoMoves
    <2>4. "read" \in Steps(RtcLine)
      BY StepsOf
    <2> QED BY <2>1, <2>2, <2>3, <2>4, MoveKeepsHandlers
  <1>5. CASE ReadRtc
    <2>1. /\ frames = <<[irq |-> RtcLine, step |-> "read"]>> /\ RtcLine \in Lines
          /\ enabled = FALSE /\ isr = InService(RtcLine) /\ halt = "no"
      BY <1>5, AtRunning DEF ReadRtc
    <2>2. /\ IF pc' = "idle" THEN Goto("eoi") ELSE UNCHANGED frames
          /\ UNCHANGED <<irr, isr, enabled, irq_routines, halt>>
      BY <1>5 DEF ReadRtc, deviceVars
    <2>3. PICK s \in {"read", "eoi"} : frames' = <<[irq |-> RtcLine, step |-> s]>> /\ (pc' # "idle" => s = "read")
      BY <2>1, <2>2, GotoMoves
    <2>4. s \in Steps(RtcLine)
      BY StepsOf
    <2> QED BY <2>1, <2>2, <2>3, <2>4, MoveKeepsHandlers
  <1> QED BY <1>1, <1>2, <1>3, <1>4, <1>5

\* System calls, and the return from every handler.
LEMMA ReturnsKeepHandlers ==
    ASSUME HandlersInv, syscall_handler \/ SysTime \/ Return
    PROVE  HandlersInv'
PROOF
  <1>1. CASE syscall_handler
    <2>1. /\ frames = <<[irq |-> Syscall, step |-> "enter"]>> /\ Syscall \in Lines
          /\ enabled = FALSE /\ isr = InService(Syscall) /\ pc = "idle" /\ halt = "no"
      BY <1>1, CalledRunning DEF syscall_handler
    <2>2. UNCHANGED <<irr, isr, enabled, irq_routines, pc>>
      BY <1>1 DEF syscall_handler, rtcVars, deviceVars
    <2>3. CASE halt' = "panic" /\ UNCHANGED frames
      BY <2>1, <2>2, <2>3 DEF HandlersInv, OneHandler, RoutinesRight
    <2>4. CASE UNCHANGED halt /\ (Goto("eoi") \/ Goto("time"))
      <3>1. PICK s \in {"eoi", "time"} : frames' = <<[irq |-> Syscall, step |-> s]>>
        BY <2>1, <2>4, GotoMoves
      <3>2. s \in Steps(Syscall)
        BY StepsOf
      <3> QED BY <2>1, <2>2, <2>4, <3>1, <3>2, MoveKeepsHandlers
    <2> QED BY <1>1, <2>3, <2>4 DEF syscall_handler
  <1>2. CASE SysTime
    <2>1. /\ frames = <<[irq |-> Syscall, step |-> "time"]>> /\ Syscall \in Lines
          /\ enabled = FALSE /\ isr = InService(Syscall) /\ halt = "no"
      BY <1>2, AtRunning DEF SysTime
    <2>2. pc = "idle"
      BY <2>1 DEF HandlersInv
    <2>3. /\ UNCHANGED frames \/ Goto("eoi")
          /\ UNCHANGED <<irr, isr, enabled, irq_routines, halt, pc>>
      BY <1>2 DEF SysTime, rtcVars, deviceVars
    <2>4. PICK s \in {"time", "eoi"} : frames' = <<[irq |-> Syscall, step |-> s]>>
      BY <2>1, <2>3, GotoMoves
    <2>5. s \in Steps(Syscall)
      BY StepsOf
    <2> QED BY <2>1, <2>2, <2>3, <2>4, <2>5, MoveKeepsHandlers
  <1>3. CASE Return
    <2>1. halt = "no" /\ frames # <<>> /\ Inner.step = "eoi"
      BY <1>3 DEF Return
    <2>2. PICK irq \in Lines : \E step \in Steps(irq) :
              /\ frames = <<[irq |-> irq, step |-> step]>> /\ Inner = [irq |-> irq, step |-> step]
              /\ enabled = FALSE /\ isr = InService(irq)
      BY <2>1, Running
    <2>3. frames = <<[irq |-> irq, step |-> "eoi"]>>
      BY <2>1, <2>2
    <2>4. isr' = {}
      BY <1>3, <2>2, EoiEnds DEF Return
    <2>5. frames' = <<>> /\ enabled' = TRUE
      BY <1>3, <2>2 DEF Return
    <2>6. pc = "idle"
      BY <2>3 DEF HandlersInv
    <2>7. UNCHANGED <<irr, irq_routines, halt, pc>>
      BY <1>3 DEF Return, rtcVars
    <2> QED BY <2>1, <2>4, <2>5, <2>6, <2>7 DEF HandlersInv, OneHandler, RoutinesRight
  <1> QED BY <1>1, <1>2, <1>3

\* Every step keeps the handlers apart.
LEMMA NextKeepsHandlers ==
    ASSUME HandlersInv, [Next]_vars
    PROVE  HandlersInv'
PROOF
  <1>1. CASE UNCHANGED vars
    BY <1>1, HandlersStay DEF vars, rtcVars, cpuVars, deviceVars, HandlersInv
  <1>2. CASE Next
    BY <1>2, DevicesKeepHandlers, EntriesKeepHandlers, TaskKeepsHandlers, RoutinesKeepHandlers,
       ReturnsKeepHandlers DEF Next, Processor
  <1> QED BY <1>1, <1>2

\* A step is one of the clock or of read_rtc, or touches neither.
LEMMA RtcSteps ==
    ASSUME [Next]_vars
    PROVE  Clock \/ StartRead \/ ReadStep \/ UNCHANGED rtcVars
PROOF
  <1> USE DEF rtcVars
  <1>1. CASE UNCHANGED vars
    BY <1>1 DEF vars
  <1>2. CASE Devices
    BY <1>2 DEF Devices, TimerRaises, DiskRaises, RtcRaises, KeyboardSends
  <1>3. CASE TakeInterrupt \/ NoHandler \/ timer_handler \/ keyboard_handler \/ ReadSecond
    BY <1>3 DEF TakeInterrupt, NoHandler, timer_handler, keyboard_handler, ReadSecond
  <1>4. CASE rtc_handler \/ ReadRtc
    BY <1>4 DEF rtc_handler, ReadRtc
  <1>5. CASE syscall_handler \/ SysTime \/ Return \/ Exception
    BY <1>5 DEF syscall_handler, SysTime, Return, Exception
  <1>6. CASE \E irq \in Spurious : TakeSpurious(irq)
    BY <1>6 DEF TakeSpurious
  <1>7. CASE \E n \in Numbers : Int80(n)
    BY <1>7 DEF Int80
  <1>8. CASE \E irq \in Removable : Uninstall(irq) \/ Install(irq)
    BY <1>8 DEF Uninstall, Install
  <1> QED BY <1>1, <1>2, <1>3, <1>4, <1>5, <1>6, <1>7, <1>8 DEF Next, Processor

\* When kernel_main executes sti no handler runs.
LEMMA HandlersInitially ==
    ASSUME Init
    PROVE  HandlersInv
PROOF
  BY DEF Init, RtcInit, HandlersInv, OneHandler, RoutinesRight, Lines, Timer, Keyboard, RtcLine,
         Disk, Syscall, Spurious

\* Whenever no handler runs, every interrupt has been acknowledged: irq_handler's one,
\* two or no writes to the controllers match what the entry put in service.
THEOREM AcknowledgedHolds == Spec => []Acknowledged
PROOF
  <1>1. Init => HandlersInv
    BY HandlersInitially
  <1>2. HandlersInv /\ [Next]_vars => HandlersInv'
    BY NextKeepsHandlers
  <1>3. HandlersInv => Acknowledged
    BY DEF HandlersInv, OneHandler, Acknowledged
  <1> QED BY <1>1, <1>2, <1>3, PTL DEF Spec

\* read_rtc's six values are those of one moment, in every format of the clock and
\* wherever an update comes.
THEOREM TimeRightHolds == Spec => []TimeRight
PROOF
  <1>1. Init => RtcInv
    BY RtcInitInv DEF Init
  <1>2. RtcInv /\ [Next]_vars => RtcInv'
    BY RtcSteps, ClockKeepsRtcInv, DriverKeepsRtcInv, RtcStays
  <1>3. RtcInv => TimeRight
    BY DEF RtcInv
  <1> QED BY <1>1, <1>2, <1>3, PTL DEF Spec

-----------------------------------------------------------------------------
(* sys_time.                                                               *)

\* What sys_time has read are the first of the six values as they are now, and only
\* a system call has read any.
SampledInv ==
    \E k \in 0..6 :
        /\ sampled = [n \in 1..k |-> time[7 - n]]
        /\ k # 0 => frames \in {<<[irq |-> Syscall, step |-> "time"]>>, <<[irq |-> Syscall, step |-> "eoi"]>>}
        /\ frames = <<[irq |-> Syscall, step |-> "time"]>> => k < 6

\* While neither a system call nor the conversion of the time goes on.
LEMMA SampledStays ==
    ASSUME SampledInv, UNCHANGED <<sampled, time, frames>>
    PROVE  SampledInv'
PROOF
  BY DEF SampledInv

\* No other handler runs while values are read.
LEMMA SampledEmpty ==
    ASSUME SampledInv,
           frames \notin {<<[irq |-> Syscall, step |-> "time"]>>, <<[irq |-> Syscall, step |-> "eoi"]>>}
    PROVE  sampled = <<>>
PROOF
  <1>1. PICK k \in 0..6 : sampled = [n \in 1..k |-> time[7 - n]] /\ k = 0
    BY DEF SampledInv
  <1> QED BY <1>1

\* A handler begins with nothing read.
LEMMA SampledBegins ==
    ASSUME sampled' = <<>>
    PROVE  SampledInv'
PROOF
  <1>1. sampled' = [n \in 1..0 |-> time'[7 - n]]
    OBVIOUS
  <1>2. 0 \in 0..6 /\ ~ (0 # 0) /\ 0 < 6
    OBVIOUS
  <1> QED BY <1>1, <1>2 DEF SampledInv

\* Only sys_time and the return from a system call change what it has read, and
\* a system call keeps the clock's driver from running.
LEMMA NextKeepsSampled ==
    ASSUME HandlersInv, SampledInv, [Next]_vars
    PROVE  SampledInv'
PROOF
  <1>1. CASE UNCHANGED vars
    BY <1>1, SampledStays DEF vars, rtcVars, cpuVars
  <1>2. CASE Devices
    BY <1>2, SampledStays DEF Devices, TimerRaises, DiskRaises, RtcRaises, KeyboardSends, Clock,
       BeginUpdate, EndUpdate, rtcVars, cpuVars
  <1>3. CASE TakeInterrupt \/ (\E irq \in Spurious : TakeSpurious(irq)) \/ \E n \in Numbers : Int80(n)
    <2>1. frames = <<>>
      BY <1>3 DEF TakeInterrupt, TakeSpurious, Int80, AtTask, HandlersInv, OneHandler
    <2>2. sampled = <<>>
      BY <2>1, SampledEmpty
    <2>3. sampled' = sampled
      BY <1>3 DEF TakeInterrupt, TakeSpurious, Int80
    <2> QED BY <2>2, <2>3, SampledBegins
  <1>4. CASE \/ NoHandler \/ timer_handler \/ keyboard_handler \/ rtc_handler \/ syscall_handler
    <2>1. PICK r : Called(r)
      BY <1>4 DEF NoHandler, timer_handler, keyboard_handler, rtc_handler, syscall_handler
    <2>2. PICK irq \in Lines : frames = <<[irq |-> irq, step |-> "enter"]>>
      BY <2>1, CalledRunning
    <2>3. sampled = <<>>
      BY <2>2, SampledEmpty
    <2>4. sampled' = sampled
      BY <1>4 DEF NoHandler, timer_handler, keyboard_handler, rtc_handler, syscall_handler
    <2> QED BY <2>3, <2>4, SampledBegins
  <1>5. CASE ReadSecond \/ ReadRtc
    <2>1. At(Keyboard, "second") \/ At(RtcLine, "read")
      BY <1>5 DEF ReadSecond, ReadRtc
    <2>2. frames = <<[irq |-> Keyboard, step |-> "second"]>> \/ frames = <<[irq |-> RtcLine, step |-> "read"]>>
      BY <2>1, AtRunning
    <2>3. sampled = <<>>
      BY <2>2, SampledEmpty
    <2>4. sampled' = sampled
      BY <1>5 DEF ReadSecond, ReadRtc
    <2> QED BY <2>3, <2>4, SampledBegins
  <1>6. CASE SysTime
    <2>1. frames = <<[irq |-> Syscall, step |-> "time"]>>
      BY <1>6, AtRunning DEF SysTime
    <2>2. PICK k \in 0..6 : sampled = [n \in 1..k |-> time[7 - n]] /\ k < 6
      BY <2>1 DEF SampledInv
    <2>3. sampled \in Seq({time[7 - n] : n \in 1..6}) /\ Len(sampled) = k
      BY <2>2
    <2>4. time' = time
      BY <1>6 DEF SysTime, rtcVars
    <2>5. sampled' = [n \in 1..(k + 1) |-> time'[7 - n]] /\ Len(sampled') = k + 1
      BY <1>6, <2>2, <2>3, <2>4 DEF SysTime, Getter
    <2>6. k + 1 \in 0..6
      BY <2>2
    <2>7. CASE k + 1 = 6
      <3>1. frames' = <<[irq |-> Syscall, step |-> "eoi"]>>
        BY <1>6, <2>1, <2>5, <2>7, GotoMoves DEF SysTime
      <3> QED BY <2>5, <2>6, <3>1 DEF SampledInv
    <2>8. CASE k + 1 # 6
      <3>1. frames' = frames
        BY <1>6, <2>5, <2>8 DEF SysTime
      <3>2. k + 1 < 6
        BY <2>6, <2>8
      <3> QED BY <2>1, <2>5, <2>6, <3>1, <3>2 DEF SampledInv
    <2> QED BY <2>7, <2>8
  <1>7. CASE Return
    <2>1. CASE Inner.irq = Syscall
      BY <1>7, <2>1, SampledBegins DEF Return
    <2>2. CASE Inner.irq # Syscall
      <3>1. frames # <<>>
        BY <1>7 DEF Return
      <3>2. PICK irq \in Lines : \E step \in Steps(irq) :
                frames = <<[irq |-> irq, step |-> step]>> /\ Inner = [irq |-> irq, step |-> step]
        BY <3>1, Running
      <3>3. irq # Syscall
        BY <2>2, <3>2
      <3>4. sampled = <<>>
        BY <3>2, <3>3, SampledEmpty
      <3>5. sampled' = sampled
        BY <1>7, <2>2 DEF Return
      <3> QED BY <3>4, <3>5, SampledBegins
    <2> QED BY <2>1, <2>2
  <1>8. CASE Exception \/ \E irq \in Removable : Uninstall(irq) \/ Install(irq)
    BY <1>8, SampledStays DEF Exception, Uninstall, Install, rtcVars
  <1> QED BY <1>1, <1>2, <1>3, <1>4, <1>5, <1>6, <1>7, <1>8 DEF Next, Processor

\* The six values sys_time returns are those of one moment: no interrupt, and so
\* no conversion by read_rtc, comes between its reads.
THEOREM SysTimeWholeHolds == Spec => []SysTimeWhole
PROOF
  <1> DEFINE Inv == HandlersInv /\ SampledInv
  <1>1. Init => Inv
    <2> SUFFICES ASSUME Init PROVE Inv
      OBVIOUS
    <2>1. HandlersInv
      BY HandlersInitially
    <2>2. sampled = [n \in 1..0 |-> time[7 - n]] /\ frames = <<>>
      BY DEF Init
    <2> QED BY <2>1, <2>2 DEF SampledInv
  <1>2. Inv /\ [Next]_vars => Inv'
    BY NextKeepsHandlers, NextKeepsSampled
  <1>3. Inv => SysTimeWhole
    <2> SUFFICES ASSUME SampledInv, Len(sampled) = 6 PROVE sampled = [n \in 1..6 |-> time[7 - n]]
      BY DEF SysTimeWhole
    <2>1. PICK k \in 0..6 : sampled = [n \in 1..k |-> time[7 - n]]
      BY DEF SampledInv
    <2>2. k = 6
      BY <2>1
    <2> QED BY <2>1, <2>2
  <1> QED BY <1>1, <1>2, <1>3, PTL DEF Spec

-----------------------------------------------------------------------------
(* The keyboard.                                                           *)

AtEnter == frames = <<[irq |-> Keyboard, step |-> "enter"]>>
AtSecond == frames = <<[irq |-> Keyboard, step |-> "second"]>>
ReadCodes == SubSeq(sent, 1, Len(sent) - (IF full \/ AtSecond THEN 1 ELSE 0))

\* As long as no code came while the handler was still reading: a request of the
\* keyboard stands for the one code that is unread, and that is what the port holds
\* until the handler's second read.
OneCodeAtATime ==
    /\ Keyboard \in irr => full
    /\ AtEnter \/ AtSecond => Keyboard \notin irr
    /\ AtEnter => full \/ port60 = 0
    /\ AtSecond => ~ full /\ sent # <<>> /\ port60 = sent[Len(sent)] /\ port60 # 0
    /\ ShowsPresses(shown, ReadCodes)

Chars == {keyboard_table_uk[c] : c \in 0..127}

KeysInv ==
    /\ sent \in Seq(0..255) /\ shown \in Seq(Chars)
    /\ port60 \in 0..255 /\ full \in BOOLEAN /\ overtaken \in BOOLEAN
    /\ full => sent # <<>> /\ port60 = sent[Len(sent)]
    /\ ~ overtaken => OneCodeAtATime

\* One more code, at the end.
LEMMA AppendedCode ==
    ASSUME NEW codes \in Seq(0..255), NEW c \in 0..255
    PROVE  /\ Len(codes) \in Nat /\ DOMAIN codes = 1..Len(codes)
           /\ DOMAIN Append(codes, c) = 1..(Len(codes) + 1)
           /\ Append(codes, c)[Len(codes) + 1] = c
           /\ \A n \in 1..Len(codes) : Append(codes, c)[n] = codes[n]
PROOF
  OBVIOUS

Presses(codes) == {n \in DOMAIN codes : codes[n] \in 1..127}

\* The presses among one more code.
LEMMA PressesAppended ==
    ASSUME NEW L \in Nat, NEW a, NEW b, DOMAIN a = 1..L, DOMAIN b = 1..(L + 1),
           \A n \in 1..L : b[n] = a[n]
    PROVE  /\ Presses(a) \subseteq 1..L
           /\ b[L + 1] \in 1..127 => Presses(b) = Presses(a) \cup {L + 1}
           /\ b[L + 1] \notin 1..127 => Presses(b) = Presses(a)
PROOF
  <1>1. Presses(a) \subseteq 1..L
    BY DEF Presses
  <1>2. ASSUME NEW n \in Presses(a) PROVE n \in Presses(b)
    BY DEF Presses
  <1>3. ASSUME NEW n \in Presses(b) PROVE n = L + 1 \/ n \in Presses(a)
    <2>1. n \in 1..(L + 1) /\ b[n] \in 1..127
      BY DEF Presses
    <2>2. n = L + 1 \/ n \in 1..L
      BY <2>1
    <2>3. n \in 1..L => a[n] = b[n]
      OBVIOUS
    <2> QED BY <2>1, <2>2, <2>3 DEF Presses
  <1>4. L + 1 \in Presses(b) <=> b[L + 1] \in 1..127
    BY DEF Presses
  <1>5. ASSUME b[L + 1] \notin 1..127 PROVE Presses(b) = Presses(a)
    <2>1. L + 1 \notin Presses(b)
      BY <1>4, <1>5
    <2>2. \A n \in Presses(b) : n \in Presses(a)
      BY <1>3, <2>1
    <2> QED BY <1>2, <2>2
  <1>6. b[L + 1] \in 1..127 => Presses(b) = Presses(a) \cup {L + 1}
    BY <1>2, <1>3, <1>4
  <1> QED BY <1>1, <1>5, <1>6

\* A code that is no press is read: nothing is to be shown for it.
LEMMA ReleaseRead ==
    ASSUME NEW chars, NEW L \in Nat, NEW a, NEW b, DOMAIN a = 1..L, DOMAIN b = 1..(L + 1),
           \A n \in 1..L : b[n] = a[n], b[L + 1] \notin 1..127, ShowsPresses(chars, a)
    PROVE  ShowsPresses(chars, b)
PROOF
  <1>1. PICK key \in [DOMAIN chars -> Presses(a)] :
          /\ \A i, j \in DOMAIN chars : i < j => key[i] < key[j]
          /\ \A n \in Presses(a) : \E i \in DOMAIN chars : key[i] = n
          /\ \A i \in DOMAIN chars : chars[i] = keyboard_table_uk[a[key[i]]]
    BY DEF ShowsPresses, Presses
  <1>2. Presses(b) = Presses(a) /\ \A n \in Presses(a) : b[n] = a[n]
    <2>1. Presses(b) = Presses(a) /\ Presses(a) \subseteq 1..L
      BY PressesAppended
    <2> QED BY <2>1
  <1>3. \A i \in DOMAIN chars : chars[i] = keyboard_table_uk[b[key[i]]]
    BY <1>1, <1>2
  <1>4. /\ key \in [DOMAIN chars -> Presses(b)]
        /\ \A n \in Presses(b) : \E i \in DOMAIN chars : key[i] = n
    BY <1>1, <1>2
  <1>5. \A i, j \in DOMAIN chars : i < j => key[i] < key[j]
    BY <1>1
  <1> QED BY <1>3, <1>4, <1>5 DEF ShowsPresses, Presses

\* A press is read, and its character is the next one shown.
LEMMA PressRead ==
    ASSUME NEW X, NEW chars \in Seq(X), NEW codes \in Seq(0..255), NEW c \in 1..127,
           keyboard_table_uk[c] \in X, ShowsPresses(chars, codes)
    PROVE  ShowsPresses(Append(chars, keyboard_table_uk[c]), Append(codes, c))
PROOF
  <1> DEFINE chars2 == Append(chars, keyboard_table_uk[c])
             codes2 == Append(codes, c)
             presses == Presses(codes)
             presses2 == Presses(codes2)
             last == Len(codes) + 1
             end == Len(chars) + 1
  <1>1. PICK key \in [DOMAIN chars -> presses] :
          /\ \A i, j \in DOMAIN chars : i < j => key[i] < key[j]
          /\ \A n \in presses : \E i \in DOMAIN chars : key[i] = n
          /\ \A i \in DOMAIN chars : chars[i] = keyboard_table_uk[codes[key[i]]]
    BY DEF ShowsPresses, Presses
  <1>2. presses2 = presses \cup {last} /\ presses \subseteq 1..Len(codes)
    <2>1. /\ Len(codes) \in Nat /\ DOMAIN codes = 1..Len(codes) /\ DOMAIN codes2 = 1..(Len(codes) + 1)
          /\ codes2[Len(codes) + 1] = c /\ \A n \in 1..Len(codes) : codes2[n] = codes[n]
      BY AppendedCode
    <2> HIDE DEF codes2
    <2> QED BY <2>1, PressesAppended
  <1>3. /\ DOMAIN chars = 1..Len(chars) /\ DOMAIN chars2 = 1..end /\ end \in Nat /\ last \in Nat
        /\ DOMAIN chars2 = DOMAIN chars \cup {end} /\ end \notin DOMAIN chars
    OBVIOUS
  <1>4. /\ chars2[end] = keyboard_table_uk[c] /\ codes2[last] = c
        /\ \A i \in DOMAIN chars : chars2[i] = chars[i]
        /\ \A n \in presses : codes2[n] = codes[n] /\ n < last
    <2> HIDE DEF presses
    <2> QED BY <1>2
  <1> HIDE DEF chars2, codes2, presses, presses2, last, end
  <1> DEFINE key2 == [i \in DOMAIN chars2 |-> IF i = end THEN last ELSE key[i]]
  <1>5. /\ key2[end] = last /\ \A i \in DOMAIN chars : key2[i] = key[i] /\ key[i] \in presses
    BY <1>1, <1>3
  <1>6. key2 \in [DOMAIN chars2 -> presses2]
    BY <1>1, <1>2, <1>3
  <1> HIDE DEF key2
  <1>7. ASSUME NEW i \in DOMAIN chars2, NEW j \in DOMAIN chars2, i < j PROVE key2[i] < key2[j]
    <2>1. i \in DOMAIN chars
      BY <1>3, <1>7 DEF end
    <2>2. CASE j = end
      BY <1>4, <1>5, <2>1, <2>2
    <2>3. CASE j \in DOMAIN chars
      BY <1>1, <1>5, <1>7, <2>1, <2>3
    <2> QED BY <1>3, <2>2, <2>3
  <1>8. ASSUME NEW n \in presses2 PROVE \E i \in DOMAIN chars2 : key2[i] = n
    BY <1>1, <1>2, <1>3, <1>5
  <1>9. ASSUME NEW i \in DOMAIN chars2 PROVE chars2[i] = keyboard_table_uk[codes2[key2[i]]]
    <2>1. CASE i = end
      BY <1>4, <1>5, <2>1
    <2>2. CASE i \in DOMAIN chars
      BY <1>1, <1>4, <1>5, <2>2
    <2> QED BY <1>3, <2>1, <2>2
  <1>10. ShowsPresses(chars2, codes2)
    BY <1>6, <1>7, <1>8, <1>9 DEF ShowsPresses, presses2, Presses
  <1> QED BY <1>10 DEF chars2, codes2

\* The codes but for the last one.
LEMMA ButLast ==
    ASSUME NEW S, NEW codes \in Seq(S), codes # <<>>
    PROVE  \E L \in Nat :
              /\ Len(codes) = L + 1 /\ DOMAIN codes = 1..(L + 1)
              /\ SubSeq(codes, 1, Len(codes) - 1) \in Seq(S)
              /\ DOMAIN SubSeq(codes, 1, Len(codes) - 1) = 1..L
              /\ \A n \in 1..L : codes[n] = SubSeq(codes, 1, Len(codes) - 1)[n]
PROOF
  <1>1. Len(codes) \in Nat \ {0}
    BY EmptySeq
  <1>2. PICK L \in Nat : Len(codes) = L + 1
    <2>1. \A N \in Nat \ {0} : \E L \in Nat : N = L + 1
      <3>1. \A N \in Nat \ {0} : N - 1 \in Nat /\ N = (N - 1) + 1
        OBVIOUS
      <3> QED BY <3>1
    <2> QED BY <1>1, <2>1
  <1>3. DOMAIN codes = 1..(L + 1) /\ Len(codes) - 1 = L
    BY <1>2
  <1>4. SubSeq(codes, 1, L) \in Seq(S) /\ Len(SubSeq(codes, 1, L)) = L
    <2>1. \A i \in 1..L : codes[i] \in S
      BY <1>2
    <2>2. SubSeq(codes, 1, L) \in Seq(S)
      BY <2>1, SubSeqProperties
    <2>3. Len(SubSeq(codes, 1, L)) = L
      BY <1>2
    <2> QED BY <2>2, <2>3
  <1>5. DOMAIN SubSeq(codes, 1, L) = 1..L
    BY <1>4
  <1>6. \A n \in 1..L : codes[n] = SubSeq(codes, 1, L)[n]
    BY <1>2
  <1> QED BY <1>2, <1>3, <1>4, <1>5, <1>6

\* What remains read when nothing is unread, and when a code has just come.
LEMMA AllRead ==
    ASSUME NEW codes \in Seq(0..255), NEW c \in 0..255
    PROVE  /\ SubSeq(codes, 1, Len(codes) - 0) = codes
           /\ SubSeq(Append(codes, c), 1, Len(Append(codes, c)) - 1) = codes
PROOF
  <1>1. Len(codes) \in Nat /\ Len(Append(codes, c)) - 1 = Len(codes)
    OBVIOUS
  <1>2. SubSeq(codes, 1, Len(codes)) = codes
    OBVIOUS
  <1>3. SubSeq(Append(codes, c), 1, Len(codes)) = codes
    OBVIOUS
  <1> QED BY <1>1, <1>2, <1>3

\* Handlers of other lines, and the keyboard's own beginning and end.
LEMMA KeysStay ==
    ASSUME KeysInv, UNCHANGED <<sent, shown, port60, full, overtaken>>,
           Keyboard \in irr' => Keyboard \in irr,
           AtSecond' <=> AtSecond, AtEnter' => AtEnter
    PROVE  KeysInv'
PROOF
  <1>1. ReadCodes' = ReadCodes
    BY DEF ReadCodes
  <1>2. ShowsPresses(shown, ReadCodes) => ShowsPresses(shown, ReadCodes)'
    BY <1>1 DEF ShowsPresses
  <1>3. OneCodeAtATime => OneCodeAtATime'
    BY <1>2 DEF OneCodeAtATime
  <1> QED BY <1>3 DEF KeysInv

\* The keyboard sends its next code.
LEMMA SendKeepsKeys ==
    ASSUME HandlersInv, KeysInv, NEW c \in Codes, KeyboardSends(c)
    PROVE  KeysInv'
PROOF
  <1>1. c \in 0..255
    BY InterruptsAssumption
  <1>2. /\ port60' = c /\ full = FALSE /\ full' = TRUE /\ sent' = Append(sent, c)
        /\ irr' = irr \cup {Keyboard} /\ shown' = shown /\ frames' = frames
        /\ overtaken' = (overtaken \/ At(Keyboard, "enter") \/ At(Keyboard, "second"))
    BY DEF KeyboardSends, cpuVars, KeysInv
  <1>3. sent' \in Seq(0..255) /\ sent' # <<>> /\ sent'[Len(sent')] = c
    BY <1>1, <1>2 DEF KeysInv
  <1>4. ASSUME ~ overtaken' PROVE OneCodeAtATime'
    <2>1. ~ overtaken /\ ~ At(Keyboard, "enter") /\ ~ At(Keyboard, "second")
      BY <1>2, <1>4
    <2>2. AtEnter => At(Keyboard, "enter")
      BY DEF AtEnter, At, Inner, HandlersInv, Keyboard, Syscall
    <2>3. AtSecond => At(Keyboard, "second")
      BY DEF AtSecond, At, Inner, HandlersInv
    <2>4. ~ AtEnter' /\ ~ AtSecond' /\ ~ AtSecond
      BY <1>2, <2>1, <2>2, <2>3 DEF AtEnter, AtSecond
    <2>5. ReadCodes = sent /\ ReadCodes' = sent
      BY <1>1, <1>2, <2>4, AllRead DEF ReadCodes, KeysInv
    <2>6. ShowsPresses(shown, sent)
      BY <2>1, <2>5 DEF KeysInv, OneCodeAtATime
    <2>7. ShowsPresses(shown, ReadCodes)'
      BY <1>2, <2>5, <2>6 DEF ShowsPresses
    <2> QED BY <1>2, <2>4, <2>7 DEF OneCodeAtATime
  <1>5. overtaken' \in BOOLEAN
    BY <1>2 DEF KeysInv, At
  <1> QED BY <1>1, <1>2, <1>3, <1>4, <1>5 DEF KeysInv

\* keyboard_handler's first read: the code is still unread after it, unless it is 0.
LEMMA FirstReadKeepsKeys ==
    ASSUME HandlersInv, KeysInv, keyboard_handler
    PROVE  KeysInv'
PROOF
  <1>1. AtEnter /\ ~ AtSecond
    <2>1. Called("keyboard")
      BY DEF keyboard_handler
    <2>2. frames = <<[irq |-> Keyboard, step |-> "enter"]>>
      BY <2>1, CalledRunning
    <2> QED BY <2>2 DEF AtEnter, AtSecond
  <1>2. /\ full' = FALSE /\ UNCHANGED <<sent, shown, port60, overtaken, irr>>
        /\ IF port60 = 0 THEN UNCHANGED frames ELSE Goto("second")
    BY DEF keyboard_handler
  <1>3. ASSUME ~ overtaken PROVE OneCodeAtATime'
    <2>1. OneCodeAtATime /\ Keyboard \notin irr /\ (full \/ port60 = 0) /\ ShowsPresses(shown, ReadCodes)
      BY <1>1, <1>3 DEF KeysInv, OneCodeAtATime
    <2>2. CASE port60 # 0
      <3>1. AtSecond' /\ ~ AtEnter'
        BY <1>1, <1>2, <2>2, GotoMoves DEF AtEnter, AtSecond
      <3>2. full /\ sent # <<>> /\ port60 = sent[Len(sent)]
        BY <2>1, <2>2 DEF KeysInv
      <3>3. ReadCodes' = ReadCodes
        BY <1>2, <3>1, <3>2 DEF ReadCodes
      <3>4. ShowsPresses(shown, ReadCodes)'
        BY <1>2, <2>1, <3>3 DEF ShowsPresses
      <3> QED BY <1>2, <2>1, <2>2, <3>1, <3>2, <3>4 DEF OneCodeAtATime
    <2>3. CASE port60 = 0
      <3>1. AtEnter' /\ ~ AtSecond'
        BY <1>1, <1>2, <2>3 DEF AtEnter, AtSecond
      <3>2. ReadCodes' = sent
        BY <1>2, <3>1, AllRead DEF ReadCodes, KeysInv
      <3>3. ShowsPresses(shown, sent)
        <4>1. CASE ~ full
          <5>1. ReadCodes = sent
            BY <1>1, <4>1, AllRead DEF ReadCodes, KeysInv
          <5> QED BY <2>1, <5>1
        <4>2. CASE full
          <5>1. ReadCodes = SubSeq(sent, 1, Len(sent) - 1) /\ sent # <<>> /\ sent \in Seq(0..255)
            BY <4>2 DEF ReadCodes, KeysInv
          <5>2. PICK L \in Nat :
                  /\ Len(sent) = L + 1 /\ DOMAIN sent = 1..(L + 1)
                  /\ DOMAIN ReadCodes = 1..L /\ \A n \in 1..L : sent[n] = ReadCodes[n]
            BY <5>1, ButLast
          <5>3. sent[L + 1] = 0
            BY <2>3, <4>2, <5>2 DEF KeysInv
          <5>4. sent[L + 1] \notin 1..127
            BY <5>3
          <5> QED BY <2>1, <5>2, <5>4, ReleaseRead
        <4> QED BY <4>1, <4>2 DEF KeysInv
      <3>4. ShowsPresses(shown, ReadCodes)'
        BY <1>2, <3>2, <3>3 DEF ShowsPresses
      <3> QED BY <1>2, <2>1, <2>3, <3>1, <3>4 DEF OneCodeAtATime
    <2> QED BY <2>2, <2>3
  <1> QED BY <1>2, <1>3 DEF KeysInv

\* Every press has its character in the table.
LEMMA TableChars ==
    ASSUME NEW c \in 0..255, c < 128
    PROVE  keyboard_table_uk[c] \in Chars
PROOF
  <1>1. c \in 0..127
    OBVIOUS
  <1> QED BY <1>1 DEF Chars

\* The second read: the same code again, which is shown if it is a press.
LEMMA SecondReadKeepsKeys ==
    ASSUME HandlersInv, KeysInv, ReadSecond
    PROVE  KeysInv'
PROOF
  <1>1. AtSecond /\ ~ AtEnter
    <2>1. At(Keyboard, "second")
      BY DEF ReadSecond
    <2>2. frames = <<[irq |-> Keyboard, step |-> "second"]>>
      BY <2>1, AtRunning
    <2> QED BY <2>2 DEF AtEnter, AtSecond
  <1>2. /\ full' = FALSE /\ UNCHANGED <<sent, port60, overtaken, irr>>
        /\ IF port60 = 0 THEN Goto("enter") /\ UNCHANGED shown
           ELSE Goto("eoi") /\ shown' = Shown(port60)
    BY DEF ReadSecond
  <1>3. shown \in Seq(Chars) /\ port60 \in 0..255 /\ sent \in Seq(0..255)
    BY DEF KeysInv
  <1>4. shown' \in Seq(Chars)
    <2>1. CASE shown' = shown
      BY <1>3, <2>1
    <2>2. CASE port60 < 128 /\ shown' = Append(shown, keyboard_table_uk[port60])
      <3>1. keyboard_table_uk[port60] \in Chars
        BY <1>3, <2>2, TableChars
      <3> QED BY <1>3, <2>2, <3>1, AppendProperties
    <2> QED BY <1>2, <2>1, <2>2 DEF Shown
  <1>5. ASSUME ~ overtaken PROVE OneCodeAtATime'
    <2>1. /\ ~ full /\ sent # <<>> /\ port60 = sent[Len(sent)] /\ port60 # 0
          /\ Keyboard \notin irr /\ ShowsPresses(shown, ReadCodes)
      BY <1>1, <1>5 DEF KeysInv, OneCodeAtATime
    <2>2. ~ AtEnter' /\ ~ AtSecond'
      BY <1>1, <1>2, <2>1, GotoMoves DEF AtEnter, AtSecond
    <2>3. ReadCodes' = sent
      BY <1>2, <1>3, <2>2, AllRead DEF ReadCodes
    <2>4. ReadCodes = SubSeq(sent, 1, Len(sent) - 1)
      BY <1>1 DEF ReadCodes
    <2>5. PICK L \in Nat :
            /\ Len(sent) = L + 1 /\ DOMAIN sent = 1..(L + 1)
            /\ DOMAIN ReadCodes = 1..L /\ \A n \in 1..L : sent[n] = ReadCodes[n]
      BY <1>3, <2>1, <2>4, ButLast
    <2>6. sent[L + 1] = port60 /\ port60 \in 0..255 /\ port60 # 0
      BY <1>3, <2>1, <2>5
    <2>7. ShowsPresses(shown', sent)
      <3>1. CASE port60 < 128
        <4>1. port60 \in 1..127 /\ shown' = Append(shown, keyboard_table_uk[port60])
          <5>1. shown' = Append(shown, keyboard_table_uk[port60])
            BY <1>2, <2>1, <3>1 DEF Shown
          <5>2. port60 \in 1..127
            BY <2>6, <3>1
          <5> QED BY <5>1, <5>2
        <4>2. keyboard_table_uk[port60] \in Chars
          BY <2>6, <3>1, TableChars
        <4>3. ReadCodes \in Seq(0..255)
          BY <1>3, <2>1, <2>4, ButLast
        <4>4. sent = Append(ReadCodes, port60)
          BY <1>3, <2>1, <2>4
        <4>5. ShowsPresses(Append(shown, keyboard_table_uk[port60]), Append(ReadCodes, port60))
          BY <1>3, <2>1, <4>1, <4>2, <4>3, PressRead
        <4> QED BY <4>1, <4>4, <4>5
      <3>2. CASE ~ (port60 < 128)
        <4>1. shown' = shown
          BY <1>2, <2>1, <3>2 DEF Shown
        <4>2. sent[L + 1] \notin 1..127
          BY <2>6, <3>2
        <4> QED BY <2>1, <2>5, <4>1, <4>2, ReleaseRead
      <3> QED BY <3>1, <3>2
    <2>8. ShowsPresses(shown, ReadCodes)'
      BY <2>3, <2>7 DEF ShowsPresses
    <2> QED BY <1>2, <2>1, <2>2, <2>8 DEF OneCodeAtATime
  <1> QED BY <1>2, <1>3, <1>4, <1>5 DEF KeysInv

\* Every step keeps the account of the keyboard's codes.
LEMMA NextKeepsKeys ==
    ASSUME HandlersInv, KeysInv, [Next]_vars
    PROVE  KeysInv'
PROOF
  <1>1. CASE UNCHANGED vars
    BY <1>1, KeysStay DEF vars, cpuVars, deviceVars, AtEnter, AtSecond
  <1>2. CASE TimerRaises \/ DiskRaises \/ RtcRaises
    BY <1>2, KeysStay DEF TimerRaises, DiskRaises, RtcRaises, cpuVars, AtEnter, AtSecond,
       Timer, Disk, RtcLine, Keyboard
  <1>3. CASE Clock /\ UNCHANGED <<cpuVars, deviceVars>>
    BY <1>3, KeysStay DEF cpuVars, deviceVars, AtEnter, AtSecond
  <1>4. CASE Devices
    BY <1>2, <1>3, <1>4, SendKeepsKeys DEF Devices
  <1>5. CASE TakeInterrupt
    <2>1. frames = <<>>
      BY <1>5 DEF HandlersInv, OneHandler, TakeInterrupt
    <2>2. PICK line \in {Timer, Keyboard, RtcLine, Disk} :
              /\ frames' = <<[irq |-> line, step |-> "enter"]>>
              /\ line \in irr /\ irr' = irr \ {line}
      BY <1>5, <2>1, TakenLine
    <2>3. UNCHANGED <<sent, shown, port60, full, overtaken>>
      BY <1>5 DEF TakeInterrupt
    <2>4. ~ AtSecond /\ ~ AtSecond' /\ ~ AtEnter
      BY <2>1, <2>2 DEF AtSecond, AtEnter
    <2>5. CASE line = Keyboard
      <3>1. ASSUME ~ overtaken PROVE OneCodeAtATime'
        <4>1. full /\ ShowsPresses(shown, ReadCodes)
          BY <2>2, <2>5, <3>1 DEF KeysInv, OneCodeAtATime
        <4>2. ReadCodes' = ReadCodes
          BY <2>3, <2>4 DEF ReadCodes
        <4>3. ShowsPresses(shown, ReadCodes)'
          BY <2>3, <4>1, <4>2 DEF ShowsPresses
        <4> QED BY <2>2, <2>3, <2>4, <2>5, <4>1, <4>3 DEF OneCodeAtATime
      <3> QED BY <2>3, <3>1 DEF KeysInv
    <2>6. CASE line # Keyboard
      <3>1. ~ AtEnter'
        BY <2>2, <2>6 DEF AtEnter
      <3> QED BY <2>2, <2>3, <2>4, <3>1, KeysStay
    <2> QED BY <2>5, <2>6
  <1>6. CASE \/ \E irq \in Spurious : TakeSpurious(irq)
             \/ \E n \in Numbers : Int80(n)
    <2>1. frames = <<>>
      BY <1>6 DEF HandlersInv, OneHandler, TakeSpurious, Int80, AtTask
    <2>2. PICK irq \in Spurious \cup {Syscall} : Enter(irq)
      BY <1>6 DEF TakeSpurious, Int80
    <2>3. frames' = <<[irq |-> irq, step |-> "enter"]>> /\ irq # Keyboard
      BY <2>1, <2>2 DEF Enter, Spurious, Syscall, Keyboard
    <2>4. UNCHANGED <<sent, shown, port60, full, overtaken, irr>>
      BY <1>6 DEF TakeSpurious, Int80, deviceVars
    <2>5. ~ AtSecond /\ ~ AtSecond' /\ ~ AtEnter'
      BY <2>1, <2>3 DEF AtSecond, AtEnter
    <2> QED BY <2>4, <2>5, KeysStay
  <1>7. CASE Exception \/ \E irq \in Removable : Uninstall(irq) \/ Install(irq)
    BY <1>7, KeysStay DEF Exception, Uninstall, Install, deviceVars, AtSecond, AtEnter
  <1>8. CASE NoHandler \/ timer_handler
    <2>1. PICK r \in {"none", "timer"} : Called(r)
      BY <1>8 DEF NoHandler, timer_handler
    <2>2. PICK irq \in Lines : frames = <<[irq |-> irq, step |-> "enter"]>>
      BY <2>1, CalledRunning
    <2>3. Goto("eoi") /\ UNCHANGED <<sent, shown, port60, full, overtaken, irr>>
      BY <1>8 DEF NoHandler, timer_handler, deviceVars
    <2>4. frames' = <<[irq |-> irq, step |-> "eoi"]>>
      BY <2>2, <2>3, GotoMoves
    <2>5. ~ AtSecond /\ ~ AtSecond' /\ ~ AtEnter'
      BY <2>2, <2>4 DEF AtSecond, AtEnter
    <2> QED BY <2>3, <2>5, KeysStay
  <1>9. CASE rtc_handler \/ syscall_handler
    <2>1. PICK r \in {"rtc", "syscall"} : Called(r)
      BY <1>9 DEF rtc_handler, syscall_handler
    <2>2. PICK irq \in Lines : /\ frames = <<[irq |-> irq, step |-> "enter"]>>
                               /\ r = "rtc" => irq = RtcLine
                               /\ r = "syscall" => irq = Syscall
      BY <2>1, CalledRunning
    <2>3. irq # Keyboard
      BY <2>2 DEF Keyboard, RtcLine, Syscall
    <2>4. /\ UNCHANGED frames \/ Goto("read") \/ Goto("eoi") \/ Goto("time")
          /\ UNCHANGED <<sent, shown, port60, full, overtaken, irr>>
      BY <1>9 DEF rtc_handler, syscall_handler, deviceVars
    <2>5. \E s : frames' = <<[irq |-> irq, step |-> s]>>
      BY <2>2, <2>4, GotoMoves
    <2>6. ~ AtSecond /\ ~ AtSecond' /\ ~ AtEnter'
      BY <2>2, <2>3, <2>5 DEF AtSecond, AtEnter
    <2> QED BY <2>4, <2>6, KeysStay
  <1>10. CASE ReadRtc \/ SysTime
    <2>1. PICK irq \in {RtcLine, Syscall}, step \in {"read", "time"} : At(irq, step)
      BY <1>10 DEF ReadRtc, SysTime
    <2>2. frames = <<[irq |-> irq, step |-> step]>>
      BY <2>1, AtRunning
    <2>3. irq # Keyboard
      BY <2>1 DEF Keyboard, RtcLine, Syscall
    <2>4. /\ UNCHANGED frames \/ Goto("eoi")
          /\ UNCHANGED <<sent, shown, port60, full, overtaken, irr>>
      BY <1>10 DEF ReadRtc, SysTime, deviceVars
    <2>5. \E s : frames' = <<[irq |-> irq, step |-> s]>>
      BY <2>2, <2>4, GotoMoves
    <2>6. ~ AtSecond /\ ~ AtSecond' /\ ~ AtEnter'
      BY <2>2, <2>3, <2>5 DEF AtSecond, AtEnter
    <2> QED BY <2>4, <2>6, KeysStay
  <1>11. CASE Return
    <2>1. frames # <<>> /\ Inner.step = "eoi"
      BY <1>11 DEF Return
    <2>2. PICK irq \in Lines : \E step \in Steps(irq) :
              frames = <<[irq |-> irq, step |-> step]>> /\ Inner = [irq |-> irq, step |-> step]
      BY <2>1, Running
    <2>3. frames = <<[irq |-> irq, step |-> "eoi"]>>
      BY <2>1, <2>2
    <2>4. frames' = <<>> /\ UNCHANGED <<sent, shown, port60, full, overtaken, irr>>
      BY <1>11, <2>3 DEF Return
    <2>5. ~ AtSecond /\ ~ AtSecond' /\ ~ AtEnter'
      BY <2>3, <2>4 DEF AtSecond, AtEnter
    <2> QED BY <2>4, <2>5, KeysStay
  <1> QED BY <1>1, <1>4, <1>5, <1>6, <1>7, <1>8, <1>9, <1>10, <1>11,
             FirstReadKeepsKeys, SecondReadKeepsKeys DEF Next, Processor

\* Every key pressed is shown once and in order, as long as no code comes while
\* keyboard_handler is between its reads: for any number of codes, and with the
\* handler taken away and installed again at any time.
THEOREM KeysInOrderHolds == Spec => []KeysInOrder
PROOF
  <1> DEFINE Inv == HandlersInv /\ KeysInv
  <1>1. Init => Inv
    <2> SUFFICES ASSUME Init PROVE Inv
      OBVIOUS
    <2>1. HandlersInv
      BY HandlersInitially
    <2>2. /\ sent = <<>> /\ shown = <<>> /\ port60 = 0 /\ full = FALSE /\ overtaken = FALSE
          /\ irr = {} /\ frames = <<>>
      BY DEF Init
    <2>3. ~ AtEnter /\ ~ AtSecond
      BY <2>2 DEF AtEnter, AtSecond
    <2>4. ReadCodes = <<>>
      BY <2>2, <2>3 DEF ReadCodes
    <2>5. ShowsPresses(shown, ReadCodes)
      <3>1. DOMAIN shown = {} /\ DOMAIN ReadCodes = {}
        BY <2>2, <2>4
      <3>2. [n \in {} |-> 0] \in [{} -> {}]
        OBVIOUS
      <3> QED BY <3>1, <3>2 DEF ShowsPresses
    <2>6. OneCodeAtATime
      BY <2>2, <2>3, <2>5 DEF OneCodeAtATime
    <2>7. sent \in Seq(0..255) /\ shown \in Seq(Chars)
      BY <2>2
    <2>8. port60 \in 0..255 /\ full \in BOOLEAN /\ overtaken \in BOOLEAN /\ ~ full
      <3>1. port60 \in 0..255
        BY DEF Init
      <3> QED BY <2>2, <3>1
    <2> QED BY <2>1, <2>6, <2>7, <2>8 DEF KeysInv
  <1>2. Inv /\ [Next]_vars => Inv'
    BY NextKeepsHandlers, NextKeepsKeys
  <1>3. Inv => KeysInOrder
    <2> SUFFICES ASSUME HandlersInv, KeysInv, ~ overtaken PROVE KeysInOrder
      BY DEF KeysInOrder
    <2>1. At(Keyboard, "second") <=> AtSecond
      <3>1. At(Keyboard, "second") => AtSecond
        BY AtRunning DEF AtSecond
      <3>2. AtSecond => At(Keyboard, "second")
        BY DEF AtSecond, At, Inner, HandlersInv
      <3> QED BY <3>1, <3>2
    <2>2. ShowsPresses(shown, ReadCodes)
      BY DEF KeysInv, OneCodeAtATime
    <2> QED BY <2>1, <2>2 DEF KeysInOrder, ReadCodes
  <1> QED BY <1>1, <1>2, <1>3, PTL DEF Spec
=============================================================================

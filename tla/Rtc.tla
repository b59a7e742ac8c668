--------------------------------- MODULE Rtc ---------------------------------
(***************************************************************************)
(* Reading the clock (src/drivers/rtc.c: read_rtc), one register at a      *)
(* time, while the clock goes on.  Interrupts calls it from rtc_handler.   *)
(*                                                                         *)
(* The clock is external: it announces an update by a flag longer ahead    *)
(* (244 microseconds) than it takes to read the registers, and keeps hours *)
(* and numbers in one of four formats.  century_register is 0 throughout:  *)
(* no code sets it.                                                        *)
(***************************************************************************)
EXTENDS Integers, Sequences

CONSTANTS
    Moments         \* successive times: <<second, minute, hour, day, month, year>>

CURRENT_YEAR == 2017

ASSUME RtcAssumption ==
    /\ Moments # <<>>
    /\ Moments \in Seq((0..59) \X (0..59) \X (0..23) \X (1..31) \X (1..12)
                        \X (CURRENT_YEAR..(CURRENT_YEAR + 99)))

VARIABLES
    now,            \* the clock: an index of Moments
    uip, late,      \* an update is announced; it was announced during a read
    mode,           \* register B: [binary, day24]
    pc,             \* "idle", "poll" or "read"
    regs,           \* registers read so far
    time,           \* second, minute, hour, day, month and year
    began           \* history: the moment when the polling loop ended

rtcVars == <<now, uip, late, mode, pc, regs, time, began>>

-----------------------------------------------------------------------------
(* The clock.                                                              *)

Bcd(v) == 16 * (v \div 10) + (v % 10)
Stored(v) == IF mode.binary THEN v ELSE Bcd(v)

\* In the 12 hour format the hours are 12, 1, ..., 11 with a bit for the afternoon.
StoredHour(h) ==
    IF mode.day24 THEN Stored(h)
    ELSE Stored(IF h % 12 = 0 THEN 12 ELSE h % 12) + (IF h >= 12 THEN 128 ELSE 0)

Register(n) ==
    LET v == Moments[now][n] IN
    CASE n = 3 -> StoredHour(v) [] n = 6 -> Stored(v % 100) [] OTHER -> Stored(v)

BeginUpdate ==
    /\ ~uip /\ now < Len(Moments)
    /\ uip' = TRUE /\ late' = (pc = "read")
    /\ UNCHANGED <<now, mode, pc, regs, time, began>>

EndUpdate ==
    /\ uip /\ ~(late /\ pc = "read")
    /\ uip' = FALSE /\ late' = FALSE /\ now' = now + 1
    /\ UNCHANGED <<mode, pc, regs, time, began>>

-----------------------------------------------------------------------------
(* The driver.                                                             *)

FromBcd(v) == (v % 16) + (v \div 16) * 10

\* The flag for the afternoon is kept apart from the digits.
Hour(v) ==
    LET pm == IF v >= 128 THEN 128 ELSE 0
        h == IF mode.binary THEN v
             ELSE (v % 16) + ((v % 128) \div 16) * 10 + pm
    IN  IF ~mode.day24 /\ h >= 128 THEN ((h % 128) + 12) % 24 ELSE h

\* The year is the first one from CURRENT_YEAR on that ends in the two digits.
Year(v) ==
    LET y == v + (CURRENT_YEAR \div 100) * 100
    IN  IF y < CURRENT_YEAR THEN y + 100 ELSE y

Decoded(r) ==
    LET plain(v) == IF mode.binary THEN v ELSE FromBcd(v)
    IN  <<plain(r[1]), plain(r[2]), Hour(r[3]), plain(r[4]), plain(r[5]), Year(plain(r[6]))>>

\* The static variables are 0 before the first interrupt.
RtcInit ==
    /\ now = 1 /\ uip = FALSE /\ late = FALSE
    /\ mode \in [binary : BOOLEAN, day24 : BOOLEAN]
    /\ pc = "idle" /\ regs = <<>> /\ time = <<0, 0, 0, 0, 0, 0>> /\ began = 0

\* read_rtc is called.
StartRead ==
    /\ pc = "idle"
    /\ pc' = "poll"
    /\ UNCHANGED <<now, uip, late, mode, regs, time, began>>

\* Defect: the flag is not waited for.
PollOnce ==
    /\ pc = "poll"
    /\ pc' = "read" /\ regs' = <<>> /\ began' = now
    /\ UNCHANGED <<now, uip, late, mode, time>>

\* The polling loop ends.
Poll ==
    /\ pc = "poll" /\ ~uip
    /\ pc' = "read" /\ regs' = <<>> /\ began' = now
    /\ UNCHANGED <<now, uip, late, mode, time>>

ReadRegister ==
    /\ pc = "read" /\ Len(regs) < 6
    /\ regs' = Append(regs, Register(Len(regs) + 1))
    /\ UNCHANGED <<now, uip, late, mode, pc, time, began>>

\* Register B is read and the values are converted.
Convert ==
    /\ pc = "read" /\ Len(regs) = 6
    /\ time' = Decoded(regs) /\ regs' = <<>>
    /\ pc' = "idle"
    /\ UNCHANGED <<now, uip, late, mode, began>>

Clock == BeginUpdate \/ EndUpdate
ReadStep == Poll \/ ReadRegister \/ Convert

-----------------------------------------------------------------------------
(* Properties.                                                             *)

Known == pc = "idle" /\ began # 0

\* In every format the six values are those of one moment, the one at which the
\* flag was last seen clear: no mixture of two times, though the update may come
\* at any point.  The hour is left out when a 12 hour clock shows 12: read_rtc then
\* stores 12 for midnight and 0 for noon.
TimeRight ==
    Known => \A n \in 1..6 :
        n # 3 \/ mode.day24 \/ Moments[began][3] % 12 # 0 => time[n] = Moments[began][n]
=============================================================================

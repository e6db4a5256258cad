--------------------------------- MODULE Tod ---------------------------------
(***************************************************************************)
(* The time of day clock of a CIA (src/c64/CIA/tod.h, tod.cpp): four BCD   *)
(* registers advanced by a divider of the power supply's frequency, a      *)
(* latch that holds still what is read, and an alarm.                      *)
(*                                                                         *)
(* A tick of the power supply is the action Tick; its distance, period, is *)
(* always a whole number of cycles, so that the fraction that event()      *)
(* keeps is zero. Between ticks the CPU reads and writes registers.        *)
(***************************************************************************)
EXTENDS Integers

CONSTANTS
  Programs,   \* what the CPU does: see Program
  MaxTenths   \* bound: tenths counted since the last reset

TENTHS == 0
SECONDS == 1
MINUTES == 2
HOURS == 3
Register == TENTHS .. HOURS

\* The values it writes to the registers, and whether it reads them, uses the alarm
\* and changes the frequency.
Program ==
  [writes : [Register -> SUBSET (0 .. 255)], reads : BOOLEAN, alarm : BOOLEAN, frequency : BOOLEAN]

VARIABLES
  program,                  \* one of Programs
  clock, latch, alarm,      \* m_clock, m_latch, m_alarm
  isLatched, isStopped,
  ring,                     \* todtickcounter
  cra7, crb7,               \* the frequency, and what is written: clock or alarm
  alarmed,                  \* todInterrupt() was called in this step
  shown,                    \* the clock when the hours were read, or an empty sequence
  ticks,                    \* ticks since the last tenth; -1 if the divider was disturbed
  tenths

settings == <<cra7, crb7>>
times == <<clock, latch, alarm>>
vars == <<program, clock, latch, alarm, isLatched, isStopped, ring, cra7, crb7, alarmed, shown, ticks, tenths>>

Midnight == [r \in Register |-> 0]
Start == [Midnight EXCEPT ![HOURS] = 1]

\* checkAlarm(): whether it calls todInterrupt().
CheckAlarm(c, a) == a = c

-----------------------------------------------------------------------------
(* updateCounters(): digits that carry.  Every counter has a width, which  *)
(* tells what becomes of digits that are none.                             *)

Low(b) == b % 16
High(b) == (b \div 16) % 8

\* The next value of a counter, and whether it carries.
Digit(v, limit, width) ==
  LET n == (v + 1) % width IN IF n = limit THEN <<0, TRUE>> ELSE <<n, FALSE>>

\* Seconds or minutes after a carry from below.
Sixty(b) ==
  LET low  == Digit(Low(b), 10, 16)
      high == IF low[2] THEN Digit(High(b), 6, 8) ELSE <<High(b), FALSE>>
  IN <<16 * high[1] + low[1], high[2]>>

\* A variant: the day changes half when twelve hours have passed.
HourLate(b) ==
  LET hl == Low(b)  hh == (b \div 16) % 2  pm == b \div 128
  IN IF <<hh, hl>> = <<1, 2>> THEN 1 + 128 * (1 - pm)
     ELSE IF <<hh, hl>> = <<0, 9>> THEN 16 + 128 * pm
     ELSE ((hl + 1) % 16) + 16 * hh + 128 * pm

\* The hours: from 12 to 1, from 9 to 10; at 12 the half of the day changes.
Hour(b) ==
  LET hl == Low(b)  hh == (b \div 16) % 2  pm == b \div 128
      next == (hl + 1) % 16
  IN IF <<hh, hl>> = <<1, 2>> THEN 1 + 128 * pm
     ELSE IF <<hh, hl>> = <<0, 9>> THEN 16 + 128 * pm
     ELSE next + 16 * hh + 128 * IF <<hh, next>> = <<1, 2>> THEN 1 - pm ELSE pm

UpdateCounters(c) ==
  LET tenth   == Digit(Low(c[TENTHS]), 10, 16)
      second  == IF tenth[2] THEN Sixty(c[SECONDS]) ELSE <<c[SECONDS], FALSE>>
      minute  == IF second[2] THEN Sixty(c[MINUTES]) ELSE <<c[MINUTES], FALSE>>
      hour    == IF minute[2] THEN Hour(c[HOURS]) ELSE c[HOURS]
  IN [c EXCEPT ![TENTHS] = tenth[1], ![SECONDS] = second[1], ![MINUTES] = minute[1], ![HOURS] = hour]

-----------------------------------------------------------------------------
(* The power supply.                                                       *)

\* The ring counter goes 000, 100, 110, 111, 011, 001; the frequency chooses its match.
Match == 1 + 2 * cra7
NextRing(r) == (r \div 2) + 4 * (1 - (r % 2))

Tick ==
  /\ IF isStopped \/ ring # Match
     THEN /\ ring' = IF isStopped THEN ring ELSE NextRing(ring)
          /\ ticks' = IF ticks = -1 \/ isStopped THEN ticks ELSE ticks + 1
          /\ alarmed' = FALSE
          /\ UNCHANGED <<clock, tenths>>
     ELSE /\ tenths < MaxTenths
          /\ ring' = 0 /\ ticks' = 0
          /\ clock' = UpdateCounters(clock)
          /\ alarmed' = CheckAlarm(clock', alarm)
          /\ tenths' = tenths + 1
  /\ UNCHANGED <<program, settings, latch, alarm, isLatched, isStopped, shown>>

-----------------------------------------------------------------------------
(* The CPU.                                                                *)

\* A variant: the minutes are not held still.
LatchLate == IF isLatched THEN [latch EXCEPT ![MINUTES] = clock[MINUTES]] ELSE clock

Latch == IF isLatched THEN latch ELSE clock

\* read(): the hours hold the time still until the tenths are read.
Read(reg) ==
  /\ program.reads
  /\ latch' = Latch
  /\ isLatched' = (reg = HOURS \/ (isLatched /\ reg # TENTHS))
  /\ shown' = CASE reg = TENTHS -> <<>>
                [] reg = HOURS /\ shown = <<>> -> clock
                [] OTHER -> shown
  /\ alarmed' = FALSE
  /\ UNCHANGED <<program, settings, clock, alarm, isStopped, ring, ticks, tenths>>

\* The bits that a register has; 12 hours change the half of the day when they are
\* written to the clock.
Masked(reg, data) ==
  LET hour == (data % 32) + 128 * (data \div 128)
  IN CASE reg = TENTHS -> data % 16
       [] reg \in {SECONDS, MINUTES} -> data % 128
       [] reg = HOURS -> IF hour % 32 = 18 /\ crb7 = 0 THEN (hour + 128) % 256 ELSE hour

\* A variant: an alarm that is set to the present time waits for the next day.
WriteAlarmSilent(reg, data) ==
  /\ alarm' = [alarm EXCEPT ![reg] = Masked(reg, data)]
  /\ alarmed' = FALSE
  /\ UNCHANGED <<clock, isStopped, ring, ticks>>

WriteAlarm(reg, data) ==
  /\ alarm' = [alarm EXCEPT ![reg] = Masked(reg, data)]
  /\ alarmed' = (alarm' # alarm /\ CheckAlarm(clock, alarm'))
  /\ UNCHANGED <<clock, isStopped, ring, ticks>>

\* Writing the hours stops the clock, writing the tenths starts it.
WriteClock(reg, data) ==
  LET starts == reg = TENTHS /\ isStopped
  IN /\ clock' = [clock EXCEPT ![reg] = Masked(reg, data)]
     /\ isStopped' = (reg = HOURS \/ (isStopped /\ ~starts))
     /\ ring' = IF starts THEN 0 ELSE ring
     /\ ticks' = IF starts THEN 0 ELSE IF reg = HOURS THEN -1 ELSE ticks
     /\ alarmed' = (clock' # clock /\ CheckAlarm(clock', alarm))
     /\ UNCHANGED alarm

Write(reg, data) ==
  /\ IF crb7 = 1 THEN WriteAlarm(reg, data) ELSE WriteClock(reg, data)
  /\ UNCHANGED <<program, settings, latch, isLatched, shown, tenths>>

\* Writes to the control registers.
WriteControlA ==
  /\ program.frequency
  /\ cra7' = 1 - cra7
  /\ ticks' = -1 /\ alarmed' = FALSE
  /\ UNCHANGED <<program, crb7, times, isLatched, isStopped, ring, shown, tenths>>
WriteControlB ==
  /\ program.alarm
  /\ crb7' = 1 - crb7
  /\ alarmed' = FALSE
  /\ UNCHANGED <<program, cra7, times, isLatched, isStopped, ring, shown, ticks, tenths>>

\* reset(); the control registers are cleared by MOS652X::reset().
Reset ==
  /\ clock' = Start /\ latch' = Start /\ alarm' = Midnight
  /\ isLatched' = FALSE /\ isStopped' = TRUE /\ ring' = 0
  /\ cra7' = 0 /\ crb7' = 0
  /\ alarmed' = FALSE /\ shown' = <<>> /\ ticks' = -1 /\ tenths' = 0
  /\ UNCHANGED program

Init ==
  /\ program \in Programs
  /\ clock = Start /\ latch = Start /\ alarm = Midnight
  /\ isLatched = FALSE /\ isStopped = TRUE /\ ring = 0
  /\ cra7 = 0 /\ crb7 = 0
  /\ alarmed = FALSE /\ shown = <<>> /\ ticks = -1 /\ tenths = 0

Next ==
  \/ Tick
  \/ \E reg \in Register : Read(reg)
  \/ \E reg \in Register : \E data \in program.writes[reg] : Write(reg, data)
  \/ WriteControlA \/ WriteControlB
  \/ Reset

Spec == Init /\ [][Next]_vars

-----------------------------------------------------------------------------

\* A time that a clock shows.
IsTime(c) ==
  /\ Low(c[TENTHS]) < 10
  /\ \A r \in {SECONDS, MINUTES} : Low(c[r]) < 10 /\ High(c[r]) < 6
  /\ c[HOURS] % 128 \in {1, 2, 3, 4, 5, 6, 7, 8, 9, 16, 17, 18}

\* The tenths since midnight.
Decimal(b) == 10 * High(b) + Low(b)
SinceMidnight(c) ==
  LET hour == (Decimal(c[HOURS] % 128) % 12) + 12 * (c[HOURS] \div 128)
  IN c[TENTHS] + 10 * (Decimal(c[SECONDS]) + 60 * (Decimal(c[MINUTES]) + 60 * hour))

\* From one tenth to the next the clock moves on by a tenth of a second, through every
\* carry and around noon and midnight, and it does so after five ticks of the power
\* supply at 50 Hz and six at 60 Hz, unless it was stopped or the frequency changed.
Advances == tenths' = tenths + 1
KeepsTime ==
  [][Advances =>
       /\ ticks \in {-1, 5 - cra7}
       /\ IsTime(clock) => IsTime(clock') /\ SinceMidnight(clock') = (SinceMidnight(clock) + 1) % 864000]_vars

\* What is read from the hours down to the tenths is one time, that of the moment when
\* the hours were read, although the clock goes on or is written; without the hours,
\* it is the present time.
OneMoment ==
  [][\A reg \in Register :
       Read(reg) => latch'[reg] = IF shown = <<>> THEN clock[reg] ELSE shown[reg]]_vars

\* The alarm goes off exactly when clock and alarm become the same, whichever of the
\* two moved, and not again while they stay so.
AlarmOnce == [][alarmed' <=> alarm' = clock' /\ alarm # clock]_vars

=============================================================================
